SPECIFICATION Spec
CONSTANTS
    Peers = {p1, p2}
    ConnIds = {i1, i2}
    Imsis = {s1, s2}
    Plmns = {}
    Lacs = {l1}
    Cis = {c1}
    Positions = {x1}
    NoPart = NoPart
    NULL = NULL
    RequestCells <- LacCiCells
    Outages <- ResetOutages
SYMMETRY Symmetry
INVARIANT OnlyReadyPeersHaveConns
INVARIANT SamePeerOnBothSides
INVARIANT SubscrUseIsExact
INVARIANT DiscardAllIsTheLoop
PROPERTY OrphansAreReset
PROPERTY OneBscAtATime
PROPERTY ImplementsService
