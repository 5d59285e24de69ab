SPECIFICATION LinkSpec
CONSTANTS
    Bsc = p1
    BscConns = {i1}
    Patient = i1
    Peers = {p1, p2}
    ConnIds = {i1, i2}
    Imsis = {s1, s2}
    Plmns = {}
    Lacs = {l1}
    Cis = {c1}
    Positions = {}
    NoPart = NoPart
    NULL = NULL
    RequestCells <- MCRequestCells
    Outages <- ManyOutages
SYMMETRY Symmetry
INVARIANT LinkTypeOK
INVARIANT BothKnowTheConns
INVARIANT ServedAsAsked
