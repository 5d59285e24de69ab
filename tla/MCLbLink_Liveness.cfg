SPECIFICATION LinkFairSpec
CONSTANTS
    Bsc = p1
    BscConns = {i1, i2}
    Patient = i1
    Peers = {p1}
    ConnIds = {i1, i2}
    Imsis = {s1}
    Plmns = {}
    Lacs = {l1}
    Cis = {c1}
    Positions = {}
    NoPart = NoPart
    NULL = NULL
    RequestCells <- MCRequestCells
    Outages <- FewOutages
INVARIANT BothKnowTheConns
PROPERTY WaitingEnds
PROPERTY ResetIsAnswered
PROPERTY LinkComesUp
