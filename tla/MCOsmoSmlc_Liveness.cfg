SPECIFICATION FairSpec
CONSTANTS
    Peers = {p1}
    ConnIds = {i1, i2}
    Imsis = {s1}
    Plmns = {}
    Lacs = {l1}
    Cis = {c1}
    Positions = {x1}
    NoPart = NoPart
    NULL = NULL
    RequestCells <- LacCiCells
    Outages <- ResetOutages
PROPERTY RequestsEnd
PROPERTY ResetGivesUp
