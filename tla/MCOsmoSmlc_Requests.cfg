SPECIFICATION Spec
CONSTANTS
    Peers = {p1}
    ConnIds = {i1, i2}
    Imsis = {s1, s2}
    Plmns = {}
    Lacs = {l1}
    Cis = {c1, c2}
    Positions = {x1}
    NoPart = NoPart
    NULL = NULL
    RequestCells <- MCRequestCells
    Outages <- AnswerOutages
SYMMETRY Symmetry
INVARIANT TypeOK
INVARIANT HeldByRequest
INVARIANT NoUseCountFault
INVARIANT AnsweredOnce
INVARIANT EndsInAnswer
PROPERTY LocationFollowsHandover
