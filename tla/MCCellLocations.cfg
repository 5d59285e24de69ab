SPECIFICATION Spec
CONSTANTS
    Plmns = {p1, p2}
    Lacs = {l1}
    Cis = {c1, c2}
    Positions = {x1, x2}
    NoPart = NoPart
SYMMETRY Symmetry
INVARIANT TypeOK
INVARIANT NoTwoMatch
PROPERTY AnswerStays
INVARIANT ReadBack
PROPERTY RestoredAtStart
INVARIANT SetIsFound
INVARIANT RemovedIsGone
