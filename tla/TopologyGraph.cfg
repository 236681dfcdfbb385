SPECIFICATION FairSpec
CONSTANTS
    Nodes = {a, b, c}
    Links = {l1, l2, l3}
    None = None
INVARIANT KahnInv
INVARIANT VerdictIsRight
INVARIANT OnlyPaths
INVARIANT AllPaths
INVARIANT VisitedIsTrail
INVARIANT TrailInv
INVARIANT SearchAhead
INVARIANT NoLoopMet
PROPERTY Terminates
CHECK_DEADLOCK FALSE
