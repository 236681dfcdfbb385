SPECIFICATION FairSpec
CONSTANTS
    u1 = u1
    u2 = u2
    k1 = k1
    k2 = k2
    UIDs <- MCUIDs
    Kinds <- MCKinds
    KindOf <- MCKindOf
    DeltaKinds <- MCKinds
    ResyncKinds <- MCKinds
    Contents = {a, b}
    Absent = Absent
    MaxChanges = 3
    MaxListFailures = 0
INVARIANT NothingLost
INVARIANT EventsContinueHistory
INVARIANT LagIsQueued
INVARIANT DeletionsHappened
INVARIANT LeadIsFollowedUp
INVARIANT TopologyIsCurrent
PROPERTY ImplementsCoalescingFeed
PROPERTY Converges
CHECK_DEADLOCK FALSE
