SPECIFICATION FairSpec
CONSTANTS
    u1 = u1
    u2 = u2
    k1 = k1
    k2 = k2
    UIDs <- MCUIDs
    Kinds <- MCKinds
    KindOf <- MCKindOf
    DeltaKinds <- NoKinds
    ResyncKinds <- MCKinds
    Contents = {a}
    Absent = Absent
    MaxChanges = 3
    MaxListFailures = 1
INVARIANT PipelineInv
INVARIANT StaleOnlyIfTriggered
PROPERTY Converges
PROPERTY MutexReleased
CHECK_DEADLOCK FALSE
