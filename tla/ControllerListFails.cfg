SPECIFICATION FairSpec
CONSTANTS
    u1 = u1
    u2 = u2
    k1 = k1
    k2 = k2
    UIDs <- MCUIDs
    Kinds <- MCKinds
    KindOf <- MCKindOf
    DeltaKinds <- NoKinds
    ResyncKinds <- NoKinds
    Contents = {a, b}
    Absent = Absent
    MaxChanges = 2
    MaxListFailures = 1
PROPERTY Converges
CHECK_DEADLOCK FALSE
