SPECIFICATION FairSpec
CONSTANTS
    g = g
    a = a
    Gateways = {g}
    Contents = {a, NoRules}
    FirstContents = {a}
    Foreign = Foreign
    NoRules = NoRules
    ExtAuth = ExtAuth
    Edits <- MCEdits
    Present = Present
    Absent = Absent
    UIDsPerName = 2
    MaxChanges = 2
    MaxFaults = 1
INVARIANT RightAtRest
PROPERTY Quiesces
PROPERTY DeletesOnlyUnwanted
CHECK_DEADLOCK FALSE
