SPECIFICATION Spec
CONSTANTS
    g = g
    a = a
    Gateways = {g}
    Contents = {a}
    FirstContents = {a}
    Foreign = Foreign
    NoRules = NoRules
    ExtAuth = ExtAuth
    Edits <- MCEdits
    Present = Present
    Absent = Absent
    UIDsPerName = 2
    MaxChanges = 2
    MaxFaults = 0
INVARIANT NoPolicyWithoutGateway
CHECK_DEADLOCK FALSE
