CONSTANTS
    Procs = {p1}
    Ops = {"create", "destroy"}
    SerialOps = {}
    Requests <- MCRequests
    MaxFaults = 0
    MaxCrashes = 0
    FaultyCleanup = FALSE
    HostRules = {1}
    MaxNodes = 2
    RuleCount = 2
    HostForward = 0
    NoState = NoState
SPECIFICATION Spec
INVARIANT DestroyKeepsOwnRules
