CONSTANTS
    Procs = {p1}
    Ops = {"create", "destroy"}
    SerialOps = {}
    Requests <- MCRequests
    MaxFaults = 0
    MaxCrashes = 1
    FaultyCleanup = FALSE
    HostRules = {}
    MaxNodes = 2
    RuleCount = 2
    HostForward = 0
    NoState = NoState
SPECIFICATION Spec
INVARIANT DestroyUnblocksCreate
