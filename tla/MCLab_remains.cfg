CONSTANTS
    Procs = {p1, p2}
    Ops = {"create", "destroy", "apply"}
    SerialOps = {"create", "apply"}
    Requests <- MCRequests
    MaxFaults = 1
    MaxCrashes = 1
    FaultyCleanup = TRUE
    HostRules = {1}
    MaxNodes = 2
    RuleCount = 2
    HostForward = 0
    NoState = NoState
SPECIFICATION FairSpec
INVARIANTS NothingBesideRecord RuleOnce
PROPERTIES ForgetLast Termination RetriedDestroyConverges
