CONSTANTS
    Procs = {p1, p2, p3}
    Ops = {"create", "destroy", "apply", "clear"}
    SerialOps = {"create"}
    Requests <- MCRequests
    MaxFaults = 1
    MaxCrashes = 0
    FaultyCleanup = FALSE
    HostRules = {}
    MaxNodes = 2
    RuleCount = 2
    HostForward = 0
    NoState = NoState
SPECIFICATION Spec
SYMMETRY Symmetry
INVARIANTS NoStuckQdisc
PROPERTIES ForgetLast ImplementsLifecycle
