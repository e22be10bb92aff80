CONSTANTS
    Procs = {p1, p2}
    Ops = {"create", "destroy", "apply", "clear"}
    SerialOps = {"destroy"}
    Requests <- MCRequests
    MaxFaults = 2
    MaxCrashes = 0
    FaultyCleanup = FALSE
    HostRules = {}
    MaxNodes = 2
    RuleCount = 2
    HostForward = 0
    NoState = NoState
SPECIFICATION Spec
SYMMETRY Symmetry
INVARIANTS TypeOK OneBuilder UnrecordedIsRestored RecordedForwardIsOriginal
PROPERTIES ImplementsLifecycle
