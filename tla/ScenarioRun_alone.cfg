CONSTANTS
    Me = Me
    Others = {}
    Given = {{}, {"jitter"}}
    Before = {{"delay"}}
    MaxSamples = 2
    MaxFaults = 2
    MaxCrashes = 1
    Hasty = TRUE
    NoState = NoState
SPECIFICATION FairSpec
INVARIANTS TypeOK AllPhases NoImpairmentLeft EventsMatchHost SuccessIsComplete NoPeerOutlivesRun NoUnexplainedFailure
PROPERTIES ImplementsExperiment Termination
