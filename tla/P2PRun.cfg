CONSTANTS
    MaxSamples = 3
    MaxFaults = 2
    MaxCrashes = 1
SPECIFICATION FairSpec
INVARIANTS TypeOK NoPeerOutlivesRun ConnectedIsBoth SuccessIsComplete MergedIsFinal NoUnexplainedFailure
PROPERTIES ImplementsExperiment FailFast Termination
