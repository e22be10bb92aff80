CONSTANTS
    Me = Me
    Others = {p}
    Given = {{}}
    Before = {{}}
    MaxSamples = 2
    MaxFaults = 0
    MaxCrashes = 0
    Hasty = FALSE
    NoState = NoState
SPECIFICATION Spec
INVARIANTS AllPhases NoImpairmentLeft SuccessIsComplete
