CONSTANTS
    Samples = 3
    MaxClock = 4
    MaxResets = 1
SPECIFICATION Spec
INVARIANTS NothingLost OnlyResetsReorder
