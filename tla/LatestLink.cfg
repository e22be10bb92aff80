CONSTANTS
    Runs = {r1, r2, r3}
    Earlier = Earlier
    MaxFaults = 1
    MaxCrashes = 1
SPECIFICATION Spec
INVARIANTS TypeOK NeverDangles RefusedOnlyIfDisturbed LinkOfLast
