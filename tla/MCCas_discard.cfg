CONSTANTS
    Proc = {p1, p2}
    Digest = {d1}
    Key = {}
    Plugin = {}
    Size <- MCSize
    MaxSize = 2
    Grace = 1
    MaxNow = 1
    MaxRuns = 1
    MaxFaults = 1
    Faults = {"bitrot"}
SPECIFICATION Spec
PROPERTIES DiscardsOnlyCorrupt
CHECK_DEADLOCK FALSE
