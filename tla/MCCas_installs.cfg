CONSTANTS
    Proc = {p1, p2}
    Digest = {}
    Key = {}
    Plugin = {q1}
    Size <- MCSize
    MaxSize = 1
    Grace = 1
    MaxNow = 3
    MaxRuns = 1
    MaxFaults = 1
    Faults = {"crash", "cancel", "touch", "torn"}
SPECIFICATION FairSpec
INVARIANTS MarkerMeansStaged
PROPERTIES ExecutedInPlace CommandsEnd
CHECK_DEADLOCK FALSE
