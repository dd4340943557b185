CONSTANTS
    Proc = {p1, p2}
    Digest = {d1}
    Key = {k1}
    Plugin = {}
    Size <- MCSize
    MaxSize = 2
    Grace = 1
    MaxNow = 3
    MaxRuns = 1
    MaxFaults = 1
    Faults = {"crash", "cancel", "bitrot", "touch"}
SYMMETRY MCSymmetry
SPECIFICATION Spec
INVARIANTS TypeOK LiveWorkKept
PROPERTIES LeasedContentKept CollectionSound
CHECK_DEADLOCK FALSE
