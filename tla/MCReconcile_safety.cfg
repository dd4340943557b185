CONSTANTS
    Res = {1, 2}
    BranchOf <- OwnBranches
    Content = {1, 2}
    Meta = {1, 2}
    MaxHead = 2
    MaxEnv = 3
    MaxFaults = 1
    Moves = {"push", "close", "delete", "merge", "commit", "source"}
SPECIFICATION Spec
INVARIANTS TypeOK MarkerTruthful
PROPERTIES PersonWorkKept UnresolvedKept NoReopenAtTip
