CONSTANTS
    Res = {1}
    BranchOf <- OwnBranches
    Content = {1, 2}
    Meta = {1}
    MaxHead = 1
    MaxEnv = 3
    MaxFaults = 0
    Moves = {"source", "close", "delete"}
SPECIFICATION Spec
PROPERTIES DeclineHonoured
