CONSTANTS
    Proc = {1}
    Provider = {1}
    Config = {"s1"}
    Artifact = {"s2"}
    Mode = {1}
    Environment = {"x"}
    Metadata = {1}
    Output <- Outputs
    Outcome <- OutcomeOf
    Observation <- ObservedOf
    Derives = TRUE
    Nothing = Nothing
    MaxRuns = 2
SPECIFICATION Spec
INVARIANT DerivedNotReused
CHECK_DEADLOCK FALSE
