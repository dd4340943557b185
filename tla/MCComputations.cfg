CONSTANTS
    Proc = {1, 2}
    Provider = {1}
    Config = {"any", "s1"}
    Artifact = {"s2"}
    Mode = {1}
    Environment = {"x", "y"}
    Metadata = {1, 2}
    Output <- Outputs
    Outcome <- OutcomeOf
    Observation <- ObservedOf
    Derives = FALSE
    Nothing = Nothing
    MaxRuns = 3
SPECIFICATION PartsSpec
INVARIANTS TypeOK SelectionSound MetadataSettles CatalogSound TreesSound SoftwareSound
PROPERTIES Uncached PluginsSound
