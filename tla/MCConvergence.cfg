CONSTANTS
    Payload = {1, 2}
    Shape <- SameShape
    MaxVersions = 7
    MaxFaults = 2
    MaxEnv = 2
SPECIFICATION PartsSpec
INVARIANTS TypesOK MarkerTruthful SkipsCompleted JamfConsistent SourcesSound
PROPERTIES OthersWorkKept ReconcileConverges InputsCatchUp DestinationsConverge
