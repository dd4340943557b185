CONSTANTS
    Proc = {p1, p2}
    Res = {1, 2}
    Producers <- Chain
    Publication <- Pairs
    Requires <- Peers
    Local = {2}
    Decl = {1, 2}
    Content = {1, 2}
    Projects <- Shared
    Sources <- First
    MaxFaults = 1
    MaxEnv = 2
SPECIFICATION FairSpec
INVARIANTS TypeOK OneObservation ReportedOnce
PROPERTIES Serialized RejectedKept PeersFirst Converges
