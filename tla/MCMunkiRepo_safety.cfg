CONSTANTS
    Proc = {p1, p2}
    Family = {"f"}
    Version = {1, 2}
    Catalog = {1, 2}
    Testing = 1
    Base = {"b"}
    MaxCopies = 1
    Content = {1, 2}
    Request <- Publications
    MaxFaults = 1
    MaxEnv = 1
SPECIFICATION Spec
INVARIANTS TypeOK InstallersAvailable PublishedWhole
PROPERTIES SharedBytesKept
