CONSTANTS
    Proc = {p1}
    Family = {"f"}
    Version = {1, 2, 3, 4}
    Catalog = {1, 2}
    Testing = 1
    Base = {"b"}
    MaxCopies = 0
    Content = {1}
    Request <- KeepTwo
    MaxFaults = 0
    MaxEnv = 4
SPECIFICATION Spec
PROPERTIES SlotsForUnprotected
