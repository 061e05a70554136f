SPECIFICATION IngestFairSpec
CONSTANTS
    Requests = {r1}
    ApiKeys = {k1}
    Ids = {n1, p1}
    Attributed = {p1}
    Foreign = {}
    Faults = FALSE
PROPERTIES
    EveryIdIsRecorded
