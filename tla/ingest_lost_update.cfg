SPECIFICATION IngestSpec
CONSTANTS
    Requests = {r1, r2}
    ApiKeys = {k1, k2}
    Ids = {p1, p2}
    Attributed = {p1, p2}
    Foreign = {}
    Faults = FALSE
INVARIANTS
    SummariesAreComplete
