SPECIFICATION MembershipsSpec
CONSTANTS
    People = {a, b}
    Founder = a
    Nobody = Nobody
    Calls = {q1, q2}
    MaxCalls = 6
    MaxInvites = 1
INVARIANTS
    NeverOwnerless
CHECK_DEADLOCK FALSE
