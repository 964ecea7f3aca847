CONSTANTS
    c1 = c1
    c2 = c2
    a1 = a1
    d1 = d1
    h = h
    Connectors = {c1, c2}
    Callers = {a1}
    Disconnectors = {d1}
    health = h
    Nobody = Nobody
    MaxGrants = 2
    MaxRotations = 1
    MaxFaults = 1
SPECIFICATION FairSpec
INVARIANTS TypeOK RefreshOwnsConnection StoredIsCurrent AppliedAtMostOnce
CHECK_DEADLOCK FALSE
PROPERTY DisconnectIsServed
