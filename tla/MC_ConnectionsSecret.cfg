CONSTANTS
    c1 = c1
    c2 = c2
    a1 = a1
    d1 = d1
    h = h
    Connectors = {c1}
    Callers = {}
    Disconnectors = {d1}
    health = h
    Nobody = Nobody
    MaxGrants = 2
    MaxRotations = 1
    MaxFaults = 0
SPECIFICATION Spec
PROPERTY SecretGoneFirst
CHECK_DEADLOCK FALSE
