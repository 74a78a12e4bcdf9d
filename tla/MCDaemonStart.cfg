CONSTANTS
    c1 = c1
    c2 = c2
    old = old
    new = new
    Client = {c1, c2}
    Old = Old
    Nobody = Nobody
    Build = {old, new}
    BuildOf <- Builds
    Foreign = {Old}
    MaxStartupRetries = 1
    MaxSlow = 1
SPECIFICATION Spec
CHECK_DEADLOCK FALSE
INVARIANTS
    StartCleansUp
PROPERTIES
    CallsEnd
