SPECIFICATION Spec
CONSTANTS
    Servers = {s1, s2, s3}
    Calls = {c1, c2}
    None = None
    Retries = 1
    MaxTerm = 2
    MaxFaults = 1
    MaxActive = 1
    Listings <- AllListed
    Translated = FALSE
    Standalone = FALSE
INVARIANTS
    TypeOK
    SettledCallSucceeds
SYMMETRY Interchangeable
CHECK_DEADLOCK FALSE
