SPECIFICATION FairSpec
CONSTANTS
    Servers = {s1, s2}
    Calls = {c1}
    None = None
    Retries = 1
    MaxTerm = 2
    MaxFaults = 2
    MaxActive = 1
    Listings <- OneUnlisted
    Translated = TRUE
    Standalone = FALSE
INVARIANTS SettledCallSucceeds
PROPERTIES
    CallsReturn CallsKept
CHECK_DEADLOCK FALSE
