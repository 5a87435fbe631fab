SPECIFICATION FairSpec
CONSTANTS
    r1 = r1
    r2 = r2
    r3 = r3
    Requests = {r1, r2, r3}
    s1 = s1
    s2 = s2
    Nobody = Nobody
    Servers <- TwoServers
    Addresses <- TwoAddresses
    ServerAt <- AtTwo
    Advertised <- AdvertisedTwo
    PRIMARY_FAILOVER_RETRIES = 1
    MaxFaults = 2
INVARIANTS SettledRequestSucceeds AnswerIsFinal
PROPERTY RequestsReturn
CHECK_DEADLOCK FALSE
