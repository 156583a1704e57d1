CONSTANTS
    Donor = {d1, d2}
    MaxCents = 2
    MaxSessions = 3
    MaxCloses = 1
    MaxFaults = 1
SPECIFICATION FairSpec
PROPERTIES CascadeEnds PaymentSettles
CHECK_DEADLOCK FALSE
