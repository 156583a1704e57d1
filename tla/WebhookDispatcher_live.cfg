CONSTANTS
    Dest = {d1}
    Drainers = {k1}
    MaxSeq = 2
    Legacy = 1
    MaxFaults = 2
    MaxRequeues = 1
SPECIFICATION FairSpec
PROPERTY
    QueueDrains
