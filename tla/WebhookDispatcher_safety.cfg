CONSTANTS
    Dest = {d1}
    Drainers = {k1, k2}
    MaxSeq = 3
    Legacy = 1
    MaxFaults = 2
    MaxRequeues = 2
SPECIFICATION Spec
SYMMETRY Sym
INVARIANTS
    TypeOK
    SingleFlight
    NoOvertaking
    NothingLost
    NoLostWake
PROPERTY
    ImplementsQueue
