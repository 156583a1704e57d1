CONSTANTS
    Donor = {d1, d2, d3}
    MaxCents = 3
    MaxSessions = 3
    MaxCloses = 2
    MaxFaults = 1
SPECIFICATION Spec
SYMMETRY Sym
INVARIANTS  OneLiveOffer OfferMirrorsStripe SoldOnce
    CascadeInOrder UnsoldMeansExhausted
PROPERTY SettledIsFinal
CHECK_DEADLOCK FALSE
