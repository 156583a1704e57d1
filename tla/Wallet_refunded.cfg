CONSTANTS
    Donor = {d1, d2}
    External = {x1}
    Cents = {2}
    Prices = {1, 2}
    Shipping = {0, 1}
    Adjustments <- Debits
    Listed = {o1}
    Custom = {o2}
    Stock = 2
    Target = 2
    Staff = {r1, r2}
    MaxSpends = 2
    MaxRequests = 2
SPECIFICATION Spec
SYMMETRY Sym
INVARIANT RefundedOnce
