CONSTANTS
    Pledge = {p1, p2}
    Donor = {d1, d2}
    Nobody = Nobody
    External = {x1}
    Amounts = {3}
    Prices = {1, 3}
    VoteCents = 1
    Carts <- Shapes
    Spends = {2}
    MaxElsewhere = 2
    Shipping = 1
    MinCharge = 2
    MaxFaults = 1
SPECIFICATION Spec
SYMMETRY Sym
 
PROPERTIES ChargeSound PaymentFulfilsOnce PaidMeansFulfilled
CHECK_DEADLOCK FALSE
