CONSTANTS
    d1 = d1
    d2 = d2
    Donation = {d1, d2}
    Channel = {c1, c2}
    Event = {e1, e2}
    None = None
    Amount <- Amounts
    MaxChanges = 3
    MaxQueue = 3
SPECIFICATION Spec
SYMMETRY Sym
INVARIANTS InStep NativeInStep
