CONSTANTS
    d1 = d1
    d2 = d2
    Donor = {d1, d2}
    None = None
    Request = {r1}
    Allowed <- Lists
    MaxTokens = 2
    MaxStaff = 1
SPECIFICATION Spec
INVARIANTS DeadTokensStayDead ActsAsGranted 
