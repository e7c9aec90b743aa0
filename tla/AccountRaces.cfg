SPECIFICATION Spec
CONSTANTS
    r1 = r1
    r2 = r2
    p1 = p1
    p2 = p2
    Requests = {r1, r2}
    Passwords = {p1, p2}
    MaxTries = 2
    MaxLogins = 1
    MaxCodes = 2
    MaxRequests = 5
SYMMETRY AccountSymmetry
INVARIANTS PurposeKept VerifiedIsProved NoStrandedUser LockoutEnds
CHECK_DEADLOCK FALSE
