SPECIFICATION FairSpec
CONSTANTS
    c1 = c1
    c2 = c2
    Calls = {c1, c2}
    FailureThreshold = 3
    SuccessThreshold = 2
INVARIANTS OpenRemembersFailure NoStaleSuccesses
PROPERTIES Opens Recovers
