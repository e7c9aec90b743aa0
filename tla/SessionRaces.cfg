SPECIFICATION Spec
CONSTANTS
    r1 = r1
    r2 = r2
    Requests = {r1, r2}
    AccessTTL = 2
    RefreshTTL = 2
    BlockMax = 2
    Batch = 1
    MaxPairs = 3
    MaxRequests = 4
    MaxTime = 4
SYMMETRY RequestSymmetry
INVARIANTS LoggedOutStaysOut ResetRefusesEarlier SpentStaysSpent SessionLasts
 
