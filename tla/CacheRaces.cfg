SPECIFICATION FairSpec
CONSTANTS
    r1 = r1
    r2 = r2
    Requests = {r1, r2}
    Ttl = 2
    LockTtl = 2
    MaxRetries = 2
    MaxWrites = 2
INVARIANTS StaleBounded
PROPERTIES Answered Converges
