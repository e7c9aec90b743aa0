SPECIFICATION Spec
CONSTANTS
    host = host
    ann = ann
    bob = bob
    one = one
    two = two
    r1 = r1
    r2 = r2
    Broadcasts = {one}
    Users = {host, ann}
    Creator <- HostOfAll
    Reqs = {r1, r2}
    Ops = {"create", "start", "end", "join"}
    Serial = FALSE
    Faults = FALSE
    MaxCohosts = 3
    MaxRequests = 5
INVARIANT EndClearsParticipants
