SPECIFICATION Spec
CONSTANTS
    host = host
    ann = ann
    bob = bob
    one = one
    two = two
    r1 = r1
    r2 = r2
    Broadcasts = {one, two}
    Users = {host, ann}
    Creator <- HostOfAll
    Reqs = {r1, r2}
    Ops = {"create", "update", "delete", "start", "end", "join", "leave", "add_cohost", "remove_cohost"}
    Serial = TRUE
    Faults = TRUE
    MaxCohosts = 3
    MaxRequests = 7
INVARIANTS EndClearsParticipants CohostRolesAgree
PROPERTY ActsAtomically
SYMMETRY Alike
