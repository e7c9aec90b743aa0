SPECIFICATION Spec
CONSTANTS
    host = host
    ann = ann
    bob = bob
    one = one
    two = two
    r1 = r1
    r2 = r2
    Broadcasts = {one}
    Users = {host, ann}
    Creator <- HostOfAll
    Reqs = {r1, r2}
    Ops = {"create", "update", "delete", "start", "end", "join", "leave", "add_cohost", "remove_cohost"}
    Serial = FALSE
    Faults = TRUE
    MaxCohosts = 3
    MaxRequests = 6
INVARIANTS HostIsCreator RowsOnlyAfterStart
PROPERTY OnlyCreatorControls
SYMMETRY Slots
