SPECIFICATION Spec
CONSTANTS
    Ids = {1, 2, 3}
    Times = {1, 2}
    Alts = {0, 1}
    Limits = {0, 3}
    MaxLimit = 2
    MaxChanges = 1
INVARIANTS WalkComplete
PROPERTY CursorAdvances
