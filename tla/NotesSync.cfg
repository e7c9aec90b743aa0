SPECIFICATION Spec
CONSTANTS
    d1 = d1
    d2 = d2
    Devices = {d1, d2}
    Notes = {1}
    Folders = {2, 3}
    Old = {{2}, {2, 3}}
    Limit = 1
    Retention = 0
    Batch = 1
    Pool = 2
    MaxMutations = 2
    MaxWrites = 2
    MaxTime = 2
SYMMETRY DeviceSymmetry
INVARIANTS TypeOK VersionNamesState PullMissesOnlyLate PushesMove
PROPERTY Replicates
