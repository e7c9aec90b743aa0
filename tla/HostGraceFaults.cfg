SPECIFICATION GraceSpec
CONSTANTS
    phone = phone
    laptop = laptop
    Conns = {phone, laptop}
    Retries = 1
    Faults = TRUE
    MaxStarts = 2
    MaxDrops = 2
INVARIANTS OneNoticePerGrace
SYMMETRY Devices
