\* The service alone, and a disk that is not the configured one.
CONSTANTS
    pi = pi
    ssd = ssd
    other = other
    card = card
    Bare = Bare
    Local = Local
    Nobody = Nobody
    Device = {pi, other, card}
    Partitions <- MCPartitions
    Db <- MCDb
    Full <- MCFull
    Newest = 1
    Statements <- MCStatements
    Configured = "archive"
    Supported = {"vfat", "exfat"}
    Built = pi
    Proc = {service}
    Service = service
    MaxTroubles = 0
    MaxChanges = 2
SPECIFICATION Spec
PROPERTY JobNeedsValidDestination
CHECK_DEADLOCK FALSE
