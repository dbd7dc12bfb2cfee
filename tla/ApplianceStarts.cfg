\* Two processes, two releases, a disk that comes and goes, two troubles.
CONSTANTS
    pi = pi
    ssd = ssd
    other = other
    card = card
    Bare = Bare
    Local = Local
    Nobody = Nobody
    Device = {pi, ssd, card}
    Partitions <- MCPartitions
    Db <- MCDb
    Full <- MCFull
    Newest = 2
    Statements <- MCStatements
    Configured = "archive"
    Supported = {"vfat", "exfat"}
    Built = pi
    Proc = {service, hand}
    Service = service
    MaxTroubles = 2
    MaxChanges = 3
SPECIFICATION Spec
INVARIANTS
    TypeOK
    SchemaIsWhole
    ServesItsSchema
PROPERTIES
    ManifestNeverFalls
    ServiceComesUp
\* The bounds run out: nothing may be left to change.
CHECK_DEADLOCK FALSE
