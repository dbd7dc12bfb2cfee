\* Every error, every crash, an occupied session path, one metadata journal.
CONSTANTS
    a = a
    b = b
    Unsupported = Unsupported
    Content <- MCContent
    NumFiles = 2
    MaxJobs = 2
    Foreign <- TakenSlot
    OrderedJournal = TRUE
    Cards <- MCCards
    Retries = 1
    Disruptions = {"process", "power", "mismatch", "source", "io", "sql", "cancel"}
    MaxCrashes = 2
SPECIFICATION Spec
INVARIANTS
    NoUnprovenObject
    
    RecoveryReconcilesAll
PROPERTIES
    OnlyProvenIsMarked
    
\* The job budget and the crash budget run out.
CHECK_DEADLOCK FALSE
