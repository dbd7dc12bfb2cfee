\* Any mix of process crashes, power losses and decay, bare POSIX directories.
CONSTANTS
    a = a
    b = b
    Unsupported = Unsupported
    Content <- MCContent
    NumFiles = 2
    MaxJobs = 2
    Foreign = {}
    OrderedJournal = FALSE
    Cards <- MCCards
    Retries = 1
    Disruptions = {"process", "power", "rot"}
    MaxCrashes = 3
SPECIFICATION Spec
INVARIANTS
    TypeOK
    VerifiedEntryLinked
    CompletedJobIsComplete
    NeverRecopiesVerified
\* The job budget and the crash budget run out.
CHECK_DEADLOCK FALSE
