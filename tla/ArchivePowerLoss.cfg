\* Power losses, failing copies and cancellation, bare POSIX directories.
CONSTANTS
    a = a
    b = b
    Unsupported = Unsupported
    Content <- MCContent
    NumFiles = 2
    MaxJobs = 2
    Foreign = {}
    OrderedJournal = FALSE
    Cards <- MCCards
    Retries = 1
    Disruptions = {"power", "mismatch", "source", "cancel"}
    MaxCrashes = 2
SPECIFICATION FairSpec
INVARIANTS
    VerifiedObjectPresent
    ClosedJobHasNoLooseEnds
PROPERTIES
    JobEnds
    ServiceReturns
\* The job budget and the crash budget run out.
CHECK_DEADLOCK FALSE
