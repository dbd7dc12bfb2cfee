\* Crashes while recovery renames, then a power loss.
CONSTANTS
    a = a
    b = b
    Unsupported = Unsupported
    Content <- OneContent
    NumFiles = 2
    MaxJobs = 2
    Foreign = {}
    OrderedJournal = TRUE
    Cards <- SameCards
    Retries = 1
    Disruptions = {"process", "power"}
    MaxCrashes = 3
SPECIFICATION Spec
INVARIANTS
    VerifiedObjectPresent
\* The job budget and the crash budget run out.
CHECK_DEADLOCK FALSE
