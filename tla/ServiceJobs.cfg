\* Jobs that end every way they can, with a restart between any two steps.
CONSTANTS
    Date <- MCDate
    NumFiles = 2
    RequireTrustedClock = TRUE
    Disruptions = {"raise"}
    MaxJobs = 2
    MaxRestarts = 1
SPECIFICATION Spec
INVARIANTS
    TypeOK
    NoIllegalTransition
    RestsUnlessRaised
    RestingStateIsRecorded
    TokenIsRunningJobs
    CancelledOnlyOnRequest
    CompletedBacksUpCard
    JobIsNewAndTrusted
    SourceBarIsBacked
PROPERTIES
    HistoryIsFinal
