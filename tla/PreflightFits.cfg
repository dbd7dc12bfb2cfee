\* Two jobs on a disk of any fill, with errors, retries, strangers and a crash.
CONSTANTS
    a = a
    b = b
    Special = Special
    Content <- MCContent
    Size <- MCSize
    NumFiles = 3
    Cards <- MCCards
    MediaOnly = TRUE
    Total = 8
    Percent = 15
    MinMargin = 0
    ReserveFloor = 1
    Retries = 1
    MaxJobs = 2
    MaxForeign = 2
    MaxCrashes = 1
SPECIFICATION Spec
INVARIANTS
    TypeOK
    RoomIsKept
    PlanIsSound
    ResultAddsUp
\* The jobs run out.
CHECK_DEADLOCK FALSE
