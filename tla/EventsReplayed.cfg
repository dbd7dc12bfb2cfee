\* Two threads publish more than the buffer holds; reconnections and a restart.
CONSTANTS
    worker = worker
    scan = scan
    Publisher <- Threads
    Capacity = 2
    MaxEvents = 3
    MaxConnects = 2
    MaxRestarts = 1
SPECIFICATION Spec
INVARIANTS
    TypeOK
    NothingFallsBetween
    ThreadOrderKept
\* The events and the connections run out.
CHECK_DEADLOCK FALSE
