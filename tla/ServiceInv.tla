------------------------------ MODULE ServiceInv ------------------------------
(***************************************************************************)
(* The inductive invariant of BackupService.  It says for every step of    *)
(* the worker where the transitions ahead of it lead, which row its job    *)
(* has, and what the job has done so far.                                  *)
(***************************************************************************)
EXTENDS BackupService

Open == {"arm", "copy", "close"}
Named == {"scan", "decide", "create"}
Completed == {"BACKUP_COMPLETED", "BACKUP_COMPLETED_WITH_WARNINGS"}

\* The end of the transitions ahead.
Ahead == Destination(state, route)

\* Where the worker and the reset handler are heading.
TrackInv ==
    /\ Legal(state, route)
    /\ error # "InvalidTransition"
    /\ route # <<>> => worker # "none" \/ loop = "start"
    /\ loop = "start" => worker = "none" /\ Ahead = "IDLE"
    /\ worker = "begin" => Ahead = "IDLE"
    /\ worker = "name" => Ahead = "PREFLIGHT_SCANNING"
    /\ worker \in {"scan", "decide"} => Ahead = "PREFLIGHT_CAPACITY_CHECK"
    /\ worker = "create" => Ahead = "BACKUP_QUEUED"
    /\ worker \in {"arm", "copy"} => Ahead = "BACKUP_COPYING"
    /\ worker = "close" =>
           Ahead = IF result = "CANCELLED" THEN "BACKUP_COPYING" ELSE FinalState[result]

\* At rest, and on the way there: the row that goes with the state.
RestInv ==
    worker = "return" \/ (worker = "none" /\ loop # "start" /\ error = "none") =>
        /\ Ahead \in {"IDLE", "PREFLIGHT_BLOCKED", "BACKUP_FAILED", "SOURCE_SAFE_TO_REMOVE"}
        /\ Ahead = "BACKUP_FAILED" => HasRow(jobId) /\ Row(jobId) = "BACKUP_FAILED"
        /\ Ahead = "SOURCE_SAFE_TO_REMOVE" =>
               HasRow(jobId) /\ Row(jobId) \in Completed \union {"BACKUP_CANCELLED"}

\* The job's identifier and its row.
JobInv ==
    /\ worker \in {"name"} \union Named => now \in Reading
    /\ worker \in Named => jobId = <<now[1], Len(rows[now[1]]) + 1>>
    /\ worker \in Open => HasRow(jobId) /\ jobId[2] = Len(rows[jobId[1]])
                          /\ Row(jobId) = "BACKUP_COPYING"
    /\ worker \in {"create"} \union Open => (RequireTrustedClock => Trusted(clock))
    /\ token # NoJob => worker = "copy" /\ token = jobId
    /\ loop = "cancel" => held \in JobId

\* What the job has done, and what closed rows say of it.
DoneInv ==
    /\ worker = "copy" /\ failed = 0 => 1..at \subseteq backed
    /\ worker = "close" /\ result \in {"COMPLETED", "COMPLETED_WITH_WARNINGS"} =>
           backed = File
    /\ worker = "close" /\ result = "CANCELLED" => jobId \in cancelled
    /\ seen \subseteq backed
    /\ SourceBarIsBacked
    /\ CancelledOnlyOnRequest
    /\ CompletedBacksUpCard

Inv == TypeOK /\ TrackInv /\ RestInv /\ JobInv /\ DoneInv
=============================================================================
