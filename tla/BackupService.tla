---------------------------- MODULE BackupService ----------------------------
(***************************************************************************)
(* The service around a job: the engine's sequence of a backup             *)
(* (backup/engine.py, run_backup), the single-slot worker and the request  *)
(* handlers (web/app.py), and the clock-trust flag (watch/clock.py).       *)
(*                                                                         *)
(* Handlers run on one event loop: a handler that has begun finishes       *)
(* before the next one begins (loop).  The worker runs on a thread of its  *)
(* own, and so does a dry run: their steps interleave with the handlers'.  *)
(* What a job does to the destination is BackupJob's; here a file is       *)
(* backed up or it fails.  One source card is present throughout.          *)
(***************************************************************************)
EXTENDS JobStateMachine, FiniteSets

CONSTANTS
    Date,                 \* the days the system clock may show
    NumFiles,             \* files on the card
    RequireTrustedClock,  \* config.time.require_trusted_clock
    Disruptions,          \* "raise": calls of the worker may raise
    MaxJobs, MaxRestarts  \* bounds: job rows; restarts of the process

ASSUME CardIsFinite == NumFiles \in Nat
ASSUME TrustIsConfigured == RequireTrustedClock \in BOOLEAN

File == 1..NumFiles
\* ClockState.  Nothing but the phone is ever asked for the time.
ClockState == {"CLOCK_UNTRUSTED", "CLOCK_PHONE_SYNCED"}
Trusted(c) == c # "CLOCK_UNTRUSTED"
\* A job is named by its day and a number.
JobId == Date \X Nat
NoJob == <<>>
\* The clock as run_backup read it.
Reading == {<<d>> : d \in Date}
NoReading == <<>>
Outcome == {"COMPLETED", "COMPLETED_WITH_WARNINGS", "FAILED", "CANCELLED"}
ClosedRow ==
    {"BACKUP_COMPLETED", "BACKUP_COMPLETED_WITH_WARNINGS", "BACKUP_FAILED",
     "BACKUP_CANCELLED", "RECOVERY_REQUIRED"}

VARIABLES
    date, clock,        \* the system clock, and the state of its trust
    state, route,       \* the state machine, and the transitions just ahead of it
    loop, held,         \* the handler on the event loop; the token a cancellation holds
    worker, error,      \* where the worker is; what its last future raised
    now, jobId,         \* run_backup's clock reading; its job id
    preflight, result,  \* its preflight outcome and its job's outcome
    token, cancelled,   \* the engine's token; the jobs whose token is set
    at, failed,         \* files the job has gone through, and how many failed
    rows,               \* backup_job: the row of job <<d, n>> is rows[d][n]
    backed,             \* files of the card the manifest has as VERIFIED
    dry, seen,          \* the file a dry run asks for next, 0 without one; files it found
    lastScan,           \* _last_scan: files reported as backed up
    restarts

clockVars == <<date, clock>>
machineVars == <<state, route>>
loopVars == <<loop, held>>
jobVars == <<now, jobId, preflight, result, at, failed>>
cancelVars == <<token, cancelled>>
scanVars == <<dry, seen>>
vars == <<clockVars, machineVars, loopVars, worker, error, jobVars, cancelVars, rows,
          backed, scanVars, lastScan, restarts>>

TypeOK ==
    /\ date \in Date /\ clock \in ClockState
    /\ state \in BackupState /\ route \in Seq(BackupState)
    /\ loop \in {"free", "start", "cancel", "sync"} /\ held \in JobId \union {NoJob}
    /\ worker \in {"none", "begin", "name", "scan", "decide", "create", "arm", "copy",
                   "close", "return"}
    /\ error \in {"none", "InvalidTransition", "other"}
    /\ now \in Reading \union {NoReading}
    /\ jobId \in JobId \union {NoJob}
    /\ preflight \in {"READY", "WARNING", "BLOCKED"} /\ result \in Outcome
    /\ token \in JobId \union {NoJob} /\ cancelled \subseteq JobId
    /\ at \in 0..NumFiles /\ failed \in Nat
    /\ rows \in [Date -> Seq(ClosedRow \union {"BACKUP_COPYING"})]
    /\ backed \subseteq File /\ seen \subseteq File /\ lastScan \subseteq File
    /\ dry \in 0..NumFiles + 1
    /\ restarts \in Nat

HasRow(j) == j \in JobId /\ j[2] \in DOMAIN rows[j[1]]
Row(j) == rows[j[1]][j[2]]

\* What the process starts with; cancelled only keeps the record.
Init ==
    /\ date \in Date /\ clock = "CLOCK_UNTRUSTED"
    /\ state = "IDLE" /\ route = <<>>
    /\ loop = "free" /\ held = NoJob
    /\ worker = "none" /\ error = "none"
    /\ now = NoReading /\ jobId = NoJob
    /\ preflight = "BLOCKED" /\ result = "FAILED"
    /\ token = NoJob /\ cancelled = {}
    /\ at = 0 /\ failed = 0
    /\ rows = [d \in Date |-> <<>>] /\ backed = {}
    /\ dry = 0 /\ seen = {} /\ lastScan = {}
    /\ restarts = 0

-----------------------------------------------------------------------------
(* The state machine: one transition of the route ahead.                   *)

\* transition: a transition the table lacks raises, and ends its caller.
Transition ==
    /\ route # <<>>
    /\ IF CanTransition(state, Head(route))
       THEN /\ state' = Head(route) /\ route' = Tail(route)
            /\ UNCHANGED <<loop, worker, error>>
       ELSE /\ route' = <<>> /\ worker' = "none" /\ error' = "InvalidTransition"
            /\ loop' = IF loop = "start" THEN "free" ELSE loop
            /\ UNCHANGED state
    /\ UNCHANGED <<clockVars, held, jobVars, cancelVars, rows, backed, scanVars, lastScan,
                   restarts>>

-----------------------------------------------------------------------------
(* run_backup on the worker thread.  Between two of its steps it makes the *)
(* transitions in route.                                                   *)

\* What run_backup forgets when it returns or raises.
LocalsGone ==
    /\ now' = NoReading /\ preflight' = "BLOCKED" /\ result' = "FAILED"
    /\ at' = 0 /\ failed' = 0

\* The worker stands at this step, all transitions before it made.
At(step) == worker = step /\ route = <<>>

Begin ==
    /\ At("begin")
    /\ now' = <<date>>
    /\ route' = <<"SOURCE_DETECTED", "SOURCE_MOUNTING", "SOURCE_READY", "PREFLIGHT_SCANNING">>
    /\ worker' = "name"
    /\ UNCHANGED <<clockVars, state, loopVars, error, jobId, preflight, result, at, failed,
                   cancelVars, rows, backed, scanVars, lastScan, restarts>>

\* _generate_job_id: one more than the rows of that day.
NextJobId == <<now[1], Len(rows[now[1]]) + 1>>

Name ==
    /\ At("name")
    /\ jobId' = NextJobId
    /\ route' = <<"PREFLIGHT_HASHING", "PREFLIGHT_COMPARING", "PREFLIGHT_CAPACITY_CHECK">>
    /\ worker' = "scan"
    /\ UNCHANGED <<clockVars, state, loopVars, error, now, preflight, result, at, failed,
                   cancelVars, rows, backed, scanVars, lastScan, restarts>>

\* run_preflight, and the scan it leaves behind.
Scan ==
    /\ At("scan")
    /\ preflight' \in {"READY", "WARNING", "BLOCKED"}
    /\ lastScan' = backed
    /\ worker' = "decide"
    /\ UNCHANGED <<clockVars, machineVars, loopVars, error, now, jobId, result, at, failed,
                   cancelVars, rows, backed, scanVars, restarts>>

\* Mutant: the clock is not asked.
BlockedByPreflight == preflight = "BLOCKED"

\* The preflight blocks the job, or the clock does.
Blocked == preflight = "BLOCKED" \/ (RequireTrustedClock /\ ~Trusted(clock))

Decide ==
    /\ At("decide")
    /\ IF Blocked
       THEN /\ route' = <<"PREFLIGHT_BLOCKED">> /\ worker' = "return"
       ELSE /\ route' = <<IF preflight = "WARNING" THEN "PREFLIGHT_WARNING"
                          ELSE "PREFLIGHT_READY", "BACKUP_QUEUED">>
            /\ worker' = "create"
    /\ UNCHANGED <<clockVars, state, loopVars, error, jobVars, cancelVars, rows, backed,
                   scanVars, lastScan, restarts>>

\* create_backup_job: the identifier is a primary key.
CreateRow ==
    /\ At("create")
    /\ IF HasRow(jobId)
       THEN /\ worker' = "none" /\ error' = "other"
            /\ UNCHANGED <<route, rows>>
       ELSE /\ rows' = [rows EXCEPT ![jobId[1]] = Append(@, "BACKUP_COPYING")]
            /\ route' = <<"BACKUP_COPYING">> /\ worker' = "arm"
            /\ UNCHANGED error
    /\ UNCHANGED <<clockVars, state, loopVars, jobVars, cancelVars, backed, scanVars,
                   lastScan, restarts>>

ArmToken ==
    /\ At("arm")
    /\ token' = jobId
    /\ at' = 0 /\ failed' = 0
    /\ worker' = "copy"
    /\ UNCHANGED <<clockVars, machineVars, loopVars, error, now, jobId, preflight, result,
                   cancelled, rows, backed, scanVars, lastScan, restarts>>

\* Mutant: the loop takes one file too many.
CopyPast ==
    /\ At("copy")
    /\ at <= NumFiles /\ jobId \notin cancelled
    /\ at' = at + 1 /\ failed' = failed + 1
    /\ UNCHANGED <<clockVars, machineVars, loopVars, worker, error, now, jobId, preflight,
                   result, cancelVars, rows, backed, scanVars, lastScan, restarts>>

\* run_job: one file of the plan.  It is backed up, or it fails.
CopyFile ==
    /\ At("copy")
    /\ at < NumFiles /\ jobId \notin cancelled
    /\ at' = at + 1
    /\ \/ backed' = backed \union {at + 1} /\ UNCHANGED failed
       \/ failed' = failed + 1 /\ UNCHANGED backed
    /\ UNCHANGED <<clockVars, machineVars, loopVars, worker, error, now, jobId, preflight,
                   result, cancelVars, rows, scanVars, lastScan, restarts>>

\* Mutant: a failed file stops the job.
StopOnFailure ==
    IF at < NumFiles \/ failed > 0 THEN "CANCELLED"
    ELSE IF preflight = "WARNING" THEN "COMPLETED_WITH_WARNINGS"
    ELSE "COMPLETED"

\* Mutant: failures of a job that only warns are not counted.
WarningsFirst ==
    IF at < NumFiles THEN "CANCELLED"
    ELSE IF preflight = "WARNING" THEN "COMPLETED_WITH_WARNINGS"
    ELSE IF failed > 0 THEN "FAILED"
    ELSE "COMPLETED"

\* run_job's outcome: unsupported objects make preflight and job warn.
JobOutcome ==
    IF at < NumFiles THEN "CANCELLED"
    ELSE IF failed > 0 THEN "FAILED"
    ELSE IF preflight = "WARNING" THEN "COMPLETED_WITH_WARNINGS"
    ELSE "COMPLETED"

\* _JOB_OUTCOME_TO_STATE, and the state of a cancelled job.
FinalState ==
    [COMPLETED |-> "BACKUP_COMPLETED",
     COMPLETED_WITH_WARNINGS |-> "BACKUP_COMPLETED_WITH_WARNINGS",
     FAILED |-> "BACKUP_FAILED", CANCELLED |-> "BACKUP_CANCELLED"]

\* Mutant: the token stays armed.
KeepToken == UNCHANGED token

\* run_backup's finally.
DropToken == token' = NoJob

\* run_job returns: the plan is done, or the token is set between two files.
EndJob ==
    /\ At("copy")
    /\ at = NumFiles \/ jobId \in cancelled
    /\ DropToken
    /\ result' = JobOutcome
    /\ route' = IF JobOutcome = "CANCELLED" THEN <<>>
                ELSE <<"BACKUP_VERIFYING", FinalState[JobOutcome]>>
    /\ worker' = "close"
    /\ UNCHANGED <<clockVars, state, loopVars, error, now, jobId, preflight, at, failed,
                   cancelled, rows, backed, scanVars, lastScan, restarts>>

\* Mutant: the row is only closed on the way to safe removal.
CloseUnlessFailed ==
    rows' = IF result = "FAILED" THEN rows
            ELSE [rows EXCEPT ![jobId[1]][jobId[2]] = FinalState[result]]

\* _finish_job_row
FinishRow == rows' = [rows EXCEPT ![jobId[1]][jobId[2]] = FinalState[result]]

\* Mutant: a job with warnings stays where it ended.
AfterCleanRow ==
    CASE result = "CANCELLED" ->
            <<"BACKUP_CANCELLING", "BACKUP_CANCELLED", "SOURCE_SAFE_TO_REMOVE">>
      [] result = "COMPLETED" -> <<"SOURCE_SAFE_TO_REMOVE">>
      [] OTHER -> <<>>

\* Where a closed job leads: to safe removal, unless it failed.
AfterRow ==
    CASE result = "CANCELLED" ->
            <<"BACKUP_CANCELLING", "BACKUP_CANCELLED", "SOURCE_SAFE_TO_REMOVE">>
      [] result = "FAILED" -> <<>>
      [] OTHER -> <<"SOURCE_SAFE_TO_REMOVE">>

\* Mutant: the bar is refreshed whatever came out.
AllScanned == File

\* The source bar after a job: a completed one has backed up all it scanned.
SourceBar == IF result \in {"FAILED", "CANCELLED"} THEN lastScan ELSE File

\* The row is closed; the route and the source bar follow.
CloseRow ==
    /\ At("close")
    /\ FinishRow
    /\ route' = AfterRow
    /\ lastScan' = SourceBar
    /\ worker' = "return"
    /\ UNCHANGED <<clockVars, state, loopVars, error, jobVars, cancelVars, backed, scanVars,
                   restarts>>

Return ==
    /\ At("return")
    /\ worker' = "none" /\ LocalsGone
    /\ UNCHANGED <<clockVars, machineVars, loopVars, error, jobId, cancelVars, rows, backed,
                   scanVars, lastScan, restarts>>

\* A call of the worker raises: the manifest, the scan of the card, a link.
\* The finally drops the token; the state stays where it is.
WorkerRaises ==
    /\ "raise" \in Disruptions
    /\ route = <<>> /\ worker \in {"name", "scan", "create", "copy", "close"}
    /\ worker' = "none" /\ error' = "other" /\ token' = NoJob /\ LocalsGone
    /\ UNCHANGED <<clockVars, machineVars, loopVars, jobId, cancelled, rows, backed,
                   scanVars, lastScan, restarts>>

WorkerStep ==
    \/ Begin \/ Name \/ Scan \/ Decide \/ CreateRow \/ ArmToken \/ CopyFile \/ EndJob
    \/ CloseRow \/ Return \/ WorkerRaises

-----------------------------------------------------------------------------
(* Handlers on the event loop.                                             *)

\* is_running: the last future is not done.
Running == worker # "none"

\* start and reset: only from a resting state, and never beside a running
\* job.  From any other state reset raises and nothing changes.
StartBackup ==
    /\ loop = "free" /\ ~Running
    /\ state \in Resting
    /\ Cardinality(UNION {{d} \X DOMAIN rows[d] : d \in Date}) < MaxJobs
    /\ loop' = "start" /\ route' = ResetRoute[state]
    /\ UNCHANGED <<clockVars, state, held, worker, error, jobVars, cancelVars, rows, backed,
                   scanVars, lastScan, restarts>>

\* The reset is done: run_backup is submitted to the worker.
Submit ==
    /\ loop = "start" /\ route = <<>>
    /\ loop' = "free" /\ worker' = "begin" /\ error' = "none"
    /\ UNCHANGED <<clockVars, machineVars, held, jobVars, cancelVars, rows, backed, scanVars,
                   lastScan, restarts>>

\* request_cancellation reads the token, whatever job the client names ...
CancelReads ==
    /\ loop = "free" /\ token # NoJob
    /\ loop' = "cancel" /\ held' = token
    /\ UNCHANGED <<clockVars, machineVars, worker, error, jobVars, cancelVars, rows, backed,
                   scanVars, lastScan, restarts>>

\* ... and sets it; by now the job may have ended.
CancelSets ==
    /\ loop = "cancel"
    /\ cancelled' = cancelled \union {held}
    /\ loop' = "free" /\ held' = NoJob
    /\ UNCHANGED <<clockVars, machineVars, worker, error, jobVars, token, rows, backed,
                   scanVars, lastScan, restarts>>

\* sync_from_phone sets the system clock ...
SyncSetsClock ==
    /\ loop = "free"
    /\ date' \in Date
    /\ loop' = "sync"
    /\ UNCHANGED <<clock, machineVars, held, worker, error, jobVars, cancelVars, rows,
                   backed, scanVars, lastScan, restarts>>

\* ... and then marks it trusted, for as long as the process lives.
SyncMarksTrusted ==
    /\ loop = "sync"
    /\ clock' = "CLOCK_PHONE_SYNCED" /\ loop' = "free"
    /\ UNCHANGED <<date, machineVars, held, worker, error, jobVars, cancelVars, rows, backed,
                   scanVars, lastScan, restarts>>

\* The date command fails: the request ends, and the clock is as untrusted
\* as it was.
SyncRaises ==
    /\ "raise" \in Disruptions
    /\ loop = "sync" /\ loop' = "free"
    /\ UNCHANGED <<clockVars, machineVars, held, worker, error, jobVars, cancelVars, rows,
                   backed, scanVars, lastScan, restarts>>

\* The dry-run handler: refused beside a running job, but a job may start
\* while the dry run's thread is still scanning.  One dry run at a time.
StartDryRun ==
    /\ loop = "free" /\ ~Running /\ dry = 0
    /\ dry' = 1
    /\ UNCHANGED <<clockVars, machineVars, loopVars, worker, error, jobVars, cancelVars, rows,
                   backed, seen, lastScan, restarts>>

\* has_verified_object for one file after the other, while a job may copy.
DryRunScans ==
    /\ dry \in File
    /\ dry' = dry + 1 /\ seen' = seen \union ({dry} \intersect backed)
    /\ UNCHANGED <<clockVars, machineVars, loopVars, worker, error, jobVars, cancelVars, rows,
                   backed, lastScan, restarts>>

DryRunReports ==
    /\ dry = NumFiles + 1
    /\ dry' = 0 /\ lastScan' = seen /\ seen' = {}
    /\ UNCHANGED <<clockVars, machineVars, loopVars, worker, error, jobVars, cancelVars, rows,
                   backed, restarts>>

HandlerStep ==
    \/ StartBackup \/ Submit \/ CancelReads \/ CancelSets \/ SyncSetsClock
    \/ SyncMarksTrusted \/ SyncRaises \/ StartDryRun \/ DryRunScans \/ DryRunReports

-----------------------------------------------------------------------------
(* The environment.                                                        *)

DatePasses ==
    /\ date' \in Date
    /\ UNCHANGED <<clock, machineVars, loopVars, worker, error, jobVars, cancelVars, rows,
                   backed, scanVars, lastScan, restarts>>

\* Mutant: every row is flagged.
EveryRow(r) == "RECOVERY_REQUIRED"

\* Recovery's flag for the rows a dead process left open.
Flagged(r) == IF r = "BACKUP_COPYING" THEN "RECOVERY_REQUIRED" ELSE r

\* The process dies and is started again: recovery has run before the first
\* request.  The manifest and the clock of the machine stay.
Restart ==
    /\ restarts < MaxRestarts
    /\ restarts' = restarts + 1
    /\ rows' = [d \in Date |-> [n \in 1..Len(rows[d]) |-> Flagged(rows[d][n])]]
    /\ clock' = "CLOCK_UNTRUSTED"
    /\ state' = "IDLE" /\ route' = <<>>
    /\ loop' = "free" /\ held' = NoJob
    /\ worker' = "none" /\ error' = "none"
    /\ LocalsGone /\ jobId' = NoJob /\ token' = NoJob
    /\ dry' = 0 /\ seen' = {} /\ lastScan' = {}
    /\ UNCHANGED <<date, cancelled, backed>>

Next == Transition \/ WorkerStep \/ HandlerStep \/ DatePasses \/ Restart

Spec == Init /\ [][Next]_vars

-----------------------------------------------------------------------------
(* Properties.                                                             *)

\* Neither run_backup, on any of its paths, nor reset from any state it is
\* reached in, ever asks for a transition the table does not have: the
\* three tables of the engine and the state machine agree.
NoIllegalTransition == error # "InvalidTransition"

\* Whenever no job runs and the last one did not raise, the state is one a
\* reset leads from: whatever way the last job ended, the next can start.
RestsUnlessRaised ==
    worker = "none" /\ loop # "start" /\ error = "none" => state \in Resting

\* The state the UI and the LED show at rest is the one history shows: a
\* failed job's row says so, and a card is called safe to remove only when
\* its job's row is closed and says completed or cancelled.
RestingStateIsRecorded ==
    worker = "none" /\ loop # "start" /\ error = "none" =>
        /\ state = "BACKUP_FAILED" => HasRow(jobId) /\ Row(jobId) = "BACKUP_FAILED"
        /\ state = "SOURCE_SAFE_TO_REMOVE" =>
               HasRow(jobId) /\ Row(jobId) \in {"BACKUP_COMPLETED", "BACKUP_CANCELLED",
                                                "BACKUP_COMPLETED_WITH_WARNINGS"}

\* A cancellation is accepted only while the job it will stop is running:
\* its row is open, and it is the worker's.
TokenIsRunningJobs ==
    token # NoJob => worker = "copy" /\ token = jobId /\ HasRow(token)
                     /\ Row(token) = "BACKUP_COPYING"

\* Nobody's job ends as cancelled unless its own token was set.
CancelledOnlyOnRequest ==
    \A d \in Date : \A n \in DOMAIN rows[d] :
        rows[d][n] = "BACKUP_CANCELLED" => <<d, n>> \in cancelled

\* A job that says it is complete left nothing of the card behind: every
\* file is in the manifest, whatever was cancelled, failed or raised before.
CompletedBacksUpCard ==
    \A d \in Date : \A n \in DOMAIN rows[d] :
        rows[d][n] \in {"BACKUP_COMPLETED", "BACKUP_COMPLETED_WITH_WARNINGS"} =>
            backed = File

\* A job copies only while the clock is trusted, and under an identifier no
\* earlier job had: its row is the last of its day.
JobIsNewAndTrusted ==
    worker \in {"arm", "copy", "close"} =>
        /\ RequireTrustedClock => Trusted(clock)
        /\ jobId[2] = Len(rows[jobId[1]])

\* The source bar claims as backed up only what the manifest has: neither a
\* job that ended early nor a dry run that reports late, beside a job or
\* after it, shows more.
SourceBarIsBacked == lastScan \subseteq backed

\* A row that has been closed, by its job or by recovery, never changes
\* again, and no row is taken away: history stays.
HistoryIsFinal ==
    [][\A d \in Date : \A n \in DOMAIN rows[d] :
           /\ n \in DOMAIN rows'[d]
           /\ rows[d][n] \in ClosedRow => rows'[d][n] = rows[d][n]]_vars
=============================================================================
