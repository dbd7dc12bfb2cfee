------------------------------ MODULE BackupJob ------------------------------
(***************************************************************************)
(* The backup worker and startup recovery, acting on the destination:      *)
(* planning (backup/planner.py), the job loop (backup/runner.py), the      *)
(* copy-verify-finalize protocol (backup/copier.py) with its journal       *)
(* (backup/manifest_journal.py), the job row (backup/engine.py), and the   *)
(* reconciliation that runs before the service starts                      *)
(* (backup/recovery.py).                                                   *)
(*                                                                         *)
(* One process runs at a time: recovery first, then one job after another. *)
(* pc is where it stands; a crash may come between any two of its steps.   *)
(***************************************************************************)
EXTENDS DestinationStore

CONSTANTS
    Unsupported,  \* what a card holds where a file is not a regular one
    Cards,        \* the source cards a job may find
    Retries,      \* further copy attempts after a failed verification
    Disruptions,  \* which kinds of trouble the environment makes
    MaxCrashes    \* bound: crashes of either kind

ASSUME UnsupportedIsNoContent == Unsupported \notin Content
ASSUME CardsAreFiles == Cards \subseteq [File -> Content \union {Unsupported}]
ASSUME RetriesAreNatural == Retries \in Nat /\ MaxCrashes \in Nat
ASSUME DisruptionKinds ==
    Disruptions \subseteq {"process", "power", "mismatch", "source", "io", "sql",
                           "rot", "cancel"}

VARIABLES
    pc,         \* what the process is about to do
    cur, pos,   \* the running job, and the file it is at
    attempts,   \* copy attempts made for that file
    cancel,     \* the job's cancellation token
    failed,     \* files the job has counted as failed
    card, plan, \* per job: what the source held, and the planned actions
    todo,       \* recovery: pending objects still to reconcile
    active,     \* recovery: the object in hand (none or one)
    relink,     \* recovery: its pending session entries still to complete
    inHand,     \* recovery: the one of them being completed (none or one)
    crashes

jobVars == <<cur, pos, attempts, cancel, failed>>
planVars == <<card, plan>>
recoveryVars == <<todo, active, relink, inHand>>
vars == <<storeVars, pc, jobVars, planVars, recoveryVars, crashes>>

FinalizePcs == {"record_object", "record_entry", "replace", "sync_object", "link",
                "sync_session", "mark_object", "mark_entry"}
JobPcs == FinalizePcs \union {"loop", "attempt"}
RecoveryPcs == {"recover", "r_sync_object", "r_entries", "r_sync_session", "r_entry",
                "r_delete_entries", "r_delete_object", "flag"}
Action == {"COPY_VERIFY_OBJECT_AND_LINK", "LINK_EXISTING_VERIFIED_OBJECT",
           "LINK_NEW_OBJECT_SAME_JOB", "SKIP_UNSUPPORTED"}

TypeOK ==
    /\ StoreTypeOK
    /\ pc \in JobPcs \union RecoveryPcs \union {"off", "idle", "stuck"}
    /\ cur \in Nat /\ pos \in Nat /\ attempts \in Nat /\ crashes \in Nat
    /\ cancel \in BOOLEAN
    /\ failed \subseteq File
    /\ card \in [Job -> [File -> Content \union {Unsupported}]]
    /\ plan \in [Job -> [File -> Action]]
    /\ todo \subseteq Content /\ active \subseteq Content
    /\ relink \subseteq Slot /\ inHand \subseteq Slot

\* What the worker forgets between jobs and when the process dies.
JobCleared ==
    /\ cur' = 0 /\ pos' = 0 /\ attempts' = 0 /\ cancel' = FALSE
    /\ failed' = {}
RecoveryCleared == todo' = {} /\ active' = {} /\ relink' = {} /\ inHand' = {}

Init ==
    /\ StoreInit
    /\ pc = "off"
    /\ cur = 0 /\ pos = 0 /\ attempts = 0 /\ cancel = FALSE /\ failed = {}
    /\ card = [j \in Job |-> [f \in File |-> Unsupported]]
    /\ plan = [j \in Job |-> [f \in File |-> "SKIP_UNSUPPORTED"]]
    /\ todo = {} /\ active = {} /\ relink = {} /\ inHand = {}
    /\ crashes = 0

-----------------------------------------------------------------------------
(* Planning.                                                               *)

\* Mutant: the manifest is not asked.
NeverVerified(c) == FALSE

\* has_verified_object: the manifest is asked, not the object store.
HasVerifiedObject(c) == row[c] = "VERIFIED"

\* classify.  A preflight that meets an unreadable file is blocked, and no
\* job starts.
Classified(k, f) ==
    IF k[f] = Unsupported THEN "UNSUPPORTED"
    ELSE IF HasVerifiedObject(k[f]) THEN "ALREADY_BACKED_UP"
    ELSE "NEW"

\* build_plan: of the files holding the same new content the first in path
\* order is copied.
PlannedAction(k, f) ==
    CASE Classified(k, f) = "UNSUPPORTED"       -> "SKIP_UNSUPPORTED"
      [] Classified(k, f) = "ALREADY_BACKED_UP" -> "LINK_EXISTING_VERIFIED_OBJECT"
      [] Classified(k, f) = "NEW" ->
            IF \E g \in 1..f - 1 : k[g] = k[f] THEN "LINK_NEW_OBJECT_SAME_JOB"
            ELSE "COPY_VERIFY_OBJECT_AND_LINK"

\* Job identifiers count up: the next job is the first without a row.
NextJob == {j \in Job : jobRow[j] = "absent" /\ \A i \in 1..j - 1 : jobRow[i] # "absent"}

\* A preflight that is not blocked, the job row, and entry to run_job.
StartJob ==
    /\ pc = "idle"
    /\ \E j \in NextJob, k \in Cards :
        /\ cur' = j
        /\ card' = [card EXCEPT ![j] = k]
        /\ plan' = [plan EXCEPT ![j] = [f \in File |-> PlannedAction(k, f)]]
        /\ SetJobRow(j, "BACKUP_COPYING")
    /\ pc' = "loop" /\ pos' = 1
    /\ UNCHANGED <<fileVars, attempts, cancel, failed, recoveryVars, crashes>>

RequestCancel ==
    /\ "cancel" \in Disruptions
    /\ pc \in JobPcs /\ ~cancel
    /\ cancel' = TRUE
    /\ UNCHANGED <<storeVars, pc, cur, pos, attempts, failed, planVars,
                   recoveryVars, crashes>>

-----------------------------------------------------------------------------
(* The job loop.                                                           *)

Here == <<cur, pos>>
ContentAt(s) == card[s[1]][s[2]]
ContentHere == card[cur][pos]
Copying == plan[cur][pos] = "COPY_VERIFY_OBJECT_AND_LINK"
Linking == plan[cur][pos] \in {"LINK_EXISTING_VERIFIED_OBJECT", "LINK_NEW_OBJECT_SAME_JOB"}

\* The loop takes the next file only if the job is not cancelled.
AtFile == pc = "loop" /\ pos \in File /\ ~cancel

NextFile ==
    /\ pc' = "loop" /\ pos' = pos + 1 /\ attempts' = 0
    /\ UNCHANGED <<cur, cancel>>
\* The file is done with: copied, linked or skipped.
Processed == NextFile /\ UNCHANGED failed

\* Mutant: the failure is noted after the loop has moved on.
FailedNext == NextFile /\ failed' = failed \union {pos + 1}

\* The file is counted as failed, and the loop goes on with the next one.
FailedHere == NextFile /\ failed' = failed \union {pos}

AtStep(here, next) == pc = here /\ pc' = next /\ UNCHANGED jobVars
OutsideJob == UNCHANGED <<planVars, recoveryVars, crashes>>

SkipFile ==
    /\ AtFile /\ plan[cur][pos] = "SKIP_UNSUPPORTED"
    /\ Processed
    /\ UNCHANGED storeVars /\ OutsideJob

\* link_verified_object: FileNotFoundError is counted as a failed link.
LinkMissing ==
    /\ AtFile /\ Linking /\ final[ContentHere] = "none"
    /\ FailedHere
    /\ UNCHANGED storeVars /\ OutsideJob

\* Both actions link an object whose path exists, without reading it.
LinkPresent ==
    /\ AtFile /\ (Linking \/ Copying) /\ final[ContentHere] # "none"
    /\ pc' = "link"
    /\ UNCHANGED <<storeVars, jobVars>> /\ OutsideJob

BeginCopy ==
    /\ AtFile /\ Copying /\ final[ContentHere] = "none"
    /\ SetPartial(ContentHere, "bad")
    /\ attempts' = 1 /\ pc' = "attempt"
    /\ UNCHANGED <<manifestVars, cur, pos, cancel, failed>> /\ OutsideJob

-----------------------------------------------------------------------------
(* One copy attempt: stream to the partial while hashing (H2), fsync, drop *)
(* the cache, read back (H3).                                              *)

AttemptOk ==
    /\ AtStep("attempt", "record_object")
    /\ SetPartial(ContentHere, "good")
    /\ UNCHANGED manifestVars /\ OutsideJob

\* H2 or H3 differs from the preflight hash: unlink, and begin again ...
AttemptMismatch ==
    /\ "mismatch" \in Disruptions
    /\ pc = "attempt" /\ attempts <= Retries
    /\ SetPartial(ContentHere, "bad")
    /\ attempts' = attempts + 1
    /\ UNCHANGED <<manifestVars, pc, cur, pos, cancel, failed>> /\ OutsideJob

\* Mutant: the file is tried again instead of counted as failed.
TriedForEver ==
    /\ "mismatch" \in Disruptions
    /\ pc = "attempt" /\ attempts > Retries
    /\ SetPartial(ContentHere, "none")
    /\ pc' = "loop" /\ attempts' = 0
    /\ UNCHANGED <<manifestVars, cur, pos, cancel, failed>> /\ OutsideJob

\* ... until the retries are spent.
RetriesExhausted ==
    /\ "mismatch" \in Disruptions
    /\ pc = "attempt" /\ attempts > Retries
    /\ SetPartial(ContentHere, "none")
    /\ FailedHere
    /\ UNCHANGED manifestVars /\ OutsideJob

\* Opening, reading or writing raises OSError: the partial stays as it was.
AttemptOSError ==
    /\ "source" \in Disruptions
    /\ pc = "attempt"
    /\ \E left \in ObjectState : SetPartial(ContentHere, left)
    /\ FailedHere
    /\ UNCHANGED manifestVars /\ OutsideJob

-----------------------------------------------------------------------------
(* Finalization: journal, rename, directory, link, directory, journal.     *)

RecordPendingObject ==
    /\ AtStep("record_object", "record_entry")
    /\ SetRow(ContentHere, "PENDING_FINALIZE")
    /\ UNCHANGED fileVars /\ OutsideJob

RecordPendingEntry ==
    /\ AtStep("record_entry", "replace")
    /\ SetEntry(Here, "PENDING")
    /\ UNCHANGED fileVars /\ OutsideJob

Replace ==
    /\ AtStep("replace", "sync_object")
    /\ ReplaceFinal(ContentHere)
    /\ UNCHANGED manifestVars /\ OutsideJob

SyncObject ==
    /\ AtStep("sync_object", "link")
    /\ FsyncObjectDir(ContentHere)
    /\ UNCHANGED manifestVars /\ OutsideJob

LinkSession ==
    /\ AtStep("link", "sync_session")
    /\ PlaceLink(Here)
    /\ UNCHANGED manifestVars /\ OutsideJob

SyncSession ==
    /\ AtStep("sync_session", "mark_object")
    /\ FsyncSessionDir(Here)
    /\ UNCHANGED manifestVars /\ OutsideJob

\* Mutant: only the object is marked.
MarkObjectOnly ==
    /\ pc = "mark_object"
    /\ SetRow(ContentHere, "VERIFIED")
    /\ Processed
    /\ UNCHANGED fileVars /\ OutsideJob

MarkObjectVerified ==
    /\ AtStep("mark_object", "mark_entry")
    /\ SetRow(ContentHere, "VERIFIED")
    /\ UNCHANGED fileVars /\ OutsideJob

MarkEntryVerified ==
    /\ pc = "mark_entry"
    /\ SetEntry(Here, "VERIFIED")
    /\ Processed
    /\ UNCHANGED fileVars /\ OutsideJob

-----------------------------------------------------------------------------
(* Errors while finalizing.                                                *)

\* Mutant: a failed rename is ignored.
RenameErrorIgnored ==
    /\ "io" \in Disruptions
    /\ AtStep("replace", "sync_object")
    /\ UNCHANGED storeVars /\ OutsideJob

\* A system call on the destination raises OSError.  The COPY branch of
\* run_job catches it and goes on; the LINK branch does not.
DestinationOSError ==
    /\ "io" \in Disruptions
    /\ pc \in {"replace", "sync_object", "link", "sync_session"}
    /\ \/ Copying /\ FailedHere
       \/ ~Copying /\ pc' = "stuck" /\ UNCHANGED jobVars
    /\ UNCHANGED storeVars /\ OutsideJob

\* SessionPathConflict, which only the LINK branch catches.
SessionConflict ==
    /\ pc = "link" /\ ~Linkable(Here)
    /\ \/ ~Copying /\ FailedHere
       \/ Copying /\ pc' = "stuck" /\ UNCHANGED jobVars
    /\ UNCHANGED storeVars /\ OutsideJob

\* A manifest statement raises sqlite3.Error, which nothing catches.
ManifestError ==
    /\ "sql" \in Disruptions
    /\ \/ pc \in {"record_object", "record_entry", "mark_object", "mark_entry"}
       \/ pc = "loop" /\ ~AtFile
    /\ pc' = "stuck"
    /\ UNCHANGED <<storeVars, jobVars>> /\ OutsideJob

-----------------------------------------------------------------------------
(* The end of the job.                                                     *)

\* Mutant: failures do not count.
OutcomeDespiteFailures ==
    IF pos \in File THEN "BACKUP_CANCELLED" ELSE "BACKUP_COMPLETED"

\* Mutant: a cancelled job is not told apart.
OutcomeDespiteCancel ==
    IF failed # {} THEN "BACKUP_FAILED" ELSE "BACKUP_COMPLETED"

\* A cancelled job has broken out of the loop before its last file.
Outcome ==
    IF pos \in File THEN "BACKUP_CANCELLED"
    ELSE IF failed # {} THEN "BACKUP_FAILED"
    ELSE IF \E f \in File : plan[cur][f] = "SKIP_UNSUPPORTED"
         THEN "BACKUP_COMPLETED_WITH_WARNINGS"
    ELSE "BACKUP_COMPLETED"

FinishJob ==
    /\ pc = "loop" /\ ~AtFile
    /\ SetJobRow(cur, Outcome)
    /\ pc' = "idle" /\ JobCleared
    /\ UNCHANGED fileVars /\ OutsideJob

JobStep ==
    \/ SkipFile \/ LinkMissing \/ LinkPresent \/ BeginCopy
    \/ AttemptOk \/ AttemptMismatch \/ RetriesExhausted \/ AttemptOSError
    \/ RecordPendingObject \/ RecordPendingEntry \/ Replace \/ SyncObject
    \/ LinkSession \/ SyncSession \/ MarkObjectVerified \/ MarkEntryVerified
    \/ DestinationOSError \/ SessionConflict \/ ManifestError \/ FinishJob

=============================================================================
