------------------------------- MODULE Archive -------------------------------
(***************************************************************************)
(* The whole backup core: the worker, startup recovery, and what happens   *)
(* to the machine underneath them.                                         *)
(***************************************************************************)
EXTENDS StartupRecovery

Die == pc' = "off" /\ JobCleared /\ RecoveryCleared

\* The process is killed, or the operator restarts it; files stay as seen.
ProcessCrash ==
    /\ "process" \in Disruptions
    /\ pc # "off" /\ crashes < MaxCrashes
    /\ crashes' = crashes + 1
    /\ Die
    /\ UNCHANGED <<storeVars, planVars>>

\* The device loses power; only what was written back is left.
PowerLoss ==
    /\ "power" \in Disruptions
    /\ crashes < MaxCrashes
    /\ crashes' = crashes + 1
    /\ Die
    /\ LosePower
    /\ UNCHANGED <<manifestVars, planVars>>

\* Matters only to a power loss that may still come.
KernelWriteBack ==
    /\ "power" \in Disruptions /\ crashes < MaxCrashes
    /\ WriteBack
    /\ UNCHANGED <<pc, jobVars, planVars, recoveryVars, crashes>>

\* The bytes of a stored object decay while nothing runs.
BitRot ==
    /\ "rot" \in Disruptions /\ pc \in {"off", "idle"}
    /\ \E c \in Content :
        /\ final[c] = "good"
        /\ final' = [final EXCEPT ![c] = "bad"]
        /\ finalDisk' = [finalDisk EXCEPT ![c] = IF @ = "none" THEN @ ELSE "bad"]
    /\ UNCHANGED <<partial, partialDisk, linkVars, manifestVars, pc, jobVars, planVars,
                   recoveryVars, crashes>>

Next ==
    \/ StartJob \/ JobStep \/ RequestCancel
    \/ RecoveryStep
    \/ ProcessCrash \/ PowerLoss \/ KernelWriteBack \/ BitRot

Spec == Init /\ [][Next]_vars

\* The worker thread and the starting process are scheduled by the operating
\* system and never block for ever; the service manager restarts the process.
FairSpec == Spec /\ WF_vars(JobStep) /\ WF_vars(RecoveryStep)

-----------------------------------------------------------------------------
(* Safety.                                                                 *)

ObjectSafe(c) == final[c] = "good" /\ finalDisk[c] = "good"
LinkSafe(s) == link[s] = "object" /\ linkDisk[s] = "object"

\* COPY-005, REC-006: nothing but the verified bytes of a content is ever
\* visible at its canonical path, not even after a power loss.
NoUnprovenObject == \A c \in Content : final[c] # "bad" /\ finalDisk[c] # "bad"

\* VER-004, last sentence: a manifest entry says VERIFIED only of a session
\* link that is there and stays there.
VerifiedEntryLinked == \A s \in Slot : entry[s] = "VERIFIED" => LinkSafe(s)

\* VER-004: a manifest row says VERIFIED only of an object that is there and
\* stays there.
VerifiedObjectPresent == \A c \in Content : row[c] = "VERIFIED" => ObjectSafe(c)

\* A job recorded as completed has every file it found on the card verified
\* and linked into its session, whatever interrupted it, the other jobs and
\* recovery.
CompletedJobIsComplete ==
    \A j \in Job : jobRow[j] \in CompletedStates =>
        \A f \in File : card[j][f] # Unsupported =>
            /\ row[card[j][f]] = "VERIFIED"
            /\ entry[<<j, f>>] = "VERIFIED"
            /\ LinkSafe(<<j, f>>)

\* REC-001: once the service accepts jobs, no earlier job still looks as if
\* it were running.
NoJobLeftRunning == pc = "idle" => IncompleteJobs = {}

\* A content is copied again only while the manifest does not hold it as
\* verified, however old the plan is (REC-004).
NeverRecopiesVerified ==
    pc \in {"attempt", "record_object", "record_entry", "replace"} =>
        row[ContentHere] # "VERIFIED"

\* Nothing the worker or recovery does takes back a VERIFIED object or entry
\* (JOB-001: already-verified files are preserved).
VerifiedStaysVerified ==
    [][/\ \A c \in Content : row[c] = "VERIFIED" => row'[c] = "VERIFIED"
       /\ \A s \in Slot : entry[s] = "VERIFIED" => entry'[s] = "VERIFIED"]_vars

\* A row becomes VERIFIED only while the canonical path holds the verified
\* bytes (REC-002: neither the manifest nor the filesystem is proof).
OnlyProvenIsMarked ==
    [][\A c \in Content :
          row[c] # "VERIFIED" /\ row'[c] = "VERIFIED" => final[c] = "good"]_vars

\* When recovery has gone through the objects, none is pending and no
\* partial is left, whatever errors earlier runs left behind (REC-003).
RecoveryReconcilesAll ==
    pc = "flag" => PendingObjects = {} /\ \A c \in Content : partial[c] = "none"

\* A job the worker itself closed, cancelled or failed ones included, leaves
\* no session entry half done.
ClosedJobHasNoLooseEnds ==
    \A j \in Job : jobRow[j] \notin {"absent", "BACKUP_COPYING", "RECOVERY_REQUIRED"} =>
        \A f \in File : entry[<<j, f>>] # "PENDING"

-----------------------------------------------------------------------------
(* The promise kept.                                                       *)

Status(j) ==
    CASE jobRow[j] = "absent"            -> "absent"
      [] jobRow[j] = "BACKUP_COPYING"    -> "running"
      [] jobRow[j] \in CompletedStates   -> "completed"
      [] OTHER                           -> "closed"

Promise == INSTANCE VerifiedArchive WITH
    verified <- {c \in Content : row[c] = "VERIFIED"},
    attached <- {s \in Slot : entry[s] = "VERIFIED"},
    source   <- card,
    status   <- [j \in Job |-> Status(j)]

\* Whatever fails or crashes, the manifest behaves as the promise says: what
\* is verified or attached stays so, a job is closed once, and as completed
\* only with all its files (JOB-001, VER-004, REC-004).
KeepsPromise == Promise!Spec

-----------------------------------------------------------------------------
(* Liveness.                                                               *)

\* A job that was started is closed, by the worker or by recovery.
JobEnds ==
    \A j \in Job : jobRow[j] = "BACKUP_COPYING" ~> jobRow[j] # "BACKUP_COPYING"

\* The service comes up again after the process has ended.
ServiceReturns == pc = "off" ~> pc = "idle"
=============================================================================
