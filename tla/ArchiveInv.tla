------------------------------ MODULE ArchiveInv ------------------------------
(***************************************************************************)
(* The inductive invariant behind the safety properties of Archive: what   *)
(* has to hold at every step of a job and of recovery, for every number of *)
(* files, jobs, crashes and every mix of errors.                           *)
(***************************************************************************)
EXTENDS Archive

\* A running job is the only one whose row says so, and stands at a file.
JobInv ==
    /\ pc = "idle" => IncompleteJobs = {}
    /\ pc \in JobPcs => /\ cur \in Job /\ pos \in 1..NumFiles + 1
                        /\ IncompleteJobs = {cur}
    /\ pc \in JobPcs \ {"loop"} => pos \in File /\ card[cur][pos] # Unsupported
    /\ pc \in {"attempt", "record_object", "record_entry", "replace", "sync_object"} => Copying

\* The plan of the running job skips what is not a file, copies each content
\* at most once, and copies nothing the manifest holds as verified.
PlanInv ==
    pc \in JobPcs => \A f \in File :
        /\ plan[cur][f] = "SKIP_UNSUPPORTED" <=> card[cur][f] = Unsupported
        /\ plan[cur][f] = "COPY_VERIFY_OBJECT_AND_LINK" =>
              /\ \A g \in 1..f - 1 : card[cur][g] # card[cur][f]
              /\ f > pos \/ (f = pos /\ pc # "mark_entry") => row[card[cur][f]] # "VERIFIED"

\* The files the job has passed without a failure are verified; none of
\* those still ahead is, and a job that has no row has no entries.
ProgressInv ==
    /\ pc \in JobPcs => \A f \in File :
        /\ f < pos /\ f \notin failed /\ card[cur][f] # Unsupported =>
              entry[<<cur, f>>] = "VERIFIED" /\ row[card[cur][f]] = "VERIFIED"
        /\ f >= pos => entry[<<cur, f>>] # "VERIFIED"
    /\ pc = "mark_entry" => row[ContentHere] = "VERIFIED"
    /\ \A j \in Job : jobRow[j] = "absent" => \A f \in File : entry[<<j, f>>] = "absent"

\* A session link is visible, then durable, then recorded.
LinkInv ==
    /\ VerifiedEntryLinked
    /\ pc = "sync_session" => link[Here] = "object"
    /\ pc \in {"mark_object", "mark_entry"} => LinkSafe(Here)
    /\ pc = "r_sync_session" => \A s \in inHand : link[s] = "object"
    /\ pc = "r_entry" => \A s \in inHand : LinkSafe(s)

\* Recovery handles pending objects and pending entries only.
RecoveryInv ==
    /\ \A c \in todo : row[c] = "PENDING_FINALIZE"
    /\ \A s \in relink : entry[s] = "PENDING"
    /\ active \subseteq todo /\ inHand \subseteq relink
    /\ \A s, t \in inHand : s = t
    /\ pc \notin RecoveryPcs \ {"flag"} => todo = {}
    /\ pc = "recover" => active = {}
    /\ pc \notin {"r_entries", "r_sync_session", "r_entry"} => relink = {}

\* A job recorded as completed: what the manifest says of its files.
CompletedInv ==
    \A j \in Job : jobRow[j] \in CompletedStates =>
        \A f \in File : card[j][f] # Unsupported =>
            row[card[j][f]] = "VERIFIED" /\ entry[<<j, f>>] = "VERIFIED"

Inv == /\ TypeOK
       /\ JobInv
       /\ PlanInv
       /\ ProgressInv
       /\ LinkInv
       /\ RecoveryInv
       /\ CompletedInv

\* Without bit rot: what is renamed into place has been verified.
ObjectInv ==
    /\ NoUnprovenObject
    /\ pc \in {"record_object", "record_entry", "replace"} => partial[ContentHere] = "good"

\* The object a session path is about to be linked to, or marked VERIFIED
\* with, is in place.
PlacedInv ==
    /\ pc \in {"sync_object", "link", "sync_session", "mark_object"} =>
          final[ContentHere] = "good"
    /\ pc \in {"r_sync_object", "r_entries", "r_sync_session", "r_entry"} =>
          \A c \in active : final[c] = "good"

\* When power loss is the only failure, an object that is visible is durable,
\* except between a rename and the fsync of its directory.
Renaming(c) == \/ pc = "sync_object" /\ c = ContentHere
               \/ pc = "r_sync_object" /\ c \in active

PathInv ==
    /\ VerifiedObjectPresent
    /\ \A c \in Content : final[c] # "none" => ObjectSafe(c) \/ Renaming(c)
    /\ \A c, d \in active : c = d

\* What recovery has still to reconcile is on its list, and the partials are
\* gone when it has gone through that.
ReconcileInv ==
    /\ pc \in RecoveryPcs => PendingObjects \subseteq todo
    /\ pc = "flag" => \A c \in Content : partial[c] = "none"

\* While no system call on the destination fails, the one pending entry of
\* the running job is that of the copy it is finalizing.
LooseInv ==
    /\ pc \in JobPcs => \A f \in File : entry[<<cur, f>>] = "PENDING" =>
          f = pos /\ Copying /\ pc \in FinalizePcs \ {"record_object", "record_entry"}
    /\ ClosedJobHasNoLooseEnds
=============================================================================
