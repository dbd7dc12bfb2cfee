--------------------------- MODULE StartupRecovery ---------------------------
(***************************************************************************)
(* Recovery, run to completion before the service takes a job              *)
(* (backup/recovery.py, and recover_on_startup of backup/engine.py): every *)
(* PENDING_FINALIZE object is finalized from a candidate that rehashes to  *)
(* the expected identity, or discarded; orphan partials are removed; jobs  *)
(* that were left running are flagged RECOVERY_REQUIRED.                   *)
(* An exception ends the process, and systemd starts it again.             *)
(***************************************************************************)
EXTENDS BackupJob

\* The process starts and lists the pending objects.
Boot ==
    /\ pc = "off"
    /\ pc' = "recover"
    /\ todo' = PendingObjects /\ active' = {} /\ relink' = {} /\ inHand' = {}
    /\ UNCHANGED <<storeVars, jobVars, planVars, crashes>>

AtRecovery(here, next) ==
    /\ pc = here /\ pc' = next
    /\ UNCHANGED <<jobVars, planVars, crashes>>

EntriesOf(c, state) == {s \in Slot : entry[s] = state /\ ContentAt(s) = c}

-----------------------------------------------------------------------------
(* A pending object with a provable candidate.                             *)

\* The candidate is the final path if it exists, else the temporary one; it
\* is rehashed.
FinalProvable(c) == final[c] = "good"

\* Mutant: a temporary candidate is taken without being rehashed.
TempTrusted(c) == final[c] = "none" /\ partial[c] # "none"

TempProvable(c) == final[c] = "none" /\ partial[c] = "good"

RecoverFinal ==
    \E c \in todo :
        /\ AtRecovery("recover", "r_entries")
        /\ FinalProvable(c)
        /\ active' = {c} /\ relink' = EntriesOf(c, "PENDING")
        /\ UNCHANGED <<storeVars, todo, inHand>>

RecoverTemp ==
    \E c \in todo :
        /\ AtRecovery("recover", "r_sync_object")
        /\ TempProvable(c)
        /\ ReplaceFinal(c)
        /\ active' = {c}
        /\ UNCHANGED <<manifestVars, todo, relink, inHand>>

RecoverySyncObject ==
    \E c \in active :
        /\ AtRecovery("r_sync_object", "r_entries")
        /\ FsyncObjectDir(c)
        /\ relink' = EntriesOf(c, "PENDING")
        /\ UNCHANGED <<manifestVars, todo, active, inHand>>

\* Each pending entry: link, sync the session directory, finalize the entry.
RecoveryLink ==
    \E s \in relink :
        /\ AtRecovery("r_entries", "r_sync_session")
        /\ PlaceLink(s)
        /\ inHand' = {s}
        /\ UNCHANGED <<manifestVars, todo, active, relink>>

RecoverySyncSession ==
    \E s \in inHand :
        /\ AtRecovery("r_sync_session", "r_entry")
        /\ FsyncSessionDir(s)
        /\ UNCHANGED <<manifestVars, recoveryVars>>

RecoveryFinalizeEntry ==
    \E s \in inHand :
        /\ AtRecovery("r_entry", "r_entries")
        /\ SetEntry(s, "VERIFIED")
        /\ relink' = relink \ {s} /\ inHand' = {}
        /\ UNCHANGED <<fileVars, todo, active>>

\* Mutant: the object stays on the list.
MarkVerifiedForEver ==
    \E c \in active :
        /\ AtRecovery("r_entries", "recover")
        /\ relink = {}
        /\ SetRow(c, "VERIFIED")
        /\ active' = {}
        /\ UNCHANGED <<fileVars, todo, relink, inHand>>

RecoveryMarkVerified ==
    \E c \in active :
        /\ AtRecovery("r_entries", "recover")
        /\ relink = {}
        /\ SetRow(c, "VERIFIED")
        /\ todo' = todo \ {c} /\ active' = {}
        /\ UNCHANGED <<fileVars, relink, inHand>>

-----------------------------------------------------------------------------
(* A pending object without one: remove the candidates, then the rows.     *)

\* The two unlinks are one step: what a crash between them leaves is no more
\* provable, and is discarded the next time.
DiscardFiles ==
    \E c \in todo :
        /\ AtRecovery("recover", "r_delete_entries")
        /\ ~FinalProvable(c) /\ ~TempProvable(c)
        /\ UnlinkBoth(c)
        /\ active' = {c}
        /\ UNCHANGED <<manifestVars, todo, relink, inHand>>

DeletePendingEntries ==
    \E c \in active :
        /\ AtRecovery("r_delete_entries", "r_delete_object")
        /\ entry' = [s \in Slot |-> IF s \in EntriesOf(c, "PENDING") THEN "absent" ELSE entry[s]]
        /\ UNCHANGED <<fileVars, row, jobRow, recoveryVars>>

\* The foreign key of session_entry forbids deleting a referenced object.
DeletePendingObject ==
    \E c \in active :
        /\ AtRecovery("r_delete_object", "recover")
        /\ EntriesOf(c, "VERIFIED") = {}
        /\ SetRow(c, "absent")
        /\ todo' = todo \ {c} /\ active' = {}
        /\ UNCHANGED <<fileVars, relink, inHand>>

-----------------------------------------------------------------------------
(* After the last object.                                                  *)

RemoveOrphans ==
    /\ AtRecovery("recover", "flag")
    /\ todo = {}
    /\ RemoveOrphanPartials
    /\ UNCHANGED <<manifestVars, recoveryVars>>

FlagInterruptedJob ==
    \E j \in IncompleteJobs :
        /\ AtRecovery("flag", "flag")
        /\ SetJobRow(j, "RECOVERY_REQUIRED")
        /\ UNCHANGED <<fileVars, recoveryVars>>

\* Mutant: jobs that were left running are not looked for.
ReadyWithoutFlagging ==
    /\ AtRecovery("flag", "idle")
    /\ UNCHANGED <<storeVars, recoveryVars>>

\* Only now does the service start to accept jobs.
ServiceReady ==
    /\ AtRecovery("flag", "idle")
    /\ IncompleteJobs = {}
    /\ UNCHANGED <<storeVars, recoveryVars>>

\* A session path held by a foreign file, a referenced object that cannot
\* be deleted, an OSError or an sqlite3.Error: nothing catches any of them.
RecoveryRaises ==
    /\ \/ pc = "r_entries" /\ \E s \in relink : ~Linkable(s)
       \/ pc = "r_delete_object" /\ \E c \in active : EntriesOf(c, "VERIFIED") # {}
       \/ "io" \in Disruptions /\ pc \in {"recover", "r_sync_object", "r_entries",
                                          "r_sync_session"}
       \/ "sql" \in Disruptions /\ pc \in {"r_entry", "r_entries", "r_delete_entries",
                                           "r_delete_object", "flag"}
    /\ pc' = "off" /\ RecoveryCleared
    /\ UNCHANGED <<storeVars, jobVars, planVars, crashes>>

RecoveryStep ==
    \/ Boot \/ RecoverFinal \/ RecoverTemp \/ RecoverySyncObject
    \/ RecoveryLink \/ RecoverySyncSession \/ RecoveryFinalizeEntry
    \/ RecoveryMarkVerified
    \/ DiscardFiles \/ DeletePendingEntries \/ DeletePendingObject
    \/ RemoveOrphans \/ FlagInterruptedJob \/ ServiceReady \/ RecoveryRaises
=============================================================================
