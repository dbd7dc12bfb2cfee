----------------------------- MODULE PromiseProof -----------------------------
(***************************************************************************)
(* Archive implements VerifiedArchive: every step of the worker, of        *)
(* recovery and of the machine begins or ends a job, verifies a content,   *)
(* attaches a file, or changes nothing that was promised.                  *)
(***************************************************************************)
EXTENDS ArchiveProof

\* Only what the card really held is ever entered for a job.
EntryInv == \A s \in Slot : entry[s] # "absent" => ContentAt(s) # Unsupported

LEMMA StepEntryInv ==
    ASSUME TypeOK, JobInv, ProgressInv, RecoveryInv, EntryInv, [Next]_vars
    PROVE EntryInv'
<1> USE DEF TypeOK, StoreTypeOK
<1> SUFFICES ASSUME NEW s \in Slot, entry'[s] # "absent"
             PROVE card'[s[1]][s[2]] # Unsupported
  BY DEF EntryInv, ContentAt
<1>1. s[1] \in Job /\ s[2] \in File /\ s = <<s[1], s[2]>>
  BY DEF Slot
<1>2. CASE UNCHANGED planVars
  <2> SUFFICES ASSUME entry[s] = "absent" PROVE card[s[1]][s[2]] # Unsupported
    BY <1>2 DEF EntryInv, ContentAt, planVars
  <2>1. CASE RecordPendingEntry \/ MarkEntryVerified
    <3>1. s = Here /\ pc \in {"record_entry", "mark_entry"}
      BY <2>1 DEF RecordPendingEntry, MarkEntryVerified, AtStep, SetEntry
    <3> QED
      BY <3>1 DEF Here, JobInv, JobPcs, FinalizePcs
  <2>2. CASE RecoveryFinalizeEntry
    BY <2>2 DEF RecoveryFinalizeEntry, SetEntry, RecoveryInv
  <2>3. CASE DeletePendingEntries \/ UNCHANGED entry
    BY <2>3 DEF DeletePendingEntries
  <2> QED
    BY <2>1, <2>2, <2>3, EntryFrame
<1>3. CASE StartJob
  <2>1. PICK j \in NextJob, k \in Cards :
          card' = [card EXCEPT ![j] = k] /\ entry' = entry
    BY <1>3 DEF StartJob, SetJobRow
  <2>2. j # s[1]
    BY <1>1, <2>1 DEF NextJob, ProgressInv
  <2> QED
    BY <1>1, <2>1, <2>2 DEF EntryInv, ContentAt
<1> QED
  BY <1>2, <1>3, PlanFrame

LEMMA InitPromise == Init => Promise!Init
<1> SUFFICES ASSUME Init PROVE Promise!Init
  OBVIOUS
<1>1. \A j \in Job : Status(j) = "absent"
  BY DEF Init, StoreInit, Status, CompletedStates
<1>2. {c \in Content : row[c] = "VERIFIED"} = {} /\ {s \in Slot : entry[s] = "VERIFIED"} = {}
  BY DEF Init, StoreInit
<1>3. [j \in Job |-> Status(j)] = [j \in Job |-> "absent"]
  BY <1>1, Zenon
<1>4. card = [j \in Job |-> [f \in File |-> Unsupported]]
  BY DEF Init
<1> QED
  BY <1>2, <1>3, <1>4 DEF Promise!Init

\* A job is verified and attached as a whole when it is recorded completed.
LEMMA FinishedIsWhole ==
    ASSUME TypeOK, JobInv, ProgressInv, FinishJob, Outcome \in CompletedStates,
           NEW f \in File, card[cur][f] # Unsupported
    PROVE row[card[cur][f]] = "VERIFIED" /\ entry[<<cur, f>>] = "VERIFIED"
<1>1. pos = NumFiles + 1 /\ failed = {} /\ pc = "loop"
  BY CountsAreNatural DEF FinishJob, Outcome, JobInv, JobPcs, File, CompletedStates, TypeOK
<1>2. f < pos
  BY <1>1, CountsAreNatural DEF File
<1> QED
  BY <1>1, <1>2 DEF ProgressInv, JobPcs

\* A step on job rows leaves the manifest's objects and entries alone.
LEMMA JobRowStepPromised ==
    ASSUME Inv, [Next]_vars, StartJob \/ FinishJob \/ FlagInterruptedJob
    PROVE \E j \in Job : Promise!Begin(j) \/ Promise!Complete(j) \/ Promise!Abandon(j)
<1> USE DEF Inv, TypeOK, StoreTypeOK
<1>1. CASE StartJob
  <2>1. PICK j \in NextJob, k \in Cards :
          /\ card' = [card EXCEPT ![j] = k]
          /\ jobRow' = [jobRow EXCEPT ![j] = "BACKUP_COPYING"]
          /\ UNCHANGED <<row, entry>>
    BY <1>1 DEF StartJob, SetJobRow
  <2>2. j \in Job /\ k \in Promise!Card
    BY <2>1, CardsAreFiles DEF NextJob, Promise!Card
  <2>3. \A i \in Job : jobRow[i] # "BACKUP_COPYING"
    BY <1>1 DEF StartJob, JobInv, IncompleteJobs
  <2>4. Promise!Begin(j)
    BY <2>1, <2>2, <2>3 DEF NextJob, Promise!Begin, Status, CompletedStates
  <2> QED
    BY <2>2, <2>4
<1>2. CASE FinishJob
  <2>1. /\ cur \in Job /\ jobRow[cur] = "BACKUP_COPYING"
        /\ jobRow' = [jobRow EXCEPT ![cur] = Outcome]
        /\ UNCHANGED <<row, entry, card>>
    BY <1>2 DEF FinishJob, SetJobRow, OutsideJob, planVars, JobInv, JobPcs, IncompleteJobs
  <2>2. CASE Outcome \in CompletedStates
    <3>1. \A f \in File : card[cur][f] # Unsupported =>
            row[card[cur][f]] = "VERIFIED" /\ entry[<<cur, f>>] = "VERIFIED"
      BY <1>2, <2>2, FinishedIsWhole
    <3>2. \A f \in File : card[cur][f] # Unsupported =>
            /\ card[cur][f] \in {c \in Content : row[c] = "VERIFIED"}
            /\ <<cur, f>> \in {s \in Slot : entry[s] = "VERIFIED"}
      BY <2>1, <3>1 DEF Slot
    <3>3. Promise!Complete(cur)
      BY <2>1, <2>2, <3>2 DEF Promise!Complete, Status, CompletedStates
    <3> QED
      BY <2>1, <3>3
  <2>3. CASE Outcome \notin CompletedStates
    <3>1. Outcome \in {"BACKUP_CANCELLED", "BACKUP_FAILED"}
      BY <2>3 DEF Outcome, CompletedStates
    <3>2. Promise!Abandon(cur)
      BY <2>1, <3>1 DEF Promise!Abandon, Status, CompletedStates
    <3> QED
      BY <2>1, <3>2
  <2> QED
    BY <2>2, <2>3
<1>3. CASE FlagInterruptedJob
  <2>1. PICK j \in IncompleteJobs :
          /\ jobRow' = [jobRow EXCEPT ![j] = "RECOVERY_REQUIRED"]
          /\ UNCHANGED <<row, entry, card>>
    BY <1>3 DEF FlagInterruptedJob, SetJobRow, AtRecovery, planVars
  <2>2. Promise!Abandon(j)
    BY <2>1 DEF IncompleteJobs, Promise!Abandon, Status, CompletedStates
  <2> QED
    BY <2>1, <2>2 DEF IncompleteJobs
<1> QED
  BY <1>1, <1>2, <1>3

\* A step on an object's row verifies one content, or verifies nothing.
LEMMA RowStepPromised ==
    ASSUME Inv, [Next]_vars, UNCHANGED <<entry, jobRow, card>>
    PROVE Promise!Next \/ UNCHANGED Promise!vars
<1> USE DEF Inv, TypeOK, StoreTypeOK
<1>1. \A c \in Content : row[c] = "VERIFIED" => row'[c] = "VERIFIED"
  BY VerifiedRowStays
<1>2. CASE \A c \in Content : row'[c] = "VERIFIED" => row[c] = "VERIFIED"
  BY <1>1, <1>2 DEF Promise!vars, Status
<1>3. ASSUME NEW c \in Content, row'[c] = "VERIFIED", row[c] # "VERIFIED"
      PROVE Promise!Next
  <2>1. \A d \in Content : d # c => row'[d] = row[d]
    BY <1>3, RowFrame DEF RecordPendingObject, MarkObjectVerified, RecoveryMarkVerified,
      DeletePendingObject, SetRow
  <2>2. Promise!Verify(c)
    BY <1>1, <1>3, <2>1 DEF Promise!Verify, Status
  <2> QED
    BY <2>2 DEF Promise!Next
<1> QED
  BY <1>2, <1>3

\* A step on an entry attaches one file, or attaches nothing.
LEMMA EntryStepPromised ==
    ASSUME Inv, EntryInv, EntryInv', [Next]_vars, UNCHANGED <<row, jobRow, card>>
    PROVE Promise!Next \/ UNCHANGED Promise!vars
<1> USE DEF Inv, TypeOK, StoreTypeOK
<1>1. \A s \in Slot : entry[s] = "VERIFIED" => entry'[s] = "VERIFIED"
  BY VerifiedEntryStays
<1>2. CASE \A s \in Slot : entry'[s] = "VERIFIED" => entry[s] = "VERIFIED"
  BY <1>1, <1>2 DEF Promise!vars, Status
<1>3. ASSUME NEW s \in Slot, entry'[s] = "VERIFIED", entry[s] # "VERIFIED"
      PROVE Promise!Next
  <2>1. \A t \in Slot : t # s => (entry'[t] = "VERIFIED" <=> entry[t] = "VERIFIED")
    BY <1>3, EntryFrame DEF RecordPendingEntry, MarkEntryVerified, RecoveryFinalizeEntry,
      DeletePendingEntries, SetEntry
  <2>2. PICK j \in Job, f \in File : s = <<j, f>>
    BY DEF Slot
  <2>3. jobRow[j] # "absent"
    <3> SUFFICES ASSUME jobRow'[j] = "absent" PROVE FALSE
      OBVIOUS
    <3>1. ProgressInv'
      BY StepProgressInv
    <3> QED
      BY <1>3, <2>2, <3>1 DEF ProgressInv
  <2>4. card[j][f] # Unsupported
    BY <1>3, <2>2 DEF EntryInv, ContentAt
  <2>5. Promise!Attach(j, f)
    BY <1>1, <1>3, <2>1, <2>2, <2>3, <2>4 DEF Promise!Attach, Status, CompletedStates
  <2> QED
    BY <2>2, <2>5 DEF Promise!Next
<1> QED
  BY <1>2, <1>3

\* One statement, one part of the manifest.
LEMMA OneStatement ==
    ASSUME [Next]_vars
    PROVE \/ StartJob \/ FinishJob \/ FlagInterruptedJob
          \/ UNCHANGED <<entry, jobRow, card>>
          \/ UNCHANGED <<row, jobRow, card>>
<1>1. CASE StartJob \/ FinishJob \/ FlagInterruptedJob
  BY <1>1
<1>2. CASE UNCHANGED <<jobRow, planVars>>
  BY <1>2, RowFrame DEF RecordPendingObject, MarkObjectVerified, RecoveryMarkVerified,
    DeletePendingObject, SetRow, planVars
<1> QED
  BY <1>1, <1>2, JobRowFrame, PlanFrame

\* Archive implements VerifiedArchive: whatever fails or crashes, the
\* manifest keeps what it has recorded as verified, closes each job once, and
\* closes it as completed only with all its files.
THEOREM PromiseIsKept == Spec => KeepsPromise
<1>1. Init => Promise!Init /\ EntryInv
  BY InitPromise DEF Init, StoreInit, EntryInv
<1>2. Inv /\ EntryInv /\ [Next]_vars => EntryInv'
  BY StepEntryInv DEF Inv
<1>3. Inv /\ EntryInv /\ EntryInv' /\ [Next]_vars => [Promise!Next]_Promise!vars
  <2> SUFFICES ASSUME Inv, EntryInv, EntryInv', [Next]_vars
               PROVE Promise!Next \/ UNCHANGED Promise!vars
    OBVIOUS
  <2>1. CASE StartJob \/ FinishJob \/ FlagInterruptedJob
    BY <2>1, JobRowStepPromised DEF Promise!Next
  <2>2. CASE UNCHANGED <<entry, jobRow, card>>
    BY <2>2, RowStepPromised
  <2>3. CASE UNCHANGED <<row, jobRow, card>>
    BY <2>3, EntryStepPromised
  <2> QED
    BY <2>1, <2>2, <2>3, OneStatement
<1> QED
  BY <1>1, <1>2, <1>3, InvInvariant, PTL DEF Spec, KeepsPromise, Promise!Spec
=============================================================================
