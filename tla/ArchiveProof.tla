---------------------------- MODULE ArchiveProof ----------------------------
(***************************************************************************)
(* Proofs about Archive for every value of its constants: any contents,    *)
(* cards, numbers of files and jobs, any mix of disruptions, any number of *)
(* crashes, either durability contract.                                    *)
(*                                                                         *)
(* First the frame of each part of the state: which actions change it at   *)
(* all.  Then what is never undone (a safe link, a VERIFIED row, a         *)
(* VERIFIED entry), then one lemma for each conjunct of the inductive      *)
(* invariant, then the theorems.                                           *)
(***************************************************************************)
EXTENDS ArchiveInv, TLAPS

-----------------------------------------------------------------------------
(* Frames.                                                                 *)

\* Who writes content_object.status.
LEMMA RowFrame ==
    ASSUME [Next]_vars
    PROVE \/ RecordPendingObject \/ MarkObjectVerified
          \/ RecoveryMarkVerified \/ DeletePendingObject
          \/ UNCHANGED row
<1>1. CASE StartJob \/ RequestCancel \/ JobStep
  BY <1>1 DEF StartJob, RequestCancel, JobStep, SkipFile, LinkMissing, LinkPresent,
    BeginCopy, AttemptOk, AttemptMismatch, RetriesExhausted, AttemptOSError,
    RecordPendingEntry, Replace, SyncObject, LinkSession, SyncSession, MarkEntryVerified,
    DestinationOSError, SessionConflict, ManifestError, FinishJob,
    SetEntry, SetJobRow, storeVars, manifestVars
<1>2. CASE RecoveryStep
  BY <1>2 DEF RecoveryStep, Boot, RecoverFinal, RecoverTemp, RecoverySyncObject,
    RecoveryLink, RecoverySyncSession, RecoveryFinalizeEntry, DiscardFiles,
    DeletePendingEntries, RemoveOrphans, FlagInterruptedJob, ServiceReady,
    RecoveryRaises, SetEntry, SetJobRow, storeVars, manifestVars
<1>3. CASE ProcessCrash \/ PowerLoss \/ KernelWriteBack \/ BitRot \/ UNCHANGED vars
  BY <1>3 DEF ProcessCrash, PowerLoss, KernelWriteBack, WriteBack, BitRot,
    vars, storeVars, manifestVars
<1> QED
  BY <1>1, <1>2, <1>3 DEF Next

\* Who writes session_entry.state.
LEMMA EntryFrame ==
    ASSUME [Next]_vars
    PROVE \/ RecordPendingEntry \/ MarkEntryVerified
          \/ RecoveryFinalizeEntry \/ DeletePendingEntries
          \/ UNCHANGED entry
<1>1. CASE StartJob \/ RequestCancel \/ JobStep
  BY <1>1 DEF StartJob, RequestCancel, JobStep, SkipFile, LinkMissing, LinkPresent,
    BeginCopy, AttemptOk, AttemptMismatch, RetriesExhausted, AttemptOSError,
    RecordPendingObject, Replace, SyncObject, LinkSession, SyncSession, MarkObjectVerified,
    DestinationOSError, SessionConflict, ManifestError, FinishJob,
    SetRow, SetJobRow, storeVars, manifestVars
<1>2. CASE RecoveryStep
  BY <1>2 DEF RecoveryStep, Boot, RecoverFinal, RecoverTemp, RecoverySyncObject,
    RecoveryLink, RecoverySyncSession, RecoveryMarkVerified, DiscardFiles,
    DeletePendingObject, RemoveOrphans, FlagInterruptedJob, ServiceReady,
    RecoveryRaises, SetRow, SetJobRow, storeVars, manifestVars
<1>3. CASE ProcessCrash \/ PowerLoss \/ KernelWriteBack \/ BitRot \/ UNCHANGED vars
  BY <1>3 DEF ProcessCrash, PowerLoss, KernelWriteBack, WriteBack, BitRot,
    vars, storeVars, manifestVars
<1> QED
  BY <1>1, <1>2, <1>3 DEF Next

\* Who writes backup_job.state.
LEMMA JobRowFrame ==
    ASSUME [Next]_vars
    PROVE StartJob \/ FinishJob \/ FlagInterruptedJob \/ UNCHANGED jobRow
<1>1. CASE RequestCancel \/ JobStep
  BY <1>1 DEF RequestCancel, JobStep, SkipFile, LinkMissing, LinkPresent,
    BeginCopy, AttemptOk, AttemptMismatch, RetriesExhausted, AttemptOSError,
    RecordPendingObject, RecordPendingEntry, Replace, SyncObject, LinkSession,
    SyncSession, MarkObjectVerified, MarkEntryVerified,
    DestinationOSError, SessionConflict, ManifestError,
    SetRow, SetEntry, storeVars, manifestVars
<1>2. CASE RecoveryStep
  BY <1>2 DEF RecoveryStep, Boot, RecoverFinal, RecoverTemp, RecoverySyncObject,
    RecoveryLink, RecoverySyncSession, RecoveryFinalizeEntry, RecoveryMarkVerified,
    DiscardFiles, DeletePendingEntries, DeletePendingObject, RemoveOrphans,
    ServiceReady, RecoveryRaises, SetRow, SetEntry, storeVars, manifestVars
<1>3. CASE ProcessCrash \/ PowerLoss \/ KernelWriteBack \/ BitRot \/ UNCHANGED vars
  BY <1>3 DEF ProcessCrash, PowerLoss, KernelWriteBack, WriteBack, BitRot,
    vars, storeVars, manifestVars
<1> QED
  BY <1>1, <1>2, <1>3 DEF Next

\* Who changes a session path, or what is durable of it.
LEMMA LinkFrame ==
    ASSUME [Next]_vars
    PROVE \/ SyncObject \/ LinkSession \/ SyncSession
          \/ RecoverySyncObject \/ RecoveryLink \/ RecoverySyncSession
          \/ PowerLoss \/ KernelWriteBack
          \/ UNCHANGED linkVars
<1>1. CASE StartJob \/ RequestCancel \/ JobStep
  BY <1>1 DEF StartJob, RequestCancel, JobStep, SkipFile, LinkMissing, LinkPresent,
    BeginCopy, AttemptOk, AttemptMismatch, RetriesExhausted, AttemptOSError,
    RecordPendingObject, RecordPendingEntry, Replace, MarkObjectVerified,
    MarkEntryVerified, DestinationOSError, SessionConflict, ManifestError, FinishJob,
    SetPartial, ReplaceFinal, storeVars, fileVars, linkVars
<1>2. CASE RecoveryStep
  BY <1>2 DEF RecoveryStep, Boot, RecoverFinal, RecoverTemp, RecoveryFinalizeEntry,
    RecoveryMarkVerified, DiscardFiles, DeletePendingEntries, DeletePendingObject,
    RemoveOrphans, FlagInterruptedJob, ServiceReady, RecoveryRaises,
    ReplaceFinal, UnlinkBoth, RemoveOrphanPartials, storeVars, fileVars, linkVars
<1>3. CASE ProcessCrash \/ BitRot \/ UNCHANGED vars
  BY <1>3 DEF ProcessCrash, BitRot, vars, storeVars, fileVars, linkVars
<1> QED
  BY <1>1, <1>2, <1>3 DEF Next

\* What a source held and what was planned for it is fixed when a job starts.
LEMMA PlanFrame ==
    ASSUME [Next]_vars
    PROVE StartJob \/ UNCHANGED planVars
<1>1. CASE RequestCancel \/ JobStep
  BY <1>1 DEF RequestCancel, JobStep, SkipFile, LinkMissing, LinkPresent,
    BeginCopy, AttemptOk, AttemptMismatch, RetriesExhausted, AttemptOSError,
    RecordPendingObject, RecordPendingEntry, Replace, SyncObject, LinkSession,
    SyncSession, MarkObjectVerified, MarkEntryVerified,
    DestinationOSError, SessionConflict, ManifestError, FinishJob, OutsideJob
<1>2. CASE RecoveryStep
  BY <1>2 DEF RecoveryStep, Boot, RecoverFinal, RecoverTemp, RecoverySyncObject,
    RecoveryLink, RecoverySyncSession, RecoveryFinalizeEntry, RecoveryMarkVerified,
    DiscardFiles, DeletePendingEntries, DeletePendingObject, RemoveOrphans,
    FlagInterruptedJob, ServiceReady, RecoveryRaises, AtRecovery
<1>3. CASE ProcessCrash \/ PowerLoss \/ KernelWriteBack \/ BitRot \/ UNCHANGED vars
  BY <1>3 DEF ProcessCrash, PowerLoss, KernelWriteBack, BitRot, vars
<1> QED
  BY <1>1, <1>2, <1>3 DEF Next

-----------------------------------------------------------------------------
(* Types.                                                                  *)

LEMMA FlushType ==
    ASSUME StoreTypeOK, NEW objects, NEW slots, Flush(objects, slots)
    PROVE /\ UNCHANGED <<partial, final, link>>
          /\ partialDisk' \in [Content -> ObjectState]
          /\ finalDisk' \in [Content -> ObjectState]
          /\ linkDisk' \in [Slot -> LinkState]
BY DEF StoreTypeOK, Flush

\* fsync, by either durability contract, is a flush.
LEMMA SyncIsFlush ==
    /\ \A c \in Content : FsyncObjectDir(c) => \E o, s : Flush(o, s)
    /\ \A t \in Slot : FsyncSessionDir(t) => \E o, s : Flush(o, s)
    /\ WriteBack => (\E o, s : Flush(o, s)) /\ UNCHANGED manifestVars
BY OrderedJournalIsBoolean DEF FsyncObjectDir, FsyncSessionDir, WriteBack

LEMMA StepStoreType ==
    ASSUME StoreTypeOK, [Next]_vars, JobInv, TypeOK
    PROVE StoreTypeOK'
<1> USE DEF storeVars, fileVars, pathVars, linkVars, manifestVars
<1>1. ASSUME NEW o, NEW s, Flush(o, s), UNCHANGED manifestVars PROVE StoreTypeOK'
  BY <1>1, FlushType DEF StoreTypeOK
<1>2. CASE StartJob
  BY <1>2 DEF StartJob, SetJobRow, StoreTypeOK, JobState
<1>3. CASE RequestCancel \/ SkipFile \/ LinkMissing \/ LinkPresent \/ DestinationOSError
        \/ SessionConflict \/ ManifestError \/ UNCHANGED vars
  BY <1>3 DEF RequestCancel, SkipFile, LinkMissing, LinkPresent, DestinationOSError,
    SessionConflict, ManifestError, vars, StoreTypeOK
<1>4. CASE BeginCopy \/ AttemptOk \/ AttemptMismatch \/ RetriesExhausted \/ AttemptOSError
  BY <1>4 DEF BeginCopy, AttemptOk, AttemptMismatch, RetriesExhausted, AttemptOSError,
    SetPartial, StoreTypeOK, ObjectState
<1>5. CASE RecordPendingObject \/ RecordPendingEntry \/ MarkObjectVerified
        \/ MarkEntryVerified \/ FinishJob
  BY <1>5 DEF RecordPendingObject, RecordPendingEntry, MarkObjectVerified,
    MarkEntryVerified, FinishJob, SetRow, SetEntry, SetJobRow, Outcome, StoreTypeOK,
    RowState, EntryState, JobState, CompletedStates
<1>6. CASE Replace \/ LinkSession
  <2>1. CASE Replace
    <3>1. pc = "replace"
      BY <2>1 DEF Replace, AtStep
    <3>2. ContentHere \in Content
      BY <3>1 DEF JobInv, JobPcs, FinalizePcs, TypeOK, ContentHere
    <3> QED
      BY <2>1, <3>2 DEF Replace, ReplaceFinal, StoreTypeOK, ObjectState
  <2>2. CASE LinkSession
    BY <2>2 DEF LinkSession, PlaceLink, StoreTypeOK, LinkState
  <2> QED
    BY <1>6, <2>1, <2>2
<1>7. CASE SyncObject \/ SyncSession
  <2>1. Here \in Slot /\ ContentHere \in Content
    BY <1>7 DEF SyncObject, SyncSession, AtStep, JobInv, JobPcs, FinalizePcs, TypeOK,
      ContentHere, Here, Slot
  <2> QED
    BY <1>1, <1>7, <2>1, SyncIsFlush DEF SyncObject, SyncSession
<1>8. CASE RecoverySyncObject \/ RecoverySyncSession \/ KernelWriteBack
  BY <1>1, <1>8, SyncIsFlush
  DEF RecoverySyncObject, RecoverySyncSession, KernelWriteBack, TypeOK
<1>9. CASE Boot \/ RecoverFinal \/ ServiceReady \/ RecoveryRaises \/ ProcessCrash
  BY <1>9 DEF Boot, RecoverFinal, ServiceReady, RecoveryRaises, ProcessCrash, StoreTypeOK
<1>10. CASE RecoverTemp \/ RecoveryLink \/ DiscardFiles \/ RemoveOrphans
  <2>1. CASE RecoverTemp
    BY <2>1 DEF RecoverTemp, ReplaceFinal, StoreTypeOK, TypeOK, ObjectState
  <2>2. CASE RecoveryLink
    BY <2>2 DEF RecoveryLink, PlaceLink, StoreTypeOK, LinkState
  <2>3. CASE DiscardFiles \/ RemoveOrphans
    BY <2>3 DEF DiscardFiles, RemoveOrphans, UnlinkBoth, RemoveOrphanPartials,
      StoreTypeOK, ObjectState
  <2> QED
    BY <1>10, <2>1, <2>2, <2>3
<1>11. CASE RecoveryFinalizeEntry \/ RecoveryMarkVerified \/ DeletePendingEntries
         \/ DeletePendingObject \/ FlagInterruptedJob
  BY <1>11 DEF RecoveryFinalizeEntry, RecoveryMarkVerified, DeletePendingEntries,
    DeletePendingObject, FlagInterruptedJob, SetRow, SetEntry, SetJobRow, StoreTypeOK,
    RowState, EntryState, JobState
<1>12. CASE PowerLoss \/ BitRot
  BY <1>12 DEF PowerLoss, LosePower, BitRot, StoreTypeOK, ObjectState
<1> QED
  BY <1>2, <1>3, <1>4, <1>5, <1>6, <1>7, <1>8, <1>9, <1>10, <1>11, <1>12
  DEF Next, JobStep, RecoveryStep

LEMMA StepType ==
    ASSUME TypeOK, JobInv, [Next]_vars
    PROVE TypeOK'
<1>1. StoreTypeOK'
  BY StepStoreType DEF TypeOK
<1>2. pc \in JobPcs => cur \in Job /\ pos \in Nat
  BY DEF JobInv, TypeOK
<1>3. /\ pc' \in JobPcs \union RecoveryPcs \union {"off", "idle", "stuck"}
      /\ cur' \in Nat /\ pos' \in Nat /\ attempts' \in Nat
      /\ crashes' \in Nat /\ failed' \subseteq File
  <2> USE DEF TypeOK, jobVars, JobPcs, RecoveryPcs, FinalizePcs
  <2>1. CASE StartJob \/ RequestCancel
    <3>1. CASE StartJob
      BY <3>1 DEF StartJob, NextJob, Job
    <3>2. CASE RequestCancel
      BY <3>2 DEF RequestCancel
    <3> QED
      BY <2>1, <3>1, <3>2
  <2>2. CASE SkipFile \/ LinkMissing \/ LinkPresent \/ BeginCopy
    BY <2>2, <1>2 DEF SkipFile, LinkMissing, LinkPresent, BeginCopy, AtFile, Processed,
      FailedHere, NextFile, OutsideJob
  <2>3. CASE AttemptOk \/ AttemptMismatch \/ RetriesExhausted \/ AttemptOSError
    BY <2>3, <1>2 DEF AttemptOk, AttemptMismatch, RetriesExhausted, AttemptOSError,
      FailedHere, NextFile, AtStep, OutsideJob, JobInv
  <2>4. CASE RecordPendingObject \/ RecordPendingEntry \/ Replace \/ SyncObject
          \/ LinkSession \/ SyncSession \/ MarkObjectVerified \/ MarkEntryVerified
    BY <2>4, <1>2 DEF RecordPendingObject, RecordPendingEntry, Replace, SyncObject,
      LinkSession, SyncSession, MarkObjectVerified, MarkEntryVerified, Processed,
      NextFile, AtStep, OutsideJob
  <2>5. CASE DestinationOSError \/ SessionConflict \/ ManifestError \/ FinishJob
    <3>1. CASE DestinationOSError \/ SessionConflict
      <4>1. pos \in File
        BY <3>1 DEF DestinationOSError, SessionConflict, JobInv
      <4>2. UNCHANGED jobVars \/ FailedHere
        BY <3>1 DEF DestinationOSError, SessionConflict
      <4>3. failed' \subseteq File
        BY <4>1, <4>2 DEF FailedHere
      <4>4. /\ pc' \in {"stuck", "loop"} /\ cur' \in Nat /\ pos' \in Nat
            /\ attempts' \in Nat
        BY <3>1, <4>2 DEF DestinationOSError, SessionConflict, FailedHere, NextFile
      <4> QED
        BY <3>1, <4>3, <4>4 DEF DestinationOSError, SessionConflict, OutsideJob
    <3>2. CASE ManifestError \/ FinishJob
      BY <3>2 DEF ManifestError, FinishJob, JobCleared, OutsideJob
    <3> QED
      BY <2>5, <3>1, <3>2
  <2>6. CASE RecoveryStep
    BY <2>6 DEF RecoveryStep, Boot, RecoverFinal, RecoverTemp, RecoverySyncObject,
      RecoveryLink, RecoverySyncSession, RecoveryFinalizeEntry, RecoveryMarkVerified,
      DiscardFiles, DeletePendingEntries, DeletePendingObject, RemoveOrphans,
      FlagInterruptedJob, ServiceReady, RecoveryRaises, AtRecovery
  <2>7. CASE ProcessCrash \/ PowerLoss \/ KernelWriteBack \/ BitRot \/ UNCHANGED vars
    <3>1. CASE ProcessCrash \/ PowerLoss
      BY <3>1 DEF ProcessCrash, PowerLoss, Die, JobCleared
    <3>2. CASE KernelWriteBack \/ BitRot \/ UNCHANGED vars
      BY <3>2 DEF KernelWriteBack, BitRot, vars
    <3> QED
      BY <2>7, <3>1, <3>2
  <2> QED
    BY <2>1, <2>2, <2>3, <2>4, <2>5, <2>6, <2>7 DEF Next, JobStep
<1>4. /\ card' \in [Job -> [File -> Content \union {Unsupported}]]
      /\ plan' \in [Job -> [File -> Action]]
  <2>1. CASE StartJob
    BY <2>1, CardsAreFiles DEF StartJob, NextJob, PlannedAction, Classified, HasVerifiedObject, Action, TypeOK
  <2>2. CASE UNCHANGED planVars
    BY <2>2 DEF planVars, TypeOK
  <2> QED
    BY <2>1, <2>2, PlanFrame
<1>5. /\ todo' \subseteq Content /\ active' \subseteq Content
      /\ relink' \subseteq Slot /\ inHand' \subseteq Slot
  <2> USE DEF TypeOK, recoveryVars
  <2>1. CASE StartJob \/ RequestCancel \/ UNCHANGED vars
    BY <2>1 DEF StartJob, RequestCancel, vars
  <2>2. CASE JobStep
    BY <2>2 DEF JobStep, SkipFile, LinkMissing, LinkPresent, BeginCopy, AttemptOk,
      AttemptMismatch, RetriesExhausted, AttemptOSError, RecordPendingObject,
      RecordPendingEntry, Replace, SyncObject, LinkSession, SyncSession,
      MarkObjectVerified, MarkEntryVerified, DestinationOSError, SessionConflict,
      ManifestError, FinishJob, OutsideJob
  <2>3. CASE RecoveryStep
    BY <2>3 DEF RecoveryStep, Boot, RecoverFinal, RecoverTemp, RecoverySyncObject,
      RecoveryLink, RecoverySyncSession, RecoveryFinalizeEntry, RecoveryMarkVerified,
      DiscardFiles, DeletePendingEntries, DeletePendingObject, RemoveOrphans,
      FlagInterruptedJob, ServiceReady, RecoveryRaises, RecoveryCleared, PendingObjects,
      EntriesOf
  <2>4. CASE ProcessCrash \/ PowerLoss \/ KernelWriteBack \/ BitRot
    BY <2>4 DEF ProcessCrash, PowerLoss, KernelWriteBack, BitRot, Die, RecoveryCleared
  <2> QED
    BY <2>1, <2>2, <2>3, <2>4 DEF Next
<1>6. cancel' \in BOOLEAN
  <2>1. UNCHANGED cancel \/ cancel' = TRUE \/ cancel' = FALSE
    <3>1. CASE StartJob \/ RequestCancel \/ UNCHANGED vars
      BY <3>1 DEF StartJob, RequestCancel, vars, jobVars
    <3>2. CASE JobStep
      BY <3>2 DEF JobStep, SkipFile, LinkMissing, LinkPresent, BeginCopy, AttemptOk,
        AttemptMismatch, RetriesExhausted, AttemptOSError, RecordPendingObject,
        RecordPendingEntry, Replace, SyncObject, LinkSession, SyncSession,
        MarkObjectVerified, MarkEntryVerified, DestinationOSError, SessionConflict,
        ManifestError, FinishJob, Processed, FailedHere, NextFile,
        AtStep, JobCleared, jobVars
    <3>3. CASE RecoveryStep
      BY <3>3 DEF RecoveryStep, Boot, RecoverFinal, RecoverTemp, RecoverySyncObject,
        RecoveryLink, RecoverySyncSession, RecoveryFinalizeEntry, RecoveryMarkVerified,
        DiscardFiles, DeletePendingEntries, DeletePendingObject, RemoveOrphans,
        FlagInterruptedJob, ServiceReady, RecoveryRaises, AtRecovery, jobVars
    <3>4. CASE ProcessCrash \/ PowerLoss \/ KernelWriteBack \/ BitRot
      BY <3>4 DEF ProcessCrash, PowerLoss, KernelWriteBack, BitRot, Die, JobCleared, jobVars
    <3> QED
      BY <3>1, <3>2, <3>3, <3>4 DEF Next
  <2> QED
    BY <2>1, Zenon DEF TypeOK
<1> QED
  BY <1>1, <1>3, <1>4, <1>5, <1>6 DEF TypeOK

-----------------------------------------------------------------------------
(* What is never undone.                                                   *)

\* A visible and durable session link stays: nothing unlinks, and a power
\* loss falls back to what was durable.
LEMMA LinkSafeStays ==
    ASSUME TypeOK, [Next]_vars, NEW s \in Slot, LinkSafe(s)
    PROVE LinkSafe(s)'
<1> USE DEF LinkSafe, TypeOK, StoreTypeOK
<1>1. ASSUME NEW o, NEW t, Flush(o, t) PROVE LinkSafe(s)'
  BY <1>1 DEF Flush
<1>2. CASE SyncObject \/ SyncSession \/ RecoverySyncObject \/ RecoverySyncSession
        \/ KernelWriteBack
  BY <1>1, <1>2, OrderedJournalIsBoolean
  DEF SyncObject, SyncSession, RecoverySyncObject, RecoverySyncSession, KernelWriteBack,
    FsyncObjectDir, FsyncSessionDir, WriteBack
<1>3. CASE LinkSession \/ RecoveryLink
  BY <1>3 DEF LinkSession, RecoveryLink, PlaceLink, pathVars
<1>4. CASE PowerLoss
  BY <1>4 DEF PowerLoss, LosePower
<1>5. CASE UNCHANGED linkVars
  BY <1>5 DEF linkVars
<1> QED
  BY <1>2, <1>3, <1>4, <1>5, LinkFrame

\* A VERIFIED row stays: the worker moves to PENDING_FINALIZE only content
\* that is not verified, and recovery deletes pending rows only.
LEMMA VerifiedRowStays ==
    ASSUME TypeOK, JobInv, PlanInv, RecoveryInv, [Next]_vars,
           NEW c \in Content, row[c] = "VERIFIED"
    PROVE row'[c] = "VERIFIED"
<1> USE DEF TypeOK, StoreTypeOK
<1>1. CASE RecordPendingObject
  <2>1. pc = "record_object" /\ cur \in Job /\ pos \in File /\ Copying
    BY <1>1 DEF RecordPendingObject, AtStep, JobInv, JobPcs, FinalizePcs
  <2>2. pos \in Nat
    BY DEF TypeOK
  <2>3. row[ContentHere] # "VERIFIED"
    BY <2>1, <2>2 DEF PlanInv, JobPcs, FinalizePcs, Copying, ContentHere
  <2> QED
    BY <1>1, <2>3 DEF RecordPendingObject, SetRow
<1>2. CASE MarkObjectVerified \/ RecoveryMarkVerified
  BY <1>2 DEF MarkObjectVerified, RecoveryMarkVerified, SetRow
<1>3. CASE DeletePendingObject
  BY <1>3 DEF DeletePendingObject, SetRow, RecoveryInv
<1>4. CASE UNCHANGED row
  BY <1>4
<1> QED
  BY <1>1, <1>2, <1>3, <1>4, RowFrame

\* A VERIFIED entry stays: the worker writes PENDING only at a file it has
\* not passed, and recovery deletes pending entries only.
LEMMA VerifiedEntryStays ==
    ASSUME TypeOK, JobInv, ProgressInv, [Next]_vars,
           NEW s \in Slot, entry[s] = "VERIFIED"
    PROVE entry'[s] = "VERIFIED"
<1> USE DEF TypeOK, StoreTypeOK
<1>1. CASE RecordPendingEntry
  <2>1. pc = "record_entry" /\ cur \in Job /\ pos \in File
    BY <1>1 DEF RecordPendingEntry, AtStep, JobInv, JobPcs, FinalizePcs
  <2>2. entry[Here] # "VERIFIED"
    BY <2>1 DEF ProgressInv, JobPcs, FinalizePcs, Here
  <2> QED
    BY <1>1, <2>2 DEF RecordPendingEntry, SetEntry
<1>2. CASE MarkEntryVerified \/ RecoveryFinalizeEntry
  BY <1>2 DEF MarkEntryVerified, RecoveryFinalizeEntry, SetEntry
<1>3. CASE DeletePendingEntries
  BY <1>3 DEF DeletePendingEntries, EntriesOf
<1>4. CASE UNCHANGED entry
  BY <1>4
<1> QED
  BY <1>1, <1>2, <1>3, <1>4, EntryFrame

-----------------------------------------------------------------------------
(* The conjuncts of the invariant.                                         *)

LEMMA StepJobInv ==
    ASSUME TypeOK, JobInv, PlanInv, [Next]_vars
    PROVE JobInv'
<1> USE DEF TypeOK, JobPcs, FinalizePcs, RecoveryPcs
<1>1. CASE StartJob
  <2>1. PICK j \in NextJob, k \in Cards :
          /\ cur' = j
          /\ SetJobRow(j, "BACKUP_COPYING")
    BY <1>1 DEF StartJob
  <2>2. IncompleteJobs' = {j}
    BY <1>1, <2>1 DEF StartJob, JobInv, NextJob, SetJobRow, IncompleteJobs, StoreTypeOK
  <2> QED
    BY <1>1, <2>1, <2>2, CountsAreNatural DEF StartJob, JobInv, NextJob
<1>2. CASE SkipFile \/ LinkMissing \/ LinkPresent \/ BeginCopy
  <2>1. pc = "loop" /\ pos \in File /\ UNCHANGED <<jobRow, card, plan, cur>>
    BY <1>2 DEF SkipFile, LinkMissing, LinkPresent, BeginCopy, AtFile, Processed,
      FailedHere, NextFile, OutsideJob, planVars, storeVars, manifestVars, jobVars
  <2>2. \/ pc' = "loop" /\ pos' = pos + 1
        \/ pc' \in {"link", "attempt"} /\ pos' = pos /\ (Linking \/ Copying)
           /\ (pc' = "attempt" => Copying)
    BY <1>2 DEF SkipFile, LinkMissing, LinkPresent, BeginCopy, Processed, FailedHere,
      NextFile, jobVars
  <2>3. Linking \/ Copying => card[cur][pos] # Unsupported
    BY <2>1 DEF PlanInv, Linking, Copying
  <2> QED
    BY <2>1, <2>2, <2>3, CountsAreNatural DEF JobInv, IncompleteJobs, Copying, File
<1>3. CASE AttemptOk \/ AttemptMismatch \/ RetriesExhausted \/ AttemptOSError
  <2>1. pc = "attempt" /\ UNCHANGED <<jobRow, card, plan, cur>>
    BY <1>3 DEF AttemptOk, AttemptMismatch, RetriesExhausted, AttemptOSError, AtStep,
      FailedHere, NextFile, OutsideJob, planVars, manifestVars, jobVars
  <2>2. \/ pc' = "loop" /\ pos' = pos + 1
        \/ pc' \in {"attempt", "record_object"} /\ pos' = pos
    BY <1>3, <2>1 DEF AttemptOk, AttemptMismatch, RetriesExhausted, AttemptOSError, AtStep,
      FailedHere, NextFile, jobVars
  <2> QED
    BY <2>1, <2>2, CountsAreNatural DEF JobInv, IncompleteJobs, Copying, File
<1>4. CASE RecordPendingObject \/ RecordPendingEntry \/ Replace \/ SyncObject
        \/ LinkSession \/ SyncSession \/ MarkObjectVerified \/ MarkEntryVerified
  <2>1. pc \in FinalizePcs /\ UNCHANGED <<jobRow, card, plan, cur>>
    BY <1>4 DEF RecordPendingObject, RecordPendingEntry, Replace, SyncObject, LinkSession,
      SyncSession, MarkObjectVerified, MarkEntryVerified, AtStep, Processed, NextFile,
      OutsideJob, SetRow, SetEntry, planVars, manifestVars, jobVars
  <2>2. \/ pc' = "loop" /\ pos' = pos + 1
        \/ pc' \in FinalizePcs /\ pos' = pos
           /\ (pc' \in {"record_entry", "replace", "sync_object"} =>
                 pc \in {"record_object", "record_entry", "replace"})
           /\ pc' # "record_object"
    BY <1>4 DEF RecordPendingObject, RecordPendingEntry, Replace, SyncObject, LinkSession,
      SyncSession, MarkObjectVerified, MarkEntryVerified, AtStep, Processed, NextFile, jobVars
  <2> QED
    BY <2>1, <2>2, CountsAreNatural DEF JobInv, IncompleteJobs, Copying, File
<1>5. CASE DestinationOSError \/ SessionConflict \/ ManifestError
  <2>1. pc \in JobPcs /\ UNCHANGED <<jobRow, card, plan, cur>>
    BY <1>5 DEF DestinationOSError, SessionConflict, ManifestError, FailedHere, NextFile, OutsideJob, planVars, storeVars, manifestVars, jobVars
  <2>2. pc' = "stuck" \/ (pc' = "loop" /\ pos' = pos + 1 /\ pc # "loop")
    BY <1>5 DEF DestinationOSError, SessionConflict, ManifestError, FailedHere, NextFile
  <2> QED
    BY <2>1, <2>2, CountsAreNatural DEF JobInv, IncompleteJobs, File
<1>6. CASE FinishJob
  <2>1. pc' = "idle" /\ IncompleteJobs = {cur}
    BY <1>6 DEF FinishJob, JobInv
  <2>2. IncompleteJobs' = {}
    BY <1>6, <2>1 DEF FinishJob, SetJobRow, Outcome, IncompleteJobs, StoreTypeOK
  <2> QED
    BY <2>1, <2>2 DEF JobInv
<1>7. CASE RecoveryStep
  <2>1. pc' \in RecoveryPcs \/ pc' = "off" \/ ServiceReady
    BY <1>7 DEF RecoveryStep, Boot, RecoverFinal, RecoverTemp, RecoverySyncObject,
      RecoveryLink, RecoverySyncSession, RecoveryFinalizeEntry, RecoveryMarkVerified,
      DiscardFiles, DeletePendingEntries, DeletePendingObject, RemoveOrphans,
      FlagInterruptedJob, RecoveryRaises, AtRecovery
  <2>2. ServiceReady => pc' = "idle" /\ IncompleteJobs' = {}
    BY DEF ServiceReady, AtRecovery, IncompleteJobs, storeVars, manifestVars
  <2> QED
    BY <2>1, <2>2 DEF JobInv
<1>8. CASE RequestCancel \/ KernelWriteBack \/ BitRot \/ UNCHANGED vars
  <2>1. UNCHANGED <<pc, cur, pos, jobRow, card, plan>>
    BY <1>8 DEF RequestCancel, KernelWriteBack, WriteBack, BitRot, vars, storeVars,
      manifestVars, planVars, jobVars
  <2> QED
    BY <2>1 DEF JobInv, IncompleteJobs, Copying
<1>9. CASE ProcessCrash \/ PowerLoss
  BY <1>9 DEF ProcessCrash, PowerLoss, Die, JobInv
<1> QED
  BY <1>1, <1>2, <1>3, <1>4, <1>5, <1>6, <1>7, <1>8, <1>9 DEF Next, JobStep

\* How a running job moves: it stays at its file, or goes on to the next one
\* because the file was skipped, failed, or has just been verified.
LEMMA JobMoves ==
    ASSUME TypeOK, JobInv, [Next]_vars, ~StartJob, pc' \in JobPcs
    PROVE /\ pc \in JobPcs /\ cur \in Job /\ pos \in Nat
          /\ UNCHANGED <<cur, card, plan>>
          /\ failed \subseteq failed'
          /\ \/ pos' = pos /\ (pc = "mark_entry" => pc' = "mark_entry")
             \/ /\ pos' = pos + 1 /\ pc' = "loop"
                /\ SkipFile \/ MarkEntryVerified \/ pos \in failed'
<1> USE DEF JobPcs, FinalizePcs
<1>1. CASE RequestCancel \/ KernelWriteBack \/ BitRot \/ UNCHANGED vars
  BY <1>1 DEF RequestCancel, KernelWriteBack, BitRot, vars, planVars, jobVars, JobInv, TypeOK
<1>2. CASE SkipFile \/ LinkMissing \/ LinkPresent \/ BeginCopy
  <2>1. pc = "loop" /\ pc # "mark_entry" /\ UNCHANGED <<cur, card, plan>>
    BY <1>2 DEF SkipFile, LinkMissing, LinkPresent, BeginCopy, AtFile, Processed,
      FailedHere, NextFile, OutsideJob, planVars, jobVars
  <2> QED
    BY <1>2, <2>1 DEF SkipFile, LinkMissing, LinkPresent, BeginCopy, Processed,
      FailedHere, NextFile, jobVars, JobInv, TypeOK
<1>3. CASE AttemptOk \/ AttemptMismatch \/ RetriesExhausted \/ AttemptOSError
  BY <1>3 DEF AttemptOk, AttemptMismatch, RetriesExhausted, AttemptOSError, AtStep,
    FailedHere, NextFile, OutsideJob, planVars, jobVars, JobInv, TypeOK
<1>4. CASE RecordPendingObject \/ RecordPendingEntry \/ Replace \/ SyncObject
        \/ LinkSession \/ SyncSession \/ MarkObjectVerified
  BY <1>4 DEF RecordPendingObject, RecordPendingEntry, Replace, SyncObject, LinkSession,
    SyncSession, MarkObjectVerified, AtStep, OutsideJob, planVars, jobVars, JobInv, TypeOK
<1>5. CASE MarkEntryVerified
  BY <1>5 DEF MarkEntryVerified, Processed, NextFile, OutsideJob, planVars, JobInv, TypeOK
<1>6. CASE DestinationOSError \/ SessionConflict \/ ManifestError \/ FinishJob
  BY <1>6 DEF DestinationOSError, SessionConflict, ManifestError, FinishJob, FailedHere, NextFile, OutsideJob, planVars, JobInv, TypeOK
<1>7. CASE RecoveryStep
  BY <1>7 DEF RecoveryStep, Boot, RecoverFinal, RecoverTemp, RecoverySyncObject,
    RecoveryLink, RecoverySyncSession, RecoveryFinalizeEntry, RecoveryMarkVerified,
    DiscardFiles, DeletePendingEntries, DeletePendingObject, RemoveOrphans,
    FlagInterruptedJob, ServiceReady, RecoveryRaises, AtRecovery
<1>8. CASE ProcessCrash \/ PowerLoss
  BY <1>8 DEF ProcessCrash, PowerLoss, Die
<1> QED
  BY <1>1, <1>2, <1>3, <1>4, <1>5, <1>6, <1>7, <1>8 DEF Next, JobStep

\* The steps that leave the process where it stands.
Stays == RequestCancel \/ KernelWriteBack \/ BitRot \/ UNCHANGED vars

LEMMA StaysPut ==
    ASSUME Stays
    PROVE UNCHANGED <<pc, cur, pos, card, plan, inHand, manifestVars>>
BY DEF Stays, RequestCancel, KernelWriteBack, WriteBack, BitRot, vars, storeVars,
  manifestVars, planVars, recoveryVars, jobVars

\* The one action that leads to each step of the finalize protocol.
LEMMA LeadsTo ==
    ASSUME [Next]_vars, ~Stays
    PROVE /\ pc' = "record_object" => AttemptOk
          /\ pc' = "record_entry" => RecordPendingObject
          /\ pc' = "replace" => RecordPendingEntry
          /\ pc' = "sync_session" => LinkSession
          /\ pc' = "mark_object" => SyncSession
          /\ pc' = "mark_entry" => MarkObjectVerified
          /\ pc' = "r_sync_session" => RecoveryLink
          /\ pc' = "r_entry" => RecoverySyncSession
<1>1. CASE StartJob \/ JobStep
  BY <1>1 DEF StartJob, JobStep, SkipFile, LinkMissing, LinkPresent, BeginCopy, AttemptOk,
    AttemptMismatch, RetriesExhausted, AttemptOSError, RecordPendingObject,
    RecordPendingEntry, Replace, SyncObject, LinkSession, SyncSession, MarkObjectVerified,
    MarkEntryVerified, DestinationOSError, SessionConflict, ManifestError, FinishJob,
    Processed, FailedHere, NextFile, AtStep
<1>2. CASE RecoveryStep
  BY <1>2 DEF RecoveryStep, Boot, RecoverFinal, RecoverTemp, RecoverySyncObject,
    RecoveryLink, RecoverySyncSession, RecoveryFinalizeEntry, RecoveryMarkVerified,
    DiscardFiles, DeletePendingEntries, DeletePendingObject, RemoveOrphans,
    FlagInterruptedJob, ServiceReady, RecoveryRaises, AtRecovery
<1>3. CASE ProcessCrash \/ PowerLoss
  BY <1>3 DEF ProcessCrash, PowerLoss, Die
<1> QED
  BY <1>1, <1>2, <1>3 DEF Next, Stays

LEMMA StepPlanInv ==
    ASSUME TypeOK, JobInv, PlanInv, [Next]_vars
    PROVE PlanInv'
<1>1. CASE StartJob
  BY <1>1, CardsAreFiles DEF StartJob, SetJobRow, PlannedAction, Classified, HasVerifiedObject, PlanInv, NextJob,
    JobPcs, FinalizePcs, TypeOK, File
<1>2. CASE ~StartJob
  <2> SUFFICES ASSUME pc' \in JobPcs, NEW f \in File
               PROVE /\ plan'[cur'][f] = "SKIP_UNSUPPORTED" <=> card'[cur'][f] = Unsupported
                     /\ plan'[cur'][f] = "COPY_VERIFY_OBJECT_AND_LINK" =>
                          /\ \A g \in 1..f - 1 : card'[cur'][g] # card'[cur'][f]
                          /\ f > pos' \/ (f = pos' /\ pc' # "mark_entry") =>
                                row'[card'[cur'][f]] # "VERIFIED"
    BY DEF PlanInv
  <2>1. /\ pc \in JobPcs /\ cur \in Job /\ pos \in Nat
        /\ UNCHANGED <<cur, card, plan>>
    BY <1>2, JobMoves
  <2>2. \/ pos' = pos /\ (pc = "mark_entry" => pc' = "mark_entry")
        \/ pos' = pos + 1
    BY <1>2, JobMoves
  <2>3. /\ plan[cur][f] = "SKIP_UNSUPPORTED" <=> card[cur][f] = Unsupported
        /\ plan[cur][f] = "COPY_VERIFY_OBJECT_AND_LINK" =>
              \A g \in 1..f - 1 : card[cur][g] # card[cur][f]
    BY <2>1 DEF PlanInv
  <2>4. ASSUME plan[cur][f] = "COPY_VERIFY_OBJECT_AND_LINK",
               f > pos' \/ (f = pos' /\ pc' # "mark_entry")
        PROVE row'[card[cur][f]] # "VERIFIED"
    <3>1. f > pos \/ (f = pos /\ pc # "mark_entry")
      BY <2>1, <2>2, <2>4 DEF File
    <3>2. row[card[cur][f]] # "VERIFIED"
      BY <2>1, <2>4, <3>1 DEF PlanInv
    <3>3. CASE RecordPendingObject
      BY <3>2, <3>3 DEF RecordPendingObject, SetRow, TypeOK, StoreTypeOK
    <3>4. CASE MarkObjectVerified
      <4>1. f > pos /\ pos \in File /\ ContentHere = card[cur][pos]
        BY <2>4, <3>4 DEF MarkObjectVerified, AtStep, JobInv, JobPcs, FinalizePcs, jobVars,
          ContentHere
      <4>2. ContentHere # card[cur][f]
        BY <2>1, <2>3, <2>4, <4>1 DEF File
      <4> QED
        BY <3>2, <3>4, <4>2 DEF MarkObjectVerified, SetRow, TypeOK, StoreTypeOK
    <3>5. CASE RecoveryMarkVerified \/ DeletePendingObject
      BY <3>5 DEF RecoveryMarkVerified, DeletePendingObject, AtRecovery, JobPcs, FinalizePcs
    <3>6. CASE UNCHANGED row
      BY <3>2, <3>6
    <3> QED
      BY <3>3, <3>4, <3>5, <3>6, RowFrame
  <2> QED
    BY <2>1, <2>3, <2>4
<1> QED
  BY <1>1, <1>2

LEMMA StepProgressInv ==
    ASSUME TypeOK, JobInv, PlanInv, ProgressInv, RecoveryInv, [Next]_vars
    PROVE ProgressInv'
\* The files behind the job.
<1>1. ASSUME pc' \in JobPcs, NEW f \in File,
             f < pos', f \notin failed', card'[cur'][f] # Unsupported
      PROVE entry'[<<cur', f>>] = "VERIFIED" /\ row'[card'[cur'][f]] = "VERIFIED"
  <2>1. ~StartJob
    BY <1>1 DEF StartJob, File
  <2>2. /\ pc \in JobPcs /\ cur \in Job /\ pos \in Nat
        /\ UNCHANGED <<cur, card, plan>> /\ failed \subseteq failed'
        /\ \/ pos' = pos
           \/ pos' = pos + 1 /\ (SkipFile \/ MarkEntryVerified \/ pos \in failed')
    BY <1>1, <2>1, JobMoves
  <2>3. <<cur, f>> \in Slot /\ card[cur][f] \in Content
    BY <1>1, <2>2 DEF Slot, TypeOK
  <2>4. CASE f < pos
    <3>1. entry[<<cur, f>>] = "VERIFIED" /\ row[card[cur][f]] = "VERIFIED"
      BY <1>1, <2>2, <2>4 DEF ProgressInv
    <3> QED
      BY <2>2, <2>3, <3>1, VerifiedEntryStays, VerifiedRowStays
  <2>5. CASE f = pos
    <3>1. SkipFile \/ MarkEntryVerified
      BY <1>1, <2>2, <2>5
    <3>2. ~SkipFile
      BY <1>1, <2>2, <2>5 DEF SkipFile, PlanInv
    <3>3. pc = "mark_entry" /\ row[card[cur][f]] = "VERIFIED"
      BY <2>5, <3>1, <3>2 DEF MarkEntryVerified, ProgressInv, ContentHere
    <3>4. entry'[<<cur, f>>] = "VERIFIED"
      BY <2>3, <2>5, <3>1, <3>2 DEF MarkEntryVerified, SetEntry, Here, TypeOK, StoreTypeOK
    <3> QED
      BY <2>2, <2>3, <3>3, <3>4, VerifiedRowStays
  <2> QED
    BY <1>1, <2>2, <2>4, <2>5 DEF File
\* The files at and ahead of it.
<1>2. ASSUME pc' \in JobPcs, NEW f \in File, f >= pos'
      PROVE entry'[<<cur', f>>] # "VERIFIED"
  <2>1. CASE StartJob
    BY <1>2, <2>1 DEF StartJob, NextJob, SetJobRow, ProgressInv
  <2>2. CASE ~StartJob
    <3>1. /\ pc \in JobPcs /\ cur \in Job /\ pos \in Nat /\ cur' = cur
          /\ pos' = pos \/ pos' = pos + 1
      BY <1>2, <2>2, JobMoves
    <3>2. entry[<<cur, f>>] # "VERIFIED" /\ <<cur, f>> \in Slot
      BY <1>2, <3>1 DEF ProgressInv, File, Slot
    <3>3. CASE RecordPendingEntry
      BY <3>1, <3>2, <3>3 DEF RecordPendingEntry, SetEntry, TypeOK, StoreTypeOK
    <3>4. CASE MarkEntryVerified
      <4>1. pos' = pos + 1
        BY <3>4 DEF MarkEntryVerified, Processed, NextFile
      <4>2. <<cur, f>> # Here
        BY <1>2, <3>1, <4>1 DEF Here, File
      <4> QED
        BY <3>1, <3>2, <3>4, <4>2 DEF MarkEntryVerified, SetEntry, TypeOK, StoreTypeOK
    <3>5. CASE RecoveryFinalizeEntry \/ DeletePendingEntries
      BY <1>2, <3>5
      DEF RecoveryFinalizeEntry, DeletePendingEntries, AtRecovery, JobPcs, FinalizePcs
    <3>6. CASE UNCHANGED entry
      BY <3>1, <3>2, <3>6
    <3> QED
      BY <3>3, <3>4, <3>5, <3>6, EntryFrame
  <2> QED
    BY <2>1, <2>2
\* Between the two commits of mark_verified.
<1>3. ASSUME pc' = "mark_entry"
      PROVE row'[card'[cur'][pos']] = "VERIFIED"
  <2>1. ~StartJob /\ pc' \in JobPcs
    BY <1>3 DEF StartJob, JobPcs, FinalizePcs
  <2>2. UNCHANGED <<cur, pos, card>> /\ pc \in JobPcs
    BY <1>3, <2>1, JobMoves
  <2>3. CASE MarkObjectVerified
    <3>1. ContentHere \in Content
      BY <2>3 DEF MarkObjectVerified, AtStep, JobInv, JobPcs, FinalizePcs, TypeOK, ContentHere
    <3> QED
      BY <2>2, <2>3, <3>1 DEF MarkObjectVerified, SetRow, ContentHere, TypeOK, StoreTypeOK
  <2>4. CASE ~MarkObjectVerified
    <3>1. pc = "mark_entry"
      BY <1>3, <2>4, LeadsTo, StaysPut
    <3>2. ContentHere \in Content /\ row[ContentHere] = "VERIFIED"
      BY <3>1 DEF ProgressInv, JobInv, JobPcs, FinalizePcs, TypeOK, ContentHere
    <3> QED
      BY <2>2, <3>2, VerifiedRowStays DEF ContentHere
  <2> QED
    BY <2>3, <2>4
\* Jobs that have not begun.
<1>4. ASSUME NEW j \in Job, jobRow'[j] = "absent", NEW f \in File
      PROVE entry'[<<j, f>>] = "absent"
  <2>1. jobRow[j] = "absent"
    BY <1>4, JobRowFrame DEF StartJob, FinishJob, FlagInterruptedJob, SetJobRow, Outcome,
      TypeOK, StoreTypeOK
  <2>2. entry[<<j, f>>] = "absent" /\ <<j, f>> \in Slot
    BY <1>4, <2>1 DEF ProgressInv, Slot
  <2>3. CASE RecordPendingEntry \/ MarkEntryVerified
    <3>1. cur # j
      BY <2>1, <2>3 DEF RecordPendingEntry, MarkEntryVerified, AtStep, JobInv, JobPcs,
        FinalizePcs, IncompleteJobs
    <3> QED
      BY <2>2, <2>3, <3>1 DEF RecordPendingEntry, MarkEntryVerified, SetEntry, Here,
        TypeOK, StoreTypeOK
  <2>4. CASE RecoveryFinalizeEntry
    BY <2>2, <2>4 DEF RecoveryFinalizeEntry, SetEntry, RecoveryInv, TypeOK, StoreTypeOK
  <2>5. CASE DeletePendingEntries \/ UNCHANGED entry
    BY <2>2, <2>5 DEF DeletePendingEntries
  <2> QED
    BY <2>3, <2>4, <2>5, EntryFrame
<1> QED
  BY <1>1, <1>2, <1>3, <1>4 DEF ProgressInv, ContentHere

LEMMA StepLinkInv ==
    ASSUME TypeOK, JobInv, LinkInv, RecoveryInv, [Next]_vars
    PROVE LinkInv'
<1>1. VerifiedEntryLinked'
  <2> SUFFICES ASSUME NEW s \in Slot, entry'[s] = "VERIFIED" PROVE LinkSafe(s)'
    BY DEF VerifiedEntryLinked, LinkSafe
  <2>1. CASE entry[s] = "VERIFIED"
    BY <2>1, LinkSafeStays DEF LinkInv, VerifiedEntryLinked
  <2>2. CASE entry[s] # "VERIFIED"
    <3>1. CASE RecordPendingEntry
      BY <2>2, <3>1 DEF RecordPendingEntry, SetEntry, TypeOK, StoreTypeOK
    <3>2. CASE MarkEntryVerified
      <4>1. pc = "mark_entry" /\ s = Here
        BY <2>2, <3>2 DEF MarkEntryVerified, SetEntry, TypeOK, StoreTypeOK
      <4> QED
        BY <4>1, LinkSafeStays DEF LinkInv
    <3>3. CASE RecoveryFinalizeEntry
      <4>1. pc = "r_entry" /\ s \in inHand
        BY <2>2, <3>3 DEF RecoveryFinalizeEntry, AtRecovery, SetEntry, TypeOK, StoreTypeOK
      <4> QED
        BY <4>1, LinkSafeStays DEF LinkInv
    <3>4. CASE DeletePendingEntries \/ UNCHANGED entry
      BY <2>2, <3>4 DEF DeletePendingEntries
    <3> QED
      BY <3>1, <3>2, <3>3, <3>4, EntryFrame
  <2> QED
    BY <2>1, <2>2
<1>2. CASE Stays
  <2>1. UNCHANGED <<pc, cur, pos, inHand>>
    BY <1>2, StaysPut
  <2>2. UNCHANGED link
    BY <1>2, OrderedJournalIsBoolean DEF Stays, RequestCancel, KernelWriteBack, WriteBack,
      Flush, BitRot, vars, storeVars, fileVars, linkVars
  <2>3. pc \in {"mark_object", "mark_entry"} => Here \in Slot
    BY DEF JobInv, JobPcs, FinalizePcs, Here, Slot
  <2>4. /\ pc' = "sync_session" => link'[<<cur', pos'>>] = "object"
        /\ pc' = "r_sync_session" => \A s \in inHand' : link'[s] = "object"
    BY <2>1, <2>2 DEF LinkInv, Here
  <2>5. pc' \in {"mark_object", "mark_entry"} => LinkSafe(Here)'
    BY <2>1, <2>3, LinkSafeStays DEF LinkInv, Here, LinkSafe
  <2>6. pc' = "r_entry" => \A s \in inHand' : LinkSafe(s)'
    BY <2>1, LinkSafeStays DEF LinkInv, TypeOK, LinkSafe
  <2> QED
    BY <1>1, <2>4, <2>5, <2>6 DEF LinkInv, Here, LinkSafe
<1>3. CASE ~Stays
  <2>1. pc' = "sync_session" => link'[<<cur', pos'>>] = "object"
    <3> SUFFICES ASSUME LinkSession PROVE link'[<<cur', pos'>>] = "object"
      BY <1>3, LeadsTo
    <3>1. Here \in Slot /\ UNCHANGED <<cur, pos>>
      BY DEF LinkSession, AtStep, jobVars, JobInv, JobPcs, FinalizePcs, Here, Slot
    <3> QED
      BY <3>1 DEF LinkSession, PlaceLink, Here, TypeOK, StoreTypeOK
  <2>2. pc' \in {"mark_object", "mark_entry"} => LinkSafe(Here)'
    <3>1. ASSUME SyncSession PROVE LinkSafe(Here)'
      <4>1. Here \in Slot /\ link[Here] = "object" /\ UNCHANGED <<cur, pos>>
        BY <3>1 DEF SyncSession, AtStep, jobVars, JobInv, JobPcs, FinalizePcs, Here, Slot,
          LinkInv
      <4>2. link' = link /\ linkDisk'[Here] = "object"
        BY <3>1, <4>1, OrderedJournalIsBoolean DEF SyncSession, FsyncSessionDir, Flush
      <4> QED
        BY <4>1, <4>2 DEF LinkSafe, Here
    <3>2. ASSUME MarkObjectVerified PROVE LinkSafe(Here)'
      <4>1. Here \in Slot /\ LinkSafe(Here) /\ UNCHANGED <<cur, pos, linkVars>>
        BY <3>2 DEF MarkObjectVerified, AtStep, jobVars, JobInv, JobPcs, FinalizePcs, Here,
          Slot, LinkInv, fileVars
      <4> QED
        BY <4>1 DEF LinkSafe, Here, linkVars
    <3> QED
      BY <1>3, <3>1, <3>2, LeadsTo
  <2>3. pc' = "r_sync_session" => \A s \in inHand' : link'[s] = "object"
    <3> SUFFICES ASSUME RecoveryLink PROVE \A s \in inHand' : link'[s] = "object"
      BY <1>3, LeadsTo
    <3> QED
      BY DEF RecoveryLink, PlaceLink, TypeOK, StoreTypeOK
  <2>4. pc' = "r_entry" => \A s \in inHand' : LinkSafe(s)'
    <3> SUFFICES ASSUME RecoverySyncSession, NEW s \in inHand' PROVE LinkSafe(s)'
      BY <1>3, LeadsTo
    <3>1. s \in Slot /\ link[s] = "object" /\ \A t \in inHand : t = s
      BY DEF RecoverySyncSession, AtRecovery, recoveryVars, LinkInv, RecoveryInv, TypeOK
    <3> QED
      BY <3>1, OrderedJournalIsBoolean
      DEF RecoverySyncSession, FsyncSessionDir, Flush, LinkSafe
  <2> QED
    BY <1>1, <2>1, <2>2, <2>3, <2>4 DEF LinkInv, Here, LinkSafe
<1> QED
  BY <1>2, <1>3

LEMMA StepRecoveryInv ==
    ASSUME TypeOK, RecoveryInv, [Next]_vars
    PROVE RecoveryInv'
<1> USE DEF RecoveryPcs
<1>1. CASE StartJob \/ RequestCancel \/ KernelWriteBack \/ BitRot \/ UNCHANGED vars
  <2>1. UNCHANGED <<todo, active, relink, inHand, row, entry>>
    BY <1>1 DEF StartJob, RequestCancel, KernelWriteBack, WriteBack, BitRot, SetJobRow,
      vars, storeVars, manifestVars, recoveryVars
  <2>2. pc' = pc \/ (pc = "idle" /\ pc' = "loop")
    BY <1>1 DEF StartJob, RequestCancel, KernelWriteBack, BitRot, vars
  <2> QED
    BY <2>1, <2>2 DEF RecoveryInv
<1>2. CASE JobStep
  <2>1. /\ pc \notin RecoveryPcs /\ pc' \notin RecoveryPcs
        /\ UNCHANGED <<todo, active, relink, inHand>>
    BY <1>2 DEF JobStep, SkipFile, LinkMissing, LinkPresent, BeginCopy, AttemptOk,
      AttemptMismatch, RetriesExhausted, AttemptOSError, RecordPendingObject,
      RecordPendingEntry, Replace, SyncObject, LinkSession, SyncSession,
      MarkObjectVerified, MarkEntryVerified, DestinationOSError, SessionConflict,
      ManifestError, FinishJob, AtFile, Processed, FailedHere, NextFile,
      AtStep, OutsideJob, recoveryVars
  <2> QED
    BY <2>1 DEF RecoveryInv
<1>3. CASE Boot \/ RecoverFinal
  BY <1>3 DEF Boot, RecoverFinal, AtRecovery, PendingObjects, EntriesOf, storeVars,
    manifestVars, RecoveryInv
<1>4. CASE RecoverTemp \/ RecoverySyncObject \/ RecoveryLink \/ RecoverySyncSession
  BY <1>4 DEF RecoverTemp, RecoverySyncObject, RecoveryLink, RecoverySyncSession,
    AtRecovery, EntriesOf, manifestVars, recoveryVars, RecoveryInv
<1>5. CASE RecoveryFinalizeEntry
  BY <1>5 DEF RecoveryFinalizeEntry, AtRecovery, SetEntry, RecoveryInv, TypeOK, StoreTypeOK
<1>6. CASE RecoveryMarkVerified \/ DeletePendingObject
  BY <1>6 DEF RecoveryMarkVerified, DeletePendingObject, AtRecovery, SetRow, RecoveryInv,
    TypeOK, StoreTypeOK
<1>7. CASE DiscardFiles \/ DeletePendingEntries
  BY <1>7 DEF DiscardFiles, DeletePendingEntries, AtRecovery, manifestVars, recoveryVars,
    RecoveryInv
<1>8. CASE RemoveOrphans \/ FlagInterruptedJob \/ ServiceReady
  BY <1>8 DEF RemoveOrphans, FlagInterruptedJob, ServiceReady, AtRecovery, SetJobRow,
    storeVars, manifestVars, recoveryVars, RecoveryInv
<1>9. CASE RecoveryRaises \/ ProcessCrash \/ PowerLoss
  BY <1>9 DEF RecoveryRaises, ProcessCrash, PowerLoss, Die, RecoveryCleared, RecoveryInv
<1> QED
  BY <1>1, <1>2, <1>3, <1>4, <1>5, <1>6, <1>7, <1>8, <1>9 DEF Next, RecoveryStep

LEMMA StepCompletedInv ==
    ASSUME TypeOK, JobInv, PlanInv, ProgressInv, RecoveryInv, CompletedInv, [Next]_vars
    PROVE CompletedInv'
<1> SUFFICES ASSUME NEW j \in Job, jobRow'[j] \in CompletedStates,
                    NEW f \in File, card'[j][f] # Unsupported
             PROVE row'[card'[j][f]] = "VERIFIED" /\ entry'[<<j, f>>] = "VERIFIED"
  BY DEF CompletedInv
<1>1. <<j, f>> \in Slot
  BY DEF Slot
<1>2. CASE FinishJob /\ j = cur
  <2>1. pos = NumFiles + 1 /\ failed = {} /\ pc = "loop" /\ card' = card
    BY <1>2, CountsAreNatural DEF FinishJob, SetJobRow, Outcome, JobInv, JobPcs, File,
      CompletedStates, OutsideJob, planVars, TypeOK, StoreTypeOK
  <2>2. f < pos
    BY <2>1, CountsAreNatural DEF File
  <2>3. row[card[j][f]] = "VERIFIED" /\ entry[<<j, f>>] = "VERIFIED"
    BY <1>2, <2>1, <2>2 DEF ProgressInv, JobPcs
  <2>4. card[j][f] \in Content
    BY <2>1 DEF TypeOK
  <2> QED
    BY <1>1, <2>1, <2>3, <2>4, VerifiedRowStays, VerifiedEntryStays
<1>3. CASE ~(FinishJob /\ j = cur)
  <2>1. jobRow[j] \in CompletedStates
    BY <1>3, JobRowFrame DEF StartJob, FinishJob, FlagInterruptedJob, SetJobRow,
      CompletedStates, TypeOK, StoreTypeOK
  <2>2. card'[j] = card[j]
    BY <2>1, PlanFrame DEF StartJob, NextJob, planVars, CompletedStates, TypeOK
  <2>3. row[card[j][f]] = "VERIFIED" /\ entry[<<j, f>>] = "VERIFIED"
    BY <2>1, <2>2 DEF CompletedInv
  <2>4. card[j][f] \in Content
    BY <2>2 DEF TypeOK
  <2> QED
    BY <1>1, <2>2, <2>3, <2>4, VerifiedRowStays, VerifiedEntryStays
<1> QED
  BY <1>2, <1>3

LEMMA InitInv == Init => Inv
<1> SUFFICES ASSUME Init PROVE Inv
  OBVIOUS
<1> USE DEF Init
<1>1. StoreTypeOK
  BY ForeignAreSlots
  DEF StoreInit, StoreTypeOK, ObjectState, LinkState, RowState, EntryState, JobState,
    CompletedStates
<1>2. TypeOK
  <2>1. card \in [Job -> [File -> Content \union {Unsupported}]]
    OBVIOUS
  <2>2. plan \in [Job -> [File -> Action]]
    BY DEF Action
  <2>3. cancel \in BOOLEAN
    BY Zenon
  <2> QED
    BY <1>1, <2>1, <2>2, <2>3 DEF TypeOK
<1>3. JobInv /\ PlanInv /\ RecoveryInv
  BY DEF JobInv, PlanInv, RecoveryInv, JobPcs, FinalizePcs
<1>4. ProgressInv
  BY DEF ProgressInv, StoreInit, JobPcs, FinalizePcs, Slot
<1>5. LinkInv
  BY DEF LinkInv, VerifiedEntryLinked, StoreInit
<1>6. CompletedInv
  BY DEF CompletedInv, StoreInit, CompletedStates
<1> QED
  BY <1>2, <1>3, <1>4, <1>5, <1>6 DEF Inv

LEMMA StepInv ==
    ASSUME Inv, [Next]_vars
    PROVE Inv'
BY StepType, StepJobInv, StepPlanInv, StepProgressInv, StepLinkInv, StepRecoveryInv,
  StepCompletedInv DEF Inv

-----------------------------------------------------------------------------
(* Theorems.                                                               *)

\* The inductive invariant holds: the job loop, the finalize protocol and
\* recovery keep every part of it, whatever fails or crashes.
THEOREM InvInvariant == Spec => []Inv
<1>1. Init => Inv
  BY InitInv
<1>2. Inv /\ [Next]_vars => Inv'
  BY StepInv
<1> QED
  BY <1>1, <1>2, PTL DEF Spec

\* Every variable of the worker, recovery and the destination keeps its type;
\* a running job stays within its files.
THEOREM TypeCorrect == Spec => []TypeOK
<1>1. Inv => TypeOK
  BY DEF Inv
<1> QED
  BY <1>1, InvInvariant, PTL

\* A manifest entry that says VERIFIED has a session link that is visible and
\* survives a loss of power (copier.py marks after link and fsync).
THEOREM EntriesAreLinked == Spec => []VerifiedEntryLinked
<1>1. Inv => VerifiedEntryLinked
  BY DEF Inv, LinkInv
<1> QED
  BY <1>1, InvInvariant, PTL

\* A job whose row says completed has every file of its card verified and
\* durably linked, and so it stays, whatever happens later (runner.py's
\* outcome counts failures, the manifest agrees with it).
THEOREM CompletedIsComplete == Spec => []CompletedJobIsComplete
<1>1. Inv => CompletedJobIsComplete
  <2> SUFFICES ASSUME Inv, NEW j \in Job, jobRow[j] \in CompletedStates,
                      NEW f \in File, card[j][f] # Unsupported
               PROVE /\ row[card[j][f]] = "VERIFIED"
                     /\ entry[<<j, f>>] = "VERIFIED"
                     /\ LinkSafe(<<j, f>>)
    BY DEF CompletedJobIsComplete
  <2>1. row[card[j][f]] = "VERIFIED" /\ entry[<<j, f>>] = "VERIFIED"
    BY DEF Inv, CompletedInv
  <2>2. <<j, f>> \in Slot
    BY DEF Slot
  <2> QED
    BY <2>1, <2>2 DEF Inv, LinkInv, VerifiedEntryLinked
<1> QED
  BY <1>1, InvInvariant, PTL

\* When the service accepts jobs, no row of an earlier job says it is running
\* (recovery flags them before the engine becomes idle).
THEOREM NoneLeftRunning == Spec => []NoJobLeftRunning
<1>1. Inv => NoJobLeftRunning
  BY DEF Inv, JobInv, NoJobLeftRunning
<1> QED
  BY <1>1, InvInvariant, PTL

\* No content is copied, journalled or renamed into place while the manifest
\* holds it as verified, though the plan was made before the job began.
THEOREM NoRecopy == Spec => []NeverRecopiesVerified
<1>1. Inv => NeverRecopiesVerified
  BY DEF Inv, TypeOK, JobInv, PlanInv, NeverRecopiesVerified, ContentHere, Copying,
    JobPcs, FinalizePcs
<1> QED
  BY <1>1, InvInvariant, PTL

\* No step of the worker, of recovery or of a crash takes VERIFIED back from
\* an object or an entry.
THEOREM VerifiedIsFinal == Spec => VerifiedStaysVerified
<1>1. ASSUME Inv, [Next]_vars
      PROVE [/\ \A c \in Content : row[c] = "VERIFIED" => row'[c] = "VERIFIED"
             /\ \A s \in Slot : entry[s] = "VERIFIED" => entry'[s] = "VERIFIED"]_vars
  BY <1>1, VerifiedRowStays, VerifiedEntryStays DEF Inv
<1> QED
  BY <1>1, InvInvariant, PTL DEF Spec, VerifiedStaysVerified

-----------------------------------------------------------------------------
(* What recovery leaves behind.                                            *)

LEMMA StepReconcileInv ==
    ASSUME TypeOK, RecoveryInv, ReconcileInv, [Next]_vars
    PROVE ReconcileInv'
<1> USE DEF RecoveryPcs
<1>1. CASE Stays
  <2>1. UNCHANGED <<pc, row, todo>>
    BY <1>1, StaysPut DEF manifestVars, Stays, RequestCancel, KernelWriteBack, BitRot, vars,
      recoveryVars
  <2>2. UNCHANGED partial
    BY <1>1, OrderedJournalIsBoolean DEF Stays, RequestCancel, KernelWriteBack, WriteBack,
      Flush, BitRot, vars, storeVars, fileVars, pathVars
  <2> QED
    BY <2>1, <2>2 DEF ReconcileInv, PendingObjects
<1>2. CASE StartJob \/ JobStep \/ RecoveryRaises \/ ServiceReady \/ ProcessCrash \/ PowerLoss
  <2>1. pc' \notin RecoveryPcs
    BY <1>2 DEF StartJob, JobStep, SkipFile, LinkMissing, LinkPresent, BeginCopy, AttemptOk,
      AttemptMismatch, RetriesExhausted, AttemptOSError, RecordPendingObject,
      RecordPendingEntry, Replace, SyncObject, LinkSession, SyncSession,
      MarkObjectVerified, MarkEntryVerified, DestinationOSError, SessionConflict,
      ManifestError, FinishJob, Processed, FailedHere, NextFile, AtStep, RecoveryRaises,
      ServiceReady, AtRecovery, ProcessCrash, PowerLoss, Die
  <2> QED
    BY <2>1 DEF ReconcileInv
<1>3. CASE Boot
  BY <1>3 DEF Boot, storeVars, manifestVars, PendingObjects, ReconcileInv
<1>4. CASE RecoverFinal \/ RecoverTemp \/ RecoverySyncObject \/ RecoveryLink
        \/ RecoverySyncSession \/ RecoveryFinalizeEntry \/ DiscardFiles
        \/ DeletePendingEntries
  <2>1. pc \in RecoveryPcs /\ pc' # "flag" /\ UNCHANGED <<row, todo>>
    BY <1>4 DEF RecoverFinal, RecoverTemp, RecoverySyncObject, RecoveryLink,
      RecoverySyncSession, RecoveryFinalizeEntry, DiscardFiles, DeletePendingEntries,
      AtRecovery, SetEntry, storeVars, manifestVars, recoveryVars
  <2> QED
    BY <2>1 DEF ReconcileInv, PendingObjects
<1>5. CASE RecoveryMarkVerified \/ DeletePendingObject
  <2>1. PICK c \in active, state \in {"VERIFIED", "absent"} :
          SetRow(c, state) /\ todo' = todo \ {c}
    BY <1>5 DEF RecoveryMarkVerified, DeletePendingObject
  <2>2. pc \in RecoveryPcs /\ pc' = "recover" /\ c \in Content
    BY <1>5 DEF RecoveryMarkVerified, DeletePendingObject, AtRecovery, TypeOK
  <2>3. PendingObjects' \subseteq PendingObjects \ {c}
    BY <2>1, <2>2 DEF SetRow, PendingObjects, TypeOK, StoreTypeOK
  <2> QED
    BY <2>1, <2>2, <2>3 DEF ReconcileInv
<1>6. CASE RemoveOrphans
  BY <1>6 DEF RemoveOrphans, AtRecovery, RemoveOrphanPartials, manifestVars, recoveryVars,
    PendingObjects, ReconcileInv
<1>7. CASE FlagInterruptedJob
  BY <1>7 DEF FlagInterruptedJob, AtRecovery, SetJobRow, fileVars, pathVars, recoveryVars,
    PendingObjects, ReconcileInv
<1> QED
  BY <1>1, <1>2, <1>3, <1>4, <1>5, <1>6, <1>7 DEF Next, RecoveryStep, Stays

\* When recovery goes on to flag the interrupted jobs, no object is pending
\* and no partial is left, whatever errors and crashes came before, in
\* earlier runs of recovery too (recovery.py, recover_destination).
THEOREM AllIsReconciled == Spec => []RecoveryReconcilesAll
<1>1. Init => ReconcileInv
  BY DEF Init, ReconcileInv, RecoveryPcs
<1>2. Inv /\ ReconcileInv /\ [Next]_vars => ReconcileInv'
  BY StepReconcileInv DEF Inv
<1>3. Inv /\ ReconcileInv => RecoveryReconcilesAll
  BY DEF Inv, RecoveryInv, ReconcileInv, RecoveryReconcilesAll, RecoveryPcs
<1> QED
  BY <1>1, <1>2, <1>3, InvInvariant, PTL DEF Spec

-----------------------------------------------------------------------------
(* What a closed job leaves behind.                                        *)

\* An entry becomes pending in one way.
LEMMA PendingEntryIsNew ==
    ASSUME TypeOK, [Next]_vars, NEW s \in Slot, entry'[s] = "PENDING"
    PROVE entry[s] = "PENDING" \/ (RecordPendingEntry /\ s = Here)
<1> USE DEF TypeOK, StoreTypeOK
<1>1. CASE RecordPendingEntry \/ MarkEntryVerified
  BY <1>1 DEF RecordPendingEntry, MarkEntryVerified, SetEntry
<1>2. CASE RecoveryFinalizeEntry \/ DeletePendingEntries
  BY <1>2 DEF RecoveryFinalizeEntry, DeletePendingEntries, SetEntry, EntriesOf
<1>3. CASE UNCHANGED entry
  BY <1>3
<1> QED
  BY <1>1, <1>2, <1>3, EntryFrame

\* A copy that is being finalized goes on, is marked, or leaves the job open.
LEMMA FinalizingGoesOn ==
    ASSUME TypeOK, JobInv, [Next]_vars, "io" \notin Disruptions, Copying,
           pc \in FinalizePcs \ {"record_object", "record_entry"}, pc' \in JobPcs
    PROVE \/ MarkEntryVerified
          \/ pc' \in FinalizePcs \ {"record_object", "record_entry"} /\ pos' = pos
<1> USE DEF JobPcs, FinalizePcs
<1>1. CASE Stays
  BY <1>1, StaysPut
<1>2. CASE JobStep
  BY <1>2 DEF JobStep, SkipFile, LinkMissing, LinkPresent, BeginCopy, AttemptOk,
    AttemptMismatch, RetriesExhausted, AttemptOSError, RecordPendingObject,
    RecordPendingEntry, Replace, SyncObject, LinkSession, SyncSession,
    MarkObjectVerified, DestinationOSError, SessionConflict, ManifestError, FinishJob,
    AtFile, AtStep, jobVars
<1>3. CASE StartJob \/ RecoveryStep \/ ProcessCrash \/ PowerLoss
  BY <1>3 DEF StartJob, RecoveryStep, Boot, RecoverFinal, RecoverTemp, RecoverySyncObject,
    RecoveryLink, RecoverySyncSession, RecoveryFinalizeEntry, RecoveryMarkVerified,
    DiscardFiles, DeletePendingEntries, DeletePendingObject, RemoveOrphans,
    FlagInterruptedJob, ServiceReady, RecoveryRaises, AtRecovery, ProcessCrash, PowerLoss,
    Die
<1> QED
  BY <1>1, <1>2, <1>3 DEF Next, Stays

LEMMA StepRunningLoose ==
    ASSUME TypeOK, JobInv, ProgressInv, LooseInv, [Next]_vars, "io" \notin Disruptions,
           pc' \in JobPcs, NEW f \in File, entry'[<<cur', f>>] = "PENDING"
    PROVE f = pos' /\ Copying' /\ pc' \in FinalizePcs \ {"record_object", "record_entry"}
<1>1. CASE StartJob
  <2>1. PICK j \in NextJob : cur' = j /\ UNCHANGED entry
    BY <1>1 DEF StartJob, SetJobRow
  <2> QED
    BY <2>1 DEF NextJob, ProgressInv
<1>2. CASE ~StartJob
  <2>1. /\ pc \in JobPcs /\ cur \in Job /\ UNCHANGED <<cur, card, plan>>
    BY <1>2, JobMoves
  <2>2. <<cur, f>> \in Slot
    BY <2>1 DEF Slot
  <2>3. CASE RecordPendingEntry /\ <<cur, f>> = Here
    BY <2>1, <2>3 DEF RecordPendingEntry, AtStep, jobVars, Here, JobInv, Copying, JobPcs,
      FinalizePcs
  <2>4. CASE entry[<<cur, f>>] = "PENDING"
    <3>1. f = pos /\ Copying /\ pc \in FinalizePcs \ {"record_object", "record_entry"}
      BY <2>1, <2>4 DEF LooseInv
    <3>2. ~MarkEntryVerified
      BY <2>1, <2>2, <3>1 DEF MarkEntryVerified, SetEntry, Here, TypeOK, StoreTypeOK
    <3> QED
      BY <2>1, <3>1, <3>2, FinalizingGoesOn DEF Copying
  <2> QED
    BY <2>1, <2>2, <2>3, <2>4, PendingEntryIsNew
<1> QED
  BY <1>1, <1>2

LEMMA StepLooseInv ==
    ASSUME TypeOK, JobInv, ProgressInv, LooseInv, [Next]_vars, "io" \notin Disruptions
    PROVE LooseInv'
<1>1. ASSUME NEW j \in Job, jobRow'[j] \notin {"absent", "BACKUP_COPYING", "RECOVERY_REQUIRED"},
             NEW f \in File, entry'[<<j, f>>] = "PENDING"
      PROVE FALSE
  <2>1. <<j, f>> \in Slot
    BY DEF Slot
  <2>2. CASE FinishJob /\ j = cur
    <3>1. pc = "loop" /\ UNCHANGED entry
      BY <2>2 DEF FinishJob, SetJobRow
    <3> QED
      BY <1>1, <2>2, <3>1 DEF LooseInv, JobPcs, FinalizePcs
  <2>3. CASE ~(FinishJob /\ j = cur)
    <3>1. jobRow[j] \notin {"absent", "BACKUP_COPYING", "RECOVERY_REQUIRED"}
      BY <1>1, <2>3, JobRowFrame DEF StartJob, FinishJob, FlagInterruptedJob, SetJobRow,
        TypeOK, StoreTypeOK
    <3>2. entry[<<j, f>>] # "PENDING"
      BY <3>1 DEF LooseInv, ClosedJobHasNoLooseEnds
    <3>3. RecordPendingEntry /\ j = cur
      BY <1>1, <2>1, <3>2, PendingEntryIsNew DEF Here
    <3>4. jobRow[cur] = "BACKUP_COPYING"
      BY <3>3 DEF RecordPendingEntry, AtStep, JobInv, JobPcs, FinalizePcs, IncompleteJobs
    <3> QED
      BY <3>1, <3>3, <3>4
  <2> QED
    BY <2>2, <2>3
<1>2. ClosedJobHasNoLooseEnds'
  BY <1>1 DEF ClosedJobHasNoLooseEnds
<1> QED
  BY <1>2, StepRunningLoose DEF LooseInv

\* Unless a system call on the destination fails, a job the worker has closed,
\* as cancelled or failed too, left no entry half done: what is pending
\* belongs to the file at hand, or to a job that recovery will flag
\* (copier.py, copy_verify_finalize; runner.py, run_job).
THEOREM ClosedJobsAreTidy ==
    ASSUME "io" \notin Disruptions
    PROVE Spec => []ClosedJobHasNoLooseEnds
<1>1. Init => LooseInv
  BY DEF Init, StoreInit, LooseInv, ClosedJobHasNoLooseEnds, JobPcs, FinalizePcs
<1>2. Inv /\ LooseInv /\ [Next]_vars => LooseInv'
  BY StepLooseInv DEF Inv
<1>3. LooseInv => ClosedJobHasNoLooseEnds
  BY DEF LooseInv
<1> QED
  BY <1>1, <1>2, <1>3, InvInvariant, PTL DEF Spec
=============================================================================
