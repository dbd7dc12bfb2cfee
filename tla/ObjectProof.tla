----------------------------- MODULE ObjectProof -----------------------------
(***************************************************************************)
(* What the canonical path of an object may show.  Decay of stored bytes   *)
(* is the one disruption excluded: no program can promise anything of      *)
(* bytes it does not read.                                                 *)
(***************************************************************************)
EXTENDS ArchiveProof

\* Who changes a canonical path, or what is durable of it.
LEMMA FinalFrame ==
    ASSUME [Next]_vars, "rot" \notin Disruptions
    PROVE \/ Replace \/ RecoverTemp \/ DiscardFiles \/ PowerLoss
          \/ final' = final /\ \A c \in Content :
                /\ c \in DOMAIN finalDisk'
                /\ finalDisk'[c] \in {final[c], finalDisk[c]}
          \/ UNCHANGED <<final, finalDisk>>
<1>1. ASSUME NEW o, NEW s, Flush(o, s)
      PROVE final' = final /\ \A c \in Content :
                /\ c \in DOMAIN finalDisk'
                /\ finalDisk'[c] \in {final[c], finalDisk[c]}
  BY <1>1 DEF Flush
<1>2. CASE StartJob \/ RequestCancel \/ JobStep
  <2>1. CASE SyncObject \/ SyncSession
    BY <1>1, <2>1, OrderedJournalIsBoolean
    DEF SyncObject, SyncSession, FsyncObjectDir, FsyncSessionDir
  <2>2. CASE ~(SyncObject \/ SyncSession)
    BY <1>2, <2>2 DEF StartJob, RequestCancel, JobStep, SkipFile, LinkMissing,
      LinkPresent, BeginCopy, AttemptOk, AttemptMismatch, RetriesExhausted,
      AttemptOSError, RecordPendingObject, RecordPendingEntry, LinkSession,
      MarkObjectVerified, MarkEntryVerified, DestinationOSError, SessionConflict,
      ManifestError, FinishJob, SetPartial, PlaceLink, storeVars, fileVars, pathVars
  <2> QED
    BY <2>1, <2>2
<1>3. CASE RecoveryStep
  <2>1. CASE RecoverySyncObject \/ RecoverySyncSession
    BY <1>1, <2>1, OrderedJournalIsBoolean
    DEF RecoverySyncObject, RecoverySyncSession, FsyncObjectDir, FsyncSessionDir
  <2>2. CASE ~(RecoverySyncObject \/ RecoverySyncSession)
    BY <1>3, <2>2 DEF RecoveryStep, Boot, RecoverFinal, RecoveryLink,
      RecoveryFinalizeEntry, RecoveryMarkVerified, DeletePendingEntries,
      DeletePendingObject, RemoveOrphans, FlagInterruptedJob, ServiceReady,
      RecoveryRaises, PlaceLink, RemoveOrphanPartials, storeVars, fileVars, pathVars
  <2> QED
    BY <2>1, <2>2
<1>4. CASE KernelWriteBack
  BY <1>1, <1>4, SyncIsFlush DEF KernelWriteBack
<1>5. CASE ProcessCrash \/ PowerLoss \/ BitRot \/ UNCHANGED vars
  BY <1>5 DEF ProcessCrash, BitRot, vars, storeVars, fileVars, pathVars
<1> QED
  BY <1>2, <1>3, <1>4, <1>5 DEF Next

LEMMA InitObjectInv == Init => ObjectInv
BY DEF Init, StoreInit, ObjectInv, NoUnprovenObject

LEMMA StepNoUnproven ==
    ASSUME TypeOK, ObjectInv, [Next]_vars, "rot" \notin Disruptions
    PROVE NoUnprovenObject'
<1> SUFFICES ASSUME NEW c \in Content PROVE final'[c] # "bad" /\ finalDisk'[c] # "bad"
  BY DEF NoUnprovenObject
<1> USE DEF TypeOK, StoreTypeOK
<1>1. final[c] # "bad" /\ finalDisk[c] # "bad"
  BY DEF ObjectInv, NoUnprovenObject
<1>2. CASE Replace
  <2>1. partial[ContentHere] = "good"
    BY <1>2 DEF Replace, AtStep, ObjectInv
  <2> QED
    BY <1>1, <1>2, <2>1 DEF Replace, ReplaceFinal
<1>3. CASE RecoverTemp
  BY <1>1, <1>3 DEF RecoverTemp, TempProvable, ReplaceFinal
<1>4. CASE DiscardFiles
  BY <1>1, <1>4 DEF DiscardFiles, UnlinkBoth
<1>5. CASE PowerLoss
  BY <1>1, <1>5 DEF PowerLoss, LosePower
<1>6. CASE final' = final /\ \A d \in Content :
                /\ d \in DOMAIN finalDisk'
                /\ finalDisk'[d] \in {final[d], finalDisk[d]}
  BY <1>1, <1>6
<1>7. CASE UNCHANGED <<final, finalDisk>>
  BY <1>1, <1>7
<1> QED
  BY <1>2, <1>3, <1>4, <1>5, <1>6, <1>7, FinalFrame

\* From the end of a copy attempt to the rename, the partial is left alone.
LEMMA StepPartialGood ==
    ASSUME TypeOK, JobInv, ObjectInv, [Next]_vars,
           pc' \in {"record_object", "record_entry", "replace"}
    PROVE partial'[ContentHere'] = "good"
<1> USE DEF ContentHere
<1>1. CASE Stays
  <2>1. UNCHANGED <<pc, cur, pos, card>>
    BY <1>1, StaysPut
  <2>2. UNCHANGED partial
    BY <1>1, OrderedJournalIsBoolean DEF Stays, RequestCancel, KernelWriteBack, WriteBack,
      Flush, BitRot, vars, storeVars, fileVars, pathVars
  <2> QED
    BY <2>1, <2>2 DEF ObjectInv
<1>2. CASE AttemptOk
  <2>1. ContentHere \in Content /\ UNCHANGED <<cur, pos, card>>
    BY <1>2 DEF AttemptOk, AtStep, OutsideJob, jobVars, planVars, JobInv, JobPcs, TypeOK
  <2> QED
    BY <1>2, <2>1 DEF AttemptOk, SetPartial, TypeOK, StoreTypeOK
<1>3. CASE RecordPendingObject \/ RecordPendingEntry
  BY <1>3 DEF RecordPendingObject, RecordPendingEntry, AtStep, OutsideJob, jobVars,
    planVars, fileVars, pathVars, ObjectInv
<1> QED
  BY <1>1, <1>2, <1>3, LeadsTo

\* Unless stored bytes decay, a canonical path never shows anything but the
\* verified bytes of its content, to a reader or after a loss of power: the
\* rename comes only after H3, in the worker, or a rehash, in recovery.
THEOREM ObjectsAreProven ==
    ASSUME "rot" \notin Disruptions
    PROVE Spec => []NoUnprovenObject
<1>1. Init => ObjectInv
  BY InitObjectInv
<1>2. Inv /\ ObjectInv /\ [Next]_vars => ObjectInv'
  BY StepNoUnproven, StepPartialGood DEF Inv, ObjectInv
<1>3. ObjectInv => NoUnprovenObject
  BY DEF ObjectInv
<1> QED
  BY <1>1, <1>2, <1>3, InvInvariant, PTL DEF Spec

-----------------------------------------------------------------------------
(* What is linked and marked is in place.                                  *)

\* The steps of the worker and of recovery that leave every canonical path
\* alone.
LEMMA FinalStays ==
    ASSUME [Next]_vars, "rot" \notin Disruptions, ~Replace, ~RecoverTemp, ~DiscardFiles,
           ~PowerLoss
    PROVE UNCHANGED final
BY FinalFrame

LEMMA StepPlacedInJob ==
    ASSUME TypeOK, JobInv, PlanInv, ObjectInv, PlacedInv, [Next]_vars,
           "rot" \notin Disruptions,
           pc' \in {"sync_object", "link", "sync_session", "mark_object"}
    PROVE final'[ContentHere'] = "good"
<1> USE DEF ContentHere
<1>1. CASE Stays
  <2>1. UNCHANGED <<pc, cur, pos, card>>
    BY <1>1, StaysPut
  <2>2. UNCHANGED final
    BY <1>1, FinalStays DEF Stays, Replace, RecoverTemp, DiscardFiles, PowerLoss, AtStep,
      AtRecovery, Die, RequestCancel, KernelWriteBack, BitRot, vars
  <2> QED
    BY <2>1, <2>2 DEF PlacedInv
<1>2. CASE Replace
  <2>1. pc = "replace" /\ UNCHANGED <<cur, pos, card>>
    BY <1>2 DEF Replace, AtStep, OutsideJob, jobVars, planVars
  <2>2. ContentHere \in Content /\ partial[ContentHere] = "good"
    BY <2>1 DEF JobInv, JobPcs, FinalizePcs, TypeOK, ObjectInv
  <2> QED
    BY <1>2, <2>1, <2>2 DEF Replace, ReplaceFinal, TypeOK, StoreTypeOK
<1>3. CASE LinkPresent
  <2>1. UNCHANGED <<cur, pos, card, final>> /\ final[ContentHere] # "none"
    BY <1>3 DEF LinkPresent, OutsideJob, jobVars, planVars, storeVars, fileVars, pathVars
  <2>2. ContentHere \in Content
    <3>1. pos \in File /\ cur \in Job /\ plan[cur][pos] # "SKIP_UNSUPPORTED"
      BY <1>3 DEF LinkPresent, AtFile, Linking, Copying, JobInv, JobPcs
    <3>2. card[cur][pos] # Unsupported
      BY <1>3, <3>1 DEF LinkPresent, AtFile, PlanInv, JobPcs
    <3> QED
      BY <3>1, <3>2 DEF TypeOK
  <2> QED
    BY <2>1, <2>2 DEF ObjectInv, NoUnprovenObject, TypeOK, StoreTypeOK, ObjectState
<1>4. CASE SyncObject \/ LinkSession \/ SyncSession
  <2>1. /\ pc \in {"sync_object", "link", "sync_session"} /\ UNCHANGED <<cur, pos, card>>
    BY <1>4 DEF SyncObject, LinkSession, SyncSession, AtStep, OutsideJob, jobVars, planVars
  <2>2. UNCHANGED final
    BY <2>1, <1>4, FinalStays DEF Replace, RecoverTemp, DiscardFiles, PowerLoss, AtStep,
      AtRecovery, Die, SyncObject, LinkSession, SyncSession
  <2> QED
    BY <2>1, <2>2 DEF PlacedInv
<1>5. Stays \/ Replace \/ LinkPresent \/ SyncObject \/ LinkSession \/ SyncSession
  <2>1. CASE StartJob \/ JobStep
    BY <2>1 DEF StartJob, JobStep, SkipFile, LinkMissing, BeginCopy, AttemptOk,
      AttemptMismatch, RetriesExhausted, AttemptOSError, RecordPendingObject,
      RecordPendingEntry, MarkObjectVerified, MarkEntryVerified, DestinationOSError,
      SessionConflict, ManifestError, FinishJob, Processed, FailedHere, NextFile, AtStep
  <2>2. CASE RecoveryStep \/ ProcessCrash \/ PowerLoss
    BY <2>2 DEF RecoveryStep, Boot, RecoverFinal, RecoverTemp, RecoverySyncObject,
      RecoveryLink, RecoverySyncSession, RecoveryFinalizeEntry, RecoveryMarkVerified,
      DiscardFiles, DeletePendingEntries, DeletePendingObject, RemoveOrphans,
      FlagInterruptedJob, ServiceReady, RecoveryRaises, AtRecovery, ProcessCrash,
      PowerLoss, Die
  <2> QED
    BY <2>1, <2>2 DEF Next, Stays
<1> QED
  BY <1>1, <1>2, <1>3, <1>4, <1>5

LEMMA StepPlacedInRecovery ==
    ASSUME TypeOK, PlacedInv, [Next]_vars, "rot" \notin Disruptions,
           pc' \in {"r_sync_object", "r_entries", "r_sync_session", "r_entry"},
           NEW c \in active'
    PROVE final'[c] = "good"
<1>1. CASE Stays
  <2>1. UNCHANGED <<pc, active>>
    BY <1>1 DEF Stays, RequestCancel, KernelWriteBack, BitRot, vars, recoveryVars
  <2>2. UNCHANGED final
    BY <1>1, FinalStays DEF Stays, Replace, RecoverTemp, DiscardFiles, PowerLoss, AtStep,
      AtRecovery, Die, RequestCancel, KernelWriteBack, BitRot, vars
  <2> QED
    BY <2>1, <2>2 DEF PlacedInv
<1>2. CASE RecoverFinal
  BY <1>2 DEF RecoverFinal, FinalProvable, storeVars, fileVars, pathVars
<1>3. CASE RecoverTemp
  BY <1>3 DEF RecoverTemp, TempProvable, ReplaceFinal, TypeOK, StoreTypeOK
<1>4. CASE RecoverySyncObject \/ RecoveryLink \/ RecoverySyncSession \/ RecoveryFinalizeEntry
  <2>1. /\ pc \in {"r_sync_object", "r_entries", "r_sync_session", "r_entry"}
        /\ UNCHANGED active
    BY <1>4 DEF RecoverySyncObject, RecoveryLink, RecoverySyncSession,
      RecoveryFinalizeEntry, AtRecovery, recoveryVars
  <2>2. UNCHANGED final
    BY <1>4, <2>1, FinalStays DEF Replace, RecoverTemp, DiscardFiles, PowerLoss, AtStep,
      AtRecovery, Die, RecoverySyncObject, RecoveryLink, RecoverySyncSession,
      RecoveryFinalizeEntry
  <2> QED
    BY <2>1, <2>2 DEF PlacedInv
<1>5. \/ Stays \/ RecoverFinal \/ RecoverTemp
      \/ RecoverySyncObject \/ RecoveryLink \/ RecoverySyncSession \/ RecoveryFinalizeEntry
  <2>1. CASE StartJob \/ JobStep
    BY <2>1 DEF StartJob, JobStep, SkipFile, LinkMissing, LinkPresent, BeginCopy, AttemptOk,
      AttemptMismatch, RetriesExhausted, AttemptOSError, RecordPendingObject,
      RecordPendingEntry, Replace, SyncObject, LinkSession, SyncSession,
      MarkObjectVerified, MarkEntryVerified, DestinationOSError, SessionConflict,
      ManifestError, FinishJob, AtFile, Processed, FailedHere, NextFile, AtStep
  <2>2. CASE RecoveryStep \/ ProcessCrash \/ PowerLoss
    BY <2>2 DEF RecoveryStep, Boot, RecoveryMarkVerified, DiscardFiles,
      DeletePendingEntries, DeletePendingObject, RemoveOrphans, FlagInterruptedJob,
      ServiceReady, RecoveryRaises, AtRecovery, ProcessCrash, PowerLoss, Die
  <2> QED
    BY <2>1, <2>2 DEF Next, Stays
<1> QED
  BY <1>1, <1>2, <1>3, <1>4, <1>5

\* Only the last step of the finalize protocol and the last of a pending
\* object's recovery mark a row, and both have the object in place.
LEMMA MarkedIsProven ==
    ASSUME TypeOK, JobInv, RecoveryInv, PlacedInv, [Next]_vars,
           NEW c \in Content, row[c] # "VERIFIED", row'[c] = "VERIFIED"
    PROVE final[c] = "good"
<1> USE DEF TypeOK, StoreTypeOK
<1>1. CASE MarkObjectVerified
  BY <1>1 DEF MarkObjectVerified, AtStep, SetRow, PlacedInv
<1>2. CASE RecoveryMarkVerified
  BY <1>2 DEF RecoveryMarkVerified, AtRecovery, SetRow, PlacedInv
<1>3. CASE RecordPendingObject \/ DeletePendingObject \/ UNCHANGED row
  BY <1>3 DEF RecordPendingObject, DeletePendingObject, SetRow
<1> QED
  BY <1>1, <1>2, <1>3, RowFrame

LEMMA StepPlacedInv ==
    ASSUME Inv, ObjectInv, PlacedInv, [Next]_vars, "rot" \notin Disruptions
    PROVE PlacedInv'
BY StepPlacedInJob, StepPlacedInRecovery DEF PlacedInv, Inv

\* Unless stored bytes decay, a row becomes VERIFIED only in a step that has
\* the verified bytes at the canonical path, whichever file, job or recovery
\* takes it, and whatever errors lie behind: neither an object that was found
\* there nor a plan that is out of date is proof enough (copier.py,
\* copy_verify_finalize and link_verified_object; recovery.py,
\* recover_destination).
THEOREM MarksAreProven ==
    ASSUME "rot" \notin Disruptions
    PROVE Spec => OnlyProvenIsMarked
<1>1. Init => ObjectInv /\ PlacedInv
  BY InitObjectInv DEF Init, PlacedInv
<1>2. Inv /\ ObjectInv /\ [Next]_vars => ObjectInv'
  BY StepNoUnproven, StepPartialGood DEF Inv, ObjectInv
<1>3. Inv /\ ObjectInv /\ PlacedInv /\ [Next]_vars => PlacedInv'
  BY StepPlacedInv
<1>4. ASSUME Inv, PlacedInv, [Next]_vars
      PROVE [\A c \in Content :
                row[c] # "VERIFIED" /\ row'[c] = "VERIFIED" => final[c] = "good"]_vars
  BY <1>4, MarkedIsProven DEF Inv
<1> QED
  BY <1>1, <1>2, <1>3, <1>4, InvInvariant, PTL DEF Spec, OnlyProvenIsMarked

-----------------------------------------------------------------------------
(* Objects under loss of power alone.                                      *)

\* Everything PathInv speaks of.
pathInvVars == <<final, finalDisk, row, pc, cur, pos, card, active>>

\* Making directories durable, in whatever amount, keeps a safe object safe.
LEMMA FlushKeepsSafe ==
    ASSUME TypeOK, NEW o, NEW s, Flush(o, s)
    PROVE /\ final' = final
          /\ \A c \in Content : ObjectSafe(c) => ObjectSafe(c)'
          /\ \A c \in Content \cap o : final[c] = "good" => ObjectSafe(c)'
BY DEF Flush, ObjectSafe, TypeOK, StoreTypeOK

\* The worker's steps.
LEMMA JobStepPathInv ==
    ASSUME Inv, ObjectInv, PlacedInv, PathInv, JobStep, {"io", "sql"} \cap Disruptions = {}
    PROVE PathInv'
<1> USE DEF Inv, TypeOK, StoreTypeOK, PlacedInv
<1>1. /\ pc \in JobPcs /\ cur \in Job /\ UNCHANGED <<card, active>>
      /\ pc # "loop" => pos \in File /\ ContentHere \in Content
  <2>1. pc \in JobPcs /\ UNCHANGED <<card, active>>
    BY DEF JobStep, SkipFile, LinkMissing, LinkPresent, BeginCopy, AttemptOk,
      AttemptMismatch, RetriesExhausted, AttemptOSError, RecordPendingObject,
      RecordPendingEntry, Replace, SyncObject, LinkSession, SyncSession,
      MarkObjectVerified, MarkEntryVerified, DestinationOSError, SessionConflict,
      ManifestError, FinishJob, AtFile, AtStep, OutsideJob, planVars, recoveryVars,
      JobPcs, FinalizePcs
  <2> QED
    BY <2>1 DEF JobInv, ContentHere
<1>2. CASE SkipFile \/ LinkMissing \/ LinkPresent \/ BeginCopy
  <2>1. pc = "loop" /\ UNCHANGED <<final, finalDisk, row>>
    BY <1>2 DEF SkipFile, LinkMissing, LinkPresent, BeginCopy, AtFile, SetPartial,
      storeVars, fileVars, pathVars, manifestVars
  <2>2. \/ pc' \in {"loop", "attempt"}
        \/ pc' = "link" /\ UNCHANGED <<cur, pos>> /\ final[ContentHere] # "none"
           /\ pos \in File /\ card[cur][pos] # Unsupported
    BY <1>1, <1>2 DEF SkipFile, LinkMissing, LinkPresent, BeginCopy, Processed, FailedHere,
      NextFile, jobVars, AtFile, PlanInv, Linking, Copying
  <2> QED
    BY <1>1, <2>1, <2>2 DEF PathInv, VerifiedObjectPresent, ObjectSafe, Renaming, ContentHere
<1>3. CASE AttemptOk \/ AttemptMismatch \/ RetriesExhausted \/ AttemptOSError
  <2>1. pc = "attempt" /\ UNCHANGED <<final, finalDisk, row>>
    BY <1>3 DEF AttemptOk, AttemptMismatch, RetriesExhausted, AttemptOSError, AtStep,
      SetPartial, manifestVars
  <2>2. pc' \in {"loop", "attempt", "record_object"}
    BY <1>3, <2>1 DEF AttemptOk, AttemptMismatch, RetriesExhausted, AttemptOSError, AtStep,
      FailedHere, NextFile
  <2> QED
    BY <1>1, <2>1, <2>2 DEF PathInv, VerifiedObjectPresent, ObjectSafe, Renaming
<1>4. CASE RecordPendingObject \/ RecordPendingEntry
  <2>1. /\ pc \in {"record_object", "record_entry"} /\ pc' \in {"record_entry", "replace"}
        /\ UNCHANGED <<final, finalDisk>>
    BY <1>4 DEF RecordPendingObject, RecordPendingEntry, AtStep, fileVars, pathVars
  <2>2. \A c \in Content : row'[c] = "VERIFIED" => row[c] = "VERIFIED"
    BY <1>4 DEF RecordPendingObject, RecordPendingEntry, SetRow, SetEntry
  <2> QED
    BY <1>1, <2>1, <2>2 DEF PathInv, VerifiedObjectPresent, ObjectSafe, Renaming
<1>5. CASE Replace
  <2>1. /\ pc = "replace" /\ pc' = "sync_object" /\ UNCHANGED <<cur, pos, row, finalDisk>>
        /\ final' = [final EXCEPT ![ContentHere] = "good"]
    BY <1>5 DEF Replace, AtStep, ReplaceFinal, ObjectInv, jobVars, manifestVars
  <2>2. row[ContentHere] # "VERIFIED"
    BY <1>1, <2>1 DEF JobInv, PlanInv, Copying, ContentHere
  <2> QED
    BY <1>1, <2>1, <2>2 DEF PathInv, VerifiedObjectPresent, ObjectSafe, Renaming, ContentHere
<1>6. CASE SyncObject
  <2>1. /\ pc = "sync_object" /\ pc' = "link" /\ UNCHANGED <<cur, pos, row>>
        /\ FsyncObjectDir(ContentHere)
    BY <1>6 DEF SyncObject, AtStep, jobVars, manifestVars
  <2>2. /\ final' = final
        /\ \A c \in Content : ObjectSafe(c) => ObjectSafe(c)'
        /\ final[ContentHere] = "good" => ObjectSafe(ContentHere)'
    BY <1>1, <2>1, FlushKeepsSafe, OrderedJournalIsBoolean
    DEF FsyncObjectDir, ObjectSafe, Flush, ContentHere
  <2> QED
    BY <1>1, <2>1, <2>2 DEF PathInv, VerifiedObjectPresent, ObjectSafe, Renaming, ContentHere
<1>7. CASE LinkSession \/ SyncSession
  <2>1. /\ pc \in {"link", "sync_session"} /\ pc' \in {"sync_session", "mark_object"}
        /\ UNCHANGED <<cur, pos, row>>
    BY <1>7 DEF LinkSession, SyncSession, AtStep, jobVars, manifestVars
  <2>2. final' = final /\ \A c \in Content : ObjectSafe(c) => ObjectSafe(c)'
    <3>1. CASE LinkSession
      BY <3>1 DEF LinkSession, PlaceLink, pathVars, ObjectSafe
    <3>2. CASE SyncSession
      BY <3>2, FlushKeepsSafe, OrderedJournalIsBoolean DEF SyncSession, FsyncSessionDir
    <3> QED
      BY <1>7, <3>1, <3>2
  <2> QED
    BY <1>1, <2>1, <2>2 DEF PathInv, VerifiedObjectPresent, ObjectSafe, Renaming, ContentHere
<1>8. CASE MarkObjectVerified \/ MarkEntryVerified
  <2>1. /\ pc \in {"mark_object", "mark_entry"} /\ pc' \in {"mark_entry", "loop"}
        /\ UNCHANGED <<final, finalDisk>>
    BY <1>8 DEF MarkObjectVerified, MarkEntryVerified, AtStep, Processed, NextFile,
      fileVars, pathVars
  <2>2. \A c \in Content : row'[c] = "VERIFIED" =>
          row[c] = "VERIFIED" \/ (pc = "mark_object" /\ c = ContentHere)
    BY <1>8 DEF MarkObjectVerified, MarkEntryVerified, AtStep, SetRow, SetEntry
  <2>3. \A c \in Content : final[c] # "none" => ObjectSafe(c)
    BY <2>1 DEF PathInv, Renaming
  <2>4. pc = "mark_object" => ObjectSafe(ContentHere)
    BY <1>1, <2>3 DEF PathInv
  <2> QED
    BY <1>1, <2>1, <2>2, <2>3, <2>4 DEF PathInv, VerifiedObjectPresent, ObjectSafe, Renaming
<1>9. CASE SessionConflict \/ FinishJob
  <2>1. /\ pc \in {"link", "loop"} /\ pc' \in {"loop", "stuck", "idle"}
        /\ UNCHANGED <<final, finalDisk, row>>
    BY <1>9 DEF SessionConflict, FinishJob, FailedHere, NextFile, SetJobRow, storeVars,
      fileVars, pathVars, manifestVars
  <2> QED
    BY <1>1, <2>1 DEF PathInv, VerifiedObjectPresent, ObjectSafe, Renaming
<1>10. ~DestinationOSError /\ ~ManifestError
  BY DEF DestinationOSError, ManifestError
<1> QED
  BY <1>2, <1>3, <1>4, <1>5, <1>6, <1>7, <1>8, <1>9, <1>10 DEF JobStep

\* Recovery's steps.
LEMMA RecoveryStepPathInv ==
    ASSUME Inv, ObjectInv, PlacedInv, PathInv, RecoveryStep, {"io", "sql"} \cap Disruptions = {}
    PROVE PathInv'
<1> USE DEF Inv, TypeOK, StoreTypeOK, PlacedInv
<1>1. CASE Boot \/ RemoveOrphans \/ FlagInterruptedJob \/ ServiceReady
  <2>1. UNCHANGED <<final, finalDisk, row>> /\ pc \notin {"sync_object", "r_sync_object"}
    BY <1>1 DEF Boot, RemoveOrphans, FlagInterruptedJob, ServiceReady, AtRecovery,
      RemoveOrphanPartials, SetJobRow, storeVars, fileVars, pathVars, manifestVars
  <2>2. pc' \in {"recover", "flag", "idle"} /\ active' \subseteq active
    BY <1>1 DEF Boot, RemoveOrphans, FlagInterruptedJob, ServiceReady, AtRecovery,
      recoveryVars
  <2> QED
    BY <2>1, <2>2 DEF PathInv, VerifiedObjectPresent, ObjectSafe, Renaming
<1>2. CASE RecoverFinal
  <2>1. PICK c \in todo : FinalProvable(c) /\ active' = {c}
    BY <1>2 DEF RecoverFinal
  <2>2. /\ pc = "recover" /\ pc' = "r_entries" /\ UNCHANGED <<final, finalDisk, row>>
    BY <1>2 DEF RecoverFinal, AtRecovery, storeVars, fileVars, pathVars, manifestVars
  <2> QED
    BY <2>1, <2>2 DEF FinalProvable, PathInv, VerifiedObjectPresent, ObjectSafe, Renaming
<1>3. CASE RecoverTemp
  <2>1. PICK c \in todo : TempProvable(c) /\ ReplaceFinal(c) /\ active' = {c}
    BY <1>3 DEF RecoverTemp
  <2>2. /\ pc = "recover" /\ pc' = "r_sync_object" /\ UNCHANGED <<row, finalDisk>>
        /\ final' = [final EXCEPT ![c] = "good"] /\ row[c] # "VERIFIED" /\ c \in Content
    BY <1>3, <2>1 DEF RecoverTemp, AtRecovery, ReplaceFinal, TempProvable, manifestVars,
      RecoveryInv
  <2> QED
    BY <2>1, <2>2 DEF PathInv, VerifiedObjectPresent, ObjectSafe, Renaming
<1>4. CASE RecoverySyncObject
  <2>1. PICK c \in active : FsyncObjectDir(c)
    BY <1>4 DEF RecoverySyncObject
  <2>2. /\ pc = "r_sync_object" /\ pc' = "r_entries" /\ UNCHANGED <<row, active>>
    BY <1>4 DEF RecoverySyncObject, AtRecovery, manifestVars
  <2>3. c \in Content /\ \A d \in active : d = c
    BY DEF PathInv
  <2>4. /\ final' = final
        /\ \A d \in Content : ObjectSafe(d) => ObjectSafe(d)'
        /\ final[c] = "good" => ObjectSafe(c)'
    BY <2>1, <2>3, FlushKeepsSafe, OrderedJournalIsBoolean
    DEF FsyncObjectDir, ObjectSafe, Flush
  <2> QED
    BY <2>2, <2>3, <2>4 DEF PathInv, VerifiedObjectPresent, ObjectSafe, Renaming
<1>5. CASE RecoveryLink \/ RecoverySyncSession \/ RecoveryFinalizeEntry
  <2>1. /\ pc \in {"r_entries", "r_sync_session", "r_entry"}
        /\ pc' \in {"r_entries", "r_sync_session", "r_entry"}
        /\ UNCHANGED <<row, active>>
    BY <1>5 DEF RecoveryLink, RecoverySyncSession, RecoveryFinalizeEntry, AtRecovery,
      SetEntry, manifestVars, recoveryVars
  <2>2. final' = final /\ \A c \in Content : ObjectSafe(c) => ObjectSafe(c)'
    <3>1. CASE RecoveryLink \/ RecoveryFinalizeEntry
      BY <3>1 DEF RecoveryLink, RecoveryFinalizeEntry, PlaceLink, fileVars, pathVars, ObjectSafe
    <3>2. CASE RecoverySyncSession
      BY <3>2, FlushKeepsSafe, OrderedJournalIsBoolean
      DEF RecoverySyncSession, FsyncSessionDir
    <3> QED
      BY <1>5, <3>1, <3>2
  <2> QED
    BY <2>1, <2>2 DEF PathInv, VerifiedObjectPresent, ObjectSafe, Renaming
<1>6. CASE RecoveryMarkVerified
  <2>1. PICK c \in active : SetRow(c, "VERIFIED")
    BY <1>6 DEF RecoveryMarkVerified
  <2>2. /\ pc = "r_entries" /\ pc' = "recover" /\ UNCHANGED <<final, finalDisk>>
        /\ active' = {}
    BY <1>6 DEF RecoveryMarkVerified, AtRecovery, fileVars, pathVars
  <2>3. ObjectSafe(c) /\ c \in Content
    BY <2>2 DEF PathInv, Renaming
  <2>4. \A d \in Content : row'[d] = "VERIFIED" => row[d] = "VERIFIED" \/ d = c
    BY <2>1 DEF SetRow
  <2> QED
    BY <2>2, <2>3, <2>4 DEF PathInv, VerifiedObjectPresent, ObjectSafe, Renaming
<1>7. CASE DiscardFiles
  <2>1. PICK c \in todo : UnlinkBoth(c) /\ active' = {c}
    BY <1>7 DEF DiscardFiles
  <2>2. /\ pc = "recover" /\ pc' = "r_delete_entries" /\ UNCHANGED <<row, finalDisk>>
        /\ final' = [final EXCEPT ![c] = "none"] /\ row[c] # "VERIFIED"
    BY <1>7, <2>1 DEF DiscardFiles, AtRecovery, UnlinkBoth, manifestVars, RecoveryInv
  <2> QED
    BY <2>1, <2>2 DEF PathInv, VerifiedObjectPresent, ObjectSafe, Renaming
<1>8. CASE DeletePendingEntries \/ DeletePendingObject
  <2>1. /\ pc \in {"r_delete_entries", "r_delete_object"}
        /\ pc' \in {"r_delete_object", "recover"}
        /\ UNCHANGED <<final, finalDisk>> /\ active' \subseteq active
    BY <1>8 DEF DeletePendingEntries, DeletePendingObject, AtRecovery, fileVars, pathVars,
      recoveryVars
  <2>2. \A c \in Content : row'[c] = "VERIFIED" => row[c] = "VERIFIED"
    BY <1>8 DEF DeletePendingEntries, DeletePendingObject, SetRow
  <2> QED
    BY <2>1, <2>2 DEF PathInv, VerifiedObjectPresent, ObjectSafe, Renaming
<1>9. CASE RecoveryRaises
  <2>1. /\ pc \in {"r_entries", "r_delete_object"} /\ pc' = "off" /\ active' = {}
        /\ UNCHANGED <<final, finalDisk, row>>
    BY <1>9 DEF RecoveryRaises, RecoveryCleared, storeVars, fileVars, pathVars, manifestVars
  <2> QED
    BY <2>1 DEF PathInv, VerifiedObjectPresent, ObjectSafe, Renaming
<1> QED
  BY <1>1, <1>2, <1>3, <1>4, <1>5, <1>6, <1>7, <1>8, <1>9 DEF RecoveryStep

LEMMA StepPathInv ==
    ASSUME Inv, ObjectInv, ObjectInv', PlacedInv, PathInv, [Next]_vars,
           {"process", "io", "sql", "rot"} \cap Disruptions = {}
    PROVE PathInv'
<1> USE DEF Inv, TypeOK, StoreTypeOK
<1>1. CASE JobStep
  BY <1>1, JobStepPathInv
<1>2. CASE RecoveryStep
  BY <1>2, RecoveryStepPathInv
<1>3. CASE StartJob
  <2>1. /\ pc = "idle" /\ pc' = "loop" /\ UNCHANGED <<final, finalDisk, row, active>>
    BY <1>3 DEF StartJob, SetJobRow, fileVars, pathVars, recoveryVars
  <2> QED
    BY <2>1 DEF PathInv, VerifiedObjectPresent, ObjectSafe, Renaming
<1>4. CASE RequestCancel \/ UNCHANGED vars
  <2>1. UNCHANGED pathInvVars
    BY <1>4 DEF RequestCancel, vars, pathInvVars, storeVars, fileVars, pathVars,
      manifestVars, planVars, recoveryVars, jobVars
  <2> QED
    BY <2>1 DEF pathInvVars, PathInv, VerifiedObjectPresent, ObjectSafe, Renaming, ContentHere
<1>5. CASE KernelWriteBack
  <2>1. UNCHANGED <<row, pc, cur, pos, card, active>>
    BY <1>5 DEF KernelWriteBack, WriteBack, manifestVars, jobVars, planVars, recoveryVars
  <2>2. final' = final /\ \A c \in Content : ObjectSafe(c) => ObjectSafe(c)'
    BY <1>5, SyncIsFlush, FlushKeepsSafe DEF KernelWriteBack
  <2> QED
    BY <2>1, <2>2 DEF PathInv, VerifiedObjectPresent, ObjectSafe, Renaming, ContentHere
<1>6. CASE PowerLoss
  <2>1. /\ pc' = "off" /\ active' = {} /\ UNCHANGED <<row, finalDisk>>
        /\ final' = finalDisk
    BY <1>6 DEF PowerLoss, Die, RecoveryCleared, LosePower, manifestVars
  <2>2. \A c \in Content : finalDisk[c] \in {"none", "good"}
    BY DEF ObjectInv, NoUnprovenObject, ObjectState
  <2> QED
    BY <2>1, <2>2 DEF PathInv, VerifiedObjectPresent, ObjectSafe, Renaming
<1>7. ~ProcessCrash /\ ~BitRot
  BY DEF ProcessCrash, BitRot
<1> QED
  BY <1>1, <1>2, <1>3, <1>4, <1>5, <1>6, <1>7 DEF Next

\* If nothing worse than a loss of power happens, an object the manifest calls
\* VERIFIED is at its canonical path and survives the next loss of power:
\* the directory was synced between the rename and the mark, by the worker
\* and by recovery (VER-004).
THEOREM VerifiedSurvivesPowerLoss ==
    ASSUME {"process", "io", "sql", "rot"} \cap Disruptions = {}
    PROVE Spec => []VerifiedObjectPresent
<1>1. Init => ObjectInv /\ PlacedInv /\ PathInv
  BY InitObjectInv DEF Init, StoreInit, PlacedInv, PathInv, VerifiedObjectPresent
<1>2. Inv /\ ObjectInv /\ [Next]_vars => ObjectInv'
  BY StepNoUnproven, StepPartialGood DEF Inv, ObjectInv
<1>3. Inv /\ ObjectInv /\ PlacedInv /\ [Next]_vars => PlacedInv'
  BY StepPlacedInv
<1>4. Inv /\ ObjectInv /\ ObjectInv' /\ PlacedInv /\ PathInv /\ [Next]_vars => PathInv'
  BY StepPathInv
<1>5. PathInv => VerifiedObjectPresent
  BY DEF PathInv
<1> QED
  BY <1>1, <1>2, <1>3, <1>4, <1>5, InvInvariant, PTL DEF Spec
=============================================================================
