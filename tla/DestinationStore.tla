-------------------------- MODULE DestinationStore --------------------------
(***************************************************************************)
(* The destination SSD: the content-addressed object store, the session    *)
(* tree of hardlinks, and the manifest database that describes them        *)
(* (backup/object_store.py, backup/copier.py, db/manifest_repo.py).        *)
(*                                                                         *)
(* A directory has two states: what system calls see now (partial, final,  *)
(* link) and what survives a loss of power (partialDisk, finalDisk,        *)
(* linkDisk).  A process crash keeps the first, a power loss falls back to *)
(* the second.  fsync of a directory makes it durable; the kernel may also *)
(* write a directory back at any moment of its own accord.  The manifest   *)
(* runs in autocommit mode with WAL and synchronous=FULL: each statement   *)
(* is durable when it returns, and says nothing about the directories.     *)
(*                                                                         *)
(* The partial and the final path of one content share a directory, so     *)
(* os.replace moves between them atomically.  Each content and each        *)
(* session slot is given a directory of its own: in the code several of    *)
(* them may share one, which only makes more of them durable.              *)
(***************************************************************************)
EXTENDS Integers, FiniteSets

CONSTANTS
    Content,        \* content identities (size and SHA-256)
    NumFiles,       \* files on a source card, numbered in sorted path order
    MaxJobs,        \* bound: backup jobs ever created
    Foreign,        \* session slots already occupied by somebody else's file
    OrderedJournal  \* TRUE: one metadata journal (ext4); FALSE: bare POSIX

File == 1..NumFiles
Job  == 1..MaxJobs
Slot == Job \X File  \* the session path of a file in a job's session folder

ASSUME CountsAreNatural == NumFiles \in Nat /\ MaxJobs \in Nat
ASSUME ForeignAreSlots == Foreign \subseteq Slot
ASSUME OrderedJournalIsBoolean == OrderedJournal \in BOOLEAN

VARIABLES
    partial, final,         \* paths in the object store, as system calls see them
    partialDisk, finalDisk, \* the same paths after a power loss
    link, linkDisk,         \* session paths: visible, and after a power loss
    row,                    \* content_object.status of a content
    entry,                  \* session_entry.state of a slot
    jobRow                  \* backup_job.state of a job

pathVars == <<partial, final, partialDisk, finalDisk>>
linkVars == <<link, linkDisk>>
fileVars == <<pathVars, linkVars>>
manifestVars == <<row, entry, jobRow>>
storeVars == <<fileVars, manifestVars>>

\* What a path of the object store may hold: nothing, the complete bytes of
\* the content it is named for, or anything else.
ObjectState == {"none", "good", "bad"}
LinkState   == {"none", "object", "foreign"}
RowState    == {"absent", "PENDING_FINALIZE", "VERIFIED"}
EntryState  == {"absent", "PENDING", "VERIFIED"}
CompletedStates == {"BACKUP_COMPLETED", "BACKUP_COMPLETED_WITH_WARNINGS"}
JobState == CompletedStates \union {"absent", "BACKUP_COPYING",
                "BACKUP_CANCELLED", "BACKUP_FAILED", "RECOVERY_REQUIRED"}

StoreTypeOK ==
    /\ partial \in [Content -> ObjectState]
    /\ final \in [Content -> ObjectState]
    /\ partialDisk \in [Content -> ObjectState]
    /\ finalDisk \in [Content -> ObjectState]
    /\ link \in [Slot -> LinkState]
    /\ linkDisk \in [Slot -> LinkState]
    /\ row \in [Content -> RowState]
    /\ entry \in [Slot -> EntryState]
    /\ jobRow \in [Job -> JobState]

\* A destination before its first backup.
StoreInit ==
    /\ partial = [c \in Content |-> "none"]
    /\ final = [c \in Content |-> "none"]
    /\ partialDisk = partial
    /\ finalDisk = final
    /\ link = [s \in Slot |-> IF s \in Foreign THEN "foreign" ELSE "none"]
    /\ linkDisk = link
    /\ row = [c \in Content |-> "absent"]
    /\ entry = [s \in Slot |-> "absent"]
    /\ jobRow = [j \in Job |-> "absent"]

-----------------------------------------------------------------------------
(* Directories.  Each operator below says everything about fileVars.       *)

Flush(objects, slots) ==
    /\ partialDisk' = [c \in Content |-> IF c \in objects THEN partial[c] ELSE partialDisk[c]]
    /\ finalDisk' = [c \in Content |-> IF c \in objects THEN final[c] ELSE finalDisk[c]]
    /\ linkDisk' = [s \in Slot |-> IF s \in slots THEN link[s] ELSE linkDisk[s]]
    /\ UNCHANGED <<partial, final, link>>

\* Mutant: the directory is not synced.
NoObjectFsync(c) == Flush({}, {})

\* fsync of the directory of a content's paths.  With one journal for the
\* whole filesystem every earlier metadata change is committed with it.
FsyncObjectDir(c) ==
    IF OrderedJournal THEN Flush(Content, Slot) ELSE Flush({c}, {})

\* Mutant: the directory is not synced.
NoSessionFsync(s) == Flush({}, {})

\* fsync of the directory of a session path.
FsyncSessionDir(s) ==
    IF OrderedJournal THEN Flush(Content, Slot) ELSE Flush({}, {s})

\* Writing a partial.  What a loss of power leaves of it is what was written
\* back last; recovery and the worker read it again before they trust it.
SetPartial(c, state) ==
    /\ partial' = [partial EXCEPT ![c] = state]
    /\ UNCHANGED <<final, partialDisk, finalDisk, linkVars>>

\* os.replace(partial, final)
ReplaceFinal(c) ==
    /\ final' = [final EXCEPT ![c] = partial[c]]
    /\ partial' = [partial EXCEPT ![c] = "none"]
    /\ UNCHANGED <<partialDisk, finalDisk, linkVars>>

\* os.link(final, session): an existing link to the same inode is accepted,
\* anything else raises SessionPathConflict.
Linkable(s) == link[s] # "foreign"
PlaceLink(s) ==
    /\ Linkable(s)
    /\ link' = [link EXCEPT ![s] = "object"]
    /\ UNCHANGED <<pathVars, linkDisk>>

UnlinkBoth(c) ==
    /\ partial' = [partial EXCEPT ![c] = "none"]
    /\ final' = [final EXCEPT ![c] = "none"]
    /\ UNCHANGED <<partialDisk, finalDisk, linkVars>>

\* Mutant: orphans are not removed.
KeepOrphanPartials == UNCHANGED fileVars

RemoveOrphanPartials ==
    /\ partial' = [c \in Content |-> "none"]
    /\ UNCHANGED <<final, partialDisk, finalDisk, linkVars>>

\* The kernel writes metadata back when it likes: a directory at a time, or
\* the whole journal.
WriteBack ==
    /\ IF OrderedJournal THEN Flush(Content, Slot)
       ELSE \/ \E c \in Content : Flush({c}, {})
            \/ \E s \in Slot : Flush({}, {s})
    /\ UNCHANGED manifestVars

LosePower ==
    /\ partial' = partialDisk
    /\ final' = finalDisk
    /\ link' = linkDisk
    /\ UNCHANGED <<partialDisk, finalDisk, linkDisk>>

-----------------------------------------------------------------------------
(* Manifest statements, each committed alone.  Each operator says          *)
(* everything about manifestVars.                                          *)

\* upsert_content_object_pending and mark_content_object_verified
SetRow(c, state) ==
    /\ row' = [row EXCEPT ![c] = state]
    /\ UNCHANGED <<entry, jobRow>>

\* insert_session_entry, finalize_session_entry[_by_id]
SetEntry(s, state) ==
    /\ entry' = [entry EXCEPT ![s] = state]
    /\ UNCHANGED <<row, jobRow>>

\* create_backup_job, set_backup_job_state, finish_backup_job
SetJobRow(j, state) ==
    /\ jobRow' = [jobRow EXCEPT ![j] = state]
    /\ UNCHANGED <<row, entry>>

\* list_pending_finalize
PendingObjects == {c \in Content : row[c] = "PENDING_FINALIZE"}

\* list_incomplete_jobs
IncompleteJobs == {j \in Job : jobRow[j] = "BACKUP_COPYING"}
=============================================================================
