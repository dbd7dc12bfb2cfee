# A verification project for the Aethereal mobile photo backup

The repository is the software of a backup appliance: a Raspberry Pi copies the
photos of a camera card to an SSD, verifies every byte, and keeps one copy of
each content in a content-addressed object store with a tree of hardlinks per
backup session. A manifest database on the SSD says what is verified. The
product's whole promise is that *verified* means verified, whatever is pulled
out, cut off or restarted at whatever moment. This project states that promise
in TLA+, checks it with TLC on small instances, and proves what matters most
with TLAPS for every number of files, jobs and crashes.

## 1. Inventory: the system and its parts

| part (src/src/aethereal/) | state | operations | what is hard | what makes it correct |
|---|---|---|---|---|
| object store and session tree (`backup/object_store.py`, `backup/copier.py`) | partial and canonical files, session hardlinks | write, fsync, rename, link, unlink, directory fsync | what a power loss leaves; operations that fail | nothing but proven bytes at a canonical path; a recorded link is durable |
| manifest (`db/manifest_repo.py`, `db/destination.py`) | rows of content_object, session_entry, backup_job | one autocommitted statement each | several commits that belong together | VERIFIED is never taken back; foreign keys hold |
| planner, classification (`backup/planner.py`, `classification.py`) | the plan of a job | classify, deduplicate, block | the plan is older than its execution | each new content copied once, in path order |
| copy, verify, finalize (`backup/copier.py`, `manifest_journal.py`) | attempt, step of finalization | stream+hash, read back, journal, rename, link, mark | a crash or an error between any two steps, retries | VERIFIED only over proven, durable bytes |
| job runner (`backup/runner.py`) | position, counters, cancellation token | one branch per planned action, outcome | cancellation, half-failed jobs | completed means complete |
| startup recovery (`backup/recovery.py`, `engine.recover_on_startup`) | the pending objects still to do | rehash, rename, link, mark or discard; flag jobs | crashes during recovery, errors that repeat on every start | everything is reconciled; the service comes back |
| engine life cycle (`backup/engine.py`, `state_machine.py`) | engine state, token, last scan, job row | transitions, run_backup, dry_run, reset, cancel | web handlers interleaved with the worker, exceptions, time | no illegal transition; the state never promises more than the manifest |
| web service (`web/app.py`) | the worker's future, one running handler | start, cancel, dry run, eject, time sync | check-then-act across threads | one backup at a time |
| media manager (`linux/media.py`) | mounted, ejected and selected cards | detect, mount read-only, eject | cards swapped between two polls, eject against start | the card read is the card named; safe to remove is safe |
| event bus and stream (`common/events.py`, `web/app.py`) | sequence, replay buffer, subscribers, queues | publish, subscribe, replay | delivery outside the lock, reconnect, restart | no event lost or reordered that the buffer still holds |
| preflight and capacity (`backup/preflight.py`, `capacity.py`, `snapshot.py`, `identity.py`) | the plan and its totals | scan, hash, assess | space is measured once and used later; retries, leftovers and other writers eat into it; listing errors | a job that was accepted keeps the reserve and the margin to its last byte; its counters account for every entry |
| migrations (`db/migrations.py`, `db/destination.py`, `db/appliance.py`) | schema and recorded versions of two databases | apply in order, each version in a transaction | interruption, a second process, another release, power loss | a version is applied once and whole; who serves has its tables |
| start and destination (`appliance.py`, `linux/validation.py`, `linux/devices.py`, the systemd unit) | what is mounted at the backup root | open, migrate, recover, serve; validate, choose sources | disks that are exchanged or missing, restarts | the service comes up; jobs run on the configured disk only (the code does not keep this) |
| LED, watch, mount tools, configuration, page, scripts | - | - | I/O and tables | - |

One process holds everything. It runs recovery before it serves anything, then
an event loop (handlers, one at a time), a thread pool for dry runs and
ejections, and one worker thread for backups. The worker is the only writer of
the manifest while the service runs; recovery is the only one before.

The hazards this code is exposed to are in PROJECT.json, each at its line.

## 2. Modules

| module | models | extends / uses |
|---|---|---|
| `DestinationStore` | the SSD: paths as seen and as they survive a power loss, manifest rows, every primitive that changes them | - |
| `BackupJob` | planning, the job loop, the copy-verify-finalize protocol, every error | DestinationStore |
| `StartupRecovery` | reconciliation and the flagging of jobs, step by step | BackupJob |
| `Archive` | the composition with process crashes, power loss, kernel write-back and decay; all properties | StartupRecovery, VerifiedArchive |
| `VerifiedArchive` | the abstract promise: verified, attached, status of a job | - |
| `ArchiveInv` | the inductive invariants | Archive |
| `MCArchive` | small instances for TLC | ArchiveInv |
| `ArchiveProof`, `ObjectProof`, `PromiseProof` | theorems and proofs | ArchiveInv, TLAPS |
| `JobStateMachine` | the table of transitions, the reset routes | - |
| `BackupService` | run_backup step by step, the single-slot worker, the handlers, clock trust, dry runs, restarts | JobStateMachine |
| `ServiceInv`, `MCBackupService`, `ServiceProof` | the inductive invariant, small instances, theorems | BackupService |
| `EventStream`, `MCEventStream`, `EventStreamProof` | the event bus, the WebSocket handler and a browser that reconnects; small instances; theorems | - |
| `SourceMedia`, `MCSourceMedia`, `SourceMediaProof` | the media manager, its handlers, the ejection thread, the card reader and the kernel's mounts; small instances; theorems | - |
| `Preflight`, `MCPreflight`, `PreflightProof` | scan, plan, totals, capacity, and the space a job uses; small instances; theorems | - |
| `Migrations` | `apply_migrations` by several processes on several databases, commit and power loss | - |
| `Appliance`, `MCAppliance`, `ApplianceProof` | the start of the service, the disks at the backup root, releases, processes; small instances; theorems | Migrations |

The archive and the service meet in the job: `BackupService` abstracts
`run_job` to files that are backed up or fail (`CopyFile`, `backed`) and its
outcome (`JobOutcome`, the `Outcome` of `BackupJob`); `BackupJob` abstracts the
state machine to the job row (`jobRow`). `WorkerRaises` of the one is `stuck` of
the other. `SourceMedia` abstracts a backup and a dry run to somebody who reads
at a mount point (`reading`), and `BackupService` takes one card as given.
`Preflight` sees the same job as `BackupJob`, from the side of the bytes: it
knows nothing of durability and session links, `BackupJob` nothing of sizes.
`Serve` of `Appliance` is the point at which the others begin.

### How the archive's state corresponds to the code

`pc` is the place in the code: `off`, the steps of recovery (`recover`, `r_...`,
`flag`), `idle` (the service waits), `loop` (the head of the loop of `run_job`),
`attempt` (inside `_copy_and_verify_once`), then one value per system call or
commit of finalization (`record_object`, `record_entry`, `replace`,
`sync_object`, `link`, `sync_session`, `mark_object`, `mark_entry`), and
`stuck`: an exception has left `run_backup`, the worker is gone and nothing but
a restart helps. One action is one system call or one commit, because a crash
can come between any two of them.

A file on the object store is `none`, `good` (the complete bytes of its content)
or `bad` (anything else): hashing is modelled by what it decides. A content
*is* its identity (size and SHA-256). `partial`, `final` and `link` are what
system calls see, `partialDisk`, `finalDisk` and `linkDisk` what a power loss
leaves. `OrderedJournal` chooses the filesystem: `FALSE` is bare POSIX, where
only an fsync of that very directory helps, `TRUE` is one ordered metadata
journal as in ext4, where an fsync commits all earlier metadata changes. In
both the kernel may write back of its own accord at any moment.

`Disruptions` selects the trouble an instance has: `process` and `power`
(crashes), `mismatch` (a hash differs), `source` (OSError of the card), `io`
(OSError of the destination), `sql` (sqlite3.Error), `rot` (stored bytes decay
while no job runs), `cancel`. `Foreign` are session paths that somebody else's
file occupies.

### How the service's state corresponds to the code

`worker` is the place in `run_backup`, and `route` the calls of `sm.transition`
that stand before the next one that does something else: `Transition` makes
them one at a time, so that handlers see every state in between, and a
transition the table lacks ends its caller as `InvalidTransition` does. `loop`
is the one handler that is under way on the event loop; a handler that awaits a
thread (a dry run) frees the loop. `rows` holds the job rows of each day in the
order of their numbers, because `_generate_job_id` counts them. `now` is the
day `run_backup` read from the clock at its start.
`cancelled` is the record of tokens that were set; the code has one token
object per job. `backed` are the files of the card the manifest holds as
verified, `seen` what a dry run has found so far, `lastScan` the engine's
`_last_scan`, as the set of files whose bytes it counts.

### How the event stream's state corresponds to the code

`sequence` and `recent` are the bus's, `dispatching` is what a publishing thread
holds after it has released the lock: the subscribers of that moment. `queue`,
`backlog`, `since` and `highest` are local to `events_ws`, `lastSeq` and
`received` live in the page. `boot` tells the events of one process from those
of the next; the code has no such number. `first` only serves the properties. Sending is taken to arrive or to break the connection.

### How the media manager's state corresponds to the code

`marks`, `selected` and `tracked` are `_ejected`, `_selected_uuid` and
`_mounted`. A mount point is named by the UUID of a card, a device path is a
`Slot`; `tracked[s]` is the mount point remembered for a device path. Two
threads work on them: `handler` is the event loop, which serves one request at
a time (`call`: a poll, a start or a dry run asks for `current_source`, the
media request makes three calls in a row), `ejection` the thread of
`media_eject`. Each lists the devices (`listing`) in one step and decides on
that listing in a later one; removal from `_mounted` and `umount` are two steps
as well, and so are `mount` and the entry in `_mounted`.

`slot` is what is in the reader, `mounts[p]` the stack of filesystems mounted at
`p`: a card, or `Gone` once its device has disappeared. The kernel refuses to
unmount while somebody reads there, and to mount a filesystem over itself. A
restart of the process leaves the mounts where they are: the unit runs as root
in the mount namespace of the machine, and nothing calls `eject_all` on
shutdown. `strays`, `clean` and `told` only serve the properties. `clean` says
that the backup began undisturbed and that its card has not been pulled since:
no ejection was under way, the card was not marked and on top at its mount
point, and that was remembered for the card's slot and no other
(`Undisturbed`).

### How Preflight's state corresponds to the code

`read` is what `_scan_source` made of each entry of the card: its content, or
`LEFT_OUT` (filtered, or in a directory `os.walk` could not list),
`UNSUPPORTED`, `UNREADABLE`. `plan` and `totals` are the local variables of
`build_plan`, filled file by file, `tally` those of `run_job`: `done` and
`bytesDone` are what the page is shown, the others what the job's row gets.
`free` is what `disk_usage` would say, in units of one byte, `partial` the bytes
of each partial file, `foreign` what other programs have written since the
measurement (history, for the property). `phase` is the place in the code. The
three ways out of a file are the three of `run_job`: counted and reported
(`NextFile`), counted only (`FailedByError`), or out of the worker
(`WorkerRaises`). `upTo` notes the totals as they grow, for the invariant.

### How the state of Migrations and Appliance corresponds to the code

`run[p]` is the frame of `apply_migrations` in the process `p`: the database,
the migrations of its release, the version it has read, the statement it is at,
and `draft`, its transaction. `schema` is what is committed, as the things that
statements create and the rows of `schema_meta`; `disk` what a power loss
leaves; `writer` SQLite's write lock, which the first statement takes.
`synchronous=FULL` (the manifests) makes a commit wait for the disk, `NORMAL`
(the appliance's own database) does not.

`mounted` is where the configured manifest path leads: to a filesystem, or to
`Bare`, the directory underneath the mount point. `at` is how far a process is
in `build_appliance`, `opened` the manifest it has open. `Service` is systemd's
process, which waits for the mount (`RequiresMountsFor`); another one is started
by hand, as section 6 of docs/DEPLOYMENT.md does. What `validate_destination`
and `find_source_candidates` say of the devices are the operators
`ValidDestination` and `SourceCandidates`; the second guards `StartJob`, the
first guards nothing, as in the code.

### Mutants

A definition under a comment "Mutant:" is a faulty variant of the definition
that follows it. Nothing uses it; PROJECT.json names, for each property of each
passing run, the variant under which TLC finds the property violated.

## 3. Runs

Instances of the archive have two contents, cards of two files (two different
ones, the same content twice, a file and an unsupported entry), two jobs and
one retry. Two jobs are needed, and enough, for a job to meet what an earlier
one left; two files for deduplication within a job and for a failure that is
followed by another file; one retry for an attempt that starts over; three
crashes for a crash of the recovery of a recovery. `FindUnsyncedObject` needs only
one content.

| run | what trouble | shows |
|---|---|---|
| `ArchiveCrashes` | process crashes and power losses in any mix, decay, bare POSIX | `TypeOK`, `VerifiedEntryLinked`, `CompletedJobIsComplete`, `NeverRecopiesVerified` |
| `ArchivePowerLoss` | power losses, mismatches, card errors, cancellation, bare POSIX | `VerifiedObjectPresent`, `ClosedJobHasNoLooseEnds`, `JobEnds`, `ServiceReturns` |
| `ArchiveErrors` | every error and both crashes, an occupied path | `NoUnprovenObject`, `NoJobLeftRunning`, `RecoveryReconcilesAll`, `OnlyProvenIsMarked`, `KeepsPromise` (refinement of `VerifiedArchive`) |
| `FindUnsyncedObject` | process crashes, then a power loss | a VERIFIED object is lost |
| `ServiceJobs` | exceptions, cancellations, syncs, dry runs, clock changes, a restart, all interleaved | `TypeOK`, `NoIllegalTransition`, `RestsUnlessRaised`, `RestingStateIsRecorded`, `TokenIsRunningJobs`, `CancelledOnlyOnRequest`, `CompletedBacksUpCard`, `JobIsNewAndTrusted`, `SourceBarIsBacked`, `HistoryIsFinal` |
| `EventsReplayed` | two publishers, a small buffer, reconnections, a restart | `TypeOK`, `NothingFallsBetween`, `ThreadOrderKept` |
| `MediaPolled` | cards swapped between two slots, an ejection, polls, starts, dry runs, a restart, all interleaved | `TypeOK`, `EveryMountIsOwned`, `BackupKeepsItsCard` |
| `MediaServed` | one slot, two cards, refused unmounts, fair polls | `EjectedCardIsReleased`, `LoneCardIsServed` |
| `FindUnsafeRemoval` | a dry run beside an ejection | a card called safe to remove is mounted and read |
| `PreflightFits` | unreadable files, failed and repeated copies, other writers, a worker that raises, a crash, on a disk of any fill | `TypeOK`, `RoomIsKept`, `PlanIsSound`, `ResultAddsUp` |
| `ApplianceStarts` | two processes of two releases at once, disks mounted, unmounted and exchanged, errors, crashes, power losses | `TypeOK`, `SchemaIsWhole`, `ServesItsSchema`, `ManifestNeverFalls`, `ServiceComesUp` |
| `FindUnvalidatedDestination` | another disk at the backup root | a backup starts on a disk that is not the configured one |

The service's instance has two days (before and after a sync), two files (one
may fail and one not), two jobs and one restart: two jobs let one inherit
what the other left (a late cancellation, a number, an open row), and the
identifiers of two days are independent. The stream's has two publishers, a
buffer of two events out of three, two connections and one restart: an event
can be lost from the buffer, be in replay and queue at once, and be overtaken.
The media manager's has two cards and three moves, so that a card can be swapped
or put back; two slots, for a choice and for a card that changes its slot; one
ejection, because a second one starts where the first has ended. `MediaServed`
has one slot, which keeps the check of liveness within minutes.

`PreflightFits` has contents of one and of two bytes, cards of three entries (a
duplicate after another file; a special file and a filtered one; the larger
content alone, with an entry in a directory that cannot be listed), a disk of
eight bytes with any number of them free, two jobs, one retry, one crash, and
two bytes of other programs per job. Required are the planned bytes, a reserve
of one or two and a margin of one, so that the boundary `available = required`,
one more and one less all occur; the second job meets partial files, objects and
marks of the first. `ApplianceStarts` has the service and one process started by
hand, two migrations (of two statements and of one), a configured disk and a
card, two troubles (an error, a crash or a power loss each) and three changes
of disks or releases: two processes can be in the same migration, one of them
older, and a start that was cut short is followed by one that is cut short too.

`CHECK_DEADLOCK FALSE` stands in the configurations of the archive, of
`EventsReplayed`, of `PreflightFits` and of the appliance, because the budgets
of jobs, crashes, events and changes run out and the model then stops; in the
code the operator would start another job. The service cannot stop, since the
clock goes on, nor can the media manager, which is always polled; both are
checked for deadlock.

Some properties are checked, and proved, under fewer disruptions than others
because the code does not keep them under all: `VerifiedObjectPresent` fails
when a process crash is followed by a power loss (`FindUnsyncedObject`),
`NoUnprovenObject` and `OnlyProvenIsMarked` are claims about a disk that does
not decay (with `io` and `rot` among the disruptions the second fails), `JobEnds`
and `ServiceReturns` are claimed where the destination raises no errors, decay
does not meet a process crash and no session path is occupied,
`RestsUnlessRaised` leaves out jobs that raise, `JobIsNewAndTrusted` asks for
trust at the start of the job and not of the date it bears, `NothingFallsBetween`
speaks of the numbers from the one on that the page named,
`ClosedJobHasNoLooseEnds` fails when a system call or a statement of
finalization raises, because the handler goes on with the next file and leaves
the object pending until the next start. `LoneCardIsServed` is claimed of a card
that was not ejected, whose slot is not remembered with another or an earlier
mount, and whose mount point holds no mount that was refused or left by a
process before: each of the three conditions is one the code needs (section 5).

### Fairness

`FairSpec` assumes weak fairness of `JobStep` (the worker thread is scheduled
by the operating system, holds no lock and waits for nobody) and of
`RecoveryStep`, which includes `Boot`: the unit file says `Restart=on-failure`,
and the process is started by systemd after a power loss. systemd gives up
after five failures in 60 seconds (`StartLimitBurst`); with a rest of three
seconds between starts, repeated failure of recovery itself would reach that
limit, which makes a restart loop worse, never better. No fairness is assumed of
crashes, cancellation, decay or the start of a job.

`FairSpec` of `SourceMedia` assumes that an open page polls: it asks for the
source every five seconds (index.html:462), and the event loop serves every
request in its turn, hence strong fairness of `Request("source")`, which other
requests disable again and again. Handler and ejection thread run (weak
fairness). Nothing is assumed of cards, readers, ejections or starts, and an
unmount may be refused.

`Appliance` assumes that systemd starts its process again (weak fairness of
`Start(Service)`: `Restart=on-failure`, `RequiresMountsFor`) and that a process
goes on with a start it has begun (weak fairness of `Advance(p)`). Nothing is
assumed of disks, releases, errors or jobs. The limit of five failures in 60
seconds (`StartLimitBurst`) is left out: the run has two troubles. That a disk
which is late is waited for is the unit's own word ("a late SSD delays this
service", aethereal-appliance.service:7). systemd keeps it only until its mount job times out: a start job that
then fails with result 'dependency', like a process that is stopped cleanly, is
not tried again by `Restart=on-failure`. `ServiceComesUp` is therefore a claim
about a unit that is started whenever its disk is there, and says nothing of a
machine whose disk came after the timeout. A start may
also fail without trouble, when a statement meets what another process has just
created (`Collide`); that it then succeeds is what `ServiceComesUp` checks.

`BackupService`, `EventStream` and `Preflight` have no liveness property, and
assume no fairness.

## 4. Proofs

All theorems hold for every `Content`, `NumFiles`, `MaxJobs`, `Foreign`,
`Cards`, `Retries`, `MaxCrashes` and both kinds of journal, under the named
assumptions on the constants in `DestinationStore` and `BackupJob`.

`ArchiveProof` proves the inductive invariant `Inv` of `ArchiveInv`, and from it
`TypeOK`, `VerifiedEntryLinked`, `CompletedJobIsComplete`, `NoJobLeftRunning`,
`NeverRecopiesVerified` and the action property `VerifiedStaysVerified` (a
part of what `KeepsPromise` says, which the runs check), with every disruption
allowed. None of these is inductive. A completed job is
complete because, when the loop ends, every file passed without a failure is
verified and recorded (`ProgressInv`); this stays true only because an entry or
a row once VERIFIED is never touched by anything but another VERIFIED, which
needs that a running job copies no content the manifest holds as verified
(`PlanInv`: the plan is older than its execution, so one has to know that each
content is copied at most once per job and that only one job runs, `JobInv`),
and that recovery works on pending objects and pending entries only
(`RecoveryInv`). An entry is linked because the link is placed, then synced,
then recorded (`LinkInv`).

Two further invariants give the rest of what the runs check. `ReconcileInv`
says that what is pending is on recovery's list for as long as it works through
it, and yields `RecoveryReconcilesAll`, again with every disruption. `LooseInv`
says that the only entry of a running job that is pending is that of the copy
under way; it yields `ClosedJobHasNoLooseEnds` under the hypothesis that no
system call on the destination fails, without which the code does not keep it
(section 3).

`ObjectProof` adds `NoUnprovenObject` (assuming no decay),
`VerifiedObjectPresent` (assuming that loss of power is the only crash and that
no system call or statement of the destination raises): a canonical object that
is visible is durable, except between a rename and the fsync of its directory
(`PathInv`); and the action property `OnlyProvenIsMarked` (assuming no decay):
between the rename and the commit that marks it, the object a finalization or a
recovery works on stays in place (`PlacedInv`).

`PromiseProof` proves `Spec => KeepsPromise`: the initial states map to initial
states of `VerifiedArchive`, every step of the worker, of recovery and of every
crash to one of its steps or to a stutter. The step that closes a job as
completed uses `ProgressInv`; the steps that attach a file use that an entry is
only made for a file of the card (`EntryInv`).

`ServiceProof` proves the inductive invariant `Inv` of `ServiceInv` and from it
every property of `ServiceJobs`, for every number of files, days, jobs and
restarts, with and without the clock-trust rule, whatever raises. The idea is
`Ahead`, the state in which the transitions ahead of a step will end:
`TrackInv` says for each place of the worker where that is and that every hop
on the way is in the table, so that no step of the engine can meet a state the
table does not lead on from; `RestInv` says which row goes with a resting state
that is ahead; `JobInv` that a job's row is open and the last of its day from
its creation to its end, and that the token is the running job's; `DoneInv` that
a job without a failure has every file behind it in the manifest. The
assumption is `CardIsFinite`.

`EventStreamProof` proves `NothingFallsBetween` and `ThreadOrderKept` for any
number of publishers, events, connections and restarts and every capacity of the
buffer. The order is kept because a thread that has an event to hand over has
nothing newer in the queue (`QueueInv`: `publish` returns before the thread
publishes again), and because what comes from the queue is compared with the
mark that the replay left (`ReplayInv`, `ShownInv`). Nothing is lost because each
number since the first replayed one is either shown, in the backlog, in the
queue, or still in the hands of the thread that published it. What
`events_since` returns is a recursion over the buffer; that it keeps what is
newer, in order, is proved for every length by the least length at which it
would not. The assumption is `BufferHolds`.

`SourceMediaProof` proves `EveryMountIsOwned` and `BackupKeepsItsCard` for any
cards and moves and any finite number of slots (`SlotsAreFinite`: the mounts are
counted). `EveryMountIsOwned` is inductive with what the handler and the ejection
thread know of the mount they have in hand (`PointInv`, `DeviceInv`).
`BackupKeepsItsCard` needs `Kept`: while the backup's card is in its slot, nothing
that a thread has listed, is to forget, to release, to unmount or to mount
concerns that card or that slot. This is why `Undisturbed` names the slot: a mount
remembered for the slot the card was in before is released when a poll finds
that slot empty. The other assumption is `NotCards`.

`PreflightProof` proves `RoomIsKept` for every card, size, disk, margin, reserve
and number of jobs, retries and crashes. The invariant `RoomInv` counts: the
space a job has used, other programs aside, is at most what is planned up to the
file at hand (`upTo`), and while a file is copied what is planned up to the next
one less what is still to be written of it. Three things make this
inductive: the bytes of a content are planned once, because a content is copied
by one file only; a partial file is given back before an attempt starts over;
and a partial file a failed file left behind counts against that file's own
planned bytes. `FullOnlyByOthers` is the consequence a user sees: a disk that
runs full under an accepted job was filled by somebody else. The assumptions are
`SpecialIsNoContent`, `SizesAreNatural`, `ConfigIsNatural`, `CardsHoldEntries`
and `MarksAreNoContent`.

The same module proves the other two. `PlanIsSound` is true of the files planned
so far (`SoundInv`): the contents copied are the new ones met so far, each copied
by the first file that holds it, and the totals are their number, the sum and
the largest of their sizes. The sum is the library's fold, which takes the
elements in an order of `CHOOSE`'s; the section before shows that it is
indifferent to that order, and what one more element adds. `ResultAddsUp` compares
the counters of the job with what the totals were when the plan had got as far
as the job has now (`Walk` recomputes them, `Progress` compares): every way out
of a file adds to the counters what fits what the plan counted for it (`Fits`),
and a job that has counted no failure has every content behind it in the
manifest.

`ApplianceProof` proves `SchemaIsWhole`, `ServesItsSchema` and
`ManifestNeverFalls`, for any number of databases, processes, releases,
migrations and troubles. The heart of `Inv` is what a process in the middle of a
migration may rely on: the version it has read is a lower bound of the recorded
one, because a recorded version of a database is taken back only by a power
loss, which ends the process too; from its first statement on it holds the write
lock, so that its draft is the schema it began with and what it has added; and
the first statement of a migration succeeds only where that migration is not
there yet, so that a version read too early makes a process fail, and never
write twice. A manifest's schema on the disk is the committed one, because its
commits wait for it; that is what `ManifestNeverFalls` needs, and what is not
so of the appliance's own database. The assumptions are `NobodyIsNoProc`,
`FullAreDbs`, `MigrationsHaveStatements`, `ManifestsAreFull`,
`ManifestsArePlaced` and `ProcessesAreNamed`.

Every invariant and every action property that a passing run checks is thereby
proved, and so is the refinement of `VerifiedArchive`. Model-checked only are the
liveness properties (`JobEnds`, `ServiceReturns`, `EjectedCardIsReleased`,
`LoneCardIsServed`, `ServiceComesUp`): fairness speaks of `ENABLED`, which is out
of the prover's reach. Theorems of the library that take an operator as a
parameter cannot be used, those of induction among them; where a proof needs
induction over data (numbers, sequences, finite sets), it takes the least
counterexample instead, which exists because the ordering is well-founded
(`LeastNumber`, `LeastSet`, `FirstOf`).

## 5. Abstractions, and what is not modelled

- Each content and each session slot has a directory of its own. In the code two
  contents may share one, and an fsync then makes more durable, never less.
  Ancestor directories created by `mkdir(parents=True)` are taken to be durable;
  the code never syncs them.
- Files of other sessions or of other programs appear only as `Foreign` paths.
- `partial.unlink` followed by creation of the new partial is one step, as are
  the two unlinks of a discarded candidate: a crash in between leaves nothing
  that later code tells apart.
- Counters of bytes and files, timestamps, messages and events are left out of
  the archive.
- A card never changes under a plan except by errors: a file that differs from
  what preflight hashed is a mismatch.
- One card is present throughout in `BackupService`; a start without a card is
  refused before it changes anything. One dry run at a time, one browser.
- The manifest, `_last_scan` and the trust flag are read and written without a
  lock in the code; each single access is one step.
- In `SourceMedia` every filesystem has a UUID, no two have the same, and every
  card in the reader can be listed and mounted; a card that cannot be mounted
  makes each poll raise and changes nothing else. One ejection and one dry run
  at a time. The devices are listed at one moment.
- In `Preflight` a card keeps its lengths (a file that grows under a copy is not
  modelled), a file's session link and the manifest take no space (a link that meets an
  occupied path is a file that fails, `LinkFails`), nobody
  deletes anything from the destination, and no caller passes an occupant or an
  estimate of metadata. The snapshot hash and the telemetry of skipped files are
  left out: nothing reads them back.
- In `Migrations` every statement fails when repeated, as `CREATE TABLE` and
  `CREATE INDEX` do; in a migration of statements that all succeed twice a
  second process could record a version twice. In `Appliance` a disk is not
  pulled while it is mounted, the kernel refuses to unmount while the manifest
  there is open, filesystems are told whole or not at all, each is mounted at the
  backup root or nowhere, and a device that is read-only is no manifest's, since
  no process can open one there. The jobs and the
  recovery of a process started by hand beside the service are not modelled: the
  archive has one process.
- Not modelled: parsing of the output of lsblk, blkid and mountinfo, calls of
  mount tools (I/O and conversion), telemetry and thresholds, the LED table,
  configuration, scripts, the rest of the page. PROJECT.json lists each with its
  reason.

Beyond what the violation runs show, the modelling met disagreements of code
and documentation that have no run of their own (PROJECT.json, findings without
a run). Four are seen when a run's instance is widened, and the property named
then fails: an object found at its canonical path is taken for intact
(`OnlyProvenIsMarked` with `io` and `rot`); a LINK step lets an OSError of the
destination out of `run_job` (`JobEnds` with `io`); recovery raises on every
start when a session path is occupied (`ServiceReturns` with (1, 1) in
`Foreign`), and when the object of an entry it has already marked must be
discarded, which the foreign key refuses (`ServiceReturns` with `process` and
`rot`). In the media manager, all three behind a condition of
`LoneCardIsServed`: a card put back or swapped between two polls is looked up
under the mount of before; an ejected card put back between two polls stays
hidden; a card left mounted by a process that died cannot be mounted by the
next. A crash between the two commits of `mark_verified` leaves an entry PENDING
for ever; an exception of the worker leaves the engine where no reset leads
from, until a restart; a session may be dated by a time read before the clock
was trusted; a late dry run sets the source bar back; a page that outlives a
restart names a number the new process has not reached, and is not shown what
comes up to it. In preflight and discovery: a directory that cannot be listed is
passed over in silence; a file that fails with an OSError is not reported as
progress; a filesystem on a whole disk is taken for a card.

## 6. Plan

1. Done: the archive (store, job, recovery, crashes), its promise, its proofs.
2. Done: the service (state machine, engine, worker, handlers, clock trust), its
   proofs; the event stream and the media manager, checked.
3. Done: `Preflight`, the room of an accepted job proved.
4. Done: `Migrations` and the start of the service, safety proved.
5. Done: proofs of every invariant and action property that a run checks.
6. A refinement of a service specification (start, run, end) by `BackupService`,
   and of a bus without threads by `EventStream`; liveness of the service: a
   submitted job returns; a reconnecting client catches up.
