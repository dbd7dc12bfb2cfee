------------------------------ MODULE Appliance ------------------------------
(***************************************************************************)
(* The start of the service (appliance.py, scripts/run_appliance.py, the   *)
(* systemd unit) on the machine it runs on: disks that are attached,       *)
(* mounted and exchanged, releases that are installed, processes that      *)
(* migrate both databases one after the other, serve, run jobs, and end.   *)
(*                                                                         *)
(* The destination is whatever is mounted at the backup root.  What        *)
(* validate_destination would say of it stands beside what the code does   *)
(* without asking.                                                         *)
(***************************************************************************)
EXTENDS Migrations, FiniteSets

CONSTANTS
    Device,        \* disks and cards
    Partitions,    \* per device: its filesystems, as [uuid, fstype, system, locked]
    Configured,    \* config: destination.filesystem_uuid
    Supported,     \* config: source.supported_filesystems
    Built,         \* the built-in device
    Local,         \* the appliance database, on the system's storage
    Bare,          \* the manifest in the directory that is the mount point
    Service,       \* the process of systemd; others are started by hand
    MaxTroubles,   \* bound: errors, crashes and power losses
    MaxChanges     \* bound: disks and releases exchanged

Part == UNION {{d} \X DOMAIN Partitions[d] : d \in Device}
Fs(x) == Partitions[x[1]][x[2]]

\* The manifests there may be: one on each ext4 filesystem that is not the
\* system's and can be written, and one under the mount point.
Manifest == Db \ {Local}
\* No caller of open_destination_manifest asks for less than FULL.
ASSUME ManifestsAreFull == Manifest \subseteq Full
ASSUME ManifestsArePlaced ==
    /\ Local \in Db /\ Bare \in Manifest /\ Bare \notin Part /\ Nobody \notin Db
    /\ Manifest \ {Bare} = {x \in Part : Fs(x).fstype = "ext4"
                                         /\ ~Fs(x).system /\ ~Fs(x).locked}
ASSUME ProcessesAreNamed == Built \in Device /\ Service \in Proc

VARIABLES
    attached,      \* devices present
    mounted,       \* the manifest that the configured path leads to
    release,       \* the release installed
    at,            \* per process: how far it is with its start
    opened,        \* per process: the manifest it has open
    troubles, changes

machineVars == <<attached, mounted, release>>
processVars == <<at, opened>>
vars == <<migrationVars, machineVars, processVars, troubles, changes>>

Up == {"serve", "job"}

TypeOK ==
    /\ MigrationsTypeOK
    /\ attached \subseteq Device /\ mounted \in Manifest
    /\ release \in Version
    /\ at \in [Proc -> {"down", "begin", "manifest", "local"} \union Up]
    /\ opened \in [Proc -> Manifest \union {Nobody}]
    /\ troubles \in Nat /\ changes \in Nat

Init ==
    /\ MigrationsInit
    /\ attached = {Built} /\ mounted = Bare /\ release = 1
    /\ at = [p \in Proc |-> "down"]
    /\ opened = [p \in Proc |-> Nobody]
    /\ troubles = 0 /\ changes = 0

-----------------------------------------------------------------------------
(* Devices as lsblk and blkid tell them, and what is made of that.         *)

Listed == {x \in Part : x[1] \in attached}

\* A filesystem that neither udev nor a probe tells has no UUID and no type.
Enriched(x, told) ==
    IF x \in told THEN Fs(x) ELSE [Fs(x) EXCEPT !.uuid = "", !.fstype = ""]

\* validate_destination: the configured UUID is there, once, is ext4, mounted
\* (a filesystem is, at the backup root or nowhere) and its device not
\* read-only.  Nothing calls it.
ValidDestination(told) ==
    LET matches == {x \in Listed : Enriched(x, told).uuid = Configured}
    IN  /\ Configured # "" /\ Cardinality(matches) = 1
        /\ \A x \in matches :
              Enriched(x, told).fstype = "ext4" /\ x = mounted /\ ~Fs(x).locked

\* find_source_candidates: nothing of a disk that carries / or /boot.
SystemDisks == {x[1] : x \in {y \in Listed : Fs(y).system}}
SourceCandidates(told) ==
    {x \in Listed : /\ x[1] \notin SystemDisks
                    /\ Enriched(x, told).fstype \in Supported
                    /\ Enriched(x, told).uuid # Configured}

-----------------------------------------------------------------------------
(* The machine.                                                            *)

Change == changes < MaxChanges /\ changes' = changes + 1

Attach(d) ==
    /\ Change /\ d \notin attached
    /\ attached' = attached \union {d}
    /\ UNCHANGED <<migrationVars, mounted, release, processVars, troubles>>

Detach(d) ==
    /\ Change /\ d \in attached \ {Built}
    /\ \A x \in Listed : x = mounted => x[1] # d
    /\ attached' = attached \ {d}
    /\ UNCHANGED <<migrationVars, mounted, release, processVars, troubles>>

\* By the line of fstab, or by hand.
Mount(x) ==
    /\ mounted = Bare /\ x \in Listed \intersect Manifest
    /\ mounted' = x
    /\ UNCHANGED <<migrationVars, attached, release, processVars, troubles, changes>>

\* The kernel refuses while a manifest there is open.
Unmount ==
    /\ mounted # Bare /\ \A p \in Proc : opened[p] # mounted
    /\ mounted' = Bare
    /\ UNCHANGED <<migrationVars, attached, release, processVars, troubles, changes>>

\* A newer or an older release, for the processes that start from now on.
Install(r) ==
    /\ Change /\ r # release
    /\ release' = r
    /\ UNCHANGED <<migrationVars, attached, mounted, processVars, troubles>>

PowerLoss ==
    /\ troubles < MaxTroubles /\ troubles' = troubles + 1
    /\ MigrationsPowerLoss
    /\ at' = [p \in Proc |-> "down"] /\ opened' = [p \in Proc |-> Nobody]
    /\ mounted' = Bare
    /\ UNCHANGED <<attached, release, changes>>

FlushLog(d) ==
    /\ WriteBack(d)
    /\ UNCHANGED <<machineVars, processVars, troubles, changes>>

-----------------------------------------------------------------------------
(* A process, from build_appliance to its end.                             *)

\* systemd starts the service, again and again, where the backup root is
\* mounted (RequiresMountsFor); by hand it starts anywhere.
Start(p) ==
    /\ at[p] = "down" /\ (p = Service => mounted # Bare)
    /\ at' = [at EXCEPT ![p] = "begin"]
    /\ UNCHANGED <<migrationVars, machineVars, opened, troubles, changes>>

OpenManifest(p) ==
    /\ at[p] = "begin"
    /\ at' = [at EXCEPT ![p] = "manifest"] /\ opened' = [opened EXCEPT ![p] = mounted]
    /\ Call(p, mounted, release)
    /\ UNCHANGED <<schema, disk, writer, machineVars, troubles, changes>>

OpenLocal(p) ==
    /\ at[p] = "manifest" /\ Migrated(p)
    /\ at' = [at EXCEPT ![p] = "local"]
    /\ Call(p, Local, run[p].release)
    /\ UNCHANGED <<schema, disk, writer, machineVars, opened, troubles, changes>>

\* Mutant: the process serves while the second database is still migrated.
ServeEarly(p) ==
    /\ at[p] = "local"
    /\ at' = [at EXCEPT ![p] = "serve"]
    /\ UNCHANGED <<migrationVars, machineVars, opened, troubles, changes>>

\* Recovery, which is Archive's, runs before this.
Serve(p) ==
    /\ at[p] = "local" /\ Migrated(p)
    /\ at' = [at EXCEPT ![p] = "serve"]
    /\ UNCHANGED <<migrationVars, machineVars, opened, troubles, changes>>

\* The page asks for a backup, and there is a source.
StartJob(p) ==
    /\ at[p] = "serve"
    /\ \E told \in SUBSET Listed : SourceCandidates(told) # {}
    /\ at' = [at EXCEPT ![p] = "job"]
    /\ UNCHANGED <<migrationVars, machineVars, opened, troubles, changes>>

EndJob(p) ==
    /\ at[p] = "job"
    /\ at' = [at EXCEPT ![p] = "serve"]
    /\ UNCHANGED <<migrationVars, machineVars, opened, troubles, changes>>

Ends(p) ==
    /\ at' = [at EXCEPT ![p] = "down"] /\ opened' = [opened EXCEPT ![p] = Nobody]
    /\ RolledBack(p)

\* An error of SQLite or of the disk, a lock held too long, a kill, a stop.
Fail(p) ==
    /\ at[p] # "down"
    /\ troubles < MaxTroubles /\ troubles' = troubles + 1
    /\ Ends(p)
    /\ UNCHANGED <<machineVars, changes>>

\* A statement finds what another process has created, and raises.
Collide(p) ==
    /\ Repeats(p)
    /\ Ends(p)
    /\ UNCHANGED <<machineVars, troubles, changes>>

Migrate(p) ==
    /\ MigrationStep(p)
    /\ UNCHANGED <<machineVars, processVars, troubles, changes>>

Advance(p) == OpenManifest(p) \/ Migrate(p) \/ OpenLocal(p) \/ Serve(p) \/ Collide(p)

Next ==
    \/ \E d \in Device : Attach(d) \/ Detach(d)
    \/ \E x \in Manifest : Mount(x)
    \/ Unmount \/ PowerLoss
    \/ \E r \in Version : Install(r)
    \/ \E d \in Db : FlushLog(d)
    \/ \E p \in Proc : Start(p) \/ Advance(p) \/ StartJob(p) \/ EndJob(p) \/ Fail(p)

\* systemd starts the service again (Restart=on-failure); what a process has
\* begun it goes on with.
Fairness ==
    /\ WF_vars(Start(Service))
    /\ \A p \in Proc : WF_vars(Advance(p))

Spec == Init /\ [][Next]_vars /\ Fairness

-----------------------------------------------------------------------------
(* Properties.                                                             *)

\* A process that serves finds in both its databases every table of its own
\* release, whoever else migrates them, exchanges disks or installs releases.
ServesItsSchema ==
    \A p \in Proc : at[p] \in Up =>
        \A d \in {opened[p], Local} : Whole(run[p].release) \subseteq schema[d].things

\* DB-002: what is recorded in a manifest stays recorded, even through a
\* power loss: no schema is ever taken back from under the history it holds.
ManifestNeverFalls ==
    [][\A d \in Manifest : IsPrefix(schema[d].meta, schema'[d].meta)]_vars

\* Once the backup root is mounted the service comes up, whatever the last
\* start was cut off in: no interrupted migration stops every later one.
ServiceComesUp == mounted # Bare ~> (at[Service] \in Up \/ mounted = Bare)

-----------------------------------------------------------------------------
(* What the documents say and the code does not do.                        *)

\* engine.py: destination validation is "performed by the Linux service
\* layer before run_backup is called" (DST-002, REC-008): a job starts only
\* on a destination that validation accepts.
JobNeedsValidDestination ==
    [][\A p \in Proc : at[p] = "serve" /\ at'[p] = "job" => ValidDestination(Listed)]_vars
=============================================================================
