------------------------------ MODULE Migrations ------------------------------
(***************************************************************************)
(* Schema migrations (db/migrations.py) of several SQLite databases, by    *)
(* processes of any release, statement by statement.                       *)
(*                                                                         *)
(* The version is read outside any transaction; each migration then has    *)
(* one of its own.  Two processes may migrate the same database, either    *)
(* may raise or be killed at any point, and a power loss takes back what   *)
(* was committed but not yet written.                                      *)
(***************************************************************************)
EXTENDS Naturals, Sequences, SequencesExt

CONSTANTS
    Db, Proc, Nobody,
    Newest,          \* the newest migration there is
    Statements,    \* how many statements each migration has
    Full           \* databases opened with synchronous=FULL

ASSUME NobodyIsNoProc == Nobody \notin Proc
ASSUME FullAreDbs == Full \subseteq Db
\* There is a migration; each creates something, and fails the second time.
ASSUME MigrationsHaveStatements ==
    Newest \in Nat \ {0} /\ Statements \in [1..Newest -> Nat \ {0}]

Version == 1..Newest
\* What the first n migrations create; a statement's thing is named by its place.
Whole(n) == UNION {{v} \X (1..Statements[v]) : v \in 1..n}
Thing == Whole(Newest)
Schema == [things : SUBSET Thing, meta : Seq(Version)]
Blank == [things |-> {}, meta |-> <<>>]

Idle == [place |-> "none", db |-> Nobody, release |-> 0, current |-> 0, version |-> 0,
         step |-> 0, draft |-> Blank]

VARIABLES
    schema,    \* per database: what is committed
    disk,      \* per database: what a power loss leaves
    writer,    \* per database: who has its write lock
    run        \* per process: apply_migrations

migrationVars == <<schema, disk, writer, run>>

Run == [place : {"none", "read", "next", "statement", "record", "commit"},
        db : Db \union {Nobody}, release : 0..Newest, current : 0..Newest,
        version : 0..Newest, step : Nat, draft : Schema]

MigrationsTypeOK ==
    /\ schema \in [Db -> Schema] /\ disk \in [Db -> Schema]
    /\ writer \in [Db -> Proc \union {Nobody}]
    /\ run \in [Proc -> Run]

MigrationsInit ==
    /\ schema = [d \in Db |-> Blank] /\ disk = [d \in Db |-> Blank]
    /\ writer = [d \in Db |-> Nobody]
    /\ run = [p \in Proc |-> Idle]

-----------------------------------------------------------------------------
(* apply_migrations.                                                       *)

At(p, place) == run[p].place = place
MyDb(p) == run[p].db

\* MAX(schema_version), 0 if there is none.
CurrentVersion(d) ==
    IF schema[d].meta = <<>> THEN 0
    ELSE CHOOSE v \in ToSet(schema[d].meta) : \A w \in ToSet(schema[d].meta) : w <= v

\* apply_migrations is called on the database d by a process of this release.
Call(p, d, release) ==
    run' = [run EXCEPT ![p] = [Idle EXCEPT !.place = "read", !.db = d, !.release = release]]

ReadVersion(p) ==
    /\ At(p, "read")
    /\ run' = [run EXCEPT ![p].current = CurrentVersion(MyDb(p)), ![p].place = "next"]
    /\ UNCHANGED <<schema, disk, writer>>

\* The versions of the release that the loop has not passed over.
Pending(p) == {v \in 1..run[p].release : v > run[p].current}

Begin(p) ==
    /\ At(p, "next")
    /\ \E v \in Pending(p) :
        /\ \A w \in Pending(p) : v <= w
        /\ run' = [run EXCEPT ![p].place = "statement", ![p].version = v, ![p].step = 1]
    /\ UNCHANGED <<schema, disk, writer>>

\* The transaction takes the write lock with its first statement, and sees
\* the database as it is then.
Seen(p) == IF run[p].step = 1 THEN schema[MyDb(p)] ELSE run[p].draft
MayWrite(p) == writer[MyDb(p)] \in {Nobody, p}
ThingHere(p) == <<run[p].version, run[p].step>>

\* Mutant: no BEGIN, each statement is a transaction of its own.
StatementAutocommitted(p) ==
    /\ At(p, "statement") /\ MayWrite(p)
    /\ ThingHere(p) \notin schema[MyDb(p)].things
    /\ schema' = [schema EXCEPT ![MyDb(p)].things = @ \union {ThingHere(p)}]
    /\ disk' = [disk EXCEPT ![MyDb(p)] = schema'[MyDb(p)]]
    /\ run' = [run EXCEPT ![p].draft = schema'[MyDb(p)], ![p].step = @ + 1,
                          ![p].place = IF run[p].step = Statements[run[p].version]
                                       THEN "record" ELSE "statement"]
    /\ UNCHANGED writer

Statement(p) ==
    /\ At(p, "statement") /\ MayWrite(p)
    /\ ThingHere(p) \notin Seen(p).things
    /\ writer' = [writer EXCEPT ![MyDb(p)] = p]
    /\ run' = [run EXCEPT ![p].draft = [Seen(p) EXCEPT !.things = @ \union {ThingHere(p)}],
                          ![p].step = @ + 1,
                          ![p].place = IF run[p].step = Statements[run[p].version]
                                       THEN "record" ELSE "statement"]
    /\ UNCHANGED <<schema, disk>>

\* Mutant: the number of the migration to come is recorded.
RecordNext(p) ==
    /\ At(p, "record")
    /\ run' = [run EXCEPT ![p].draft.meta = Append(@, run[p].version + 1),
                          ![p].place = "commit"]
    /\ UNCHANGED <<schema, disk, writer>>

\* The insert into schema_meta.
Record(p) ==
    /\ At(p, "record")
    /\ run' = [run EXCEPT ![p].draft.meta = Append(@, run[p].version),
                          ![p].place = "commit"]
    /\ UNCHANGED <<schema, disk, writer>>

\* Mutant: no commit waits for the disk.
CommitToCache(d) == UNCHANGED disk

\* synchronous=FULL waits for the disk, NORMAL does not.
CommitToDisk(d) ==
    disk' = IF d \in Full THEN [disk EXCEPT ![d] = schema'[d]] ELSE disk

Commit(p) ==
    /\ At(p, "commit")
    /\ schema' = [schema EXCEPT ![MyDb(p)] = run[p].draft]
    /\ CommitToDisk(MyDb(p))
    /\ writer' = [writer EXCEPT ![MyDb(p)] = Nobody]
    /\ run' = [run EXCEPT ![p].current = run[p].version, ![p].place = "next"]

\* The loop is through.
Migrated(p) == At(p, "next") /\ Pending(p) = {}

\* The transaction is rolled back, by ROLLBACK or because the process ends.
RolledBack(p) ==
    /\ writer' = [d \in Db |-> IF writer[d] = p THEN Nobody ELSE writer[d]]
    /\ run' = [run EXCEPT ![p] = Idle]
    /\ UNCHANGED <<schema, disk>>

\* The statement finds what it would create, and raises.
Repeats(p) == At(p, "statement") /\ MayWrite(p) /\ ThingHere(p) \in Seen(p).things

MigrationStep(p) ==
    ReadVersion(p) \/ Begin(p) \/ Statement(p) \/ Record(p) \/ Commit(p)

-----------------------------------------------------------------------------
(* The machine.                                                            *)

\* The write-ahead log of a database reaches the disk.
WriteBack(d) ==
    /\ disk[d] # schema[d]
    /\ disk' = [disk EXCEPT ![d] = schema[d]]
    /\ UNCHANGED <<schema, writer, run>>

MigrationsPowerLoss ==
    /\ schema' = disk
    /\ writer' = [d \in Db |-> Nobody]
    /\ run' = [p \in Proc |-> Idle]
    /\ UNCHANGED disk

-----------------------------------------------------------------------------
(* Properties.                                                             *)

IsWhole(s) ==
    /\ s.meta = [v \in 1..Len(s.meta) |-> v]
    /\ s.things = Whole(Len(s.meta))

\* migrations.py: "an interrupted migration leaves the database at its
\* previous version rather than partially applied".  Whoever migrates a
\* database, at the same time, from whatever release and however often it is
\* cut short: the versions recorded are 1, 2, 3 ... without a gap or a
\* repetition, and the schema is what just these migrations create, on the
\* disk as well as in view.
SchemaIsWhole == \A d \in Db : IsWhole(schema[d]) /\ IsWhole(disk[d])
=============================================================================
