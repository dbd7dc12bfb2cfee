---------------------------- MODULE ApplianceProof ----------------------------
(***************************************************************************)
(* Proofs about Migrations and Appliance, for every set of databases,      *)
(* processes, disks and migrations.                                        *)
(***************************************************************************)
EXTENDS Appliance, TLAPS

-----------------------------------------------------------------------------
(* The inductive invariant.                                                *)

Working == {"statement", "record", "commit"}
Writing(p) ==
    \/ run[p].place \in {"record", "commit"}
    \/ run[p].place = "statement" /\ run[p].step > 1

\* What the migrations before v and the statements of v before i create.
Created(v, i) == Whole(v - 1) \union ({v} \X (1..(i - 1)))

\* An open transaction: the lock is the writer's, the committed schema is the
\* one it began with, and the draft has what its statements have created.
DraftInv(p) ==
    /\ writer[run[p].db] = p
    /\ run[p].version = Len(schema[run[p].db].meta) + 1
    /\ run[p].draft.things = Created(run[p].version, run[p].step)
    /\ run[p].draft.meta = IF run[p].place = "commit"
                           THEN Append(schema[run[p].db].meta, run[p].version)
                           ELSE schema[run[p].db].meta

RunOK(p) ==
    /\ run[p].place # "none" => run[p].db \in Db
    /\ run[p].place \in Working \union {"next"} =>
            run[p].current <= Len(schema[run[p].db].meta)
    /\ run[p].place \in Working =>
            run[p].version = run[p].current + 1 /\ run[p].version <= run[p].release
    /\ run[p].place = "statement" => run[p].step \in 1..Statements[run[p].version]
    /\ run[p].place \in {"record", "commit"} =>
            run[p].step = Statements[run[p].version] + 1
    /\ Writing(p) => DraftInv(p)
RunInv == \A p \in Proc : RunOK(p)

DurableInv == \A d \in Full : disk[d] = schema[d]

MigrationsInv == MigrationsTypeOK /\ SchemaIsWhole /\ DurableInv /\ RunInv

\* How far a process is with its start, and which databases are migrated.
StartOK(p) ==
    /\ at[p] \in {"down", "begin"} => run[p].place = "none"
    /\ at[p] = "manifest" => run[p].place # "none" /\ run[p].db = opened[p]
    /\ at[p] = "local" => run[p].place # "none" /\ run[p].db = Local
    /\ at[p] \in {"manifest", "local"} \union Up => opened[p] \in Manifest
    /\ at[p] \in {"local"} \union Up => run[p].release <= Len(schema[opened[p]].meta)
    /\ at[p] \in Up => run[p].release <= Len(schema[Local].meta)
StartInv == \A p \in Proc : StartOK(p)

Inv == TypeOK /\ MigrationsInv /\ StartInv

-----------------------------------------------------------------------------
(* The schema that the first migrations create.                            *)

LEMMA WholeNext ==
    ASSUME NEW n \in Nat
    PROVE  Whole(n + 1) = Whole(n) \union ({n + 1} \X (1..Statements[n + 1]))
<1>1. 1..(n + 1) = (1..n) \union {n + 1}
  OBVIOUS
<1> QED
  BY <1>1 DEF Whole

LEMMA WholeIsThings ==
    ASSUME NEW n \in 0..Newest
    PROVE  Whole(n) \subseteq Thing
<1>1. 1..n \subseteq 1..Newest
  BY MigrationsHaveStatements
<1> QED
  BY <1>1 DEF Thing, Whole

LEMMA WholeHasFirst ==
    ASSUME NEW n \in 0..Newest, NEW v \in 1..Newest, v <= n
    PROVE  <<v, 1>> \in Whole(n)
<1>1. 1 \in 1..Statements[v] /\ v \in 1..n
  BY MigrationsHaveStatements
<1> QED
  BY <1>1 DEF Whole

LEMMA MyThing ==
    ASSUME NEW v \in 1..Newest, NEW j \in 1..Statements[v]
    PROVE  <<v, j>> \in Thing
  BY DEF Thing, Whole

LEMMA WholeGrows ==
    ASSUME NEW m \in Nat, NEW n \in Nat, m <= n
    PROVE  Whole(m) \subseteq Whole(n)
<1>1. 1..m \subseteq 1..n
  OBVIOUS
<1> QED
  BY <1>1 DEF Whole

LEMMA CreatedFirst ==
    ASSUME NEW n \in Nat
    PROVE  Created(n + 1, 1) = Whole(n)
<1>1. (n + 1) - 1 = n /\ 1..(1 - 1) = {}
  OBVIOUS
<1>2. {n + 1} \X (1..(1 - 1)) = {}
  BY <1>1
<1> QED
  BY <1>1, <1>2 DEF Created

LEMMA CreatedNext ==
    ASSUME NEW v \in Nat, NEW i \in Nat \ {0}
    PROVE  Created(v, i + 1) = Created(v, i) \union {<<v, i>>}
<1>1. 1..((i + 1) - 1) = (1..(i - 1)) \union {i}
  OBVIOUS
<1>2. {v} \X (1..((i + 1) - 1)) = ({v} \X (1..(i - 1))) \union {<<v, i>>}
  BY <1>1
<1> QED
  BY <1>2, Zenon DEF Created

LEMMA CreatedLast ==
    ASSUME NEW n \in 0..Newest, n < Newest
    PROVE  Created(n + 1, Statements[n + 1] + 1) = Whole(n + 1)
<1>1. n \in Nat /\ n + 1 \in 1..Newest
  BY MigrationsHaveStatements
<1>2. Statements[n + 1] \in Nat
  BY <1>1, MigrationsHaveStatements
<1>3. (n + 1) - 1 = n /\ (Statements[n + 1] + 1) - 1 = Statements[n + 1]
  BY <1>1, <1>2
<1> QED
  BY <1>1, <1>3, WholeNext DEF Created

\* The version that is read is the number of migrations applied.
LEMMA VersionIsLength ==
    ASSUME MigrationsTypeOK, SchemaIsWhole, NEW d \in Db
    PROVE  /\ Len(schema[d].meta) \in 0..Newest
           /\ CurrentVersion(d) = Len(schema[d].meta)
<1> DEFINE s == schema[d].meta
<1>1. s \in Seq(Version) /\ Len(s) \in Nat
  BY DEF MigrationsTypeOK, Schema
<1>2. s = [v \in 1..Len(s) |-> v]
  BY DEF SchemaIsWhole, IsWhole
<1>3. \A v \in 1..Len(s) : s[v] = v
  BY <1>2
<1>4. Len(s) <= Newest
  <2>1. CASE Len(s) = 0
    BY <2>1, MigrationsHaveStatements
  <2>2. CASE Len(s) > 0
    <3>1. s[Len(s)] \in Version
      BY <1>1, <2>2
    <3>2. Len(s) \in 1..Len(s)
      BY <1>1, <2>2
    <3>3. Len(s) \in Version
      BY <1>3, <3>1, <3>2, Zenon
    <3> QED
      BY <3>3, MigrationsHaveStatements DEF Version
  <2>3. \A n \in Nat : n = 0 \/ n > 0
    OBVIOUS
  <2> QED
    BY <1>1, <2>1, <2>2, <2>3, Zenon
<1>5. DOMAIN s = 1..Len(s)
  BY <1>1
<1>6. ToSet(s) = 1..Len(s)
  BY <1>3, <1>5 DEF ToSet
<1>7. CurrentVersion(d) = Len(s)
  <2>1. CASE s = <<>>
    BY <2>1 DEF CurrentVersion
  <2>2. CASE s # <<>>
    <3>1. Len(s) \in 1..Len(s)
      BY <1>1, <2>2
    <3>2. \A w \in 1..Len(s) : w <= Len(s)
      BY <1>1
    <3>3. \A v \in 1..Len(s) : (\A w \in 1..Len(s) : w <= v) => v = Len(s)
      BY <1>1, <3>1
    <3>4. CurrentVersion(d) = CHOOSE v \in 1..Len(s) : \A w \in 1..Len(s) : w <= v
      BY <1>6, <2>2 DEF CurrentVersion
    <3> QED
      BY <3>1, <3>2, <3>3, <3>4
  <2> QED
    BY <2>1, <2>2
<1> QED
  BY <1>1, <1>4, <1>7, MigrationsHaveStatements

LEMMA BlankIsWhole == Blank \in Schema /\ IsWhole(Blank) /\ Len(Blank.meta) = 0
<1>1. Whole(0) = {}
  BY DEF Whole
<1>2. <<>> = [v \in 1..0 |-> v]
  OBVIOUS
<1>3. <<>> \in Seq(Version) /\ Len(<<>>) = 0
  OBVIOUS
<1> QED
  BY <1>1, <1>2, <1>3 DEF Blank, IsWhole, Schema

-----------------------------------------------------------------------------
(* What a step leaves alone, and what it may let grow.                     *)

Grows == \A d \in Db : Len(schema[d].meta) <= Len(schema'[d].meta)

LEMMA LengthIsNatural ==
    ASSUME MigrationsTypeOK, NEW d \in Db
    PROVE  Len(schema[d].meta) \in Nat
  BY DEF MigrationsTypeOK, Run, Schema

\* A process that does not move keeps its part of the invariant, as long as
\* the schema it has locked is not changed under it.
LEMMA OtherRun ==
    ASSUME MigrationsTypeOK, MigrationsTypeOK', NEW q \in Proc, RunOK(q), Grows,
           run'[q] = run[q],
           Writing(q) => /\ writer'[run[q].db] = q
                         /\ schema'[run[q].db] = schema[run[q].db]
    PROVE  RunOK(q)'
<1>1. /\ run[q].current \in Nat
      /\ \A d \in Db : Len(schema[d].meta) \in Nat /\ Len(schema'[d].meta) \in Nat
  <2>1. run[q].current \in 0..Newest
    BY DEF MigrationsTypeOK, Run
  <2> QED
    BY <2>1, MigrationsHaveStatements DEF MigrationsTypeOK, Run, Schema
<1>2. run[q].place \in Working \union {"next"} =>
            run[q].current <= Len(schema'[run[q].db].meta)
  <2>1. SUFFICES ASSUME run[q].place \in Working \union {"next"}
                 PROVE  run[q].current <= Len(schema'[run[q].db].meta)
    OBVIOUS
  <2>2. run[q].db \in Db /\ run[q].current <= Len(schema[run[q].db].meta)
    BY <2>1 DEF RunOK, Working
  <2>3. \A i, j, k \in Nat : i <= j /\ j <= k => i <= k
    OBVIOUS
  <2> QED
    BY <1>1, <2>2, <2>3, Zenon DEF Grows
<1>3. Writing(q) => DraftInv(q)'
  BY DEF RunOK, DraftInv
<1> QED
  BY <1>2, <1>3, Zenon DEF RunOK, Writing

LEMMA SameSchema ==
    ASSUME MigrationsTypeOK, UNCHANGED schema
    PROVE  Grows
<1> SUFFICES ASSUME NEW d \in Db PROVE Len(schema[d].meta) <= Len(schema'[d].meta)
  BY DEF Grows
<1>1. Len(schema[d].meta) \in Nat
  BY LengthIsNatural
<1>2. \A n \in Nat : n <= n
  OBVIOUS
<1>3. schema'[d].meta = schema[d].meta
  OBVIOUS
<1> QED
  BY <1>1, <1>2, <1>3, Zenon

LEMMA NothingMigrates ==
    ASSUME MigrationsInv, UNCHANGED migrationVars
    PROVE  MigrationsInv' /\ Grows
<1>1. MigrationsTypeOK' /\ SchemaIsWhole' /\ DurableInv'
  BY DEF MigrationsInv, migrationVars, MigrationsTypeOK, Run, SchemaIsWhole, DurableInv
<1>2. RunInv'
  BY DEF MigrationsInv, migrationVars, RunInv, RunOK, Writing, DraftInv
<1> QED
  BY <1>1, <1>2, SameSchema DEF MigrationsInv, migrationVars

LEMMA CallKeeps ==
    ASSUME MigrationsInv, NEW p \in Proc, NEW d \in Db, NEW r \in 0..Newest,
           Call(p, d, r), UNCHANGED <<schema, disk, writer>>
    PROVE  MigrationsInv' /\ Grows
<1> USE DEF MigrationsInv
<1>1. Blank \in Schema /\ 0 \in 0..Newest /\ r \in 0..Newest
  BY BlankIsWhole, MigrationsHaveStatements
<1>2. MigrationsTypeOK'
  BY <1>1 DEF MigrationsTypeOK, Run, Call, Idle
<1>3. SchemaIsWhole' /\ DurableInv'
  BY DEF SchemaIsWhole, DurableInv
<1>4. Grows
  BY SameSchema
<1>5. RunOK(p)'
  BY DEF RunOK, Call, Writing, Idle, Working, MigrationsTypeOK, Run
<1>6. ASSUME NEW q \in Proc \ {p} PROVE RunOK(q)'
  <2>1. run'[q] = run[q]
    BY DEF Call, MigrationsTypeOK, Run
  <2>2. RunOK(q)
    BY DEF RunInv
  <2>3. Writing(q) => /\ writer'[run[q].db] = q
                      /\ schema'[run[q].db] = schema[run[q].db]
    BY <2>2 DEF RunOK, DraftInv
  <2> QED
    BY <1>2, <1>4, <2>1, <2>2, <2>3, OtherRun
<1> QED
  BY <1>2, <1>3, <1>4, <1>5, <1>6 DEF RunInv

-----------------------------------------------------------------------------
(* One lemma per step of apply_migrations.                                 *)

LEMMA ReadVersionKeeps ==
    ASSUME MigrationsInv, NEW p \in Proc, ReadVersion(p)
    PROVE  MigrationsInv' /\ Grows
<1> USE DEF MigrationsInv
<1>1. run[p].db \in Db /\ RunOK(p)
  BY DEF RunInv, RunOK, ReadVersion, At
<1>2. /\ CurrentVersion(run[p].db) = Len(schema[run[p].db].meta)
      /\ CurrentVersion(run[p].db) \in 0..Newest
  BY <1>1, VersionIsLength
<1>3. MigrationsTypeOK'
  <2>1. [run[p] EXCEPT !.current = CurrentVersion(run[p].db), !.place = "next"] \in Run
    BY <1>2 DEF MigrationsTypeOK, Run
  <2>2. run' = [run EXCEPT ![p] = [run[p] EXCEPT !.current = CurrentVersion(run[p].db),
                                                 !.place = "next"]]
    BY DEF MigrationsTypeOK, ReadVersion, MyDb
  <2> QED
    BY <2>1, <2>2 DEF MigrationsTypeOK, ReadVersion
<1>4. SchemaIsWhole' /\ DurableInv'
  BY DEF ReadVersion, SchemaIsWhole, DurableInv
<1>5. Grows
  BY SameSchema DEF ReadVersion
<1>6. RunOK(p)'
  <2>1. /\ run'[p].place = "next" /\ run'[p].db = run[p].db
        /\ run'[p].current = CurrentVersion(run[p].db)
    BY DEF ReadVersion, MyDb, MigrationsTypeOK, Run
  <2>2. schema' = schema
    BY DEF ReadVersion
  <2>3. run'[p].current <= Len(schema[run'[p].db].meta)
    BY <1>2, <2>1
  <2> QED
    BY <1>1, <2>1, <2>2, <2>3 DEF RunOK, Writing, Working
<1>7. ASSUME NEW q \in Proc \ {p} PROVE RunOK(q)'
  <2>1. run'[q] = run[q] /\ UNCHANGED <<schema, writer>>
    BY DEF ReadVersion, MigrationsTypeOK, Run
  <2>2. RunOK(q)
    BY DEF RunInv
  <2>3. Writing(q) => /\ writer'[run[q].db] = q
                      /\ schema'[run[q].db] = schema[run[q].db]
    BY <2>1, <2>2 DEF RunOK, DraftInv
  <2> QED
    BY <1>3, <1>5, <2>1, <2>2, <2>3, OtherRun
<1> QED
  BY <1>3, <1>4, <1>5, <1>6, <1>7 DEF RunInv

\* The loop comes to the version after the one it has passed.
LEMMA BeginKeeps ==
    ASSUME MigrationsInv, NEW p \in Proc, Begin(p)
    PROVE  MigrationsInv' /\ Grows
<1> USE DEF MigrationsInv
<1>1. run[p].db \in Db /\ RunOK(p) /\ run[p].place = "next"
  BY DEF RunInv, RunOK, Begin, At
<1>2. PICK v \in Pending(p) :
        /\ \A w \in Pending(p) : v <= w
        /\ run' = [run EXCEPT ![p].place = "statement", ![p].version = v, ![p].step = 1]
  BY DEF Begin
<1>3. /\ run[p].current \in 0..Newest /\ run[p].release \in 0..Newest
      /\ Newest \in Nat
  BY MigrationsHaveStatements DEF MigrationsTypeOK, Run
<1>4. v = run[p].current + 1 /\ v \in 1..Newest /\ v <= run[p].release
  <2>1. v \in 1..run[p].release /\ v > run[p].current
    BY <1>2 DEF Pending
  <2>2. run[p].current + 1 \in Pending(p)
    BY <1>3, <2>1 DEF Pending
  <2> QED
    BY <1>2, <1>3, <2>1, <2>2
<1>5. Statements[v] \in Nat \ {0}
  BY <1>4, MigrationsHaveStatements
<1>6. MigrationsTypeOK'
  <2>1. v \in 0..Newest /\ 1 \in Nat
    BY <1>3, <1>4
  <2>2. [run[p] EXCEPT !.place = "statement", !.version = v, !.step = 1] \in Run
    BY <2>1 DEF MigrationsTypeOK, Run
  <2>3. run' = [run EXCEPT ![p] = [run[p] EXCEPT !.place = "statement", !.version = v,
                                                 !.step = 1]]
    BY <1>2 DEF MigrationsTypeOK
  <2> QED
    BY <2>2, <2>3 DEF MigrationsTypeOK, Begin
<1>7. SchemaIsWhole' /\ DurableInv'
  BY DEF Begin, SchemaIsWhole, DurableInv
<1>8. Grows
  BY SameSchema DEF Begin
<1>9. RunOK(p)'
  <2>1. /\ run'[p].place = "statement" /\ run'[p].db = run[p].db
        /\ run'[p].current = run[p].current /\ run'[p].release = run[p].release
        /\ run'[p].version = v /\ run'[p].step = 1
    BY <1>2 DEF MigrationsTypeOK, Run
  <2>2. schema' = schema
    BY DEF Begin
  <2>3. run[p].current <= Len(schema[run[p].db].meta)
    BY <1>1 DEF RunOK
  <2>4. 1 \in 1..Statements[v] /\ ~(1 > 1)
    BY <1>5
  <2> QED
    BY <1>1, <1>4, <2>1, <2>2, <2>3, <2>4 DEF RunOK, Writing, Working
<1>10. ASSUME NEW q \in Proc \ {p} PROVE RunOK(q)'
  <2>1. run'[q] = run[q] /\ UNCHANGED <<schema, writer>>
    BY <1>2 DEF Begin, MigrationsTypeOK, Run
  <2>2. RunOK(q)
    BY DEF RunInv
  <2>3. Writing(q) => /\ writer'[run[q].db] = q
                      /\ schema'[run[q].db] = schema[run[q].db]
    BY <2>1, <2>2 DEF RunOK, DraftInv
  <2> QED
    BY <1>6, <1>8, <2>1, <2>2, <2>3, OtherRun
<1> QED
  BY <1>6, <1>7, <1>8, <1>9, <1>10 DEF RunInv

\* What comes after c, and is more than n, is the next number after n.
LEMMA NextNumber ==
    ASSUME NEW n \in Nat, NEW c \in Nat, NEW v \in Nat, v = c + 1, c <= n, ~(v <= n)
    PROVE  v = n + 1
  OBVIOUS

\* The numbers up to n, and one more.
LEMMA AppendNext ==
    ASSUME NEW S, NEW n \in Nat, NEW s \in Seq(S), n + 1 \in S, s = [w \in 1..n |-> w]
    PROVE  Append(s, n + 1) = [w \in 1..(n + 1) |-> w]
<1> DEFINE t == Append(s, n + 1)
<1>1. Len(s) = n
  <2>1. DOMAIN s = 1..n /\ DOMAIN s = 1..Len(s) /\ Len(s) \in Nat
    OBVIOUS
  <2> QED
    BY <2>1
<1>2. t \in Seq(S) /\ Len(t) = n + 1
  BY <1>1
<1>3. \A w \in 1..(n + 1) : t[w] = w
  BY <1>1
<1>4. t = [w \in 1..Len(t) |-> t[w]]
  BY <1>2
<1> HIDE DEF t
<1>5. t = [w \in 1..(n + 1) |-> t[w]]
  BY <1>2, <1>4
<1> QED
  BY <1>3, <1>5 DEF t

\* A first statement that does not raise is that of the next migration.
LEMMA StatementKeeps ==
    ASSUME MigrationsInv, NEW p \in Proc, Statement(p)
    PROVE  MigrationsInv' /\ Grows
<1> USE DEF MigrationsInv
<1> DEFINE d == run[p].db
           v == run[p].version
           i == run[p].step
           n == Len(schema[d].meta)
<1>1. d \in Db /\ RunOK(p) /\ run[p].place = "statement"
  BY DEF RunInv, RunOK, Statement, At
<1>2. n \in 0..Newest /\ Newest \in Nat
  BY <1>1, VersionIsLength, MigrationsHaveStatements
<1>3. /\ run[p].current \in 0..Newest /\ run[p].release \in 0..Newest
      /\ v = run[p].current + 1 /\ v <= run[p].release /\ i \in 1..Statements[v]
      /\ run[p].current <= n
  BY <1>1 DEF MigrationsTypeOK, Run, RunOK, Working
<1>4. v \in 1..Newest /\ Statements[v] \in Nat \ {0} /\ i \in Nat
  <2>1. v \in 1..Newest
    BY <1>2, <1>3
  <2> QED
    BY <1>3, <2>1, MigrationsHaveStatements
<1>5. SchemaIsWhole /\ schema[d].things = Whole(n) /\ schema[d] \in Schema
  BY <1>1 DEF SchemaIsWhole, IsWhole, MigrationsTypeOK, Run
<1>6. /\ v = n + 1
      /\ Seen(p).things = Created(v, i)
      /\ Seen(p).meta = schema[d].meta
  <2>1. CASE i = 1
    <3>1. Seen(p) = schema[d]
      BY <2>1 DEF Seen, MyDb
    <3>2. <<v, 1>> \notin Whole(n)
      BY <1>5, <2>1, <3>1 DEF Statement, ThingHere
    <3>3. ~(v <= n)
      BY <1>2, <1>4, <3>2, WholeHasFirst
    <3>4. v = n + 1
      <4>1. n \in Nat /\ run[p].current \in Nat /\ v \in Nat
        BY <1>2, <1>3, <1>4
      <4>2. v = run[p].current + 1 /\ run[p].current <= n
        BY <1>3
      <4> HIDE DEF d, v, i, n
      <4> QED
        BY <3>3, <4>1, <4>2, NextNumber
    <3>5. Created(v, i) = Whole(n)
      BY <1>2, <2>1, <3>4, CreatedFirst
    <3> QED
      BY <1>5, <3>1, <3>4, <3>5
  <2>2. CASE i # 1
    <3>1. i > 1
      BY <1>4, <1>3, <2>2
    <3>2. DraftInv(p) /\ Seen(p) = run[p].draft
      BY <1>1, <2>2, <3>1 DEF RunOK, Writing, Seen
    <3> QED
      BY <1>1, <3>2 DEF DraftInv
  <2> QED
    BY <2>1, <2>2
<1>7. Seen(p) \in Schema
  BY <1>1, <1>5 DEF MigrationsTypeOK, Run, Seen, MyDb
<1> DEFINE draft == [Seen(p) EXCEPT !.things = @ \union {<<v, i>>}]
           place == IF i = Statements[v] THEN "record" ELSE "statement"
<1>8. /\ run' = [run EXCEPT ![p].draft = draft, ![p].step = i + 1, ![p].place = place]
      /\ writer' = [writer EXCEPT ![d] = p] /\ UNCHANGED <<schema, disk>>
      /\ writer[d] \in {Nobody, p}
  BY DEF Statement, MyDb, ThingHere, MayWrite, MigrationsTypeOK, Run
<1>9. /\ draft \in Schema /\ draft.meta = schema[d].meta
      /\ draft.things = Seen(p).things \union {<<v, i>>}
  <2>1. <<v, i>> \in Thing
    BY <1>3, <1>4, MyThing
  <2> QED
    BY <1>6, <1>7, <2>1 DEF Schema
<1>10. draft.things = Created(v, i + 1)
  <2>1. Created(v, i + 1) = Created(v, i) \union {<<v, i>>}
    <3>1. v \in Nat /\ i \in Nat \ {0}
      BY <1>3, <1>4
    <3> QED
      BY <3>1, CreatedNext, Zenon
  <2> QED
    BY <1>6, <1>9, <2>1
<1>11. /\ run'[p].draft = draft /\ run'[p].step = i + 1 /\ run'[p].place = place
       /\ run'[p].db = d /\ run'[p].version = v /\ run'[p].current = run[p].current
       /\ run'[p].release = run[p].release
       /\ place \in {"record", "statement"}
  BY <1>8 DEF MigrationsTypeOK, Run
<1>12. MigrationsTypeOK'
  <2>1. i + 1 \in Nat
    BY <1>4
  <2> QED
    BY <1>1, <1>8, <1>9, <2>1 DEF MigrationsTypeOK, Run
<1>13. SchemaIsWhole' /\ DurableInv'
  BY <1>8 DEF SchemaIsWhole, DurableInv
<1>14. Grows
  BY <1>8, SameSchema
<1>15. RunOK(p)'
  <2>1. DraftInv(p)'
    <3>1. writer'[d] = p
      BY <1>1, <1>8 DEF MigrationsTypeOK, Run
    <3>2. place # "commit"
      BY <1>11
    <3>3. v = Len(schema'[d].meta) + 1
      BY <1>6, <1>8
    <3>4. /\ writer'[run'[p].db] = p
          /\ run'[p].version = Len(schema'[run'[p].db].meta) + 1
      BY <1>11, <3>1, <3>3
    <3>5. run'[p].draft.things = Created(run'[p].version, run'[p].step)
      BY <1>10, <1>11
    <3>6. run'[p].draft.meta = schema'[run'[p].db].meta /\ run'[p].place # "commit"
      BY <1>8, <1>9, <1>11, <3>2
    <3> QED
      BY <3>4, <3>5, <3>6, Zenon DEF DraftInv
  <2>2. place = "statement" => i + 1 \in 1..Statements[v]
    BY <1>3, <1>4
  <2>3. place \in {"record", "commit"} => i + 1 = Statements[v] + 1
    BY <1>11
  <2> QED
    BY <1>1, <1>3, <1>8, <1>11, <2>1, <2>2, <2>3, Zenon DEF RunOK, Working, Writing
<1>16. ASSUME NEW q \in Proc \ {p} PROVE RunOK(q)'
  <2>1. run'[q] = run[q] /\ schema' = schema
    BY <1>8 DEF MigrationsTypeOK, Run
  <2>2. RunOK(q)
    BY DEF RunInv
  <2>3. Writing(q) => /\ writer'[run[q].db] = q
                      /\ schema'[run[q].db] = schema[run[q].db]
    <3>1. SUFFICES ASSUME Writing(q) PROVE writer'[run[q].db] = q
      BY <2>1
    <3>2. writer[run[q].db] = q /\ run[q].db \in Db
      BY <2>2, <3>1 DEF RunOK, DraftInv, Writing
    <3>3. run[q].db # d
      BY <1>8, <3>2, NobodyIsNoProc
    <3> QED
      BY <1>8, <3>2, <3>3 DEF MigrationsTypeOK, Run
  <2> QED
    BY <1>12, <1>14, <2>1, <2>2, <2>3, OtherRun
<1> QED
  BY <1>12, <1>13, <1>14, <1>15, <1>16 DEF RunInv

LEMMA RecordKeeps ==
    ASSUME MigrationsInv, NEW p \in Proc, Record(p)
    PROVE  MigrationsInv' /\ Grows
<1> USE DEF MigrationsInv
<1>1. /\ run[p].db \in Db /\ RunOK(p) /\ run[p].place = "record"
      /\ UNCHANGED <<schema, disk, writer>>
  BY DEF RunInv, RunOK, Record, At
<1>2. DraftInv(p)
  BY <1>1 DEF RunOK, Writing
<1>3. run[p].version \in Version
  <2>1. run[p].version = run[p].current + 1 /\ run[p].version <= run[p].release
    BY <1>1 DEF RunOK, Working
  <2>2. run[p].current \in 0..Newest /\ run[p].release \in 0..Newest /\ Newest \in Nat
    BY MigrationsHaveStatements DEF MigrationsTypeOK, Run
  <2> QED
    BY <2>1, <2>2 DEF Version
<1> DEFINE draft == [run[p].draft EXCEPT !.meta = Append(@, run[p].version)]
           mine == [run[p] EXCEPT !.draft = draft, !.place = "commit"]
<1>4. /\ draft \in Schema /\ draft.things = run[p].draft.things
      /\ draft.meta = Append(schema[run[p].db].meta, run[p].version)
  <2>1. run[p].draft \in Schema
    BY DEF MigrationsTypeOK, Run
  <2>2. run[p].draft.meta = schema[run[p].db].meta
    BY <1>1, <1>2 DEF DraftInv
  <2>3. Append(run[p].draft.meta, run[p].version) \in Seq(Version)
    BY <1>3, <2>1 DEF Schema
  <2>4. /\ draft.things = run[p].draft.things
        /\ draft.meta = Append(run[p].draft.meta, run[p].version)
    BY <2>1 DEF Schema
  <2>5. draft \in Schema
    BY <2>1, <2>3 DEF Schema
  <2> QED
    BY <2>2, <2>4, <2>5, Zenon
<1>5. run' = [run EXCEPT ![p] = mine]
  BY DEF Record, MigrationsTypeOK, Run
<1>6. MigrationsTypeOK'
  <2>1. mine \in Run
    BY <1>4 DEF MigrationsTypeOK, Run
  <2> QED
    BY <1>1, <1>5, <2>1 DEF MigrationsTypeOK
<1>7. SchemaIsWhole' /\ DurableInv' /\ Grows
  BY <1>1, SameSchema DEF SchemaIsWhole, DurableInv
<1>8. /\ run'[p].draft = draft /\ run'[p].place = "commit"
      /\ run'[p].step = run[p].step /\ run'[p].db = run[p].db
      /\ run'[p].version = run[p].version /\ run'[p].current = run[p].current
      /\ run'[p].release = run[p].release
  BY <1>5 DEF MigrationsTypeOK, Run
<1>9. RunOK(p)'
  <2>1. DraftInv(p)'
    <3>1. /\ writer'[run'[p].db] = p
          /\ run'[p].version = Len(schema'[run'[p].db].meta) + 1
          /\ run'[p].draft.things = Created(run'[p].version, run'[p].step)
      BY <1>1, <1>2, <1>4, <1>8 DEF DraftInv
    <3>2. run'[p].draft.meta = Append(schema'[run'[p].db].meta, run'[p].version)
      BY <1>1, <1>4, <1>8
    <3> QED
      BY <1>8, <3>1, <3>2, Zenon DEF DraftInv
  <2> QED
    BY <1>1, <1>8, <2>1, Zenon DEF RunOK, Working, Writing
<1>10. ASSUME NEW q \in Proc \ {p} PROVE RunOK(q)'
  <2>1. run'[q] = run[q]
    BY <1>5 DEF MigrationsTypeOK
  <2>2. RunOK(q)
    BY DEF RunInv
  <2>3. Writing(q) => /\ writer'[run[q].db] = q
                      /\ schema'[run[q].db] = schema[run[q].db]
    BY <1>1, <2>2 DEF RunOK, DraftInv
  <2> QED
    BY <1>6, <1>7, <2>1, <2>2, <2>3, OtherRun
<1> QED
  BY <1>6, <1>7, <1>9, <1>10 DEF RunInv

\* The draft is the schema of one migration more.
LEMMA CommitKeeps ==
    ASSUME MigrationsInv, NEW p \in Proc, Commit(p)
    PROVE  MigrationsInv' /\ Grows
<1> USE DEF MigrationsInv
<1> DEFINE d == run[p].db
           v == run[p].version
           n == Len(schema[d].meta)
           draft == run[p].draft
<1>1. d \in Db /\ RunOK(p) /\ run[p].place = "commit"
  BY DEF RunInv, RunOK, Commit, At
<1>2. DraftInv(p)
  BY <1>1 DEF RunOK, Writing
<1>3. n \in 0..Newest /\ n \in Nat /\ Newest \in Nat /\ v = n + 1 /\ v \in 1..Newest
  <2>1. n \in 0..Newest /\ Newest \in Nat
    BY <1>1, VersionIsLength, MigrationsHaveStatements
  <2>2. v = n + 1 /\ v <= run[p].release /\ run[p].release \in 0..Newest
    BY <1>1, <1>2 DEF RunOK, Working, DraftInv, MigrationsTypeOK, Run
  <2> HIDE DEF d, v, n
  <2> QED
    BY <2>1, <2>2
<1>4. draft \in Schema /\ schema[d].meta \in Seq(Version)
  BY <1>1 DEF MigrationsTypeOK, Run, Schema
<1>5. draft.meta = Append(schema[d].meta, v) /\ draft.things = Whole(n + 1)
  <2>1. draft.meta = Append(schema[d].meta, v)
    BY <1>1, <1>2 DEF DraftInv
  <2>2. draft.things = Created(v, run[p].step) /\ run[p].step = Statements[v] + 1
    BY <1>1, <1>2 DEF DraftInv, RunOK
  <2>3. n < Newest
    BY <1>3
  <2>4. Created(n + 1, Statements[n + 1] + 1) = Whole(n + 1)
    BY <1>3, <2>3, CreatedLast
  <2> QED
    BY <1>3, <2>1, <2>2, <2>4
<1>6. Len(draft.meta) = n + 1
  BY <1>4, <1>5
<1>7. IsWhole(draft)
  <2>1. schema[d].meta = [w \in 1..n |-> w]
    BY <1>1 DEF SchemaIsWhole, IsWhole
  <2>2. draft.meta = [w \in 1..(n + 1) |-> w]
    <3>1. n + 1 \in Version /\ draft.meta = Append(schema[d].meta, n + 1)
      BY <1>3, <1>5 DEF Version
    <3> QED
      BY <1>3, <1>4, <2>1, <3>1, AppendNext
  <2> QED
    BY <1>5, <1>6, <2>2 DEF IsWhole
<1>8. /\ schema' = [schema EXCEPT ![d] = draft]
      /\ disk' = IF d \in Full THEN [disk EXCEPT ![d] = schema'[d]] ELSE disk
      /\ writer' = [writer EXCEPT ![d] = Nobody]
      /\ run' = [run EXCEPT ![p] = [run[p] EXCEPT !.current = v, !.place = "next"]]
  BY DEF Commit, CommitToDisk, MyDb, MigrationsTypeOK, Run
<1>9. schema'[d] = draft /\ \A e \in Db \ {d} : schema'[e] = schema[e]
  BY <1>1, <1>8 DEF MigrationsTypeOK
<1>10. disk' = IF d \in Full THEN [disk EXCEPT ![d] = draft] ELSE disk
  BY <1>8, <1>9
<1>11. MigrationsTypeOK'
  <2>1. [run[p] EXCEPT !.current = v, !.place = "next"] \in Run
    BY <1>3 DEF MigrationsTypeOK, Run
  <2>2. schema' \in [Db -> Schema] /\ disk' \in [Db -> Schema]
    BY <1>4, <1>8, <1>10 DEF MigrationsTypeOK
  <2> QED
    BY <1>8, <2>1, <2>2 DEF MigrationsTypeOK
<1>12. SchemaIsWhole'
  <2> SUFFICES ASSUME NEW e \in Db PROVE IsWhole(schema'[e]) /\ IsWhole(disk'[e])
    BY DEF SchemaIsWhole
  <2>1. IsWhole(schema[e]) /\ IsWhole(disk[e])
    BY DEF SchemaIsWhole
  <2>2. schema'[e] \in {schema[e], draft} /\ disk'[e] \in {disk[e], draft}
    BY <1>9, <1>10 DEF MigrationsTypeOK
  <2> QED
    BY <1>7, <2>1, <2>2
<1>13. DurableInv'
  <2> SUFFICES ASSUME NEW e \in Full PROVE disk'[e] = schema'[e]
    BY DEF DurableInv
  <2>1. e \in Db /\ disk[e] = schema[e]
    BY FullAreDbs DEF DurableInv
  <2>2. CASE e = d
    BY <1>9, <1>10, <2>1, <2>2 DEF MigrationsTypeOK
  <2>3. CASE e # d
    BY <1>9, <1>10, <2>1, <2>3 DEF MigrationsTypeOK
  <2> QED
    BY <2>2, <2>3
<1>14. Grows
  <2> SUFFICES ASSUME NEW e \in Db PROVE Len(schema[e].meta) <= Len(schema'[e].meta)
    BY DEF Grows
  <2>1. CASE e = d
    BY <1>3, <1>6, <1>9, <2>1
  <2>2. CASE e # d
    <3>1. schema'[e] = schema[e] /\ Len(schema[e].meta) \in Nat
      BY <1>9, <2>2, LengthIsNatural
    <3>2. \A k \in Nat : k <= k
      OBVIOUS
    <3> QED
      BY <3>1, <3>2, Zenon
  <2> QED
    BY <2>1, <2>2
<1>15. RunOK(p)'
  <2>1. run'[p].place = "next" /\ run'[p].db = d /\ run'[p].current = v
    BY <1>8 DEF MigrationsTypeOK, Run
  <2>2. v <= Len(schema'[d].meta)
    BY <1>3, <1>6, <1>9
  <2>3. run'[p].current <= Len(schema'[run'[p].db].meta)
    <3> HIDE DEF d, v
    <3> QED
      BY <2>1, <2>2, Zenon
  <2> QED
    BY <1>1, <2>1, <2>3 DEF RunOK, Writing, Working
<1>16. ASSUME NEW q \in Proc \ {p} PROVE RunOK(q)'
  <2>1. run'[q] = run[q]
    BY <1>8 DEF MigrationsTypeOK
  <2>2. RunOK(q)
    BY DEF RunInv
  <2>3. Writing(q) => /\ writer'[run[q].db] = q
                      /\ schema'[run[q].db] = schema[run[q].db]
    <3>1. SUFFICES ASSUME Writing(q)
                   PROVE  /\ writer'[run[q].db] = q
                          /\ schema'[run[q].db] = schema[run[q].db]
      OBVIOUS
    <3>2. writer[run[q].db] = q /\ run[q].db \in Db
      BY <2>2, <3>1 DEF RunOK, DraftInv, Writing
    <3>3. run[q].db # d
      BY <1>2, <3>2 DEF DraftInv
    <3> QED
      BY <1>8, <1>9, <3>2, <3>3 DEF MigrationsTypeOK
  <2> QED
    BY <1>11, <1>14, <2>1, <2>2, <2>3, OtherRun
<1> QED
  BY <1>11, <1>12, <1>13, <1>14, <1>15, <1>16 DEF RunInv

LEMMA RollbackKeeps ==
    ASSUME MigrationsInv, NEW p \in Proc, RolledBack(p)
    PROVE  MigrationsInv' /\ Grows
<1> USE DEF MigrationsInv
<1>1. Idle \in Run
  BY BlankIsWhole, MigrationsHaveStatements DEF Idle, Run
<1>2. MigrationsTypeOK'
  BY <1>1 DEF MigrationsTypeOK, RolledBack
<1>3. SchemaIsWhole' /\ DurableInv' /\ Grows
  BY SameSchema DEF RolledBack, SchemaIsWhole, DurableInv
<1>4. RunOK(p)'
  <2>1. run'[p] = Idle
    BY DEF RolledBack, MigrationsTypeOK
  <2> QED
    BY <2>1 DEF RunOK, Writing, Working, Idle
<1>5. ASSUME NEW q \in Proc \ {p} PROVE RunOK(q)'
  <2>1. run'[q] = run[q] /\ schema' = schema
    BY DEF RolledBack, MigrationsTypeOK
  <2>2. RunOK(q)
    BY DEF RunInv
  <2>3. Writing(q) => /\ writer'[run[q].db] = q
                      /\ schema'[run[q].db] = schema[run[q].db]
    BY <2>1, <2>2 DEF RunOK, DraftInv, Writing, RolledBack
  <2> QED
    BY <1>2, <1>3, <2>1, <2>2, <2>3, OtherRun
<1> QED
  BY <1>2, <1>3, <1>4, <1>5 DEF RunInv

LEMMA WriteBackKeeps ==
    ASSUME MigrationsInv, NEW d \in Db, WriteBack(d)
    PROVE  MigrationsInv' /\ Grows
<1> USE DEF MigrationsInv
<1>1. MigrationsTypeOK' /\ SchemaIsWhole' /\ DurableInv'
  BY DEF MigrationsTypeOK, WriteBack, SchemaIsWhole, DurableInv
<1>2. RunInv'
  BY DEF RunInv, RunOK, Writing, DraftInv, WriteBack
<1> QED
  BY <1>1, <1>2, SameSchema DEF WriteBack

LEMMA PowerLossKeeps ==
    ASSUME MigrationsInv, MigrationsPowerLoss
    PROVE  MigrationsInv'
<1> USE DEF MigrationsInv
<1>1. Idle \in Run
  BY BlankIsWhole, MigrationsHaveStatements DEF Idle, Run
<1>2. MigrationsTypeOK' /\ SchemaIsWhole' /\ DurableInv'
  BY <1>1 DEF MigrationsTypeOK, MigrationsPowerLoss, SchemaIsWhole, DurableInv
<1>3. RunInv'
  BY DEF RunInv, RunOK, Writing, Working, MigrationsPowerLoss, Idle
<1> QED
  BY <1>2, <1>3

LEMMA MigrationStepKeeps ==
    ASSUME MigrationsInv, NEW p \in Proc, MigrationStep(p)
    PROVE  MigrationsInv' /\ Grows
  BY ReadVersionKeeps, BeginKeeps, StatementKeeps, RecordKeeps, CommitKeeps
     DEF MigrationStep

-----------------------------------------------------------------------------
(* The start of a process.                                                 *)

LEMMA ReleaseIsNatural ==
    ASSUME MigrationsTypeOK, NEW p \in Proc
    PROVE  run[p].release \in Nat
<1>1. run[p].release \in 0..Newest
  BY DEF MigrationsTypeOK, Run
<1> QED
  BY <1>1, MigrationsHaveStatements

LEMMA ManifestsAreDbs == Manifest \subseteq Db /\ Local \in Db /\ Local \notin Manifest
  BY ManifestsArePlaced DEF Manifest

\* A process that does not come further with its start keeps what it found.
LEMMA OtherStart ==
    ASSUME MigrationsTypeOK, MigrationsTypeOK', NEW q \in Proc, StartOK(q), Grows,
           at'[q] = at[q], opened'[q] = opened[q],
           run'[q].place = "none" <=> run[q].place = "none",
           run'[q].db = run[q].db, run'[q].release = run[q].release
    PROVE  StartOK(q)'
<1>1. \A i, j, k \in Nat : i <= j /\ j <= k => i <= k
  OBVIOUS
<1>2. run[q].release \in Nat
  BY ReleaseIsNatural
<1>3. \A d \in Db : Len(schema[d].meta) \in Nat /\ Len(schema'[d].meta) \in Nat
  BY DEF MigrationsTypeOK, Schema
<1>4. \A d \in Db : run[q].release <= Len(schema[d].meta)
                        => run[q].release <= Len(schema'[d].meta)
  BY <1>1, <1>2, <1>3, Zenon DEF Grows
<1>5. at[q] \in {"local"} \union Up => opened[q] \in Db
  BY ManifestsAreDbs DEF StartOK
<1> QED
  BY <1>4, <1>5, ManifestsAreDbs, Zenon DEF StartOK

\* When the loop is through, every version of the release is applied.
LEMMA MigratedIsWhole ==
    ASSUME MigrationsInv, NEW p \in Proc, Migrated(p)
    PROVE  run[p].release <= Len(schema[run[p].db].meta)
<1>1. run[p].place = "next" /\ Pending(p) = {}
  BY DEF Migrated, At
<1>2. run[p].db \in Db /\ run[p].current <= Len(schema[run[p].db].meta)
  BY <1>1 DEF MigrationsInv, RunInv, RunOK, Working
<1>3. run[p].release \in Nat /\ run[p].current \in Nat
  <2>1. run[p].release \in 0..Newest /\ run[p].current \in 0..Newest
    BY DEF MigrationsInv, MigrationsTypeOK, Run
  <2> QED
    BY <2>1, MigrationsHaveStatements
<1>4. ~(run[p].release > run[p].current)
  <2>1. SUFFICES ASSUME run[p].release > run[p].current PROVE FALSE
    OBVIOUS
  <2>2. run[p].release \in Pending(p)
    BY <1>3, <2>1 DEF Pending
  <2> QED
    BY <1>1, <2>2
<1>5. Len(schema[run[p].db].meta) \in Nat
  BY <1>2, LengthIsNatural DEF MigrationsInv
<1> QED
  BY <1>2, <1>3, <1>4, <1>5

LEMMA MigrationKeepsCall ==
    ASSUME MigrationsTypeOK, NEW p \in Proc, MigrationStep(p)
    PROVE  /\ run[p].place # "none" /\ run'[p].place # "none"
           /\ run'[p].db = run[p].db /\ run'[p].release = run[p].release
           /\ \A q \in Proc \ {p} : run'[q] = run[q]
<1> USE DEF MigrationsTypeOK, Run, At
<1>1. CASE ReadVersion(p)
  BY <1>1 DEF ReadVersion
<1>2. CASE Begin(p)
  BY <1>2 DEF Begin
<1>3. CASE Statement(p)
  BY <1>3 DEF Statement
<1>4. CASE Record(p)
  BY <1>4 DEF Record
<1>5. CASE Commit(p)
  BY <1>5 DEF Commit
<1> QED
  BY <1>1, <1>2, <1>3, <1>4, <1>5 DEF MigrationStep

\* A step of a process p, what it does to StartInv beside p.
LEMMA OthersStart ==
    ASSUME Inv, MigrationsTypeOK', Grows, NEW p \in Proc,
           \A q \in Proc \ {p} : /\ at'[q] = at[q] /\ opened'[q] = opened[q]
                                 /\ run'[q] = run[q]
    PROVE  \A q \in Proc \ {p} : StartOK(q)'
<1> SUFFICES ASSUME NEW q \in Proc \ {p} PROVE StartOK(q)'
  OBVIOUS
<1>1. StartOK(q) /\ MigrationsTypeOK
  BY DEF Inv, StartInv, MigrationsInv
<1> QED
  BY <1>1, OtherStart

-----------------------------------------------------------------------------
(* The invariant is inductive.                                             *)

MachineTypeOK ==
    /\ attached \subseteq Device /\ mounted \in Manifest
    /\ release \in Version
    /\ at \in [Proc -> {"down", "begin", "manifest", "local"} \union Up]
    /\ opened \in [Proc -> Manifest \union {Nobody}]
    /\ troubles \in Nat /\ changes \in Nat

LEMMA TypeOKSplits == TypeOK <=> MigrationsTypeOK /\ MachineTypeOK
  BY DEF TypeOK, MachineTypeOK

LEMMA InitInv ==
    ASSUME Init
    PROVE  Inv
<1>1. Idle \in Run /\ Blank \in Schema /\ IsWhole(Blank)
  BY BlankIsWhole, MigrationsHaveStatements DEF Idle, Run
<1>2. MigrationsTypeOK /\ SchemaIsWhole /\ DurableInv
  BY <1>1, FullAreDbs
     DEF Init, MigrationsInit, MigrationsTypeOK, SchemaIsWhole, DurableInv
<1>3. RunInv
  BY DEF Init, MigrationsInit, RunInv, RunOK, Idle, Writing, Working
<1>4. MachineTypeOK
  <2>1. 1 \in Version
    BY MigrationsHaveStatements DEF Version
  <2> QED
    BY <2>1, ProcessesAreNamed, ManifestsArePlaced DEF Init, MachineTypeOK, Up
<1>5. StartInv
  BY DEF Init, MigrationsInit, StartInv, StartOK, Idle, Up
<1> QED
  BY <1>2, <1>3, <1>4, <1>5, TypeOKSplits DEF Inv, MigrationsInv

\* The machine changes, and no process moves.
LEMMA MachineKeeps ==
    ASSUME Inv, MachineTypeOK', MigrationsInv', Grows, UNCHANGED <<processVars, run>>
    PROVE  Inv'
<1>1. ASSUME NEW q \in Proc PROVE StartOK(q)'
  <2>1. StartOK(q) /\ MigrationsTypeOK /\ MigrationsTypeOK'
    BY DEF Inv, StartInv, MigrationsInv
  <2> QED
    BY <2>1, OtherStart DEF processVars
<1>2. TypeOK'
  BY TypeOKSplits DEF MigrationsInv, TypeOK, MachineTypeOK
<1> QED
  BY <1>1, <1>2 DEF Inv, StartInv

LEMMA StepKeepsMachine ==
    ASSUME Inv, [Next]_vars
    PROVE  MachineTypeOK'
<1> USE DEF machineVars, processVars, Up
<1>1. MachineTypeOK
  BY TypeOKSplits DEF Inv
<1> USE <1>1 DEF MachineTypeOK
<1>2. CASE \E d \in Device : Attach(d) \/ Detach(d)
  BY <1>2 DEF Attach, Detach, Change
<1>3. CASE \E x \in Manifest : Mount(x)
  BY <1>3 DEF Mount
<1>4. CASE Unmount
  BY <1>4, ManifestsArePlaced DEF Unmount
<1>5. CASE PowerLoss
  BY <1>5, ManifestsArePlaced DEF PowerLoss
<1>6. CASE \E r \in Version : Install(r)
  BY <1>6 DEF Install, Change
<1>7. CASE \E d \in Db : FlushLog(d)
  BY <1>7 DEF FlushLog
<1>8. ASSUME NEW p \in Proc,
             Start(p) \/ Advance(p) \/ StartJob(p) \/ EndJob(p) \/ Fail(p)
      PROVE  MachineTypeOK'
  <2>1. CASE Start(p)
    BY <2>1 DEF Start
  <2>2. CASE OpenManifest(p)
    BY <2>2 DEF OpenManifest
  <2>3. CASE Migrate(p)
    BY <2>3 DEF Migrate
  <2>4. CASE OpenLocal(p)
    BY <2>4 DEF OpenLocal
  <2>5. CASE Serve(p)
    BY <2>5 DEF Serve
  <2>6. CASE Collide(p)
    BY <2>6 DEF Collide, Ends
  <2>7. CASE StartJob(p)
    BY <2>7 DEF StartJob
  <2>8. CASE EndJob(p)
    BY <2>8 DEF EndJob
  <2>9. CASE Fail(p)
    BY <2>9 DEF Fail, Ends
  <2> QED
    BY <1>8, <2>1, <2>2, <2>3, <2>4, <2>5, <2>6, <2>7, <2>8, <2>9 DEF Advance
<1>9. CASE UNCHANGED vars
  BY <1>9 DEF vars
<1> QED
  BY <1>2, <1>3, <1>4, <1>5, <1>6, <1>7, <1>8, <1>9 DEF Next

\* One step of one process.
LEMMA ProcessKeeps ==
    ASSUME Inv, MachineTypeOK', NEW p \in Proc,
           Start(p) \/ Advance(p) \/ StartJob(p) \/ EndJob(p) \/ Fail(p)
    PROVE  Inv' /\ Grows
<1>1. MigrationsInv /\ MigrationsTypeOK /\ StartOK(p) /\ MachineTypeOK
  BY TypeOKSplits DEF Inv, MigrationsInv, StartInv
<1>2. SUFFICES MigrationsInv' /\ Grows /\ StartOK(p)'
               /\ \A q \in Proc \ {p} : /\ at'[q] = at[q] /\ opened'[q] = opened[q]
                                        /\ run'[q] = run[q]
  <2>1. MigrationsTypeOK'
    BY <1>2 DEF MigrationsInv
  <2>2. StartInv'
    BY <1>2, <2>1, OthersStart DEF StartInv
  <2>3. TypeOK'
    BY <2>1 DEF TypeOK, MachineTypeOK, MigrationsTypeOK
  <2> QED
    BY <1>2, <2>2, <2>3 DEF Inv
<1>3. /\ at \in [Proc -> {"down", "begin", "manifest", "local"} \union Up]
      /\ opened \in [Proc -> Manifest \union {Nobody}]
      /\ run \in [Proc -> Run]
  BY <1>1 DEF MachineTypeOK, MigrationsTypeOK
<1>4. ASSUME Start(p) \/ StartJob(p) \/ EndJob(p) \/ Serve(p)
      PROVE  /\ MigrationsInv' /\ Grows
             /\ \A q \in Proc \ {p} : /\ at'[q] = at[q] /\ opened'[q] = opened[q]
                                      /\ run'[q] = run[q]
  <2>1. UNCHANGED migrationVars
    BY <1>4 DEF Start, StartJob, EndJob, Serve
  <2>2. UNCHANGED <<run, schema>>
    BY <2>1 DEF migrationVars
  <2> QED
    BY <1>1, <1>3, <1>4, <2>1, <2>2, NothingMigrates DEF Start, StartJob, EndJob, Serve
<1>5. CASE Start(p) \/ StartJob(p) \/ EndJob(p)
  <2>1. UNCHANGED <<run, schema, opened>>
    BY <1>5 DEF Start, StartJob, EndJob, migrationVars
  <2>2. StartOK(p)'
    BY <1>1, <1>3, <1>5, <2>1 DEF StartOK, Start, StartJob, EndJob, Up
  <2> QED
    BY <1>4, <1>5, <2>2
<1>6. CASE Serve(p)
  <2>1. UNCHANGED <<run, schema, opened>> /\ at[p] = "local" /\ at'[p] = "serve"
    BY <1>3, <1>6 DEF Serve, migrationVars
  <2>2. run[p].release <= Len(schema[Local].meta)
    BY <1>1, <1>6, <2>1, MigratedIsWhole DEF Serve, StartOK
  <2>3. StartOK(p)'
    BY <1>1, <2>1, <2>2 DEF StartOK, Up
  <2> QED
    BY <1>4, <1>6, <2>3
<1>7. CASE OpenManifest(p)
  <2>1. mounted \in Db /\ mounted \in Manifest /\ release \in 0..Newest
    BY <1>1, ManifestsAreDbs, MigrationsHaveStatements DEF MachineTypeOK, Version
  <2>2. MigrationsInv' /\ Grows
    BY <1>1, <1>7, <2>1, CallKeeps DEF OpenManifest
  <2>3. /\ at'[p] = "manifest" /\ opened'[p] = mounted
        /\ run'[p].db = mounted /\ run'[p].place = "read"
        /\ \A q \in Proc \ {p} : /\ at'[q] = at[q] /\ opened'[q] = opened[q]
                                 /\ run'[q] = run[q]
    BY <1>3, <1>7 DEF OpenManifest, Call, Idle
  <2>4. StartOK(p)'
    BY <2>1, <2>3 DEF StartOK, Up
  <2> QED
    BY <2>2, <2>3, <2>4
<1>8. CASE OpenLocal(p)
  <2>1. /\ run[p].release <= Len(schema[opened[p]].meta) /\ opened[p] \in Manifest
        /\ at[p] = "manifest"
    BY <1>1, <1>8, MigratedIsWhole DEF OpenLocal, StartOK
  <2>2. run[p].release \in 0..Newest
    BY <1>3 DEF Run
  <2>3. MigrationsInv' /\ Grows
    BY <1>1, <1>8, <2>2, ManifestsAreDbs, CallKeeps DEF OpenLocal
  <2>4. /\ at'[p] = "local" /\ opened' = opened /\ schema' = schema
        /\ run'[p].db = Local /\ run'[p].place = "read" /\ run'[p].release = run[p].release
        /\ \A q \in Proc \ {p} : at'[q] = at[q] /\ run'[q] = run[q]
    BY <1>3, <1>8 DEF OpenLocal, Call, Idle
  <2>5. StartOK(p)'
    BY <2>1, <2>4 DEF StartOK, Up
  <2> QED
    BY <2>3, <2>4, <2>5
<1>9. CASE Migrate(p)
  <2>1. MigrationStep(p) /\ UNCHANGED <<at, opened>>
    BY <1>9 DEF Migrate, processVars
  <2>2. MigrationsInv' /\ Grows
    BY <1>1, <2>1, MigrationStepKeeps
  <2>3. /\ run[p].place # "none" /\ run'[p].place # "none"
        /\ run'[p].db = run[p].db /\ run'[p].release = run[p].release
        /\ \A q \in Proc \ {p} : run'[q] = run[q]
    BY <1>1, <2>1, MigrationKeepsCall
  <2>4. MigrationsTypeOK'
    BY <2>2 DEF MigrationsInv
  <2>5. StartOK(p)'
    BY <1>1, <2>1, <2>2, <2>3, <2>4, OtherStart
  <2> QED
    BY <2>1, <2>2, <2>3, <2>5
<1>10. CASE Collide(p) \/ Fail(p)
  <2>1. Ends(p)
    BY <1>10 DEF Collide, Fail
  <2>2. MigrationsInv' /\ Grows
    BY <1>1, <2>1, RollbackKeeps DEF Ends
  <2>3. /\ at'[p] = "down" /\ run'[p].place = "none"
        /\ \A q \in Proc \ {p} : /\ at'[q] = at[q] /\ opened'[q] = opened[q]
                                 /\ run'[q] = run[q]
    BY <1>3, <2>1 DEF Ends, RolledBack, Idle
  <2>4. StartOK(p)'
    BY <2>3 DEF StartOK, Up
  <2> QED
    BY <2>2, <2>3, <2>4
<1> QED
  BY <1>5, <1>6, <1>7, <1>8, <1>9, <1>10 DEF Advance

LEMMA PowerLossRestarts ==
    ASSUME Inv, MachineTypeOK', PowerLoss
    PROVE  Inv'
<1>1. MigrationsInv'
  BY PowerLossKeeps DEF Inv, PowerLoss
<1>2. StartInv'
  BY DEF PowerLoss, MigrationsPowerLoss, StartInv, StartOK, Idle, Up
<1> QED
  BY <1>1, <1>2 DEF Inv, MigrationsInv, TypeOK, MachineTypeOK, MigrationsTypeOK

LEMMA NextInv ==
    ASSUME Inv, [Next]_vars
    PROVE  Inv' /\ (Grows \/ PowerLoss)
<1>1. MachineTypeOK' /\ MigrationsInv
  BY StepKeepsMachine DEF Inv
<1>2. CASE \/ \E d \in Device : Attach(d) \/ Detach(d)
           \/ \E x \in Manifest : Mount(x)
           \/ Unmount
           \/ \E r \in Version : Install(r)
           \/ UNCHANGED vars
  <2>1. UNCHANGED migrationVars /\ UNCHANGED processVars
    BY <1>2 DEF Attach, Detach, Mount, Unmount, Install, vars
  <2>2. MigrationsInv' /\ Grows
    BY <1>1, <2>1, NothingMigrates
  <2> QED
    BY <1>1, <2>1, <2>2, MachineKeeps DEF migrationVars
<1>3. CASE PowerLoss
  BY <1>1, <1>3, PowerLossRestarts
<1>4. CASE \E d \in Db : FlushLog(d)
  <2>1. PICK d \in Db : FlushLog(d)
    BY <1>4
  <2>2. UNCHANGED processVars /\ UNCHANGED run /\ WriteBack(d)
    BY <2>1 DEF FlushLog, WriteBack
  <2>3. MigrationsInv' /\ Grows
    BY <1>1, <2>2, WriteBackKeeps
  <2> QED
    BY <1>1, <2>2, <2>3, MachineKeeps
<1>5. CASE \E p \in Proc : Start(p) \/ Advance(p) \/ StartJob(p) \/ EndJob(p) \/ Fail(p)
  BY <1>1, <1>5, ProcessKeeps
<1> QED
  BY <1>2, <1>3, <1>4, <1>5 DEF Next

-----------------------------------------------------------------------------
(* Theorems.                                                               *)

\* Every reachable state of migrations and starts satisfies the invariant:
\* whoever migrates has read a version that is still a lower bound, and an
\* open transaction stands on the schema it began with.
THEOREM ApplianceInvariant == Spec => []Inv
<1>1. Init => Inv
  BY InitInv
<1>2. Inv /\ [Next]_vars => Inv'
  BY NextInv
<1> QED
  BY <1>1, <1>2, PTL DEF Spec

\* Every variable keeps its type.
THEOREM ApplianceTypeCorrect == Spec => []TypeOK
<1>1. Inv => TypeOK
  BY DEF Inv
<1> QED
  BY <1>1, ApplianceInvariant, PTL

\* Any number of processes of any releases may migrate the same databases, be
\* killed, raise or lose power: no version is skipped, applied twice or in part.
THEOREM SchemasStayWhole == Spec => []SchemaIsWhole
<1>1. Inv => SchemaIsWhole
  BY DEF Inv, MigrationsInv
<1> QED
  BY <1>1, ApplianceInvariant, PTL

\* A process that serves has every table of its release in both databases.
THEOREM ServersHaveTheirSchema == Spec => []ServesItsSchema
<1>1. Inv => ServesItsSchema
  <2> SUFFICES ASSUME Inv, NEW p \in Proc, at[p] \in Up, NEW d \in {opened[p], Local}
               PROVE  Whole(run[p].release) \subseteq schema[d].things
    BY DEF ServesItsSchema
  <2>1. StartOK(p) /\ MigrationsTypeOK /\ SchemaIsWhole
    BY DEF Inv, StartInv, MigrationsInv
  <2>2. d \in Db /\ run[p].release <= Len(schema[d].meta)
    BY <2>1, ManifestsAreDbs DEF StartOK
  <2>3. run[p].release \in Nat /\ Len(schema[d].meta) \in Nat
    BY <2>1, <2>2, ReleaseIsNatural, LengthIsNatural
  <2>4. schema[d].things = Whole(Len(schema[d].meta))
    BY <2>1, <2>2 DEF SchemaIsWhole, IsWhole
  <2> QED
    BY <2>2, <2>3, <2>4, WholeGrows
<1> QED
  BY <1>1, ApplianceInvariant, PTL

\* A manifest never falls back to an earlier version, power losses included.
THEOREM ManifestsNeverFall == Spec => ManifestNeverFalls
<1>1. Inv /\ Inv' /\ [Next]_vars =>
        [\A d \in Manifest : IsPrefix(schema[d].meta, schema'[d].meta)]_vars
  <2> SUFFICES ASSUME Inv, Inv', [Next]_vars, NEW d \in Manifest
               PROVE  IsPrefix(schema[d].meta, schema'[d].meta)
    OBVIOUS
  <2> DEFINE s == schema[d].meta
             t == schema'[d].meta
  <2>1. d \in Db /\ d \in Full
    BY ManifestsAreDbs, ManifestsAreFull
  <2>2. /\ s \in Seq(Version) /\ s = [v \in 1..Len(s) |-> v] /\ Len(s) \in Nat
        /\ t \in Seq(Version) /\ t = [v \in 1..Len(t) |-> v] /\ Len(t) \in Nat
    <3>1. MigrationsTypeOK /\ SchemaIsWhole /\ MigrationsTypeOK' /\ SchemaIsWhole'
      BY DEF Inv, MigrationsInv
    <3>2. s \in Seq(Version) /\ t \in Seq(Version)
      BY <2>1, <3>1 DEF MigrationsTypeOK, Schema
    <3>3. s = [v \in 1..Len(s) |-> v] /\ t = [v \in 1..Len(t) |-> v]
      BY <2>1, <3>1 DEF SchemaIsWhole, IsWhole
    <3> HIDE DEF s, t
    <3> QED
      BY <3>2, <3>3
  <2>3. Len(s) <= Len(t)
    <3>1. CASE Grows
      BY <2>1, <3>1 DEF Grows
    <3>2. CASE PowerLoss
      <4>1. schema'[d] = schema[d]
        BY <2>1, <3>2
           DEF PowerLoss, MigrationsPowerLoss, Inv, MigrationsInv, DurableInv
      <4> QED
        BY <2>2, <4>1
    <3> QED
      BY <3>1, <3>2, NextInv
  <2>4. \A i \in 1..Len(s) : s[i] = t[i]
    BY <2>2, <2>3
  <2> QED
    BY <2>2, <2>3, <2>4 DEF IsPrefix
<1> QED
  BY <1>1, ApplianceInvariant, PTL DEF Spec, ManifestNeverFalls

=============================================================================
