--------------------------- MODULE PreflightProof ---------------------------
(***************************************************************************)
(* Proofs about Preflight, for any card, any sizes of its files, any       *)
(* configuration and any number of jobs, retries, errors and crashes: an   *)
(* accepted job never takes more of the destination than preflight set     *)
(* aside for it, the plan's totals are those of the card, and the job's    *)
(* counters add up with them.                                              *)
(*                                                                         *)
(* None of the three is inductive.  RoomIsKept depends on what the job has *)
(* left to write: RoomInv counts the planned bytes file by file (upTo),    *)
(* ties the totals to that count, and says that of the space measured the  *)
(* job has used what it planned for the files behind it and the partial    *)
(* file at hand.  PlanIsSound is true of the files planned so far          *)
(* (SoundInv), by a theory of sums over finite sets.  ResultAddsUp is true *)
(* of the files backed up so far (CountInv).                               *)
(***************************************************************************)
EXTENDS Preflight, FiniteSetTheorems, WellFoundedInduction, TLAPS

Planned == phase \in {"plan", "measure", "loop", "copy", "done"}

\* The files the loop of build_plan has behind it end before this one.
Frontier == IF phase = "plan" THEN pos ELSE NumFiles + 1

Cost(f) == IF plan[f] = "COPY_VERIFY_OBJECT_AND_LINK" THEN SizeOf(read[f]) ELSE 0

\* Only contents are copied.
CopiesContent ==
    \A f \in File : plan[f] = "COPY_VERIFY_OBJECT_AND_LINK" => read[f] \in Content

CopyIsPlanned ==
    phase = "copy" =>
        /\ pos \in File /\ plan[pos] = "COPY_VERIFY_OBJECT_AND_LINK"
        /\ partial[read[pos]] <= Size[read[pos]]

SumsAreTotals ==
    Planned =>
        /\ phase = "plan" => pos \in File
        /\ upTo[1] = 0
        /\ \A f \in File : f < Frontier => upTo[f + 1] = upTo[f] + Cost(f)
        /\ upTo[Frontier] = totals.bytes
        /\ \A i \in 1..Frontier : upTo[i] <= totals.bytes

Used == upTo[pos] + (IF phase = "copy" THEN partial[read[pos]] ELSE 0)

RoomIsCounted ==
    Running =>
        /\ pos \in 1..NumFiles + 1
        /\ free + foreign + Used >= Required(totals.bytes, totals.largest)

RoomInv == TypeOK /\ CopiesContent /\ CopyIsPlanned /\ SumsAreTotals /\ RoomIsCounted

-----------------------------------------------------------------------------

\* The arithmetic of capacity yields natural numbers.
LEMMA Margins ==
    ASSUME NEW n \in Nat, NEW l \in Nat
    PROVE  /\ SafetyMargin \in Nat /\ OperationalReserve(l) \in Nat
           /\ Required(n, l) \in Nat
           /\ Required(n, l) = n + OperationalReserve(l) + SafetyMargin
<1>1. (Total * Percent) \div 100 \in Nat
  <2>1. Total \in Nat /\ Percent \in Nat
    BY ConfigIsNatural
  <2>2. Total * Percent \in Nat
    BY <2>1
  <2> QED
    BY <2>2
<1>2. SafetyMargin \in Nat
  BY <1>1, ConfigIsNatural DEF SafetyMargin, MaxOf
<1>3. OperationalReserve(l) \in Nat
  BY ConfigIsNatural DEF OperationalReserve, MaxOf
<1> QED
  BY <1>2, <1>3 DEF Required

\* What a scan yields has a size; what is planned to be copied is a content.
LEMMA Sizes ==
    ASSUME NEW x \in Content \union Mark
    PROVE  /\ SizeOf(x) \in Nat
           /\ ActionFor(x) \in Action
           /\ ActionFor(x) = "COPY_VERIFY_OBJECT_AND_LINK" => x \in Content
<1>1. SizeOf(x) \in Nat
  BY SizesAreNatural DEF SizeOf
<1>2. ActionFor(x) \in Action
  BY DEF ActionFor, Action
<1>3. ASSUME x \in Mark PROVE ActionFor(x) # "COPY_VERIFY_OBJECT_AND_LINK"
  BY <1>3 DEF Mark, ActionFor, Classification
<1> QED
  BY <1>1, <1>2, <1>3

LEMMA CountedIsNatural ==
    ASSUME NEW t \in [DOMAIN NoTotals -> Nat], NEW x \in Content \union Mark, NEW a
    PROVE  /\ Counted(t, x, a) \in [DOMAIN NoTotals -> Nat]
           /\ Counted(t, x, a).bytes
                = t.bytes + (IF a = "COPY_VERIFY_OBJECT_AND_LINK" THEN SizeOf(x) ELSE 0)
<1>1. SizeOf(x) \in Nat
  BY Sizes
<1>2. DOMAIN NoTotals = {"bytes", "count", "largest", "source", "entries",
                         "unreadable", "unsupported"}
  BY DEF NoTotals
<1>3. /\ t.bytes \in Nat /\ t.count \in Nat /\ t.largest \in Nat /\ t.source \in Nat
      /\ t.entries \in Nat /\ t.unreadable \in Nat /\ t.unsupported \in Nat
  BY <1>2
<1>4. \A b : One(b) \in Nat
  BY DEF One
<1> DEFINE new == IF a = "COPY_VERIFY_OBJECT_AND_LINK" THEN SizeOf(x) ELSE 0
<1>5. new \in Nat
  BY <1>1
<1>6. MaxOf(t.largest, new) \in Nat
  BY <1>3, <1>5 DEF MaxOf
<1> HIDE DEF new
<1>7. Counted(t, x, a) = [bytes |-> t.bytes + new,
         count |-> t.count + One(a = "COPY_VERIFY_OBJECT_AND_LINK"),
         largest |-> MaxOf(t.largest, new),
         source |-> t.source + SizeOf(x),
         entries |-> t.entries + One(a # "NONE"),
         unreadable |-> t.unreadable + One(a = "BLOCK_UNREADABLE"),
         unsupported |-> t.unsupported + One(a = "SKIP_UNSUPPORTED")]
  BY DEF Counted, new
<1>8. /\ t.count + One(a = "COPY_VERIFY_OBJECT_AND_LINK") \in Nat
      /\ t.entries + One(a # "NONE") \in Nat
      /\ t.unreadable + One(a = "BLOCK_UNREADABLE") \in Nat
      /\ t.unsupported + One(a = "SKIP_UNSUPPORTED") \in Nat
      /\ t.bytes + new \in Nat /\ t.source + SizeOf(x) \in Nat
  BY <1>1, <1>3, <1>4, <1>5
<1> QED
  BY <1>2, <1>6, <1>7, <1>8 DEF new

\* The counters of run_job stay natural numbers.
LEMMA Raised ==
    ASSUME NEW t \in [DOMAIN NoTally -> Nat], NEW k \in DOMAIN NoTally, NEW n \in Nat
    PROVE  [t EXCEPT ![k] = @ + n] \in [DOMAIN NoTally -> Nat]
<1>1. t[k] + n \in Nat
  OBVIOUS
<1> QED
  BY <1>1, Zenon

LEMMA TallyIsNatural ==
    ASSUME NEW t \in [DOMAIN NoTally -> Nat], NEW n \in Nat
    PROVE  /\ [t EXCEPT !.done = @ + 1, !.bytesDone = @ + n] \in [DOMAIN NoTally -> Nat]
           /\ [t EXCEPT !.failed = @ + 1] \in [DOMAIN NoTally -> Nat]
           /\ [t EXCEPT !.verified = @ + 1] \in [DOMAIN NoTally -> Nat]
           /\ [t EXCEPT !.verified = @ + 1, !.skipped = @ + n] \in [DOMAIN NoTally -> Nat]
           /\ [t EXCEPT !.verified = @ + 1, !.copied = @ + 1] \in [DOMAIN NoTally -> Nat]
           /\ [t EXCEPT !.verified = @ + 1, !.copied = @ + 1, !.bytes = @ + n]
                \in [DOMAIN NoTally -> Nat]
<1> DEFINE Tally == [DOMAIN NoTally -> Nat]
<1>1. DOMAIN NoTally = {"verified", "copied", "skipped", "failed", "bytes", "done",
                        "bytesDone"}
  BY DEF NoTally
<1>2. \A u \in Tally : /\ [u EXCEPT !.done = @ + 1] \in Tally
                       /\ [u EXCEPT !.failed = @ + 1] \in Tally
                       /\ [u EXCEPT !.verified = @ + 1] \in Tally
                       /\ [u EXCEPT !.copied = @ + 1] \in Tally
  <2> TAKE u \in Tally
  <2>1. /\ "done" \in DOMAIN NoTally /\ "failed" \in DOMAIN NoTally
        /\ "verified" \in DOMAIN NoTally /\ "copied" \in DOMAIN NoTally
    BY <1>1
  <2>2. 1 \in Nat
    OBVIOUS
  <2> QED
    BY <2>1, <2>2, Raised
<1>3. \A u \in Tally : /\ [u EXCEPT !.bytesDone = @ + n] \in Tally
                       /\ [u EXCEPT !.skipped = @ + n] \in Tally
                       /\ [u EXCEPT !.bytes = @ + n] \in Tally
  <2> TAKE u \in Tally
  <2>1. /\ "bytesDone" \in DOMAIN NoTally /\ "skipped" \in DOMAIN NoTally
        /\ "bytes" \in DOMAIN NoTally
    BY <1>1
  <2> QED
    BY <2>1, Raised
<1> DEFINE v == [t EXCEPT !.verified = @ + 1]
           vc == [v EXCEPT !.copied = @ + 1]
           d == [t EXCEPT !.done = @ + 1]
<1>4. v \in Tally /\ vc \in Tally /\ d \in Tally
  BY <1>2
<1>5. [t EXCEPT !.done = @ + 1, !.bytesDone = @ + n] = [d EXCEPT !.bytesDone = @ + n]
  BY <1>1
<1>6. [t EXCEPT !.verified = @ + 1, !.skipped = @ + n] = [v EXCEPT !.skipped = @ + n]
  BY <1>1
<1>7. [t EXCEPT !.verified = @ + 1, !.copied = @ + 1] = vc
  BY <1>1
<1>8. [t EXCEPT !.verified = @ + 1, !.copied = @ + 1, !.bytes = @ + n]
        = [vc EXCEPT !.bytes = @ + n]
  BY <1>1
<1> HIDE DEF v, vc, d
<1>9. /\ [d EXCEPT !.bytesDone = @ + n] \in Tally
      /\ [v EXCEPT !.skipped = @ + n] \in Tally
      /\ [vc EXCEPT !.bytes = @ + n] \in Tally
  BY <1>3, <1>4
<1> QED
  BY <1>2, <1>4, <1>5, <1>6, <1>7, <1>8, <1>9 DEF v

-----------------------------------------------------------------------------
(* What several actions have in common.                                    *)

LEMMA InitRoom == Init => RoomInv
<1> SUFFICES ASSUME Init PROVE RoomInv
  OBVIOUS
<1>1. NumFiles \in Nat \ {0} /\ Total \in Nat
  BY ConfigIsNatural
<1>2. TypeOK
  <2>1. /\ read \in [File -> Content \union Mark] /\ plan \in [File -> Action]
        /\ upTo \in [1..NumFiles + 1 -> Nat]
    BY DEF Init, Mark, Action
  <2>2. totals \in [DOMAIN NoTotals -> Nat] /\ tally \in [DOMAIN NoTally -> Nat]
    BY DEF Init, NoTotals, NoTally
  <2> QED
    BY <1>1, <2>1, <2>2 DEF Init, TypeOK
<1> QED
  BY <1>2 DEF Init, RoomInv, CopiesContent, CopyIsPlanned, SumsAreTotals, RoomIsCounted,
              Planned, Running

\* The plan stands while a job runs, and is of no interest after it.
LEMMA PlanStands ==
    ASSUME RoomInv, UNCHANGED planVars,
           \/ phase' = phase /\ pos' = pos
           \/ /\ phase \in {"measure", "loop", "copy"}
              /\ phase' \in {"loop", "copy", "done"}
           \/ phase' \in {"idle", "recover", "stuck"}
    PROVE  CopiesContent' /\ SumsAreTotals'
<1>1. read' = read /\ plan' = plan /\ totals' = totals /\ upTo' = upTo
  BY DEF planVars
<1>2. CopiesContent'
  BY <1>1 DEF RoomInv, CopiesContent
<1>3. CASE phase' \in {"idle", "recover", "stuck"}
  <2>1. ~Planned'
    BY <1>3 DEF Planned
  <2> QED
    BY <1>2, <2>1 DEF SumsAreTotals
<1>6. \A f \in File : Cost(f)' = Cost(f)
  BY <1>1 DEF Cost, SizeOf
<1>4. CASE phase' = phase /\ pos' = pos
  <2>1. Planned' = Planned /\ Frontier' = Frontier
    BY <1>4 DEF Planned, Frontier
  <2> QED
    BY <1>1, <1>2, <1>4, <1>6, <2>1 DEF RoomInv, SumsAreTotals
<1>5. CASE phase \in {"measure", "loop", "copy"} /\ phase' \in {"loop", "copy", "done"}
  <2>1. Planned /\ Frontier = NumFiles + 1 /\ Frontier' = NumFiles + 1 /\ phase' # "plan"
    BY <1>5 DEF Planned, Frontier
  <2> QED
    BY <1>1, <1>2, <1>6, <2>1 DEF RoomInv, SumsAreTotals
<1> QED
  BY <1>2, <1>3, <1>4, <1>5

\* The bytes planned up to a file grow by what the file costs, up to the total.
LEMMA Steps ==
    ASSUME RoomInv, phase \in {"loop", "copy", "done"}, NEW f \in File
    PROVE  /\ upTo[f] \in Nat /\ upTo[f + 1] \in Nat
           /\ upTo[f + 1] = upTo[f] + Cost(f)
           /\ upTo[f] <= totals.bytes /\ upTo[f + 1] <= totals.bytes
           /\ Cost(f) \in Nat
<1>1. Planned /\ Frontier = NumFiles + 1
  BY DEF Planned, Frontier
<1>2. NumFiles \in Nat
  BY ConfigIsNatural
<1>3. f \in 1..NumFiles + 1 /\ f + 1 \in 1..NumFiles + 1 /\ f < NumFiles + 1
  BY <1>2 DEF File
<1>4. Cost(f) \in Nat
  BY Sizes DEF RoomInv, TypeOK, Cost
<1> QED
  BY <1>1, <1>3, <1>4 DEF RoomInv, SumsAreTotals, TypeOK

\* What the space amounts to, in numbers.
LEMMA Numbers ==
    ASSUME RoomInv
    PROVE  /\ totals.bytes \in Nat /\ totals.largest \in Nat
           /\ Required(totals.bytes, totals.largest) \in Nat
           /\ free \in Nat /\ foreign \in Nat
<1>1. totals.bytes \in Nat /\ totals.largest \in Nat
  BY DEF RoomInv, TypeOK, NoTotals
<1> QED
  BY <1>1, Margins DEF RoomInv, TypeOK

\* Passing on to the next file keeps the room: the file was planned to take
\* what it took.
LEMMA RoomPassedOn ==
    ASSUME RoomInv, phase \in {"loop", "copy"}, pos \in File,
           phase' = "loop", pos' = pos + 1, UNCHANGED planVars, UNCHANGED foreign,
           free' \in Nat,
           free' >= free
    PROVE  RoomIsCounted'
<1>1. read' = read /\ totals' = totals /\ upTo' = upTo /\ plan' = plan
  BY DEF planVars
<1>2. Running
  BY DEF Running
<1>3. /\ upTo[pos] \in Nat /\ upTo[pos + 1] \in Nat /\ Cost(pos) \in Nat
      /\ upTo[pos + 1] = upTo[pos] + Cost(pos)
  BY Steps
<1>4. Used \in Nat /\ Used <= upTo[pos + 1]
  <2>1. CASE phase = "loop"
    BY <1>3, <2>1 DEF Used
  <2>2. CASE phase = "copy"
    <3>1. /\ Cost(pos) = Size[read[pos]] /\ read[pos] \in Content
          /\ partial[read[pos]] \in Nat /\ partial[read[pos]] <= Size[read[pos]]
      BY <2>2 DEF RoomInv, CopyIsPlanned, CopiesContent, TypeOK, Cost, SizeOf
    <3>2. Used = upTo[pos] + partial[read[pos]]
      BY <2>2 DEF Used
    <3> QED
      BY <1>3, <3>1, <3>2
  <2> QED
    BY <2>1, <2>2
<1>5. Used' = upTo[pos + 1]
  <2>1. Used' = upTo[pos + 1] + 0
    BY <1>1 DEF Used
  <2> QED
    BY <2>1, <1>3
<1>6. Required(totals.bytes, totals.largest)' = Required(totals.bytes, totals.largest)
  BY <1>1
<1>7. free + foreign + Used >= Required(totals.bytes, totals.largest)
  BY <1>2 DEF RoomInv, RoomIsCounted
<1>8. (free + foreign + Used)' >= Required(totals.bytes, totals.largest)
  <2> HIDE DEF Used
  <2>1. (free + foreign + Used)' = free' + foreign + upTo[pos + 1]
    BY <1>5
  <2> QED
    BY <2>1, <1>3, <1>4, <1>7, Numbers
<1>9. pos' \in 1..NumFiles + 1
  BY ConfigIsNatural DEF File
<1> QED
  BY <1>6, <1>8, <1>9 DEF RoomIsCounted

\* A step within a file keeps the room if it takes nothing that it does not
\* account for.
LEMMA RoomHeld ==
    ASSUME RoomInv, UNCHANGED planVars, Running => pos' = pos,
           Running' => Running, free' \in Nat, foreign' \in Nat, Used' \in Nat,
           Running => free' + foreign' + Used' >= free + foreign + Used,
           Running => Used \in Nat
    PROVE  RoomIsCounted'
<1> SUFFICES ASSUME Running'
             PROVE  /\ pos' \in 1..NumFiles + 1
                    /\ free' + foreign' + Used' >= Required(totals.bytes, totals.largest)'
  BY DEF RoomIsCounted
<1>1. pos \in 1..NumFiles + 1 /\ pos' = pos
      /\ free + foreign + Used >= Required(totals.bytes, totals.largest)
  BY DEF RoomInv, RoomIsCounted
<1>2. Required(totals.bytes, totals.largest)' = Required(totals.bytes, totals.largest)
  BY DEF planVars
<1> HIDE DEF Used
<1> QED
  BY <1>1, <1>2, Numbers

LEMMA UsedIsNatural ==
    ASSUME RoomInv, Running
    PROVE  Used \in Nat
<1>1. pos \in 1..NumFiles + 1
  BY DEF RoomInv, RoomIsCounted
<1>2. upTo[pos] \in Nat
  BY <1>1 DEF RoomInv, TypeOK
<1>3. phase = "copy" => partial[read[pos]] \in Nat
  BY DEF RoomInv, CopyIsPlanned, CopiesContent, TypeOK
<1> QED
  BY <1>2, <1>3 DEF Used

-----------------------------------------------------------------------------
(* The actions.                                                            *)

LEMMA ScanKeeps == RoomInv /\ Scan => RoomInv'
<1> SUFFICES ASSUME RoomInv, Scan PROVE RoomInv'
  OBVIOUS
<1>1. read' \in [File -> Content \union Mark]
  <2>1. PICK k \in Cards, bad \in SUBSET File :
            read' = [f \in File |-> Scanned(k[f], f \in bad)]
    BY DEF Scan
  <2>2. \A f \in File : Scanned(k[f], f \in bad) \in Content \union Mark
    <3> TAKE f \in File
    <3>1. k[f] \in Entry
      BY CardsHoldEntries
    <3>2. CASE f \in bad
      BY <3>1, <3>2 DEF Scanned, Entry, Mark
    <3>3. CASE f \notin bad
      BY <3>1, <3>3 DEF Scanned, Entry, Mark
    <3> QED
      BY <3>2, <3>3
  <2> QED
    BY <2>1, <2>2
<1>2. /\ phase' = "plan" /\ pos' = 1
      /\ plan' = [f \in File |-> "NONE"] /\ plan' \in [File -> Action]
      /\ upTo' = [j \in 1..NumFiles + 1 |-> 0] /\ upTo' \in [1..NumFiles + 1 -> Nat]
      /\ UNCHANGED <<free, foreign, partial, present, verified, jobs, crashes>>
      /\ attempts' = 0
  BY DEF Scan, storeVars, boundVars, Action
<1>3. /\ totals' \in [DOMAIN NoTotals -> Nat] /\ totals'.bytes = 0
      /\ tally' \in [DOMAIN NoTally -> Nat]
  BY DEF Scan, NoTotals, NoTally
<1>4. TypeOK'
  BY <1>1, <1>2, <1>3 DEF RoomInv, TypeOK
<1>5. SumsAreTotals'
  <2>1. Frontier' = 1 /\ 1 \in File /\ 1 \in 1..NumFiles + 1
    BY <1>2, ConfigIsNatural DEF Frontier, File
  <2>2. \A f \in File : ~(f < 1)
    BY DEF File
  <2>3. \A j \in 1..1 : j = 1
    OBVIOUS
  <2>4. upTo'[1] = 0
    BY <1>2, <2>1
  <2> QED
    BY <1>2, <1>3, <2>1, <2>2, <2>3, <2>4 DEF SumsAreTotals
<1> QED
  BY <1>2, <1>4, <1>5
  DEF RoomInv, CopiesContent, CopyIsPlanned, RoomIsCounted, Running

LEMMA PlanFileKeeps == RoomInv /\ PlanFile => RoomInv'
<1> SUFFICES ASSUME RoomInv, PlanFile PROVE RoomInv'
  OBVIOUS
<1> DEFINE a == ActionFor(read[pos])
<1>1. /\ phase = "plan" /\ pos \in File /\ pos' = pos + 1
      /\ plan' = [plan EXCEPT ![pos] = a]
      /\ totals' = Counted(totals, read[pos], a)
      /\ upTo' = [upTo EXCEPT ![pos + 1] = totals'.bytes]
      /\ phase' = IF pos = NumFiles THEN "measure" ELSE "plan"
      /\ UNCHANGED <<read, free, foreign, partial, present, verified, attempts, tally,
                     jobs, crashes>>
  BY DEF PlanFile, storeVars, boundVars
<1>2. read[pos] \in Content \union Mark
  BY <1>1 DEF RoomInv, TypeOK
<1>3. /\ a \in Action /\ SizeOf(read[pos]) \in Nat
      /\ a = "COPY_VERIFY_OBJECT_AND_LINK" => read[pos] \in Content
  BY <1>2, Sizes
<1>4. /\ totals' \in [DOMAIN NoTotals -> Nat]
      /\ totals'.bytes = totals.bytes
            + (IF a = "COPY_VERIFY_OBJECT_AND_LINK" THEN SizeOf(read[pos]) ELSE 0)
  BY <1>1, <1>2, CountedIsNatural DEF RoomInv, TypeOK
<1> HIDE DEF a
<1>5. /\ NumFiles \in Nat /\ pos \in Nat /\ pos <= NumFiles /\ 1 <= pos
      /\ pos + 1 \in 1..NumFiles + 1
  BY <1>1, ConfigIsNatural DEF File
<1>6. totals.bytes \in Nat /\ totals'.bytes \in Nat /\ totals.bytes <= totals'.bytes
  <2>1. totals.bytes \in Nat /\ totals'.bytes \in Nat
    BY <1>4 DEF RoomInv, TypeOK, NoTotals
  <2> QED
    BY <2>1, <1>3, <1>4
<1>7. TypeOK'
  <2>1. plan' \in [File -> Action]
    BY <1>1, <1>3 DEF RoomInv, TypeOK
  <2>2. upTo' \in [1..NumFiles + 1 -> Nat]
    BY <1>1, <1>5, <1>6 DEF RoomInv, TypeOK
  <2>3. pos' \in Nat /\ phase' \in {"plan", "measure"}
    BY <1>1, <1>5
  <2> QED
    BY <1>1, <1>4, <2>1, <2>2, <2>3 DEF RoomInv, TypeOK
<1>8. CopiesContent'
  BY <1>1, <1>3 DEF RoomInv, CopiesContent, TypeOK
<1>9. SumsAreTotals'
  <2>1. Planned /\ Frontier = pos
    BY <1>1 DEF Planned, Frontier
  <2>2. Frontier' = pos + 1
    BY <1>1, <1>5 DEF Frontier
  <2>3. /\ upTo[1] = 0 /\ upTo[pos] = totals.bytes
        /\ \A f \in File : f < pos => upTo[f + 1] = upTo[f] + Cost(f)
        /\ \A j \in 1..pos : upTo[j] <= totals.bytes
    BY <2>1 DEF RoomInv, SumsAreTotals
  <2>4. \A j \in 1..NumFiles + 1 :
            upTo'[j] = IF j = pos + 1 THEN totals'.bytes ELSE upTo[j]
    BY <1>1 DEF RoomInv, TypeOK
  <2>5. \A f \in File : f < pos => Cost(f)' = Cost(f)
    BY <1>1, <1>5 DEF Cost, SizeOf, File, RoomInv, TypeOK
  <2>6. \A f \in File : f = pos =>
            Cost(f)' = IF a = "COPY_VERIFY_OBJECT_AND_LINK" THEN SizeOf(read[pos]) ELSE 0
    BY <1>1 DEF Cost, SizeOf, RoomInv, TypeOK
  <2>7. ASSUME NEW f \in File, f < pos + 1
        PROVE  upTo'[f + 1] = upTo'[f] + Cost(f)'
    <3>1. f \in 1..NumFiles + 1 /\ f + 1 \in 1..NumFiles + 1 /\ f # pos + 1
          /\ (f < pos \/ f = pos)
      BY <1>5, <2>7 DEF File
    <3>2. CASE f < pos
      <4>1. f + 1 # pos + 1
        BY <1>5, <3>2 DEF File
      <4> QED
        BY <2>3, <2>4, <2>5, <3>1, <3>2, <4>1
    <3>3. CASE f = pos
      BY <1>4, <2>3, <2>4, <2>6, <3>1, <3>3
    <3> QED
      BY <3>1, <3>2, <3>3
  <2>8. ASSUME NEW j \in 1..pos + 1
        PROVE  upTo'[j] <= totals'.bytes
    <3>1. j \in 1..NumFiles + 1 /\ (j = pos + 1 \/ j \in 1..pos)
      BY <1>5
    <3>2. CASE j = pos + 1
      BY <1>6, <2>4, <3>1, <3>2
    <3>3. CASE j \in 1..pos
      <4>1. upTo[j] \in Nat /\ upTo[j] <= totals.bytes /\ j # pos + 1
        BY <1>5, <2>3, <3>1, <3>3 DEF RoomInv, TypeOK
      <4> QED
        BY <1>6, <2>4, <3>1, <4>1
    <3> QED
      BY <3>1, <3>2, <3>3
  <2>9. upTo'[1] = 0 /\ upTo'[pos + 1] = totals'.bytes
    BY <1>5, <2>3, <2>4
  <2>10. phase' = "plan" => pos' \in File
    BY <1>1, <1>5 DEF File
  <2> QED
    BY <2>2, <2>7, <2>8, <2>9, <2>10 DEF SumsAreTotals
<1> QED
  BY <1>1, <1>7, <1>8, <1>9
  DEF RoomInv, CopyIsPlanned, RoomIsCounted, Running

LEMMA MeasureKeeps == RoomInv /\ Measure => RoomInv'
<1> SUFFICES ASSUME RoomInv, Measure PROVE RoomInv'
  OBVIOUS
<1>1. /\ phase = "measure" /\ foreign' = 0
      /\ UNCHANGED <<read, plan, totals, upTo, free, partial, present, verified, attempts,
                     tally, crashes>>
      /\ jobs' = jobs + 1
  BY DEF Measure, planVars, storeVars
<1>2. \/ phase' = "idle" /\ pos' = 0
      \/ ~Blocked /\ phase' = "loop" /\ pos' = 1
  BY DEF Measure
<1>3. TypeOK'
  BY <1>1, <1>2 DEF RoomInv, TypeOK
<1>4. CopiesContent' /\ SumsAreTotals'
  BY <1>1, <1>2, PlanStands DEF planVars
<1>5. RoomIsCounted'
  <2> SUFFICES ASSUME ~Blocked, phase' = "loop", pos' = 1
               PROVE  RoomIsCounted'
    BY <1>2 DEF RoomIsCounted, Running
  <2>1. free >= Required(totals.bytes, totals.largest)
    BY DEF Blocked, Sufficient
  <2>2. upTo[1] = 0
    BY <1>1 DEF RoomInv, SumsAreTotals, Planned
  <2>3. Used' = 0
    BY <1>1, <2>2 DEF Used
  <2>4. (free + foreign + Used)' = free
    BY <1>1, <2>3, Numbers
  <2>5. Required(totals.bytes, totals.largest)' = Required(totals.bytes, totals.largest)
    BY <1>1
  <2>6. 1 \in 1..NumFiles + 1
    BY ConfigIsNatural
  <2> QED
    BY <2>1, <2>4, <2>5, <2>6 DEF RoomIsCounted
<1> QED
  BY <1>2, <1>3, <1>4, <1>5 DEF RoomInv, CopyIsPlanned

-----------------------------------------------------------------------------
(* The steps of a job.                                                     *)

\* Whatever a file came to, passing on to the next one keeps the invariant.
LEMMA PassedOn ==
    ASSUME RoomInv, phase \in {"loop", "copy"}, pos \in File,
           phase' = "loop", pos' = pos + 1, UNCHANGED planVars,
           UNCHANGED <<foreign, boundVars>>, free' \in Nat, free' >= free,
           attempts' \in Nat, tally' \in [DOMAIN NoTally -> Nat],
           partial' \in [Content -> Nat], present' \subseteq Content,
           verified' \subseteq present'
    PROVE  RoomInv'
<1>1. RoomIsCounted'
  BY RoomPassedOn
<1>2. CopiesContent' /\ SumsAreTotals'
  BY PlanStands
<1>3. pos' \in Nat
  BY ConfigIsNatural DEF File
<1>4. TypeOK'
  BY <1>3 DEF RoomInv, TypeOK, planVars, boundVars
<1> QED
  BY <1>1, <1>2, <1>4 DEF RoomInv, CopyIsPlanned

LEMMA NextFileKeeps ==
    ASSUME RoomInv, phase \in {"loop", "copy"}, pos \in File,
           NEW t \in [DOMAIN NoTally -> Nat], NextFile(t), UNCHANGED planVars,
           UNCHANGED <<foreign, boundVars>>, free' \in Nat, free' >= free,
           partial' \in [Content -> Nat], present' \subseteq Content,
           verified' \subseteq present'
    PROVE  RoomInv'
<1>1. SizeOf(Here) \in Nat
  <2>1. read[pos] \in Content \union Mark
    BY DEF RoomInv, TypeOK
  <2> QED
    BY <2>1, Sizes DEF Here
<1>2. /\ phase' = "loop" /\ pos' = pos + 1 /\ attempts' = 0
      /\ tally' = [t EXCEPT !.done = @ + 1, !.bytesDone = @ + SizeOf(Here)]
  BY DEF NextFile
<1>3. tally' \in [DOMAIN NoTally -> Nat]
  BY <1>1, <1>2, TallyIsNatural
<1>4. attempts' \in Nat
  BY <1>2
<1> QED
  BY <1>2, <1>3, <1>4, PassedOn

LEMMA FailedByErrorKeeps ==
    ASSUME RoomInv, phase \in {"loop", "copy"}, pos \in File,
           FailedByError, UNCHANGED planVars,
           UNCHANGED <<free, foreign, boundVars>>,
           partial' \in [Content -> Nat], present' \subseteq Content,
           verified' \subseteq present'
    PROVE  RoomInv'
<1>1. /\ phase' = "loop" /\ pos' = pos + 1 /\ attempts' = 0
      /\ tally' = [tally EXCEPT !.failed = @ + 1]
  BY DEF FailedByError
<1>2. tally \in [DOMAIN NoTally -> Nat] /\ free \in Nat /\ free' = free
  BY DEF RoomInv, TypeOK
<1>3. tally' \in [DOMAIN NoTally -> Nat]
  BY <1>1, <1>2, TallyIsNatural
<1>4. attempts' \in Nat /\ free' \in Nat /\ free' >= free
  BY <1>1, <1>2
<1> QED
  BY <1>1, <1>3, <1>4, PassedOn

\* The content at hand, while its copy is planned.
LEMMA AtHand ==
    ASSUME RoomInv, phase = "copy" \/ Copying
    PROVE  /\ pos \in File /\ Here \in Content /\ partial[Here] \in Nat
           /\ Size[Here] \in Nat
<1>1. pos \in File /\ plan[pos] = "COPY_VERIFY_OBJECT_AND_LINK"
  BY DEF RoomInv, CopyIsPlanned, Copying, AtFile
<1>2. Here \in Content
  BY <1>1 DEF RoomInv, CopiesContent, Here
<1> QED
  BY <1>1, <1>2, SizesAreNatural DEF RoomInv, TypeOK

LEMMA LinkStepsKeep ==
    ASSUME RoomInv, NoEntry \/ SkipUnsupported \/ Link \/ LinkFails \/ CopyPresent
    PROVE  RoomInv'
<1>1. /\ free \in Nat /\ free >= free /\ partial \in [Content -> Nat]
      /\ present \subseteq Content /\ verified \subseteq present
      /\ tally \in [DOMAIN NoTally -> Nat] /\ attempts \in Nat
  BY DEF RoomInv, TypeOK
<1>2. CASE NoEntry
  <2>1. /\ phase = "loop" /\ pos \in File /\ phase' = "loop" /\ pos' = pos + 1
        /\ UNCHANGED <<planVars, free, foreign, storeVars, attempts, tally, boundVars>>
    BY <1>2 DEF NoEntry, AtFile
  <2> QED
    BY <1>1, <2>1, PassedOn DEF storeVars
<1>3. CASE SkipUnsupported
  <2>1. /\ phase = "loop" /\ pos \in File /\ NextFile(tally)
        /\ UNCHANGED <<planVars, free, foreign, storeVars, boundVars>>
    BY <1>3 DEF SkipUnsupported, AtFile
  <2> QED
    BY <1>1, <2>1, NextFileKeeps DEF storeVars
<1>4. CASE Link
  <2>1. /\ phase = "loop" /\ pos \in File
        /\ UNCHANGED <<planVars, free, foreign, partial, present, boundVars>>
    BY <1>4 DEF Link, Linking, AtFile
  <2> DEFINE n == One(plan[pos] = "LINK_EXISTING_VERIFIED_OBJECT")
  <2>2. n \in Nat
    BY DEF One
  <2> HIDE DEF n
  <2>3. /\ Here \in present /\ verified' = verified \union {Here}
        /\ NextFile([tally EXCEPT !.verified = @ + 1, !.skipped = @ + n])
    BY <1>4 DEF Link, n
  <2>4. [tally EXCEPT !.verified = @ + 1, !.skipped = @ + n] \in [DOMAIN NoTally -> Nat]
    BY <1>1, <2>2, TallyIsNatural
  <2>5. verified' \subseteq present
    BY <1>1, <2>3
  <2> QED
    BY <1>1, <2>1, <2>3, <2>4, <2>5, NextFileKeeps
<1>5. CASE CopyPresent
  <2>1. /\ phase = "loop" /\ pos \in File /\ Here \in present
        /\ verified' = verified \union {Here}
        /\ NextFile([tally EXCEPT !.verified = @ + 1, !.copied = @ + 1])
        /\ UNCHANGED <<planVars, free, foreign, partial, present, boundVars>>
    BY <1>5 DEF CopyPresent, Copying, AtFile
  <2>2. [tally EXCEPT !.verified = @ + 1, !.copied = @ + 1] \in [DOMAIN NoTally -> Nat]
    BY <1>1, TallyIsNatural
  <2>3. verified' \subseteq present
    BY <1>1, <2>1
  <2> QED
    BY <1>1, <2>1, <2>2, <2>3, NextFileKeeps
<1>6. CASE LinkFails
  <2>1. /\ phase = "loop" /\ pos \in File
        /\ NextFile([tally EXCEPT !.failed = @ + 1])
        /\ UNCHANGED <<planVars, free, foreign, storeVars, boundVars>>
    BY <1>6 DEF LinkFails, Linking, AtFile
  <2>2. [tally EXCEPT !.failed = @ + 1] \in [DOMAIN NoTally -> Nat]
    BY <1>1, TallyIsNatural
  <2> QED
    BY <1>1, <2>1, <2>2, NextFileKeeps DEF storeVars
<1> QED
  BY <1>2, <1>3, <1>4, <1>5, <1>6

LEMMA FinalizeStepsKeep ==
    ASSUME RoomInv, Finalize \/ FinalizeRaises \/ CopyRaises
    PROVE  RoomInv'
<1>1. /\ free \in Nat /\ free >= free /\ partial \in [Content -> Nat]
      /\ present \subseteq Content /\ verified \subseteq present
      /\ tally \in [DOMAIN NoTally -> Nat]
  BY DEF RoomInv, TypeOK
<1>2. pos \in File /\ Here \in Content /\ Size[Here] \in Nat /\ phase \in {"loop", "copy"}
  <2>1. phase = "copy" \/ Copying
    BY DEF Finalize, FinalizeRaises, CopyRaises, Complete
  <2>2. phase \in {"loop", "copy"}
    BY <2>1 DEF Copying, AtFile
  <2> QED
    BY <2>1, <2>2, AtHand
<1>3. ASSUME Renamed
      PROVE  /\ partial' \in [Content -> Nat] /\ present' \subseteq Content
             /\ verified \subseteq present' /\ verified \union {Here} \subseteq present'
  BY <1>1, <1>2, <1>3 DEF Renamed
<1>4. CASE Finalize
  <2>1. /\ Renamed /\ verified' = verified \union {Here}
        /\ NextFile([tally EXCEPT !.verified = @ + 1, !.copied = @ + 1,
                                  !.bytes = @ + Size[Here]])
        /\ UNCHANGED <<planVars, free, foreign, boundVars>>
    BY <1>4 DEF Finalize
  <2>2. [tally EXCEPT !.verified = @ + 1, !.copied = @ + 1, !.bytes = @ + Size[Here]]
          \in [DOMAIN NoTally -> Nat]
    BY <1>1, <1>2, TallyIsNatural
  <2> QED
    BY <1>1, <1>2, <1>3, <2>1, <2>2, NextFileKeeps
<1>5. CASE FinalizeRaises
  <2>1. /\ Renamed /\ FailedByError
        /\ UNCHANGED <<planVars, free, foreign, verified, boundVars>>
    BY <1>5 DEF FinalizeRaises
  <2> QED
    BY <1>1, <1>2, <1>3, <2>1, FailedByErrorKeeps
<1>6. CASE CopyRaises
  <2>1. FailedByError /\ UNCHANGED <<planVars, free, foreign, storeVars, boundVars>>
    BY <1>6 DEF CopyRaises
  <2> QED
    BY <1>1, <1>2, <2>1, FailedByErrorKeeps DEF storeVars
<1> QED
  BY <1>4, <1>5, <1>6

\* Removing a partial gives its bytes back.
LEMMA Removed ==
    ASSUME RoomInv, phase = "copy" \/ Copying, PartialGone
    PROVE  /\ partial' \in [Content -> Nat] /\ partial'[Here] = 0
           /\ free' = free + partial[Here] /\ free' \in Nat /\ free' >= free
<1>1. /\ pos \in File /\ Here \in Content /\ partial[Here] \in Nat
      /\ free \in Nat /\ partial \in [Content -> Nat]
  BY AtHand DEF RoomInv, TypeOK
<1>2. free' = free + partial[Here] /\ partial' = [partial EXCEPT ![Here] = 0]
  BY DEF PartialGone
<1> QED
  BY <1>1, <1>2

\* Within a file: what the partial gains is what the disk loses.
LEMMA AttemptKeeps ==
    ASSUME RoomInv, UNCHANGED planVars, UNCHANGED <<pos, foreign, present, verified, tally>>,
           UNCHANGED boundVars, pos \in File,
           plan[pos] = "COPY_VERIFY_OBJECT_AND_LINK",
           phase \in {"loop", "copy"}, phase' = "copy", attempts' \in Nat,
           free' \in Nat, partial' \in [Content -> Nat],
           partial'[Here] <= Size[Here],
           free' + partial'[Here] >= free + (IF phase = "copy" THEN partial[Here] ELSE 0)
    PROVE  RoomInv'
<1>1. read' = read /\ plan' = plan /\ totals' = totals /\ upTo' = upTo
  BY DEF planVars
<1>2. /\ Here \in Content /\ partial[Here] \in Nat /\ partial'[Here] \in Nat
      /\ Here' = Here /\ Size[Here] \in Nat
  <2>1. Here \in Content
    BY DEF RoomInv, CopiesContent, Here
  <2>2. Here' = Here
    BY <1>1 DEF Here
  <2> QED
    BY <2>1, <2>2, SizesAreNatural DEF RoomInv, TypeOK
<1>3. TypeOK'
  BY <1>1 DEF RoomInv, TypeOK, boundVars
<1>4. CopiesContent' /\ SumsAreTotals'
  BY PlanStands
<1>5. CopyIsPlanned'
  <2>1. partial'[read'[pos']] <= Size[read'[pos']]
    BY <1>1 DEF Here
  <2> QED
    BY <1>1, <2>1 DEF CopyIsPlanned
<1>6. RoomIsCounted'
  <2>1. Running /\ Running'
    BY DEF Running
  <2>2. upTo[pos] \in Nat
    BY Steps
  <2>3. Used = upTo[pos] + (IF phase = "copy" THEN partial[Here] ELSE 0)
    BY DEF Used, Here
  <2>4. Used' = upTo[pos] + partial'[Here]
    BY <1>1, <1>2 DEF Used, Here
  <2>5. free \in Nat /\ foreign \in Nat /\ foreign' = foreign
    BY DEF RoomInv, TypeOK
  <2>6. Used \in Nat /\ Used' \in Nat
    BY <1>2, <2>2, <2>3, <2>4
  <2>7. free' + foreign' + Used' >= free + foreign + Used
    <3> DEFINE u == IF phase = "copy" THEN partial[Here] ELSE 0
    <3>1. u \in Nat /\ free' + partial'[Here] >= free + u
      BY <1>2
    <3> HIDE DEF u
    <3>2. Used = upTo[pos] + u
      BY <2>3 DEF u
    <3> QED
      BY <1>2, <2>2, <2>4, <2>5, <3>1, <3>2
  <2> QED
    BY <2>1, <2>5, <2>6, <2>7, RoomHeld
<1> QED
  BY <1>3, <1>4, <1>5, <1>6 DEF RoomInv

LEMMA CopyStepsKeep ==
    ASSUME RoomInv, BeginCopy \/ WriteByte \/ Mismatch
    PROVE  RoomInv'
<1>1. /\ free \in Nat /\ partial \in [Content -> Nat] /\ present \subseteq Content
      /\ verified \subseteq present /\ tally \in [DOMAIN NoTally -> Nat]
      /\ attempts \in Nat
  BY DEF RoomInv, TypeOK
<1>2. phase = "copy" \/ Copying
  BY DEF BeginCopy, WriteByte, Mismatch
<1>3. /\ pos \in File /\ Here \in Content /\ partial[Here] \in Nat /\ Size[Here] \in Nat
      /\ plan[pos] = "COPY_VERIFY_OBJECT_AND_LINK" /\ phase \in {"loop", "copy"}
  BY <1>2, AtHand DEF Copying, AtFile, RoomInv, CopyIsPlanned
<1>4. CASE BeginCopy
  <2>1. /\ phase = "loop" /\ phase' = "copy" /\ attempts' = 1 /\ PartialGone
        /\ UNCHANGED <<pos, planVars, foreign, present, verified, tally, boundVars>>
    BY <1>4 DEF BeginCopy, Copying, AtFile
  <2>2. /\ partial' \in [Content -> Nat] /\ partial'[Here] = 0
        /\ free' \in Nat /\ free' >= free
    BY <1>2, <2>1, Removed
  <2>3. /\ partial'[Here] <= Size[Here] /\ attempts' \in Nat
        /\ free' + partial'[Here] >= free + (IF phase = "copy" THEN partial[Here] ELSE 0)
    <3>1. (IF phase = "copy" THEN partial[Here] ELSE 0) = 0
      BY <2>1
    <3>2. attempts' \in Nat /\ partial'[Here] <= Size[Here]
      <4>1. attempts' \in Nat
        BY <2>1
      <4>2. 0 <= Size[Here]
        BY <1>3
      <4> QED
        BY <2>2, <4>1, <4>2
    <3>3. free' + partial'[Here] >= free + 0
      <4>1. \A x, y \in Nat : x >= y => x + 0 >= y + 0
        OBVIOUS
      <4>2. free' \in Nat /\ free' >= free /\ free \in Nat /\ partial'[Here] = 0
        BY <1>1, <2>2
      <4> QED
        BY <4>1, <4>2, Zenon
    <3> QED
      BY <3>1, <3>2, <3>3
  <2> QED
    BY <1>3, <2>1, <2>2, <2>3, AttemptKeeps
<1>5. CASE WriteByte
  <2>1. /\ phase = "copy" /\ phase' = "copy" /\ partial[Here] < Size[Here] /\ free > 0
        /\ partial' = [partial EXCEPT ![Here] = @ + 1] /\ free' = free - 1
        /\ UNCHANGED <<pos, planVars, foreign, present, verified, attempts, tally,
                       boundVars>>
    BY <1>5 DEF WriteByte
  <2>2. /\ partial' \in [Content -> Nat] /\ partial'[Here] = partial[Here] + 1
        /\ free' \in Nat
    BY <1>1, <1>3, <2>1
  <2>3. /\ partial'[Here] <= Size[Here] /\ attempts' \in Nat
        /\ free' + partial'[Here] >= free + (IF phase = "copy" THEN partial[Here] ELSE 0)
    BY <1>1, <1>3, <2>1, <2>2
  <2> QED
    BY <1>3, <2>1, <2>2, <2>3, AttemptKeeps
<1>6. CASE Mismatch
  <2>1. /\ phase = "copy" /\ PartialGone
        /\ UNCHANGED <<planVars, foreign, present, verified, boundVars>>
    BY <1>6 DEF Mismatch
  <2>2. /\ partial' \in [Content -> Nat] /\ partial'[Here] = 0
        /\ free' = free + partial[Here] /\ free' \in Nat /\ free' >= free
    BY <1>2, <2>1, Removed
  <2>3. CASE attempts' = attempts + 1 /\ UNCHANGED <<phase, pos, tally>>
    <3>1. /\ partial'[Here] <= Size[Here] /\ attempts' \in Nat
          /\ free' + partial'[Here]
               >= free + (IF phase = "copy" THEN partial[Here] ELSE 0)
      BY <1>1, <1>3, <2>1, <2>2, <2>3
    <3> QED
      BY <1>3, <2>1, <2>2, <2>3, <3>1, AttemptKeeps
  <2>4. CASE NextFile([tally EXCEPT !.failed = @ + 1])
    <3>1. [tally EXCEPT !.failed = @ + 1] \in [DOMAIN NoTally -> Nat]
      BY <1>1, TallyIsNatural
    <3> QED
      BY <1>1, <1>3, <2>1, <2>2, <2>4, <3>1, NextFileKeeps
  <2> QED
    BY <1>6, <2>3, <2>4 DEF Mismatch
<1> QED
  BY <1>4, <1>5, <1>6

-----------------------------------------------------------------------------
(* Leaving a job, and the environment.                                     *)

LEMMA EndsKeep ==
    ASSUME RoomInv, WorkerRaises \/ EndJob
    PROVE  RoomInv'
<1>1. CASE WorkerRaises
  <2>1. /\ phase \in {"loop", "copy"} /\ phase' = "stuck"
        /\ UNCHANGED <<pos, planVars, free, foreign, attempts, tally, boundVars>>
    BY <1>1 DEF WorkerRaises
  <2>2. /\ partial' \in [Content -> Nat] /\ present' \subseteq Content
        /\ verified' \subseteq present'
    <3>1. CASE UNCHANGED storeVars
      BY <3>1 DEF storeVars, RoomInv, TypeOK
    <3>2. CASE Complete /\ Renamed /\ verified' \in {verified, verified \union {Here}}
      <4>1. Here \in Content
        BY <3>2, AtHand DEF Complete
      <4> QED
        BY <3>2, <4>1 DEF Renamed, RoomInv, TypeOK
    <3>3. CASE /\ Here \in present /\ verified' = verified \union {Here}
               /\ UNCHANGED <<partial, present>>
      BY <3>3 DEF RoomInv, TypeOK
    <3> QED
      BY <1>1, <3>1, <3>2, <3>3 DEF WorkerRaises
  <2>3. CopiesContent' /\ SumsAreTotals'
    BY <2>1, PlanStands
  <2>4. TypeOK'
    BY <2>1, <2>2 DEF RoomInv, TypeOK, planVars, boundVars
  <2> QED
    BY <2>1, <2>3, <2>4 DEF RoomInv, CopyIsPlanned, RoomIsCounted, Running
<1>2. CASE EndJob
  <2>1. /\ phase = "loop" /\ phase' = "done"
        /\ UNCHANGED <<pos, planVars, free, foreign, storeVars, attempts, tally, boundVars>>
    BY <1>2 DEF EndJob
  <2>2. CopiesContent' /\ SumsAreTotals'
    BY <2>1, PlanStands
  <2>3. TypeOK'
    BY <2>1 DEF RoomInv, TypeOK, planVars, storeVars, boundVars
  <2>4. RoomIsCounted'
    <3>1. Running /\ Running'
      BY <2>1 DEF Running
    <3>2. Used' = Used
      BY <2>1 DEF Used, planVars
    <3> QED
      BY <2>1, <3>1, <3>2 DEF RoomInv, RoomIsCounted, planVars, Required,
         OperationalReserve, SafetyMargin
  <2> QED
    BY <2>1, <2>2, <2>3, <2>4 DEF RoomInv, CopyIsPlanned
<1> QED
  BY <1>1, <1>2

LEMMA OthersWriteKeeps ==
    ASSUME RoomInv, OthersWrite
    PROVE  RoomInv'
<1>1. /\ free > 0 /\ free' = free - 1 /\ foreign' = foreign + 1
      /\ UNCHANGED <<phase, pos, planVars, storeVars, attempts, tally, boundVars>>
  BY DEF OthersWrite
<1>2. free' \in Nat /\ foreign' \in Nat /\ free' + foreign' = free + foreign
  BY <1>1 DEF RoomInv, TypeOK
<1>3. CopiesContent' /\ SumsAreTotals'
  BY <1>1, PlanStands
<1>4. TypeOK'
  BY <1>1, <1>2 DEF RoomInv, TypeOK, planVars, storeVars, boundVars
<1>5. CopyIsPlanned'
  BY <1>1 DEF RoomInv, CopyIsPlanned, planVars, storeVars
<1>6. RoomIsCounted'
  <2>1. Used' = Used
    BY <1>1 DEF Used, planVars, storeVars
  <2>2. Running' = Running
    BY <1>1 DEF Running
  <2>3. Running => /\ Used \in Nat
                   /\ free' + foreign' + Used >= free + foreign + Used
    <3> SUFFICES ASSUME Running PROVE /\ Used \in Nat
                                      /\ free' + foreign' + Used >= free + foreign + Used
      OBVIOUS
    <3>1. Used \in Nat
      BY UsedIsNatural
    <3> HIDE DEF Used
    <3> QED
      BY <1>1, <1>2, <3>1 DEF RoomInv, TypeOK
  <2>4. CASE Running
    <3>1. Used' \in Nat /\ Used \in Nat
      BY <2>1, <2>3, <2>4
    <3>2. free' + foreign' + Used' >= free + foreign + Used
      BY <2>1, <2>3, <2>4
    <3> QED
      BY <1>1, <1>2, <2>2, <3>1, <3>2, RoomHeld
  <2>5. CASE ~Running
    BY <2>2, <2>5 DEF RoomIsCounted
  <2> QED
    BY <2>4, <2>5
<1> QED
  BY <1>3, <1>4, <1>5, <1>6 DEF RoomInv

LEMMA RestartKeeps ==
    ASSUME RoomInv, Restart \/ (\E c \in Content : RemoveOrphan(c)) \/ Serve
    PROVE  RoomInv'
<1>1. phase' \in {"recover", "idle"} /\ UNCHANGED planVars
  BY DEF Restart, RemoveOrphan, Serve
<1>2. CopiesContent' /\ SumsAreTotals'
  BY <1>1, PlanStands
<1>3. TypeOK'
  <2>1. CASE Restart
    <3>1. PICK kept \in SUBSET {c \in Content \ present : partial[c] = Size[c]} :
              /\ present' = present \union kept /\ verified' = present'
              /\ partial' = [c \in Content |-> IF c \in kept THEN 0 ELSE partial[c]]
      BY <2>1 DEF Restart
    <3>2. /\ pos' = 0 /\ attempts' = 0 /\ tally' = NoTally /\ crashes' = crashes + 1
          /\ UNCHANGED <<planVars, free, foreign, jobs>>
      BY <2>1 DEF Restart
    <3>3. /\ partial' \in [Content -> Nat] /\ present' \subseteq Content
          /\ verified' \subseteq present'
      BY <3>1 DEF RoomInv, TypeOK
    <3>4. tally' \in [DOMAIN NoTally -> Nat]
      BY <3>2 DEF NoTally
    <3> QED
      BY <1>1, <3>2, <3>3, <3>4 DEF RoomInv, TypeOK, planVars
  <2>2. ASSUME NEW c \in Content, RemoveOrphan(c)
        PROVE  TypeOK'
    <3>1. /\ partial' = [partial EXCEPT ![c] = 0] /\ free' = free + partial[c]
          /\ UNCHANGED <<phase, pos, planVars, foreign, present, verified, attempts,
                         tally, boundVars>>
      BY <2>2 DEF RemoveOrphan
    <3>2. partial' \in [Content -> Nat] /\ free' \in Nat
      BY <3>1 DEF RoomInv, TypeOK
    <3> QED
      BY <3>1, <3>2 DEF RoomInv, TypeOK, planVars, boundVars
  <2>3. CASE Serve
    BY <2>3 DEF Serve, RoomInv, TypeOK, planVars, storeVars, boundVars
  <2> QED
    BY <2>1, <2>2, <2>3
<1> QED
  BY <1>1, <1>2, <1>3 DEF RoomInv, CopyIsPlanned, RoomIsCounted, Running

LEMMA NextKeepsRoom == RoomInv /\ [Next]_vars => RoomInv'
<1> SUFFICES ASSUME RoomInv, [Next]_vars PROVE RoomInv'
  OBVIOUS
<1>1. CASE Scan
  BY <1>1, ScanKeeps
<1>2. CASE PlanFile
  BY <1>2, PlanFileKeeps
<1>3. CASE Measure
  BY <1>3, MeasureKeeps
<1>4. CASE JobStep
  BY <1>4, LinkStepsKeep, FinalizeStepsKeep, CopyStepsKeep, EndsKeep DEF JobStep
<1>5. CASE OthersWrite
  BY <1>5, OthersWriteKeeps
<1>6. CASE Restart \/ (\E c \in Content : RemoveOrphan(c)) \/ Serve
  BY <1>6, RestartKeeps
<1>7. CASE UNCHANGED vars
  <2>1. /\ UNCHANGED <<phase, pos, planVars, free, foreign, storeVars>>
        /\ UNCHANGED <<attempts, tally, boundVars>>
    BY <1>7 DEF vars
  <2>2. CopiesContent' /\ SumsAreTotals'
    BY <2>1, PlanStands
  <2>3. TypeOK'
    BY <2>1 DEF RoomInv, TypeOK, planVars, storeVars, boundVars
  <2>4. CopyIsPlanned'
    BY <2>1 DEF RoomInv, CopyIsPlanned, planVars, storeVars
  <2>5. RoomIsCounted'
    BY <2>1 DEF RoomInv, RoomIsCounted, Used, Running, Required, OperationalReserve,
                SafetyMargin, planVars, storeVars
  <2> QED
    BY <2>2, <2>3, <2>4, <2>5 DEF RoomInv
<1> QED
  BY <1>1, <1>2, <1>3, <1>4, <1>5, <1>6, <1>7 DEF Next

-----------------------------------------------------------------------------
(* The theorems.                                                           *)

\* The inductive invariant holds of every behaviour of preflight and job.
THEOREM RoomInvariant == Spec => []RoomInv
<1>1. Init => RoomInv
  BY InitRoom
<1>2. RoomInv /\ [Next]_vars => RoomInv'
  BY NextKeepsRoom
<1> QED
  BY <1>1, <1>2, PTL DEF Spec

\* The state of preflight, plan and job is well-formed, and the manifest never
\* holds a content that has no object.
THEOREM PreflightTypeCorrect == Spec => []TypeOK
<1>1. RoomInv => TypeOK
  BY DEF RoomInv
<1> QED
  BY <1>1, RoomInvariant, PTL

\* An accepted job leaves the reserve and the margin alone, for every card,
\* every configuration and every course of errors, retries and crashes.
THEOREM AcceptedJobKeepsRoom == Spec => []RoomIsKept
<1>1. RoomInv => RoomIsKept
  <2> SUFFICES ASSUME RoomInv, Running
               PROVE  free + foreign
                        >= OperationalReserve(totals.largest) + SafetyMargin
    BY DEF RoomIsKept
  <2>1. pos \in 1..NumFiles + 1
        /\ free + foreign + Used >= Required(totals.bytes, totals.largest)
    BY DEF RoomInv, RoomIsCounted
  <2>2. Used \in Nat /\ Used <= totals.bytes
    <3>1. Used \in Nat
      BY UsedIsNatural
    <3>2. CASE phase = "copy"
      <4>1. /\ pos \in File /\ plan[pos] = "COPY_VERIFY_OBJECT_AND_LINK"
            /\ partial[read[pos]] <= Size[read[pos]] /\ read[pos] \in Content
            /\ partial[read[pos]] \in Nat /\ Size[read[pos]] \in Nat
        BY <3>2, SizesAreNatural DEF RoomInv, CopyIsPlanned, CopiesContent, TypeOK
      <4>2. Cost(pos) = Size[read[pos]]
        BY <4>1 DEF Cost, SizeOf
      <4>3. /\ upTo[pos] \in Nat /\ upTo[pos + 1] \in Nat
            /\ upTo[pos + 1] = upTo[pos] + Cost(pos) /\ upTo[pos + 1] <= totals.bytes
        BY <3>2, <4>1, Steps
      <4>4. Used = upTo[pos] + partial[read[pos]]
        BY <3>2 DEF Used
      <4> QED
        BY <3>1, <4>1, <4>2, <4>3, <4>4, Numbers
    <3>3. CASE phase # "copy"
      <4>1. Planned /\ Frontier = NumFiles + 1
        BY <3>3 DEF Running, Planned, Frontier
      <4>2. upTo[pos] <= totals.bytes /\ upTo[pos] \in Nat
        BY <2>1, <4>1 DEF RoomInv, SumsAreTotals, TypeOK
      <4>3. Used = upTo[pos]
        BY <3>3, <4>2 DEF Used
      <4> QED
        BY <4>2, <4>3
    <3> QED
      BY <3>2, <3>3
  <2>3. /\ OperationalReserve(totals.largest) \in Nat /\ SafetyMargin \in Nat
        /\ Required(totals.bytes, totals.largest)
             = totals.bytes + OperationalReserve(totals.largest) + SafetyMargin
        /\ totals.bytes \in Nat /\ free \in Nat /\ foreign \in Nat
    BY Margins, Numbers
  <2> HIDE DEF Used
  <2> QED
    BY <2>1, <2>2, <2>3
<1> QED
  BY <1>1, RoomInvariant, PTL

\* The disk is full under an accepted job only if other programs have eaten
\* through the reserve and the margin.
THEOREM FullOnlyByOthers ==
    Spec => [](Running /\ foreign < OperationalReserve(totals.largest) + SafetyMargin
               => free > 0)
<1>1. RoomInv /\ RoomIsKept
      => (Running /\ foreign < OperationalReserve(totals.largest) + SafetyMargin
          => free > 0)
  <2> SUFFICES ASSUME RoomInv, RoomIsKept, Running,
                      foreign < OperationalReserve(totals.largest) + SafetyMargin
               PROVE  free > 0
    OBVIOUS
  <2>1. free + foreign >= OperationalReserve(totals.largest) + SafetyMargin
    BY DEF RoomIsKept
  <2>2. /\ OperationalReserve(totals.largest) \in Nat /\ SafetyMargin \in Nat
        /\ free \in Nat /\ foreign \in Nat
    BY Margins, Numbers
  <2> QED
    BY <2>1, <2>2
<1> QED
  BY <1>1, RoomInvariant, AcceptedJobKeepsRoom, PTL
-----------------------------------------------------------------------------
(* Sums over finite sets.                                                  *)
(*                                                                         *)
(* MapThenSumSet takes the elements of a set one by one, in an order of    *)
(* CHOOSE's; it is shown to be indifferent to which element is taken out   *)
(* first.  Each proof takes a smallest set that breaks the claim.          *)

SizeSum(S) == MapThenSumSet(LAMBDA c : Size[c], S)

Any(s) == CHOOSE x \in s : TRUE

\* The function that the library's fold chooses and applies.
IsFold(f, S) ==
    f = [s \in SUBSET S |-> IF s = {} THEN 0 ELSE Size[Any(s)] + f[s \ {Any(s)}]]

Fold(S) == CHOOSE f : IsFold(f, S)

\* Among sets of parts of a finite set there is one that contains no other.
LEMMA LeastSet ==
    ASSUME NEW S, IsFiniteSet(S), NEW T \in SUBSET (SUBSET S), T # {}
    PROVE  \E x \in T : \A y \in T : y \subseteq x => y = x
<1>1. IsWellFoundedOn(StrictSubsetOrdering(S), SUBSET S)
  BY FS_FiniteSubsetsOfFinite, FS_StrictSubsetOrderingWellFounded
<1>2. \E x \in T : \A y \in T : ~(<<y, x>> \in StrictSubsetOrdering(S))
  BY <1>1, WFMin
<1>3. \A x, y \in T : y \subseteq x /\ y # x => <<y, x>> \in StrictSubsetOrdering(S)
  BY DEF StrictSubsetOrdering
<1> QED
  BY <1>2, <1>3

LEMMA SumIsFold == \A S : SizeSum(S) = Fold(S)[S]
  BY DEF SizeSum, Fold, MapThenSumSet, MapThenFoldSet, IsFold, Any

LEMMA FoldAt ==
    ASSUME NEW S, NEW f, IsFold(f, S), NEW s \in SUBSET S
    PROVE  /\ s = {} => f[s] = 0
           /\ s # {} => Any(s) \in s /\ f[s] = Size[Any(s)] + f[s \ {Any(s)}]
<1>1. f[s] = IF s = {} THEN 0 ELSE Size[Any(s)] + f[s \ {Any(s)}]
  BY DEF IsFold
<1>2. s # {} => Any(s) \in s
  BY DEF Any
<1> QED
  BY <1>1, <1>2

\* Two folds say the same of a finite set that they both know.
LEMMA FoldsAgree ==
    ASSUME NEW A, NEW B, NEW f, NEW g, IsFold(f, A), IsFold(g, B),
           NEW S \in SUBSET A, S \subseteq B, IsFiniteSet(S)
    PROVE  f[S] = g[S]
<1> DEFINE Bad == {s \in SUBSET S : f[s] # g[s]}
<1> SUFFICES ASSUME Bad # {} PROVE FALSE
  BY DEF Bad
<1>0. Bad \in SUBSET (SUBSET S)
  OBVIOUS
<1>1. PICK s \in Bad : \A t \in Bad : t \subseteq s => t = s
  <2> HIDE DEF Bad
  <2> QED
    BY <1>0, LeastSet
<1>2. s \in SUBSET A /\ s \in SUBSET B /\ s \in SUBSET S /\ f[s] # g[s]
  OBVIOUS
<1>3. s # {}
  BY <1>2, FoldAt
<1>4. /\ Any(s) \in s
      /\ f[s] = Size[Any(s)] + f[s \ {Any(s)}]
      /\ g[s] = Size[Any(s)] + g[s \ {Any(s)}]
  BY <1>2, <1>3, FoldAt
<1>5. s \ {Any(s)} \notin Bad /\ s \ {Any(s)} \in SUBSET S
  BY <1>1, <1>2, <1>4
<1> QED
  BY <1>2, <1>4, <1>5

\* Every finite set has a fold.
LEMMA FoldExists ==
    ASSUME NEW S, IsFiniteSet(S)
    PROVE  IsFold(Fold(S), S)
<1> DEFINE Bad == {s \in SUBSET S : ~(\E f : IsFold(f, s))}
<1> SUFFICES ASSUME Bad # {} PROVE FALSE
  BY DEF Fold, Bad
<1>0. Bad \in SUBSET (SUBSET S)
  OBVIOUS
<1>1. PICK s \in Bad : \A t \in Bad : t \subseteq s => t = s
  <2> HIDE DEF Bad
  <2> QED
    BY <1>0, LeastSet
<1>2. \A t \in SUBSET s : t # s => IsFold(Fold(t), t) /\ IsFiniteSet(t)
  <2> SUFFICES ASSUME NEW t \in SUBSET s, t # s
               PROVE  IsFold(Fold(t), t) /\ IsFiniteSet(t)
    OBVIOUS
  <2>1. t \in SUBSET S /\ t \notin Bad
    BY <1>1
  <2>2. \E f : IsFold(f, t)
    BY <2>1
  <2>3. IsFiniteSet(t)
    BY <2>1, FS_Subset
  <2> QED
    BY <2>2, <2>3 DEF Fold
<1> DEFINE Rest(t) == Fold(t \ {Any(t)})[t \ {Any(t)}]
           h == [t \in SUBSET s |-> IF t = {} THEN 0 ELSE Size[Any(t)] + Rest(t)]
<1>3. ASSUME NEW t \in SUBSET s, t # {}
      PROVE  Rest(t) = h[t \ {Any(t)}]
  <2> DEFINE r == t \ {Any(t)}
  <2>1. Any(t) \in t
    BY <1>3 DEF Any
  <2>2. r \in SUBSET s /\ r # s
    BY <2>1
  <2>3. IsFold(Fold(r), r) /\ IsFiniteSet(r) /\ r \in SUBSET r
    BY <1>2, <2>2
  <2> HIDE DEF r
  <2>4. CASE r = {}
    <3>1. Fold(r)[r] = 0
      BY <2>3, <2>4, FoldAt
    <3>2. h[r] = 0
      BY <2>2, <2>4
    <3> QED
      BY <3>1, <3>2 DEF r
  <2>5. CASE r # {}
    <3>1. Any(r) \in r /\ Fold(r)[r] = Size[Any(r)] + Fold(r)[r \ {Any(r)}]
      BY <2>3, <2>5, FoldAt
    <3> DEFINE q == r \ {Any(r)}
    <3>2. q \in SUBSET r /\ q \in SUBSET s /\ q # s /\ q \in SUBSET q
      BY <2>2, <3>1
    <3>3. IsFold(Fold(q), q) /\ IsFiniteSet(q)
      BY <1>2, <3>2
    <3>4. Fold(r)[q] = Fold(q)[q]
      <4> HIDE DEF q
      <4> QED
        BY <2>3, <3>2, <3>3, FoldsAgree
    <3>5. h[r] = Size[Any(r)] + Fold(q)[q]
      BY <2>2, <2>5
    <3> QED
      BY <3>1, <3>4, <3>5 DEF r
  <2> QED
    BY <2>4, <2>5
<1>4. h = [t \in SUBSET s |-> IF t = {} THEN 0 ELSE Size[Any(t)] + h[t \ {Any(t)}]]
  <2> HIDE DEF Rest
  <2>1. \A t \in SUBSET s :
          (IF t = {} THEN 0 ELSE Size[Any(t)] + Rest(t))
             = (IF t = {} THEN 0 ELSE Size[Any(t)] + h[t \ {Any(t)}])
    BY <1>3
  <2> DEFINE H(t) == IF t = {} THEN 0 ELSE Size[Any(t)] + h[t \ {Any(t)}]
  <2>2. h = [t \in SUBSET s |-> IF t = {} THEN 0 ELSE Size[Any(t)] + Rest(t)]
    OBVIOUS
  <2>3. \A t \in SUBSET s : (IF t = {} THEN 0 ELSE Size[Any(t)] + Rest(t)) = H(t)
    BY <2>1
  <2> HIDE DEF h, H
  <2>4. h = [t \in SUBSET s |-> H(t)]
    BY <2>2, <2>3
  <2> QED
    BY <2>4 DEF H
<1> HIDE DEF h
<1>5. IsFold(h, s)
  BY <1>4 DEF IsFold
<1> QED
  BY <1>1, <1>5

LEMMA SumTakesAny ==
    ASSUME NEW S, IsFiniteSet(S)
    PROVE  /\ S = {} => SizeSum(S) = 0
           /\ S # {} => /\ Any(S) \in S
                        /\ SizeSum(S) = Size[Any(S)] + SizeSum(S \ {Any(S)})
<1>1. IsFold(Fold(S), S) /\ S \in SUBSET S
  BY FoldExists
<1>2. S = {} => Fold(S)[S] = 0
  BY <1>1, FoldAt
<1>3. ASSUME S # {}
      PROVE  /\ Any(S) \in S
             /\ Fold(S)[S] = Size[Any(S)] + Fold(S \ {Any(S)})[S \ {Any(S)}]
  <2> DEFINE r == S \ {Any(S)}
  <2>1. Any(S) \in S /\ Fold(S)[S] = Size[Any(S)] + Fold(S)[r]
    BY <1>1, <1>3, FoldAt
  <2>2. r \in SUBSET S /\ r \in SUBSET r
    OBVIOUS
  <2>3. IsFiniteSet(r)
    BY <2>2, FS_Subset
  <2> HIDE DEF r
  <2>4. IsFold(Fold(r), r)
    BY <2>3, FoldExists
  <2>5. Fold(S)[r] = Fold(r)[r]
    BY <1>1, <2>2, <2>3, <2>4, FoldsAgree
  <2> QED
    BY <2>1, <2>5 DEF r
<1> QED
  BY <1>2, <1>3, SumIsFold

\* The sum of sizes is a number, and any content may be taken out of it.
LEMMA SumTakesOut ==
    ASSUME NEW S, IsFiniteSet(S), S \subseteq Content
    PROVE  /\ SizeSum(S) \in Nat
           /\ \A c \in S : SizeSum(S) = Size[c] + SizeSum(S \ {c})
<1> DEFINE Good(s) == /\ SizeSum(s) \in Nat
                      /\ \A c \in s : SizeSum(s) = Size[c] + SizeSum(s \ {c})
           Bad == {s \in SUBSET S : ~Good(s)}
<1> SUFFICES ASSUME Bad # {} PROVE FALSE
  BY DEF Good, Bad
<1>0. Bad \in SUBSET (SUBSET S)
  OBVIOUS
<1>1. PICK s \in Bad : \A t \in Bad : t \subseteq s => t = s
  <2> HIDE DEF Bad
  <2> QED
    BY <1>0, LeastSet
<1>2. s \in SUBSET S /\ ~Good(s)
  OBVIOUS
<1>3. IsFiniteSet(s)
  BY <1>2, FS_Subset
<1>4. \A t \in SUBSET s : t # s => Good(t)
  BY <1>1, <1>2
<1>5. s # {}
  <2>1. ASSUME s = {} PROVE Good(s)
    <3>1. SizeSum(s) = 0
      BY <1>3, <2>1, SumTakesAny
    <3> QED
      BY <2>1, <3>1
  <2> QED
    BY <1>2, <2>1
<1> DEFINE a == Any(s)
<1>6. a \in s /\ SizeSum(s) = Size[a] + SizeSum(s \ {a})
  BY <1>3, <1>5, SumTakesAny
<1> HIDE DEF a, Bad
<1>7. \A c \in s : Size[c] \in Nat
  BY <1>2, SizesAreNatural
<1>8. SizeSum(s) \in Nat
  <2>1. Good(s \ {a})
    BY <1>4, <1>6
  <2> QED
    BY <1>6, <1>7, <2>1
<1>9. ASSUME NEW c \in s
      PROVE  SizeSum(s) = Size[c] + SizeSum(s \ {c})
  <2>1. CASE c = a
    BY <1>6, <2>1
  <2>2. CASE c # a
    <3> DEFINE x == s \ {a}
               y == s \ {c}
               z == (s \ {a}) \ {c}
    <3>1. x \in SUBSET s /\ x # s /\ y \in SUBSET s /\ y # s /\ z \in SUBSET s /\ z # s
          /\ c \in x /\ a \in y
      BY <1>6, <2>2
    <3>2. Good(x) /\ Good(y) /\ Good(z)
      BY <1>4, <3>1
    <3>3. z = x \ {c} /\ z = y \ {a}
      OBVIOUS
    <3> HIDE DEF x, y, z
    <3>4. SizeSum(x) = Size[c] + SizeSum(z) /\ SizeSum(y) = Size[a] + SizeSum(z)
      BY <3>1, <3>2, <3>3
    <3>5. SizeSum(s) = Size[a] + SizeSum(x)
      BY <1>6 DEF x
    <3>6. SizeSum(z) \in Nat /\ Size[a] \in Nat /\ Size[c] \in Nat
      BY <1>6, <1>7, <3>2
    <3>7. Size[a] + (Size[c] + SizeSum(z)) = Size[c] + (Size[a] + SizeSum(z))
      BY <3>6
    <3> QED
      BY <3>4, <3>5, <3>7 DEF y
  <2> QED
    BY <2>1, <2>2
<1> QED
  BY <1>2, <1>8, <1>9

LEMMA SumOfNone == SizeSum({}) = 0
  BY FS_EmptySet, SumTakesAny

LEMMA SumOfOneMore ==
    ASSUME NEW S, IsFiniteSet(S), S \subseteq Content, NEW c \in Content, c \notin S
    PROVE  /\ SizeSum(S) \in Nat
           /\ SizeSum(S \cup {c}) = SizeSum(S) + Size[c]
<1>1. SizeSum(S) \in Nat
  BY SumTakesOut
<1>2. IsFiniteSet(S \cup {c}) /\ S \cup {c} \subseteq Content
  BY FS_AddElement
<1>3. SizeSum(S \cup {c}) = Size[c] + SizeSum((S \cup {c}) \ {c})
  BY <1>2, SumTakesOut
<1>4. (S \cup {c}) \ {c} = S
  OBVIOUS
<1>5. Size[c] \in Nat
  BY SizesAreNatural
<1>6. SizeSum(S \cup {c}) = Size[c] + SizeSum(S)
  BY <1>3, <1>4
<1> QED
  BY <1>1, <1>5, <1>6

-----------------------------------------------------------------------------
(* The plan taken as a whole.                                              *)
(*                                                                         *)
(* While the files are planned, and until the space is measured, the       *)
(* totals are those of the contents met so far, each one copied by the     *)
(* first file that holds it.                                               *)

Copies(f) == plan[f] = "COPY_VERIFY_OBJECT_AND_LINK"

FirstHolder(f) == \A e \in File : e < f => read[e] # read[f]

NewSoFar == {read[f] : f \in {g \in File : g < Frontier}} \ (Mark \union verified)

SoundInv ==
    phase \in {"plan", "measure"} =>
        /\ \A f \in File : f >= Frontier => plan[f] = "NONE"
        /\ \A f \in File : f < Frontier =>
                (Copies(f) <=> read[f] \in Content \ verified /\ FirstHolder(f))
        /\ IsFiniteSet(NewSoFar) /\ NewSoFar \subseteq Content
        /\ totals.count = Cardinality(NewSoFar)
        /\ totals.bytes = SizeSum(NewSoFar)
        /\ \A c \in NewSoFar : Size[c] <= totals.largest
        /\ totals.largest \in {0} \union {Size[c] : c \in NewSoFar}

\* Every set of files has a first one.
LEMMA FirstOf ==
    ASSUME NEW T \in SUBSET File, T # {}
    PROVE  \E m \in T : \A f \in T : m <= f
<1>1. T \subseteq Nat
  BY ConfigIsNatural DEF File
<1>2. \E m \in T : \A f \in T : ~(<<f, m>> \in OpToRel(<, Nat))
  BY <1>1, NatLessThanWellFounded, WFMin
<1>3. \A m, f \in T : f < m => <<f, m>> \in OpToRel(<, Nat)
  BY <1>1 DEF OpToRel
<1>4. \A m, f \in T : ~(f < m) => m <= f
  BY <1>1
<1> QED
  BY <1>2, <1>3, <1>4

\* A file is planned to be copied if its content is new and none of the files
\* planned before it is.
LEMMA CopiedIfNew ==
    ASSUME NEW x \in Content \union Mark
    PROVE  ActionFor(x) = "COPY_VERIFY_OBJECT_AND_LINK"
             <=> x \in Content \ verified /\ x \notin SeenNew
<1>1. CASE x \in Mark
  <2>1. x \notin Content
    BY <1>1, MarksAreNoContent
  <2> QED
    BY <1>1, <2>1 DEF ActionFor, Classification, Mark
<1>2. CASE x \in Content
  <2>1. x # "LEFT_OUT" /\ x # "UNSUPPORTED" /\ x # "UNREADABLE"
    BY <1>2, MarksAreNoContent DEF Mark
  <2>2. CASE x \in verified
    <3>1. Classification(x) = "ALREADY_BACKED_UP"
      BY <2>1, <2>2 DEF Classification
    <3> QED
      BY <2>2, <3>1 DEF ActionFor
  <2>3. CASE x \notin verified
    <3>1. Classification(x) = "NEW"
      BY <2>1, <2>3 DEF Classification
    <3>2. ActionFor(x) = IF x \in SeenNew THEN "LINK_NEW_OBJECT_SAME_JOB"
                         ELSE "COPY_VERIFY_OBJECT_AND_LINK"
      BY <3>1 DEF ActionFor
    <3> QED
      BY <1>2, <2>3, <3>2
  <2> QED
    BY <2>2, <2>3
<1> QED
  BY <1>1, <1>2

\* The contents the plan copies are the new ones met so far.
LEMMA SeenIsNewSoFar ==
    ASSUME RoomInv, SoundInv, phase = "plan"
    PROVE  SeenNew = NewSoFar
<1>1. /\ Frontier = pos /\ pos \in File
      /\ \A f \in File : f >= Frontier => plan[f] = "NONE"
      /\ \A f \in File : f < Frontier =>
            (Copies(f) <=> read[f] \in Content \ verified /\ FirstHolder(f))
  BY DEF SoundInv, Frontier, RoomInv, SumsAreTotals, Planned
<1>2. \A f \in File : Copies(f) <=>
          f < Frontier /\ read[f] \in Content \ verified /\ FirstHolder(f)
  <2>1. \A f \in File : f >= Frontier \/ f < Frontier
    BY <1>1, ConfigIsNatural DEF File
  <2>2. \A f \in File : f >= Frontier => ~Copies(f) /\ ~(f < Frontier)
    BY <1>1, ConfigIsNatural DEF File, Copies
  <2> QED
    BY <1>1, <2>1, <2>2
<1>3. ASSUME NEW f \in File, f < Frontier, read[f] \in Content \ verified
      PROVE  \E m \in File : Copies(m) /\ read[m] = read[f]
  <2> DEFINE T == {g \in File : read[g] = read[f]}
  <2>1. PICK m \in T : \A g \in T : m <= g
    <3>1. T \in SUBSET File /\ T # {}
      BY <1>3
    <3> HIDE DEF T
    <3> QED
      BY <3>1, FirstOf
  <2>2. m \in File /\ read[m] = read[f] /\ m <= f
    BY <1>3, <2>1
  <2>3. FirstHolder(m)
    <3> SUFFICES ASSUME NEW e \in File, e < m, read[e] = read[m] PROVE FALSE
      BY DEF FirstHolder
    <3>1. e \in T
      BY <2>2
    <3>2. m <= e
      BY <2>1, <3>1
    <3> QED
      BY <2>2, <3>2, ConfigIsNatural DEF File
  <2>4. m < Frontier
    BY <1>1, <1>3, <2>2, ConfigIsNatural DEF File
  <2> QED
    BY <1>2, <1>3, <2>2, <2>3, <2>4
<1>4. \A x : x \in SeenNew <=> \E f \in File : Copies(f) /\ read[f] = x
  BY DEF SeenNew, Copies
<1>5. \A f \in File : read[f] \in Content \ verified
                        <=> read[f] \notin Mark \union verified
  BY MarksAreNoContent DEF RoomInv, TypeOK
<1>6. \A x : x \in NewSoFar
          <=> \E f \in File : f < Frontier /\ read[f] = x /\ x \notin Mark \union verified
  BY DEF NewSoFar
<1> QED
  BY <1>2, <1>3, <1>4, <1>5, <1>6

LEMMA ScanIsSound ==
    ASSUME RoomInv, Scan
    PROVE  SoundInv'
<1>1. /\ phase' = "plan" /\ pos' = 1 /\ plan' = [f \in File |-> "NONE"]
      /\ totals' = NoTotals
  BY DEF Scan
<1>2. Frontier' = 1
  BY <1>1 DEF Frontier
<1>3. \A f \in File : ~(f < 1)
  BY ConfigIsNatural DEF File
<1>4. NewSoFar' = {}
  BY <1>2, <1>3 DEF NewSoFar
<1>5. totals'.count = 0 /\ totals'.bytes = 0
  BY <1>1 DEF NoTotals
<1>6. IsFiniteSet({}) /\ Cardinality({}) = 0 /\ SizeSum({}) = 0
  BY FS_EmptySet, SumOfNone
<1>7. \A f \in File : plan'[f] = "NONE"
  BY <1>1
<1>8. totals'.largest \in {0} \union {Size[c] : c \in NewSoFar'}
  <2>1. totals'.largest = 0
    BY <1>1 DEF NoTotals
  <2> QED
    BY <2>1
<1> QED
  BY <1>2, <1>3, <1>4, <1>5, <1>6, <1>7, <1>8 DEF SoundInv

LEMMA PlanFileIsSound ==
    ASSUME RoomInv, SoundInv, PlanFile
    PROVE  SoundInv'
<1> DEFINE x == read[pos]
           copy == ActionFor(x) = "COPY_VERIFY_OBJECT_AND_LINK"
           New == NewSoFar
<1>1. /\ phase = "plan" /\ pos \in File /\ pos' = pos + 1
      /\ plan' = [plan EXCEPT ![pos] = ActionFor(x)]
      /\ totals' = Counted(totals, x, ActionFor(x))
      /\ phase' = IF pos = NumFiles THEN "measure" ELSE "plan"
      /\ read' = read /\ verified' = verified
  BY DEF PlanFile, storeVars
<1>2. /\ Frontier = pos
      /\ \A f \in File : f >= pos => plan[f] = "NONE"
      /\ \A f \in File : f < pos =>
            (Copies(f) <=> read[f] \in Content \ verified /\ FirstHolder(f))
      /\ IsFiniteSet(New) /\ New \subseteq Content
      /\ totals.count = Cardinality(New) /\ totals.bytes = SizeSum(New)
      /\ \A c \in New : Size[c] <= totals.largest
      /\ totals.largest \in {0} \union {Size[c] : c \in New}
  BY <1>1 DEF SoundInv, Frontier
<1>3. /\ NumFiles \in Nat /\ pos \in Nat /\ 1 <= pos /\ pos <= NumFiles
      /\ \A f \in File : f \in Nat /\ f <= NumFiles
  BY <1>1, ConfigIsNatural DEF File
<1>4. Frontier' = pos + 1
  BY <1>1, <1>3 DEF Frontier
<1>5. x \in Content \union Mark /\ verified \subseteq Content
  BY <1>1 DEF RoomInv, TypeOK
<1>6. copy <=> x \in Content \ verified /\ x \notin New
  BY <1>1, <1>5, CopiedIfNew, SeenIsNewSoFar
<1>7. NewSoFar' = IF copy THEN New \union {x} ELSE New
  <2>1. \A y : y \in NewSoFar' <=> \E f \in File :
            f < pos + 1 /\ read[f] = y /\ y \notin Mark \union verified
    BY <1>1, <1>4 DEF NewSoFar
  <2>2. \A y : y \in New <=> \E f \in File :
            f < pos /\ read[f] = y /\ y \notin Mark \union verified
    BY <1>2 DEF NewSoFar
  <2>3. \A f \in File : f < pos + 1 <=> f < pos \/ f = pos
    BY <1>3
  <2>4. \A y : y \in NewSoFar' <=> y \in New \/ (y = x /\ x \notin Mark \union verified)
    BY <1>1, <2>1, <2>2, <2>3
  <2>5. x \notin Mark \union verified <=> x \in Content \ verified
    BY <1>5, MarksAreNoContent
  <2> HIDE DEF x, New, copy
  <2> QED
    BY <1>6, <2>4, <2>5
<1>8. x \in Content \ verified /\ FirstHolder(pos) <=> copy
  <2>1. FirstHolder(pos) /\ x \in Content \ verified => x \notin New
    BY <1>2 DEF FirstHolder, NewSoFar
  <2>2. ASSUME x \in Content \ verified, x \notin New, NEW e \in File, e < pos,
               read[e] = x
        PROVE  FALSE
    <3>1. x \notin Mark \union verified
      BY <2>2, MarksAreNoContent
    <3> QED
      BY <1>2, <2>2, <3>1 DEF NewSoFar
  <2> QED
    BY <1>6, <2>1, <2>2 DEF FirstHolder
<1>9. \A f \in File : plan'[f] = IF f = pos THEN ActionFor(x) ELSE plan[f]
  BY <1>1 DEF RoomInv, TypeOK
<1>10. \A f \in File : f >= pos + 1 => plan'[f] = "NONE"
  BY <1>2, <1>3, <1>9
<1>11. \A f \in File : f < pos + 1 =>
          (Copies(f)' <=> read'[f] \in Content \ verified' /\ FirstHolder(f)')
  <2>1. \A f \in File : FirstHolder(f)' <=> FirstHolder(f)
    BY <1>1 DEF FirstHolder
  <2>2. \A f \in File : f < pos => (Copies(f)' <=> Copies(f))
    BY <1>3, <1>9 DEF Copies
  <2>3. ASSUME NEW f \in File, f < pos + 1
        PROVE  Copies(f)' <=> read'[f] \in Content \ verified' /\ FirstHolder(f)
    <3>1. CASE f = pos
      <4>1. Copies(f)' <=> plan'[f] = "COPY_VERIFY_OBJECT_AND_LINK"
        BY DEF Copies
      <4>2. plan'[f] = ActionFor(x)
        BY <1>9, <3>1
      <4>3. Copies(f)' <=> copy
        BY <4>1, <4>2
      <4>4. read'[f] = x /\ verified' = verified
        BY <1>1, <3>1
      <4>5. x \in Content \ verified /\ FirstHolder(f) <=> copy
        BY <1>8, <3>1
      <4> HIDE DEF copy, x
      <4> QED
        BY <4>3, <4>4, <4>5
    <3>2. CASE f # pos
      <4>1. f < pos
        BY <1>3, <2>3, <3>2
      <4> QED
        BY <1>1, <1>2, <2>2, <4>1
    <3> QED
      BY <3>1, <3>2
  <2> QED
    BY <2>1, <2>3
<1>12. /\ totals'.count = totals.count + One(copy)
       /\ totals'.bytes = totals.bytes + (IF copy THEN SizeOf(x) ELSE 0)
       /\ totals'.largest = MaxOf(totals.largest, IF copy THEN SizeOf(x) ELSE 0)
       /\ totals.largest \in Nat
  <2>1. totals.largest \in Nat
    BY Numbers
  <2> QED
    BY <1>1, <2>1 DEF Counted
<1> HIDE DEF New, copy, x
<1>13. CASE copy
  <2>1. x \in Content /\ x \notin New /\ NewSoFar' = New \union {x} /\ SizeOf(x) = Size[x]
        /\ Size[x] \in Nat
    BY <1>6, <1>7, <1>13, SizesAreNatural DEF SizeOf
  <2>2. /\ IsFiniteSet(New \union {x})
        /\ Cardinality(New \union {x}) = Cardinality(New) + 1
    BY <1>2, <2>1, FS_AddElement
  <2>3. SizeSum(New \union {x}) = SizeSum(New) + Size[x]
    BY <1>2, <2>1, SumOfOneMore
  <2>4. totals'.count = Cardinality(NewSoFar)' /\ totals'.bytes = SizeSum(NewSoFar)'
    <3>1. totals'.count = Cardinality(New) + 1
      BY <1>2, <1>12, <1>13 DEF One
    <3>2. totals'.bytes = SizeSum(New) + Size[x]
      BY <1>2, <1>12, <1>13, <2>1
    <3>3. Cardinality(NewSoFar)' = Cardinality(New \union {x})
      BY <2>1
    <3>4. SizeSum(NewSoFar)' = SizeSum(New \union {x})
      BY <2>1
    <3> QED
      BY <2>2, <2>3, <3>1, <3>2, <3>3, <3>4
  <2>5. \A c \in NewSoFar' : Size[c] <= totals'.largest
    <3>1. totals'.largest = MaxOf(totals.largest, Size[x])
      BY <1>12, <1>13, <2>1
    <3>2. totals.largest <= totals'.largest /\ Size[x] <= totals'.largest
          /\ totals'.largest \in Nat
      BY <1>12, <2>1, <3>1 DEF MaxOf
    <3>3. \A c \in New : Size[c] \in Nat
      BY <1>2, SizesAreNatural
    <3>4. \A c \in New : Size[c] <= totals'.largest
      BY <1>2, <1>12, <3>2, <3>3
    <3> QED
      BY <2>1, <3>2, <3>4
  <2>6. totals'.largest \in {0} \union {Size[c] : c \in NewSoFar'}
    <3>1. totals'.largest = Size[x] \/ totals'.largest = totals.largest
      BY <1>12, <1>13, <2>1 DEF MaxOf
    <3> QED
      BY <1>2, <2>1, <3>1
  <2> QED
    BY <1>2, <1>4, <1>10, <1>11, <2>1, <2>2, <2>4, <2>5, <2>6 DEF SoundInv
<1>14. CASE ~copy
  <2>1. NewSoFar' = New
    BY <1>7, <1>14
  <2>2. /\ totals.count \in Nat /\ totals.bytes \in Nat
    BY DEF RoomInv, TypeOK, NoTotals
  <2>3. /\ totals'.count = totals.count /\ totals'.bytes = totals.bytes
        /\ totals'.largest = totals.largest
    BY <1>12, <1>14, <2>2 DEF One, MaxOf
  <2>4. Cardinality(NewSoFar)' = Cardinality(New)
    BY <2>1
  <2>5. SizeSum(NewSoFar)' = SizeSum(New)
    BY <2>1
  <2> QED
    BY <1>2, <1>4, <1>10, <1>11, <2>1, <2>3, <2>4, <2>5 DEF SoundInv
<1> QED
  BY <1>13, <1>14

LEMMA NextIsSound == RoomInv /\ SoundInv /\ [Next]_vars => SoundInv'
<1> SUFFICES ASSUME RoomInv, SoundInv, [Next]_vars PROVE SoundInv'
  OBVIOUS
<1>1. CASE Scan
  BY <1>1, ScanIsSound
<1>2. CASE PlanFile
  BY <1>2, PlanFileIsSound
<1>3. CASE phase' \notin {"plan", "measure"}
  BY <1>3 DEF SoundInv
<1>4. CASE UNCHANGED <<phase, pos, read, plan, totals, verified>>
  <2>1. Frontier' = Frontier /\ NewSoFar' = NewSoFar
    BY <1>4 DEF Frontier, NewSoFar
  <2>2. /\ Cardinality(NewSoFar)' = Cardinality(NewSoFar)
        /\ SizeSum(NewSoFar)' = SizeSum(NewSoFar)
    BY <2>1
  <2>3. \A f \in File : (Copies(f)' <=> Copies(f)) /\ (FirstHolder(f)' <=> FirstHolder(f))
    BY <1>4 DEF Copies, FirstHolder
  <2> QED
    BY <1>4, <2>1, <2>2, <2>3 DEF SoundInv
<1>5. ASSUME ~Scan, ~PlanFile
      PROVE  \/ phase' \notin {"plan", "measure"}
             \/ UNCHANGED <<phase, pos, read, plan, totals, verified>>
  <2>1. CASE Measure
    BY <2>1 DEF Measure
  <2>2. CASE JobStep
    BY <2>2 DEF JobStep, NoEntry, SkipUnsupported, Link, LinkFails, CopyPresent, BeginCopy,
                WriteByte, CopyRaises, Mismatch, Finalize, FinalizeRaises, WorkerRaises, EndJob,
                NextFile, FailedByError, AtFile, Copying, Linking, Complete
  <2>3. CASE OthersWrite
    BY <2>3 DEF OthersWrite, planVars, storeVars
  <2>4. CASE Restart \/ Serve
    BY <2>4 DEF Restart, Serve
  <2>5. CASE \E c \in Content : RemoveOrphan(c)
    BY <2>5 DEF RemoveOrphan
  <2>6. CASE UNCHANGED vars
    BY <2>6 DEF vars, planVars, storeVars
  <2> QED
    BY <1>5, <2>1, <2>2, <2>3, <2>4, <2>5, <2>6 DEF Next
<1> QED
  BY <1>1, <1>2, <1>3, <1>4, <1>5

\* What preflight tells of the card as a whole is true when it is measured
\* against the space, for every card and every size of its files.
THEOREM PlanAddsUp == Spec => []PlanIsSound
<1>1. Init => SoundInv
  BY DEF Init, SoundInv
<1>2. RoomInv /\ SoundInv => PlanIsSound
  <2> SUFFICES ASSUME RoomInv, SoundInv, phase = "measure" PROVE PlanIsSound
    BY DEF PlanIsSound
  <2> DEFINE New == {read[f] : f \in File} \ (Mark \union verified)
             Copiers(c) == {f \in File : read[f] = c /\ plan[f] = "COPY_VERIFY_OBJECT_AND_LINK"}
             Holders(c) == {f \in File : read[f] = c}
  <2>1. Frontier = NumFiles + 1 /\ \A f \in File : f < NumFiles + 1 /\ f \in Nat
    BY ConfigIsNatural DEF Frontier, File
  <2>2. {g \in File : g < Frontier} = File
    BY <2>1
  <2>3. NewSoFar = New
    BY <2>2 DEF NewSoFar
  <2>4. /\ \A f \in File : Copies(f) <=> read[f] \in Content \ verified /\ FirstHolder(f)
        /\ NewSoFar \subseteq Content
        /\ totals.count = Cardinality(NewSoFar)
        /\ totals.bytes = SizeSum(NewSoFar)
        /\ \A c \in NewSoFar : Size[c] <= totals.largest
        /\ totals.largest \in {0} \union {Size[c] : c \in NewSoFar}
    BY <2>1 DEF SoundInv
  <2>5. ASSUME NEW c \in New
        PROVE  Copiers(c) = {Min(Holders(c))}
    <3>1. c \in Content \ verified
      BY <2>3, <2>4
    <3>2. PICK m \in Holders(c) : \A f \in Holders(c) : m <= f
      <4>1. Holders(c) \in SUBSET File /\ Holders(c) # {}
        BY <2>5
      <4> HIDE DEF Holders
      <4> QED
        BY <4>1, FirstOf
    <3>3. Min(Holders(c)) \in Holders(c) /\ \A f \in Holders(c) : Min(Holders(c)) <= f
      <4> HIDE DEF Holders
      <4> QED
        BY <3>2 DEF Min
    <3> DEFINE k == Min(Holders(c))
    <3> HIDE DEF k
    <3>4. k \in File /\ read[k] = c /\ \A f \in File : read[f] = c => k <= f
      BY <3>3 DEF k
    <3>5. ASSUME NEW f \in File, read[f] = c
          PROVE  FirstHolder(f) <=> f = k
      <4>1. ASSUME FirstHolder(f) PROVE f = k
        <5>1. ~(k < f)
          BY <3>4, <3>5, <4>1 DEF FirstHolder
        <5> QED
          BY <2>1, <3>4, <3>5, <5>1
      <4>2. ASSUME NEW e \in File, e < k PROVE read[e] # c
        BY <2>1, <3>4, <4>2
      <4> QED
        BY <3>5, <4>1, <4>2 DEF FirstHolder
    <3>6. \A f \in File : read[f] = c => (Copies(f) <=> f = k)
      BY <2>4, <3>1, <3>5
    <3>7. \A f : f \in Copiers(c) <=> f = k
      BY <3>4, <3>6 DEF Copies
    <3>8. Copiers(c) = {k}
      BY <3>7
    <3> QED
      BY <3>8 DEF k
  <2>6. totals.bytes = MapThenSumSet(LAMBDA c : Size[c], New)
    BY <2>3, <2>4 DEF SizeSum
  <2> QED
    BY <2>3, <2>4, <2>5, <2>6 DEF PlanIsSound
<1> QED
  BY <1>1, <1>2, NextIsSound, RoomInvariant, PTL DEF Spec

-----------------------------------------------------------------------------
(* The result of a job.                                                    *)
(*                                                                         *)
(* What the totals were before each file is recomputed from the plan       *)
(* (Walk); the job's counters are then compared with the totals of the     *)
(* files behind it, so that each action answers for one file only.         *)

Totals == [DOMAIN NoTotals -> Nat]

Walk(g) ==
    /\ g \in [1..NumFiles + 1 -> Totals]
    /\ g[1] = NoTotals
    /\ \A f \in File : f < Frontier => g[f + 1] = Counted(g[f], read[f], plan[f])
    /\ g[Frontier] = totals

\* The counters of the job account for totals t, those of the files behind it.
Progress(t) ==
    /\ tally.verified + tally.failed + t.unsupported = t.entries
    /\ tally.bytes <= t.bytes /\ tally.copied <= t.count
    /\ tally.copied + tally.skipped <= tally.verified
    /\ tally.done <= t.entries /\ tally.bytesDone <= t.source
    /\ tally.failed = 0 =>
        /\ tally.done = t.entries /\ tally.bytesDone = t.source
        /\ \A f \in File : f < pos /\ read[f] \in Content => read[f] \in verified

\* What is not backed up holds no content.
NoContentLeftOut ==
    \A f \in File : f < Frontier =>
        /\ plan[f] = "NONE" => read[f] = "LEFT_OUT"
        /\ plan[f] = "SKIP_UNSUPPORTED" => read[f] = "UNSUPPORTED"

CountInv ==
    Planned =>
        /\ phase \in {"plan", "measure"} => tally = NoTally
        /\ NoContentLeftOut
        /\ \E g : Walk(g) /\ (Running => Progress(g[pos]))

LEMMA LeftOutIsNoContent ==
    ASSUME NEW x \in Content \union Mark
    PROVE  /\ ActionFor(x) = "NONE" => x = "LEFT_OUT"
           /\ ActionFor(x) = "SKIP_UNSUPPORTED" => x = "UNSUPPORTED"
<1>1. CASE x \in {"LEFT_OUT", "UNSUPPORTED"}
  BY <1>1 DEF ActionFor, Classification
<1>2. CASE x \notin {"LEFT_OUT", "UNSUPPORTED"}
  <2>1. Classification(x) \in {"UNREADABLE", "ALREADY_BACKED_UP", "NEW"}
    BY <1>2 DEF Classification
  <2> QED
    BY <2>1 DEF ActionFor
<1> QED
  BY <1>1, <1>2

LEMMA NoTotalsIsTotals == NoTotals \in Totals
  BY DEF NoTotals, Totals

LEMMA ScanCounts ==
    ASSUME RoomInv, Scan
    PROVE  CountInv'
<1>1. phase' = "plan" /\ pos' = 1 /\ totals' = NoTotals /\ tally' = NoTally
  BY DEF Scan
<1>2. Frontier' = 1 /\ ~Running'
  BY <1>1 DEF Frontier, Running
<1>3. \A f \in File : ~(f < 1)
  BY ConfigIsNatural DEF File
<1> DEFINE g == [i \in 1..NumFiles + 1 |-> NoTotals]
<1>4. g \in [1..NumFiles + 1 -> Totals] /\ g[1] = NoTotals
  BY NoTotalsIsTotals, ConfigIsNatural
<1> HIDE DEF g
<1>5. Walk(g)'
  BY <1>1, <1>2, <1>3, <1>4 DEF Walk
<1>6. NoContentLeftOut'
  BY <1>2, <1>3 DEF NoContentLeftOut
<1> QED
  BY <1>1, <1>2, <1>5, <1>6 DEF CountInv

LEMMA PlanFileCounts ==
    ASSUME RoomInv, CountInv, PlanFile
    PROVE  CountInv'
<1> DEFINE a == ActionFor(read[pos])
<1>1. /\ phase = "plan" /\ pos \in File /\ pos' = pos + 1
      /\ plan' = [plan EXCEPT ![pos] = a]
      /\ totals' = Counted(totals, read[pos], a)
      /\ phase' = IF pos = NumFiles THEN "measure" ELSE "plan"
      /\ read' = read /\ tally' = tally
  BY DEF PlanFile
<1>2. Planned /\ Frontier = pos /\ Frontier' = pos + 1 /\ ~Running'
  BY <1>1, ConfigIsNatural DEF Planned, Frontier, File, Running
<1>3. tally = NoTally /\ NoContentLeftOut
  BY <1>1, <1>2 DEF CountInv
<1>4. PICK g : Walk(g)
  BY <1>2 DEF CountInv
<1>5. /\ g \in [1..NumFiles + 1 -> Totals]
      /\ g[1] = NoTotals /\ g[pos] = totals
      /\ \A f \in File : f < pos => g[f + 1] = Counted(g[f], read[f], plan[f])
  BY <1>2, <1>4 DEF Walk
<1>6. /\ NumFiles \in Nat /\ pos \in Nat /\ 1 <= pos /\ pos <= NumFiles
      /\ \A f \in File : f \in Nat /\ 1 <= f /\ f <= NumFiles
  BY <1>1, ConfigIsNatural DEF File
<1>7. totals' \in Totals
  <2>1. read[pos] \in Content \union Mark /\ totals \in [DOMAIN NoTotals -> Nat]
    BY <1>1 DEF RoomInv, TypeOK
  <2> QED
    BY <1>1, <2>1, CountedIsNatural DEF Totals
<1>8. \A f \in File : plan'[f] = IF f = pos THEN a ELSE plan[f]
  BY <1>1 DEF RoomInv, TypeOK
<1>9. NoContentLeftOut'
  <2> SUFFICES ASSUME NEW f \in File, f < pos + 1
               PROVE  /\ plan'[f] = "NONE" => read[f] = "LEFT_OUT"
                      /\ plan'[f] = "SKIP_UNSUPPORTED" => read[f] = "UNSUPPORTED"
    BY <1>1, <1>2 DEF NoContentLeftOut
  <2>1. CASE f = pos
    <3>1. read[f] \in Content \union Mark
      BY DEF RoomInv, TypeOK
    <3> QED
      BY <1>8, <2>1, <3>1, LeftOutIsNoContent
  <2>2. CASE f # pos
    <3>1. f < pos
      BY <1>6, <2>2
    <3> QED
      BY <1>2, <1>3, <1>8, <2>2, <3>1 DEF NoContentLeftOut
  <2> QED
    BY <2>1, <2>2
<1> HIDE DEF a
<1>10. PICK h \in [1..NumFiles + 1 -> Totals] :
           \A i \in 1..NumFiles + 1 : h[i] = IF i = pos + 1 THEN totals' ELSE g[i]
  <2> DEFINE k == [g EXCEPT ![pos + 1] = totals']
  <2>1. /\ k \in [1..NumFiles + 1 -> Totals]
        /\ \A i \in 1..NumFiles + 1 : k[i] = IF i = pos + 1 THEN totals' ELSE g[i]
    BY <1>5, <1>7
  <2> HIDE DEF k
  <2> QED
    BY <2>1
<1>11. Walk(h)'
  <2>1. 1 \in 1..NumFiles + 1 /\ 1 # pos + 1 /\ pos + 1 \in 1..NumFiles + 1
        /\ pos \in 1..NumFiles + 1 /\ pos # pos + 1
    BY <1>6
  <2>2. h[1] = NoTotals /\ h[pos + 1] = totals' /\ h[pos] = totals
    BY <1>5, <1>10, <2>1
  <2>3. ASSUME NEW f \in File, f < pos + 1
        PROVE  h[f + 1] = Counted(h[f], read[f], plan'[f])
    <3>1. CASE f = pos
      BY <1>1, <1>8, <2>2, <3>1
    <3>2. CASE f # pos
      <4>1. f < pos /\ f \in 1..NumFiles + 1 /\ f + 1 \in 1..NumFiles + 1
            /\ f # pos + 1 /\ f + 1 # pos + 1
        BY <1>6, <2>3, <3>2
      <4>2. h[f] = g[f] /\ h[f + 1] = g[f + 1] /\ plan'[f] = plan[f]
        BY <1>8, <1>10, <3>2, <4>1
      <4> QED
        BY <1>5, <4>1, <4>2
    <3> QED
      BY <3>1, <3>2
  <2> QED
    BY <1>1, <1>2, <1>10, <2>2, <2>3 DEF Walk
<1> QED
  BY <1>1, <1>2, <1>3, <1>9, <1>11 DEF CountInv

\* A step within a file counts nothing and takes no content out of the manifest.
LEMMA NothingCounted ==
    ASSUME RoomInv, CountInv, UNCHANGED <<planVars, pos, tally>>,
           \/ phase' = phase
           \/ phase \in {"loop", "copy"} /\ phase' \in {"loop", "copy", "done"},
           verified \subseteq verified'
    PROVE  CountInv'
<1> SUFFICES ASSUME Planned' PROVE CountInv'
  BY DEF CountInv
<1>1. read' = read /\ plan' = plan /\ totals' = totals /\ pos' = pos /\ tally' = tally
  BY DEF planVars
<1>2. /\ Planned /\ Frontier' = Frontier /\ (Running' => Running)
      /\ (phase' \in {"plan", "measure"} => phase \in {"plan", "measure"})
  BY <1>1 DEF Planned, Frontier, Running
<1>3. PICK g : Walk(g) /\ (Running => Progress(g[pos]))
  BY <1>2 DEF CountInv
<1>4. Walk(g)'
  BY <1>1, <1>2, <1>3 DEF Walk
<1>5. NoContentLeftOut'
  BY <1>1, <1>2 DEF NoContentLeftOut, CountInv
<1>6. ASSUME Running' PROVE Progress(g[pos])'
  BY <1>1, <1>2, <1>3, <1>6 DEF Progress
<1> QED
  BY <1>1, <1>2, <1>4, <1>5, <1>6 DEF CountInv

\* A job starts with nothing counted.
LEMMA MeasureCounts ==
    ASSUME RoomInv, CountInv, Measure
    PROVE  CountInv'
<1>1. /\ phase = "measure" /\ UNCHANGED <<read, plan, totals, tally>>
      /\ (phase' = "idle" \/ (phase' = "loop" /\ pos' = 1))
  BY DEF Measure, planVars
<1> SUFFICES ASSUME phase' = "loop", pos' = 1 PROVE CountInv'
  BY <1>1 DEF CountInv, Planned
<1>2. Planned /\ Frontier = NumFiles + 1 /\ Frontier' = NumFiles + 1
  BY <1>1 DEF Planned, Frontier
<1>3. tally = NoTally /\ NoContentLeftOut
  BY <1>1, <1>2 DEF CountInv
<1>4. PICK g : Walk(g)
  BY <1>2 DEF CountInv
<1>5. Walk(g)' /\ g[1] = NoTotals
  BY <1>1, <1>2, <1>4 DEF Walk
<1>6. NoContentLeftOut'
  BY <1>1, <1>2, <1>3 DEF NoContentLeftOut
<1>7. \A f \in File : ~(f < 1)
  BY ConfigIsNatural DEF File
<1>8. \A t : t = NoTotals => Progress(t)'
  BY <1>1, <1>3, <1>7 DEF Progress, NoTally, NoTotals
<1>9. Progress(g[pos])'
  BY <1>5, <1>8
<1> QED
  BY <1>5, <1>6, <1>9 DEF CountInv

\* Counters u are counters t and what d adds.
Adds(u, t, d) ==
    d \in [DOMAIN NoTally -> Nat] /\ \A k \in DOMAIN NoTally : u[k] = t[k] + d[k]

\* One file more: what the job counts for it, d, fits what the plan counted.
Fits(d) ==
    /\ d.verified + d.failed + One(plan[pos] = "SKIP_UNSUPPORTED") = One(plan[pos] # "NONE")
    /\ d.bytes <= Cost(pos)
    /\ d.copied <= One(plan[pos] = "COPY_VERIFY_OBJECT_AND_LINK")
    /\ d.copied + d.skipped <= d.verified
    /\ d.done <= One(plan[pos] # "NONE") /\ d.bytesDone <= SizeOf(read[pos])
    /\ d.failed = 0 =>
        d.done = One(plan[pos] # "NONE") /\ d.bytesDone = SizeOf(read[pos])

LEMMA FileCounted ==
    ASSUME RoomInv, CountInv, phase \in {"loop", "copy"}, pos \in File,
           phase' = "loop", pos' = pos + 1, UNCHANGED planVars,
           verified \subseteq verified',
           NEW d, Fits(d), Adds(tally', tally, d),
           d.failed = 0 /\ read[pos] \in Content => read[pos] \in verified'
    PROVE  CountInv'
<1>1. read' = read /\ plan' = plan /\ totals' = totals
  BY DEF planVars
<1>2. Planned /\ Running /\ Frontier = NumFiles + 1 /\ Frontier' = NumFiles + 1
  BY DEF Planned, Running, Frontier
<1>3. PICK g : Walk(g) /\ Progress(g[pos])
  BY <1>2 DEF CountInv
<1>4. Walk(g)'
  BY <1>1, <1>2, <1>3 DEF Walk
<1>5. NoContentLeftOut'
  BY <1>1, <1>2 DEF NoContentLeftOut, CountInv
<1> DEFINE t == g[pos]
           u == g[pos + 1]
<1>6. /\ NumFiles \in Nat /\ pos \in Nat /\ 1 <= pos /\ pos <= NumFiles
      /\ \A f \in File : f \in Nat
  BY ConfigIsNatural DEF File
<1>7. u = Counted(t, read[pos], plan[pos])
  BY <1>2, <1>3, <1>6 DEF Walk
<1>8. t \in Totals
  BY <1>3, <1>6 DEF Walk
<1> HIDE DEF t, u
<1>9. /\ u.unsupported = t.unsupported + One(plan[pos] = "SKIP_UNSUPPORTED")
      /\ u.entries = t.entries + One(plan[pos] # "NONE")
      /\ u.bytes = t.bytes + Cost(pos)
      /\ u.count = t.count + One(plan[pos] = "COPY_VERIFY_OBJECT_AND_LINK")
      /\ u.source = t.source + SizeOf(read[pos])
  BY <1>7 DEF Counted, Cost
<1>10. /\ t.unsupported \in Nat /\ t.entries \in Nat /\ t.bytes \in Nat
       /\ t.count \in Nat /\ t.source \in Nat
  BY <1>8 DEF Totals, NoTotals
<1>11. DOMAIN NoTally = {"verified", "copied", "skipped", "failed", "bytes", "done",
                         "bytesDone"}
  BY DEF NoTally
<1>12. /\ tally.verified \in Nat /\ tally.failed \in Nat /\ tally.copied \in Nat
       /\ tally.skipped \in Nat /\ tally.bytes \in Nat /\ tally.done \in Nat
       /\ tally.bytesDone \in Nat
  BY <1>11 DEF RoomInv, TypeOK
<1>13. /\ d.verified \in Nat /\ d.failed \in Nat /\ d.copied \in Nat
       /\ d.skipped \in Nat /\ d.bytes \in Nat /\ d.done \in Nat /\ d.bytesDone \in Nat
  BY <1>11 DEF Adds
<1>14. /\ tally'.verified = tally.verified + d.verified
       /\ tally'.failed = tally.failed + d.failed
       /\ tally'.copied = tally.copied + d.copied
       /\ tally'.skipped = tally.skipped + d.skipped
       /\ tally'.bytes = tally.bytes + d.bytes
       /\ tally'.done = tally.done + d.done
       /\ tally'.bytesDone = tally.bytesDone + d.bytesDone
  BY <1>11 DEF Adds
<1>15. /\ One(plan[pos] = "SKIP_UNSUPPORTED") \in Nat /\ One(plan[pos] # "NONE") \in Nat
       /\ One(plan[pos] = "COPY_VERIFY_OBJECT_AND_LINK") \in Nat
       /\ Cost(pos) \in Nat /\ SizeOf(read[pos]) \in Nat
  <2>1. read[pos] \in Content \union Mark
    BY DEF RoomInv, TypeOK
  <2> QED
    BY <2>1, Sizes DEF One, Cost
<1>16. /\ tally.verified + tally.failed + t.unsupported = t.entries
       /\ tally.bytes <= t.bytes /\ tally.copied <= t.count
       /\ tally.copied + tally.skipped <= tally.verified
       /\ tally.done <= t.entries /\ tally.bytesDone <= t.source
       /\ tally.failed = 0 =>
            /\ tally.done = t.entries /\ tally.bytesDone = t.source
            /\ \A f \in File : f < pos /\ read[f] \in Content => read[f] \in verified
  BY <1>3 DEF Progress, t
<1>17. /\ tally'.verified + tally'.failed + u.unsupported = u.entries
       /\ tally'.bytes <= u.bytes /\ tally'.copied <= u.count
       /\ tally'.copied + tally'.skipped <= tally'.verified
       /\ tally'.done <= u.entries /\ tally'.bytesDone <= u.source
  BY <1>9, <1>10, <1>12, <1>13, <1>14, <1>15, <1>16 DEF Fits
<1>18. ASSUME tally'.failed = 0
       PROVE  /\ tally'.done = u.entries /\ tally'.bytesDone = u.source
              /\ \A f \in File : f < pos + 1 /\ read[f] \in Content
                                   => read[f] \in verified'
  <2>1. tally.failed = 0 /\ d.failed = 0
    BY <1>12, <1>13, <1>14, <1>18
  <2>2. tally'.done = u.entries /\ tally'.bytesDone = u.source
    BY <1>9, <1>14, <1>16, <2>1 DEF Fits
  <2>3. \A f \in File : f < pos + 1 => f < pos \/ f = pos
    BY <1>6
  <2> QED
    BY <1>16, <2>1, <2>2, <2>3
<1>19. Progress(g[pos])'
  <2>1. g[pos'] = u
    BY DEF u
  <2> QED
    BY <1>1, <1>17, <1>18, <2>1 DEF Progress
<1> QED
  BY <1>4, <1>5, <1>19 DEF CountInv

\* The file at hand, while a job is at work on it.
LEMMA FileAtHand ==
    ASSUME RoomInv, CountInv, phase \in {"loop", "copy"}, pos \in File
    PROVE  /\ plan[pos] = "NONE" => SizeOf(read[pos]) = 0 /\ read[pos] \notin Content
           /\ plan[pos] = "SKIP_UNSUPPORTED"
                => SizeOf(read[pos]) = 0 /\ read[pos] \notin Content
           /\ plan[pos] = "COPY_VERIFY_OBJECT_AND_LINK" => Cost(pos) = Size[read[pos]]
           /\ SizeOf(read[pos]) \in Nat /\ Cost(pos) \in Nat
           /\ tally \in [DOMAIN NoTally -> Nat]
<1>1. Planned /\ Frontier = NumFiles + 1
  BY DEF Planned, Frontier
<1>2. pos < NumFiles + 1
  BY ConfigIsNatural DEF File
<1>3. /\ plan[pos] = "NONE" => read[pos] = "LEFT_OUT"
      /\ plan[pos] = "SKIP_UNSUPPORTED" => read[pos] = "UNSUPPORTED"
  BY <1>1, <1>2 DEF CountInv, NoContentLeftOut
<1>4. "LEFT_OUT" \notin Content /\ "UNSUPPORTED" \notin Content
  BY MarksAreNoContent DEF Mark
<1>5. read[pos] \in Content \union Mark /\ tally \in [DOMAIN NoTally -> Nat]
  BY DEF RoomInv, TypeOK
<1>6. SizeOf(read[pos]) \in Nat
  BY <1>5, Sizes
<1>7. plan[pos] = "COPY_VERIFY_OBJECT_AND_LINK" => read[pos] \in Content
  BY DEF RoomInv, CopiesContent
<1> QED
  BY <1>3, <1>4, <1>5, <1>6, <1>7 DEF SizeOf, Cost

\* What one file adds to the counters.
Result(v, c, s, f, b, n, m) ==
    [verified |-> v, copied |-> c, skipped |-> s, failed |-> f, bytes |-> b, done |-> n,
     bytesDone |-> m]

LEMMA Added ==
    ASSUME NEW t \in [DOMAIN NoTally -> Nat], NEW z \in Nat
    PROVE  /\ Adds(t, t, Result(0, 0, 0, 0, 0, 0, 0))
           /\ Adds([t EXCEPT !.done = @ + 1, !.bytesDone = @ + z], t,
                   Result(0, 0, 0, 0, 0, 1, z))
           /\ Adds([[t EXCEPT !.verified = @ + 1, !.copied = @ + 1]
                      EXCEPT !.done = @ + 1, !.bytesDone = @ + z], t,
                   Result(1, 1, 0, 0, 0, 1, z))
           /\ Adds([[t EXCEPT !.failed = @ + 1]
                      EXCEPT !.done = @ + 1, !.bytesDone = @ + z], t,
                   Result(0, 0, 0, 1, 0, 1, z))
           /\ Adds([t EXCEPT !.failed = @ + 1], t, Result(0, 0, 0, 1, 0, 0, 0))
<1>1. DOMAIN NoTally = {"verified", "copied", "skipped", "failed", "bytes", "done",
                        "bytesDone"}
  BY DEF NoTally
<1>2. /\ t.verified \in Nat /\ t.copied \in Nat /\ t.skipped \in Nat /\ t.failed \in Nat
      /\ t.bytes \in Nat /\ t.done \in Nat /\ t.bytesDone \in Nat
  BY <1>1
<1>3. DOMAIN t = DOMAIN NoTally
  OBVIOUS
<1> QED
  BY <1>1, <1>2, <1>3 DEF Adds, Result

LEMMA AddedWith ==
    ASSUME NEW t \in [DOMAIN NoTally -> Nat], NEW n \in Nat, NEW z \in Nat
    PROVE  /\ Adds([[t EXCEPT !.verified = @ + 1, !.skipped = @ + n]
                      EXCEPT !.done = @ + 1, !.bytesDone = @ + z], t,
                   Result(1, 0, n, 0, 0, 1, z))
           /\ Adds([[t EXCEPT !.verified = @ + 1, !.copied = @ + 1, !.bytes = @ + n]
                      EXCEPT !.done = @ + 1, !.bytesDone = @ + z], t,
                   Result(1, 1, 0, 0, n, 1, z))
<1>1. DOMAIN NoTally = {"verified", "copied", "skipped", "failed", "bytes", "done",
                        "bytesDone"}
  BY DEF NoTally
<1>2. /\ t.verified \in Nat /\ t.copied \in Nat /\ t.skipped \in Nat /\ t.failed \in Nat
      /\ t.bytes \in Nat /\ t.done \in Nat /\ t.bytesDone \in Nat
  BY <1>1
<1>3. DOMAIN t = DOMAIN NoTally
  OBVIOUS
<1> QED
  BY <1>1, <1>2, <1>3 DEF Adds, Result

LEMMA LinkStepsCount ==
    ASSUME RoomInv, CountInv, NoEntry \/ SkipUnsupported \/ Link \/ LinkFails \/ CopyPresent
    PROVE  CountInv'
<1> DEFINE z == SizeOf(read[pos])
<1>1. phase \in {"loop", "copy"} /\ phase = "loop" /\ pos \in File
  BY DEF NoEntry, SkipUnsupported, Link, LinkFails, CopyPresent, Linking, Copying, AtFile
<1>2. tally \in [DOMAIN NoTally -> Nat] /\ z \in Nat /\ Cost(pos) \in Nat
  BY <1>1, FileAtHand
<1> HIDE DEF z
<1>3. CASE NoEntry
  <2>1. /\ plan[pos] = "NONE" /\ pos' = pos + 1 /\ phase' = "loop"
        /\ UNCHANGED planVars /\ tally' = tally /\ verified' = verified
    BY <1>1, <1>3 DEF NoEntry, storeVars
  <2> DEFINE d == Result(0, 0, 0, 0, 0, 0, 0)
  <2>2. Adds(tally', tally, d)
    BY <1>2, <2>1, Added
  <2>3. z = 0 /\ read[pos] \notin Content
    BY <1>1, <2>1, FileAtHand DEF z
  <2>4. Fits(d)
    BY <1>2, <2>1, <2>2, <2>3 DEF Fits, Adds, Result, One, z
  <2> HIDE DEF d
  <2> QED
    BY <1>1, <2>1, <2>2, <2>3, <2>4, FileCounted
<1>4. CASE SkipUnsupported
  <2>1. /\ plan[pos] = "SKIP_UNSUPPORTED" /\ pos' = pos + 1 /\ phase' = "loop"
        /\ UNCHANGED planVars /\ verified' = verified
        /\ tally' = [tally EXCEPT !.done = @ + 1, !.bytesDone = @ + z]
    BY <1>4 DEF SkipUnsupported, NextFile, storeVars, Here, z
  <2> DEFINE d == Result(0, 0, 0, 0, 0, 1, z)
  <2>2. Adds(tally', tally, d)
    BY <1>2, <2>1, Added
  <2>3. z = 0 /\ read[pos] \notin Content
    BY <1>1, <2>1, FileAtHand DEF z
  <2>4. Fits(d)
    BY <1>2, <2>1, <2>2, <2>3 DEF Fits, Adds, Result, One, z
  <2> HIDE DEF d
  <2> QED
    BY <1>1, <2>1, <2>2, <2>3, <2>4, FileCounted
<1>5. CASE Link
  <2> DEFINE n == One(plan[pos] = "LINK_EXISTING_VERIFIED_OBJECT")
  <2>1. /\ plan[pos] \in {"LINK_EXISTING_VERIFIED_OBJECT", "LINK_NEW_OBJECT_SAME_JOB"}
        /\ pos' = pos + 1 /\ phase' = "loop"
        /\ UNCHANGED planVars /\ verified' = verified \union {read[pos]}
        /\ tally' = [[tally EXCEPT !.verified = @ + 1, !.skipped = @ + n]
                        EXCEPT !.done = @ + 1, !.bytesDone = @ + z]
    BY <1>5 DEF Link, Linking, NextFile, Here, z
  <2> DEFINE d == Result(1, 0, n, 0, 0, 1, z)
  <2>2. n \in Nat /\ n <= 1
    BY DEF One
  <2> HIDE DEF n
  <2>3. Adds(tally', tally, d)
    BY <1>2, <2>1, <2>2, AddedWith
  <2>4. Fits(d)
    BY <1>2, <2>1, <2>2, <2>3 DEF Fits, Adds, Result, One, z
  <2>5. read[pos] \in verified' /\ verified \subseteq verified'
    BY <2>1
  <2> HIDE DEF d
  <2> QED
    BY <1>1, <2>1, <2>3, <2>4, <2>5, FileCounted
<1>6. CASE LinkFails
  <2>1. /\ plan[pos] \in {"LINK_EXISTING_VERIFIED_OBJECT", "LINK_NEW_OBJECT_SAME_JOB"}
        /\ pos' = pos + 1 /\ phase' = "loop" /\ UNCHANGED planVars /\ verified' = verified
        /\ tally' = [[tally EXCEPT !.failed = @ + 1]
                        EXCEPT !.done = @ + 1, !.bytesDone = @ + z]
    BY <1>6 DEF LinkFails, Linking, NextFile, Here, storeVars, z
  <2> DEFINE d == Result(0, 0, 0, 1, 0, 1, z)
  <2>2. Adds(tally', tally, d)
    BY <1>2, <2>1, Added
  <2>3. Fits(d) /\ d.failed # 0
    BY <1>2, <2>1, <2>2 DEF Fits, Adds, Result, One, z
  <2> HIDE DEF d
  <2> QED
    BY <1>1, <2>1, <2>2, <2>3, FileCounted
<1>7. CASE CopyPresent
  <2>1. /\ plan[pos] = "COPY_VERIFY_OBJECT_AND_LINK"
        /\ pos' = pos + 1 /\ phase' = "loop"
        /\ UNCHANGED planVars /\ verified' = verified \union {read[pos]}
        /\ tally' = [[tally EXCEPT !.verified = @ + 1, !.copied = @ + 1]
                        EXCEPT !.done = @ + 1, !.bytesDone = @ + z]
    BY <1>7 DEF CopyPresent, Copying, NextFile, Here, z
  <2> DEFINE d == Result(1, 1, 0, 0, 0, 1, z)
  <2>2. Adds(tally', tally, d)
    BY <1>2, <2>1, Added
  <2>3. Fits(d)
    BY <1>2, <2>1, <2>2 DEF Fits, Adds, Result, One, z
  <2>4. read[pos] \in verified' /\ verified \subseteq verified'
    BY <2>1
  <2> HIDE DEF d
  <2> QED
    BY <1>1, <2>1, <2>2, <2>3, <2>4, FileCounted
<1> QED
  BY <1>3, <1>4, <1>5, <1>6, <1>7

LEMMA CopyStepsCount ==
    ASSUME RoomInv, CountInv,
           Finalize \/ FinalizeRaises \/ CopyRaises \/ (Mismatch /\ ~(attempts <= Retries))
    PROVE  CountInv'
<1> DEFINE z == SizeOf(read[pos])
<1>1. /\ phase \in {"loop", "copy"} /\ pos \in File
      /\ plan[pos] = "COPY_VERIFY_OBJECT_AND_LINK"
  BY DEF Finalize, FinalizeRaises, CopyRaises, Mismatch, Complete, Copying, AtFile,
         RoomInv, CopyIsPlanned
<1>2. /\ tally \in [DOMAIN NoTally -> Nat] /\ z \in Nat /\ Cost(pos) \in Nat
      /\ Cost(pos) = Size[read[pos]]
  BY <1>1, FileAtHand
<1> HIDE DEF z
<1>3. CASE Finalize
  <2> DEFINE n == Size[read[pos]]
  <2>1. /\ pos' = pos + 1 /\ phase' = "loop"
        /\ UNCHANGED planVars /\ verified' = verified \union {read[pos]}
        /\ tally' = [[tally EXCEPT !.verified = @ + 1, !.copied = @ + 1, !.bytes = @ + n]
                        EXCEPT !.done = @ + 1, !.bytesDone = @ + z]
    BY <1>3 DEF Finalize, NextFile, Here, z
  <2> DEFINE d == Result(1, 1, 0, 0, n, 1, z)
  <2>2. n \in Nat /\ n = Cost(pos)
    BY <1>2
  <2> HIDE DEF n
  <2>3. Adds(tally', tally, d)
    BY <1>2, <2>1, <2>2, AddedWith
  <2>4. Fits(d)
    BY <1>1, <1>2, <2>2, <2>3 DEF Fits, Adds, Result, One, z
  <2>5. read[pos] \in verified' /\ verified \subseteq verified'
    BY <2>1
  <2> HIDE DEF d
  <2> QED
    BY <1>1, <2>1, <2>3, <2>4, <2>5, FileCounted
<1>4. CASE FinalizeRaises \/ CopyRaises
  <2>1. /\ pos' = pos + 1 /\ phase' = "loop" /\ UNCHANGED planVars /\ verified' = verified
        /\ tally' = [tally EXCEPT !.failed = @ + 1]
    BY <1>4 DEF FinalizeRaises, CopyRaises, FailedByError, storeVars
  <2> DEFINE d == Result(0, 0, 0, 1, 0, 0, 0)
  <2>2. Adds(tally', tally, d)
    BY <1>2, <2>1, Added
  <2>3. Fits(d) /\ d.failed # 0
    BY <1>1, <1>2, <2>2 DEF Fits, Adds, Result, One, z
  <2> HIDE DEF d
  <2> QED
    BY <1>1, <2>1, <2>2, <2>3, FileCounted
<1>5. CASE Mismatch /\ ~(attempts <= Retries)
  <2>1. /\ pos' = pos + 1 /\ phase' = "loop" /\ UNCHANGED planVars /\ verified' = verified
        /\ tally' = [[tally EXCEPT !.failed = @ + 1]
                        EXCEPT !.done = @ + 1, !.bytesDone = @ + z]
    BY <1>5 DEF Mismatch, NextFile, Here, z
  <2> DEFINE d == Result(0, 0, 0, 1, 0, 1, z)
  <2>2. Adds(tally', tally, d)
    BY <1>2, <2>1, Added
  <2>3. Fits(d) /\ d.failed # 0
    BY <1>1, <1>2, <2>2 DEF Fits, Adds, Result, One, z
  <2> HIDE DEF d
  <2> QED
    BY <1>1, <2>1, <2>2, <2>3, FileCounted
<1> QED
  BY <1>3, <1>4, <1>5

LEMMA JobStepCounts ==
    ASSUME RoomInv, CountInv, JobStep
    PROVE  CountInv'
<1>1. CASE NoEntry \/ SkipUnsupported \/ Link \/ LinkFails \/ CopyPresent
  BY <1>1, LinkStepsCount
<1>2. CASE Finalize \/ FinalizeRaises \/ CopyRaises \/ (Mismatch /\ ~(attempts <= Retries))
  BY <1>2, CopyStepsCount
<1>3. CASE WorkerRaises
  BY <1>3 DEF WorkerRaises, CountInv, Planned
<1>4. CASE BeginCopy \/ WriteByte \/ EndJob \/ (Mismatch /\ attempts <= Retries)
  <2>1. /\ UNCHANGED <<planVars, pos, tally>> /\ verified' = verified
        /\ phase \in {"loop", "copy"} /\ phase' \in {"loop", "copy", "done"}
    BY <1>4 DEF BeginCopy, WriteByte, EndJob, Mismatch, Copying, AtFile, storeVars
  <2> QED
    BY <2>1, NothingCounted
<1> QED
  BY <1>1, <1>2, <1>3, <1>4 DEF JobStep

LEMMA NextCounts == RoomInv /\ CountInv /\ [Next]_vars => CountInv'
<1> SUFFICES ASSUME RoomInv, CountInv, [Next]_vars PROVE CountInv'
  OBVIOUS
<1>1. CASE Scan
  BY <1>1, ScanCounts
<1>2. CASE PlanFile
  BY <1>2, PlanFileCounts
<1>3. CASE Measure
  BY <1>3, MeasureCounts
<1>4. CASE JobStep
  BY <1>4, JobStepCounts
<1>5. CASE OthersWrite \/ UNCHANGED vars
  <2>1. UNCHANGED <<planVars, pos, tally>> /\ phase' = phase /\ verified' = verified
    BY <1>5 DEF OthersWrite, vars, storeVars
  <2> QED
    BY <2>1, NothingCounted
<1>6. CASE Restart \/ Serve
  BY <1>6 DEF Restart, Serve, CountInv, Planned
<1>7. CASE \E c \in Content : RemoveOrphan(c)
  BY <1>7 DEF RemoveOrphan, CountInv, Planned
<1> QED
  BY <1>1, <1>2, <1>3, <1>4, <1>5, <1>6, <1>7 DEF Next

\* What a job reports adds up with its plan, for every course of errors,
\* retries and cancellations, and a job without a failure has everything.
THEOREM JobsReportWhatTheyDid == Spec => []ResultAddsUp
<1>1. Init => CountInv
  BY DEF Init, CountInv, Planned
<1>2. RoomInv /\ CountInv => ResultAddsUp
  <2> SUFFICES ASSUME RoomInv, CountInv, phase = "done", pos > NumFiles
               PROVE  ResultAddsUp
    BY DEF ResultAddsUp
  <2>1. Planned /\ Running /\ Frontier = NumFiles + 1
    BY DEF Planned, Running, Frontier
  <2>2. pos \in 1..NumFiles + 1 /\ NumFiles \in Nat
    BY <2>1, ConfigIsNatural DEF RoomInv, RoomIsCounted
  <2>3. pos = Frontier
    BY <2>1, <2>2
  <2>4. PICK g : Walk(g) /\ Progress(g[pos])
    BY <2>1 DEF CountInv
  <2>5. Progress(totals)
    BY <2>3, <2>4 DEF Walk
  <2>6. \A f \in File : f < pos
    BY <2>2, <2>3, <2>1 DEF File
  <2> QED
    BY <2>5, <2>6 DEF Progress, ResultAddsUp
<1> QED
  BY <1>1, <1>2, NextCounts, RoomInvariant, PTL DEF Spec

=============================================================================
