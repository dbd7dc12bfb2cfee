-------------------------- MODULE EventStreamProof --------------------------
(***************************************************************************)
(* What EventStream guarantees for any number of threads, events,          *)
(* connections and restarts, and any capacity of the buffer.               *)
(***************************************************************************)
EXTENDS EventStream, SequenceTheorems, WellFoundedInduction, TLAPS

-----------------------------------------------------------------------------
(* The inductive invariant.                                                *)

\* The buffer holds the newest events of this process, without a gap.
BufferInv ==
    /\ Len(recent) <= sequence
    /\ \A i \in DOMAIN recent :
           recent[i].boot = boot /\ recent[i].n = sequence - Len(recent) + i

\* An event that was published in this process.
Published(e) == e.boot = boot /\ e.n <= sequence

\* Each thread has at most one event to hand over.
BusInv ==
    \A p \in Publisher :
        /\ Len(dispatching[p]) <= 1
        /\ \A d \in DOMAIN dispatching[p] :
               Published(dispatching[p][d]) /\ dispatching[p][d].by = p

\* The queue holds each thread's events in order, and what a thread has
\* still to hand over is newer.
QueueInv ==
    /\ \A k \in DOMAIN queue : Published(queue[k])
    /\ \A j, k \in DOMAIN queue :
           j < k /\ queue[j].by = queue[k].by => queue[j].n < queue[k].n
    /\ \A k \in DOMAIN queue : \A p \in Publisher : \A d \in DOMAIN dispatching[p] :
           queue[k].by = p => queue[k].n < dispatching[p][d].n

\* The browser names its highest number; what is to be replayed is newer,
\* in order, and not above the mark that the queue is compared with.
ReplayInv ==
    /\ phase \in {"open", "subscribed"} => since = lastSeq
    /\ phase = "replay" =>
           /\ lastSeq <= highest
           /\ \A i \in DOMAIN backlog :
                  /\ Published(backlog[i])
                  /\ lastSeq < backlog[i].n /\ backlog[i].n <= highest
           /\ \A i, j \in DOMAIN backlog : i < j => backlog[i].n < backlog[j].n
    /\ phase = "live" => backlog = <<>>
    /\ phase \in {"replay", "live"} => highest <= since \/ highest <= sequence

\* What the browser was shown is not above its mark, and older than the
\* same thread's events that it has still to be sent.
ShownInv ==
    /\ \A i \in DOMAIN received :
           /\ received[i].boot <= boot /\ received[i].n <= lastSeq
           /\ received[i].boot = boot => received[i].n <= sequence
    /\ phase \in {"replay", "live"} =>
           \A i \in DOMAIN received : received[i].boot = boot =>
               /\ \A k \in DOMAIN queue :
                      queue[k].by = received[i].by /\ queue[k].n > highest =>
                          received[i].n < queue[k].n
               /\ \A d \in DOMAIN dispatching[received[i].by] :
                      dispatching[received[i].by][d].n > highest =>
                          received[i].n < dispatching[received[i].by][d].n

Holds(s, n) == \E i \in DOMAIN s : s[i].n = n

\* An event on its way to the browser: still to be replayed, or newer than
\* the replay and queued or being handed over.
OnItsWay(n) ==
    \/ Holds(backlog, n)
    \/ n > highest /\ (Holds(queue, n) \/ \E p \in Publisher : Holds(dispatching[p], n))

\* Since the first replayed event every event was shown or is on its way.
CoverInv ==
    phase \in {"replay", "live"} =>
        \A n \in first..sequence : n > since => Got(n) \/ OnItsWay(n)

Inv ==
    /\ TypeOK /\ BufferInv /\ BusInv /\ QueueInv /\ ReplayInv /\ ShownInv /\ CoverInv
    /\ ThreadOrderKept
-----------------------------------------------------------------------------
(* Sequences and numbers.                                                  *)

LEMMA LeastNumber ==
    ASSUME NEW T, T \subseteq Nat, T # {}
    PROVE  \E x \in T : \A y \in T : x <= y
<1> DEFINE R == {ss \in Nat \X Nat : ss[1] < ss[2]}
<1>1. IsWellFoundedOn(R, Nat)
  BY NatLessThanWellFounded DEF OpToRel
<1> HIDE DEF R
<1>2. PICK x \in T : \A y \in T : ~ (<<y, x>> \in R)
  BY <1>1, WFMin, Zenon
<1>3. ASSUME NEW y \in T PROVE x <= y
  <2>1. <<y, x>> \in Nat \X Nat /\ <<y, x>>[1] = y /\ <<y, x>>[2] = x
    OBVIOUS
  <2> QED
    BY <1>2, <2>1 DEF R
<1> QED
  BY <1>3

LEMMA AppendIs ==
    ASSUME NEW S, NEW s \in Seq(S), NEW e \in S
    PROVE  /\ Append(s, e) \in Seq(S) /\ Len(Append(s, e)) = Len(s) + 1
           /\ DOMAIN Append(s, e) = 1..Len(s) + 1
           /\ \A i \in DOMAIN s : Append(s, e)[i] = s[i]
           /\ Append(s, e)[Len(s) + 1] = e
  BY AppendProperties, LenProperties

LEMMA TailIs ==
    ASSUME NEW S, NEW s \in Seq(S), s # <<>>
    PROVE  /\ Tail(s) \in Seq(S) /\ Len(Tail(s)) = Len(s) - 1
           /\ DOMAIN Tail(s) = 1..Len(s) - 1
           /\ \A i \in DOMAIN Tail(s) : i + 1 \in DOMAIN s /\ Tail(s)[i] = s[i + 1]
           /\ Head(s) = s[1] /\ 1 \in DOMAIN s
  BY HeadTailProperties, LenProperties, EmptySeq

-----------------------------------------------------------------------------
(* What events_since takes from the buffer.                                *)

\* Where the buffer is older up to some place and newer from there on, the
\* events taken are its end.
LEMMA TakenIsEnd ==
    ASSUME NEW S, recent \in Seq(S), NEW k \in 0..Len(recent),
           \A i \in 1..k : ~ (recent[i].n > since),
           \A i \in k + 1..Len(recent) : recent[i].n > since
    PROVE  EventsSince = SubSeq(recent, k + 1, Len(recent))
<1> DEFINE Step(F, i) == IF i = 0 THEN <<>>
                         ELSE IF recent[i].n > since THEN Append(F[i - 1], recent[i])
                         ELSE F[i - 1]
           Takes(F) == F = [i \in 0..Len(recent) |-> Step(F, i)]
           End == [i \in 0..Len(recent) |-> SubSeq(recent, k + 1, i)]
           kept == CHOOSE F : Takes(F)
<1>1. Len(recent) \in Nat
  BY LenProperties
<1>2. ASSUME NEW i \in 0..Len(recent) PROVE End[i] = Step(End, i)
  <2>1. CASE i <= k
    <3>1. End[i] = <<>>
      BY <1>1, <2>1, SubSeqEmpty
    <3>2. i # 0 => End[i - 1] = <<>>
      BY <1>1, <2>1, SubSeqEmpty
    <3> QED
      BY <1>1, <2>1, <3>1, <3>2
  <2>2. CASE i > k
    <3>1. SubSeq(recent, k + 1, i) = Append(SubSeq(recent, k + 1, i - 1), recent[i])
      BY <1>1, <2>2
    <3>2. i # 0 /\ i - 1 \in 0..Len(recent) /\ recent[i].n > since
      BY <1>1, <2>2
    <3>3. End[i] = Append(End[i - 1], recent[i])
      BY <3>1, <3>2
    <3> HIDE DEF End
    <3> QED
      BY <3>2, <3>3
  <2> HIDE DEF End, Step
  <2> QED
    BY <1>1, <2>1, <2>2
<1>3. Takes(End)
  BY <1>2
<1>4. Takes(kept)
  <2> HIDE DEF Takes
  <2> QED
    BY <1>3
<1>5. ASSUME NEW i \in 0..Len(recent) PROVE kept[i] = Step(kept, i)
  <2> HIDE DEF kept
  <2> QED
    BY <1>4
<1> DEFINE Differ == {i \in 0..Len(recent) : kept[i] # End[i]}
<1>6. ASSUME Differ # {} PROVE FALSE
  <2>1. Differ \subseteq Nat
    BY <1>1
  <2>2. PICK i \in Differ : \A j \in Differ : i <= j
    <3> HIDE DEF Differ
    <3> QED
      BY <1>6, <2>1, LeastNumber
  <2>3. i \in 0..Len(recent) /\ kept[i] # End[i]
    <3> HIDE DEF kept, End
    <3> QED
      OBVIOUS
  <2>4. i # 0 => i - 1 \in 0..Len(recent) /\ i - 1 \notin Differ
    <3> HIDE DEF Differ
    <3> QED
      BY <1>1, <2>2, <2>3
  <2>5. i # 0 => kept[i - 1] = End[i - 1]
    <3> HIDE DEF kept, End
    <3> QED
      BY <2>4
  <2>6. kept[i] = Step(kept, i) /\ End[i] = Step(End, i)
    BY <1>2, <1>5, <2>3
  <2> HIDE DEF kept, End
  <2> QED
    BY <2>3, <2>5, <2>6
<1>7. kept[Len(recent)] = End[Len(recent)]
  <2> HIDE DEF kept, End
  <2> QED
    BY <1>1, <1>6
<1>8. EventsSince = kept[Len(recent)]
  BY Zenon DEF EventsSince
<1>9. End[Len(recent)] = SubSeq(recent, k + 1, Len(recent))
  BY <1>1
<1> HIDE DEF kept, End
<1> QED
  BY <1>7, <1>8, <1>9

\* Whatever was named, there is a place in the buffer where newer begins.
LEMMA NewerFrom ==
    ASSUME TypeOK, BufferInv
    PROVE  \E k \in 0..Len(recent) :
               /\ \A i \in 1..k : ~ (recent[i].n > since)
               /\ \A i \in k + 1..Len(recent) : recent[i].n > since
<1> DEFINE L == Len(recent)
           older == since + L - sequence
<1>1. L \in Nat /\ L <= sequence /\ sequence \in Nat /\ since \in Nat
  BY LenProperties DEF TypeOK, BufferInv
<1>2. ASSUME NEW i \in 1..L PROVE recent[i].n = sequence - L + i
  BY LenProperties DEF TypeOK, BufferInv
<1> HIDE DEF L
<1>3. CASE older < 0
  <2>1. \A i \in 1..L : recent[i].n > since
    BY <1>1, <1>2, <1>3
  <2> QED
    BY <1>1, <2>1 DEF L
<1>4. CASE older \in 0..L
  <2>1. \A i \in 1..older : ~ (recent[i].n > since)
    BY <1>1, <1>2, <1>4
  <2>2. \A i \in older + 1..L : recent[i].n > since
    BY <1>1, <1>2, <1>4
  <2> QED
    BY <1>4, <2>1, <2>2 DEF L
<1>5. CASE older > L
  <2>1. \A i \in 1..L : ~ (recent[i].n > since)
    BY <1>1, <1>2, <1>5
  <2> QED
    BY <1>1, <2>1 DEF L
<1>6. older < 0 \/ older \in 0..L \/ older > L
  BY <1>1
<1> HIDE DEF older
<1> QED
  BY <1>3, <1>4, <1>5, <1>6

\* What is taken is newer than what was named, in order, and everything
\* published since its first event.
LEMMA Taken ==
    ASSUME TypeOK, BufferInv
    PROVE  /\ EventsSince \in Seq(Event)
           /\ \A i \in DOMAIN EventsSince :
                  /\ Published(EventsSince[i]) /\ EventsSince[i].n \in Nat
                  /\ since < EventsSince[i].n /\ EventsSince[i].n <= HighestReplayed
           /\ \A i, j \in DOMAIN EventsSince :
                  i < j => EventsSince[i].n < EventsSince[j].n
           /\ HighestReplayed \in Nat /\ since <= HighestReplayed
           /\ HighestReplayed <= since \/ HighestReplayed <= sequence
           /\ EventsSince # <<>> =>
                  /\ Head(EventsSince).n \in Nat
                  /\ \A n \in Head(EventsSince).n..sequence : Holds(EventsSince, n)
<1> DEFINE L == Len(recent)
<1>1. PICK k \in 0..L :
          /\ \A i \in 1..k : ~ (recent[i].n > since)
          /\ \A i \in k + 1..L : recent[i].n > since
  BY NewerFrom
<1>2. recent \in Seq(Event) /\ sequence \in Nat /\ since \in Nat
  BY DEF TypeOK
<1>3. L \in Nat /\ L <= sequence
  BY <1>2, LenProperties DEF BufferInv
<1>4. EventsSince = SubSeq(recent, k + 1, L)
  BY <1>1, <1>2, TakenIsEnd
<1>5. ASSUME NEW i \in 1..L
      PROVE  recent[i].n = sequence - L + i /\ recent[i].boot = boot
  BY <1>2, LenProperties DEF BufferInv
<1>6. /\ EventsSince \in Seq(Event) /\ Len(EventsSince) = L - k
      /\ DOMAIN EventsSince = 1..L - k
      /\ \A i \in 1..L - k : EventsSince[i] = recent[k + i]
  <2>1. \A i \in k + 1..L : recent[i] \in Event
    BY <1>2, <1>3, ElementOfSeq
  <2>2. /\ SubSeq(recent, k + 1, L) \in Seq(Event)
        /\ Len(SubSeq(recent, k + 1, L)) = L - k
        /\ \A i \in 1..L - k : SubSeq(recent, k + 1, L)[i] = recent[k + i]
    BY <1>2, <1>3, <2>1
  <2> QED
    BY <1>4, <2>2, LenProperties
<1> HIDE DEF L
<1>7. ASSUME NEW i \in DOMAIN EventsSince
      PROVE  /\ EventsSince[i].n = sequence - L + k + i /\ EventsSince[i].boot = boot
             /\ since < EventsSince[i].n /\ EventsSince[i].n <= sequence
  <2>1. k + i \in 1..L /\ k + i \in k + 1..L /\ i \in 1..L - k
    BY <1>3, <1>6
  <2>2. EventsSince[i] = recent[k + i]
    BY <1>6, <2>1
  <2>3. recent[k + i].n = sequence - L + (k + i) /\ recent[k + i].boot = boot
    BY <1>5, <2>1
  <2>4. recent[k + i].n > since
    BY <1>1, <2>1 DEF L
  <2> QED
    BY <1>2, <1>3, <2>1, <2>2, <2>3, <2>4
<1>8. CASE k = L
  <2>1. EventsSince = <<>> /\ DOMAIN EventsSince = {}
    BY <1>3, <1>6, <1>8, EmptySeq
  <2> QED
    BY <1>2, <1>6, <2>1 DEF HighestReplayed
<1>9. CASE k < L
  <2>1. EventsSince # <<>> /\ L - k \in DOMAIN EventsSince /\ 1 \in DOMAIN EventsSince
    BY <1>3, <1>6, <1>9
  <2>2. HighestReplayed = sequence
    <3>1. EventsSince[L - k].n = sequence
      BY <1>2, <1>3, <1>7, <2>1
    <3> QED
      BY <1>6, <2>1, <3>1 DEF HighestReplayed, Last
  <2>3. Head(EventsSince).n = sequence - L + k + 1
    BY <1>6, <1>7, <2>1, TailIs
  <2>4. ASSUME NEW n \in sequence - L + k + 1..sequence PROVE Holds(EventsSince, n)
    <3>1. PICK i \in 1..L - k : sequence - L + k + i = n
      <4> DEFINE m == n - (sequence - L + k)
      <4>1. m \in 1..L - k /\ sequence - L + k + m = n
        BY <1>2, <1>3
      <4> HIDE DEF m
      <4> QED
        BY <4>1
    <3> QED
      BY <1>6, <1>7, <3>1 DEF Holds
  <2>5. since <= sequence
    <3>1. EventsSince[1].n = sequence - L + k + 1 /\ since < EventsSince[1].n
      BY <1>7, <2>1
    <3> QED
      BY <1>2, <1>3, <1>9, <3>1
  <2>6. ASSUME NEW i \in DOMAIN EventsSince
        PROVE  /\ Published(EventsSince[i]) /\ EventsSince[i].n \in Nat
               /\ since < EventsSince[i].n /\ EventsSince[i].n <= HighestReplayed
    BY <1>2, <1>3, <1>6, <1>7, <2>2 DEF Published
  <2>7. ASSUME NEW i \in DOMAIN EventsSince, NEW j \in DOMAIN EventsSince, i < j
        PROVE  EventsSince[i].n < EventsSince[j].n
    BY <1>2, <1>3, <1>6, <1>7, <2>7
  <2>8. Head(EventsSince).n \in Nat
    BY <1>2, <1>3, <2>3
  <2> QED
    BY <1>2, <1>6, <2>2, <2>3, <2>4, <2>5, <2>6, <2>7, <2>8
<1> QED
  BY <1>3, <1>8, <1>9

-----------------------------------------------------------------------------
(* The bus keeps the invariant.                                            *)

\* The buffer after a publication: the last of one more, within capacity.
LEMMA Buffered ==
    ASSUME TypeOK, NEW e \in Event
    PROVE  /\ Recorded(e) \in Seq(Event) /\ Len(Recorded(e)) <= Capacity
           /\ Len(Recorded(e)) \in 1..Len(recent) + 1
           /\ \A i \in DOMAIN Recorded(e) :
                  LET j == i + Len(recent) + 1 - Len(Recorded(e))
                  IN  /\ j \in 1..Len(recent) + 1
                      /\ j <= Len(recent) => Recorded(e)[i] = recent[j]
                      /\ j > Len(recent) => Recorded(e)[i] = e
<1> DEFINE all == Append(recent, e)
<1>1. recent \in Seq(Event) /\ Len(recent) \in Nat /\ Len(recent) <= Capacity
  BY LenProperties DEF TypeOK
<1>2. /\ all \in Seq(Event) /\ Len(all) = Len(recent) + 1
      /\ DOMAIN all = 1..Len(recent) + 1
      /\ \A i \in 1..Len(recent) : all[i] = recent[i]
      /\ all[Len(recent) + 1] = e
  BY <1>1, AppendIs, LenProperties
<1>3. Capacity \in Nat /\ Capacity > 0
  BY BufferHolds
<1>4. Recorded(e) = IF Len(all) > Capacity THEN Tail(all) ELSE all
  BY DEF Recorded
<1> HIDE DEF all
<1>5. CASE Len(all) > Capacity
  <2>1. all # <<>>
    BY <1>1, <1>2, EmptySeq
  <2>2. /\ Tail(all) \in Seq(Event) /\ Len(Tail(all)) = Len(recent)
        /\ DOMAIN Tail(all) = 1..Len(recent)
        /\ \A i \in 1..Len(recent) : Tail(all)[i] = all[i + 1]
    BY <1>1, <1>2, <2>1, TailIs
  <2>3. Len(recent) = Capacity
    BY <1>1, <1>2, <1>3, <1>5
  <2> QED
    BY <1>1, <1>2, <1>3, <1>4, <1>5, <2>2, <2>3
<1>6. CASE ~ (Len(all) > Capacity)
  BY <1>1, <1>2, <1>3, <1>4, <1>6
<1> QED
  BY <1>5, <1>6

LEMMA PublishKeeps ==
    ASSUME Inv, NEW p \in Publisher, Publish(p)
    PROVE  Inv'
<1> DEFINE e == [boot |-> boot, n |-> sequence + 1, by |-> p]
<1>1. /\ TypeOK /\ BufferInv /\ BusInv /\ QueueInv /\ ReplayInv /\ ShownInv /\ CoverInv
      /\ ThreadOrderKept /\ sequence \in Nat /\ boot \in Nat
  BY DEF Inv, TypeOK
<1>2. e \in Event /\ e.boot = boot /\ e.n = sequence + 1 /\ e.by = p
  BY <1>1 DEF Event
<1>3. /\ dispatching[p] = <<>>
      /\ recent' = Recorded(e) /\ sequence' = sequence + 1
      /\ dispatching' = [dispatching EXCEPT ![p] = IF Subscribed THEN <<e>> ELSE <<>>]
      /\ UNCHANGED <<boot, connVars, clientVars>>
  BY DEF Publish
<1> HIDE DEF e
<1>4. TypeOK'
  <2>1. (IF Subscribed THEN <<e>> ELSE <<>>) \in Seq(Event)
    BY <1>2
  <2> HIDE DEF Subscribed
  <2>2. dispatching' \in [Publisher -> Seq(Event)]
    BY <1>1, <1>3, <2>1 DEF TypeOK
  <2>3. recent' \in Seq(Event) /\ Len(recent') <= Capacity
    BY <1>1, <1>2, <1>3, Buffered
  <2> QED
    BY <1>1, <1>3, <2>2, <2>3 DEF TypeOK, connVars, clientVars
<1>5. BufferInv'
  <2> DEFINE L == Len(recent)
             M == Len(Recorded(e))
  <2>1. /\ M \in 1..L + 1
        /\ \A i \in DOMAIN Recorded(e) :
               /\ i + L + 1 - M \in 1..L + 1
               /\ i + L + 1 - M <= L => Recorded(e)[i] = recent[i + L + 1 - M]
               /\ i + L + 1 - M > L => Recorded(e)[i] = e
        /\ DOMAIN Recorded(e) = 1..M
    BY <1>1, <1>2, Buffered, LenProperties
  <2>2. L \in Nat /\ L <= sequence /\ DOMAIN recent = 1..L
    BY <1>1, LenProperties DEF TypeOK, BufferInv
  <2>3. \A i \in 1..L : recent[i].boot = boot /\ recent[i].n = sequence - L + i
    BY <1>1, <2>2 DEF BufferInv
  <2> HIDE DEF L, M
  <2>4. ASSUME NEW i \in 1..M
        PROVE  Recorded(e)[i].boot = boot /\ Recorded(e)[i].n = sequence + 1 - M + i
    <3> DEFINE j == i + L + 1 - M
    <3>1. j \in 1..L + 1
      BY <2>1
    <3>2. CASE j <= L
      <4>1. Recorded(e)[i] = recent[j] /\ j \in 1..L
        BY <2>1, <2>2, <3>1, <3>2
      <4>2. recent[j].boot = boot /\ recent[j].n = sequence - L + j
        BY <2>3, <4>1
      <4> QED
        BY <1>1, <2>1, <2>2, <4>1, <4>2
    <3>3. CASE j > L
      <4>1. Recorded(e)[i] = e /\ j = L + 1
        BY <2>1, <2>2, <3>1, <3>3
      <4> QED
        BY <1>1, <1>2, <2>1, <2>2, <4>1
    <3> QED
      BY <2>2, <3>1, <3>2, <3>3
  <2> QED
    BY <1>1, <1>3, <2>1, <2>2, <2>4 DEF BufferInv, M
<1>6. ASSUME NEW q \in Publisher, NEW d \in DOMAIN dispatching'[q]
      PROVE  \/ d \in DOMAIN dispatching[q] /\ dispatching'[q] = dispatching[q]
             \/ q = p /\ d = 1 /\ Subscribed /\ dispatching'[q] = <<e>>
  BY <1>1, <1>3, <1>6 DEF TypeOK
<1>7. BusInv'
  <2>1. ASSUME NEW q \in Publisher PROVE Len(dispatching'[q]) <= 1
    BY <1>1, <1>3 DEF TypeOK, BusInv
  <2>2. ASSUME NEW q \in Publisher, NEW d \in DOMAIN dispatching'[q]
        PROVE  /\ dispatching'[q][d].boot = boot /\ dispatching'[q][d].n <= sequence + 1
               /\ dispatching'[q][d].by = q
    <3>1. CASE d \in DOMAIN dispatching[q] /\ dispatching'[q] = dispatching[q]
      <4>1. dispatching[q][d] \in Event
        BY <1>1, <3>1, ElementOfSeq, LenProperties DEF TypeOK
      <4> QED
        BY <1>1, <3>1, <4>1 DEF BusInv, Published, Event
    <3>2. CASE q = p /\ d = 1 /\ dispatching'[q] = <<e>>
      BY <1>1, <1>2, <3>2
    <3> QED
      BY <1>6, <2>2, <3>1, <3>2
  <2> QED
    BY <1>3, <2>1, <2>2 DEF BusInv, Published
<1>8. QueueInv'
  <2>1. queue' = queue /\ boot' = boot /\ sequence' = sequence + 1
    BY <1>3 DEF connVars
  <2>2. ASSUME NEW k \in DOMAIN queue
        PROVE  queue[k].n \in Nat /\ queue[k].n <= sequence /\ queue[k].boot = boot
    <3>1. queue[k] \in Event
      BY <1>1, ElementOfSeq, LenProperties DEF TypeOK
    <3> QED
      BY <1>1, <3>1 DEF QueueInv, Published, Event
  <2>3. ASSUME NEW k \in DOMAIN queue, NEW q \in Publisher, NEW d \in DOMAIN dispatching'[q],
               queue[k].by = q
        PROVE  queue[k].n < dispatching'[q][d].n
    <3>1. CASE d \in DOMAIN dispatching[q] /\ dispatching'[q] = dispatching[q]
      BY <1>1, <2>3, <3>1 DEF QueueInv
    <3>2. CASE q = p /\ d = 1 /\ dispatching'[q] = <<e>>
      BY <1>1, <1>2, <2>2, <3>2
    <3> QED
      BY <1>6, <2>3, <3>1, <3>2
  <2>4. ASSUME NEW k \in DOMAIN queue PROVE queue[k].n <= sequence + 1
    BY <1>1, <2>2
  <2> QED
    BY <1>1, <2>1, <2>2, <2>3, <2>4 DEF QueueInv, Published
<1>9. ReplayInv'
  <2>1. ASSUME phase = "replay", NEW i \in DOMAIN backlog
        PROVE  backlog[i].n <= sequence + 1 /\ backlog[i].boot = boot
    <3>1. backlog[i] \in Event
      BY <1>1, ElementOfSeq, LenProperties DEF TypeOK
    <3> QED
      BY <1>1, <2>1, <3>1 DEF ReplayInv, Published, Event
  <2>2. highest <= sequence => highest <= sequence + 1
    BY <1>1 DEF TypeOK
  <2> QED
    BY <1>1, <1>3, <2>1, <2>2 DEF ReplayInv, Published, connVars, clientVars
<1>10. ShownInv'
  <2>1. /\ received' = received /\ lastSeq' = lastSeq /\ boot' = boot
        /\ phase' = phase /\ highest' = highest /\ queue' = queue
    BY <1>3 DEF connVars, clientVars
  <2>2. ASSUME NEW i \in DOMAIN received, received[i].boot = boot
        PROVE  received[i].n \in Nat /\ received[i].n < sequence + 1 /\ received[i].by \in Publisher
    <3>1. received[i] \in Event
      BY <1>1, ElementOfSeq, LenProperties DEF TypeOK
    <3> QED
      BY <1>1, <2>2, <3>1 DEF ShownInv, Event
  <2>3. ASSUME phase \in {"replay", "live"},
               NEW i \in DOMAIN received, received[i].boot = boot,
               NEW d \in DOMAIN dispatching'[received[i].by],
               dispatching'[received[i].by][d].n > highest
        PROVE  received[i].n < dispatching'[received[i].by][d].n
    <3> DEFINE q == received[i].by
    <3>1. q \in Publisher
      BY <2>2, <2>3
    <3>2. CASE d \in DOMAIN dispatching[q] /\ dispatching'[q] = dispatching[q]
      BY <1>1, <2>3, <3>2 DEF ShownInv
    <3>3. CASE q = p /\ d = 1 /\ dispatching'[q] = <<e>>
      BY <1>2, <2>2, <2>3, <3>3
    <3> QED
      BY <1>6, <2>3, <3>1, <3>2, <3>3
  <2>4. ASSUME NEW i \in DOMAIN received, received[i].boot = boot
        PROVE  received[i].n <= sequence + 1
    BY <1>1, <2>2, <2>4
  <2> QED
    BY <1>1, <1>3, <2>1, <2>3, <2>4 DEF ShownInv
<1>11. CoverInv'
  <2>1. /\ UNCHANGED <<phase, first, since, highest, backlog, queue, received, boot>>
        /\ sequence' = sequence + 1
    BY <1>3 DEF connVars, clientVars
  <2>2. ASSUME NEW n, OnItsWay(n) PROVE OnItsWay(n)'
    <3>1. ASSUME NEW q \in Publisher, Holds(dispatching[q], n)
          PROVE  Holds(dispatching'[q], n)
      BY <1>1, <1>3, <3>1 DEF Holds, TypeOK
    <3> QED
      BY <2>1, <2>2, <3>1 DEF OnItsWay, Holds
  <2>3. ASSUME phase \in {"replay", "live"}, NEW n, n = sequence + 1, n > since
        PROVE  OnItsWay(n)'
    <3>1. dispatching'[p] = <<e>>
      BY <1>1, <1>3, <2>3 DEF Subscribed, TypeOK
    <3>2. Holds(dispatching'[p], n)
      BY <1>2, <2>3, <3>1 DEF Holds
    <3>3. n > highest
      BY <1>1, <2>3 DEF ReplayInv, TypeOK
    <3> QED
      BY <2>1, <3>2, <3>3 DEF OnItsWay
  <2>4. ASSUME NEW n \in first..sequence + 1, n # sequence + 1 PROVE n \in first..sequence
    BY <1>1, <2>4 DEF TypeOK
  <2> QED
    BY <1>1, <2>1, <2>2, <2>3, <2>4 DEF CoverInv, Got
<1>12. ThreadOrderKept'
  BY <1>1, <1>3 DEF ThreadOrderKept, clientVars
<1> QED
  BY <1>4, <1>5, <1>7, <1>8, <1>9, <1>10, <1>11, <1>12 DEF Inv

LEMMA DispatchKeeps ==
    ASSUME Inv, NEW p \in Publisher, Dispatch(p)
    PROVE  Inv'
<1> DEFINE e == dispatching[p][1]
           L == Len(queue)
<1>1. /\ TypeOK /\ BufferInv /\ BusInv /\ QueueInv /\ ReplayInv /\ ShownInv /\ CoverInv
      /\ ThreadOrderKept
  BY DEF Inv
<1>2. /\ dispatching[p] # <<>> /\ queue' = queue \o dispatching[p]
      /\ dispatching' = [dispatching EXCEPT ![p] = <<>>]
      /\ UNCHANGED <<boot, sequence, recent, phase, since, backlog, first, highest,
                     connects, clientVars>>
  BY DEF Dispatch
<1>3. dispatching[p] \in Seq(Event) /\ queue \in Seq(Event) /\ L \in Nat
  BY <1>1, LenProperties DEF TypeOK
<1>4. Len(dispatching[p]) = 1 /\ DOMAIN dispatching[p] = {1} /\ e \in Event
  <2>1. Len(dispatching[p]) <= 1 /\ Len(dispatching[p]) \in Nat /\ Len(dispatching[p]) # 0
    BY <1>1, <1>2, <1>3, EmptySeq, LenProperties DEF BusInv
  <2>2. Len(dispatching[p]) = 1
    <3> DEFINE m == Len(dispatching[p])
    <3>1. m \in Nat /\ m <= 1 /\ m # 0
      BY <2>1
    <3> HIDE DEF m
    <3>2. m = 1
      BY <3>1
    <3> QED
      BY <3>2 DEF m
  <2>3. DOMAIN dispatching[p] = 1..1
    BY <1>3, <2>2, LenProperties
  <2>4. 1 \in 1..1 /\ 1..1 = {1}
    OBVIOUS
  <2>5. dispatching[p][1] \in Event
    <3>1. 1 \in 1..Len(dispatching[p])
      BY <2>2
    <3> QED
      BY <1>3, <3>1, ElementOfSeq
  <2> QED
    BY <2>2, <2>3, <2>4, <2>5
<1>5. e.boot = boot /\ e.n <= sequence /\ e.by = p /\ e.n \in Nat
  BY <1>1, <1>4 DEF BusInv, Published, Event
<1>6. /\ queue' \in Seq(Event) /\ DOMAIN queue' = 1..L + 1 /\ DOMAIN queue = 1..L
      /\ \A k \in 1..L : queue'[k] = queue[k]
      /\ queue'[L + 1] = e
  BY <1>2, <1>3, <1>4, ConcatProperties, LenProperties
<1>7. \A q \in Publisher :
          /\ dispatching'[q] = IF q = p THEN <<>> ELSE dispatching[q]
          /\ \A d \in DOMAIN dispatching'[q] :
                 q # p /\ d \in DOMAIN dispatching[q] /\ dispatching'[q][d] = dispatching[q][d]
  BY <1>1, <1>2 DEF TypeOK
<1> HIDE DEF e, L
<1>8. TypeOK'
  BY <1>1, <1>2, <1>6 DEF TypeOK, clientVars
<1>9. BufferInv'
  BY <1>1, <1>2 DEF BufferInv
<1>10. BusInv'
  <2>1. \A q \in Publisher : Len(dispatching'[q]) <= 1
    BY <1>1, <1>7 DEF BusInv
  <2> QED
    BY <1>1, <1>2, <1>7, <2>1 DEF BusInv, Published
<1>11. QueueInv'
  <2>1. \A k \in DOMAIN queue' : k \in 1..L \/ k = L + 1
    BY <1>3, <1>6
  <2>2. (\A k \in DOMAIN queue : Published(queue[k]))'
    BY <1>1, <1>2, <1>5, <1>6, <2>1 DEF QueueInv, Published
  <2>3. ASSUME NEW j \in DOMAIN queue', NEW k \in DOMAIN queue', j < k,
               queue'[j].by = queue'[k].by
        PROVE  queue'[j].n < queue'[k].n
    <3>1. j \in 1..L
      BY <1>3, <1>6, <2>1, <2>3
    <3>2. CASE k \in 1..L
      BY <1>1, <1>6, <2>3, <3>1, <3>2 DEF QueueInv
    <3>3. CASE k = L + 1
      BY <1>1, <1>4, <1>5, <1>6, <2>3, <3>1, <3>3 DEF QueueInv, e
    <3> QED
      BY <2>1, <3>2, <3>3
  <2>4. ASSUME NEW k \in DOMAIN queue', NEW q \in Publisher, NEW d \in DOMAIN dispatching'[q],
               queue'[k].by = q
        PROVE  queue'[k].n < dispatching'[q][d].n
    <3>1. k \in 1..L
      BY <1>5, <1>6, <1>7, <2>1, <2>4
    <3> QED
      BY <1>1, <1>6, <1>7, <2>4, <3>1 DEF QueueInv
  <2> QED
    BY <2>2, <2>3, <2>4 DEF QueueInv
<1>12. ReplayInv'
  BY <1>1, <1>2 DEF ReplayInv, Published, clientVars
<1>13. ShownInv'
  <2>1. UNCHANGED <<received, lastSeq, boot, sequence, phase, highest>>
    BY <1>2 DEF clientVars
  <2>2. ASSUME NEW i \in DOMAIN received PROVE received[i].by \in Publisher
    <3>1. received[i] \in Event
      BY <1>1, ElementOfSeq, LenProperties DEF TypeOK
    <3> QED
      BY <3>1 DEF Event
  <2>3. ASSUME phase \in {"replay", "live"}, NEW i \in DOMAIN received, received[i].boot = boot,
               NEW k \in DOMAIN queue', queue'[k].by = received[i].by, queue'[k].n > highest
        PROVE  received[i].n < queue'[k].n
    <3>1. CASE k \in 1..L
      BY <1>1, <1>6, <2>3, <3>1 DEF ShownInv
    <3>2. CASE k = L + 1
      <4>1. received[i].by = p /\ 1 \in DOMAIN dispatching[p] /\ queue'[k] = dispatching[p][1]
        BY <1>4, <1>5, <1>6, <2>3, <3>2 DEF e
      <4> QED
        BY <1>1, <2>3, <4>1 DEF ShownInv
    <3> QED
      BY <1>3, <1>6, <3>1, <3>2
  <2>4. ASSUME phase \in {"replay", "live"}, NEW i \in DOMAIN received, received[i].boot = boot,
               NEW d \in DOMAIN dispatching'[received[i].by],
               dispatching'[received[i].by][d].n > highest
        PROVE  received[i].n < dispatching'[received[i].by][d].n
    BY <1>1, <1>7, <2>2, <2>4 DEF ShownInv
  <2> QED
    BY <1>1, <2>1, <2>3, <2>4 DEF ShownInv
<1>14. CoverInv'
  <2>1. UNCHANGED <<phase, first, since, highest, backlog, received, boot, sequence>>
    BY <1>2 DEF clientVars
  <2>2. ASSUME NEW n, Holds(queue, n) PROVE Holds(queue', n)
    BY <1>3, <1>6, <2>2 DEF Holds
  <2>3. ASSUME NEW n, NEW q \in Publisher, Holds(dispatching[q], n)
        PROVE  Holds(queue', n) \/ Holds(dispatching'[q], n)
    <3>1. CASE q = p
      <4>1. e.n = n /\ L + 1 \in DOMAIN queue'
        BY <1>3, <1>4, <1>6, <2>3, <3>1 DEF Holds, e
      <4> QED
        BY <1>6, <4>1 DEF Holds
    <3>2. CASE q # p
      BY <1>7, <2>3, <3>2
    <3> QED
      BY <3>1, <3>2
  <2>4. ASSUME NEW n, OnItsWay(n) PROVE OnItsWay(n)'
    BY <2>1, <2>2, <2>3, <2>4 DEF OnItsWay
  <2> QED
    BY <1>1, <2>1, <2>4 DEF CoverInv, Got
<1>15. ThreadOrderKept'
  BY <1>1, <1>2 DEF ThreadOrderKept, clientVars
<1> QED
  BY <1>8, <1>9, <1>10, <1>11, <1>12, <1>13, <1>14, <1>15 DEF Inv

-----------------------------------------------------------------------------
(* The connection keeps the invariant.                                     *)

\* The steps that send nothing and take nothing.
LEMMA ConnectKeeps ==
    ASSUME Inv, Connect \/ Subscribe \/ BacklogSent
    PROVE  Inv'
<1>1. /\ TypeOK /\ BufferInv /\ BusInv /\ QueueInv /\ ReplayInv /\ ShownInv /\ CoverInv
      /\ ThreadOrderKept
  BY DEF Inv
<1>2. /\ UNCHANGED <<boot, sequence, recent, dispatching, backlog, first, highest, queue,
                     lastSeq, received>>
      /\ since' \in {since, lastSeq} /\ connects' \in {connects, connects + 1}
  BY DEF Connect, Subscribe, BacklogSent, busVars, clientVars
<1>3. \/ phase' = "open" /\ since' = lastSeq
      \/ phase = "open" /\ phase' = "subscribed" /\ since' = since
      \/ phase = "replay" /\ phase' = "live" /\ backlog = <<>> /\ since' = since
  BY DEF Connect, Subscribe, BacklogSent
<1>4. TypeOK'
  BY <1>1, <1>2, <1>3 DEF TypeOK
<1>5. BufferInv' /\ BusInv' /\ QueueInv' /\ ThreadOrderKept'
  BY <1>1, <1>2 DEF BufferInv, BusInv, QueueInv, ThreadOrderKept, Published
<1>6. ReplayInv'
  BY <1>1, <1>2, <1>3 DEF ReplayInv
<1>7. ShownInv'
  BY <1>1, <1>2, <1>3 DEF ShownInv
<1>8. CoverInv'
  BY <1>1, <1>2, <1>3 DEF CoverInv, Got, OnItsWay, Holds
<1> QED
  BY <1>4, <1>5, <1>6, <1>7, <1>8 DEF Inv

LEMMA TakeBacklogKeeps ==
    ASSUME Inv, TakeBacklog
    PROVE  Inv'
<1>1. /\ TypeOK /\ BufferInv /\ BusInv /\ QueueInv /\ ReplayInv /\ ShownInv /\ CoverInv
      /\ ThreadOrderKept
  BY DEF Inv
<1>2. /\ phase = "subscribed" /\ phase' = "replay" /\ backlog' = EventsSince
      /\ first' = IF EventsSince = <<>> THEN sequence + 1 ELSE Head(EventsSince).n
      /\ highest' = HighestReplayed
      /\ UNCHANGED <<boot, sequence, recent, dispatching, since, queue, connects,
                     lastSeq, received>>
  BY DEF TakeBacklog, busVars, clientVars
<1>3. sequence \in Nat /\ since \in Nat /\ since = lastSeq
  BY <1>1, <1>2 DEF TypeOK, ReplayInv
<1> DEFINE taken == EventsSince
           top == HighestReplayed
<1>4. /\ taken \in Seq(Event)
      /\ \A i \in DOMAIN taken :
             /\ Published(taken[i]) /\ taken[i].n \in Nat
             /\ since < taken[i].n /\ taken[i].n <= top
      /\ \A i, j \in DOMAIN taken : i < j => taken[i].n < taken[j].n
      /\ top \in Nat /\ since <= top
      /\ top <= since \/ top <= sequence
      /\ taken # <<>> =>
             /\ Head(taken).n \in Nat
             /\ \A n \in Head(taken).n..sequence : Holds(taken, n)
  BY <1>1, Taken
<1>5. /\ backlog' = taken /\ highest' = top
      /\ first' = IF taken = <<>> THEN sequence + 1 ELSE Head(taken).n
  BY <1>2
<1> HIDE DEF taken, top
<1>6. TypeOK'
  BY <1>1, <1>2, <1>3, <1>4, <1>5 DEF TypeOK
<1>7. BufferInv' /\ BusInv' /\ QueueInv' /\ ThreadOrderKept'
  BY <1>1, <1>2 DEF BufferInv, BusInv, QueueInv, ThreadOrderKept, Published
<1>8. ReplayInv'
  BY <1>2, <1>3, <1>4, <1>5 DEF ReplayInv, Published
<1>9. ShownInv'
  <2>1. ASSUME NEW i \in DOMAIN received
        PROVE  received[i].n \in Nat /\ received[i].n <= top /\ received[i].by \in Publisher
    <3>1. received[i] \in Event
      BY <1>1, ElementOfSeq, LenProperties DEF TypeOK
    <3> QED
      BY <1>1, <1>3, <1>4, <3>1 DEF ShownInv, Event
  <2>2. ASSUME NEW i \in DOMAIN received, NEW k \in DOMAIN queue, queue[k].n > top
        PROVE  received[i].n < queue[k].n
    <3>1. queue[k] \in Event
      BY <1>1, ElementOfSeq, LenProperties DEF TypeOK
    <3> QED
      BY <1>4, <2>1, <2>2, <3>1 DEF Event
  <2>3. ASSUME NEW i \in DOMAIN received, NEW d \in DOMAIN dispatching[received[i].by],
               dispatching[received[i].by][d].n > top
        PROVE  received[i].n < dispatching[received[i].by][d].n
    <3>1. dispatching[received[i].by][d] \in Event
      BY <1>1, <2>1, ElementOfSeq, LenProperties DEF TypeOK
    <3> QED
      BY <1>4, <2>1, <2>3, <3>1 DEF Event
  <2> QED
    BY <1>1, <1>2, <1>5, <2>2, <2>3 DEF ShownInv
<1>10. CoverInv'
  <2>1. ASSUME NEW n \in first'..sequence PROVE Holds(taken, n)
    BY <1>3, <1>4, <1>5, <2>1
  <2> QED
    BY <1>2, <1>5, <2>1 DEF CoverInv, OnItsWay, Holds
<1> QED
  BY <1>6, <1>7, <1>8, <1>9, <1>10 DEF Inv

\* What showing an event changes: nothing shown is taken back, and one event
\* is added that is newer than what its thread has had shown.
LEMMA ShowsOne ==
    ASSUME TypeOK, ShownInv, ThreadOrderKept, NEW e \in Event, Published(e), Shown(e),
           UNCHANGED <<boot, sequence>>,
           \A i \in DOMAIN received :
               received[i].boot = boot /\ received[i].by = e.by => received[i].n < e.n
    PROVE  /\ received' \in Seq(Event) /\ lastSeq' \in Nat
           /\ lastSeq' = IF e.n > lastSeq THEN e.n ELSE lastSeq
           /\ \A i \in DOMAIN received' :
                  \/ i \in DOMAIN received /\ received'[i] = received[i]
                  \/ received'[i] = e
           /\ \A i \in DOMAIN received' :
                  /\ received'[i].boot <= boot /\ received'[i].n <= lastSeq'
                  /\ received'[i].boot = boot => received'[i].n <= sequence
           /\ \A n : Got(n) => Got(n)'
           /\ \A n : n = e.n => Got(n)'
           /\ ThreadOrderKept'
<1> DEFINE L == Len(received)
<1>1. /\ received' = Append(received, e)
      /\ lastSeq' = IF e.n > lastSeq THEN e.n ELSE lastSeq
  BY DEF Shown
<1>2. received \in Seq(Event) /\ lastSeq \in Nat /\ boot \in Nat /\ sequence \in Nat /\ L \in Nat
  BY LenProperties DEF TypeOK
<1>3. e.n \in Nat /\ e.boot = boot /\ e.n <= sequence /\ e.by \in Publisher
  BY DEF Event, Published
<1>4. /\ received' \in Seq(Event) /\ DOMAIN received' = 1..L + 1 /\ DOMAIN received = 1..L
      /\ \A i \in 1..L : received'[i] = received[i]
      /\ received'[L + 1] = e
  BY <1>1, <1>2, AppendIs, LenProperties
<1>5. ASSUME NEW i \in 1..L PROVE received[i] \in Event
  BY <1>2, ElementOfSeq
<1> HIDE DEF L
<1>6. lastSeq' \in Nat /\ lastSeq <= lastSeq' /\ e.n <= lastSeq'
  BY <1>1, <1>2, <1>3
<1>7. \A i \in DOMAIN received' : i \in 1..L \/ i = L + 1
  BY <1>2, <1>4
<1>8. ASSUME NEW i \in DOMAIN received'
      PROVE  /\ received'[i].boot <= boot /\ received'[i].n <= lastSeq'
             /\ received'[i].boot = boot => received'[i].n <= sequence
  <2>1. CASE i \in 1..L
    <3>1. received[i].n \in Nat /\ received[i].boot \in Nat
      BY <1>5, <2>1 DEF Event
    <3> QED
      BY <1>2, <1>4, <1>6, <2>1, <3>1 DEF ShownInv
  <2>2. CASE i = L + 1
    BY <1>2, <1>3, <1>4, <1>6, <2>2
  <2> QED
    BY <1>7, <2>1, <2>2
<1>9. (\A n : Got(n) => Got(n)') /\ (\A n : n = e.n => Got(n)')
  <2>1. L + 1 \in DOMAIN received' /\ \A i \in 1..L : i \in DOMAIN received'
    BY <1>2, <1>4
  <2> QED
    BY <1>3, <1>4, <2>1 DEF Got
<1>10. ThreadOrderKept'
  <2> SUFFICES ASSUME NEW i \in DOMAIN received', NEW j \in DOMAIN received', i < j,
                      received'[i].by = received'[j].by, received'[i].boot = received'[j].boot
               PROVE  received'[i].n < received'[j].n
    BY DEF ThreadOrderKept
  <2>1. i \in 1..L
    BY <1>2, <1>4, <1>7
  <2>2. CASE j \in 1..L
    BY <1>4, <2>1, <2>2 DEF ThreadOrderKept
  <2>3. CASE j = L + 1
    BY <1>3, <1>4, <2>1, <2>3
  <2> QED
    BY <1>7, <2>2, <2>3
<1> QED
  BY <1>1, <1>4, <1>6, <1>7, <1>8, <1>9, <1>10

LEMMA SendBacklogKeeps ==
    ASSUME Inv, SendBacklog
    PROVE  Inv'
<1> DEFINE e == Head(backlog)
           rest == Tail(backlog)
<1>1. /\ TypeOK /\ BufferInv /\ BusInv /\ QueueInv /\ ReplayInv /\ ShownInv /\ CoverInv
      /\ ThreadOrderKept
  BY DEF Inv
<1>2. /\ phase = "replay" /\ backlog # <<>> /\ Shown(e) /\ backlog' = rest
      /\ UNCHANGED <<boot, sequence, recent, dispatching, phase, since, first, highest,
                     queue, connects>>
  BY DEF SendBacklog, busVars
<1>3. /\ backlog \in Seq(Event) /\ sequence \in Nat /\ highest \in Nat /\ lastSeq \in Nat
      /\ DOMAIN backlog = 1..Len(backlog) /\ Len(backlog) \in Nat
  BY <1>1, LenProperties DEF TypeOK
<1>4. /\ rest \in Seq(Event) /\ DOMAIN rest = 1..Len(backlog) - 1
      /\ \A i \in DOMAIN rest : i + 1 \in DOMAIN backlog /\ rest[i] = backlog[i + 1]
      /\ e = backlog[1] /\ 1 \in DOMAIN backlog
  BY <1>2, <1>3, TailIs
<1>5. ASSUME NEW i \in DOMAIN backlog
      PROVE  /\ backlog[i] \in Event /\ backlog[i].n \in Nat /\ Published(backlog[i])
             /\ lastSeq < backlog[i].n /\ backlog[i].n <= highest
  <2>1. backlog[i] \in Event
    BY <1>3, ElementOfSeq
  <2> QED
    BY <1>1, <1>2, <2>1 DEF ReplayInv, Event
<1>6. /\ e \in Event /\ Published(e) /\ e.n \in Nat /\ lastSeq < e.n /\ e.n <= highest
  BY <1>4, <1>5
<1> HIDE DEF e, rest
<1>7. ASSUME NEW i \in DOMAIN received PROVE received[i].n < e.n
  <2>1. received[i] \in Event
    BY <1>1, ElementOfSeq, LenProperties DEF TypeOK
  <2> QED
    BY <1>1, <1>3, <1>6, <2>1 DEF ShownInv, Event
<1>8. /\ received' \in Seq(Event) /\ lastSeq' = e.n
      /\ \A i \in DOMAIN received' :
             \/ i \in DOMAIN received /\ received'[i] = received[i]
             \/ received'[i] = e
      /\ \A i \in DOMAIN received' :
             /\ received'[i].boot <= boot /\ received'[i].n <= lastSeq'
             /\ received'[i].boot = boot => received'[i].n <= sequence
      /\ \A n : Got(n) => Got(n)'
      /\ \A n : n = e.n => Got(n)'
      /\ ThreadOrderKept'
  BY <1>1, <1>2, <1>3, <1>6, <1>7, ShowsOne
<1>9. TypeOK'
  BY <1>1, <1>2, <1>4, <1>6, <1>8 DEF TypeOK
<1>10. BufferInv' /\ BusInv' /\ QueueInv'
  BY <1>1, <1>2 DEF BufferInv, BusInv, QueueInv, Published
<1>11. ReplayInv'
  <2>1. ASSUME NEW i \in DOMAIN rest PROVE e.n < rest[i].n
    <3>1. i + 1 \in DOMAIN backlog /\ 1 < i + 1 /\ rest[i] = backlog[i + 1]
      BY <1>3, <1>4
    <3> QED
      BY <1>1, <1>2, <1>4, <3>1 DEF ReplayInv
  <2>2. ASSUME NEW i \in DOMAIN rest, NEW j \in DOMAIN rest, i < j
        PROVE  rest[i].n < rest[j].n
    <3>1. i + 1 \in DOMAIN backlog /\ j + 1 \in DOMAIN backlog /\ i + 1 < j + 1
      BY <1>3, <1>4, <2>2
    <3> QED
      BY <1>1, <1>2, <1>4, <3>1 DEF ReplayInv
  <2>3. ASSUME NEW i \in DOMAIN rest PROVE Published(rest[i]) /\ rest[i].n <= highest
    BY <1>4, <1>5
  <2> QED
    BY <1>1, <1>2, <1>6, <1>8, <2>1, <2>2, <2>3 DEF ReplayInv, Published
<1>12. ShownInv'
  <2>1. ASSUME NEW k \in DOMAIN queue, queue[k].n > highest PROVE e.n < queue[k].n
    <3>1. queue[k] \in Event
      BY <1>1, ElementOfSeq, LenProperties DEF TypeOK
    <3> QED
      BY <1>3, <1>6, <2>1, <3>1 DEF Event
  <2>2. ASSUME NEW d \in DOMAIN dispatching[e.by], dispatching[e.by][d].n > highest
        PROVE  e.n < dispatching[e.by][d].n
    <3>1. e.by \in Publisher
      BY <1>6 DEF Event
    <3>2. dispatching[e.by][d] \in Event
      BY <1>1, <3>1, ElementOfSeq, LenProperties DEF TypeOK
    <3> QED
      BY <1>3, <1>6, <2>2, <3>2 DEF Event
  <2>3. ASSUME NEW i \in DOMAIN received', received'[i].boot = boot
        PROVE  /\ \A k \in DOMAIN queue :
                      queue[k].by = received'[i].by /\ queue[k].n > highest =>
                          received'[i].n < queue[k].n
               /\ \A d \in DOMAIN dispatching[received'[i].by] :
                      dispatching[received'[i].by][d].n > highest =>
                          received'[i].n < dispatching[received'[i].by][d].n
    <3>1. CASE i \in DOMAIN received /\ received'[i] = received[i]
      BY <1>1, <1>2, <2>3, <3>1 DEF ShownInv
    <3>2. CASE received'[i] = e
      BY <2>1, <2>2, <3>2
    <3> QED
      BY <1>8, <3>1, <3>2
  <2> QED
    BY <1>2, <1>8, <2>3 DEF ShownInv
<1>13. CoverInv'
  <2>1. ASSUME NEW n, Holds(backlog, n) PROVE n = e.n \/ Holds(rest, n)
    <3>1. PICK i \in DOMAIN backlog : backlog[i].n = n
      BY <2>1 DEF Holds
    <3>2. CASE i = 1
      BY <1>4, <3>1, <3>2
    <3>3. CASE i # 1
      <4>1. i - 1 \in DOMAIN rest /\ (i - 1) + 1 = i
        BY <1>3, <1>4, <3>1, <3>3
      <4>2. rest[i - 1] = backlog[i]
        BY <1>4, <4>1
      <4> QED
        BY <3>1, <4>1, <4>2 DEF Holds
    <3> QED
      BY <3>2, <3>3
  <2>2. ASSUME NEW n, Got(n) \/ OnItsWay(n) PROVE Got(n)' \/ OnItsWay(n)'
    BY <1>2, <1>8, <2>1, <2>2 DEF OnItsWay, Holds
  <2> QED
    BY <1>1, <1>2, <2>2 DEF CoverInv
<1> QED
  BY <1>8, <1>9, <1>10, <1>11, <1>12, <1>13 DEF Inv

LEMMA TakeQueuedKeeps ==
    ASSUME Inv, TakeQueued
    PROVE  Inv'
<1> DEFINE e == Head(queue)
           rest == Tail(queue)
<1>1. /\ TypeOK /\ BufferInv /\ BusInv /\ QueueInv /\ ReplayInv /\ ShownInv /\ CoverInv
      /\ ThreadOrderKept
  BY DEF Inv
<1>2. /\ phase = "live" /\ queue # <<>> /\ queue' = rest
      /\ UNCHANGED <<boot, sequence, recent, dispatching, phase, since, first, highest,
                     backlog, connects>>
  BY DEF TakeQueued, busVars
<1>3. \/ e.n <= highest /\ UNCHANGED <<lastSeq, received>>
      \/ ~ (e.n <= highest) /\ Shown(e)
  BY DEF TakeQueued, Replayed, clientVars
<1>4. /\ queue \in Seq(Event) /\ highest \in Nat /\ boot \in Nat
      /\ DOMAIN queue = 1..Len(queue) /\ Len(queue) \in Nat
  BY <1>1, LenProperties DEF TypeOK
<1>5. /\ rest \in Seq(Event) /\ DOMAIN rest = 1..Len(queue) - 1
      /\ \A k \in DOMAIN rest : k + 1 \in DOMAIN queue /\ rest[k] = queue[k + 1]
      /\ e = queue[1] /\ 1 \in DOMAIN queue
  BY <1>2, <1>4, TailIs
<1>6. e \in Event /\ Published(e) /\ e.n \in Nat /\ e.by \in Publisher
  <2>1. e \in Event
    BY <1>4, <1>5, ElementOfSeq
  <2> QED
    BY <1>1, <1>5, <2>1 DEF QueueInv, Event
<1>7. ASSUME NEW k \in DOMAIN rest, rest[k].by = e.by PROVE e.n < rest[k].n
  <2>1. k + 1 \in DOMAIN queue /\ 1 < k + 1 /\ rest[k] = queue[k + 1]
    BY <1>4, <1>5
  <2> QED
    BY <1>1, <1>5, <1>7, <2>1 DEF QueueInv
<1>8. ASSUME NEW d \in DOMAIN dispatching[e.by] PROVE e.n < dispatching[e.by][d].n
  BY <1>1, <1>5, <1>6 DEF QueueInv
<1> HIDE DEF e, rest
<1>9. BufferInv' /\ BusInv' /\ ReplayInv'
  <2>1. ReplayInv'
    BY <1>1, <1>2 DEF ReplayInv
  <2> QED
    BY <1>1, <1>2, <2>1 DEF BufferInv, BusInv, Published
<1>10. QueueInv'
  <2>1. ASSUME NEW j \in DOMAIN rest, NEW k \in DOMAIN rest, j < k, rest[j].by = rest[k].by
        PROVE  rest[j].n < rest[k].n
    <3>1. j + 1 \in DOMAIN queue /\ k + 1 \in DOMAIN queue /\ j + 1 < k + 1
      BY <1>4, <1>5, <2>1
    <3> QED
      BY <1>1, <1>5, <2>1, <3>1 DEF QueueInv
  <2> QED
    BY <1>1, <1>2, <1>5, <2>1 DEF QueueInv, Published
<1>11. ASSUME NEW n, Holds(queue, n), n > highest
       PROVE  (n = e.n /\ ~ (e.n <= highest)) \/ Holds(rest, n)
  <2>1. PICK k \in DOMAIN queue : queue[k].n = n
    BY <1>11 DEF Holds
  <2>2. CASE k = 1
    BY <1>4, <1>5, <1>6, <1>11, <2>1, <2>2
  <2>3. CASE k # 1
    <3>1. k - 1 \in DOMAIN rest /\ (k - 1) + 1 = k
      BY <1>4, <1>5, <2>1, <2>3
    <3>2. rest[k - 1] = queue[k]
      BY <1>5, <3>1
    <3> QED
      BY <2>1, <3>1, <3>2 DEF Holds
  <2> QED
    BY <2>2, <2>3
<1>12. CASE e.n <= highest /\ UNCHANGED <<lastSeq, received>>
  <2>1. TypeOK' /\ ThreadOrderKept'
    BY <1>1, <1>2, <1>5, <1>12 DEF TypeOK, ThreadOrderKept
  <2>2. ShownInv'
    <3>1. ASSUME NEW i \in DOMAIN received, received[i].boot = boot, NEW k \in DOMAIN rest,
                 rest[k].by = received[i].by, rest[k].n > highest
          PROVE  received[i].n < rest[k].n
      BY <1>1, <1>2, <1>5, <3>1 DEF ShownInv
    <3> QED
      BY <1>1, <1>2, <1>12, <3>1 DEF ShownInv
  <2>3. CoverInv'
    <3>1. ASSUME NEW n, OnItsWay(n) PROVE OnItsWay(n)'
      BY <1>2, <1>11, <1>12, <3>1 DEF OnItsWay, Holds
    <3> QED
      BY <1>1, <1>2, <1>12, <3>1 DEF CoverInv, Got
  <2> QED
    BY <1>9, <1>10, <2>1, <2>2, <2>3 DEF Inv
<1>13. CASE ~ (e.n <= highest) /\ Shown(e)
  <2>1. ASSUME NEW i \in DOMAIN received, received[i].boot = boot, received[i].by = e.by
        PROVE  received[i].n < e.n
    BY <1>1, <1>2, <1>4, <1>5, <1>6, <1>13, <2>1 DEF ShownInv
  <2>2. /\ received' \in Seq(Event) /\ lastSeq' \in Nat
        /\ \A i \in DOMAIN received' :
               \/ i \in DOMAIN received /\ received'[i] = received[i]
               \/ received'[i] = e
        /\ \A i \in DOMAIN received' :
               /\ received'[i].boot <= boot /\ received'[i].n <= lastSeq'
               /\ received'[i].boot = boot => received'[i].n <= sequence
        /\ \A n : Got(n) => Got(n)'
        /\ \A n : n = e.n => Got(n)'
        /\ ThreadOrderKept'
    BY <1>1, <1>2, <1>6, <1>13, <2>1, ShowsOne
  <2>3. TypeOK'
    BY <1>1, <1>2, <1>5, <2>2 DEF TypeOK
  <2>4. ShownInv'
    <3>1. ASSUME NEW i \in DOMAIN received', received'[i].boot = boot
          PROVE  /\ \A k \in DOMAIN rest :
                        rest[k].by = received'[i].by /\ rest[k].n > highest =>
                            received'[i].n < rest[k].n
                 /\ \A d \in DOMAIN dispatching[received'[i].by] :
                        dispatching[received'[i].by][d].n > highest =>
                            received'[i].n < dispatching[received'[i].by][d].n
      <4>1. CASE i \in DOMAIN received /\ received'[i] = received[i]
        BY <1>1, <1>2, <1>5, <3>1, <4>1 DEF ShownInv
      <4>2. CASE received'[i] = e
        BY <1>7, <1>8, <4>2
      <4> QED
        BY <2>2, <4>1, <4>2
    <3> QED
      BY <1>2, <2>2, <3>1 DEF ShownInv
  <2>5. CoverInv'
    <3>1. ASSUME NEW n, Got(n) \/ OnItsWay(n) PROVE Got(n)' \/ OnItsWay(n)'
      BY <1>2, <1>11, <2>2, <3>1 DEF OnItsWay, Holds
    <3> QED
      BY <1>1, <1>2, <3>1 DEF CoverInv
  <2> QED
    BY <1>9, <1>10, <2>2, <2>3, <2>4, <2>5 DEF Inv
<1> QED
  BY <1>3, <1>12, <1>13

\* A broken connection, and a restart.
LEMMA BreakKeeps ==
    ASSUME Inv, Disconnect \/ Restart
    PROVE  Inv'
<1>1. /\ TypeOK /\ BufferInv /\ BusInv /\ QueueInv /\ ReplayInv /\ ShownInv /\ CoverInv
      /\ ThreadOrderKept
  BY DEF Inv
<1>2. /\ phase' = "closed" /\ since' = 0 /\ backlog' = <<>> /\ first' = 0 /\ highest' = 0
      /\ queue' = <<>> /\ dispatching' = [p \in Publisher |-> <<>>]
      /\ UNCHANGED <<connects, lastSeq, received>>
  BY DEF Disconnect, Restart, ConnectionGone, clientVars
<1>3. \/ UNCHANGED <<boot, sequence, recent>>
      \/ boot' = boot + 1 /\ sequence' = 0 /\ recent' = <<>>
  BY DEF Disconnect, Restart
<1>4. TypeOK'
  <2>1. <<>> \in Seq(Event) /\ Len(<<>>) = 0 /\ 0 <= Capacity
    BY BufferHolds
  <2>2. boot' \in Nat /\ sequence' \in Nat
    BY <1>1, <1>3 DEF TypeOK
  <2>3. recent' \in Seq(Event) /\ Len(recent') <= Capacity
    BY <1>1, <1>3, <2>1 DEF TypeOK
  <2>4. dispatching' \in [Publisher -> Seq(Event)]
    BY <1>2, <2>1
  <2> QED
    BY <1>1, <1>2, <2>1, <2>2, <2>3, <2>4 DEF TypeOK
<1>5. BufferInv'
  BY <1>1, <1>3 DEF BufferInv
<1>6. BusInv' /\ QueueInv' /\ ReplayInv' /\ CoverInv'
  BY <1>2 DEF BusInv, QueueInv, ReplayInv, CoverInv
<1>7. ShownInv'
  <2>1. ASSUME NEW i \in DOMAIN received PROVE received[i].boot \in Nat /\ boot \in Nat
    <3>1. received[i] \in Event
      BY <1>1, ElementOfSeq, LenProperties DEF TypeOK
    <3> QED
      BY <1>1, <3>1 DEF Event, TypeOK
  <2> QED
    BY <1>1, <1>2, <1>3, <2>1 DEF ShownInv
<1>8. ThreadOrderKept'
  BY <1>1, <1>2 DEF ThreadOrderKept
<1> QED
  BY <1>4, <1>5, <1>6, <1>7, <1>8 DEF Inv

-----------------------------------------------------------------------------
(* The theorems.                                                           *)

\* The inductive invariant: what of the events since the first replayed one
\* was not shown is on its way, and every thread's events go that way in
\* order.
THEOREM StreamInvariant == Spec => []Inv
<1>1. Init => Inv
  <2> SUFFICES ASSUME Init PROVE Inv
    OBVIOUS
  <2>1. TypeOK
    <3>1. <<>> \in Seq(Event) /\ Len(<<>>) = 0 /\ 0 <= Capacity
      BY BufferHolds
    <3> QED
      BY <3>1 DEF Init, TypeOK
  <2> QED
    BY <2>1 DEF Init, Inv, BufferInv, BusInv, QueueInv, ReplayInv, ShownInv, CoverInv,
                ThreadOrderKept
<1>2. Inv /\ [Next]_vars => Inv'
  <2> SUFFICES ASSUME Inv, [Next]_vars PROVE Inv'
    OBVIOUS
  <2>1. CASE \E p \in Publisher : Publish(p) \/ Dispatch(p)
    BY <2>1, PublishKeeps, DispatchKeeps
  <2>2. CASE HandlerStep
    BY <2>2, ConnectKeeps, TakeBacklogKeeps, SendBacklogKeeps, TakeQueuedKeeps DEF HandlerStep
  <2>3. CASE Disconnect \/ Restart
    BY <2>3, BreakKeeps
  <2>4. CASE UNCHANGED vars
    <3>1. UNCHANGED <<boot, sequence, recent, dispatching, phase, since, backlog, first,
                      highest, queue, connects, lastSeq, received>>
      BY <2>4 DEF vars, busVars, connVars, clientVars
    <3>2. TypeOK' /\ BufferInv' /\ BusInv' /\ QueueInv'
      BY <3>1 DEF Inv, TypeOK, BufferInv, BusInv, QueueInv, Published
    <3>3. ReplayInv' /\ ShownInv' /\ CoverInv' /\ ThreadOrderKept'
      BY <3>1 DEF Inv, ReplayInv, ShownInv, CoverInv, ThreadOrderKept, Published, Got,
                  OnItsWay, Holds
    <3> QED
      BY <3>2, <3>3 DEF Inv
  <2> QED
    BY <2>1, <2>2, <2>3, <2>4 DEF Next
<1> QED
  BY <1>1, <1>2, PTL DEF Spec

\* Every variable keeps its type, and the buffer its bound.
THEOREM StreamTypes == Spec => []TypeOK
<1>1. Inv => TypeOK
  BY DEF Inv
<1> QED
  BY <1>1, StreamInvariant, PTL

\* The events of one thread are shown once and in the order it published
\* them, whatever threads, replay, queue and reconnections do.
THEOREM OrderKept == Spec => []ThreadOrderKept
<1>1. Inv => ThreadOrderKept
  BY DEF Inv
<1> QED
  BY <1>1, StreamInvariant, PTL

\* A live connection that has nothing left to send has shown everything
\* published since the first event it replayed.
THEOREM NothingLost == Spec => []NothingFallsBetween
<1>1. ASSUME Inv PROVE NothingFallsBetween
  <2> SUFFICES ASSUME CaughtUp, NEW n \in first..sequence, n > since
               PROVE  Got(n)
    BY DEF NothingFallsBetween
  <2>1. /\ phase = "live" /\ queue = <<>> /\ \A p \in Publisher : dispatching[p] = <<>>
        /\ backlog = <<>>
    BY <1>1 DEF CaughtUp, Inv, ReplayInv
  <2>2. ~ OnItsWay(n)
    BY <2>1 DEF OnItsWay, Holds
  <2> QED
    BY <1>1, <2>1, <2>2 DEF Inv, CoverInv
<1> QED
  BY <1>1, StreamInvariant, PTL
=============================================================================
