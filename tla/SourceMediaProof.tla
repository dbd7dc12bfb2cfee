-------------------------- MODULE SourceMediaProof --------------------------
(***************************************************************************)
(* What SourceMedia guarantees for any cards, any number of slots, moves,  *)
(* ejections and restarts.                                                 *)
(***************************************************************************)
EXTENDS SourceMedia, SequenceTheorems, FiniteSetTheorems, TLAPS

-----------------------------------------------------------------------------
(* The inductive invariant.                                                *)

\* No card is in two slots.
SlotInv == \A r, s \in Slot : slot[r] = slot[s] /\ slot[r] # NoCard => r = s

\* A thread that is to mount or unmount knows where.
PointInv ==
    /\ \A t \in Thread : at[t] = "umount" => point[t] # NoCard
    /\ at["handler"] \in {"mount", "record", "use"} => point["handler"] # NoCard

\* The handler mounts one device, and nothing is remembered for it.
DeviceInv ==
    at["handler"] \in {"mount", "record"} =>
        \E s \in Slot : Occupied(listing["handler"]) = {s} /\ tracked[s] = NoCard

\* While the backup's card p is in slot s, no thread is about to take it
\* away: neither its marks nor its listing, nor what it is to drop, unmount
\* or mount, concern p or s.
Kept(p, s) ==
    /\ slot[s] = p /\ \A r \in Slot : tracked[r] = p <=> r = s
    /\ at["handler"] = "forget" => listing["handler"][s] = p
    /\ at["handler"] \in {"forget", "release", "umount"} =>
           \A r \in Slot : listing["handler"][r] = p => r = s
    /\ at["handler"] \in {"release", "umount"} => s \notin todo["handler"]
    /\ at["handler"] \in {"umount", "mount", "record"} => point["handler"] # p

CleanInv ==
    clean =>
        /\ reading["backup"] # NoCard /\ reading["backup"] \notin marks
        /\ at["ejection"] = "idle"
        /\ OnTop(reading["backup"], reading["backup"])
        /\ \E s \in Slot : Kept(reading["backup"], s)

Inv ==
    TypeOK /\ SlotInv /\ PointInv /\ DeviceInv /\ EveryMountIsOwned /\ CleanInv

-----------------------------------------------------------------------------
(* Sequences.                                                              *)

LEMMA ReplacedIs ==
    ASSUME NEW S, NEW s \in Seq(S), NEW old, NEW new \in S
    PROVE  /\ ReplaceAll(s, old, new) \in Seq(S) /\ Len(ReplaceAll(s, old, new)) = Len(s)
           /\ s # <<>> /\ Last(s) # old =>
                  ReplaceAll(s, old, new) # <<>> /\ Last(ReplaceAll(s, old, new)) = Last(s)
<1> DEFINE r == [i \in 1..Len(s) |-> IF s[i] = old THEN new ELSE s[i]]
<1>1. ReplaceAll(s, old, new) = r
  BY DEF ReplaceAll
<1>2. Len(s) \in Nat /\ \A i \in 1..Len(s) : s[i] \in S
  BY LenProperties, ElementOfSeq
<1>3. r \in Seq(S)
  BY <1>2
<1>4. Len(r) = Len(s)
  BY <1>2, <1>3, LenProperties
<1>5. ASSUME s # <<>>, s[Len(s)] # old PROVE r # <<>> /\ r[Len(r)] = s[Len(s)]
  <2>1. Len(s) \in 1..Len(s)
    BY <1>2, <1>5, EmptySeq
  <2>2. r[Len(s)] = s[Len(s)]
    BY <1>5, <2>1
  <2> QED
    BY <1>3, <1>4, <2>1, <2>2, EmptySeq
<1> HIDE DEF r
<1> QED
  BY <1>1, <1>3, <1>4, <1>5 DEF Last

LEMMA FrontIs ==
    ASSUME NEW S, NEW s \in Seq(S), s # <<>>
    PROVE  Front(s) \in Seq(S) /\ Len(Front(s)) = Len(s) - 1
<1>1. Len(s) \in Nat /\ Len(s) # 0
  BY LenProperties, EmptySeq
<1> DEFINE n == Len(s) - 1
<1>2. n \in Int /\ \A i \in 1..n : s[i] \in S
  BY <1>1, ElementOfSeq
<1>3. SubSeq(s, 1, n) \in Seq(S) /\ Len(SubSeq(s, 1, n)) = IF 1 <= n THEN n - 1 + 1 ELSE 0
  <2> HIDE DEF n
  <2> QED
    BY <1>2, SubSeqProperties
<1>4. Front(s) = SubSeq(s, 1, n)
  BY DEF Front
<1>5. (IF 1 <= n THEN n - 1 + 1 ELSE 0) = Len(s) - 1
  <2> DEFINE m == Len(s)
  <2>1. m \in Nat /\ m # 0
    BY <1>1
  <2> HIDE DEF m
  <2>2. (IF 1 <= m - 1 THEN m - 1 - 1 + 1 ELSE 0) = m - 1
    BY <2>1
  <2> QED
    BY <2>2 DEF m
<1> HIDE DEF n
<1> QED
  BY <1>3, <1>4, <1>5

-----------------------------------------------------------------------------
(* Who answers for a mount.                                                *)

Tracks(p) == {s \in Slot : tracked[s] = p}

Unmounts(p) == {t \in Thread : at[t] = "umount" /\ point[t] = p}

InHand(p) == IF at["handler"] = "record" /\ point["handler"] = p THEN 1 ELSE 0

LEMMA OwnedIs ==
    \A p : Owned(p) = Cardinality(Tracks(p)) + Cardinality(Unmounts(p)) + InHand(p)
  BY DEF Owned, Tracks, Unmounts, InHand

LEMMA ThreadsAreFinite == IsFiniteSet(Thread)
<1>1. IsFiniteSet({"handler"} \cup {"ejection"})
  BY FS_Singleton, FS_AddElement
<1>2. {"handler"} \cup {"ejection"} = Thread
  BY DEF Thread
<1> QED
  BY <1>1, <1>2

LEMMA CountsAreNumbers ==
    \A p : /\ IsFiniteSet(Tracks(p)) /\ Cardinality(Tracks(p)) \in Nat
           /\ IsFiniteSet(Unmounts(p)) /\ Cardinality(Unmounts(p)) \in Nat
           /\ InHand(p) \in Nat
<1> TAKE p
<1>1. IsFiniteSet(Tracks(p))
  BY SlotsAreFinite, FS_Subset DEF Tracks
<1>2. IsFiniteSet(Unmounts(p))
  BY ThreadsAreFinite, FS_Subset DEF Unmounts
<1> QED
  BY <1>1, <1>2, FS_CardinalityType DEF InHand

\* A step that leaves the mounts and what is remembered alone, and in which
\* no thread takes a mount in hand or lets one go.
LEMMA OwnersStay ==
    ASSUME EveryMountIsOwned, UNCHANGED <<mounts, tracked, strays>>,
           \A t \in Thread :
               /\ at'[t] = "umount" <=> at[t] = "umount"
               /\ at'[t] = "record" <=> at[t] = "record"
               /\ at[t] \in {"umount", "record"} => point'[t] = point[t]
    PROVE  EveryMountIsOwned'
<1> SUFFICES ASSUME NEW p \in Card PROVE Len(mounts[p]) = Owned(p)' + strays[p]
  BY DEF EveryMountIsOwned
<1>1. Tracks(p)' = Tracks(p)
  BY DEF Tracks
<1>2. Unmounts(p)' = Unmounts(p)
  BY DEF Unmounts
<1>3. InHand(p)' = InHand(p)
  BY DEF InHand, Thread
<1>4. Owned(p)' = Cardinality(Tracks(p)') + Cardinality(Unmounts(p)') + InHand(p)'
  BY DEF Owned, Tracks, Unmounts, InHand
<1>5. Owned(p)' = Owned(p)
  BY <1>1, <1>2, <1>3, <1>4, OwnedIs
<1> QED
  BY <1>5 DEF EveryMountIsOwned

-----------------------------------------------------------------------------
(* The card reader keeps the invariant.                                    *)

LEMMA PutInKeeps ==
    ASSUME Inv, NEW c \in Card, NEW s \in Slot, PutIn(c, s)
    PROVE  Inv'
<1>1. TypeOK /\ SlotInv /\ PointInv /\ DeviceInv /\ EveryMountIsOwned /\ CleanInv
  BY DEF Inv
<1>2. /\ slot[s] = NoCard /\ c \notin Cards(slot) /\ slot' = [slot EXCEPT ![s] = c]
      /\ moves' = moves + 1
      /\ UNCHANGED <<mounts, marks, selected, tracked, at, listing, todo, point, call,
                     reading, clean, told, strays, ejections, restarts>>
  BY DEF PutIn, managerVars, threadVars, readerVars
<1>3. TypeOK'
  BY <1>1, <1>2 DEF TypeOK, MaybeCard
<1>4. SlotInv'
  <2>1. \A r \in Slot : slot[r] # c
    BY <1>2, NotCards DEF Cards
  <2> QED
    BY <1>1, <1>2, <2>1 DEF SlotInv, TypeOK
<1>5. PointInv' /\ DeviceInv'
  BY <1>1, <1>2 DEF PointInv, DeviceInv, Occupied
<1>6. EveryMountIsOwned'
  BY <1>1, <1>2, OwnersStay
<1>7. CleanInv'
  <2> SUFFICES ASSUME clean PROVE CleanInv'
    BY <1>2 DEF CleanInv
  <2>1. PICK r \in Slot : Kept(reading["backup"], r)
    BY <1>1 DEF CleanInv
  <2>2. r # s
    BY <1>1, <1>2, <2>1 DEF CleanInv, Kept
  <2>3. Kept(reading["backup"], r)'
    BY <1>1, <1>2, <2>1, <2>2 DEF Kept, TypeOK
  <2> QED
    BY <1>1, <1>2, <2>3 DEF CleanInv, OnTop
<1> QED
  BY <1>3, <1>4, <1>5, <1>6, <1>7 DEF Inv

LEMMA PullKeeps ==
    ASSUME Inv, NEW s \in Slot, Pull(s)
    PROVE  Inv'
<1>1. TypeOK /\ SlotInv /\ PointInv /\ DeviceInv /\ EveryMountIsOwned /\ CleanInv
  BY DEF Inv
<1>2. /\ slot[s] # NoCard /\ slot' = [slot EXCEPT ![s] = NoCard] /\ moves' = moves + 1
      /\ mounts' = [p \in Card |-> ReplaceAll(mounts[p], slot[s], Gone)]
      /\ clean' = (clean /\ reading["backup"] # slot[s])
      /\ UNCHANGED <<marks, selected, tracked, at, listing, todo, point, call,
                     reading, told, strays, ejections, restarts>>
  BY DEF Pull, managerVars, threadVars
<1>3. ASSUME NEW p \in Card
      PROVE  /\ mounts'[p] \in Seq(Card \union {Gone}) /\ Len(mounts'[p]) = Len(mounts[p])
             /\ mounts[p] # <<>> /\ Last(mounts[p]) # slot[s] =>
                    mounts'[p] # <<>> /\ Last(mounts'[p]) = Last(mounts[p])
  <2>1. mounts[p] \in Seq(Card \union {Gone}) /\ Gone \in Card \union {Gone}
    BY <1>1 DEF TypeOK
  <2>2. mounts'[p] = ReplaceAll(mounts[p], slot[s], Gone)
    BY <1>2
  <2> QED
    BY <2>1, <2>2, ReplacedIs
<1>4. TypeOK'
  <2>1. mounts' \in [Card -> Seq(Card \union {Gone})]
    BY <1>2, <1>3
  <2>2. slot' \in [Slot -> MaybeCard] /\ moves' \in Nat /\ clean' \in BOOLEAN
    BY <1>1, <1>2 DEF TypeOK, MaybeCard
  <2> QED
    BY <1>1, <1>2, <2>1, <2>2 DEF TypeOK
<1>5. SlotInv'
  BY <1>1, <1>2 DEF SlotInv, TypeOK
<1>6. PointInv' /\ DeviceInv'
  BY <1>1, <1>2 DEF PointInv, DeviceInv, Occupied
<1>7. EveryMountIsOwned'
  <2> SUFFICES ASSUME NEW p \in Card PROVE Len(mounts'[p]) = Owned(p)' + strays'[p]
    BY DEF EveryMountIsOwned
  <2>1. Owned(p)' = Owned(p)
    BY <1>2 DEF Owned
  <2> QED
    BY <1>1, <1>2, <1>3, <2>1 DEF EveryMountIsOwned
<1>8. CleanInv'
  <2> DEFINE p == reading["backup"]
  <2> SUFFICES ASSUME clean, p # slot[s] PROVE CleanInv'
    BY <1>2 DEF CleanInv
  <2>1. PICK r \in Slot : Kept(p, r)
    BY <1>1 DEF CleanInv
  <2>2. r # s
    BY <2>1 DEF Kept
  <2>3. Kept(p, r)'
    BY <1>1, <1>2, <2>1, <2>2 DEF Kept, TypeOK
  <2>4. p \in Card /\ OnTop(p, p)
    BY <1>1 DEF CleanInv, TypeOK, MaybeCard, Reader
  <2>5. OnTop(p, p)'
    BY <1>2, <1>3, <2>4 DEF OnTop
  <2> QED
    BY <1>1, <1>2, <2>3, <2>5 DEF CleanInv
<1> QED
  BY <1>4, <1>5, <1>6, <1>7, <1>8 DEF Inv

-----------------------------------------------------------------------------
(* The threads keep the invariant.                                         *)

\* A step that leaves the cards, the mounts, what is remembered and the
\* readers alone keeps the invariant, if its thread stays clear of the
\* backup's card.
LEMMA QuietKeeps ==
    ASSUME Inv, TypeOK', PointInv', DeviceInv',
           UNCHANGED <<slot, mounts, tracked, reading, clean, strays>>,
           \A t \in Thread :
               /\ at'[t] = "umount" <=> at[t] = "umount"
               /\ at'[t] = "record" <=> at[t] = "record"
               /\ at[t] \in {"umount", "record"} => point'[t] = point[t],
           clean => /\ reading["backup"] \notin marks'
                    /\ at'["ejection"] = "idle",
           \A s \in Slot : clean /\ Kept(reading["backup"], s) => Kept(reading["backup"], s)'
    PROVE  Inv'
<1>1. SlotInv'
  BY DEF Inv, SlotInv
<1>2. EveryMountIsOwned'
  BY OwnersStay DEF Inv
<1>3. CleanInv'
  BY DEF Inv, CleanInv, OnTop
<1> QED
  BY <1>1, <1>2, <1>3 DEF Inv

\* What a thread's call leaves behind when it is over.
LEMMA FinishKeeps ==
    ASSUME Inv, NEW t \in Thread, Finish(t), at[t] \notin {"umount", "record"},
           UNCHANGED <<slot, moves, mounts, selected, tracked, reading, clean, strays,
                       ejections, restarts>>,
           marks' \subseteq marks, told' \in BOOLEAN
    PROVE  Inv'
<1>1. TypeOK /\ PointInv /\ DeviceInv /\ CleanInv
  BY DEF Inv
<1>2. /\ at' = [at EXCEPT ![t] = "idle"] /\ listing' = [listing EXCEPT ![t] = Empty]
      /\ todo' = [todo EXCEPT ![t] = {}] /\ point' = [point EXCEPT ![t] = NoCard]
      /\ call' = IF t = "handler" THEN "none" ELSE call
  BY DEF Finish, Goto
<1>3. TypeOK'
  <2>1. Empty \in [Slot -> MaybeCard] /\ {} \in SUBSET Slot /\ NoCard \in MaybeCard
    BY DEF Empty, MaybeCard
  <2>2. at' \in [Thread -> Place]
    BY <1>1, <1>2 DEF TypeOK, Place
  <2> QED
    BY <1>1, <1>2, <2>1, <2>2 DEF TypeOK
<1>4. ASSUME NEW u \in Thread, u # t
      PROVE  at'[u] = at[u] /\ listing'[u] = listing[u] /\ todo'[u] = todo[u] /\ point'[u] = point[u]
  BY <1>1, <1>2, <1>4 DEF TypeOK
<1>5. at'[t] = "idle"
  BY <1>1, <1>2 DEF TypeOK
<1>6. \A u \in Thread :
          /\ at'[u] = "umount" <=> at[u] = "umount"
          /\ at'[u] = "record" <=> at[u] = "record"
          /\ at[u] \in {"umount", "record"} => point'[u] = point[u]
  BY <1>4, <1>5
<1>7. "handler" \in Thread /\ "ejection" \in Thread
  BY DEF Thread
<1>8. PointInv' /\ DeviceInv'
  <2>1. PointInv'
    BY <1>1, <1>4, <1>5, <1>6, <1>7 DEF PointInv
  <2>2. DeviceInv'
    BY <1>1, <1>4, <1>5, <1>7 DEF DeviceInv, Occupied
  <2> QED
    BY <2>1, <2>2
<1>9. clean => reading["backup"] \notin marks' /\ at'["ejection"] = "idle"
  BY <1>1, <1>4, <1>5, <1>7 DEF CleanInv
<1>10. ASSUME NEW s \in Slot, Kept(reading["backup"], s)
       PROVE  Kept(reading["backup"], s)'
  BY <1>4, <1>5, <1>7, <1>10 DEF Kept
<1> QED
  BY <1>3, <1>6, <1>8, <1>9, <1>10, QuietKeeps

LEMMA RequestKeeps ==
    ASSUME Inv, NEW c \in SourceCall \union {"state"}, Request(c)
    PROVE  Inv'
<1>1. TypeOK /\ PointInv /\ DeviceInv /\ CleanInv
  BY DEF Inv
<1>2. /\ at["handler"] = "idle" /\ at' = [at EXCEPT !["handler"] = "list"] /\ call' = c
      /\ UNCHANGED <<slot, moves, mounts, marks, selected, tracked, listing, todo, point,
                     reading, clean, told, strays, ejections, restarts>>
  BY DEF Request, Goto, slotVars, managerVars, readerVars
<1>3. at'["handler"] = "list" /\ at'["ejection"] = at["ejection"]
  BY <1>1, <1>2 DEF TypeOK, Thread
<1>4. TypeOK'
  BY <1>1, <1>2 DEF TypeOK, Place, MediaCall
<1>5. PointInv' /\ DeviceInv'
  BY <1>1, <1>2, <1>3 DEF PointInv, DeviceInv, Occupied, Thread
<1>6. ASSUME NEW s \in Slot, Kept(reading["backup"], s)
      PROVE  Kept(reading["backup"], s)'
  BY <1>2, <1>3, <1>6 DEF Kept
<1> QED
  BY <1>1, <1>2, <1>3, <1>4, <1>5, <1>6, QuietKeeps DEF CleanInv, Thread

LEMMA RequestEjectKeeps ==
    ASSUME Inv, RequestEject
    PROVE  Inv'
<1>1. TypeOK /\ PointInv /\ DeviceInv /\ CleanInv
  BY DEF Inv
<1>2. /\ at["ejection"] = "idle" /\ reading["backup"] = NoCard
      /\ at' = [at EXCEPT !["ejection"] = "list"] /\ ejections' = ejections + 1
      /\ UNCHANGED <<slot, moves, mounts, marks, selected, tracked, listing, todo, point,
                     call, reading, clean, told, strays, restarts>>
  BY DEF RequestEject, MayEject, IsRunning, Goto, slotVars, managerVars, readerVars
<1>3. at'["ejection"] = "list" /\ at'["handler"] = at["handler"] /\ ~ clean
  BY <1>1, <1>2 DEF TypeOK, Thread, CleanInv
<1>4. TypeOK'
  <2>1. ejections' \in Nat
    BY <1>1, <1>2 DEF TypeOK
  <2>2. at' \in [Thread -> Place]
    BY <1>1, <1>2 DEF TypeOK, Place
  <2> QED
    BY <1>1, <1>2, <2>1, <2>2 DEF TypeOK
<1>5. PointInv' /\ DeviceInv'
  BY <1>1, <1>2, <1>3 DEF PointInv, DeviceInv, Occupied, Thread
<1> QED
  BY <1>1, <1>2, <1>3, <1>4, <1>5, QuietKeeps DEF Thread

LEMMA SelectKeeps ==
    ASSUME Inv, NEW c \in Card, Select(c)
    PROVE  Inv'
<1>1. TypeOK /\ PointInv /\ DeviceInv /\ CleanInv
  BY DEF Inv
<1>2. /\ selected' = c
      /\ UNCHANGED <<slot, moves, mounts, marks, tracked, at, listing, todo, point, call,
                     reading, clean, told, strays, ejections, restarts>>
  BY DEF Select, slotVars, threadVars, readerVars
<1>3. TypeOK'
  BY <1>1, <1>2 DEF TypeOK, MaybeCard
<1>4. PointInv' /\ DeviceInv'
  BY <1>1, <1>2 DEF PointInv, DeviceInv, Occupied
<1>5. ASSUME NEW s \in Slot, Kept(reading["backup"], s)
      PROVE  Kept(reading["backup"], s)'
  BY <1>2, <1>5 DEF Kept
<1> QED
  BY <1>1, <1>2, <1>3, <1>4, <1>5, QuietKeeps DEF CleanInv

LEMMA ListDevicesKeeps ==
    ASSUME Inv, NEW t \in Thread, ListDevices(t)
    PROVE  Inv'
<1>1. TypeOK /\ SlotInv /\ PointInv /\ DeviceInv /\ CleanInv
  BY DEF Inv
<1>2. /\ at[t] = "list" /\ listing' = [listing EXCEPT ![t] = slot]
      /\ at' = [at EXCEPT ![t] = IF t = "handler" THEN "forget" ELSE "mark"]
      /\ UNCHANGED <<slot, moves, mounts, marks, selected, tracked, todo, point, call,
                     reading, clean, told, strays, ejections, restarts>>
  BY DEF ListDevices, Goto, slotVars, managerVars, readerVars
<1>3. TypeOK'
  <2>1. at' \in [Thread -> Place]
    BY <1>1, <1>2 DEF TypeOK, Place
  <2> QED
    BY <1>1, <1>2, <2>1 DEF TypeOK
<1>4. ASSUME NEW u \in Thread, u # t PROVE at'[u] = at[u] /\ listing'[u] = listing[u]
  BY <1>1, <1>2, <1>4 DEF TypeOK
<1>5. at'[t] = IF t = "handler" THEN "forget" ELSE "mark"
  BY <1>1, <1>2 DEF TypeOK
<1>6. listing'[t] = slot
  BY <1>1, <1>2 DEF TypeOK
<1>7. "handler" \in Thread /\ "ejection" \in Thread
  BY DEF Thread
<1>8. PointInv' /\ DeviceInv'
  <2>1. PointInv'
    BY <1>1, <1>2, <1>4, <1>5, <1>7 DEF PointInv
  <2>2. DeviceInv'
    BY <1>1, <1>2, <1>4, <1>5, <1>7 DEF DeviceInv, Occupied
  <2> QED
    BY <2>1, <2>2
<1>9. clean => reading["backup"] \notin marks' /\ at'["ejection"] = "idle"
  BY <1>1, <1>2, <1>4, <1>7 DEF CleanInv
<1>10. ASSUME clean, NEW s \in Slot, Kept(reading["backup"], s)
       PROVE  Kept(reading["backup"], s)'
  <2>1. t = "handler"
    BY <1>1, <1>2, <1>10 DEF CleanInv, Thread
  <2>2. slot[s] = reading["backup"] /\ reading["backup"] # NoCard
    BY <1>1, <1>10 DEF CleanInv, Kept
  <2>3. \A r \in Slot : slot[r] = reading["backup"] => r = s
    BY <1>1, <2>2 DEF SlotInv
  <2> QED
    BY <1>2, <1>5, <1>6, <1>10, <2>1, <2>2, <2>3 DEF Kept
<1>11. \A u \in Thread :
           /\ at'[u] = "umount" <=> at[u] = "umount"
           /\ at'[u] = "record" <=> at[u] = "record"
           /\ at[u] \in {"umount", "record"} => point'[u] = point[u]
  BY <1>2, <1>4, <1>5
<1> QED
  BY <1>2, <1>3, <1>8, <1>9, <1>10, <1>11, QuietKeeps

LEMMA ForgetGoneKeeps ==
    ASSUME Inv, ForgetGone
    PROVE  Inv'
<1> DEFINE l == listing["handler"]
           kept == marks \intersect Cards(l)
           candidates == [s \in Slot |-> IF l[s] \in kept THEN NoCard ELSE l[s]]
<1>1. TypeOK /\ PointInv /\ DeviceInv /\ CleanInv
  BY DEF Inv
<1>2. "handler" \in Thread /\ "ejection" \in Thread
  BY DEF Thread
<1>3. /\ at["handler"] = "forget" /\ marks' = kept
      /\ UNCHANGED <<slot, moves, mounts, selected, tracked, reading, clean, strays,
                     ejections, restarts>>
  BY DEF ForgetGone, slotVars, readerVars
<1>4. CASE /\ listing' = [listing EXCEPT !["handler"] = candidates]
           /\ todo' = [todo EXCEPT !["handler"] = Absent(candidates)]
           /\ at' = [at EXCEPT !["handler"] = "release"]
           /\ UNCHANGED <<point, call, told>>
  <2>1. /\ listing'["handler"] = candidates /\ at'["handler"] = "release"
        /\ todo'["handler"] = Absent(candidates) /\ at'["ejection"] = at["ejection"]
    BY <1>1, <1>2, <1>4 DEF TypeOK
  <2>2. TypeOK'
    <3>1. candidates \in [Slot -> MaybeCard] /\ Absent(candidates) \in SUBSET Slot
      BY <1>1, <1>2 DEF TypeOK, MaybeCard, Absent, Occupied
    <3>2. marks' \in SUBSET Card
      BY <1>1, <1>3 DEF TypeOK
    <3>3. at' \in [Thread -> Place]
      BY <1>1, <1>4 DEF TypeOK, Place
    <3> HIDE DEF candidates, kept
    <3>4. listing' \in [Thread -> [Slot -> MaybeCard]] /\ todo' \in [Thread -> SUBSET Slot]
      BY <1>1, <1>4, <3>1 DEF TypeOK
    <3> QED
      BY <1>1, <1>3, <1>4, <3>2, <3>3, <3>4 DEF TypeOK
  <2>3. PointInv' /\ DeviceInv'
    BY <1>1, <1>2, <1>3, <1>4, <2>1 DEF PointInv, DeviceInv, Thread
  <2>4. ASSUME clean, NEW s \in Slot, Kept(reading["backup"], s)
        PROVE  Kept(reading["backup"], s)'
    <3> DEFINE p == reading["backup"]
    <3>1. l[s] = p /\ p # NoCard /\ p \notin kept /\ \A r \in Slot : l[r] = p => r = s
      BY <1>1, <1>3, <2>4 DEF CleanInv, Kept
    <3>2. candidates[s] = p /\ \A r \in Slot : candidates[r] = p => r = s
      BY <3>1
    <3>3. s \notin Absent(candidates)
      BY <3>1, <3>2 DEF Absent, Occupied
    <3> HIDE DEF candidates
    <3> QED
      BY <1>3, <2>1, <2>4, <3>2, <3>3 DEF Kept
  <2>5. clean => reading["backup"] \notin marks' /\ at'["ejection"] = "idle"
    BY <1>1, <1>3, <2>1 DEF CleanInv
  <2>6. \A t \in Thread :
            /\ at'[t] = "umount" <=> at[t] = "umount"
            /\ at'[t] = "record" <=> at[t] = "record"
            /\ at[t] \in {"umount", "record"} => point'[t] = point[t]
    BY <1>3, <1>4, <2>1 DEF Thread
  <2> QED
    BY <1>3, <2>2, <2>3, <2>4, <2>5, <2>6, QuietKeeps
<1>5. CASE /\ told' = IF call = "awaiting_removal" THEN kept # {} ELSE told
           /\ call' = IF call = "state" THEN "awaiting_removal" ELSE "candidates"
           /\ at' = [at EXCEPT !["handler"] = "list"]
           /\ UNCHANGED <<listing, todo, point>>
  <2>1. at'["handler"] = "list" /\ at'["ejection"] = at["ejection"]
    BY <1>1, <1>2, <1>5 DEF TypeOK
  <2>2. TypeOK'
    <3>1. marks' \in SUBSET Card /\ told' \in BOOLEAN
      BY <1>1, <1>3, <1>5 DEF TypeOK
    <3>2. at' \in [Thread -> Place] /\ call' \in MediaCall
      BY <1>1, <1>5 DEF TypeOK, Place, MediaCall
    <3> QED
      BY <1>1, <1>3, <1>5, <3>1, <3>2 DEF TypeOK
  <2>3. PointInv' /\ DeviceInv'
    BY <1>1, <1>2, <1>3, <1>5, <2>1 DEF PointInv, DeviceInv, Thread
  <2>4. ASSUME NEW s \in Slot, Kept(reading["backup"], s)
        PROVE  Kept(reading["backup"], s)'
    BY <1>3, <2>1, <2>4 DEF Kept
  <2>5. clean => reading["backup"] \notin marks' /\ at'["ejection"] = "idle"
    BY <1>1, <1>3, <2>1 DEF CleanInv
  <2>6. \A t \in Thread :
            /\ at'[t] = "umount" <=> at[t] = "umount"
            /\ at'[t] = "record" <=> at[t] = "record"
            /\ at[t] \in {"umount", "record"} => point'[t] = point[t]
    BY <1>3, <1>5, <2>1 DEF Thread
  <2> QED
    BY <1>3, <2>2, <2>3, <2>4, <2>5, <2>6, QuietKeeps
<1>6. CASE Finish("handler") /\ UNCHANGED told
  BY <1>1, <1>2, <1>3, <1>6, FinishKeeps DEF TypeOK
<1>7. \/ /\ listing' = [listing EXCEPT !["handler"] = candidates]
         /\ todo' = [todo EXCEPT !["handler"] = Absent(candidates)]
         /\ at' = [at EXCEPT !["handler"] = "release"]
         /\ UNCHANGED <<point, call, told>>
      \/ /\ told' = IF call = "awaiting_removal" THEN kept # {} ELSE told
         /\ call' = IF call = "state" THEN "awaiting_removal" ELSE "candidates"
         /\ at' = [at EXCEPT !["handler"] = "list"]
         /\ UNCHANGED <<listing, todo, point>>
      \/ Finish("handler") /\ UNCHANGED told
  BY DEF ForgetGone, Goto
<1> QED
  BY <1>4, <1>5, <1>6, <1>7

LEMMA EjectMarksKeeps ==
    ASSUME Inv, EjectMarks
    PROVE  Inv'
<1>1. TypeOK /\ PointInv /\ DeviceInv /\ CleanInv
  BY DEF Inv
<1>2. /\ at["ejection"] = "mark" /\ marks' = marks \union Cards(listing["ejection"])
      /\ todo' = [todo EXCEPT !["ejection"] = Occupied(tracked)]
      /\ at' = [at EXCEPT !["ejection"] = "release"]
      /\ UNCHANGED <<slot, moves, mounts, selected, tracked, listing, point, call, reading,
                     clean, told, strays, ejections, restarts>>
  BY DEF EjectMarks, Goto, slotVars, readerVars
<1>3. at'["ejection"] = "release" /\ at'["handler"] = at["handler"] /\ ~ clean
  BY <1>1, <1>2 DEF TypeOK, Thread, CleanInv
<1>4. TypeOK'
  <2>1. Cards(listing["ejection"]) \subseteq Card
    BY <1>1 DEF TypeOK, Thread, Cards, MaybeCard
  <2>2. marks' \in SUBSET Card
    BY <1>1, <1>2, <2>1 DEF TypeOK
  <2>3. at' \in [Thread -> Place] /\ todo' \in [Thread -> SUBSET Slot]
    BY <1>1, <1>2 DEF TypeOK, Place, Occupied
  <2> QED
    BY <1>1, <1>2, <2>2, <2>3 DEF TypeOK
<1>5. PointInv' /\ DeviceInv'
  BY <1>1, <1>2, <1>3 DEF PointInv, DeviceInv, Occupied, Thread
<1> QED
  BY <1>2, <1>3, <1>4, <1>5, QuietKeeps DEF Thread

LEMMA SelectDeviceKeeps ==
    ASSUME Inv, NEW s \in Slot, SelectDevice(s)
    PROVE  Inv'
<1> DEFINE c == listing["handler"][s]
           only == [Empty EXCEPT ![s] = c]
<1>1. TypeOK /\ PointInv /\ DeviceInv /\ CleanInv
  BY DEF Inv
<1>2. "handler" \in Thread /\ "ejection" \in Thread
  BY DEF Thread
<1>3. /\ at["handler"] = "release" /\ c # NoCard
      /\ listing' = [listing EXCEPT !["handler"] = only]
      /\ \/ /\ tracked[s] # NoCard /\ point' = [point EXCEPT !["handler"] = tracked[s]]
            /\ at' = [at EXCEPT !["handler"] = "use"]
         \/ /\ tracked[s] = NoCard /\ point' = [point EXCEPT !["handler"] = c]
            /\ at' = [at EXCEPT !["handler"] = "mount"]
      /\ UNCHANGED <<slot, moves, mounts, marks, selected, tracked, todo, call, reading,
                     clean, told, strays, ejections, restarts>>
  BY DEF SelectDevice, Goto, slotVars, managerVars, readerVars
<1>4. c \in MaybeCard /\ tracked[s] \in MaybeCard
  BY <1>1, <1>2 DEF TypeOK
<1>5. only \in [Slot -> MaybeCard] /\ only[s] = c /\ \A r \in Slot : r # s => only[r] = NoCard
  BY <1>4 DEF Empty, MaybeCard
<1>6. Occupied(only) = {s}
  BY <1>3, <1>5 DEF Occupied
<1> HIDE DEF only
<1>7. /\ listing'["handler"] = only
      /\ point'["handler"] = IF tracked[s] # NoCard THEN tracked[s] ELSE c
      /\ at'["handler"] = IF tracked[s] # NoCard THEN "use" ELSE "mount"
      /\ at'["ejection"] = at["ejection"] /\ point'["ejection"] = point["ejection"]
  BY <1>1, <1>2, <1>3 DEF TypeOK
<1> HIDE DEF c
<1>8. TypeOK'
  <2>1. at' \in [Thread -> Place] /\ point' \in [Thread -> MaybeCard]
    BY <1>1, <1>3, <1>4 DEF TypeOK, Place
  <2>2. listing' \in [Thread -> [Slot -> MaybeCard]]
    BY <1>1, <1>3, <1>5 DEF TypeOK
  <2> QED
    BY <1>1, <1>3, <2>1, <2>2 DEF TypeOK
<1>9. PointInv'
  BY <1>1, <1>3, <1>7 DEF PointInv, Thread
<1>10. DeviceInv'
  BY <1>3, <1>6, <1>7 DEF DeviceInv, Occupied
<1>11. ASSUME clean, NEW r \in Slot, Kept(reading["backup"], r)
       PROVE  Kept(reading["backup"], r)'
  <2>1. ASSUME tracked[s] = NoCard, c = reading["backup"] PROVE FALSE
    BY <1>1, <1>3, <1>11, <2>1 DEF CleanInv, Kept, c
  <2> QED
    BY <1>3, <1>7, <1>11, <2>1 DEF Kept
<1>12. \A t \in Thread :
           /\ at'[t] = "umount" <=> at[t] = "umount"
           /\ at'[t] = "record" <=> at[t] = "record"
           /\ at[t] \in {"umount", "record"} => point'[t] = point[t]
  BY <1>3, <1>7 DEF Thread
<1>13. clean => reading["backup"] \notin marks' /\ at'["ejection"] = "idle"
  BY <1>1, <1>3, <1>7 DEF CleanInv
<1> QED
  BY <1>3, <1>8, <1>9, <1>10, <1>11, <1>12, <1>13, QuietKeeps

\* The ends of a call: an ejection done, no source, a mount refused.
LEMMA EndsKeep ==
    ASSUME Inv, EjectDone \/ NoSource \/ MountRaises
    PROVE  Inv'
<1>1. PICK t \in Thread : Finish(t) /\ at[t] \notin {"umount", "record"}
  BY DEF EjectDone, NoSource, MountRaises, Thread
<1>2. UNCHANGED <<slot, moves, mounts, marks, selected, tracked, reading, clean, told, strays,
                  ejections, restarts>>
  BY DEF EjectDone, NoSource, MountRaises, slotVars, managerVars, readerVars
<1> QED
  BY <1>1, <1>2, FinishKeeps DEF Inv, TypeOK

-----------------------------------------------------------------------------
(* A mount is handed on, made and dropped.                                 *)

LEMMA ForgetKeeps ==
    ASSUME Inv, NEW t \in Thread, NEW s \in Slot, Forget(t, s)
    PROVE  Inv'
<1>1. TypeOK /\ SlotInv /\ PointInv /\ DeviceInv /\ EveryMountIsOwned /\ CleanInv
  BY DEF Inv
<1>2. /\ at[t] = "release" /\ s \in todo[t]
      /\ todo' = [todo EXCEPT ![t] = @ \ {s}] /\ tracked' = [tracked EXCEPT ![s] = NoCard]
      /\ \/ /\ tracked[s] # NoCard /\ point' = [point EXCEPT ![t] = tracked[s]]
            /\ at' = [at EXCEPT ![t] = "umount"]
         \/ tracked[s] = NoCard /\ UNCHANGED <<point, at>>
      /\ UNCHANGED <<slot, moves, mounts, marks, selected, listing, call, reading, clean,
                     told, strays, ejections, restarts>>
  BY DEF Forget, Remembered, Goto, slotVars, readerVars
<1>3. ASSUME NEW u \in Thread, u # t
      PROVE  at'[u] = at[u] /\ point'[u] = point[u] /\ todo'[u] = todo[u]
  BY <1>1, <1>2, <1>3 DEF TypeOK
<1>4. /\ todo'[t] = todo[t] \ {s}
      /\ \/ tracked[s] # NoCard /\ point'[t] = tracked[s] /\ at'[t] = "umount"
         \/ tracked[s] = NoCard /\ UNCHANGED <<point, at>>
  BY <1>1, <1>2 DEF TypeOK
<1>5. \A r \in Slot : tracked'[r] = IF r = s THEN NoCard ELSE tracked[r]
  BY <1>1, <1>2 DEF TypeOK
<1>6. "handler" \in Thread /\ "ejection" \in Thread
  BY DEF Thread
<1>7. TypeOK'
  <2>1. tracked[s] \in MaybeCard /\ NoCard \in MaybeCard
    BY <1>1 DEF TypeOK, MaybeCard
  <2>2. at' \in [Thread -> Place] /\ point' \in [Thread -> MaybeCard]
    BY <1>1, <1>2, <2>1 DEF TypeOK, Place
  <2>3. tracked' \in [Slot -> MaybeCard] /\ todo' \in [Thread -> SUBSET Slot]
    BY <1>1, <1>2, <2>1 DEF TypeOK
  <2> QED
    BY <1>1, <1>2, <2>2, <2>3 DEF TypeOK
<1>8. SlotInv'
  BY <1>1, <1>2 DEF SlotInv
<1>9. PointInv'
  BY <1>1, <1>2, <1>3, <1>4, <1>6 DEF PointInv
<1>10. DeviceInv'
  BY <1>1, <1>2, <1>3, <1>4, <1>5, <1>6 DEF DeviceInv, Occupied
<1>11. EveryMountIsOwned'
  <2> SUFFICES ASSUME NEW p \in Card PROVE Len(mounts[p]) = Owned(p)' + strays[p]
    BY <1>2 DEF EveryMountIsOwned
  <2>1. Owned(p)' = Cardinality(Tracks(p)') + Cardinality(Unmounts(p)') + InHand(p)'
    BY DEF Owned, Tracks, Unmounts, InHand
  <2>2. p # NoCard
    BY NotCards
  <2>3. InHand(p)' = InHand(p)
    BY <1>2, <1>3, <1>4, <1>6 DEF InHand
  <2>4. CASE tracked[s] = p
    <3>1. Tracks(p)' = Tracks(p) \ {s} /\ s \in Tracks(p)
      BY <1>5, <2>2, <2>4 DEF Tracks
    <3>2. Unmounts(p)' = Unmounts(p) \cup {t} /\ t \notin Unmounts(p)
      BY <1>2, <1>3, <1>4, <2>2, <2>4 DEF Unmounts
    <3>3. Cardinality(Tracks(p)') = Cardinality(Tracks(p)) - 1
      BY <3>1, CountsAreNumbers, FS_RemoveElement
    <3>4. Cardinality(Unmounts(p)') = Cardinality(Unmounts(p)) + 1
      BY <3>2, CountsAreNumbers, FS_AddElement
    <3>5. Owned(p)' = Owned(p)
      <4> DEFINE a == Cardinality(Tracks(p))
                 b == Cardinality(Unmounts(p))
                 h == InHand(p)
      <4>1. a \in Nat /\ b \in Nat /\ h \in Nat
        BY CountsAreNumbers
      <4>2. Owned(p)' = (a - 1) + (b + 1) + h /\ Owned(p) = a + b + h
        BY <2>1, <2>3, <3>3, <3>4, OwnedIs
      <4> HIDE DEF a, b, h
      <4> QED
        BY <4>1, <4>2
    <3> QED
      BY <1>1, <3>5 DEF EveryMountIsOwned
  <2>5. CASE tracked[s] # p
    <3>1. Tracks(p)' = Tracks(p)
      BY <1>5, <2>2, <2>5 DEF Tracks
    <3>2. Unmounts(p)' = Unmounts(p)
      BY <1>2, <1>3, <1>4, <2>5 DEF Unmounts
    <3>3. Owned(p)' = Owned(p)
      BY <2>1, <2>3, <3>1, <3>2, OwnedIs
    <3> QED
      BY <1>1, <3>3 DEF EveryMountIsOwned
  <2> QED
    BY <2>4, <2>5
<1>12. CleanInv'
  <2> DEFINE p == reading["backup"]
  <2> SUFFICES ASSUME clean PROVE CleanInv'
    BY <1>2 DEF CleanInv
  <2>1. t = "handler"
    BY <1>1, <1>2 DEF CleanInv, Thread
  <2>2. PICK r \in Slot : Kept(p, r)
    BY <1>1 DEF CleanInv
  <2>3. r # s /\ p # NoCard
    BY <1>1, <1>2, <2>1, <2>2 DEF CleanInv, Kept
  <2>4. tracked[s] # p
    BY <2>2, <2>3 DEF Kept
  <2>5. Kept(p, r)'
    BY <1>2, <1>4, <1>5, <2>1, <2>2, <2>3, <2>4 DEF Kept
  <2>6. at'["ejection"] = "idle"
    BY <1>1, <1>3, <1>6, <2>1 DEF CleanInv
  <2> QED
    BY <1>1, <1>2, <2>5, <2>6 DEF CleanInv, OnTop
<1> QED
  BY <1>7, <1>8, <1>9, <1>10, <1>11, <1>12 DEF Inv

LEMMA UnmountKeeps ==
    ASSUME Inv, NEW t \in Thread, Unmount(t)
    PROVE  Inv'
<1> DEFINE q == point[t]
<1>1. TypeOK /\ SlotInv /\ PointInv /\ DeviceInv /\ EveryMountIsOwned /\ CleanInv
  BY DEF Inv
<1>2. /\ at[t] = "umount" /\ point' = [point EXCEPT ![t] = NoCard]
      /\ at' = [at EXCEPT ![t] = "release"]
      /\ \/ mounts' = [mounts EXCEPT ![q] = Front(@)] /\ UNCHANGED strays
         \/ strays' = [strays EXCEPT ![q] = @ + 1] /\ UNCHANGED mounts
      /\ UNCHANGED <<slot, moves, marks, selected, tracked, listing, todo, call, reading,
                     clean, told, ejections, restarts>>
  BY DEF Unmount, Goto, slotVars, managerVars, readerVars
<1>3. ASSUME NEW u \in Thread, u # t PROVE at'[u] = at[u] /\ point'[u] = point[u]
  BY <1>1, <1>2, <1>3 DEF TypeOK
<1>4. at'[t] = "release" /\ q \in Card
  BY <1>1, <1>2 DEF TypeOK, PointInv, MaybeCard
<1>5. "handler" \in Thread /\ "ejection" \in Thread
  BY DEF Thread
<1>6. t \in Unmounts(q) /\ \A p \in Card : Unmounts(p)' = Unmounts(p) \ {t}
  BY <1>2, <1>3, <1>4 DEF Unmounts
<1>7. mounts[q] \in Seq(Card \union {Gone}) /\ mounts[q] # <<>>
  <2>1. mounts[q] \in Seq(Card \union {Gone}) /\ strays[q] \in Nat
    BY <1>1, <1>4 DEF TypeOK
  <2>2. Cardinality(Unmounts(q)) # 0
    BY <1>6, CountsAreNumbers, FS_EmptySet
  <2>3. Len(mounts[q]) = Owned(q) + strays[q]
    BY <1>1, <1>4 DEF EveryMountIsOwned
  <2>4. Owned(q) + strays[q] # 0
    <3> DEFINE a == Cardinality(Tracks(q))
               b == Cardinality(Unmounts(q))
               h == InHand(q)
               n == strays[q]
    <3>1. a \in Nat /\ b \in Nat /\ h \in Nat /\ n \in Nat /\ b # 0
      BY <2>1, <2>2, CountsAreNumbers
    <3>2. Owned(q) = a + b + h
      BY OwnedIs
    <3> HIDE DEF a, b, h, n
    <3>3. a + b + h + n # 0
      BY <3>1
    <3> QED
      BY <3>2, <3>3 DEF n
  <2> QED
    BY <2>1, <2>3, <2>4, EmptySeq
<1>8. Front(mounts[q]) \in Seq(Card \union {Gone}) /\ Len(Front(mounts[q])) = Len(mounts[q]) - 1
  BY <1>7, FrontIs
<1> HIDE DEF q
<1>9. TypeOK'
  <2>1. at' \in [Thread -> Place] /\ point' \in [Thread -> MaybeCard]
    BY <1>1, <1>2 DEF TypeOK, Place, MaybeCard
  <2>2. mounts' \in [Card -> Seq(Card \union {Gone})]
    <3>1. mounts \in [Card -> Seq(Card \union {Gone})]
      BY <1>1 DEF TypeOK
    <3>2. mounts' = [mounts EXCEPT ![q] = Front(mounts[q])] \/ UNCHANGED mounts
      BY <1>2
    <3> DEFINE S == Seq(Card \union {Gone})
               f == Front(mounts[q])
    <3>3. f \in S
      BY <1>8
    <3> HIDE DEF S, f
    <3>4. [mounts EXCEPT ![q] = f] \in [Card -> S]
      BY <3>1, <3>3 DEF S
    <3> QED
      BY <3>1, <3>2, <3>4 DEF S, f
  <2>3. strays' \in [Card -> Nat]
    <3>1. strays \in [Card -> Nat] /\ strays[q] + 1 \in Nat
      BY <1>1, <1>4 DEF TypeOK
    <3>2. strays' = [strays EXCEPT ![q] = strays[q] + 1] \/ UNCHANGED strays
      BY <1>2
    <3> QED
      BY <3>1, <3>2
  <2> QED
    BY <1>1, <1>2, <2>1, <2>2, <2>3 DEF TypeOK
<1>10. SlotInv' /\ PointInv'
  BY <1>1, <1>2, <1>3, <1>4, <1>5 DEF SlotInv, PointInv
<1>11. DeviceInv'
  BY <1>1, <1>2, <1>3, <1>4, <1>5 DEF DeviceInv, Occupied
<1>12. EveryMountIsOwned'
  <2> SUFFICES ASSUME NEW p \in Card PROVE Len(mounts'[p]) = Owned(p)' + strays'[p]
    BY DEF EveryMountIsOwned
  <2>1. Owned(p)' = Cardinality(Tracks(p)') + Cardinality(Unmounts(p)') + InHand(p)'
    BY DEF Owned, Tracks, Unmounts, InHand
  <2>2. Tracks(p)' = Tracks(p)
    BY <1>2 DEF Tracks
  <2>3. InHand(p)' = InHand(p)
    BY <1>2, <1>3, <1>4, <1>5 DEF InHand
  <2> DEFINE a == Cardinality(Tracks(p))
             b == Cardinality(Unmounts(p))
             h == InHand(p)
             n == strays[p]
             m == Len(mounts[p])
  <2>4. a \in Nat /\ b \in Nat /\ h \in Nat /\ n \in Nat
    BY <1>1, CountsAreNumbers DEF TypeOK
  <2>5. m = a + b + h + n
    BY <1>1, OwnedIs DEF EveryMountIsOwned
  <2>6. CASE p = q
    <3>1. Cardinality(Unmounts(p)') = b - 1
      BY <1>6, <2>6, CountsAreNumbers, FS_RemoveElement
    <3>2. Owned(p)' = a + (b - 1) + h
      BY <2>1, <2>2, <2>3, <3>1
    <3>3. \/ Len(mounts'[p]) = m - 1 /\ strays'[p] = n
          \/ Len(mounts'[p]) = m /\ strays'[p] = n + 1
      BY <1>1, <1>2, <1>4, <1>8, <2>6 DEF TypeOK
    <3> HIDE DEF a, b, h, n, m
    <3> QED
      BY <2>4, <2>5, <3>2, <3>3
  <2>7. CASE p # q
    <3>1. Unmounts(p)' = Unmounts(p)
      <4>1. t \notin Unmounts(p)
        BY <2>7 DEF Unmounts, q
      <4> QED
        BY <1>6, <4>1
    <3>2. Owned(p)' = Owned(p)
      BY <2>1, <2>2, <2>3, <3>1, OwnedIs
    <3>3. mounts'[p] = mounts[p] /\ strays'[p] = strays[p]
      BY <1>1, <1>2, <2>7 DEF TypeOK
    <3> QED
      BY <1>1, <3>2, <3>3 DEF EveryMountIsOwned
  <2> QED
    BY <2>6, <2>7
<1>13. CleanInv'
  <2> DEFINE p == reading["backup"]
  <2> SUFFICES ASSUME clean PROVE CleanInv'
    BY <1>2 DEF CleanInv
  <2>1. t = "handler"
    BY <1>1, <1>2 DEF CleanInv, Thread
  <2>2. PICK r \in Slot : Kept(p, r)
    BY <1>1 DEF CleanInv
  <2>3. p # q /\ p \in Card
    BY <1>1, <1>2, <2>1, <2>2 DEF Kept, q, CleanInv, TypeOK, MaybeCard, Reader
  <2>4. Kept(p, r)'
    BY <1>2, <1>4, <2>1, <2>2 DEF Kept
  <2>5. OnTop(p, p)'
    BY <1>1, <1>2, <2>3 DEF CleanInv, OnTop, TypeOK
  <2>6. at'["ejection"] = "idle"
    BY <1>1, <1>3, <1>5, <2>1 DEF CleanInv
  <2> QED
    BY <1>1, <1>2, <2>4, <2>5, <2>6 DEF CleanInv
<1> QED
  BY <1>9, <1>10, <1>11, <1>12, <1>13 DEF Inv

\* The slot the handler's listing is narrowed to.
LEMMA DeviceIs ==
    ASSUME NEW s \in Slot, Occupied(listing["handler"]) = {s}
    PROVE  Device = s
  BY DEF Device, Occupied

LEMMA MountKeeps ==
    ASSUME Inv, Mount
    PROVE  Inv'
<1> DEFINE q == point["handler"]
           c == slot[Device]
<1>1. TypeOK /\ SlotInv /\ PointInv /\ DeviceInv /\ EveryMountIsOwned /\ CleanInv
  BY DEF Inv
<1>2. "handler" \in Thread /\ "ejection" \in Thread
  BY DEF Thread
<1>3. /\ at["handler"] = "mount" /\ at' = [at EXCEPT !["handler"] = "record"]
      /\ mounts' = [mounts EXCEPT ![q] = Append(@, c)] /\ c # NoCard
      /\ UNCHANGED <<slot, moves, marks, selected, tracked, listing, todo, point, call,
                     reading, clean, told, strays, ejections, restarts>>
  BY DEF Mount, Mountable, Goto, slotVars, managerVars, readerVars
<1>4. PICK d \in Slot : Occupied(listing["handler"]) = {d} /\ tracked[d] = NoCard
  BY <1>1, <1>3 DEF DeviceInv
<1>5. Device = d
  BY <1>4, DeviceIs
<1>6. q \in Card /\ c \in Card
  BY <1>1, <1>2, <1>3, <1>5 DEF PointInv, TypeOK, MaybeCard
<1>7. at'["handler"] = "record" /\ at'["ejection"] = at["ejection"]
  BY <1>1, <1>2, <1>3 DEF TypeOK
<1>8. /\ mounts[q] \in Seq(Card \union {Gone})
      /\ Append(mounts[q], c) \in Seq(Card \union {Gone})
      /\ Len(Append(mounts[q], c)) = Len(mounts[q]) + 1
  BY <1>1, <1>6, AppendProperties DEF TypeOK
<1> HIDE DEF q, c
<1>9. TypeOK'
  <2>1. at' \in [Thread -> Place]
    BY <1>1, <1>3 DEF TypeOK, Place
  <2>2. mounts' \in [Card -> Seq(Card \union {Gone})]
    BY <1>1, <1>3, <1>6, <1>8 DEF TypeOK
  <2> QED
    BY <1>1, <1>3, <2>1, <2>2 DEF TypeOK
<1>10. SlotInv' /\ PointInv'
  BY <1>1, <1>3, <1>7 DEF SlotInv, PointInv, Thread
<1>11. DeviceInv'
  BY <1>3, <1>4 DEF DeviceInv, Occupied
<1>12. EveryMountIsOwned'
  <2> SUFFICES ASSUME NEW p \in Card PROVE Len(mounts'[p]) = Owned(p)' + strays[p]
    BY <1>3 DEF EveryMountIsOwned
  <2>1. Owned(p)' = Cardinality(Tracks(p)') + Cardinality(Unmounts(p)') + InHand(p)'
    BY DEF Owned, Tracks, Unmounts, InHand
  <2>2. Tracks(p)' = Tracks(p) /\ Unmounts(p)' = Unmounts(p)
    BY <1>3, <1>7 DEF Tracks, Unmounts, Thread
  <2>3. InHand(p) = 0 /\ InHand(p)' = IF p = q THEN 1 ELSE 0
    BY <1>3, <1>7 DEF InHand, q
  <2>4. Len(mounts'[p]) = IF p = q THEN Len(mounts[p]) + 1 ELSE Len(mounts[p])
    BY <1>1, <1>3, <1>6, <1>8 DEF TypeOK
  <2> DEFINE a == Cardinality(Tracks(p))
             b == Cardinality(Unmounts(p))
             n == strays[p]
             m == Len(mounts[p])
  <2>5. a \in Nat /\ b \in Nat /\ n \in Nat
    BY <1>1, CountsAreNumbers DEF TypeOK
  <2>6. m = a + b + 0 + n
    BY <1>1, <2>3, OwnedIs DEF EveryMountIsOwned
  <2>7. Owned(p)' = a + b + IF p = q THEN 1 ELSE 0
    BY <2>1, <2>2, <2>3
  <2>8. Len(mounts'[p]) = IF p = q THEN m + 1 ELSE m
    BY <2>4
  <2> HIDE DEF a, b, n, m
  <2>9. (IF p = q THEN m + 1 ELSE m) = (a + b + IF p = q THEN 1 ELSE 0) + n
    BY <2>5, <2>6
  <2> QED
    BY <2>7, <2>8, <2>9 DEF n
<1>13. CleanInv'
  <2> DEFINE p == reading["backup"]
  <2> SUFFICES ASSUME clean PROVE CleanInv'
    BY <1>3 DEF CleanInv
  <2>1. PICK r \in Slot : Kept(p, r)
    BY <1>1 DEF CleanInv
  <2>2. p # q /\ p \in Card
    BY <1>1, <1>3, <2>1 DEF Kept, q, CleanInv, TypeOK, MaybeCard, Reader
  <2>3. Kept(p, r)'
    BY <1>3, <1>7, <2>1 DEF Kept
  <2>4. OnTop(p, p)'
    BY <1>1, <1>3, <2>2 DEF CleanInv, OnTop, TypeOK
  <2> QED
    BY <1>1, <1>3, <1>7, <2>3, <2>4 DEF CleanInv
<1> QED
  BY <1>9, <1>10, <1>11, <1>12, <1>13 DEF Inv

LEMMA RecordKeeps ==
    ASSUME Inv, Record
    PROVE  Inv'
<1> DEFINE q == point["handler"]
<1>1. TypeOK /\ SlotInv /\ PointInv /\ DeviceInv /\ EveryMountIsOwned /\ CleanInv
  BY DEF Inv
<1>2. "handler" \in Thread /\ "ejection" \in Thread
  BY DEF Thread
<1>3. /\ at["handler"] = "record" /\ at' = [at EXCEPT !["handler"] = "use"]
      /\ tracked' = [tracked EXCEPT ![Device] = q]
      /\ UNCHANGED <<slot, moves, mounts, marks, selected, listing, todo, point, call,
                     reading, clean, told, strays, ejections, restarts>>
  BY DEF Record, Goto, slotVars, readerVars
<1>4. PICK d \in Slot : Occupied(listing["handler"]) = {d} /\ tracked[d] = NoCard
  BY <1>1, <1>3 DEF DeviceInv
<1>5. Device = d
  BY <1>4, DeviceIs
<1>6. q \in Card
  BY <1>1, <1>2, <1>3 DEF PointInv, TypeOK, MaybeCard
<1>7. at'["handler"] = "use" /\ at'["ejection"] = at["ejection"]
  BY <1>1, <1>2, <1>3 DEF TypeOK
<1>8. \A r \in Slot : tracked'[r] = IF r = d THEN q ELSE tracked[r]
  BY <1>1, <1>3, <1>5 DEF TypeOK
<1> HIDE DEF q
<1>9. TypeOK'
  <2>1. at' \in [Thread -> Place]
    BY <1>1, <1>3 DEF TypeOK, Place
  <2>2. tracked' \in [Slot -> MaybeCard]
    BY <1>1, <1>3, <1>6 DEF TypeOK, MaybeCard
  <2> QED
    BY <1>1, <1>3, <2>1, <2>2 DEF TypeOK
<1>10. SlotInv' /\ PointInv'
  BY <1>1, <1>3, <1>7 DEF SlotInv, PointInv, Thread
<1>11. DeviceInv'
  BY <1>7 DEF DeviceInv
<1>12. EveryMountIsOwned'
  <2> SUFFICES ASSUME NEW p \in Card PROVE Len(mounts[p]) = Owned(p)' + strays[p]
    BY <1>3 DEF EveryMountIsOwned
  <2>1. Owned(p)' = Cardinality(Tracks(p)') + Cardinality(Unmounts(p)') + InHand(p)'
    BY DEF Owned, Tracks, Unmounts, InHand
  <2>2. Unmounts(p)' = Unmounts(p)
    BY <1>3, <1>7 DEF Unmounts, Thread
  <2>3. InHand(p)' = 0 /\ InHand(p) = IF p = q THEN 1 ELSE 0
    BY <1>3, <1>7 DEF InHand, q
  <2>4. p # NoCard
    BY NotCards
  <2> DEFINE a == Cardinality(Tracks(p))
             b == Cardinality(Unmounts(p))
  <2>5. a \in Nat /\ b \in Nat
    BY CountsAreNumbers
  <2>6. Cardinality(Tracks(p)') = IF p = q THEN a + 1 ELSE a
    <3>1. CASE p = q
      <4>1. Tracks(p)' = Tracks(p) \cup {d} /\ d \notin Tracks(p)
        BY <1>4, <1>8, <2>4, <3>1 DEF Tracks
      <4> QED
        BY <3>1, <4>1, CountsAreNumbers, FS_AddElement
    <3>2. CASE p # q
      <4>1. Tracks(p)' = Tracks(p)
        BY <1>4, <1>8, <2>4, <3>2 DEF Tracks
      <4> QED
        BY <3>2, <4>1
    <3> QED
      BY <3>1, <3>2
  <2>7. Owned(p)' = (IF p = q THEN a + 1 ELSE a) + b + 0
    BY <2>1, <2>2, <2>3, <2>6
  <2>8. Owned(p) = a + b + IF p = q THEN 1 ELSE 0
    BY <2>3, OwnedIs
  <2> HIDE DEF a, b
  <2>9. Owned(p)' = Owned(p)
    BY <2>5, <2>7, <2>8
  <2> QED
    BY <1>1, <2>9 DEF EveryMountIsOwned
<1>13. CleanInv'
  <2> DEFINE p == reading["backup"]
  <2> SUFFICES ASSUME clean PROVE CleanInv'
    BY <1>3 DEF CleanInv
  <2>1. PICK r \in Slot : Kept(p, r)
    BY <1>1 DEF CleanInv
  <2>2. p # q /\ p # NoCard
    BY <1>1, <1>3, <2>1 DEF Kept, q, CleanInv
  <2>3. r # d
    BY <1>4, <2>1, <2>2 DEF Kept
  <2>4. Kept(p, r)'
    BY <1>3, <1>7, <1>8, <2>1, <2>2, <2>3 DEF Kept
  <2> QED
    BY <1>1, <1>3, <1>7, <2>4 DEF CleanInv, OnTop
<1> QED
  BY <1>9, <1>10, <1>11, <1>12, <1>13 DEF Inv

LEMMA UseSourceKeeps ==
    ASSUME Inv, UseSource
    PROVE  Inv'
<1> DEFINE p == point["handler"]
<1>1. TypeOK /\ SlotInv /\ PointInv /\ DeviceInv /\ EveryMountIsOwned /\ CleanInv
  BY DEF Inv
<1>2. "handler" \in Thread /\ "ejection" \in Thread /\ "backup" \in Reader
      /\ "dry_run" \in Reader
  BY DEF Thread, Reader
<1>3. /\ at["handler"] = "use" /\ Finish("handler")
      /\ \/ UNCHANGED <<reading, clean>>
         \/ reading' = [reading EXCEPT !["backup"] = p] /\ clean' = Undisturbed(p)
         \/ reading' = [reading EXCEPT !["dry_run"] = p] /\ UNCHANGED clean
      /\ UNCHANGED <<slot, moves, mounts, marks, selected, tracked, told, strays, ejections,
                     restarts>>
  BY DEF UseSource, slotVars, managerVars, readerVars
<1>4. /\ at' = [at EXCEPT !["handler"] = "idle"]
      /\ listing' = [listing EXCEPT !["handler"] = Empty]
      /\ todo' = [todo EXCEPT !["handler"] = {}]
      /\ point' = [point EXCEPT !["handler"] = NoCard] /\ call' = "none"
  BY <1>3 DEF Finish, Goto
<1>5. at'["handler"] = "idle" /\ at'["ejection"] = at["ejection"]
      /\ point'["ejection"] = point["ejection"]
  BY <1>1, <1>2, <1>4 DEF TypeOK
<1>6. p \in Card
  BY <1>1, <1>2, <1>3 DEF PointInv, TypeOK, MaybeCard
<1> HIDE DEF p
<1>7. TypeOK'
  <2>1. Empty \in [Slot -> MaybeCard] /\ {} \in SUBSET Slot /\ NoCard \in MaybeCard
    BY DEF Empty, MaybeCard
  <2>2. at' \in [Thread -> Place]
    BY <1>1, <1>4 DEF TypeOK, Place
  <2>3. reading' \in [Reader -> MaybeCard]
    BY <1>1, <1>3, <1>6 DEF TypeOK, MaybeCard
  <2>4. clean' \in BOOLEAN
    BY <1>1, <1>3 DEF TypeOK, Undisturbed
  <2>5. listing' \in [Thread -> [Slot -> MaybeCard]] /\ todo' \in [Thread -> SUBSET Slot]
        /\ point' \in [Thread -> MaybeCard]
    BY <1>1, <1>4, <2>1 DEF TypeOK
  <2> QED
    BY <1>1, <1>3, <1>4, <2>2, <2>3, <2>4, <2>5 DEF TypeOK
<1>8. SlotInv' /\ PointInv' /\ DeviceInv'
  <2>1. SlotInv'
    BY <1>1, <1>3 DEF SlotInv
  <2>2. PointInv'
    BY <1>1, <1>5 DEF PointInv, Thread
  <2>3. DeviceInv'
    BY <1>5 DEF DeviceInv
  <2> QED
    BY <2>1, <2>2, <2>3
<1>9. EveryMountIsOwned'
  BY <1>1, <1>3, <1>5, OwnersStay DEF Thread
<1>10. ASSUME Undisturbed(p), reading'["backup"] = p
       PROVE  CleanInv'
  <2>1. PICK s \in Slot : slot[s] = p /\ {r \in Slot : tracked[r] = p} = {s}
    BY <1>10 DEF Undisturbed
  <2>2. Kept(reading["backup"], s)'
    BY <1>3, <1>5, <1>10, <2>1 DEF Kept
  <2>3. at["ejection"] = "idle" /\ p \notin marks /\ OnTop(p, p)
    BY <1>10 DEF Undisturbed
  <2>4. p # NoCard
    BY <1>6, NotCards
  <2> QED
    BY <1>3, <1>5, <1>10, <2>2, <2>3, <2>4 DEF CleanInv, OnTop
<1>11. ASSUME UNCHANGED clean, reading'["backup"] = reading["backup"]
       PROVE  CleanInv'
  <2> SUFFICES ASSUME clean PROVE CleanInv'
    BY <1>11 DEF CleanInv
  <2>1. PICK s \in Slot : Kept(reading["backup"], s)
    BY <1>1 DEF CleanInv
  <2>2. Kept(reading["backup"], s)'
    BY <1>3, <1>5, <1>11, <2>1 DEF Kept
  <2> QED
    BY <1>1, <1>3, <1>5, <1>11, <2>2 DEF CleanInv, OnTop
<1>12. CleanInv'
  <2>1. CASE UNCHANGED <<reading, clean>>
    BY <1>11, <2>1
  <2>2. CASE reading' = [reading EXCEPT !["backup"] = p] /\ clean' = Undisturbed(p)
    <3>1. reading'["backup"] = p
      BY <1>1, <1>2, <2>2 DEF TypeOK
    <3>2. CASE Undisturbed(p)
      BY <1>10, <3>1, <3>2
    <3>3. CASE ~ Undisturbed(p)
      BY <2>2, <3>3 DEF CleanInv
    <3> QED
      BY <3>2, <3>3
  <2>3. CASE reading' = [reading EXCEPT !["dry_run"] = p] /\ UNCHANGED clean
    <3>1. reading'["backup"] = reading["backup"]
      BY <1>1, <1>2, <2>3 DEF TypeOK
    <3> QED
      BY <1>11, <2>3, <3>1
  <2> QED
    BY <1>3, <2>1, <2>2, <2>3
<1> QED
  BY <1>7, <1>8, <1>9, <1>12 DEF Inv

LEMMA ReaderEndsKeeps ==
    ASSUME Inv, NEW r \in Reader, ReaderEnds(r)
    PROVE  Inv'
<1>1. TypeOK /\ SlotInv /\ PointInv /\ DeviceInv /\ EveryMountIsOwned /\ CleanInv
  BY DEF Inv
<1>2. /\ reading' = [reading EXCEPT ![r] = NoCard] /\ clean' = (clean /\ r # "backup")
      /\ UNCHANGED <<slot, moves, mounts, marks, selected, tracked, at, listing, todo, point,
                     call, told, strays, ejections, restarts>>
  BY DEF ReaderEnds, slotVars, managerVars, threadVars
<1>3. TypeOK'
  <2>1. reading' \in [Reader -> MaybeCard] /\ clean' \in BOOLEAN
    BY <1>1, <1>2 DEF TypeOK, MaybeCard
  <2> QED
    BY <1>1, <1>2, <2>1 DEF TypeOK
<1>4. SlotInv' /\ PointInv' /\ DeviceInv'
  BY <1>1, <1>2 DEF SlotInv, PointInv, DeviceInv, Occupied
<1>5. EveryMountIsOwned'
  BY <1>1, <1>2, OwnersStay
<1>6. CleanInv'
  <2> SUFFICES ASSUME clean, r # "backup" PROVE CleanInv'
    BY <1>2 DEF CleanInv
  <2>1. reading'["backup"] = reading["backup"]
    BY <1>1, <1>2 DEF TypeOK, Reader
  <2>2. PICK s \in Slot : Kept(reading["backup"], s)
    BY <1>1 DEF CleanInv
  <2>3. Kept(reading["backup"], s)'
    BY <1>2, <2>1, <2>2 DEF Kept
  <2> QED
    BY <1>1, <1>2, <2>1, <2>3 DEF CleanInv, OnTop
<1> QED
  BY <1>3, <1>4, <1>5, <1>6 DEF Inv

-----------------------------------------------------------------------------
(* A restart keeps it: what is mounted then belongs to nobody.             *)

LEMMA EmptyIs == Empty \in [Slot -> MaybeCard] /\ \A s \in Slot : Empty[s] = NoCard
  BY DEF Empty, MaybeCard

LEMMA RestartKeeps ==
    ASSUME Inv, Restart
    PROVE  Inv'
<1>1. TypeOK /\ SlotInv
  BY DEF Inv
<1>2. /\ restarts' = restarts + 1 /\ marks' = {} /\ selected' = NoCard /\ tracked' = Empty
      /\ at' = Everywhere("idle") /\ listing' = Everywhere(Empty)
      /\ todo' = Everywhere({}) /\ point' = Everywhere(NoCard) /\ call' = "none"
      /\ reading' = [r \in Reader |-> NoCard] /\ clean' = FALSE
      /\ strays' = [p \in Card |-> Len(mounts[p])]
      /\ UNCHANGED <<slot, moves, mounts, told, ejections>>
  BY DEF Restart, slotVars
<1>3. \A t \in Thread : at'[t] = "idle"
  BY <1>2 DEF Everywhere
<1>4. TypeOK'
  <2>1. restarts' \in Nat
    BY <1>1, <1>2 DEF TypeOK
  <2>2. at' \in [Thread -> Place] /\ listing' \in [Thread -> [Slot -> MaybeCard]]
        /\ todo' \in [Thread -> SUBSET Slot] /\ point' \in [Thread -> MaybeCard]
    BY <1>2, EmptyIs DEF Everywhere, Place, MaybeCard
  <2>3. strays' \in [Card -> Nat]
    <3>1. \A p \in Card : Len(mounts[p]) \in Nat
      BY <1>1, LenProperties DEF TypeOK
    <3> QED
      BY <1>2, <3>1
  <2>4. reading' \in [Reader -> MaybeCard] /\ selected' \in MaybeCard
    BY <1>2 DEF MaybeCard
  <2>5. tracked' \in [Slot -> MaybeCard]
    BY <1>2, EmptyIs
  <2> QED
    BY <1>1, <1>2, <2>1, <2>2, <2>3, <2>4, <2>5 DEF TypeOK
<1>5. SlotInv'
  BY <1>1, <1>2 DEF SlotInv
<1>6. PointInv' /\ DeviceInv'
  BY <1>3 DEF PointInv, DeviceInv, Thread
<1>7. EveryMountIsOwned'
  <2> SUFFICES ASSUME NEW p \in Card PROVE Len(mounts'[p]) = Owned(p)' + strays'[p]
    BY DEF EveryMountIsOwned
  <2>1. Owned(p)' = 0
    <3>1. Tracks(p)' = {}
      BY <1>2, EmptyIs, NotCards DEF Tracks
    <3>2. Unmounts(p)' = {}
      BY <1>3 DEF Unmounts
    <3>3. InHand(p)' = 0
      BY <1>3 DEF InHand, Thread
    <3>4. Owned(p)' = Cardinality(Tracks(p)') + Cardinality(Unmounts(p)') + InHand(p)'
      BY DEF Owned, Tracks, Unmounts, InHand
    <3> QED
      BY <3>1, <3>2, <3>3, <3>4, FS_EmptySet
  <2>2. strays'[p] = Len(mounts[p]) /\ Len(mounts[p]) \in Nat
    BY <1>1, <1>2, LenProperties DEF TypeOK
  <2> QED
    BY <1>2, <2>1, <2>2
<1>8. CleanInv'
  BY <1>2 DEF CleanInv
<1> QED
  BY <1>4, <1>5, <1>6, <1>7, <1>8 DEF Inv

LEMMA InitInv == Init => Inv
<1> SUFFICES ASSUME Init PROVE Inv
  OBVIOUS
<1>1. \A t \in Thread : at[t] = "idle"
  BY DEF Init, Everywhere
<1>2. TypeOK
  <2>1. mounts \in [Card -> Seq(Card \union {Gone})]
    BY EmptySeq DEF Init
  <2>2. strays \in [Card -> Nat] /\ moves \in Nat /\ ejections \in Nat /\ restarts \in Nat
    BY DEF Init
  <2>3. at \in [Thread -> Place] /\ listing \in [Thread -> [Slot -> MaybeCard]]
        /\ todo \in [Thread -> SUBSET Slot] /\ point \in [Thread -> MaybeCard]
    BY EmptyIs DEF Init, Everywhere, Place, MaybeCard
  <2> QED
    BY <2>1, <2>2, <2>3, EmptyIs DEF Init, TypeOK, MaybeCard
<1>3. SlotInv
  BY EmptyIs DEF Init, SlotInv
<1>4. PointInv /\ DeviceInv
  BY <1>1 DEF PointInv, DeviceInv, Thread
<1>5. EveryMountIsOwned
  <2> SUFFICES ASSUME NEW p \in Card PROVE Len(mounts[p]) = Owned(p) + strays[p]
    BY DEF EveryMountIsOwned
  <2>1. Owned(p) = 0
    <3>1. Tracks(p) = {}
      BY EmptyIs, NotCards DEF Init, Tracks
    <3>2. Unmounts(p) = {}
      BY <1>1 DEF Unmounts
    <3>3. InHand(p) = 0
      BY <1>1 DEF InHand, Thread
    <3> QED
      BY <3>1, <3>2, <3>3, OwnedIs, FS_EmptySet
  <2>2. mounts[p] = <<>> /\ strays[p] = 0
    BY DEF Init
  <2> QED
    BY <2>1, <2>2
<1>6. CleanInv
  BY DEF Init, CleanInv
<1> QED
  BY <1>2, <1>3, <1>4, <1>5, <1>6 DEF Inv

-----------------------------------------------------------------------------
(* Every step keeps it.                                                    *)

LEMMA ThreadStepKeeps ==
    ASSUME Inv, NEW t \in Thread, ThreadStep(t)
    PROVE  Inv'
  BY ListDevicesKeeps, UnmountKeeps, ForgetKeeps DEF ThreadStep

LEMMA HandlerStepKeeps ==
    ASSUME Inv, HandlerStep
    PROVE  Inv'
<1>1. CASE ThreadStep("handler")
  BY <1>1, ThreadStepKeeps DEF Thread
<1>2. CASE ForgetGone
  BY <1>2, ForgetGoneKeeps
<1>3. CASE \E s \in Slot : SelectDevice(s)
  BY <1>3, SelectDeviceKeeps
<1>4. CASE NoSource \/ MountRaises
  BY <1>4, EndsKeep
<1>5. CASE Mount
  BY <1>5, MountKeeps
<1>6. CASE Record
  BY <1>6, RecordKeeps
<1>7. CASE UseSource
  BY <1>7, UseSourceKeeps
<1> QED
  BY <1>1, <1>2, <1>3, <1>4, <1>5, <1>6, <1>7 DEF HandlerStep

LEMMA EjectionStepKeeps ==
    ASSUME Inv, EjectionStep
    PROVE  Inv'
<1>1. CASE ThreadStep("ejection")
  BY <1>1, ThreadStepKeeps DEF Thread
<1>2. CASE EjectMarks
  BY <1>2, EjectMarksKeeps
<1>3. CASE EjectDone
  BY <1>3, EndsKeep
<1> QED
  BY <1>1, <1>2, <1>3 DEF EjectionStep

LEMMA NextKeeps ==
    ASSUME Inv, [Next]_vars
    PROVE  Inv'
<1>1. CASE \E s \in Slot : Pull(s) \/ \E c \in Card : PutIn(c, s)
  BY <1>1, PullKeeps, PutInKeeps
<1>2. CASE \E c \in SourceCall \union {"state"} : Request(c)
  BY <1>2, RequestKeeps
<1>3. CASE RequestEject
  BY <1>3, RequestEjectKeeps
<1>4. CASE \E c \in Card : Select(c)
  BY <1>4, SelectKeeps
<1>5. CASE HandlerStep
  BY <1>5, HandlerStepKeeps
<1>6. CASE EjectionStep
  BY <1>6, EjectionStepKeeps
<1>7. CASE \E r \in Reader : ReaderEnds(r)
  BY <1>7, ReaderEndsKeeps
<1>8. CASE Restart
  BY <1>8, RestartKeeps
<1>9. CASE UNCHANGED vars
  <2>1. UNCHANGED <<slot, moves, mounts, marks, selected, tracked, at, listing, todo, point,
                    call, reading, clean, told, strays, ejections, restarts>>
    BY <1>9 DEF vars, slotVars, managerVars, threadVars, readerVars
  <2>2. TypeOK'
    BY <2>1 DEF Inv, TypeOK
  <2>3. PointInv' /\ DeviceInv'
    BY <2>1 DEF Inv, PointInv, DeviceInv, Occupied
  <2>4. \A s \in Slot : Kept(reading["backup"], s) => Kept(reading["backup"], s)'
    BY <2>1 DEF Kept
  <2> QED
    BY <2>1, <2>2, <2>3, <2>4, QuietKeeps DEF Inv, CleanInv
<1> QED
  BY <1>1, <1>2, <1>3, <1>4, <1>5, <1>6, <1>7, <1>8, <1>9 DEF Next

\* The manager, its threads, the slots and the kernel's mounts keep the
\* invariant for ever.
THEOREM MediaInvariant == Spec => []Inv
<1>1. Inv /\ [Next]_vars => Inv'
  BY NextKeeps
<1> QED
  BY InitInv, <1>1, PTL DEF Spec

\* What the manager remembers, and what its threads have listed, are slots
\* and cards: no mount point is used before one is known.
THEOREM MediaTypes == Spec => []TypeOK
<1>1. Inv => TypeOK
  BY DEF Inv
<1> QED
  BY <1>1, MediaInvariant, PTL

\* Whatever a poll, an ejection, a refused unmount, a card that is pulled
\* and a restart do to each other, every mount is answered for once
\* (media.py, _ensure_mounted, _unmount_key, eject).
THEOREM MountsAreOwned == Spec => []EveryMountIsOwned
<1>1. Inv => EveryMountIsOwned
  BY DEF Inv
<1> QED
  BY <1>1, MediaInvariant, PTL

\* Neither a poll nor an ejection takes the card away from a backup that
\* began undisturbed (media.py, _release_absent and eject; app.py, start_backup).
THEOREM BackupReadsItsCard == Spec => []BackupKeepsItsCard
<1>1. Inv => BackupKeepsItsCard
  BY DEF Inv, CleanInv, BackupKeepsItsCard
<1> QED
  BY <1>1, MediaInvariant, PTL
=============================================================================
