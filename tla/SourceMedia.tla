----------------------------- MODULE SourceMedia -----------------------------
(***************************************************************************)
(* The media manager (linux/media.py), the handlers that call it           *)
(* (web/app.py), the card reader's slots and the kernel's mounts.          *)
(*                                                                         *)
(* Handlers run on the event loop, one at a time; an ejection runs on a    *)
(* thread beside them.  Both list the devices, decide on that listing, and *)
(* mount or unmount later.  Cards come and go at any moment, and nothing   *)
(* tells the manager: it only knows what it last listed.                   *)
(***************************************************************************)
EXTENDS Naturals, Sequences, FiniteSets, SequencesExt, FiniteSetsExt

CONSTANTS
    Card,          \* filesystems, each with a UUID of its own
    Slot,          \* device paths
    NoCard, Gone,
    MaxMoves,      \* bound: cards put in or pulled
    MaxEjections,  \* bound: ejections accepted
    MaxRestarts    \* bound: restarts of the process

ASSUME NotCards == NoCard \notin Card /\ Gone \notin Card /\ NoCard # Gone
ASSUME SlotsAreFinite == IsFiniteSet(Slot)

VARIABLES
    slot,          \* the card in each slot
    mounts,        \* per mount point (named by a card): what is stacked there
    marks,         \* _ejected
    selected,      \* _selected_uuid
    tracked,       \* _mounted: the mount point remembered for each slot
    at,            \* per thread: its place
    listing,       \* per thread: the devices it has listed
    todo,          \* per thread: the slots whose mounts it is to drop
    point,         \* per thread: the mount point it is working on
    call,          \* what the handler on the event loop is asked for
    reading,       \* the mount point a backup, a dry run reads from
    told,          \* the page says "safe to remove"
    clean,         \* the backup began undisturbed, and its card was not pulled since
    strays,        \* per mount point: mounts that nobody remembers
    moves, ejections, restarts

slotVars == <<slot, moves>>
managerVars == <<marks, selected, tracked>>
threadVars == <<at, listing, todo, point, call>>
readerVars == <<reading, clean>>
vars == <<slotVars, mounts, managerVars, threadVars, readerVars, told, strays, ejections,
          restarts>>

Thread == {"handler", "ejection"}
Reader == {"backup", "dry_run"}
MaybeCard == Card \union {NoCard}
SourceCall == {"source", "start", "dry_run"}
MediaCall == {"state", "awaiting_removal", "candidates"}
Place == {"idle", "list", "forget", "mark", "release", "umount", "mount", "record", "use"}

TypeOK ==
    /\ slot \in [Slot -> MaybeCard]
    /\ mounts \in [Card -> Seq(Card \union {Gone})]
    /\ marks \subseteq Card /\ selected \in MaybeCard
    /\ tracked \in [Slot -> MaybeCard]
    /\ at \in [Thread -> Place]
    /\ listing \in [Thread -> [Slot -> MaybeCard]]
    /\ todo \in [Thread -> SUBSET Slot]
    /\ point \in [Thread -> MaybeCard]
    /\ call \in SourceCall \union MediaCall \union {"none"}
    /\ reading \in [Reader -> MaybeCard]
    /\ told \in BOOLEAN /\ clean \in BOOLEAN
    /\ strays \in [Card -> Nat]
    /\ moves \in Nat /\ ejections \in Nat /\ restarts \in Nat

Empty == [s \in Slot |-> NoCard]

Everywhere(x) == [t \in Thread |-> x]

Init ==
    /\ slot = Empty /\ mounts = [p \in Card |-> <<>>]
    /\ marks = {} /\ selected = NoCard /\ tracked = Empty
    /\ at = Everywhere("idle") /\ listing = Everywhere(Empty)
    /\ todo = Everywhere({}) /\ point = Everywhere(NoCard) /\ call = "none"
    /\ reading = [r \in Reader |-> NoCard] /\ clean = FALSE
    /\ told = FALSE /\ strays = [p \in Card |-> 0]
    /\ moves = 0 /\ ejections = 0 /\ restarts = 0

-----------------------------------------------------------------------------
(* The card reader.                                                        *)

\* Mutant: an empty slot counts as a card.
CardsAndGaps(l) == {l[s] : s \in Slot}

Cards(l) == {l[s] : s \in Slot} \ {NoCard}

PutIn(c, s) ==
    /\ moves < MaxMoves /\ moves' = moves + 1
    /\ slot[s] = NoCard /\ c \notin Cards(slot)
    /\ slot' = [slot EXCEPT ![s] = c]
    /\ UNCHANGED <<mounts, managerVars, threadVars, readerVars, told, strays, ejections,
                   restarts>>

\* A mount whose device has gone stays where it is, and reads nothing.
Pull(s) ==
    /\ moves < MaxMoves /\ moves' = moves + 1
    /\ slot[s] # NoCard
    /\ slot' = [slot EXCEPT ![s] = NoCard]
    /\ mounts' = [p \in Card |-> ReplaceAll(mounts[p], slot[s], Gone)]
    /\ clean' = (clean /\ reading["backup"] # slot[s])
    /\ UNCHANGED <<managerVars, threadVars, reading, told, strays, ejections, restarts>>

-----------------------------------------------------------------------------
(* A thread's listing, and what is decided on it.                          *)

Goto(t, place) == at' = [at EXCEPT ![t] = place]

Finish(t) ==
    /\ Goto(t, "idle")
    /\ listing' = [listing EXCEPT ![t] = Empty]
    /\ todo' = [todo EXCEPT ![t] = {}]
    /\ point' = [point EXCEPT ![t] = NoCard]
    /\ call' = IF t = "handler" THEN "none" ELSE call

IsRunning == reading["backup"] # NoCard

\* A request reaches the event loop when no handler runs.  A start and a
\* dry run are refused while a backup runs.
Request(c) ==
    /\ at["handler"] = "idle"
    /\ c \in {"start", "dry_run"} => ~IsRunning
    /\ c = "dry_run" => reading["dry_run"] = NoCard
    /\ Goto("handler", "list") /\ call' = c
    /\ UNCHANGED <<slotVars, mounts, managerVars, listing, todo, point, readerVars, told,
                   strays, ejections, restarts>>

\* Mutant: nobody asks whether a backup runs.
EjectAnyway == at["handler"] = "idle" /\ at["ejection"] = "idle"

\* The ejection is refused while a backup runs.
MayEject == at["handler"] = "idle" /\ at["ejection"] = "idle" /\ ~IsRunning

RequestEject ==
    /\ MayEject
    /\ ejections < MaxEjections /\ ejections' = ejections + 1
    /\ Goto("ejection", "list")
    /\ UNCHANGED <<slotVars, mounts, managerVars, listing, todo, point, call, readerVars,
                   told, strays, restarts>>

\* The page offers the choice when there are several cards.
Select(c) ==
    /\ at["handler"] = "idle"
    /\ c \in Cards(slot) /\ Cards(slot) # {c}
    /\ selected' = c
    /\ UNCHANGED <<slotVars, mounts, marks, tracked, threadVars, readerVars, told, strays,
                   ejections, restarts>>

ListDevices(t) ==
    /\ at[t] = "list"
    /\ listing' = [listing EXCEPT ![t] = slot]
    /\ Goto(t, IF t = "handler" THEN "forget" ELSE "mark")
    /\ UNCHANGED <<slotVars, mounts, managerVars, todo, point, call, readerVars, told, strays,
                   ejections, restarts>>

Occupied(l) == {s \in Slot : l[s] # NoCard}

\* Mutant: only a card that has left its slot is released.
Emptied(l) == Occupied(tracked) \ Occupied(slot)

\* The mounts to drop: those of slots that are not in the listing.
Absent(l) == Occupied(tracked) \ Occupied(l)

\* source_candidates and awaiting_removal: marks of cards that are not in
\* the listing are forgotten, and marked cards are hidden.
ForgetGone ==
    LET l == listing["handler"]
        kept == marks \intersect Cards(l)
        candidates == [s \in Slot |-> IF l[s] \in kept THEN NoCard ELSE l[s]]
    IN  /\ at["handler"] = "forget"
        /\ marks' = kept
        /\ \/ /\ call \in SourceCall
              /\ listing' = [listing EXCEPT !["handler"] = candidates]
              /\ todo' = [todo EXCEPT !["handler"] = Absent(candidates)]
              /\ Goto("handler", "release")
              /\ UNCHANGED <<point, call, told>>
           \/ /\ call \in {"state", "awaiting_removal"}
              /\ told' = IF call = "awaiting_removal" THEN kept # {} ELSE told
              /\ call' = IF call = "state" THEN "awaiting_removal" ELSE "candidates"
              /\ Goto("handler", "list")
              /\ UNCHANGED <<listing, todo, point>>
           \/ /\ call = "candidates"
              /\ Finish("handler")
              /\ UNCHANGED told
        /\ UNCHANGED <<slotVars, mounts, selected, tracked, readerVars, strays, ejections,
                       restarts>>

\* eject: every card listed is marked, and then everything is unmounted.
EjectMarks ==
    /\ at["ejection"] = "mark"
    /\ marks' = marks \union Cards(listing["ejection"])
    /\ todo' = [todo EXCEPT !["ejection"] = Occupied(tracked)]
    /\ Goto("ejection", "release")
    /\ UNCHANGED <<slotVars, mounts, selected, tracked, listing, point, call, readerVars, told,
                   strays, ejections, restarts>>

-----------------------------------------------------------------------------
(* _unmount_key: the mount is forgotten first and unmounted then.          *)

\* Mutant: forgotten, and left mounted.
OnlyForget(t, s) == FALSE

\* Another thread may have taken it since.
Remembered(t, s) == tracked[s] # NoCard

Forget(t, s) ==
    /\ at[t] = "release" /\ s \in todo[t]
    /\ todo' = [todo EXCEPT ![t] = @ \ {s}]
    /\ tracked' = [tracked EXCEPT ![s] = NoCard]
    /\ IF Remembered(t, s)
       THEN point' = [point EXCEPT ![t] = tracked[s]] /\ Goto(t, "umount")
       ELSE UNCHANGED <<point, at>>
    /\ UNCHANGED <<slotVars, mounts, marks, selected, listing, call, readerVars, told, strays,
                   ejections, restarts>>

\* umount takes the topmost mount, or refuses while somebody reads there;
\* the refusal is swallowed.
Unmount(t) ==
    LET p == point[t]
    IN  /\ at[t] = "umount"
        /\ \/ mounts' = [mounts EXCEPT ![p] = Front(@)] /\ UNCHANGED strays
           \/ /\ \E r \in Reader : reading[r] = p
              /\ strays' = [strays EXCEPT ![p] = @ + 1] /\ UNCHANGED mounts
        /\ point' = [point EXCEPT ![t] = NoCard]
        /\ Goto(t, "release")
        /\ UNCHANGED <<slotVars, managerVars, listing, todo, call, readerVars, told, ejections,
                       restarts>>

EjectDone ==
    /\ at["ejection"] = "release" /\ todo["ejection"] = {}
    /\ Finish("ejection")
    /\ UNCHANGED <<slotVars, mounts, managerVars, readerVars, told, strays, ejections, restarts>>

-----------------------------------------------------------------------------
(* current_source, after it has released what is gone.                     *)

\* Mutant: a lone card must be selected too.
OnlySelected(s) == listing["handler"][s] = selected

\* The lone candidate, or the selected one.
Chosen(s) ==
    \/ Occupied(listing["handler"]) = {s}
    \/ listing["handler"][s] = selected

\* The slot is kept as the only one in the handler's listing.
SelectDevice(s) ==
    LET c == listing["handler"][s]
    IN  /\ at["handler"] = "release" /\ todo["handler"] = {}
        /\ c # NoCard /\ Chosen(s)
        /\ listing' = [listing EXCEPT !["handler"] = [Empty EXCEPT ![s] = c]]
        /\ IF tracked[s] # NoCard
           THEN point' = [point EXCEPT !["handler"] = tracked[s]] /\ Goto("handler", "use")
           ELSE point' = [point EXCEPT !["handler"] = c] /\ Goto("handler", "mount")
        /\ UNCHANGED <<slotVars, mounts, managerVars, todo, call, readerVars, told, strays,
                       ejections, restarts>>

\* No card, or several and none of them selected.
NoSource ==
    /\ at["handler"] = "release" /\ todo["handler"] = {}
    /\ ~ \E s \in Occupied(listing["handler"]) : Chosen(s)
    /\ Finish("handler")
    /\ UNCHANGED <<slotVars, mounts, managerVars, readerVars, told, strays, ejections, restarts>>

Device == CHOOSE s \in Slot : listing["handler"][s] # NoCard

\* What is read at p.
OnTop(p, c) == mounts[p] # <<>> /\ Last(mounts[p]) = c

\* The kernel refuses an empty slot, and a filesystem on its own mount.
Mountable(p) ==
    /\ slot[Device] # NoCard
    /\ ~OnTop(p, slot[Device])

\* What is mounted is the card that is in the slot by now.
Mount ==
    LET p == point["handler"]
    IN  /\ at["handler"] = "mount" /\ Mountable(p)
        /\ mounts' = [mounts EXCEPT ![p] = Append(@, slot[Device])]
        /\ Goto("handler", "record")
        /\ UNCHANGED <<slotVars, managerVars, listing, todo, point, call, readerVars, told,
                       strays, ejections, restarts>>

MountRaises ==
    /\ at["handler"] = "mount" /\ ~Mountable(point["handler"])
    /\ Finish("handler")
    /\ UNCHANGED <<slotVars, mounts, managerVars, readerVars, told, strays, ejections, restarts>>

Record ==
    /\ at["handler"] = "record"
    /\ tracked' = [tracked EXCEPT ![Device] = point["handler"]]
    /\ Goto("handler", "use")
    /\ UNCHANGED <<slotVars, mounts, marks, selected, listing, todo, point, call, readerVars,
                   told, strays, ejections, restarts>>

\* The mount point is remembered for the one slot that holds the card it is
\* named for, and shows that card, and no ejection is under way or has
\* overtaken the start.
Undisturbed(p) ==
    /\ at["ejection"] = "idle" /\ p \notin marks
    /\ \E s \in Slot : slot[s] = p /\ {r \in Slot : tracked[r] = p} = {s}
    /\ OnTop(p, p)

\* A poll reports the source; a start and a dry run begin to read it.
UseSource ==
    LET p == point["handler"]
    IN  /\ at["handler"] = "use"
        /\ \/ call = "source" /\ UNCHANGED readerVars
           \/ /\ call = "start"
              /\ reading' = [reading EXCEPT !["backup"] = p]
              /\ clean' = Undisturbed(p)
           \/ /\ call = "dry_run"
              /\ reading' = [reading EXCEPT !["dry_run"] = p]
              /\ UNCHANGED clean
        /\ Finish("handler")
        /\ UNCHANGED <<slotVars, mounts, managerVars, told, strays, ejections, restarts>>

ReaderEnds(r) ==
    /\ reading[r] # NoCard
    /\ reading' = [reading EXCEPT ![r] = NoCard]
    /\ clean' = (clean /\ r # "backup")
    /\ UNCHANGED <<slotVars, mounts, managerVars, threadVars, told, strays, ejections, restarts>>

\* The process dies and is started again; the mounts stay.
Restart ==
    /\ restarts < MaxRestarts /\ restarts' = restarts + 1
    /\ marks' = {} /\ selected' = NoCard /\ tracked' = Empty
    /\ at' = Everywhere("idle") /\ listing' = Everywhere(Empty)
    /\ todo' = Everywhere({}) /\ point' = Everywhere(NoCard) /\ call' = "none"
    /\ reading' = [r \in Reader |-> NoCard] /\ clean' = FALSE
    /\ strays' = [p \in Card |-> Len(mounts[p])]
    /\ UNCHANGED <<slotVars, mounts, told, ejections>>

ThreadStep(t) == ListDevices(t) \/ Unmount(t) \/ \E s \in Slot : Forget(t, s)

HandlerStep ==
    \/ ThreadStep("handler") \/ ForgetGone
    \/ (\E s \in Slot : SelectDevice(s)) \/ NoSource
    \/ Mount \/ MountRaises \/ Record \/ UseSource

EjectionStep == ThreadStep("ejection") \/ EjectMarks \/ EjectDone

Next ==
    \/ \E s \in Slot : Pull(s) \/ \E c \in Card : PutIn(c, s)
    \/ \E c \in SourceCall \union {"state"} : Request(c)
    \/ RequestEject \/ \E c \in Card : Select(c)
    \/ HandlerStep \/ EjectionStep
    \/ \E r \in Reader : ReaderEnds(r)
    \/ Restart

Spec == Init /\ [][Next]_vars

\* While a page is open it asks for the source every five seconds, and the
\* event loop serves every request; threads run.
FairSpec ==
    /\ Spec
    /\ SF_vars(Request("source")) /\ WF_vars(HandlerStep) /\ WF_vars(EjectionStep)

-----------------------------------------------------------------------------
(* Properties.                                                             *)

Shows(p, c) == \E i \in DOMAIN mounts[p] : mounts[p][i] = c

IsMounted(c) == \E p \in Card : Shows(p, c)

\* How many mounts at p the manager answers for.
Owned(p) ==
    Cardinality({s \in Slot : tracked[s] = p})
    + Cardinality({t \in Thread : at[t] = "umount" /\ point[t] = p})
    + (IF at["handler"] = "record" /\ point["handler"] = p THEN 1 ELSE 0)

\* No mount is lost, whatever a poll and an ejection do to each other: each
\* is remembered for one slot, or one thread has it in hand, unless its
\* unmounting was refused or the process died.  None is unmounted twice.
EveryMountIsOwned == \A p \in Card : Len(mounts[p]) = Owned(p) + strays[p]

\* Neither a poll nor an ejection takes a backup's card away: once it began
\* undisturbed, it reads its card for as long as that is in.
BackupKeepsItsCard == clean => OnTop(reading["backup"], reading["backup"])

\* An ejected card is mounted, and its unmounting was not refused.
Lingering(c) == c \in marks /\ \E p \in Card : Shows(p, c) /\ strays[p] = 0

\* A card that was ejected does not stay mounted, even if a poll that had
\* listed the devices before mounted it again afterwards.
EjectedCardIsReleased == \A c \in Card : Lingering(c) ~> ~Lingering(c)

\* The card is alone and was not ejected, and neither its slot nor its mount
\* point is taken by a mount from before.
Waiting(s, c) ==
    /\ slot[s] = c /\ Occupied(slot) = {s} /\ c \notin marks
    /\ tracked[s] = NoCard /\ strays[c] = 0

\* No card waits for ever: the polls mount it.
LoneCardIsServed == \A s \in Slot : \A c \in Card : Waiting(s, c) ~> ~Waiting(s, c)

-----------------------------------------------------------------------------
(* What the code says and does not do.                                     *)

\* media.py: "True when an ejected card is still physically present (safe
\* to pull now)".  When the page says so and the ejection has ended, the
\* card is not mounted.
SafeToRemoveIsUnmounted ==
    told /\ at["ejection"] = "idle" =>
        \A c \in marks \intersect Cards(slot) : ~IsMounted(c)
=============================================================================
