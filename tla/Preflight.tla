------------------------------ MODULE Preflight ------------------------------
(***************************************************************************)
(* How much a backup may write: the scan of the card (backup/preflight.py),*)
(* the plan's totals (backup/planner.py), the assessment of the space on   *)
(* the destination (backup/capacity.py), and the job that then uses it     *)
(* (backup/runner.py, backup/copier.py), byte by byte.                     *)
(*                                                                         *)
(* The space is measured once, between plan and job.  Other programs write *)
(* to the destination at any moment, reads and writes fail, retries start  *)
(* over, and the process may die: what that leaves of the space is what    *)
(* this module is about.  Durability is Archive's.                         *)
(***************************************************************************)
EXTENDS Naturals, FiniteSetsExt

CONSTANTS
    Content, Size,       \* contents, and the bytes of each
    Special,             \* what is no regular file
    NumFiles, Cards,     \* entries of a card; the cards a job may find
    MediaOnly,           \* media_extensions is not empty
    Total,               \* the destination's capacity
    Percent, MinMargin,  \* config: safety_margin_percent, safety_margin_min_bytes
    ReserveFloor,        \* reserve_floor_bytes
    Retries,             \* further attempts after a failed verification
    MaxJobs, MaxForeign, MaxCrashes
        \* bounds: jobs; bytes of other programs per job; crashes

ASSUME SpecialIsNoContent == Special \notin Content
ASSUME SizesAreNatural == Size \in [Content -> Nat]
ASSUME ConfigIsNatural ==
    /\ NumFiles \in Nat \ {0} /\ Total \in Nat /\ MinMargin \in Nat /\ ReserveFloor \in Nat
    /\ Percent \in 0..100 /\ MediaOnly \in BOOLEAN

File == 1..NumFiles
\* holds: a content or Special; media: neither hidden nor of another type;
\* listed: its directory can be listed.
Entry == [holds : Content \union {Special}, media : BOOLEAN, listed : BOOLEAN]
ASSUME CardsHoldEntries == Cards \subseteq [File -> Entry]

\* What a scan makes of an entry, where that is not its content.
Mark == {"LEFT_OUT", "UNSUPPORTED", "UNREADABLE"}
ASSUME MarksAreNoContent == Mark \intersect Content = {}

VARIABLES
    phase,      \* "recover", "idle", "plan", "measure", "loop", "copy", "done", "stuck"
    read,       \* what the scan made of each entry
    pos,        \* the file planned or backed up next
    plan,       \* its actions so far
    totals,     \* build_plan's sums
    upTo,       \* new bytes planned before each file
    free,       \* disk_usage.free
    foreign,    \* bytes others have written since it was measured
    partial,    \* bytes of the partial file of each content
    present,    \* contents with a canonical object
    verified,   \* contents the manifest has as VERIFIED
    attempts,
    tally,      \* run_job's counters
    jobs, crashes

planVars == <<read, plan, totals, upTo>>
storeVars == <<partial, present, verified>>
boundVars == <<jobs, crashes>>
vars == <<phase, pos, planVars, free, foreign, storeVars, attempts, tally, boundVars>>

NoTotals == [bytes |-> 0, count |-> 0, largest |-> 0, source |-> 0, entries |-> 0,
             unreadable |-> 0, unsupported |-> 0]
NoTally == [verified |-> 0, copied |-> 0, skipped |-> 0, failed |-> 0, bytes |-> 0,
            done |-> 0, bytesDone |-> 0]
Action == {"NONE", "COPY_VERIFY_OBJECT_AND_LINK", "LINK_EXISTING_VERIFIED_OBJECT",
           "LINK_NEW_OBJECT_SAME_JOB", "SKIP_UNSUPPORTED", "BLOCK_UNREADABLE"}

TypeOK ==
    /\ phase \in {"recover", "idle", "plan", "measure", "loop", "copy", "done", "stuck"}
    /\ read \in [File -> Content \union Mark]
    /\ pos \in Nat
    /\ plan \in [File -> Action]
    /\ totals \in [DOMAIN NoTotals -> Nat]
    /\ upTo \in [1..NumFiles + 1 -> Nat]
    /\ free \in Nat /\ foreign \in Nat
    /\ partial \in [Content -> Nat]
    /\ present \subseteq Content /\ verified \subseteq present
    /\ attempts \in Nat
    /\ tally \in [DOMAIN NoTally -> Nat]
    /\ jobs \in Nat /\ crashes \in Nat

Init ==
    /\ phase = "idle" /\ pos = 0
    /\ read = [f \in File |-> "LEFT_OUT"]
    /\ plan = [f \in File |-> "NONE"]
    /\ totals = NoTotals /\ upTo = [i \in 1..NumFiles + 1 |-> 0]
    /\ free \in 0..Total /\ foreign = 0
    /\ partial = [c \in Content |-> 0] /\ present = {} /\ verified = {}
    /\ attempts = 0 /\ tally = NoTally
    /\ jobs = 0 /\ crashes = 0

-----------------------------------------------------------------------------
(* The arithmetic of capacity.                                             *)

MaxOf(a, b) == IF a >= b THEN a ELSE b

SafetyMargin == MaxOf((Total * Percent) \div 100, MinMargin)

\* No caller passes a metadata estimate.
OperationalReserve(largest) == MaxOf(largest, ReserveFloor)

Required(new, largest) == new + OperationalReserve(largest) + SafetyMargin

\* Exactly the required bytes are enough.
Sufficient(available, new, largest) == available >= Required(new, largest)

-----------------------------------------------------------------------------
(* Preflight.                                                              *)

\* _scan_source: os.walk passes over a directory it cannot list, the filter
\* comes before any look at the entry, and reading it may fail.
Scanned(e, fails) ==
    IF ~e.listed \/ (MediaOnly /\ ~e.media) THEN "LEFT_OUT"
    ELSE IF e.holds = Special THEN "UNSUPPORTED"
    ELSE IF fails THEN "UNREADABLE"
    ELSE e.holds

Scan ==
    /\ phase \in {"idle", "done"} /\ jobs < MaxJobs
    /\ \E k \in Cards, bad \in SUBSET File :
        read' = [f \in File |-> Scanned(k[f], f \in bad)]
    /\ phase' = "plan" /\ pos' = 1
    /\ plan' = [f \in File |-> "NONE"]
    /\ totals' = NoTotals /\ upTo' = [i \in 1..NumFiles + 1 |-> 0]
    /\ tally' = NoTally /\ attempts' = 0
    /\ UNCHANGED <<free, foreign, storeVars, boundVars>>

\* classify.  Nobody passes an occupant: no file is a POTENTIAL_CONFLICT.
Classification(x) ==
    CASE x = "LEFT_OUT"    -> "NONE"
      [] x = "UNSUPPORTED" -> "UNSUPPORTED"
      [] x = "UNREADABLE"  -> "UNREADABLE"
      [] x \in verified    -> "ALREADY_BACKED_UP"
      [] OTHER             -> "NEW"

\* seen_new: the contents this plan copies.
SeenNew == {read[f] : f \in {g \in File : plan[g] = "COPY_VERIFY_OBJECT_AND_LINK"}}

\* Mutant: a content seen before is copied once more.
ActionUnseen(x) ==
    CASE Classification(x) = "NONE"              -> "NONE"
      [] Classification(x) = "UNREADABLE"        -> "BLOCK_UNREADABLE"
      [] Classification(x) = "UNSUPPORTED"       -> "SKIP_UNSUPPORTED"
      [] Classification(x) = "ALREADY_BACKED_UP" -> "LINK_EXISTING_VERIFIED_OBJECT"
      [] OTHER -> "COPY_VERIFY_OBJECT_AND_LINK"

ActionFor(x) ==
    CASE Classification(x) = "NONE"              -> "NONE"
      [] Classification(x) = "UNREADABLE"        -> "BLOCK_UNREADABLE"
      [] Classification(x) = "UNSUPPORTED"       -> "SKIP_UNSUPPORTED"
      [] Classification(x) = "ALREADY_BACKED_UP" -> "LINK_EXISTING_VERIFIED_OBJECT"
      [] OTHER -> IF x \in SeenNew THEN "LINK_NEW_OBJECT_SAME_JOB"
                  ELSE "COPY_VERIFY_OBJECT_AND_LINK"

SizeOf(x) == IF x \in Content THEN Size[x] ELSE 0
One(b) == IF b THEN 1 ELSE 0

\* The sums of build_plan, and source_bytes_scanned, after one more file.
Counted(t, x, a) ==
    LET new == IF a = "COPY_VERIFY_OBJECT_AND_LINK" THEN SizeOf(x) ELSE 0
    IN  [bytes |-> t.bytes + new,
         count |-> t.count + One(a = "COPY_VERIFY_OBJECT_AND_LINK"),
         largest |-> MaxOf(t.largest, new),
         source |-> t.source + SizeOf(x),
         entries |-> t.entries + One(a # "NONE"),
         unreadable |-> t.unreadable + One(a = "BLOCK_UNREADABLE"),
         unsupported |-> t.unsupported + One(a = "SKIP_UNSUPPORTED")]

\* The loop of build_plan, in path order.
PlanFile ==
    /\ phase = "plan" /\ pos \in File
    /\ plan' = [plan EXCEPT ![pos] = ActionFor(read[pos])]
    /\ totals' = Counted(totals, read[pos], ActionFor(read[pos]))
    /\ upTo' = [upTo EXCEPT ![pos + 1] = totals'.bytes]
    /\ pos' = pos + 1
    /\ phase' = IF pos = NumFiles THEN "measure" ELSE "plan"
    /\ UNCHANGED <<read, free, foreign, storeVars, attempts, tally, boundVars>>

Blocked ==
    totals.unreadable > 0 \/ ~Sufficient(free, totals.bytes, totals.largest)

\* disk_usage, the assessment, and the end of a blocked preflight.
Measure ==
    /\ phase = "measure"
    /\ IF Blocked THEN phase' = "idle" /\ pos' = 0 ELSE phase' = "loop" /\ pos' = 1
    /\ foreign' = 0 /\ jobs' = jobs + 1
    /\ UNCHANGED <<planVars, free, storeVars, attempts, tally, crashes>>

-----------------------------------------------------------------------------
(* The job.                                                                *)

AtFile == phase = "loop" /\ pos \in File
Here == read[pos]

\* run_job goes on to the next file, this one counted in the progress ...
NextFile(t) ==
    /\ phase' = "loop" /\ pos' = pos + 1 /\ attempts' = 0
    /\ tally' = [t EXCEPT !.done = @ + 1, !.bytesDone = @ + SizeOf(Here)]

\* Mutant: the handler goes on before it has counted.
SkippedByError ==
    /\ phase' = "loop" /\ pos' = pos + 1 /\ attempts' = 0
    /\ UNCHANGED tally

\* ... and past a file that raised OSError, which the progress never counts.
FailedByError ==
    /\ phase' = "loop" /\ pos' = pos + 1 /\ attempts' = 0
    /\ tally' = [tally EXCEPT !.failed = @ + 1]

NoEntry ==
    /\ AtFile /\ plan[pos] = "NONE"
    /\ pos' = pos + 1
    /\ UNCHANGED <<phase, planVars, free, foreign, storeVars, attempts, tally, boundVars>>

SkipUnsupported ==
    /\ AtFile /\ plan[pos] = "SKIP_UNSUPPORTED"
    /\ NextFile(tally)
    /\ UNCHANGED <<planVars, free, foreign, storeVars, boundVars>>

Linking ==
    AtFile /\ plan[pos] \in {"LINK_EXISTING_VERIFIED_OBJECT", "LINK_NEW_OBJECT_SAME_JOB"}
Copying == AtFile /\ plan[pos] = "COPY_VERIFY_OBJECT_AND_LINK"

\* Mutant: the journal is asked for a link whether the object is there or not.
LinkUnchecked ==
    /\ Linking
    /\ verified' = verified \union {Here}
    /\ NextFile([tally EXCEPT !.verified = @ + 1])
    /\ UNCHANGED <<planVars, free, foreign, partial, present, boundVars>>

\* link_verified_object marks the object VERIFIED without reading it.
Link ==
    /\ Linking /\ Here \in present
    /\ verified' = verified \union {Here}
    /\ NextFile([tally EXCEPT !.verified = @ + 1,
                  !.skipped = @ + One(plan[pos] = "LINK_EXISTING_VERIFIED_OBJECT")])
    /\ UNCHANGED <<planVars, free, foreign, partial, present, boundVars>>

\* The object is missing, or another file has the session path: a failed
\* link, counted and reported.
LinkFails ==
    /\ Linking
    /\ NextFile([tally EXCEPT !.failed = @ + 1])
    /\ UNCHANGED <<planVars, free, foreign, storeVars, boundVars>>

\* An object that is there is linked instead of copied.
CopyPresent ==
    /\ Copying /\ Here \in present
    /\ verified' = verified \union {Here}
    /\ NextFile([tally EXCEPT !.verified = @ + 1, !.copied = @ + 1])
    /\ UNCHANGED <<planVars, free, foreign, partial, present, boundVars>>

\* Mutant: the partial of an earlier attempt is forgotten, not removed.
PartialForgotten ==
    /\ partial' = [partial EXCEPT ![Here] = 0]
    /\ UNCHANGED free

PartialGone ==
    /\ partial' = [partial EXCEPT ![Here] = 0]
    /\ free' = free + partial[Here]

BeginCopy ==
    /\ Copying /\ Here \notin present
    /\ PartialGone
    /\ phase' = "copy" /\ attempts' = 1
    /\ UNCHANGED <<pos, planVars, foreign, present, verified, tally, boundVars>>

WriteByte ==
    /\ phase = "copy" /\ partial[Here] < Size[Here] /\ free > 0
    /\ partial' = [partial EXCEPT ![Here] = @ + 1] /\ free' = free - 1
    /\ UNCHANGED <<phase, pos, planVars, foreign, present, verified, attempts, tally,
                   boundVars>>

\* OSError: a link that fails, ENOSPC, an error of the card, or one of
\* finalization before the rename.  The partial stays as it is.
CopyRaises ==
    /\ phase = "copy" \/ Copying
    /\ FailedByError
    /\ UNCHANGED <<planVars, free, foreign, storeVars, boundVars>>

\* A hash differs, or the card gave fewer bytes: the partial goes.
Mismatch ==
    /\ phase = "copy"
    /\ PartialGone
    /\ IF attempts <= Retries
       THEN attempts' = attempts + 1 /\ UNCHANGED <<phase, pos, tally>>
       ELSE NextFile([tally EXCEPT !.failed = @ + 1])
    /\ UNCHANGED <<planVars, foreign, present, verified, boundVars>>

Complete == phase = "copy" /\ partial[Here] = Size[Here]
Renamed ==
    /\ partial' = [partial EXCEPT ![Here] = 0]
    /\ present' = present \union {Here}

Finalize ==
    /\ Complete /\ Renamed
    /\ verified' = verified \union {Here}
    /\ NextFile([tally EXCEPT !.verified = @ + 1, !.copied = @ + 1,
                              !.bytes = @ + Size[Here]])
    /\ UNCHANGED <<planVars, free, foreign, boundVars>>

\* The fsync or the link after the rename raises.
FinalizeRaises ==
    /\ Complete /\ Renamed
    /\ FailedByError
    /\ UNCHANGED <<planVars, free, foreign, verified, boundVars>>

\* What run_job does not catch leaves the engine where it is: sqlite3.Error
\* anywhere, OSError of a LINK step, SessionPathConflict of a COPY step.
WorkerRaises ==
    /\ phase \in {"loop", "copy"}
    /\ phase' = "stuck"
    /\ \/ UNCHANGED storeVars
       \/ Complete /\ Renamed /\ verified' \in {verified, verified \union {Here}}
       \/ /\ (Linking \/ Copying) /\ Here \in present
          /\ verified' = verified \union {Here}
          /\ UNCHANGED <<partial, present>>
    /\ UNCHANGED <<pos, planVars, free, foreign, attempts, tally, boundVars>>

\* The plan is done, or the job is cancelled between two files.
EndJob ==
    /\ phase = "loop"
    /\ phase' = "done"
    /\ UNCHANGED <<pos, planVars, free, foreign, storeVars, attempts, tally, boundVars>>

JobStep ==
    \/ NoEntry \/ SkipUnsupported \/ Link \/ LinkFails \/ CopyPresent
    \/ BeginCopy \/ WriteByte \/ CopyRaises \/ Mismatch \/ Finalize \/ FinalizeRaises
    \/ WorkerRaises \/ EndJob

-----------------------------------------------------------------------------
(* The environment.                                                        *)

\* Another program writes to the destination.
OthersWrite ==
    /\ free > 0 /\ foreign < MaxForeign
    /\ free' = free - 1 /\ foreign' = foreign + 1
    /\ UNCHANGED <<phase, pos, planVars, storeVars, attempts, tally, boundVars>>

\* The process dies and is started again: recovery finalizes candidates
\* that are complete, marks the objects in place ...
Restart ==
    /\ crashes < MaxCrashes
    /\ \E kept \in SUBSET {c \in Content \ present : partial[c] = Size[c]} :
        /\ present' = present \union kept /\ verified' = present'
        /\ partial' = [c \in Content |-> IF c \in kept THEN 0 ELSE partial[c]]
    /\ phase' = "recover" /\ pos' = 0 /\ attempts' = 0 /\ tally' = NoTally
    /\ crashes' = crashes + 1
    /\ UNCHANGED <<planVars, free, foreign, jobs>>

\* ... and removes every other partial before the service serves.
RemoveOrphan(c) ==
    /\ phase = "recover" /\ partial[c] > 0
    /\ partial' = [partial EXCEPT ![c] = 0] /\ free' = free + partial[c]
    /\ UNCHANGED <<phase, pos, planVars, foreign, present, verified, attempts, tally,
                   boundVars>>

Serve ==
    /\ phase = "recover" /\ \A c \in Content : partial[c] = 0
    /\ phase' = "idle"
    /\ UNCHANGED <<pos, planVars, free, foreign, storeVars, attempts, tally, boundVars>>

Next ==
    \/ Scan \/ PlanFile \/ Measure \/ JobStep \/ OthersWrite
    \/ Restart \/ (\E c \in Content : RemoveOrphan(c)) \/ Serve

Spec == Init /\ [][Next]_vars

-----------------------------------------------------------------------------
(* Properties.                                                             *)

Running == phase \in {"loop", "copy", "done"}

\* An accepted job leaves the operational reserve and the safety margin of
\* PRE-005 and PRE-006 untouched from its first to its last byte, whatever
\* fails, is retried or was left by earlier jobs: of the bytes preflight
\* measured it only ever takes the ones it planned, so that at every moment
\* only other programs can have used the rest.
RoomIsKept ==
    Running => free + foreign >= OperationalReserve(totals.largest) + SafetyMargin

\* The totals of build_plan, which walks the files one by one, are those of
\* the card taken as a whole: every new content is copied once, by the first
\* file that holds it, and its bytes count once (R2-2, PRE-004).
PlanIsSound ==
    phase = "measure" =>
        LET New == {read[f] : f \in File} \ (Mark \union verified)
            Copiers(c) == {f \in File : read[f] = c
                                        /\ plan[f] = "COPY_VERIFY_OBJECT_AND_LINK"}
        IN  /\ \A c \in New : Copiers(c) = {Min({f \in File : read[f] = c})}
            /\ totals.count = Cardinality(New)
            /\ totals.bytes = MapThenSumSet(LAMBDA c : Size[c], New)
            /\ \A c \in New : Size[c] <= totals.largest
            /\ totals.largest \in {0} \union {Size[c] : c \in New}

\* The counters run_job returns, which become the job's row and the last
\* event of the page, account for every entry of the plan and tell nobody
\* more than was done: a job without a failure has reported all files and
\* bytes as done and has every content of the scan in the manifest, so that
\* the next preflight of the card finds nothing to copy.
ResultAddsUp ==
    (phase = "done" /\ pos > NumFiles) =>
        /\ tally.verified + tally.failed + totals.unsupported = totals.entries
        /\ tally.bytes <= totals.bytes /\ tally.copied <= totals.count
        /\ tally.copied + tally.skipped <= tally.verified
        /\ tally.done <= totals.entries /\ tally.bytesDone <= totals.source
        /\ tally.failed = 0 =>
            /\ tally.done = totals.entries /\ tally.bytesDone = totals.source
            /\ \A f \in File : read[f] \in Content => read[f] \in verified
=============================================================================
