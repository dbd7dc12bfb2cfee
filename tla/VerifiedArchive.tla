--------------------------- MODULE VerifiedArchive ---------------------------
(***************************************************************************)
(* What the destination promises its owner, with no paths, no journal, no  *)
(* crashes: contents become verified and files become attached to jobs,    *)
(* and neither is ever taken back; one job runs at a time; a job is closed *)
(* once, and is closed as completed only when everything it found on the   *)
(* card is verified and attached.                                          *)
(***************************************************************************)
CONSTANTS Content, File, Job, Unsupported

VARIABLES
    verified,  \* contents
    attached,  \* pairs of a job and a file
    source,    \* per job, what the card held
    status     \* per job

vars == <<verified, attached, source, status>>

Card == [File -> Content \union {Unsupported}]

Init ==
    /\ verified = {} /\ attached = {}
    /\ source = [j \in Job |-> [f \in File |-> Unsupported]]
    /\ status = [j \in Job |-> "absent"]

Begin(j) ==
    /\ status[j] = "absent" /\ \A i \in Job : status[i] # "running"
    /\ status' = [status EXCEPT ![j] = "running"]
    /\ \E k \in Card : source' = [source EXCEPT ![j] = k]
    /\ UNCHANGED <<verified, attached>>

Verify(c) ==
    /\ verified' = verified \union {c}
    /\ UNCHANGED <<attached, source, status>>

Attach(j, f) ==
    /\ status[j] # "absent" /\ source[j][f] # Unsupported
    /\ attached' = attached \union {<<j, f>>}
    /\ UNCHANGED <<verified, source, status>>

Complete(j) ==
    /\ status[j] = "running"
    /\ \A f \in File : source[j][f] # Unsupported =>
          source[j][f] \in verified /\ <<j, f>> \in attached
    /\ status' = [status EXCEPT ![j] = "completed"]
    /\ UNCHANGED <<verified, attached, source>>

\* Cancelled, failed, or interrupted.
Abandon(j) ==
    /\ status[j] = "running"
    /\ status' = [status EXCEPT ![j] = "closed"]
    /\ UNCHANGED <<verified, attached, source>>

Next ==
    \/ \E j \in Job : Begin(j) \/ Complete(j) \/ Abandon(j)
    \/ \E c \in Content : Verify(c)
    \/ \E j \in Job, f \in File : Attach(j, f)

Spec == Init /\ [][Next]_vars
=============================================================================
