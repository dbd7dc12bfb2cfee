----------------------------- MODULE MCAppliance -----------------------------
(***************************************************************************)
(* Small instances of Appliance.                                           *)
(***************************************************************************)
EXTENDS Appliance

CONSTANTS pi, ssd, other, card

Ext4(u) == [uuid |-> u, fstype |-> "ext4", system |-> FALSE, locked |-> FALSE]
Boot == [uuid |-> "boot", fstype |-> "vfat", system |-> TRUE, locked |-> FALSE]
Vfat == [uuid |-> "card", fstype |-> "vfat", system |-> FALSE, locked |-> TRUE]

\* The configured disk and another one; a card with its lock on.
MCPartitions ==
    (pi :> <<Boot>>) @@ (ssd :> <<Ext4("archive")>>) @@ (other :> <<Ext4("other")>>)
        @@ (card :> <<Vfat>>)

MCDb == {<<d, 1>> : d \in Device \intersect {ssd, other}} \union {Bare, Local}
MCFull == MCDb \ {Local}
\* The first migration has two statements, the second one.
MCStatements == [v \in 1..Newest |-> 3 - v]
=============================================================================
