---------------------------- MODULE MCSourceMedia ----------------------------
(***************************************************************************)
(* Small instances of SourceMedia: two cards, a reader with two slots.     *)
(***************************************************************************)
EXTENDS SourceMedia

CONSTANTS a, b, upper, lower

TwoCards == {a, b}
OneCard == {a}
TwoSlots == {upper, lower}
OneSlot == {upper}
=============================================================================
