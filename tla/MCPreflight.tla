----------------------------- MODULE MCPreflight -----------------------------
(***************************************************************************)
(* Small instances of Preflight.                                           *)
(***************************************************************************)
EXTENDS Preflight

CONSTANTS a, b

MCContent == {a, b}
MCSize == [c \in MCContent |-> IF c = a THEN 1 ELSE 2]
Plain(c) == [holds |-> c, media |-> TRUE, listed |-> TRUE]
\* Two contents and a duplicate; one content, a link and an entry the filter
\* drops; the larger content alone, in a directory that cannot be listed.
MCCards ==
    { <<Plain(a), Plain(b), Plain(a)>>,
      <<Plain(b), Plain(Special), [Plain(a) EXCEPT !.media = FALSE]>>,
      <<[Plain(b) EXCEPT !.listed = FALSE], Plain(b), Plain(b)>> }
=============================================================================
