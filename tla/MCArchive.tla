------------------------------ MODULE MCArchive ------------------------------
(***************************************************************************)
(* Small instances of Archive: two contents, cards of two files, two jobs. *)
(***************************************************************************)
EXTENDS ArchiveInv

CONSTANTS a, b

MCContent == {a, b}
\* Two different files; the same content twice; a file and a special one.
MCCards == {<<a, b>>, <<a, a>>, <<b, Unsupported>>}
\* One content is enough where the second job meets what the first left.
OneContent == {a}
SameCards == {<<a, a>>, <<a, Unsupported>>}
\* The first file's path in the second job's session is taken.
TakenSlot == {<<2, 1>>}
=============================================================================
