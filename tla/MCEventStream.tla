---------------------------- MODULE MCEventStream ----------------------------
(***************************************************************************)
(* Small instances of EventStream: a worker and a dry run publish.         *)
(***************************************************************************)
EXTENDS EventStream

CONSTANTS worker, scan

Threads == {worker, scan}
=============================================================================
