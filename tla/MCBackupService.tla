--------------------------- MODULE MCBackupService ---------------------------
(***************************************************************************)
(* Small instances of BackupService: two days, two jobs on each.           *)
(***************************************************************************)
EXTENDS ServiceInv

MCDate == {"1970", "today"}
=============================================================================
