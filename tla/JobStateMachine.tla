--------------------------- MODULE JobStateMachine ---------------------------
(***************************************************************************)
(* The authoritative table of backup states (backup/state_machine.py) and  *)
(* the routes by which the engine leaves a resting state                   *)
(* (backup/engine.py, _RESET_ROUTES).                                      *)
(***************************************************************************)
EXTENDS Naturals, Sequences

\* BackupState, in the order of the source.
BackupState ==
    {"IDLE", "SOURCE_DETECTED", "MULTIPLE_SOURCES_DETECTED", "SOURCE_MOUNTING",
     "SOURCE_PROTECTION_FAILURE", "SOURCE_READY", "PREFLIGHT_SCANNING",
     "PREFLIGHT_HASHING", "PREFLIGHT_COMPARING", "PREFLIGHT_CAPACITY_CHECK",
     "PREFLIGHT_READY", "PREFLIGHT_WARNING", "PREFLIGHT_BLOCKED", "BACKUP_QUEUED",
     "BACKUP_COPYING", "BACKUP_CANCELLING", "BACKUP_VERIFYING", "BACKUP_COMPLETED",
     "BACKUP_COMPLETED_WITH_WARNINGS", "BACKUP_CANCELLED", "BACKUP_FAILED",
     "SOURCE_SAFE_TO_REMOVE", "RECOVERY_REQUIRED", "RECOVERING"}

\* _ALLOWED: the states one transition away.
Allowed ==
    [IDLE |-> {"SOURCE_DETECTED", "MULTIPLE_SOURCES_DETECTED"},
     SOURCE_DETECTED |->
        {"SOURCE_MOUNTING", "SOURCE_PROTECTION_FAILURE", "BACKUP_FAILED"},
     MULTIPLE_SOURCES_DETECTED |-> {"SOURCE_DETECTED", "IDLE"},
     SOURCE_MOUNTING |-> {"SOURCE_READY", "SOURCE_PROTECTION_FAILURE", "BACKUP_FAILED"},
     SOURCE_PROTECTION_FAILURE |-> {"SOURCE_DETECTED", "IDLE"},
     SOURCE_READY |-> {"PREFLIGHT_SCANNING"},
     PREFLIGHT_SCANNING |-> {"PREFLIGHT_HASHING", "PREFLIGHT_BLOCKED", "BACKUP_FAILED"},
     PREFLIGHT_HASHING |-> {"PREFLIGHT_COMPARING", "PREFLIGHT_BLOCKED", "BACKUP_FAILED"},
     PREFLIGHT_COMPARING |-> {"PREFLIGHT_CAPACITY_CHECK"},
     PREFLIGHT_CAPACITY_CHECK |->
        {"PREFLIGHT_READY", "PREFLIGHT_WARNING", "PREFLIGHT_BLOCKED"},
     PREFLIGHT_READY |-> {"BACKUP_QUEUED"},
     PREFLIGHT_WARNING |-> {"BACKUP_QUEUED", "PREFLIGHT_BLOCKED"},
     PREFLIGHT_BLOCKED |-> {"PREFLIGHT_SCANNING", "IDLE"},
     BACKUP_QUEUED |-> {"BACKUP_COPYING", "BACKUP_CANCELLED"},
     BACKUP_COPYING |->
        {"BACKUP_VERIFYING", "BACKUP_CANCELLING", "RECOVERY_REQUIRED", "BACKUP_FAILED"},
     BACKUP_VERIFYING |->
        {"BACKUP_COPYING", "BACKUP_COMPLETED", "BACKUP_COMPLETED_WITH_WARNINGS",
         "BACKUP_CANCELLING", "RECOVERY_REQUIRED", "BACKUP_FAILED"},
     BACKUP_CANCELLING |-> {"BACKUP_CANCELLED", "RECOVERY_REQUIRED"},
     BACKUP_COMPLETED |-> {"SOURCE_SAFE_TO_REMOVE"},
     BACKUP_COMPLETED_WITH_WARNINGS |-> {"SOURCE_SAFE_TO_REMOVE"},
     BACKUP_CANCELLED |-> {"SOURCE_SAFE_TO_REMOVE", "PREFLIGHT_SCANNING"},
     RECOVERY_REQUIRED |-> {"RECOVERING"},
     RECOVERING |->
        {"PREFLIGHT_SCANNING", "BACKUP_COPYING", "BACKUP_VERIFYING", "BACKUP_COMPLETED",
         "BACKUP_FAILED"},
     SOURCE_SAFE_TO_REMOVE |-> {"IDLE"},
     BACKUP_FAILED |-> {"PREFLIGHT_SCANNING", "RECOVERY_REQUIRED", "SOURCE_SAFE_TO_REMOVE"}]

CanTransition(s, t) == t \in Allowed[s]

-----------------------------------------------------------------------------
(* Resting states and the routes that lead from them to IDLE.              *)

Resting ==
    {"IDLE", "SOURCE_SAFE_TO_REMOVE", "PREFLIGHT_BLOCKED", "BACKUP_FAILED",
     "BACKUP_CANCELLED"}

\* Mutant: a short cut to IDLE.
DirectRoute == [s \in Resting |-> IF s = "IDLE" THEN <<>> ELSE <<"IDLE">>]

\* _RESET_ROUTES
ResetRoute ==
    [s \in Resting |->
        IF s = "IDLE" THEN <<>>
        ELSE IF s \in {"BACKUP_FAILED", "BACKUP_CANCELLED"}
             THEN <<"SOURCE_SAFE_TO_REMOVE", "IDLE">>
        ELSE <<"IDLE">>]

-----------------------------------------------------------------------------
(* Routes.                                                                 *)

\* Every hop of the route r from s is in the table.
Legal(s, r) ==
    \A i \in 1..Len(r) : CanTransition(IF i = 1 THEN s ELSE r[i - 1], r[i])

\* Where the route r from s ends.
Destination(s, r) == IF r = <<>> THEN s ELSE r[Len(r)]
=============================================================================
