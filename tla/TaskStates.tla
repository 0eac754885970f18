----------------------------- MODULE TaskStates -----------------------------
(***************************************************************************)
(* The task state machine of backend/app/tasks/engine.py and the way a     *)
(* SQLAlchemy session writes a row back.  Shared by every module whose     *)
(* component creates, controls or executes tasks.                          *)
(***************************************************************************)

TaskStatus == {"queued", "running", "paused", "succeeded", "failed", "cancelled"}

TERMINAL_STATES == {"succeeded", "failed", "cancelled"}

ALLOWED_TRANSITIONS ==
    [queued    |-> {"running", "paused", "cancelled"},
     running   |-> {"succeeded", "failed", "paused", "cancelled", "queued"},
     paused    |-> {"queued", "cancelled"},
     succeeded |-> {},
     failed    |-> {"queued"},
     cancelled |-> {"queued"}]

(***************************************************************************)
(* transition_task raises ValueError unless this holds.  It tests the      *)
(* status its session LOADED, which need not be the one in the database.   *)
(***************************************************************************)
MayTransition(from, to) == to \in ALLOWED_TRANSITIONS[from]

(***************************************************************************)
(* The sessions of app/db.py neither lock a row nor version it: a flush    *)
(* emits UPDATE ... WHERE id = ? for the attributes whose assigned value   *)
(* differs from the loaded one, and leaves every other column as the       *)
(* database now has it.                                                    *)
(***************************************************************************)
Column(current, loaded, assigned) ==
    IF assigned = loaded THEN current ELSE assigned
=============================================================================
