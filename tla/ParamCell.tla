----------------------------- MODULE ParamCell -----------------------------
(***************************************************************************)
(* What the parameter store promises to the rest of the program, without   *)
(* pages, retries and CRCs: a cell that holds a whole record over losses   *)
(* of power.                                                               *)
(*                                                                         *)
(* The cell is sealed with at most one record and may or may not still     *)
(* hold it.  Only a write in progress disturbs it, and only towards the    *)
(* record being written; a boot finds the sealed record whole, or replaces *)
(* it by the defaults; and a call that ends without having failed leaves   *)
(* the cell holding exactly what is in use.                                *)
(*                                                                         *)
(* SysParamStore (i2c_app.c, main.c) is shown to implement this module.    *)
(***************************************************************************)
CONSTANTS
    Records,  \* the records: sets of coefficients
    Defaults, \* the record of defaults
    None      \* no record

VARIABLES
    use,      \* the record in use, None until a boot has ended
    sealed,   \* the record the cell is sealed with, or None
    intact,   \* the cell holds the record it is sealed with
    task,     \* "boot", "restore", "save" or "ready"
    failed    \* the last call has ended in failure

cellVars == <<use, sealed, intact, task, failed>>

Init ==
    /\ use = None
    /\ sealed = None
    /\ intact = FALSE
    /\ task = "boot"
    /\ failed = FALSE

\* The record that is being written.
Target == IF task = "save" THEN use ELSE Defaults

\* What a write may do to the cell before it is complete.
Disturbed ==
    /\ sealed' \in {sealed, Target, None}
    /\ intact' \in BOOLEAN

Undisturbed == UNCHANGED <<sealed, intact>>

\* A call ends, in failure or not.
End(f) == task' = "ready" /\ failed' = f

Boot ==
    /\ task = "boot"
    /\ intact
    /\ use' = sealed
    /\ End(FALSE)
    /\ Undisturbed

\* A broken cell is written with the defaults.
BeginRestore ==
    /\ task = "boot"
    /\ ~intact
    /\ task' = "restore"
    /\ UNCHANGED <<use, failed>>
    /\ Undisturbed

Restored ==
    /\ task = "restore"
    /\ intact /\ sealed = Defaults
    /\ use' = Defaults
    /\ End(FALSE)
    /\ Undisturbed

\* The cell could not be read, or not be written with the defaults: any
\* record may then be in use, and the cell is left as it is.
BootFails ==
    /\ task \in {"boot", "restore"}
    /\ use' \in Records
    /\ End(TRUE)
    /\ Undisturbed

Save(r) ==
    /\ task = "ready"
    /\ use' = r
    /\ task' = "save"
    /\ failed' = FALSE
    /\ Undisturbed

Write ==
    /\ task \in {"restore", "save"}
    /\ Disturbed
    /\ UNCHANGED <<use, task, failed>>

Saved ==
    /\ task = "save"
    /\ sealed' = use
    /\ intact' = TRUE
    /\ End(FALSE)
    /\ UNCHANGED use

SaveFails ==
    /\ task = "save"
    /\ Disturbed
    /\ End(TRUE)
    /\ UNCHANGED use

\* The cell survives, unless a write is cut off.
PowerLoss ==
    /\ IF task \in {"restore", "save"} THEN Disturbed ELSE Undisturbed
    /\ use' = None
    /\ task' = "boot"
    /\ failed' = FALSE

Next ==
    \/ Boot \/ BeginRestore \/ Restored \/ BootFails
    \/ \E r \in Records : Save(r)
    \/ Write \/ Saved \/ SaveFails
    \/ PowerLoss

Spec == Init /\ [][Next]_cellVars
=============================================================================
