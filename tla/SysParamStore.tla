---------------------------- MODULE SysParamStore ----------------------------
(***************************************************************************)
(* The calibration coefficients and their record in the EEPROM: i2c_app.c  *)
(* and the shell commands set_un and set_In of main.c.  At power-on the    *)
(* record is loaded if its CRC is right; otherwise the default record is   *)
(* written and read back.  A write is tried up to three times.             *)
(*                                                                         *)
(* The at24cxx package is external: it writes the 22 bytes page by page, a *)
(* transfer may fail, and a page whose write fails or is cut off by a loss *)
(* of power may be old, new or spoilt.                                     *)
(***************************************************************************)
EXTENDS Naturals

CONSTANTS
    Values,   \* coefficients the operator can set
    Default,  \* a coefficient of sys_default_para
    Zero,     \* a coefficient of g_sys_param before anything is loaded
    Junk,     \* a spoilt field or CRC
    MaxLosses \* bound of the power losses

\* In_a2, which nothing sets, shares a page with In_a1 and goes with it.
Fields == {"In_a1", "In_b", "Un_a", "Un_b"}

Record == [Fields -> Values \union {Default, Zero, Junk}]

ASSUME JunkAssumption == Junk \notin Record

ASSUME LossAssumption == MaxLosses \in Nat

\* Pages of 8 bytes; the fields have 4, and the CRC ends the last page.
PageOf == [In_a1 |-> 1, In_b |-> 2, Un_a |-> 2, Un_b |-> 3]

LastPage == 3

MaxTries == 3

VARIABLES
    ee,          \* EEPROM: the fields
    ee_crc,      \* EEPROM: the record whose CRC is stored, or Junk
    g_sys_param, \* the coefficients in use
    sys_data,    \* buffer of read_sysdata_from_eeprom
    pc,          \* what the code is doing
    cnt,         \* write attempts left, the current one included
    page,        \* page being written
    losses,      \* power losses so far
    readFailed,  \* observer: the last boot or save ended after a failed read
    wfails,      \* observer: write attempts that failed in the last boot or save
    tainted,     \* observer: a boot has ended with unchecked coefficients
    attempted    \* observer, until tainted: records whose save began, and which no
                 \* later write has replaced

vars == <<ee, ee_crc, g_sys_param, sys_data, pc, cnt, page, losses, readFailed, wfails,
          tainted, attempted>>

\* g_sys_param is in zeroed memory.
Cleared == [f \in Fields |-> Zero]

Spoilt == [f \in Fields |-> Junk]

sys_default_para == [f \in Fields |-> Default]

(* Types: fields are never mixed up with CRCs, and the loop of attempts and *)
(* pages stays within its bounds.                                           *)
TypeOK ==
    /\ ee \in Record
    /\ ee_crc \in Record \union {Junk}
    /\ g_sys_param \in Record
    /\ sys_data \in Record
    /\ pc \in {"read", "restore", "reread", "save", "idle"}
    /\ cnt \in 0 .. MaxTries
    /\ page \in 1 .. LastPage
    /\ losses \in 0 .. MaxLosses
    /\ readFailed \in BOOLEAN
    /\ wfails \in 0 .. MaxTries
    /\ tainted \in BOOLEAN
    /\ attempted \subseteq Record

\* The first power-on, with a chip that was never written.
Init ==
    /\ ee = Spoilt
    /\ ee_crc = Junk
    /\ g_sys_param = Cleared
    /\ sys_data = Cleared
    /\ pc = "read"
    /\ cnt = 0
    /\ page = 1
    /\ losses = 0
    /\ readFailed = FALSE
    /\ wfails = 0
    /\ tainted = FALSE
    /\ attempted = {}

\* A load that does not look at the CRC.
CrcUnchecked == TRUE

\* The CRC is represented by the record it is computed from: two records that
\* differ have different CRCs.
CrcRight == ee_crc = ee

-----------------------------------------------------------------------------
(* write_sysdata_to_eeprom *)

Writing == pc \in {"restore", "save"}

\* The type of the write not looked at.
DefaultsAlways == sys_default_para

\* What is being written: g_sys_param does not change during a save.
tmp == IF pc = "save" THEN g_sys_param ELSE sys_default_para

\* An attempt too few, and one too many.
TwoTries == MaxTries - 1

Tries == MaxTries

StartWrite ==
    /\ cnt' = Tries
    /\ page' = 1
    /\ wfails' = 0

\* Where the caller goes on.
AfterWrite == IF pc = "restore" THEN "reread" ELSE "idle"

\* at24cxx_page_write: a page is written ...
WritePage ==
    /\ Writing
    /\ ee' = [f \in Fields |-> IF PageOf[f] = page THEN tmp[f] ELSE ee[f]]
    /\ \/ /\ page < LastPage
          /\ page' = page + 1
          /\ UNCHANGED <<ee_crc, pc, cnt, attempted>>
       \/ /\ page = LastPage
          /\ ee_crc' = tmp
          /\ attempted' = {tmp}
          /\ pc' = AfterWrite
          /\ page' = 1
          /\ cnt' = 0
    /\ UNCHANGED <<g_sys_param, sys_data, losses, readFailed, wfails, tainted>>

\* ... or is left as it was, written all the same, or spoilt.
Torn ==
    LET Page(content) == [f \in Fields |-> IF PageOf[f] = page THEN content[f] ELSE ee[f]]
    IN  \/ UNCHANGED <<ee, ee_crc>>
        \/ /\ ee' = Page(tmp)
           /\ ee_crc' \in IF page = LastPage THEN {tmp, Junk} ELSE {ee_crc}
        \/ /\ ee' = Page(Spoilt)
           /\ ee_crc' \in IF page = LastPage THEN {ee_crc, Junk} ELSE {ee_crc}

NoCountDown == UNCHANGED cnt

CountDown == cnt' = cnt - 1

\* The attempt fails: another one from the first page, or none is left.
WriteFails ==
    /\ Writing
    /\ Torn
    /\ CountDown
    /\ page' = 1
    /\ wfails' = IF wfails < MaxTries THEN wfails + 1 ELSE wfails
    /\ pc' = IF cnt' = 0 THEN AfterWrite ELSE pc
    /\ UNCHANGED <<g_sys_param, sys_data, losses, readFailed, tainted, attempted>>

-----------------------------------------------------------------------------
(* read_sysdata_from_eeprom, called by eeprom_init *)

Load ==
    /\ pc = "read"
    /\ CrcRight
    /\ g_sys_param' = ee
    /\ pc' = "idle"
    /\ UNCHANGED <<ee, ee_crc, sys_data, cnt, page, losses, readFailed, wfails, tainted,
                   attempted>>

\* The CRC is wrong: the default record is written.
Restore ==
    /\ pc = "read"
    /\ ~CrcRight
    /\ sys_data' = ee
    /\ StartWrite
    /\ pc' = "restore"
    /\ UNCHANGED <<ee, ee_crc, g_sys_param, losses, readFailed, tainted, attempted>>

\* A read that fails at once ends the function.
LoadFails ==
    /\ pc = "read"
    /\ readFailed' = TRUE
    /\ tainted' = TRUE
    /\ pc' = "idle"
    /\ UNCHANGED <<ee, ee_crc, g_sys_param, sys_data, cnt, page, losses, wfails, attempted>>

\* After the default record: whatever is read is taken, unchecked.
Reread ==
    /\ pc = "reread"
    /\ g_sys_param' = ee
    /\ tainted' = (tainted \/ wfails = MaxTries)
    /\ pc' = "idle"
    /\ sys_data' = Cleared
    /\ UNCHANGED <<ee, ee_crc, cnt, page, losses, readFailed, wfails, attempted>>

\* The second read fails, and nobody looks: the spoilt record is taken.
RereadFails ==
    /\ pc = "reread"
    /\ g_sys_param' = sys_data
    /\ readFailed' = TRUE
    /\ tainted' = TRUE
    /\ pc' = "idle"
    /\ sys_data' = Cleared
    /\ UNCHANGED <<ee, ee_crc, cnt, page, losses, wfails, attempted>>

-----------------------------------------------------------------------------
(* Shell and power. *)

\* Two coefficients are set and the whole record is saved.
SetPair(fa, a, fb, b) ==
    /\ pc = "idle"
    /\ g_sys_param' = [g_sys_param EXCEPT ![fa] = a, ![fb] = b]
    /\ attempted' = IF tainted THEN {} ELSE attempted \union {g_sys_param'}
    /\ StartWrite
    /\ readFailed' = FALSE
    /\ pc' = "save"
    /\ UNCHANGED <<ee, ee_crc, sys_data, losses, tainted>>

set_un(a, b) == SetPair("Un_a", a, "Un_b", b)

set_In(a, b) == SetPair("In_a1", a, "In_b", b)

PowerLoss ==
    /\ losses < MaxLosses
    /\ losses' = losses + 1
    /\ IF Writing THEN Torn ELSE UNCHANGED <<ee, ee_crc>>
    /\ g_sys_param' = Cleared
    /\ sys_data' = Cleared
    /\ pc' = "read"
    /\ cnt' = 0
    /\ page' = 1
    /\ readFailed' = FALSE
    /\ wfails' = 0
    /\ UNCHANGED <<tainted, attempted>>

\* What the code does by itself once it has begun.
Proceed ==
    \/ WritePage
    \/ WriteFails
    \/ Load
    \/ Restore
    \/ LoadFails
    \/ Reread
    \/ RereadFails

Next ==
    \/ Proceed
    \/ \E a, b \in Values : set_un(a, b) \/ set_In(a, b)
    \/ PowerLoss

Spec == Init /\ [][Next]_vars

\* The code goes on; transfers may fail for ever.
FairSpec == Spec /\ WF_vars(Proceed)
-----------------------------------------------------------------------------
(* Properties. *)

(***************************************************************************)
(* Two failed attempts are masked: when a boot or a save has ended, unless *)
(* a read failed or all three attempts to write did, the EEPROM holds      *)
(* exactly the coefficients in use with a right CRC, whatever mixtures the *)
(* failed attempts left behind (i2c_app.c:94-110, 136-141).                *)
(***************************************************************************)
FailuresMasked ==
    pc = "idle" /\ ~readFailed /\ wfails < MaxTries => ee = g_sys_param /\ CrcRight

(***************************************************************************)
(* A save is all or nothing across any number of power losses, also ones   *)
(* during the restoring of the defaults: the coefficients in use are a     *)
(* whole record that was being saved or the default one, never a mixture.  *)
(* Only a boot that could not read, or could not restore in three          *)
(* attempts, breaks this, and then for good, because the next save gives   *)
(* the unchecked record a right CRC (i2c_app.c:88-107).                    *)
(***************************************************************************)
AllOrNothing ==
    pc = "idle" /\ ~tainted => g_sys_param \in attempted \union {sys_default_para}

\* The store as the cell of ParamCell: sealed with the record whose CRC is
\* stored, holding it when the CRC is right.
TaskOf == [read |-> "boot", restore |-> "restore", reread |-> "restore", save |-> "save",
           idle |-> "ready"]

Cell == INSTANCE ParamCell WITH
    Records <- Record,
    Defaults <- sys_default_para,
    None <- Junk,
    use <- IF pc \in {"idle", "save"} THEN g_sys_param ELSE Junk,
    sealed <- ee_crc,
    intact <- CrcRight,
    task <- TaskOf[pc],
    failed <- pc = "idle" /\ (readFailed \/ wfails = MaxTries)

(***************************************************************************)
(* Page writes, retries and CRC together are a cell that holds a whole     *)
(* record over losses of power: what was saved without failure is what     *)
(* every later boot that can read finds, until the next save begins, and a *)
(* write that is cut off leaves the old record, the new one or a cell that *)
(* the next boot knows is broken (i2c_app.c:83-146, main.c:144-182).       *)
(***************************************************************************)
ImplementsCell == Cell!Spec

(***************************************************************************)
(* Whatever transfers fail, once power stays on a boot and a save come to  *)
(* an end: the retries are bounded and no error path waits                 *)
(* (i2c_app.c:136-145).                                                    *)
(***************************************************************************)
CallsEnd == []<>(pc = "idle")
=============================================================================
