------------------------- MODULE SysParamStoreProofs -------------------------
(***************************************************************************)
(* Proofs about the parameter store, for any set of coefficients and any   *)
(* number of power losses.                                                 *)
(***************************************************************************)
EXTENDS SysParamStore, TLAPS

\* A write in progress: attempts add up, and the pages before the current one
\* are written.
WriteInv ==
    Writing =>
        /\ cnt \in 1 .. MaxTries
        /\ wfails + cnt = MaxTries
        /\ \A f \in Fields : PageOf[f] < page => ee[f] = tmp[f]

\* The defaults have been written before they are read back.
RestoreInv == pc = "reread" /\ wfails < MaxTries => ee = sys_default_para /\ CrcRight

\* A CRC in the chip belongs to a record whose save began, or to the defaults.
CrcInv ==
    ~tainted =>
        /\ ee_crc \in attempted \union {sys_default_para, Junk}
        /\ pc = "save" => g_sys_param \in attempted

\* A call that goes on has had no read failure, and a boot begins afresh.
CallInv ==
    /\ pc # "idle" => ~readFailed
    /\ pc = "read" => wfails = 0

StoreInv == WriteInv /\ RestoreInv /\ CrcInv /\ FailuresMasked /\ AllOrNothing

LEMMA RecordFacts ==
    /\ Cleared \in Record
    /\ Spoilt \in Record
    /\ sys_default_para \in Record
    /\ Junk \notin Record
    /\ MaxLosses \in Nat
  BY JunkAssumption, LossAssumption DEF Record, Cleared, Spoilt, sys_default_para

LEMMA PageFacts == \A f \in Fields : PageOf[f] \in 1 .. 3
  BY DEF Fields, PageOf

LEMMA TmpRecord == ASSUME TypeOK PROVE tmp \in Record
  BY RecordFacts DEF TypeOK, tmp

LEMMA PageRecord ==
    ASSUME NEW r \in Record, NEW s \in Record
    PROVE  [f \in Fields |-> IF PageOf[f] = page THEN r[f] ELSE s[f]] \in Record
  BY DEF Record

LEMMA TornType == ASSUME TypeOK, Torn PROVE ee' \in Record /\ ee_crc' \in Record \union {Junk}
<1>1. /\ [f \in Fields |-> IF PageOf[f] = page THEN tmp[f] ELSE ee[f]] \in Record
      /\ [f \in Fields |-> IF PageOf[f] = page THEN Spoilt[f] ELSE ee[f]] \in Record
  BY PageRecord, TmpRecord, RecordFacts DEF TypeOK
<1>2. ee \in Record /\ ee_crc \in Record \union {Junk} /\ tmp \in Record
  BY TmpRecord DEF TypeOK
<1>3. CASE UNCHANGED <<ee, ee_crc>>
  BY <1>2, <1>3
<1>4. CASE /\ ee' = [f \in Fields |-> IF PageOf[f] = page THEN tmp[f] ELSE ee[f]]
           /\ ee_crc' \in IF page = LastPage THEN {tmp, Junk} ELSE {ee_crc}
  BY <1>1, <1>2, <1>4
<1>5. CASE /\ ee' = [f \in Fields |-> IF PageOf[f] = page THEN Spoilt[f] ELSE ee[f]]
           /\ ee_crc' \in IF page = LastPage THEN {ee_crc, Junk} ELSE {ee_crc}
  BY <1>1, <1>2, <1>5
<1> QED
  BY <1>3, <1>4, <1>5 DEF Torn

LEMMA InitStore == Init => TypeOK /\ StoreInv
<1> SUFFICES ASSUME Init PROVE TypeOK /\ StoreInv
  OBVIOUS
<1>1. TypeOK
  <2>1. /\ ee \in Record /\ ee_crc \in Record \union {Junk}
        /\ g_sys_param \in Record /\ sys_data \in Record /\ attempted \subseteq Record
    BY RecordFacts DEF Init
  <2>2. cnt \in 0 .. 3 /\ page \in 1 .. 3 /\ losses \in 0 .. MaxLosses /\ wfails \in 0 .. 3
    BY RecordFacts DEF Init
  <2>3. readFailed \in BOOLEAN /\ tainted \in BOOLEAN
    BY DEF Init
  <2>4. pc \in {"read", "restore", "reread", "save", "idle"}
    BY DEF Init
  <2> QED
    BY <2>1, <2>2, <2>3, <2>4 DEF TypeOK, MaxTries, LastPage
<1>2. StoreInv
  BY DEF Init, StoreInv, WriteInv, RestoreInv, CrcInv, FailuresMasked, AllOrNothing, Writing
<1> QED
  BY <1>1, <1>2

-----------------------------------------------------------------------------
LEMMA StepType == TypeOK /\ StoreInv /\ [Next]_vars => TypeOK'
<1> SUFFICES ASSUME TypeOK, StoreInv, [Next]_vars PROVE TypeOK'
  OBVIOUS
<1> USE RecordFacts DEF MaxTries, LastPage
<1>1. CASE WritePage
  <2>1. ee' \in Record
    BY <1>1, PageRecord, TmpRecord DEF WritePage, TypeOK
  <2>2. CASE page < LastPage
    <3>1. page' \in 1 .. 3 /\ UNCHANGED <<ee_crc, pc, cnt, attempted>>
      BY <1>1, <2>2 DEF WritePage, TypeOK
    <3> QED
      BY <1>1, <2>1, <3>1 DEF WritePage, TypeOK
  <2>3. CASE page = LastPage
    <3>1. ee_crc' = tmp /\ attempted' = {tmp} /\ page' = 1 /\ cnt' = 0 /\ pc' = AfterWrite
      BY <1>1, <2>3 DEF WritePage
    <3> QED
      BY <1>1, <2>1, <3>1, TmpRecord DEF WritePage, AfterWrite, TypeOK
  <2> QED
    BY <2>2, <2>3 DEF TypeOK
<1>2. CASE WriteFails
  <2>1. ee' \in Record /\ ee_crc' \in Record \union {Junk}
    BY <1>2, TornType DEF WriteFails
  <2>2. cnt \in 1 .. 3
    BY <1>2 DEF WriteFails, StoreInv, WriteInv
  <2>3. cnt' \in 0 .. 3 /\ wfails' \in 0 .. 3 /\ page' = 1
    BY <1>2, <2>2 DEF WriteFails, CountDown, TypeOK
  <2>4. pc' \in {"read", "restore", "reread", "save", "idle"}
    BY <1>2 DEF WriteFails, AfterWrite, TypeOK
  <2> QED
    BY <1>2, <2>1, <2>3, <2>4 DEF WriteFails, TypeOK
<1>3. CASE Load
  BY <1>3 DEF Load, TypeOK
<1>4. CASE Restore
  BY <1>4 DEF Restore, StartWrite, Tries, TypeOK
<1>5. CASE LoadFails
  BY <1>5 DEF LoadFails, TypeOK
<1>6. CASE Reread
  <2>1. tainted' \in BOOLEAN
    BY <1>6 DEF Reread, TypeOK
  <2>2. /\ g_sys_param' \in Record /\ sys_data' \in Record
        /\ pc' = "idle" /\ UNCHANGED <<ee, ee_crc, cnt, page, losses, readFailed, wfails, attempted>>
    BY <1>6 DEF Reread, TypeOK
  <2> QED
    BY <2>1, <2>2 DEF TypeOK
<1>7. CASE RereadFails
  BY <1>7 DEF RereadFails, TypeOK
<1>8. ASSUME NEW a \in Values, NEW b \in Values, set_un(a, b) \/ set_In(a, b)
      PROVE  TypeOK'
  <2>1. g_sys_param' \in Record
    BY <1>8 DEF set_un, set_In, SetPair, TypeOK, Record
  <2>2. attempted' \subseteq Record
    BY <1>8, <2>1 DEF set_un, set_In, SetPair, TypeOK
  <2>3. /\ cnt' = 3 /\ page' = 1 /\ wfails' = 0 /\ pc' = "save"
        /\ UNCHANGED <<ee, ee_crc, sys_data, losses, tainted>>
    BY <1>8 DEF set_un, set_In, SetPair, StartWrite, Tries
  <2>4. readFailed' \in BOOLEAN
    BY <1>8 DEF set_un, set_In, SetPair
  <2> QED
    BY <2>1, <2>2, <2>3, <2>4 DEF TypeOK
<1>9. CASE PowerLoss
  <2>1. ee' \in Record /\ ee_crc' \in Record \union {Junk}
    BY <1>9, TornType DEF PowerLoss, TypeOK
  <2>2. losses' \in 0 .. MaxLosses
    BY <1>9 DEF PowerLoss, TypeOK
  <2>3. /\ g_sys_param' = Cleared /\ sys_data' = Cleared /\ pc' = "read" /\ cnt' = 0
        /\ page' = 1 /\ wfails' = 0 /\ UNCHANGED <<tainted, attempted>>
    BY <1>9 DEF PowerLoss
  <2>4. readFailed' \in BOOLEAN
    BY <1>9 DEF PowerLoss
  <2> QED
    BY <2>1, <2>2, <2>3, <2>4 DEF TypeOK
<1>10. CASE UNCHANGED vars
  BY <1>10 DEF vars, TypeOK
<1> QED
  BY <1>1, <1>2, <1>3, <1>4, <1>5, <1>6, <1>7, <1>8, <1>9, <1>10 DEF Next, Proceed

LEMMA StepStore == TypeOK /\ StoreInv /\ [Next]_vars => StoreInv'
<1> SUFFICES ASSUME TypeOK, StoreInv, [Next]_vars PROVE StoreInv'
  OBVIOUS
<1> USE RecordFacts DEF MaxTries, LastPage
<1>1. CASE WritePage
  <2>0. Writing /\ tmp \in Record /\ ee \in Record
    BY <1>1, TmpRecord DEF WritePage, TypeOK
  <2>1. CASE page < LastPage
    <3>1. /\ page' = page + 1 /\ UNCHANGED <<ee_crc, pc, cnt, attempted>>
          /\ UNCHANGED <<g_sys_param, wfails, tainted>>
      BY <1>1, <2>1 DEF WritePage
    <3>2. tmp' = tmp
      BY <3>1 DEF tmp
    <3>3. ASSUME NEW f \in Fields, PageOf[f] < page' PROVE ee'[f] = tmp'[f]
      <4>1. ee'[f] = IF PageOf[f] = page THEN tmp[f] ELSE ee[f]
        BY <1>1 DEF WritePage
      <4>2. PageOf[f] < page => ee[f] = tmp[f]
        BY <2>0 DEF StoreInv, WriteInv
      <4>3. PageOf[f] \in 1 .. 3 /\ page \in 1 .. 3
        BY PageFacts DEF TypeOK
      <4> QED
        BY <3>1, <3>2, <3>3, <4>1, <4>2, <4>3
    <3>4. WriteInv'
      BY <2>0, <3>1, <3>3 DEF StoreInv, WriteInv, Writing
    <3>5. pc' \in {"restore", "save"}
      BY <2>0, <3>1 DEF Writing
    <3>6. CrcInv'
      BY <3>1 DEF StoreInv, CrcInv
    <3> QED
      BY <3>4, <3>5, <3>6 DEF StoreInv, RestoreInv, FailuresMasked, AllOrNothing
  <2>2. CASE page = LastPage
    <3>1. /\ ee_crc' = tmp /\ attempted' = {tmp} /\ pc' = AfterWrite
          /\ UNCHANGED <<g_sys_param, wfails, tainted>>
      BY <1>1, <2>2 DEF WritePage
    <3>2. ee' = tmp
      <4>1. ASSUME NEW f \in Fields PROVE ee'[f] = tmp[f]
        <5>1. ee'[f] = IF PageOf[f] = page THEN tmp[f] ELSE ee[f]
          BY <1>1 DEF WritePage
        <5>2. PageOf[f] < page => ee[f] = tmp[f]
          BY <2>0 DEF StoreInv, WriteInv
        <5>3. PageOf[f] \in 1 .. 3
          BY PageFacts
        <5> QED
          BY <2>2, <5>1, <5>2, <5>3
      <4>2. ee' = [f \in Fields |-> ee'[f]]
        BY <1>1 DEF WritePage
      <4>3. tmp = [f \in Fields |-> tmp[f]]
        BY <2>0 DEF Record
      <4> QED
        BY <4>1, <4>2, <4>3
    <3>3. CASE pc = "restore"
      <4>1. tmp = sys_default_para /\ pc' = "reread"
        BY <3>1, <3>3 DEF tmp, AfterWrite
      <4> QED
        BY <3>1, <3>2, <4>1 DEF StoreInv, WriteInv, RestoreInv, CrcInv, FailuresMasked,
           AllOrNothing, Writing, CrcRight
    <3>4. CASE pc = "save"
      <4>1. tmp = g_sys_param /\ pc' = "idle"
        BY <3>1, <3>4 DEF tmp, AfterWrite
      <4> QED
        BY <3>1, <3>2, <4>1 DEF StoreInv, WriteInv, RestoreInv, CrcInv, FailuresMasked,
           AllOrNothing, Writing, CrcRight
    <3> QED
      BY <2>0, <3>3, <3>4 DEF Writing
  <2> QED
    BY <2>1, <2>2 DEF TypeOK
<1>2. CASE WriteFails
  <2>0. Writing /\ cnt \in 1 .. 3 /\ wfails + cnt = 3 /\ wfails \in 0 .. 3
    BY <1>2 DEF WriteFails, StoreInv, WriteInv, TypeOK
  <2>1. /\ cnt' = cnt - 1 /\ wfails' = wfails + 1 /\ page' = 1
        /\ pc' = IF cnt' = 0 THEN AfterWrite ELSE pc
        /\ UNCHANGED <<g_sys_param, tainted, attempted>>
    BY <1>2, <2>0 DEF WriteFails, CountDown
  <2>2. ee_crc' \in {ee_crc, tmp, Junk}
    BY <1>2 DEF WriteFails, Torn
  <2>3. CrcInv'
    <3> SUFFICES ASSUME ~tainted PROVE /\ ee_crc' \in attempted \union {sys_default_para, Junk}
                                       /\ pc' = "save" => g_sys_param \in attempted
      BY <2>1 DEF CrcInv
    <3>1. tmp \in attempted \union {sys_default_para}
      BY DEF tmp, StoreInv, CrcInv
    <3>2. pc' = "save" => pc = "save"
      BY <2>1 DEF AfterWrite
    <3> QED
      BY <2>2, <3>1, <3>2 DEF StoreInv, CrcInv
  <2>4. WriteInv'
    <3>1. ASSUME NEW f \in Fields PROVE ~(PageOf[f] < page')
      BY <2>1, PageFacts
    <3>2. Writing' => cnt' \in 1 .. 3
      BY <2>0, <2>1 DEF Writing, AfterWrite
    <3> QED
      BY <2>0, <2>1, <3>1, <3>2 DEF WriteInv
  <2>5. pc' \in {"reread", "idle"} => wfails' = 3
    BY <2>0, <2>1 DEF Writing
  <2>6. AllOrNothing'
    <3> SUFFICES ASSUME pc' = "idle", ~tainted PROVE g_sys_param \in attempted
      BY <2>1 DEF AllOrNothing
    <3>1. pc = "save"
      BY <2>0, <2>1 DEF Writing, AfterWrite
    <3> QED
      BY <3>1 DEF StoreInv, CrcInv
  <2> QED
    BY <2>3, <2>4, <2>5, <2>6 DEF StoreInv, RestoreInv, FailuresMasked
<1>3. CASE Load
  <2>1. /\ pc' = "idle" /\ g_sys_param' = ee /\ ee_crc = ee
        /\ UNCHANGED <<ee, ee_crc, tainted, attempted>>
    BY <1>3 DEF Load, CrcRight
  <2>2. ee # Junk
    BY DEF TypeOK
  <2>3. ~tainted => ee \in attempted \union {sys_default_para}
    BY <2>1, <2>2 DEF StoreInv, CrcInv
  <2> QED
    BY <2>1, <2>3 DEF StoreInv, WriteInv, RestoreInv, CrcInv, FailuresMasked, AllOrNothing,
       Writing, CrcRight
<1>4. CASE Restore
  <2>1. /\ pc' = "restore" /\ cnt' = 3 /\ wfails' = 0 /\ page' = 1
        /\ UNCHANGED <<ee_crc, tainted, attempted>>
    BY <1>4 DEF Restore, StartWrite, Tries
  <2>2. ASSUME NEW f \in Fields PROVE ~(PageOf[f] < page')
    BY <2>1, PageFacts
  <2> QED
    BY <2>1, <2>2 DEF StoreInv, WriteInv, RestoreInv, CrcInv, FailuresMasked, AllOrNothing
<1>5. CASE LoadFails
  <2>1. pc' = "idle" /\ readFailed' /\ tainted'
    BY <1>5 DEF LoadFails
  <2> QED
    BY <2>1 DEF StoreInv, WriteInv, RestoreInv, CrcInv, FailuresMasked, AllOrNothing, Writing
<1>6. CASE Reread
  <2>1. /\ pc = "reread" /\ pc' = "idle" /\ g_sys_param' = ee
        /\ UNCHANGED <<ee, ee_crc, wfails, attempted>>
    BY <1>6 DEF Reread
  <2>2. ~tainted' => ~tainted /\ wfails < 3
    <3>1. tainted' = (tainted \/ wfails = 3)
      BY <1>6 DEF Reread
    <3>2. wfails # 3 => wfails < 3
      BY DEF TypeOK
    <3> QED
      BY ONLY <3>1, <3>2, Zenon
  <2>3. wfails < 3 => ee = sys_default_para /\ ee_crc = ee
    BY <2>1 DEF StoreInv, RestoreInv, CrcRight
  <2> QED
    BY <2>1, <2>2, <2>3 DEF StoreInv, WriteInv, RestoreInv, CrcInv, FailuresMasked,
       AllOrNothing, Writing, CrcRight
<1>7. CASE RereadFails
  <2>1. pc' = "idle" /\ readFailed' /\ tainted'
    BY <1>7 DEF RereadFails
  <2> QED
    BY <2>1 DEF StoreInv, WriteInv, RestoreInv, CrcInv, FailuresMasked, AllOrNothing, Writing
<1>8. ASSUME NEW a \in Values, NEW b \in Values, set_un(a, b) \/ set_In(a, b)
      PROVE  StoreInv'
  <2>1. /\ pc' = "save" /\ cnt' = 3 /\ wfails' = 0 /\ page' = 1
        /\ UNCHANGED <<ee_crc, tainted>>
    BY <1>8 DEF set_un, set_In, SetPair, StartWrite, Tries
  <2>2. ASSUME NEW f \in Fields PROVE ~(PageOf[f] < page')
    BY <2>1, PageFacts
  <2>3. ~tainted => attempted' = attempted \union {g_sys_param'}
    BY <1>8 DEF set_un, set_In, SetPair
  <2>4. CrcInv'
    BY <2>1, <2>3 DEF StoreInv, CrcInv
  <2> QED
    BY <2>1, <2>2, <2>4 DEF StoreInv, WriteInv, RestoreInv, FailuresMasked, AllOrNothing
<1>9. CASE PowerLoss
  <2>1. pc' = "read" /\ UNCHANGED <<tainted, attempted>>
    BY <1>9 DEF PowerLoss
  <2>2. ee_crc' \in {ee_crc, Junk} \/ (Writing /\ ee_crc' = tmp)
    BY <1>9 DEF PowerLoss, Torn
  <2>3. Writing /\ ~tainted => tmp \in attempted \union {sys_default_para}
    BY DEF tmp, StoreInv, CrcInv
  <2>4. CrcInv'
    BY <2>1, <2>2, <2>3 DEF StoreInv, CrcInv
  <2> QED
    BY <2>1, <2>4 DEF StoreInv, WriteInv, RestoreInv, FailuresMasked, AllOrNothing, Writing
<1>10. CASE UNCHANGED vars
  BY <1>10 DEF vars, StoreInv, WriteInv, RestoreInv, CrcInv, FailuresMasked, AllOrNothing,
     Writing, CrcRight, tmp
<1> QED
  BY <1>1, <1>2, <1>3, <1>4, <1>5, <1>6, <1>7, <1>8, <1>9, <1>10 DEF Next, Proceed

LEMMA CallStep == ASSUME CallInv, [Next]_vars PROVE CallInv'
<1>1. CASE WritePage \/ WriteFails
  BY <1>1 DEF CallInv, WritePage, WriteFails, Writing, AfterWrite
<1>2. CASE Load \/ Restore \/ LoadFails
  BY <1>2 DEF CallInv, Load, Restore, LoadFails
<1>3. CASE Reread \/ RereadFails
  BY <1>3 DEF CallInv, Reread, RereadFails
<1>4. ASSUME NEW a \in Values, NEW b \in Values, set_un(a, b) \/ set_In(a, b)
      PROVE  CallInv'
  BY <1>4 DEF CallInv, set_un, set_In, SetPair
<1>5. CASE PowerLoss
  BY <1>5 DEF CallInv, PowerLoss
<1>6. CASE UNCHANGED vars
  BY <1>6 DEF CallInv, vars
<1> QED
  BY <1>1, <1>2, <1>3, <1>4, <1>5, <1>6 DEF Next, Proceed

LEMMA CallAlways == Spec => []CallInv
<1>1. Init => CallInv
  BY DEF Init, CallInv
<1> QED
  BY <1>1, CallStep, PTL DEF Spec

LEMMA StoreAlways == Spec => [](TypeOK /\ StoreInv)
<1>1. TypeOK /\ StoreInv /\ [Next]_vars => TypeOK' /\ StoreInv'
  BY StepType, StepStore
<1> QED
  BY InitStore, <1>1, PTL DEF Spec

-----------------------------------------------------------------------------
(***************************************************************************)
(* Type correctness of the store: the loops over attempts and pages stay   *)
(* within their bounds.                                                    *)
(***************************************************************************)
THEOREM StoreTypeCorrect == Spec => []TypeOK
  BY StoreAlways, PTL

(***************************************************************************)
(* Up to two failed attempts to write leave no trace: the EEPROM holds     *)
(* what is in use (i2c_app.c:136-141).                                     *)
(***************************************************************************)
THEOREM RetriesMask == Spec => []FailuresMasked
<1>1. StoreInv => FailuresMasked
  BY DEF StoreInv
<1> QED
  BY StoreAlways, <1>1, PTL

(***************************************************************************)
(* Whatever a loss of power cuts off, and however often, a boot that can   *)
(* read and write ends with a whole record (i2c_app.c:83-113).             *)
(***************************************************************************)
THEOREM SavesAtomic == Spec => []AllOrNothing
<1>1. StoreInv => AllOrNothing
  BY DEF StoreInv
<1> QED
  BY StoreAlways, <1>1, PTL

-----------------------------------------------------------------------------
(* The store as a cell. *)

LEMMA TaskFacts ==
    /\ TaskOf["read"] = "boot"
    /\ TaskOf["restore"] = "restore"
    /\ TaskOf["reread"] = "restore"
    /\ TaskOf["save"] = "save"
    /\ TaskOf["idle"] = "ready"
  BY DEF TaskOf

LEMMA TargetIsTmp == ASSUME TypeOK, Writing PROVE Cell!Target = tmp
  BY TaskFacts DEF Writing, Cell!Target, tmp

\* A page that fails or is cut off disturbs the cell only towards the target.
LEMMA TornDisturbs == ASSUME TypeOK, Writing, Torn PROVE Cell!Disturbed
<1>1. ee_crc' \in {ee_crc, tmp, Junk}
  BY DEF Torn
<1> QED
  BY <1>1, TargetIsTmp DEF Cell!Disturbed, CrcRight

LEMMA StepIsCell ==
    ASSUME TypeOK, StoreInv, CallInv, TypeOK', StoreInv', CallInv', [Next]_vars
    PROVE  [Cell!Next]_Cell!cellVars
<1> USE TaskFacts
<1>1. CASE WritePage
  <2>1. Writing /\ tmp \in Record
    BY <1>1, TmpRecord DEF WritePage
  <2>2. CASE pc' = pc
    <3>1. ee_crc' \in {ee_crc, tmp}
      BY <1>1 DEF WritePage
    <3>2. Cell!Disturbed
      BY <2>1, <3>1, TargetIsTmp DEF Cell!Disturbed, CrcRight
    <3>3. UNCHANGED <<g_sys_param, pc, readFailed, wfails>>
      BY <1>1, <2>2 DEF WritePage
    <3>4. Cell!Write
      BY <2>1, <3>2, <3>3 DEF Cell!Write, Writing
    <3> QED
      BY <3>4 DEF Cell!Next
  <2>3. CASE pc' # pc
    <3>1. ee_crc' = tmp /\ pc' = AfterWrite /\ UNCHANGED <<g_sys_param, readFailed, wfails>>
      BY <1>1, <2>3 DEF WritePage
    <3>2. wfails < MaxTries
      BY <2>1 DEF StoreInv, WriteInv, TypeOK, MaxTries
    <3>3. CASE pc = "restore"
      <4>1. Cell!Disturbed
        BY <2>1, <3>1, TargetIsTmp DEF Cell!Disturbed, CrcRight
      <4>2. pc' = "reread"
        BY <3>1, <3>3 DEF AfterWrite
      <4>3. Cell!Write
        BY <3>1, <3>3, <4>1, <4>2 DEF Cell!Write
      <4> QED
        BY <4>3 DEF Cell!Next
    <3>4. CASE pc = "save"
      <4>1. pc' = "idle" /\ ee_crc' = g_sys_param
        BY <3>1, <3>4 DEF AfterWrite, tmp
      <4>2. ~readFailed
        BY <3>4 DEF CallInv
      <4>3. CrcRight'
        BY <3>1, <3>2, <4>1, <4>2 DEF StoreInv, FailuresMasked
      <4>4. wfails' # MaxTries /\ ~readFailed'
        BY <3>1, <3>2, <4>2 DEF TypeOK, MaxTries
      <4>5. Cell!Saved
        BY <3>1, <3>4, <4>1, <4>3, <4>4 DEF Cell!Saved, Cell!End, CrcRight
      <4> QED
        BY <4>5 DEF Cell!Next
    <3> QED
      BY <2>1, <3>3, <3>4 DEF Writing
  <2> QED
    BY <2>2, <2>3
<1>2. CASE WriteFails
  <2>1. Writing /\ Cell!Disturbed
    BY <1>2, TornDisturbs DEF WriteFails
  <2>2. UNCHANGED <<g_sys_param, readFailed>>
    BY <1>2 DEF WriteFails
  <2>3. CASE pc' = pc \/ pc = "restore"
    <3>1. pc' = pc \/ (pc = "restore" /\ pc' = "reread")
      BY <1>2, <2>3 DEF WriteFails, AfterWrite
    <3>2. Cell!Write
      BY <2>1, <2>2, <3>1 DEF Cell!Write, Writing
    <3> QED
      BY <3>2 DEF Cell!Next
  <2>4. CASE pc' # pc /\ pc = "save"
    <3>1. pc' = "idle" /\ cnt' = 0
      BY <1>2, <2>4 DEF WriteFails, AfterWrite
    <3>2. wfails' = MaxTries
      <4>1. cnt \in 1 .. 3 /\ wfails + cnt = 3 /\ wfails \in 0 .. 3 /\ cnt' = cnt - 1
        BY <1>2, <2>1 DEF WriteFails, CountDown, StoreInv, WriteInv, TypeOK, MaxTries
      <4>2. wfails' = IF wfails < 3 THEN wfails + 1 ELSE wfails
        BY <1>2 DEF WriteFails, MaxTries
      <4> QED
        BY <3>1, <4>1, <4>2 DEF MaxTries
    <3>3. Cell!SaveFails
      BY <2>1, <2>2, <2>4, <3>1, <3>2 DEF Cell!SaveFails, Cell!End
    <3> QED
      BY <3>3 DEF Cell!Next
  <2> QED
    BY <2>1, <2>3, <2>4 DEF Writing
<1>3. CASE Load
  <2>1. /\ pc = "read" /\ pc' = "idle" /\ CrcRight /\ g_sys_param' = ee
        /\ UNCHANGED <<ee, ee_crc, readFailed, wfails>>
    BY <1>3 DEF Load
  <2>2. ~readFailed /\ wfails = 0 /\ ee_crc = ee
    BY <2>1 DEF CallInv, CrcRight
  <2>3. Cell!Boot
    BY <2>1, <2>2 DEF Cell!Boot, Cell!End, Cell!Undisturbed, MaxTries, CrcRight
  <2> QED
    BY <2>3 DEF Cell!Next
<1>4. CASE Restore
  <2>1. pc = "read" /\ pc' = "restore" /\ ~CrcRight /\ UNCHANGED <<ee, ee_crc>>
    BY <1>4 DEF Restore
  <2>2. Cell!BeginRestore
    BY <2>1 DEF Cell!BeginRestore, Cell!Undisturbed, CrcRight
  <2> QED
    BY <2>2 DEF Cell!Next
<1>5. CASE LoadFails \/ RereadFails
  <2>1. /\ pc \in {"read", "reread"} /\ pc' = "idle" /\ readFailed'
        /\ UNCHANGED <<ee, ee_crc>>
    BY <1>5 DEF LoadFails, RereadFails
  <2>2. g_sys_param' \in Record
    BY DEF TypeOK
  <2>3. Cell!BootFails
    BY <2>1, <2>2 DEF Cell!BootFails, Cell!End, Cell!Undisturbed, CrcRight
  <2> QED
    BY <2>3 DEF Cell!Next
<1>6. CASE Reread
  <2>1. /\ pc = "reread" /\ pc' = "idle" /\ g_sys_param' = ee
        /\ UNCHANGED <<ee, ee_crc, readFailed, wfails>>
    BY <1>6 DEF Reread
  <2>2. ~readFailed /\ ee \in Record
    BY <2>1 DEF CallInv, TypeOK
  <2>3. CASE wfails < MaxTries
    <3>1. ee = sys_default_para /\ ee_crc = ee
      BY <2>1, <2>3 DEF StoreInv, RestoreInv, CrcRight
    <3>2. wfails # MaxTries
      BY <2>3 DEF TypeOK, MaxTries
    <3>3. Cell!Restored
      BY <2>1, <2>2, <3>1, <3>2 DEF Cell!Restored, Cell!End, Cell!Undisturbed, CrcRight
    <3> QED
      BY <3>3 DEF Cell!Next
  <2>4. CASE wfails = MaxTries
    <3>1. Cell!BootFails
      BY <2>1, <2>2, <2>4 DEF Cell!BootFails, Cell!End, Cell!Undisturbed, CrcRight
    <3> QED
      BY <3>1 DEF Cell!Next
  <2> QED
    BY <2>3, <2>4 DEF TypeOK, MaxTries
<1>7. ASSUME NEW a \in Values, NEW b \in Values, set_un(a, b) \/ set_In(a, b)
      PROVE  Cell!Next
  <2>1. pc = "idle" /\ pc' = "save" /\ UNCHANGED <<ee, ee_crc>>
    BY <1>7 DEF set_un, set_In, SetPair
  <2>2. g_sys_param' \in Record
    BY DEF TypeOK
  <2>3. Cell!Save(g_sys_param')
    BY <2>1 DEF Cell!Save, Cell!Undisturbed, CrcRight
  <2> QED
    BY <2>2, <2>3 DEF Cell!Next
<1>8. CASE PowerLoss
  <2>1. pc' = "read"
    BY <1>8 DEF PowerLoss
  <2>2. CASE Writing
    <3>1. Cell!Disturbed
      BY <1>8, <2>2, TornDisturbs DEF PowerLoss
    <3>2. Cell!PowerLoss
      BY <2>1, <2>2, <3>1 DEF Cell!PowerLoss, Writing
    <3> QED
      BY <3>2 DEF Cell!Next
  <2>3. CASE ~Writing
    <3>1. UNCHANGED <<ee, ee_crc>>
      BY <1>8, <2>3 DEF PowerLoss
    <3>2. Cell!Disturbed /\ Cell!Undisturbed
      BY <3>1 DEF Cell!Disturbed, Cell!Undisturbed, CrcRight
    <3>3. Cell!PowerLoss
      BY <2>1, <3>2 DEF Cell!PowerLoss
    <3> QED
      BY <3>3 DEF Cell!Next
  <2> QED
    BY <2>2, <2>3
<1>9. CASE UNCHANGED vars
  BY <1>9 DEF vars, Cell!cellVars, CrcRight
<1> QED
  BY <1>1, <1>2, <1>3, <1>4, <1>5, <1>6, <1>7, <1>8, <1>9 DEF Next, Proceed

(***************************************************************************)
(* The parameter store implements the cell of ParamCell, for any set of    *)
(* coefficients and any number of power losses and failed transfers        *)
(* (i2c_app.c:83-146, main.c:144-182).                                     *)
(***************************************************************************)
THEOREM CellRefinement == Spec => ImplementsCell
<1>1. Init => Cell!Init
  BY TaskFacts, RecordFacts DEF Init, Cell!Init, CrcRight
<1>2. TypeOK /\ StoreInv /\ CallInv /\ (TypeOK /\ StoreInv /\ CallInv)' /\ [Next]_vars
        => [Cell!Next]_Cell!cellVars
  BY StepIsCell
<1> QED
  BY <1>1, <1>2, StoreAlways, CallAlways, PTL DEF Spec, ImplementsCell, Cell!Spec
=============================================================================
