------------------------------ MODULE LmsProofs ------------------------------
(***************************************************************************)
(* Theorems about the link, LmsLink, and about the panel over it, LmsHmi:  *)
(* for every number of terminals, mailbox size, set of commands and set of *)
(* answers.                                                                *)
(***************************************************************************)
EXTENDS LmsHmi, TLAPS

\* The assumptions on the constants, cited together.
LEMMA Constants ==
    /\ TERMIANL_NUM \in Nat /\ TERMIANL_NUM > 0
    /\ MB_SIZE \in Nat /\ MB_SIZE > 0
    /\ MaxLate \in Nat
    /\ NoCmd \notin Cmds
    /\ NoAnswer \notin Status
    /\ DiagStatus \subseteq Status
    /\ NoByte \notin [from : Terminals, val : Status]
  BY TerminalAssumption, MailboxAssumption, LateAssumption, ValueAssumption,
     NoByteAssumption

-----------------------------------------------------------------------------
(***************************************************************************)
(* The command path.  CmdInv says where the four pieces of a command are   *)
(* (shell argument, cmd_info, cmd_data, line) at every step of             *)
(* build_ctrl_cmd and of the transmit interrupt.  It is what makes         *)
(* FrameIntegrity inductive: TX_LS is only ever set behind the lock, with  *)
(* all three cells filled from the command the lock was taken for.         *)
(***************************************************************************)

\* The shell thread is between taking the lock and handing over the frame.
Filling == {"info", "data0", "data1", "data2", "post"}

\* Who holds the lock, and what the transmit interrupt may do meanwhile.
LockInv ==
    /\ pc = "lock" => ~write_lock
    /\ pc \in Filling => write_lock /\ send_state = "TX_SS"
    /\ write_lock /\ pc \notin Filling => send_state = "TX_LS"
    /\ send_state = "TX_LS" => write_lock

\* What the shell thread has stored so far.
FillInv ==
    /\ pc \in Filling \union {"lock"} => arg \in Cmds
    /\ pc = "mail" => arg \in Terminals
    /\ pc \in Filling \ {"info"} => order = arg
    /\ pc \in {"data1", "data2", "post"} => cmd_data[0] = arg
    /\ pc \in {"data2", "post"} => cmd_data[1] = arg
    /\ pc = "post" => cmd_data[2] = arg

\* What the transmit interrupt works on.
LineInv ==
    /\ send_state = "TX_LS" => order \in Cmds /\ \A k \in 0 .. 2 : cmd_data[k] = order
    /\ send_state = "TX_SS" => cmd_current_send_index = 0
    /\ Len(frame) = cmd_current_send_index
    /\ \A j \in 1 .. Len(frame) : frame[j] = <<order, j - 1>>

CmdInv == LockInv /\ FillInv /\ LineInv

LEMMA InitCmd == Init => TypeOK /\ CmdInv
<1> SUFFICES ASSUME Init PROVE TypeOK /\ CmdInv
  OBVIOUS
<1> USE Constants DEF Init, Terminals, WAIT_CROSS_CNT, CrossCap
<1>1. TypeOK
  BY DEF TypeOK, ShellSteps
<1>2. CmdInv
  BY DEF CmdInv, LockInv, FillInv, LineInv, Filling
<1> QED
  BY <1>1, <1>2

\* rt_mb_send keeps the mailbox a sequence of terminals within its size.
LEMMA MbSendType ==
    ASSUME NEW q \in Seq(Terminals), Len(q) <= MB_SIZE, NEW t \in Terminals
    PROVE  MbSend(q, t) \in Seq(Terminals) /\ Len(MbSend(q, t)) <= MB_SIZE
  BY Constants DEF MbSend

LEMMA CountCrossingType ==
    ASSUME crossings \in 0 .. CrossCap, CountCrossing
    PROVE  crossings' \in 0 .. CrossCap
  BY Constants DEF CountCrossing, CrossCap, WAIT_CROSS_CNT

LEMMA StepType == TypeOK /\ CmdInv /\ [Next]_vars => TypeOK'
<1> SUFFICES ASSUME TypeOK, CmdInv, [Next]_vars PROVE TypeOK'
  OBVIOUS
<1> USE Constants
<1>1. CASE Crossing
  <2>1. CASE CrossInit
    BY <2>1, CountCrossingType DEF TypeOK, CrossInit, DriveBus, cmdVars, shellVars
  <2>2. CASE CrossTx
    BY <2>2, CountCrossingType DEF TypeOK, CrossTx, StartTxDelay, lmsVars, cmdVars, shellVars
  <2>3. CASE CrossWait
    BY <2>3, CountCrossingType
       DEF TypeOK, CrossWait, cmdVars, shellVars, WAIT_CROSS_CNT
  <2>4. CASE CrossRead
    <3>1. Received \in Status \union {NoAnswer}
      BY DEF Received, TypeOK
    <3>2. terminal_index \in Terminals /\ terminal_index' \in 0 .. TERMIANL_NUM
      BY <2>4 DEF CrossRead, TypeOK, Terminals
    <3>3. mb' \in Seq(Terminals) /\ Len(mb') <= MB_SIZE
      BY <2>4, <3>2, MbSendType DEF CrossRead, TypeOK
    <3>4. terminalState' \in [Terminals -> Status \union {NoAnswer}]
      BY <2>4, <3>1, <3>2 DEF CrossRead, TypeOK
    <3> QED
      BY <2>4, <3>2, <3>3, <3>4, CountCrossingType
         DEF TypeOK, CrossRead, TakeByte, cmdVars, shellVars
  <2>5. CASE CrossWrap
    BY <2>5, CountCrossingType
       DEF TypeOK, CrossWrap, RestartScan, cmdVars, shellVars, hwVars
  <2> QED
    BY <1>1, <2>1, <2>2, <2>3, <2>4, <2>5 DEF Crossing
<1>2. CASE TxDelay
  <2>1. CASE SendSync
    <3>1. frame = <<>>
      BY <2>1 DEF SendSync, CmdInv, LineInv, TypeOK
    <3>2. frame' = <<>>
      BY <2>1, <3>1 DEF SendSync
    <3>3. crossings' \in 0 .. CrossCap
      BY <2>1 DEF SendSync, CrossCap, WAIT_CROSS_CNT
    <3>4. txDelay' \in BOOLEAN /\ dir' \in {"SEND", "RECV"} /\ state' = "WAITRCV"
      BY <2>1 DEF SendSync, StopTxDelay, DriveBus
    <3>5. waitToRecvicntLeft' \in 0 .. WAIT_CROSS_CNT - 1
      BY <2>1 DEF SendSync, CrossingsToWait, WAIT_CROSS_CNT
    <3>6. ans' \in [Terminals -> Status \union {NoAnswer}]
      BY <2>1 DEF SendSync
    <3>7. UNCHANGED <<terminal_index, terminalState, polling_complete_flag, mb, cmdVars,
                      rx, shellVars>>
      BY <2>1 DEF SendSync
    <3> QED
      BY <3>2, <3>3, <3>4, <3>5, <3>6, <3>7 DEF TypeOK, cmdVars, shellVars
  <2>2. CASE SendLong
    <3>1. cmd_current_send_index \in 0 .. 2
      BY <2>2 DEF SendLong, TypeOK
    <3>2. <<cmd_data[cmd_current_send_index], cmd_current_send_index>>
             \in (Cmds \union {NoCmd}) \X (0 .. 3)
      BY <3>1 DEF TypeOK
    <3>3. frame' \in Seq((Cmds \union {NoCmd}) \X (0 .. 3))
      BY <2>2, <3>2 DEF SendLong, TypeOK
    <3>4. txDelay' \in BOOLEAN /\ dir' \in {"SEND", "RECV"}
      BY <2>2 DEF SendLong, StopTxDelay, DriveBus
    <3>5. cmd_current_send_index' \in 0 .. 3
      BY <2>2, <3>1 DEF SendLong
    <3>6. UNCHANGED <<lmsVars, send_state, write_lock, order, cmd_data, rx, shellVars,
                      crossings, ans>>
      BY <2>2 DEF SendLong
    <3> QED
      BY <3>3, <3>4, <3>5, <3>6 DEF TypeOK, lmsVars, shellVars
  <2>3. CASE SendDone
    <3>1. frame' \in Seq((Cmds \union {NoCmd}) \X (0 .. 3))
      BY <2>3 DEF SendDone
    <3>2. txDelay' \in BOOLEAN /\ write_lock' \in BOOLEAN
      BY <2>3 DEF SendDone, StopTxDelay, Unlock
    <3>3. send_state' \in {"TX_SS", "TX_LS"} /\ cmd_current_send_index' \in 0 .. 3
      BY <2>3 DEF SendDone, BackToPolling
    <3>4. UNCHANGED <<lmsVars, order, cmd_data, dir, rx, shellVars, crossings, ans>>
      BY <2>3 DEF SendDone
    <3> QED
      BY <3>1, <3>2, <3>3, <3>4 DEF TypeOK, lmsVars, shellVars
  <2> QED
    BY <1>2, <2>1, <2>2, <2>3 DEF TxDelay
<1>3. CASE ShellCall
  <2>1. ASSUME NEW c \in Cmds, BuildCheck(c) PROVE TypeOK'
    BY <2>1 DEF TypeOK, BuildCheck, ShellSteps, lmsVars, cmdVars, hwVars, envVars
  <2>2. ASSUME NEW t \in Terminals, NEW v \in DiagStatus, ChangeStatus(t, v)
        PROVE  TypeOK'
    <3>1. v \in Status
      OBVIOUS
    <3>2. terminalState' \in [Terminals -> Status \union {NoAnswer}]
      BY <2>2, <3>1 DEF ChangeStatus, TypeOK
    <3> QED
      BY <2>2, <3>2 DEF TypeOK, ChangeStatus, ShellSteps, cmdVars, hwVars, envVars
  <2> QED
    BY <1>3, <2>1, <2>2 DEF ShellCall
<1>4. CASE ShellStep
  <2>1. CASE BuildLock
    BY <2>1 DEF TypeOK, BuildLock, LockOnly, ShellSteps, lmsVars, hwVars, envVars
  <2>2. CASE BuildInfo
    BY <2>2 DEF TypeOK, CmdInv, FillInv, Filling, BuildInfo, ShellSteps, lmsVars, hwVars,
       envVars
  <2>3. ASSUME NEW k \in 0 .. 2, BuildData(k) PROVE TypeOK'
    <3>1. k = 0 \/ k = 1 \/ k = 2
      OBVIOUS
    <3>2. pc \in {"data0", "data1", "data2"} /\ pc' \in {"data1", "data2", "post"}
      BY <2>3, <3>1 DEF BuildData
    <3>3. cmd_data' \in [0 .. 2 -> Cmds \union {NoCmd}]
      BY <2>3, <3>2 DEF BuildData, TypeOK, CmdInv, FillInv, Filling
    <3> QED
      BY <2>3, <3>2, <3>3 DEF TypeOK, BuildData, ShellSteps, lmsVars, hwVars, envVars
  <2>4. CASE BuildPost
    BY <2>4 DEF TypeOK, BuildPost, ShellSteps, lmsVars, hwVars, envVars
  <2>5. CASE ChangeMail
    <3>1. arg \in Terminals
      BY <2>5 DEF ChangeMail, CmdInv, FillInv
    <3>2. mb' \in Seq(Terminals) /\ Len(mb') <= MB_SIZE
      BY <2>5, <3>1, MbSendType DEF ChangeMail, TypeOK
    <3> QED
      BY <2>5, <3>2 DEF TypeOK, ChangeMail, ShellSteps, cmdVars, hwVars, envVars
  <2> QED
    BY <1>4, <2>1, <2>2, <2>3, <2>4, <2>5 DEF ShellStep
<1>5. ASSUME NEW t \in Terminals, NEW v \in Status, Answer(t, v) PROVE TypeOK'
  BY <1>5 DEF TypeOK, Answer, lmsVars, cmdVars, shellVars
<1>6. CASE MbRecv
  BY <1>6 DEF TypeOK, MbRecv, cmdVars, hwVars, shellVars, envVars
<1>7. CASE UNCHANGED vars
  BY <1>7 DEF TypeOK, vars, lmsVars, cmdVars, hwVars, shellVars, envVars
<1> QED
  BY <1>1, <1>2, <1>3, <1>4, <1>5, <1>6, <1>7 DEF Next, LinkNext

LEMMA StepCmd == TypeOK /\ CmdInv /\ [Next]_vars => CmdInv'
<1> SUFFICES ASSUME TypeOK, CmdInv, [Next]_vars PROVE CmdInv'
  OBVIOUS
<1>1. ASSUME UNCHANGED <<cmdVars, shellVars, frame>> PROVE CmdInv'
  BY <1>1 DEF CmdInv, LockInv, FillInv, LineInv, cmdVars, shellVars
<1>2. CASE Crossing
  BY <1>1, <1>2 DEF Crossing, CrossInit, CrossTx, CrossWait, CrossRead, CrossWrap
<1>3. CASE SendSync
  <2>1. frame' = frame
    BY <1>3 DEF SendSync, CmdInv, LineInv, TypeOK
  <2> QED
    BY <1>1, <1>3, <2>1 DEF SendSync
<1>4. CASE SendLong
  <2>1. cmd_current_send_index \in 0 .. 2 /\ send_state = "TX_LS"
    BY <1>4 DEF SendLong, TypeOK
  <2>2. UNCHANGED <<send_state, write_lock, order, cmd_data, shellVars>>
    BY <1>4 DEF SendLong
  <2>3. /\ frame' = Append(frame, <<order, cmd_current_send_index>>)
        /\ cmd_current_send_index' = cmd_current_send_index + 1
    BY <1>4, <2>1 DEF SendLong, CmdInv, LineInv
  <2>4. frame \in Seq((Cmds \union {NoCmd}) \X (0 .. 3)) /\ Len(frame) = cmd_current_send_index
    BY DEF TypeOK, CmdInv, LineInv
  <2>5. Len(frame') = cmd_current_send_index'
    BY <2>3, <2>4
  <2>6. ASSUME NEW j \in 1 .. Len(frame') PROVE frame'[j] = <<order', j - 1>>
    <3>1. CASE j \in 1 .. Len(frame)
      <4>1. frame'[j] = frame[j]
        BY <2>3, <2>4, <3>1
      <4> QED
        BY <2>2, <3>1, <4>1 DEF CmdInv, LineInv
    <3>2. CASE j = Len(frame) + 1
      BY <2>1, <2>2, <2>3, <2>4, <3>2
    <3> QED
      BY <2>3, <2>4, <3>1, <3>2
  <2>7. LineInv'
    BY <2>1, <2>2, <2>5, <2>6 DEF CmdInv, LineInv
  <2> QED
    BY <2>2, <2>7 DEF CmdInv, LockInv, FillInv, shellVars
<1>5. CASE SendDone
  <2>1. /\ frame' = <<>> /\ cmd_current_send_index' = 0
        /\ send_state' = "TX_SS" /\ write_lock' = FALSE
        /\ UNCHANGED <<order, cmd_data, pc, arg>>
    BY <1>5 DEF SendDone, Unlock, BackToPolling, shellVars
  <2>2. pc \notin Filling
    BY <1>5 DEF SendDone, CmdInv, LockInv
  <2> QED
    BY <2>1, <2>2 DEF CmdInv, LockInv, FillInv, LineInv
<1>6. ASSUME NEW c \in Cmds, BuildCheck(c) PROVE CmdInv'
  <2>1. /\ pc = "idle" /\ pc' = "lock" /\ arg' = c /\ ~write_lock
        /\ UNCHANGED <<send_state, write_lock, order, cmd_data, cmd_current_send_index, frame>>
    BY <1>6 DEF BuildCheck, LineFree, cmdVars, envVars
  <2> QED
    BY <2>1 DEF CmdInv, LockInv, FillInv, LineInv, Filling
<1>7. ASSUME NEW t \in Terminals, NEW v \in DiagStatus, ChangeStatus(t, v)
      PROVE  CmdInv'
  <2>1. /\ pc = "idle" /\ pc' = "mail" /\ arg' = t
        /\ UNCHANGED <<send_state, write_lock, order, cmd_data, cmd_current_send_index, frame>>
    BY <1>7 DEF ChangeStatus, cmdVars, envVars
  <2> QED
    BY <2>1 DEF CmdInv, LockInv, FillInv, LineInv, Filling
<1>8. CASE BuildLock
  <2>1. /\ pc = "lock" /\ pc' = "info" /\ write_lock' = TRUE /\ ~write_lock
        /\ UNCHANGED <<send_state, order, cmd_data, cmd_current_send_index, arg, frame>>
    BY <1>8 DEF BuildLock, LockOnly, envVars, CmdInv, LockInv
  <2> QED
    BY <2>1 DEF TypeOK, CmdInv, LockInv, FillInv, LineInv, Filling
<1>9. CASE BuildInfo
  <2>1. /\ pc = "info" /\ pc' = "data0" /\ order' = arg
        /\ UNCHANGED <<send_state, write_lock, cmd_data, cmd_current_send_index, arg, frame>>
    BY <1>9 DEF BuildInfo, envVars
  <2>2. send_state = "TX_SS" /\ Len(frame) = 0
    BY <2>1 DEF CmdInv, LockInv, LineInv, Filling
  <2> QED
    BY <2>1, <2>2 DEF CmdInv, LockInv, FillInv, LineInv, Filling
<1>10. ASSUME NEW k \in 0 .. 2, BuildData(k) PROVE CmdInv'
  <2>1. /\ cmd_data' = [cmd_data EXCEPT ![k] = arg]
        /\ UNCHANGED <<send_state, write_lock, order, cmd_current_send_index, arg, frame>>
    BY <1>10 DEF BuildData, envVars
  <2>2. \/ k = 0 /\ pc = "data0" /\ pc' = "data1"
        \/ k = 1 /\ pc = "data1" /\ pc' = "data2"
        \/ k = 2 /\ pc = "data2" /\ pc' = "post"
    BY <1>10 DEF BuildData
  <2>3. send_state = "TX_SS" /\ write_lock
    BY <2>2 DEF CmdInv, LockInv, Filling
  <2>4. LockInv' /\ LineInv'
    BY <2>1, <2>2, <2>3 DEF CmdInv, LockInv, LineInv, Filling
  <2>5. FillInv'
    BY <2>1, <2>2 DEF TypeOK, CmdInv, FillInv, Filling
  <2> QED
    BY <2>4, <2>5 DEF CmdInv
<1>11. CASE BuildPost
  <2>1. /\ pc = "post" /\ pc' = "idle" /\ send_state' = "TX_LS"
        /\ UNCHANGED <<write_lock, order, cmd_data, cmd_current_send_index, frame>>
    BY <1>11 DEF BuildPost, envVars
  <2>2. order = arg /\ order \in Cmds /\ \A k \in 0 .. 2 : cmd_data[k] = order
    <3>1. order = arg /\ arg \in Cmds /\ cmd_data[0] = arg /\ cmd_data[1] = arg /\ cmd_data[2] = arg
      BY <2>1 DEF CmdInv, FillInv, Filling
    <3> QED
      BY <3>1
  <2>3. LockInv' /\ FillInv'
    BY <2>1 DEF CmdInv, LockInv, FillInv, Filling
  <2>4. LineInv'
    BY <2>1, <2>2 DEF CmdInv, LineInv
  <2> QED
    BY <2>3, <2>4 DEF CmdInv
<1>12. CASE ChangeMail
  <2>1. /\ pc = "mail" /\ pc' = "idle"
        /\ UNCHANGED <<send_state, write_lock, order, cmd_data, cmd_current_send_index, frame>>
    BY <1>12 DEF ChangeMail, cmdVars, envVars
  <2> QED
    BY <2>1 DEF CmdInv, LockInv, FillInv, LineInv, Filling
<1>13. ASSUME NEW t \in Terminals, NEW v \in Status, Answer(t, v) PROVE CmdInv'
  BY <1>1, <1>13 DEF Answer
<1>14. CASE MbRecv
  BY <1>1, <1>14 DEF MbRecv, envVars
<1>15. CASE UNCHANGED vars
  BY <1>1, <1>15 DEF vars, envVars
<1> QED
  BY <1>2, <1>3, <1>4, <1>5, <1>6, <1>7, <1>8, <1>9, <1>10, <1>11, <1>12, <1>13, <1>14,
     <1>15 DEF Next, LinkNext, TxDelay, ShellCall, ShellStep

LEMMA CmdAlways == Spec => [](TypeOK /\ CmdInv)
<1>1. TypeOK /\ CmdInv /\ [Next]_vars => TypeOK' /\ CmdInv'
  BY StepType, StepCmd
<1> QED
  BY InitCmd, <1>1, PTL DEF Spec

(***************************************************************************)
(* Type correctness of the link for any number of terminals: in particular *)
(* the table index stays within the table and the mailbox within its pool. *)
(***************************************************************************)
THEOREM TypeCorrect == Spec => []TypeOK
  BY CmdAlways, PTL

\* While a frame is on the line, the accepted command is the one in cmd_info.
LEMMA AcceptedOnLine ==
    ASSUME TypeOK, CmdInv
    PROVE  /\ send_state = "TX_LS" => Accepted = order /\ order \in Cmds
           /\ Len(frame) # 0 => send_state = "TX_LS"
<1>1. send_state = "TX_LS" => write_lock /\ pc # "info"
  BY DEF CmdInv, LockInv, Filling
<1>2. Len(frame) # 0 => send_state = "TX_LS"
  BY DEF CmdInv, LineInv, TypeOK
<1> QED
  BY <1>1, <1>2 DEF Accepted, CmdInv, LineInv

(***************************************************************************)
(* No torn frame: wherever the shell thread is preempted, the bytes on the *)
(* line are a prefix of one accepted command's frame.                      *)
(***************************************************************************)
THEOREM FramesIntact == Spec => []FrameIntegrity
<1>1. TypeOK /\ CmdInv => FrameIntegrity
  <2> SUFFICES ASSUME TypeOK, CmdInv PROVE FrameIntegrity
    OBVIOUS
  <2>1. Len(frame) <= 3
    BY DEF CmdInv, LineInv, TypeOK
  <2>2. ASSUME NEW j \in 1 .. Len(frame) PROVE frame[j] = <<Accepted, j - 1>>
    <3>1. Len(frame) # 0
      BY DEF TypeOK
    <3> QED
      BY <3>1, AcceptedOnLine DEF CmdInv, LineInv
  <2> QED
    BY <2>1, <2>2 DEF FrameIntegrity, Cmd!FrameIntegrity, Cmd!FrameLen, Cmd!Byte
<1> QED
  BY <1>1, CmdAlways, PTL

-----------------------------------------------------------------------------
(***************************************************************************)
(* The link implements the one-slot command channel.  Only four steps are  *)
(* visible there: taking the lock accepts the shell's argument, the two    *)
(* TX_LS branches send a byte and release the slot, everything else        *)
(* stutters.                                                               *)
(***************************************************************************)
LEMMA StepImplements ==
    TypeOK /\ CmdInv /\ [Next]_vars => [Cmd!Next]_(Cmd!vars)
<1> SUFFICES ASSUME TypeOK, CmdInv, [Next]_vars PROVE [Cmd!Next]_(Cmd!vars)
  OBVIOUS
<1>1. ASSUME UNCHANGED <<write_lock, order, pc, arg, frame>>
      PROVE  UNCHANGED Cmd!vars
  BY <1>1 DEF Cmd!vars, Accepted
<1>2. CASE Crossing
  BY <1>1, <1>2 DEF Crossing, CrossInit, CrossTx, CrossWait, CrossRead, CrossWrap, cmdVars,
     shellVars
<1>3. CASE SendSync
  <2>1. frame' = frame
    BY <1>3 DEF SendSync, CmdInv, LineInv, TypeOK
  <2> QED
    BY <1>1, <1>3, <2>1 DEF SendSync, cmdVars, shellVars
<1>4. CASE SendLong
  <2>1. cmd_current_send_index \in 0 .. 2 /\ send_state = "TX_LS"
    BY <1>4 DEF SendLong, TypeOK
  <2>2. Accepted = order /\ Accepted' = Accepted /\ order \in Cmds
    BY <1>4, <2>1, AcceptedOnLine DEF SendLong, Accepted, shellVars
  <2>3. frame' = Append(frame, <<Accepted, Len(frame)>>) /\ Len(frame) < 3
    BY <1>4, <2>1, <2>2 DEF SendLong, CmdInv, LineInv
  <2>4. Cmd!SendByte
    BY <2>2, <2>3, Constants DEF Cmd!SendByte, Cmd!FrameLen, Cmd!Byte
  <2> QED
    BY <2>4 DEF Cmd!Next
<1>5. CASE SendDone
  <2>1. Len(frame) = 3 /\ frame' = <<>> /\ write_lock' = FALSE
    BY <1>5 DEF SendDone, Unlock, CmdInv, LineInv, TypeOK
  <2>2. Cmd!Release
    BY <2>1 DEF Cmd!Release, Cmd!FrameLen, Accepted
  <2> QED
    BY <2>2 DEF Cmd!Next
<1>6. ASSUME NEW c \in Cmds, BuildCheck(c) PROVE UNCHANGED Cmd!vars
  <2>1. ~write_lock /\ UNCHANGED <<write_lock, frame>>
    BY <1>6 DEF BuildCheck, LineFree, cmdVars, envVars
  <2> QED
    BY <2>1 DEF Cmd!vars, Accepted
<1>7. ASSUME NEW t \in Terminals, NEW v \in DiagStatus, ChangeStatus(t, v)
      PROVE  UNCHANGED Cmd!vars
  <2>1. pc = "idle" /\ pc' = "mail" /\ UNCHANGED <<write_lock, order, frame>>
    BY <1>7 DEF ChangeStatus, cmdVars, envVars
  <2> QED
    BY <2>1 DEF Cmd!vars, Accepted
<1>8. CASE BuildLock
  <2>1. /\ pc = "lock" /\ pc' = "info" /\ write_lock' = TRUE /\ ~write_lock
        /\ UNCHANGED <<arg, frame>> /\ arg \in Cmds
    BY <1>8 DEF BuildLock, LockOnly, envVars, CmdInv, LockInv, FillInv
  <2>2. Cmd!Accept(arg)
    BY <2>1 DEF Cmd!Accept, Accepted
  <2> QED
    BY <2>1, <2>2 DEF Cmd!Next
<1>9. CASE BuildInfo
  <2>1. /\ pc = "info" /\ pc' = "data0" /\ order' = arg
        /\ UNCHANGED <<write_lock, frame>>
    BY <1>9 DEF BuildInfo, envVars
  <2> QED
    BY <2>1 DEF Cmd!vars, Accepted
<1>10. ASSUME NEW k \in 0 .. 2, BuildData(k) PROVE UNCHANGED Cmd!vars
  <2>1. pc # "info" /\ pc' # "info" /\ UNCHANGED <<write_lock, order, frame>>
    BY <1>10 DEF BuildData, envVars
  <2> QED
    BY <2>1 DEF Cmd!vars, Accepted
<1>11. CASE BuildPost \/ ChangeMail
  <2>1. pc # "info" /\ pc' # "info" /\ UNCHANGED <<write_lock, order, frame>>
    BY <1>11 DEF BuildPost, ChangeMail, cmdVars, envVars
  <2> QED
    BY <2>1 DEF Cmd!vars, Accepted
<1>12. ASSUME NEW t \in Terminals, NEW v \in Status, Answer(t, v)
       PROVE  UNCHANGED Cmd!vars
  BY <1>1, <1>12 DEF Answer, cmdVars, shellVars
<1>13. CASE MbRecv
  BY <1>1, <1>13 DEF MbRecv, cmdVars, shellVars, envVars
<1>14. CASE UNCHANGED vars
  BY <1>1, <1>14 DEF vars, cmdVars, shellVars, envVars
<1> QED
  BY <1>2, <1>3, <1>4, <1>5, <1>6, <1>7, <1>8, <1>9, <1>10, <1>11, <1>12, <1>13, <1>14
     DEF Next, LinkNext, TxDelay, ShellCall, ShellStep

(***************************************************************************)
(* lmsuart.c implements the one-slot command channel of LmsCommand.        *)
(***************************************************************************)
THEOREM CommandRefinement == Spec => ImplementsCommand
<1>1. Init => Cmd!Init
  BY DEF Init, Cmd!Init, Accepted
<1> QED
  BY <1>1, StepImplements, CmdAlways, PTL DEF Spec, ImplementsCommand, Cmd!Spec

-----------------------------------------------------------------------------
(***************************************************************************)
(* The bus is never driven while answers are collected.                    *)
(***************************************************************************)
THEOREM BusSafe == Spec => []BusDiscipline
<1>1. Init => BusDiscipline
  BY DEF Init, BusDiscipline
<1>2. TypeOK /\ BusDiscipline /\ [Next]_vars => BusDiscipline'
  <2> SUFFICES ASSUME TypeOK, BusDiscipline, [Next]_vars PROVE BusDiscipline'
    OBVIOUS
  <2>1. ASSUME UNCHANGED <<state, txDelay, dir>> PROVE BusDiscipline'
    BY <2>1 DEF BusDiscipline
  <2>2. CASE CrossInit
    BY <2>2 DEF CrossInit, BusDiscipline
  <2>3. CASE CrossTx
    BY <2>3 DEF CrossTx, BusDiscipline, lmsVars
  <2>4. CASE CrossWait
    BY <2>4 DEF CrossWait, BusDiscipline
  <2>5. CASE CrossRead
    BY <2>1, <2>5 DEF CrossRead
  <2>6. CASE CrossWrap
    BY <2>6 DEF CrossWrap, BusDiscipline, hwVars
  <2>7. CASE SendSync
    BY <2>7 DEF SendSync, StopTxDelay, DriveBus, BusDiscipline
  <2>8. CASE SendLong \/ SendDone
    <3>1. state = "TX" /\ state' = "TX"
      BY <2>8 DEF SendLong, SendDone, BusDiscipline, lmsVars
    <3> QED
      BY <3>1 DEF BusDiscipline
  <2>9. CASE ShellCall
    BY <2>1, <2>9 DEF ShellCall, BuildCheck, ChangeStatus, lmsVars, hwVars
  <2>10. CASE ShellStep
    BY <2>1, <2>10 DEF ShellStep, BuildLock, BuildInfo, BuildData, BuildPost, ChangeMail,
       lmsVars, hwVars
  <2>11. ASSUME NEW t \in Terminals, NEW v \in Status, Answer(t, v)
         PROVE  BusDiscipline'
    BY <2>1, <2>11 DEF Answer, lmsVars
  <2>12. CASE MbRecv
    BY <2>1, <2>12 DEF MbRecv, hwVars
  <2>13. CASE UNCHANGED vars
    BY <2>1, <2>13 DEF vars, lmsVars, hwVars
  <2> QED
    BY <2>2, <2>3, <2>4, <2>5, <2>6, <2>7, <2>8, <2>9, <2>10, <2>11, <2>12, <2>13
       DEF Next, LinkNext, Crossing, TxDelay
<1> QED
  BY <1>1, <1>2, TypeCorrect, PTL DEF Spec

-----------------------------------------------------------------------------
(***************************************************************************)
(* The poll, when terminals keep their slots (MaxLate = 0) and nobody      *)
(* edits the table by hand (DiagStatus = {}).  SlotInv ties the terminals' *)
(* count of crossings to the state machine's own counters: the slot of the *)
(* terminal that answers is always the slot of the terminal to be read     *)
(* next, so the receive register never holds anybody else's byte.          *)
(***************************************************************************)
\* The register when terminal t is to be read next.
OwnByte(t) == IF ans[t] = NoAnswer THEN NoByte ELSE [from |-> t, val |-> ans[t]]

WaitInv ==
    state = "WAITRCV" =>
        /\ crossings + waitToRecvicntLeft = 1
        /\ terminal_index = 0
        /\ rx = NoByte
        /\ \A t \in Terminals : ans[t] = NoAnswer

ReceiveInv ==
    state = "RECVING" =>
        /\ crossings = 2 + terminal_index
        /\ \A t \in Terminals : t < terminal_index => terminalState[t] = ans[t]
        /\ \A t \in Terminals : t > terminal_index => ans[t] = NoAnswer
        /\ IF terminal_index < TERMIANL_NUM THEN rx = OwnByte(terminal_index) ELSE rx = NoByte

TransmitInv ==
    state \in {"INIT", "TX"} =>
        /\ crossings >= TERMIANL_NUM + 2
        /\ terminal_index = 0
        /\ rx = NoByte
        /\ state = "INIT" => ~polling_complete_flag
        /\ state = "TX" /\ polling_complete_flag => \A t \in Terminals : terminalState[t] = ans[t]

SlotInv == WaitInv /\ ReceiveInv /\ TransmitInv

LEMMA SlotUnchanged ==
    ASSUME SlotInv,
           UNCHANGED <<state, waitToRecvicntLeft, terminal_index, terminalState,
                       polling_complete_flag, rx, crossings, ans>>
    PROVE  SlotInv'
  BY DEF SlotInv, WaitInv, ReceiveInv, TransmitInv, OwnByte

LEMMA StepSlot ==
    ASSUME MaxLate = 0, DiagStatus = {}, TypeOK, BusDiscipline, SlotInv, [Next]_vars
    PROVE  SlotInv'
<1> USE Constants
<1>0. /\ CrossCap = TERMIANL_NUM + 3
      /\ crossings \in Nat /\ terminal_index \in Nat
      /\ CountCrossing => \/ crossings' = crossings + 1
                          \/ crossings' = crossings /\ crossings >= TERMIANL_NUM + 3
  BY DEF CrossCap, WAIT_CROSS_CNT, TypeOK, CountCrossing
<1>1. CASE CrossInit
  <2>1. /\ state = "INIT" /\ state' = "TX" /\ CountCrossing
        /\ UNCHANGED <<terminal_index, terminalState, rx, ans, polling_complete_flag>>
    BY <1>1 DEF CrossInit
  <2> QED
    BY <1>0, <2>1 DEF SlotInv, WaitInv, ReceiveInv, TransmitInv
<1>2. CASE CrossTx
  <2>1. /\ state = "TX" /\ CountCrossing
        /\ UNCHANGED <<state, terminal_index, terminalState, rx, ans, polling_complete_flag>>
    BY <1>2 DEF CrossTx, lmsVars
  <2> QED
    BY <1>0, <2>1 DEF SlotInv, WaitInv, ReceiveInv, TransmitInv
<1>3. CASE CrossWait
  <2>1. /\ state = "WAITRCV" /\ CountCrossing
        /\ UNCHANGED <<terminal_index, terminalState, rx, ans, polling_complete_flag>>
    BY <1>3 DEF CrossWait
  <2>2. /\ waitToRecvicntLeft \in Nat
        /\ crossings + waitToRecvicntLeft = 1 /\ terminal_index = 0 /\ rx = NoByte
        /\ \A t \in Terminals : ans[t] = NoAnswer
    BY <2>1 DEF SlotInv, WaitInv, TypeOK, WAIT_CROSS_CNT
  <2>3. crossings' = crossings + 1
    BY <1>0, <2>1, <2>2
  <2>4. CASE state' = "WAITRCV" /\ waitToRecvicntLeft > 0
              /\ waitToRecvicntLeft' = waitToRecvicntLeft - 1
    BY <1>0, <2>1, <2>2, <2>3, <2>4 DEF SlotInv, WaitInv, ReceiveInv, TransmitInv
  <2>5. CASE state' = "RECVING" /\ waitToRecvicntLeft = 0
    <3>1. crossings' = 2 + terminal_index'
      BY <1>0, <2>1, <2>2, <2>3, <2>5
    <3>2. \A t \in Terminals : ~(t < terminal_index') /\ ans'[t] = NoAnswer
      BY <2>1, <2>2 DEF Terminals
    <3>3. 0 \in Terminals /\ terminal_index' = 0 /\ rx' = OwnByte(0)'
      BY <2>1, <2>2 DEF OwnByte, Terminals
    <3> QED
      BY <2>5, <3>1, <3>2, <3>3 DEF SlotInv, WaitInv, ReceiveInv, TransmitInv
  <2> QED
    BY <1>3, <2>1, <2>4, <2>5 DEF CrossWait
<1>4. CASE CrossRead
  <2>1. /\ state = "RECVING" /\ state' = "RECVING" /\ CountCrossing
        /\ terminal_index < TERMIANL_NUM /\ terminal_index' = terminal_index + 1
        /\ rx' = NoByte /\ ans' = ans
        /\ terminalState' = [terminalState EXCEPT ![terminal_index] = Received]
    BY <1>4 DEF CrossRead, TakeByte
  <2>2. terminal_index \in Terminals
    BY <1>0, <2>1 DEF Terminals
  <2>3. crossings = 2 + terminal_index /\ rx = OwnByte(terminal_index)
    BY <2>1 DEF SlotInv, ReceiveInv
  <2>4. Received = ans[terminal_index]
    <3>1. ans[terminal_index] = NoAnswer => Received = NoAnswer
      BY <2>3 DEF OwnByte, Received
    <3>2. ASSUME ans[terminal_index] # NoAnswer PROVE Received = ans[terminal_index]
      <4>1. rx = [from |-> terminal_index, val |-> ans[terminal_index]]
        BY <2>3, <3>2 DEF OwnByte
      <4>2. rx \in [from : Terminals, val : Status]
        BY <2>2, <3>2, <4>1 DEF TypeOK
      <4> QED
        BY <4>1, <4>2 DEF Received
    <3> QED
      BY <3>1, <3>2
  <2>5. crossings' = 2 + terminal_index'
    BY <1>0, <2>1, <2>3
  <2>6. ASSUME NEW t \in Terminals, t < terminal_index' PROVE terminalState'[t] = ans'[t]
    <3>1. CASE t = terminal_index
      BY <2>1, <2>2, <2>4, <3>1 DEF TypeOK
    <3>2. CASE t < terminal_index
      <4>1. terminalState'[t] = terminalState[t]
        BY <1>0, <2>1, <3>2 DEF TypeOK, Terminals
      <4> QED
        BY <2>1, <3>2, <4>1 DEF SlotInv, ReceiveInv
    <3> QED
      BY <1>0, <2>1, <2>6, <3>1, <3>2 DEF Terminals
  <2>7. ASSUME NEW t \in Terminals, t > terminal_index' PROVE ans'[t] = NoAnswer
    <3>1. t > terminal_index
      BY <1>0, <2>1, <2>7 DEF Terminals
    <3> QED
      BY <2>1, <3>1 DEF SlotInv, ReceiveInv
  <2>8. terminal_index' < TERMIANL_NUM => rx' = OwnByte(terminal_index)'
    <3> SUFFICES ASSUME terminal_index' < TERMIANL_NUM
                 PROVE  rx' = OwnByte(terminal_index)'
      OBVIOUS
    <3>1. terminal_index' \in Terminals /\ terminal_index' > terminal_index
      BY <1>0, <2>1 DEF Terminals
    <3>2. ans[terminal_index'] = NoAnswer
      BY <2>1, <3>1 DEF SlotInv, ReceiveInv
    <3> QED
      BY <2>1, <3>2 DEF OwnByte
  <2> QED
    BY <2>1, <2>5, <2>6, <2>7, <2>8 DEF SlotInv, WaitInv, ReceiveInv, TransmitInv
<1>5. CASE CrossWrap
  <2>1. /\ state = "RECVING" /\ state' = "TX" /\ CountCrossing
        /\ terminal_index >= TERMIANL_NUM /\ terminal_index' = 0
        /\ UNCHANGED <<terminalState, rx, ans>>
    BY <1>5 DEF CrossWrap, RestartScan, hwVars
  <2>2. terminal_index = TERMIANL_NUM /\ crossings = 2 + TERMIANL_NUM /\ rx = NoByte
    BY <2>1 DEF TypeOK, SlotInv, ReceiveInv
  <2>3. \A t \in Terminals : t < terminal_index
    BY <2>2 DEF Terminals
  <2>4. \A t \in Terminals : terminalState'[t] = ans'[t]
    BY <2>1, <2>3 DEF SlotInv, ReceiveInv
  <2> QED
    BY <1>0, <2>1, <2>2, <2>4 DEF SlotInv, WaitInv, ReceiveInv, TransmitInv
<1>6. CASE SendSync
  <2>1. state = "TX"
    BY <1>6 DEF SendSync, BusDiscipline
  <2>2. /\ state' = "WAITRCV" /\ waitToRecvicntLeft' = 1 /\ crossings' = 0
        /\ ans' = [t \in Terminals |-> NoAnswer] /\ UNCHANGED <<terminal_index, rx>>
    BY <1>6 DEF SendSync, CrossingsToWait, WAIT_CROSS_CNT
  <2> QED
    BY <2>1, <2>2 DEF SlotInv, WaitInv, ReceiveInv, TransmitInv
<1>7. CASE SendLong \/ SendDone
  BY <1>7, SlotUnchanged DEF SendLong, SendDone, lmsVars
<1>8. CASE ShellCall
  BY <1>8, SlotUnchanged DEF ShellCall, BuildCheck, lmsVars, hwVars, envVars
<1>9. CASE ShellStep
  BY <1>9, SlotUnchanged DEF ShellStep, BuildLock, BuildInfo, BuildData, BuildPost,
     ChangeMail, lmsVars, hwVars, envVars
<1>10. ASSUME NEW t \in Terminals, NEW v \in Status, Answer(t, v) PROVE SlotInv'
  <2>1. /\ ans[t] = NoAnswer /\ crossings = 2 + t
        /\ ans' = [ans EXCEPT ![t] = v]
        /\ rx' = IF dir = "RECV" /\ rx = NoByte THEN [from |-> t, val |-> v] ELSE rx
        /\ UNCHANGED <<state, waitToRecvicntLeft, terminal_index, terminalState,
                       polling_complete_flag, crossings, dir>>
    BY <1>10 DEF Answer, SlotOf, WAIT_CROSS_CNT, Terminals, lmsVars
  <2>2. t \in Nat /\ t < TERMIANL_NUM
    BY DEF Terminals
  <2>3. state = "RECVING" /\ terminal_index = t
    BY <2>1, <2>2, <1>0 DEF TypeOK, SlotInv, WaitInv, ReceiveInv, TransmitInv, WAIT_CROSS_CNT
  <2>4. rx = NoByte /\ dir = "RECV"
    BY <2>1, <2>2, <2>3 DEF SlotInv, ReceiveInv, OwnByte, BusDiscipline
  <2>5. ans'[t] = v /\ v # NoAnswer /\ rx' = [from |-> t, val |-> v]
    BY <2>1, <2>4 DEF TypeOK
  <2>6. \A u \in Terminals : u # t => ans'[u] = ans[u]
    BY <2>1 DEF TypeOK
  <2>7. rx' = OwnByte(terminal_index)'
    BY <2>1, <2>3, <2>5 DEF OwnByte
  <2>8. \A u \in Terminals : u < terminal_index => terminalState'[u] = ans'[u]
    BY <2>1, <2>2, <2>3, <2>6 DEF SlotInv, ReceiveInv, Terminals
  <2>9. \A u \in Terminals : u > terminal_index => ans'[u] = NoAnswer
    BY <2>1, <2>2, <2>3, <2>6 DEF SlotInv, ReceiveInv, Terminals
  <2> QED
    BY <2>1, <2>2, <2>3, <2>7, <2>8, <2>9
       DEF SlotInv, WaitInv, ReceiveInv, TransmitInv
<1>11. CASE MbRecv
  BY <1>11, SlotUnchanged DEF MbRecv, hwVars, envVars
<1>12. CASE UNCHANGED vars
  BY <1>12, SlotUnchanged DEF vars, lmsVars, hwVars, envVars
<1> QED
  BY <1>1, <1>2, <1>3, <1>4, <1>5, <1>6, <1>7, <1>8, <1>9, <1>10, <1>11, <1>12
     DEF Next, LinkNext, Crossing, TxDelay

(***************************************************************************)
(* The table is exact: with terminals that keep their slots, after every   *)
(* read the entry is the answer the terminal itself gave to this poll.     *)
(***************************************************************************)
THEOREM TableExact ==
    ASSUME MaxLate = 0, DiagStatus = {}
    PROVE  Spec => []PollExact
<1>1. Init => SlotInv
  BY Constants DEF Init, SlotInv, WaitInv, ReceiveInv, TransmitInv, CrossCap, WAIT_CROSS_CNT
<1>2. TypeOK /\ BusDiscipline /\ SlotInv /\ [Next]_vars => SlotInv'
  BY StepSlot
<1>3. SlotInv => PollExact
  BY DEF SlotInv, ReceiveInv, TransmitInv, PollExact
<1> QED
  BY <1>1, <1>2, <1>3, TypeCorrect, BusSafe, PTL DEF Spec

-----------------------------------------------------------------------------
(***************************************************************************)
(* Answers that are up to one slot late.  The count of crossings still     *)
(* follows the state machine's counters, and a byte that outlives its poll *)
(* can only be the last terminal's, which is read away at the first slot   *)
(* of the next one.                                                        *)
(***************************************************************************)
LateInv ==
    /\ state = "WAITRCV" => crossings + waitToRecvicntLeft = 1
    /\ state = "RECVING" => crossings = 2 + terminal_index
    /\ state \in {"INIT", "TX"} => crossings >= TERMIANL_NUM + 2
    /\ state # "RECVING" => terminal_index = 0 /\ (rx # NoByte => rx.from = TERMIANL_NUM - 1)
    /\ LateByOne

LEMMA LateUnchanged ==
    ASSUME LateInv,
           UNCHANGED <<state, waitToRecvicntLeft, terminal_index, rx, crossings>>
    PROVE  LateInv'
  BY DEF LateInv, LateByOne

LEMMA LateStep ==
    ASSUME MaxLate <= 1, TypeOK, BusDiscipline, LateInv, [Next]_vars
    PROVE  LateInv'
<1> USE Constants
<1>0. /\ CrossCap >= TERMIANL_NUM + 3
      /\ crossings \in Nat /\ terminal_index \in Nat /\ waitToRecvicntLeft \in Nat
      /\ rx # NoByte => rx.from \in Nat /\ rx.from < TERMIANL_NUM
      /\ CountCrossing => \/ crossings' = crossings + 1
                          \/ crossings' = crossings /\ crossings >= TERMIANL_NUM + 3
  BY DEF CrossCap, WAIT_CROSS_CNT, TypeOK, CountCrossing, Terminals
<1>1. CASE CrossInit
  <2>1. /\ state = "INIT" /\ state' = "TX" /\ CountCrossing
        /\ UNCHANGED <<terminal_index, rx>>
    BY <1>1 DEF CrossInit
  <2> QED
    BY <1>0, <2>1 DEF LateInv, LateByOne
<1>2. CASE CrossTx
  <2>1. /\ state = "TX" /\ CountCrossing /\ UNCHANGED <<state, terminal_index, rx>>
    BY <1>2 DEF CrossTx, lmsVars
  <2> QED
    BY <1>0, <2>1 DEF LateInv, LateByOne
<1>3. CASE CrossWait
  <2>1. state = "WAITRCV" /\ CountCrossing /\ UNCHANGED <<terminal_index, rx>>
    BY <1>3 DEF CrossWait
  <2>2. crossings' = crossings + 1 /\ crossings + waitToRecvicntLeft = 1
    BY <1>0, <2>1 DEF LateInv
  <2>3. CASE state' = "WAITRCV" /\ waitToRecvicntLeft > 0
              /\ waitToRecvicntLeft' = waitToRecvicntLeft - 1
    BY <1>0, <2>1, <2>2, <2>3 DEF LateInv, LateByOne
  <2>4. CASE state' = "RECVING" /\ waitToRecvicntLeft = 0
    BY <1>0, <2>1, <2>2, <2>4 DEF LateInv, LateByOne
  <2> QED
    BY <1>3, <2>1, <2>3, <2>4 DEF CrossWait
<1>4. CASE CrossRead
  <2>1. /\ state = "RECVING" /\ state' = "RECVING" /\ CountCrossing
        /\ terminal_index < TERMIANL_NUM /\ terminal_index' = terminal_index + 1
        /\ rx' = NoByte
    BY <1>4 DEF CrossRead, TakeByte
  <2> QED
    BY <1>0, <2>1 DEF LateInv, LateByOne
<1>5. CASE CrossWrap
  <2>1. /\ state = "RECVING" /\ state' = "TX" /\ CountCrossing /\ rx' = rx
        /\ terminal_index = TERMIANL_NUM /\ terminal_index' = 0
    BY <1>5 DEF CrossWrap, RestartScan, hwVars, TypeOK
  <2>2. rx # NoByte => rx.from = TERMIANL_NUM - 1
    BY <1>0, <2>1 DEF LateInv, LateByOne
  <2> QED
    BY <1>0, <2>1, <2>2 DEF LateInv, LateByOne
<1>6. CASE SendSync
  <2>1. state = "TX"
    BY <1>6 DEF SendSync, BusDiscipline
  <2>2. /\ state' = "WAITRCV" /\ waitToRecvicntLeft' = 1 /\ crossings' = 0
        /\ UNCHANGED <<terminal_index, rx>>
    BY <1>6 DEF SendSync, CrossingsToWait, WAIT_CROSS_CNT
  <2> QED
    BY <2>1, <2>2 DEF LateInv, LateByOne
<1>7. CASE SendLong \/ SendDone
  BY <1>7, LateUnchanged DEF SendLong, SendDone, lmsVars
<1>8. CASE ShellCall
  BY <1>8, LateUnchanged DEF ShellCall, BuildCheck, ChangeStatus, lmsVars, hwVars, envVars
<1>9. CASE ShellStep
  BY <1>9, LateUnchanged DEF ShellStep, BuildLock, BuildInfo, BuildData, BuildPost,
     ChangeMail, lmsVars, hwVars, envVars
<1>10. ASSUME NEW t \in Terminals, NEW v \in Status, Answer(t, v) PROVE LateInv'
  <2>1. /\ crossings \in 2 + t .. 2 + t + MaxLate
        /\ rx' = IF dir = "RECV" /\ rx = NoByte THEN [from |-> t, val |-> v] ELSE rx
        /\ UNCHANGED <<state, waitToRecvicntLeft, terminal_index, crossings>>
    BY <1>10 DEF Answer, SlotOf, WAIT_CROSS_CNT, lmsVars
  <2>2. t \in Nat /\ t < TERMIANL_NUM /\ (crossings = 2 + t \/ crossings = 3 + t)
    BY <1>0, <2>1 DEF Terminals
  <2>3. state = "RECVING" \/ t = TERMIANL_NUM - 1
    BY <1>0, <2>2 DEF TypeOK, LateInv
  <2>4. state # "WAITRCV"
    BY <1>0, <2>2 DEF LateInv
  <2>5. state = "RECVING" => terminal_index = t \/ terminal_index = t + 1
    BY <1>0, <2>2 DEF LateInv
  <2>6. CASE rx' = rx
    BY <2>1, <2>6, LateUnchanged
  <2>7. CASE rx' = [from |-> t, val |-> v]
    <3>1. rx'.from = t
      BY <2>7
    <3> QED
      BY <1>0, <2>1, <2>2, <2>3, <2>5, <3>1 DEF LateInv, LateByOne
  <2> QED
    BY <2>1, <2>6, <2>7
<1>11. CASE MbRecv
  BY <1>11, LateUnchanged DEF MbRecv, hwVars, envVars
<1>12. CASE UNCHANGED vars
  BY <1>12, LateUnchanged DEF vars, lmsVars, hwVars, envVars
<1> QED
  BY <1>1, <1>2, <1>3, <1>4, <1>5, <1>6, <1>7, <1>8, <1>9, <1>10, <1>11, <1>12
     DEF Next, LinkNext, Crossing, TxDelay

(***************************************************************************)
(* With answers up to one slot late a byte is recorded for its terminal or *)
(* for the next one round the poll, for any number of terminals and polls. *)
(***************************************************************************)
THEOREM LateByAtMostOne ==
    ASSUME MaxLate <= 1
    PROVE  Spec => []LateByOne
<1>1. Init => LateInv
  BY Constants DEF Init, LateInv, LateByOne, CrossCap, WAIT_CROSS_CNT
<1>2. TypeOK /\ BusDiscipline /\ LateInv /\ [Next]_vars => LateInv'
  BY LateStep
<1>3. LateInv => LateByOne
  BY DEF LateInv
<1> QED
  BY <1>1, <1>2, <1>3, TypeCorrect, BusSafe, PTL DEF Spec
-----------------------------------------------------------------------------
(* The panel over the link. *)

\* The place of t will be redrawn in this pass.
Pending(t) ==
    \/ hpc = "readAll" /\ t >= at
    \/ hpc = "drawAll" /\ t > at
    \/ hpc = "readOne" /\ t = at

\* What the place of t shows, or will show when the symbol is drawn.
Current(t) ==
    IF hpc \in {"drawAll", "drawOne"} /\ t = at
    THEN val = terminalState[t]
    ELSE mark[t] = Shape(terminalState[t])

\* As MarksAnnounced, except that a place being drawn may not pass for
\* current because it is blank at the moment.
MarkInv == ~g_firstrun => \A t \in Terminals : Pending(t) \/ Announced(t) \/ Current(t)

\* An overlay needs the one click of the pass: none is left to undo it before
\* the menus are compared.
OverlayInv ==
    /\ painted \subseteq {last_menu} \/ (g_cur_menu # last_menu /\ clicks >= 1) \/ hpc = "note"
    /\ hpc = "show" /\ g_cur_menu # last_menu => clicks >= 1
-----------------------------------------------------------------------------
(* The panel does not disturb the link. *)

LEMMA LinkStep == ASSUME [HmiNext]_hmiAll PROVE [Next]_vars
<1>1. CASE IrqStep
  BY <1>1 DEF IrqStep, Next, LinkNext
<1>2. CASE ShellStarts \/ ShellRuns
  BY <1>2 DEF ShellStarts, ShellRuns, Next, LinkNext
<1>3. CASE Key
  BY <1>3 DEF Key
<1>4. CASE HmiShowOne
  BY <1>4 DEF HmiShowOne, Next
<1>5. CASE HmiTop \/ HmiNote \/ HmiShowAll \/ HmiShowOther \/ HmiRead \/ HmiDraw \/ HmiWake
  BY <1>5 DEF HmiTop, HmiNote, HmiShowAll, HmiShowOther, HmiRead, HmiDraw, HmiWake
<1>6. CASE UNCHANGED hmiAll
  BY <1>6 DEF hmiAll
<1> QED
  BY <1>1, <1>2, <1>3, <1>4, <1>5, <1>6 DEF HmiNext, HmiStep

(***************************************************************************)
(* The panel over the link implements the link: with the display thread    *)
(* and the keys running, everything proved of LmsLink still holds          *)
(* (hmi.c:215-247 only takes mails and reads the table).                   *)
(***************************************************************************)
THEOREM PanelKeepsLink == HmiSpec => Spec
<1>1. HmiInit => Init
  BY DEF HmiInit
<1> QED
  BY <1>1, LinkStep, PTL DEF HmiSpec, Spec

-----------------------------------------------------------------------------
(* Types. *)

LEMMA TerminalFacts == /\ TERMIANL_NUM \in Nat /\ TERMIANL_NUM > 0
                       /\ 0 \in Terminals
                       /\ \A t \in Terminals : t \in Nat /\ t < TERMIANL_NUM
  BY Constants DEF Terminals

LEMMA KeyMenu ==
    ASSUME g_cur_menu \in Menus, Key
    PROVE  g_cur_menu' \in Menus
<1> USE DEF Menus, MENU_HOME, MENU_VI, MENU_UPS, MENU_IO, MENU_SETTING, MENU_NUM
<1>1. CASE KeySet
  BY <1>1 DEF KeySet, page_settings
<1>2. CASE page_up
  BY <1>2 DEF page_up
<1>3. CASE page_down
  BY <1>3 DEF page_down
<1>4. CASE KeyEnter
  BY <1>4 DEF KeyEnter, page_home
<1> QED
  BY <1>1, <1>2, <1>3, <1>4 DEF Key

LEMMA HmiTypeStep == ASSUME TypeOK, HmiTypeOK, [HmiNext]_hmiAll PROVE HmiTypeOK'
<1> USE DEF HmiTypeOK
<1>1. CASE IrqStep
  <2>1. dropped' \subseteq Terminals
    BY <1>1 DEF IrqStep, Refused
  <2> QED
    BY <1>1, <2>1 DEF IrqStep, menuVars, threadVars, screenVars
<1>2. CASE ShellStarts
  BY <1>2 DEF ShellStarts, hmiVars, menuVars, threadVars, screenVars
<1>3. CASE ShellRuns
  <2>1. dropped' \subseteq Terminals
    BY <1>3 DEF ShellRuns, Refused
  <2> QED
    BY <1>3, <2>1 DEF ShellRuns, menuVars, threadVars, screenVars
<1>4. CASE Key
  <2>1. g_cur_menu' \in Menus
    BY <1>4, KeyMenu
  <2>2. clicks' \in 0 .. MaxClicks
    BY <1>4, ClickAssumption DEF Key
  <2> QED
    BY <1>4, <2>1, <2>2 DEF Key, threadVars, screenVars
<1>5. CASE HmiTop
  <2>1. clicks' \in 0 .. MaxClicks
    BY <1>5, ClickAssumption DEF HmiTop
  <2>2. hpc' \in {"note", "show"}
    BY <1>5 DEF HmiTop
  <2> QED
    BY <1>5, <2>1, <2>2 DEF HmiTop, screenVars
<1>6. CASE HmiNote
  <2>1. last_menu' \in 0 .. MENU_NUM
    BY <1>6 DEF HmiNote, Menus, MENU_NUM
  <2>2. mark' \in [Terminals -> Status \union {NoAnswer, Blank}] /\ painted' = {}
    BY <1>6 DEF HmiNote, oled_clear
  <2> QED
    BY <1>6, <2>1, <2>2 DEF HmiNote, RedrawAll, menuVars
<1>7. CASE HmiShowAll
  <2>1. MENU_HOME \in Menus
    BY DEF MENU_HOME, Menus, MENU_NUM
  <2> QED
    BY <1>7, <2>1, TerminalFacts DEF HmiShowAll, menuVars
<1>8. CASE HmiShowOne
  <2>1. MENU_HOME \in Menus
    BY DEF MENU_HOME, Menus, MENU_NUM
  <2>2. at' \in Terminals
    BY <1>8 DEF HmiShowOne, TypeOK
  <2>3. painted' \subseteq Menus /\ hpc' \in {"readOne", "sleep"}
    BY <1>8, <2>1 DEF HmiShowOne
  <2> QED
    BY <1>8, <2>2, <2>3 DEF HmiShowOne, menuVars
<1>9. CASE HmiShowOther
  BY <1>9 DEF HmiShowOther, menuVars
<1>10. CASE HmiRead
  <2>1. terminalState[at] \in Status \union {NoAnswer}
    BY DEF TypeOK
  <2>2. /\ mark' \in [Terminals -> Status \union {NoAnswer, Blank}]
        /\ val' \in Status \union {NoAnswer, Blank}
    BY <1>10, <2>1 DEF HmiRead
  <2>3. hpc' \in {"drawAll", "drawOne"} /\ dropped' \subseteq Terminals
    BY <1>10 DEF HmiRead
  <2> QED
    BY <1>10, <2>2, <2>3 DEF HmiRead, menuVars
<1>11. CASE HmiDraw
  <2>1. mark' \in [Terminals -> Status \union {NoAnswer, Blank}] /\ val' = Blank
    BY <1>11 DEF HmiDraw, Shape
  <2>2. at' \in Terminals /\ hpc' \in {"readAll", "sleep"}
    BY <1>11, Constants DEF HmiDraw, Terminals
  <2> QED
    BY <1>11, <2>1, <2>2 DEF HmiDraw, menuVars
<1>12. CASE HmiWake
  BY <1>12 DEF HmiWake, menuVars, screenVars
<1>13. CASE UNCHANGED hmiAll
  BY <1>13 DEF hmiAll, hmiVars, menuVars, threadVars, screenVars
<1> QED
  BY <1>1, <1>2, <1>3, <1>4, <1>5, <1>6, <1>7, <1>8, <1>9, <1>10, <1>11, <1>12, <1>13
  DEF HmiNext, HmiStep

LEMMA HmiTypes == HmiSpec => [](TypeOK /\ HmiTypeOK)
<1>1. HmiInit => HmiTypeOK
  <2>1. SUFFICES ASSUME HmiInit PROVE HmiTypeOK
    OBVIOUS
  <2>2. /\ g_cur_menu \in Menus /\ last_menu \in 0 .. MENU_NUM
        /\ at \in Terminals /\ clicks \in 0 .. MaxClicks
    BY <2>1, TerminalFacts, ClickAssumption DEF HmiInit, Menus, MENU_HOME, MENU_NUM
  <2>3. mark \in [Terminals -> Status \union {NoAnswer, Blank}]
    BY <2>1 DEF HmiInit
  <2> QED
    BY <2>1, <2>2, <2>3 DEF HmiInit, HmiTypeOK
<1> QED
  BY <1>1, HmiTypeStep, PanelKeepsLink, TypeCorrect, PTL DEF HmiSpec

(***************************************************************************)
(* The menu always indexes the page and key tables and the terminal drawn  *)
(* is one of the table (hmi.c:389, key_function.c:176).                    *)
(***************************************************************************)
THEOREM PanelTypeCorrect == HmiSpec => []HmiTypeOK
  BY HmiTypes, PTL

-----------------------------------------------------------------------------
(* Marks. *)

\* A mail that is posted or refused stays announced.
LEMMA PostAnnounced ==
    ASSUME TypeOK, NEW u \in Terminals, mb' = MbSend(mb, u)
    PROVE  /\ \A i \in 1 .. Len(mb) : Len(mb') >= Len(mb) /\ mb'[i] = mb[i]
           /\ Len(mb) # MB_SIZE => \E i \in 1 .. Len(mb') : mb'[i] = u
<1>1. mb \in Seq(Terminals) /\ Len(mb) <= MB_SIZE /\ MB_SIZE \in Nat
  BY Constants DEF TypeOK
<1>2. CASE Len(mb) < MB_SIZE
  <2>1. mb' = Append(mb, u)
    BY <1>2 DEF MbSend
  <2>2. /\ Len(mb') = Len(mb) + 1 /\ mb'[Len(mb) + 1] = u
        /\ \A i \in 1 .. Len(mb) : mb'[i] = mb[i]
    BY <1>1, <2>1
  <2>3. Len(mb) + 1 \in 1 .. Len(mb')
    BY <1>1, <2>2
  <2> QED
    BY <1>1, <2>2, <2>3
<1>3. CASE Len(mb) = MB_SIZE
  <2>1. mb' = mb
    BY <1>1, <1>3 DEF MbSend
  <2> QED
    BY <1>1, <1>3, <2>1
<1> QED
  BY <1>1, <1>2, <1>3

\* A step of the link loses no announcement and announces what it changes.
LEMMA LinkAnnounces ==
    ASSUME TypeOK, HmiTypeOK, IrqStep \/ ShellStarts \/ ShellRuns, NEW t \in Terminals
    PROVE  /\ Announced(t) => Announced(t)'
           /\ terminalState'[t] # terminalState[t] => Announced(t)'
<1>1. mb \in Seq(Terminals)
  BY DEF TypeOK
<1>2. CASE UNCHANGED <<terminalState, mb>> /\ pc # "mail" /\ dropped \subseteq dropped'
  BY <1>2 DEF Announced
<1>3. CASE UNCHANGED <<terminalState, mb, pc, arg>> /\ dropped \subseteq dropped'
  BY <1>3 DEF Announced
<1>4. ASSUME CrossRead, dropped' = dropped \union Refused
      PROVE  /\ Announced(t) => Announced(t)'
             /\ terminalState'[t] # terminalState[t] => Announced(t)'
  <2>1. /\ state = "RECVING" /\ UNCHANGED <<pc, arg>>
        /\ terminal_index \in Terminals
        /\ terminalState' = [terminalState EXCEPT ![terminal_index] = Received]
        /\ mb' = IF Received # terminalState[terminal_index]
                 THEN MbSend(mb, terminal_index) ELSE mb
    BY <1>4, Constants DEF CrossRead, shellVars, TypeOK, Terminals
  <2>2. CASE Received = terminalState[terminal_index]
    <3>1. mb' = mb /\ terminalState' = terminalState
      BY <2>1, <2>2 DEF TypeOK
    <3> QED
      BY <1>3, <1>4, <2>1, <3>1
  <2>3. CASE Received # terminalState[terminal_index]
    <3>1. mb' = MbSend(mb, terminal_index)
      BY <2>1, <2>3
    <3>2. /\ \A i \in 1 .. Len(mb) : Len(mb') >= Len(mb) /\ mb'[i] = mb[i]
          /\ Len(mb) # MB_SIZE => \E i \in 1 .. Len(mb') : mb'[i] = terminal_index
      BY <2>1, <3>1, PostAnnounced
    <3>3. Announced(t) => Announced(t)'
      <4>1. CASE \E i \in 1 .. Len(mb) : mb[i] = t
        <5>1. PICK i \in 1 .. Len(mb) : mb[i] = t
          BY <4>1
        <5>2. mb' = mb \/ mb' = Append(mb, terminal_index)
          BY <3>1 DEF MbSend
        <5>3. i \in 1 .. Len(mb') /\ mb'[i] = t
          BY <1>1, <5>1, <5>2
        <5> QED
          BY <5>3 DEF Announced
      <4>2. CASE pc = "mail" /\ arg = t
        BY <2>1, <4>2 DEF Announced
      <4>3. CASE t \in dropped
        BY <1>4, <4>3 DEF Announced
      <4> QED
        BY <4>1, <4>2, <4>3 DEF Announced
    <3>4. terminalState'[t] # terminalState[t] => Announced(t)'
      <4>1. SUFFICES ASSUME terminalState'[t] # terminalState[t] PROVE Announced(t)'
        OBVIOUS
      <4>2. t = terminal_index
        BY <2>1, <4>1 DEF TypeOK
      <4>3. CASE Len(mb) = MB_SIZE
        <5>1. t \in Refused
          BY <2>1, <4>1, <4>3 DEF Refused
        <5> QED
          BY <1>4, <5>1 DEF Announced
      <4>4. CASE Len(mb) # MB_SIZE
        BY <3>2, <4>2, <4>4 DEF Announced
      <4> QED
        BY <4>3, <4>4
    <3> QED
      BY <3>3, <3>4
  <2> QED
    BY <2>2, <2>3
<1>5. CASE IrqStep
  <2>1. dropped' = dropped \union Refused
    BY <1>5 DEF IrqStep
  <2>2. \/ CrossRead
        \/ UNCHANGED <<terminalState, mb, pc, arg>>
    BY <1>5 DEF IrqStep, Crossing, CrossInit, CrossTx, CrossWait, CrossWrap, TxDelay, SendSync,
       SendLong, SendDone, Answer, lmsVars, shellVars
  <2> QED
    BY <1>3, <1>4, <2>1, <2>2
<1>6. CASE ShellStarts
  <2>1. UNCHANGED <<dropped, mb>> /\ pc = "idle" /\ ShellCall
    BY <1>6 DEF ShellStarts, hmiVars, ShellCall, BuildCheck, ChangeStatus, lmsVars
  <2>2. ASSUME NEW c \in Cmds, BuildCheck(c)
        PROVE  UNCHANGED <<terminalState, mb>> /\ pc # "mail" /\ dropped \subseteq dropped'
    BY <2>1, <2>2 DEF BuildCheck, lmsVars
  <2>3. ASSUME NEW u \in Terminals, NEW v \in DiagStatus, ChangeStatus(u, v)
        PROVE  /\ Announced(t) => Announced(t)'
               /\ terminalState'[t] # terminalState[t] => Announced(t)'
    <3>1. /\ terminalState' = [terminalState EXCEPT ![u] = v]
          /\ pc' = "mail" /\ arg' = u
      BY <2>3 DEF ChangeStatus
    <3>2. Announced(t) => Announced(t)'
      BY <2>1 DEF Announced
    <3>3. terminalState'[t] # terminalState[t] => t = u
      BY <3>1 DEF TypeOK
    <3> QED
      BY <3>1, <3>2, <3>3 DEF Announced
  <2> QED
    BY <1>2, <2>1, <2>2, <2>3 DEF ShellCall
<1>7. CASE ShellRuns
  <2>1. dropped' = dropped \union Refused /\ ShellStep
    BY <1>7 DEF ShellRuns
  <2>2. CASE ChangeMail
    <3>1. /\ pc = "mail" /\ pc' = "idle" /\ mb' = MbSend(mb, arg)
          /\ UNCHANGED terminalState
      BY <2>2 DEF ChangeMail
    <3>2. SUFFICES ASSUME Announced(t) PROVE Announced(t)'
      BY <3>1
    <3>3. CASE \E i \in 1 .. Len(mb) : mb[i] = t
      <4>1. PICK i \in 1 .. Len(mb) : mb[i] = t
        BY <3>3
      <4>2. mb' = mb \/ mb' = Append(mb, arg)
        BY <3>1 DEF MbSend
      <4>3. i \in 1 .. Len(mb') /\ mb'[i] = t
        BY <1>1, <4>1, <4>2
      <4> QED
        BY <4>3 DEF Announced
    <3>4. CASE arg = t
      <4>1. CASE Len(mb) = MB_SIZE
        <5>1. t \in Refused
          BY <3>1, <3>4, <4>1 DEF Refused
        <5> QED
          BY <2>1, <5>1 DEF Announced
      <4>2. CASE Len(mb) # MB_SIZE
        BY <3>1, <3>4, <4>2, PostAnnounced DEF Announced
      <4> QED
        BY <4>1, <4>2
    <3>5. CASE t \in dropped
      BY <2>1, <3>5 DEF Announced
    <3> QED
      BY <3>2, <3>3, <3>4, <3>5 DEF Announced
  <2>3. CASE BuildLock \/ BuildInfo \/ BuildPost
    BY <1>2, <2>1, <2>3 DEF BuildLock, BuildInfo, BuildPost, lmsVars
  <2>4. ASSUME NEW k \in 0 .. 2, BuildData(k)
        PROVE  UNCHANGED <<terminalState, mb>> /\ pc # "mail"
    BY <2>4 DEF BuildData, lmsVars
  <2> QED
    BY <1>2, <2>1, <2>2, <2>3, <2>4 DEF ShellStep
<1> QED
  BY <1>5, <1>6, <1>7

\* A step of the display thread that leaves the link, the marks and what is
\* being drawn alone.
LEMMA MarkIdle ==
    ASSUME MarkInv, g_firstrun' = g_firstrun, UNCHANGED <<vars, mark, dropped>>,
           hpc \in {"top", "note", "show", "sleep"}, hpc' \in {"top", "note", "show", "sleep"}
    PROVE  MarkInv'
  BY DEF MarkInv, Pending, Current, Announced, vars, lmsVars, shellVars

LEMMA MarkShowOne == ASSUME TypeOK, HmiTypeOK, MarkInv, HmiShowOne PROVE MarkInv'
<1>1. hpc = "show" /\ UNCHANGED <<g_firstrun, mark, dropped>>
  BY DEF HmiShowOne
<1>2. CASE mb = <<>>
  <2>1. hpc' = "sleep" /\ UNCHANGED vars
    BY <1>2 DEF HmiShowOne
  <2> QED
    BY <1>1, <2>1, MarkIdle
<1>3. CASE mb # <<>>
  <2>1. /\ at' = Head(mb) /\ mb' = Tail(mb) /\ hpc' = "readOne"
        /\ UNCHANGED <<terminalState, pc, arg>>
    BY <1>3 DEF HmiShowOne, MbRecv, shellVars
  <2>2. SUFFICES ASSUME ~g_firstrun, NEW t \in Terminals
                 PROVE  Pending(t)' \/ Announced(t)' \/ Current(t)'
    BY <1>1 DEF MarkInv
  <2>3. Announced(t) \/ mark[t] = Shape(terminalState[t])
    BY <1>1, <2>2 DEF MarkInv, Pending, Current
  <2>4. CASE \E i \in 1 .. Len(mb) : mb[i] = t
    <3>1. PICK i \in 1 .. Len(mb) : mb[i] = t
      BY <2>4
    <3>2. mb \in Seq(Terminals)
      BY DEF TypeOK
    <3>3. CASE i = 1
      <4>1. at' = t
        BY <1>3, <2>1, <3>1, <3>2, <3>3
      <4> QED
        BY <2>1, <4>1 DEF Pending
    <3>4. CASE i # 1
      <4>1. i - 1 \in 1 .. Len(mb') /\ mb'[i - 1] = t
        BY <1>3, <2>1, <3>1, <3>2, <3>4
      <4> QED
        BY <4>1 DEF Announced
    <3> QED
      BY <3>3, <3>4
  <2>5. CASE (pc = "mail" /\ arg = t) \/ t \in dropped
    BY <1>1, <2>1, <2>5 DEF Announced
  <2>6. CASE mark[t] = Shape(terminalState[t])
    BY <1>1, <2>1, <2>6 DEF Current
  <2> QED
    BY <2>3, <2>4, <2>5, <2>6 DEF Announced
<1> QED
  BY <1>2, <1>3

LEMMA MarkStep ==
    ASSUME TypeOK, HmiTypeOK, MarkInv, [HmiNext]_hmiAll
    PROVE  MarkInv'
<1>1. CASE IrqStep \/ ShellStarts \/ ShellRuns
  <2>1. UNCHANGED <<g_firstrun, hpc, at, val, mark>>
    BY <1>1 DEF IrqStep, ShellStarts, ShellRuns, hmiVars, threadVars, screenVars
  <2>2. SUFFICES ASSUME ~g_firstrun, NEW t \in Terminals
                 PROVE  Pending(t)' \/ Announced(t)' \/ Current(t)'
    BY <2>1 DEF MarkInv
  <2>3. /\ Announced(t) => Announced(t)'
        /\ terminalState'[t] # terminalState[t] => Announced(t)'
    BY <1>1, LinkAnnounces
  <2>4. Pending(t) => Pending(t)'
    BY <2>1 DEF Pending
  <2>5. Current(t) /\ terminalState'[t] = terminalState[t] => Current(t)'
    BY <2>1 DEF Current
  <2> QED
    BY <2>2, <2>3, <2>4, <2>5 DEF MarkInv
<1>2. CASE Key
  BY <1>2 DEF Key, threadVars, screenVars, MarkInv, Pending, Current, Announced, vars, lmsVars,
     shellVars
<1>3. CASE HmiTop \/ HmiShowOther \/ HmiWake
  <2>1. /\ hpc \in {"top", "note", "show", "sleep"} /\ hpc' \in {"top", "note", "show", "sleep"}
        /\ UNCHANGED <<vars, g_firstrun, mark, dropped>>
    BY <1>3 DEF HmiTop, HmiShowOther, HmiWake, screenVars
  <2> QED
    BY <2>1, MarkIdle
<1>4. CASE HmiNote
  BY <1>4 DEF HmiNote, RedrawAll, MarkInv
<1>5. CASE HmiShowAll
  <2>1. hpc' = "readAll" /\ at' = 0
    BY <1>5 DEF HmiShowAll
  <2>2. \A t \in Terminals : t >= 0
    BY TerminalFacts
  <2> QED
    BY <2>1, <2>2 DEF MarkInv, Pending
<1>6. CASE HmiShowOne
  BY <1>6, MarkShowOne
<1>7. CASE HmiRead
  <2>1. /\ \/ hpc = "readAll" /\ hpc' = "drawAll"
           \/ hpc = "readOne" /\ hpc' = "drawOne"
        /\ mark' = [mark EXCEPT ![at] = Blank] /\ val' = terminalState[at]
        /\ dropped' = dropped \ {at}
        /\ UNCHANGED <<g_firstrun, at, terminalState, mb, pc, arg>>
    BY <1>7 DEF HmiRead, vars, lmsVars, shellVars
  <2>2. SUFFICES ASSUME ~g_firstrun, NEW t \in Terminals
                 PROVE  Pending(t)' \/ Announced(t)' \/ Current(t)'
    BY <2>1 DEF MarkInv
  <2>3. CASE t = at
    BY <2>1, <2>3 DEF Current
  <2>4. CASE t # at
    <3>1. Pending(t) => Pending(t)'
      BY <2>1, <2>4, TerminalFacts DEF Pending, HmiTypeOK
    <3>2. Announced(t) => Announced(t)'
      BY <2>1, <2>4 DEF Announced
    <3>3. Current(t) => Current(t)'
      BY <2>1, <2>4 DEF Current, HmiTypeOK
    <3> QED
      BY <2>2, <3>1, <3>2, <3>3 DEF MarkInv
  <2> QED
    BY <2>3, <2>4
<1>8. CASE HmiDraw
  <2>1. /\ hpc \in {"drawAll", "drawOne"}
        /\ mark' = [mark EXCEPT ![at] = Shape(val)]
        /\ UNCHANGED <<g_firstrun, dropped, terminalState, mb, pc, arg>>
    BY <1>8 DEF HmiDraw, vars, lmsVars, shellVars
  <2>2. \/ hpc = "drawAll" /\ at' = at + 1 /\ hpc' = "readAll"
        \/ hpc = "drawAll" /\ at >= TERMIANL_NUM - 1 /\ hpc' = "sleep" /\ at' = at
        \/ hpc = "drawOne" /\ hpc' = "sleep" /\ at' = at
    BY <1>8 DEF HmiDraw
  <2>3. SUFFICES ASSUME ~g_firstrun, NEW t \in Terminals
                 PROVE  Pending(t)' \/ Announced(t)' \/ Current(t)'
    BY <2>1 DEF MarkInv
  <2>4. Pending(t) => Pending(t)'
    <3>1. SUFFICES ASSUME Pending(t) PROVE Pending(t)'
      OBVIOUS
    <3>2. hpc = "drawAll" /\ t > at
      BY <2>1, <3>1 DEF Pending
    <3>3. t \in Nat /\ at \in Nat /\ t < TERMIANL_NUM /\ TERMIANL_NUM \in Nat
      BY TerminalFacts DEF HmiTypeOK
    <3>4. ~(at >= TERMIANL_NUM - 1) /\ t >= at + 1
      BY <3>2, <3>3
    <3>5. hpc' = "readAll" /\ at' = at + 1
      BY <2>2, <3>2, <3>4
    <3> QED
      BY <3>4, <3>5 DEF Pending
  <2>5. Announced(t) => Announced(t)'
    BY <2>1 DEF Announced
  <2>6. Current(t) => mark'[t] = Shape(terminalState[t])
    BY <2>1 DEF Current, HmiTypeOK
  <2>7. hpc' \notin {"drawAll", "drawOne"}
    BY <2>2
  <2> QED
    BY <2>1, <2>3, <2>4, <2>5, <2>6, <2>7 DEF MarkInv, Current
<1>9. CASE UNCHANGED hmiAll
  BY <1>9 DEF hmiAll, hmiVars, threadVars, screenVars, MarkInv, Pending, Current, Announced, vars,
     lmsVars, shellVars
<1> QED
  BY <1>1, <1>2, <1>3, <1>4, <1>5, <1>6, <1>7, <1>8, <1>9 DEF HmiNext, HmiStep

(***************************************************************************)
(* No change is lost silently between the table and the screen, for any    *)
(* number of terminals, any mailbox and any number of key clicks           *)
(* (hmi.c:222-247, lmsuart.c:164-171, main.c:290-291).                     *)
(***************************************************************************)
THEOREM ChangesReachScreen == HmiSpec => []MarksAnnounced
<1>1. HmiInit => MarkInv
  BY DEF HmiInit, MarkInv
<1>2. MarkInv => MarksAnnounced
  BY DEF MarkInv, MarksAnnounced, Pending, Current
<1> QED
  BY <1>1, <1>2, MarkStep, HmiTypes, PTL DEF HmiSpec

-----------------------------------------------------------------------------
(* Overlays. *)

LEMMA OverlayStep ==
    ASSUME MaxClicks <= 1, HmiTypeOK, OverlayInv, [HmiNext]_hmiAll
    PROVE  OverlayInv'
<1>0. clicks \in Nat /\ MaxClicks \in Nat
  BY ClickAssumption DEF HmiTypeOK
<1>1. CASE IrqStep \/ ShellStarts \/ ShellRuns \/ UNCHANGED hmiAll
  BY <1>1 DEF IrqStep, ShellStarts, ShellRuns, hmiAll, hmiVars, menuVars, threadVars, screenVars,
     OverlayInv
<1>2. CASE Key
  <2>1. clicks = 0 /\ clicks' = 1
    BY <1>0, <1>2 DEF Key
  <2>2. UNCHANGED <<last_menu, hpc, painted>>
    BY <1>2 DEF Key, threadVars, screenVars
  <2> QED
    BY <2>1, <2>2 DEF OverlayInv
<1>3. CASE HmiTop
  BY <1>3 DEF HmiTop, screenVars, OverlayInv
<1>4. CASE HmiNote
  BY <1>4 DEF HmiNote, oled_clear, menuVars, OverlayInv
<1>5. CASE HmiShowAll \/ HmiShowOne
  BY <1>5 DEF HmiShowAll, HmiShowOne, menuVars, OverlayInv
<1>6. CASE HmiShowOther
  BY <1>6 DEF HmiShowOther, menuVars, OverlayInv
<1>7. CASE HmiRead \/ HmiDraw \/ HmiWake
  BY <1>7 DEF HmiRead, HmiDraw, HmiWake, menuVars, screenVars, OverlayInv
<1> QED
  BY <1>1, <1>2, <1>3, <1>4, <1>5, <1>6, <1>7 DEF HmiNext, HmiStep

(***************************************************************************)
(* With at most one click in a pass of the display thread, a page painted  *)
(* over another is cleared by the next pass (hmi.c:397-404).               *)
(***************************************************************************)
THEOREM OverlaysCleared == ASSUME MaxClicks <= 1 PROVE HmiSpec => []OverlayCleared
<1>1. HmiInit => OverlayInv
  BY DEF HmiInit, OverlayInv
<1>2. OverlayInv => OverlayCleared
  BY DEF OverlayInv, OverlayCleared
<1>3. HmiTypeOK /\ OverlayInv /\ [HmiNext]_hmiAll => OverlayInv'
  BY OverlayStep
<1> QED
  BY <1>1, <1>2, <1>3, HmiTypes, PTL DEF HmiSpec
=============================================================================
