------------------------------- MODULE LmsLink -------------------------------
(***************************************************************************)
(* The half-duplex power-line link to the lamp terminals: lmsuart.c, the   *)
(* timer callbacks of pulse_generate.c that drive it and the shell         *)
(* commands of main.c that feed it.                                        *)
(*                                                                         *)
(* Contexts.  The zero-crossing timer (timer2) and the 2.5 ms transmit     *)
(* delay (timer6) run as interrupts of equal priority: their handlers are  *)
(* atomic.  light_on, light_off and change_lms_state run in the shell      *)
(* thread, which an interrupt can preempt between any two stores; the      *)
(* build is -O0, so the stores happen in program order and pc names the    *)
(* next one.  The terminals are external.                                  *)
(***************************************************************************)
EXTENDS Naturals, Sequences

CONSTANTS
    TERMIANL_NUM,  \* number of terminals polled (32)
    MB_SIZE,       \* slots of the change mailbox mb (32)
    Cmds,          \* commands light_on / light_off can be given
    NoCmd,         \* cmd_data before the first command
    Status,        \* the answers a terminal can give
    NoAnswer,      \* 0xff: what a silent terminal reads as
    NoByte,        \* USART2 receive register empty (RBNE clear)
    DiagStatus,    \* values the shell gives to change_lms_state
    MaxLate        \* slots by which a terminal's answer may be late

ASSUME TerminalAssumption == TERMIANL_NUM \in Nat \ {0}

ASSUME MailboxAssumption == MB_SIZE \in Nat \ {0}

ASSUME LateAssumption == MaxLate \in Nat

ASSUME ValueAssumption ==
    /\ NoCmd \notin Cmds
    /\ NoAnswer \notin Status
    /\ DiagStatus \subseteq Status

Terminals == 0 .. TERMIANL_NUM - 1

ASSUME NoByteAssumption == NoByte \notin [from : Terminals, val : Status]

VARIABLES
    state,                   \* lms_t.state
    send_state,              \* lms_t.send_state
    write_lock,              \* cmd_info.write_lock
    order,                   \* cmd_info.group_id, seg_id and cmd_toSend
    cmd_data,                \* cmd_info.cmd_data: whose k-th byte cell k holds
    cmd_current_send_index,  \* cmd_info.cmd_current_send_index
    waitToRecvicntLeft,      \* crossings left before the bus is turned round
    terminal_index,          \* next terminal to read
    terminalState,           \* last status recorded per terminal
    polling_complete_flag,   \* a poll has been completed
    mb,                      \* mailbox of changed terminals
    txDelay,                 \* timer6 is running
    dir,                     \* USART2_DR_PIN: "SEND" or "RECV"
    rx,                      \* USART2 receive register
    pc,                      \* shell thread: its next store
    arg,                     \* shell thread: argument of the call in progress
    frame,                   \* observer: bytes of the long frame sent so far
    crossings,               \* terminals: zero crossings since the poll byte
    ans                      \* terminals: what each answered to this poll

lmsVars == <<state, waitToRecvicntLeft, terminal_index, terminalState,
             polling_complete_flag, mb>>
cmdVars == <<send_state, write_lock, order, cmd_data, cmd_current_send_index>>
hwVars == <<txDelay, dir, rx>>
shellVars == <<pc, arg>>
envVars == <<frame, crossings, ans>>

vars == <<lmsVars, cmdVars, hwVars, shellVars, envVars>>

WAIT_CROSS_CNT == 2

\* What the shell thread is executing: build_ctrl_cmd up to the store named,
\* or change_lms_state between its two statements.
ShellSteps == {"idle", "lock", "info", "data0", "data1", "data2", "post", "mail"}

\* The crossing interval, counted from the poll byte, in which terminal t
\* answers: lmsuart.h has the first terminal read at the third crossing.
SlotOf(t) == WAIT_CROSS_CNT + t

\* Bound of the crossings counter: every slot, late answers included, is over.
CrossCap == TERMIANL_NUM + WAIT_CROSS_CNT + 1 + MaxLate

(* Types: the scan index, the wait counter and the byte index stay within *)
(* what lmsuart.c indexes its arrays with, and the mailbox within its pool. *)
TypeOK ==
    /\ state \in {"INIT", "TX", "WAITRCV", "RECVING"}
    /\ send_state \in {"TX_SS", "TX_LS"}
    /\ write_lock \in BOOLEAN
    /\ order \in Cmds \union {NoCmd}
    /\ cmd_data \in [0 .. 2 -> Cmds \union {NoCmd}]
    /\ cmd_current_send_index \in 0 .. 3
    /\ waitToRecvicntLeft \in 0 .. WAIT_CROSS_CNT - 1
    /\ terminal_index \in 0 .. TERMIANL_NUM
    /\ terminalState \in [Terminals -> Status \union {NoAnswer}]
    /\ polling_complete_flag \in BOOLEAN
    /\ mb \in Seq(Terminals)
    /\ Len(mb) <= MB_SIZE
    /\ txDelay \in BOOLEAN
    /\ dir \in {"SEND", "RECV"}
    /\ rx \in [from : Terminals, val : Status] \union {NoByte}
    /\ pc \in ShellSteps
    /\ arg \in Cmds \union Terminals \union {NoCmd}
    /\ frame \in Seq((Cmds \union {NoCmd}) \X (0 .. 3))
    /\ crossings \in 0 .. CrossCap
    /\ ans \in [Terminals -> Status \union {NoAnswer}]

(* lms_init; rs_485_init leaves the direction pin low and the UART polled. *)
Init ==
    /\ state = "INIT"
    /\ send_state = "TX_SS"
    /\ write_lock = FALSE
    /\ order = NoCmd
    /\ cmd_data = [k \in 0 .. 2 |-> NoCmd]
    /\ cmd_current_send_index = 0
    /\ waitToRecvicntLeft = WAIT_CROSS_CNT - 1
    /\ terminal_index = 0
    /\ terminalState = [t \in Terminals |-> NoAnswer]
    /\ polling_complete_flag = FALSE
    /\ mb = <<>>
    /\ txDelay = FALSE
    /\ dir = "RECV"
    /\ rx = NoByte
    /\ pc = "idle"
    /\ arg = NoCmd
    /\ frame = <<>>
    /\ crossings = CrossCap
    /\ ans = [t \in Terminals |-> NoAnswer]

-----------------------------------------------------------------------------
(* Interrupts. *)

\* rt_mb_send: a full mailbox refuses the mail, and no caller looks.
MbSend(q, t) == IF Len(q) < MB_SIZE THEN Append(q, t) ELSE q

\* lms_uart_send_byte, as far as the link sees it: the bus is driven.
DriveBus == dir' = "SEND"

\* timer0_txDelay_start restarts timer6, timer0_txDelay_stop stops it.
StartTxDelay == txDelay' = TRUE

TxDelayKeepsRunning == txDelay' = txDelay

StopTxDelay == txDelay' = FALSE

\* Crossings the link lets pass between the poll byte and the bus turnround.
CrossingsToWait == WAIT_CROSS_CNT - 1

\* The crossing is seen by the terminals too.
CountCrossing == crossings' = IF crossings < CrossCap THEN crossings + 1 ELSE crossings

\* lms_state_machine, STATE_INIT: the first crossing starts the transmit side.
CrossInit ==
    /\ state = "INIT"
    /\ state' = "TX"
    /\ DriveBus
    /\ CountCrossing
    /\ UNCHANGED <<waitToRecvicntLeft, terminal_index, terminalState, polling_complete_flag,
                   mb, cmdVars, txDelay, rx, shellVars, frame, ans>>

\* STATE_TX: (re)start the 2.5 ms transmit delay.
CrossTx ==
    /\ state = "TX"
    /\ StartTxDelay
    /\ CountCrossing
    /\ UNCHANGED <<lmsVars, cmdVars, dir, rx, shellVars, frame, ans>>

\* STATE_WAITRCV: let the terminals prepare, then turn the bus round.
CrossWait ==
    /\ state = "WAITRCV"
    /\ \/ /\ waitToRecvicntLeft > 0
          /\ waitToRecvicntLeft' = waitToRecvicntLeft - 1
          /\ UNCHANGED <<state, dir>>
       \/ /\ waitToRecvicntLeft = 0
          /\ dir' = "RECV"
          /\ state' = "RECVING"
          /\ UNCHANGED waitToRecvicntLeft
    /\ CountCrossing
    /\ UNCHANGED <<terminal_index, terminalState, polling_complete_flag, mb, cmdVars,
                   txDelay, rx, shellVars, frame, ans>>

\* lms_uart_recv_byte: the byte in the register, 0xff when there is none.
Received == IF rx = NoByte THEN NoAnswer ELSE rx.val

LeaveByte == UNCHANGED rx

\* Reading the data register clears RBNE.
TakeByte == rx' = NoByte

\* STATE_RECVING, one terminal: record its byte and announce a change.
CrossRead ==
    /\ state = "RECVING"
    /\ terminal_index < TERMIANL_NUM
    /\ TakeByte
    /\ terminalState' = [terminalState EXCEPT ![terminal_index] = Received]
    /\ mb' = IF Received # terminalState[terminal_index]
             THEN MbSend(mb, terminal_index) ELSE mb
    /\ terminal_index' = terminal_index + 1
    /\ CountCrossing
    /\ UNCHANGED <<state, waitToRecvicntLeft, polling_complete_flag, cmdVars, txDelay, dir,
                   shellVars, frame, ans>>

ScanNotRestarted == UNCHANGED terminal_index

RestartScan == terminal_index' = 0

\* STATE_RECVING, every terminal read: the poll is complete.
CrossWrap ==
    /\ state = "RECVING"
    /\ terminal_index >= TERMIANL_NUM
    /\ RestartScan
    /\ polling_complete_flag' = TRUE
    /\ state' = "TX"
    /\ CountCrossing
    /\ UNCHANGED <<waitToRecvicntLeft, terminalState, mb, cmdVars, hwVars, shellVars,
                   frame, ans>>

\* timer2_crossPulse_cb as far as the link is concerned.
Crossing == CrossInit \/ CrossTx \/ CrossWait \/ CrossRead \/ CrossWrap

\* timer0_TxDelay_cb, send_state TX_SS: the poll byte starts a new poll.  To
\* the observer it is a frame of its own, so inside a long frame it is a
\* foreign byte (number 3).
SendSync ==
    /\ txDelay
    /\ send_state = "TX_SS"
    /\ StopTxDelay
    /\ DriveBus
    /\ state' = "WAITRCV"
    /\ waitToRecvicntLeft' = CrossingsToWait
    /\ crossings' = 0
    /\ ans' = [t \in Terminals |-> NoAnswer]
    /\ frame' = IF frame = <<>> THEN <<>> ELSE Append(frame, <<NoCmd, 3>>)
    /\ UNCHANGED <<terminal_index, terminalState, polling_complete_flag, mb, cmdVars, rx,
                   shellVars>>

\* timer0_TxDelay_cb, send_state TX_LS with bytes left: send the next one.
SendLong ==
    /\ txDelay
    /\ send_state = "TX_LS"
    /\ cmd_current_send_index <= 2
    /\ StopTxDelay
    /\ DriveBus
    /\ frame' = Append(frame, <<cmd_data[cmd_current_send_index], cmd_current_send_index>>)
    /\ cmd_current_send_index' = cmd_current_send_index + 1
    /\ UNCHANGED <<lmsVars, send_state, write_lock, order, cmd_data, rx, shellVars,
                   crossings, ans>>

LeaveLocked == UNCHANGED write_lock

Unlock == write_lock' = FALSE

StayLong == UNCHANGED send_state

BackToPolling == send_state' = "TX_SS"

\* timer0_TxDelay_cb, send_state TX_LS after the third byte: unlock, no byte.
SendDone ==
    /\ txDelay
    /\ send_state = "TX_LS"
    /\ cmd_current_send_index > 2
    /\ StopTxDelay
    /\ cmd_current_send_index' = 0
    /\ Unlock
    /\ BackToPolling
    /\ frame' = <<>>
    /\ UNCHANGED <<lmsVars, order, cmd_data, dir, rx, shellVars, crossings, ans>>

TxDelay == SendSync \/ SendLong \/ SendDone

-----------------------------------------------------------------------------
(* Shell thread. *)

AlwaysFree == TRUE

LineFree == ~write_lock

\* build_ctrl_cmd: a command that arrives while the lock is set is dropped.
BuildCheck(c) ==
    /\ pc = "idle"
    /\ LineFree
    /\ pc' = "lock"
    /\ arg' = c
    /\ UNCHANGED <<lmsVars, cmdVars, hwVars, envVars>>

LockAndPost == write_lock' = TRUE /\ send_state' = "TX_LS"

LockOnly == write_lock' = TRUE /\ UNCHANGED send_state

BuildLock ==
    /\ pc = "lock"
    /\ LockOnly
    /\ pc' = "info"
    /\ UNCHANGED <<lmsVars, order, cmd_data, cmd_current_send_index, hwVars,
                   arg, envVars>>

\* group_id, seg_id and cmd_toSend: three stores no other context reads.
BuildInfo ==
    /\ pc = "info"
    /\ order' = arg
    /\ pc' = "data0"
    /\ UNCHANGED <<lmsVars, send_state, write_lock, cmd_data, cmd_current_send_index,
                   hwVars, arg, envVars>>

\* cmd_data[k], one store each.
BuildData(k) ==
    /\ pc = <<"data0", "data1", "data2">>[k + 1]
    /\ cmd_data' = [cmd_data EXCEPT ![k] = arg]
    /\ pc' = <<"data1", "data2", "post">>[k + 1]
    /\ UNCHANGED <<lmsVars, send_state, write_lock, order, cmd_current_send_index, hwVars,
                   arg, envVars>>

\* send_state = STATE_TX_LS hands the frame to the transmit interrupt.
BuildPost ==
    /\ pc = "post"
    /\ send_state' = "TX_LS"
    /\ pc' = "idle"
    /\ arg' = NoCmd
    /\ UNCHANGED <<lmsVars, write_lock, order, cmd_data, cmd_current_send_index, hwVars,
                   envVars>>

\* change_lms_state: overwrite a terminal's status, then announce it.
ChangeStatus(t, v) ==
    /\ pc = "idle"
    /\ terminalState' = [terminalState EXCEPT ![t] = v]
    /\ pc' = "mail"
    /\ arg' = t
    /\ UNCHANGED <<state, waitToRecvicntLeft, terminal_index, polling_complete_flag, mb,
                   cmdVars, hwVars, envVars>>

ChangeMail ==
    /\ pc = "mail"
    /\ mb' = MbSend(mb, arg)
    /\ pc' = "idle"
    /\ arg' = NoCmd
    /\ UNCHANGED <<state, waitToRecvicntLeft, terminal_index, terminalState,
                   polling_complete_flag, cmdVars, hwVars, envVars>>

ShellStep ==
    \/ BuildLock
    \/ BuildInfo
    \/ \E k \in 0 .. 2 : BuildData(k)
    \/ BuildPost
    \/ ChangeMail

ShellCall ==
    \/ \E c \in Cmds : BuildCheck(c)
    \/ \E t \in Terminals, v \in DiagStatus : ChangeStatus(t, v)

-----------------------------------------------------------------------------
(* Environment. *)

\* A terminal answers the current poll, once, in its slot or up to MaxLate
\* slots later.  The byte is lost when the bus is driven or when the register
\* still holds another (overrun).
Answer(t, v) ==
    /\ ans[t] = NoAnswer
    /\ crossings \in SlotOf(t) .. SlotOf(t) + MaxLate
    /\ ans' = [ans EXCEPT ![t] = v]
    /\ rx' = IF dir = "RECV" /\ rx = NoByte THEN [from |-> t, val |-> v] ELSE rx
    /\ UNCHANGED <<lmsVars, cmdVars, txDelay, dir, shellVars, frame, crossings>>

\* The display thread takes a mail (module LmsHmi has what it does with it).
MbRecv ==
    /\ mb # <<>>
    /\ mb' = Tail(mb)
    /\ UNCHANGED <<state, waitToRecvicntLeft, terminal_index, terminalState,
                   polling_complete_flag, cmdVars, hwVars, shellVars, envVars>>

LinkNext ==
    \/ Crossing
    \/ TxDelay
    \/ ShellCall
    \/ ShellStep
    \/ \E t \in Terminals, v \in Status : Answer(t, v)

Next == LinkNext \/ MbRecv

Spec == Init /\ [][Next]_vars

\* The loop current keeps crossing zero, a running timer expires and the
\* shell thread is eventually scheduled; terminals and operators owe nothing.
Fairness == WF_vars(Crossing) /\ WF_vars(TxDelay) /\ WF_vars(ShellStep)

FairSpec == Spec /\ Fairness
-----------------------------------------------------------------------------
(* Properties. *)

\* The command the link has accepted and not yet finished sending.
Accepted ==
    IF ~write_lock THEN NoCmd ELSE IF pc = "info" THEN arg ELSE order

Cmd == INSTANCE LmsCommand WITH slot <- Accepted

(***************************************************************************)
(* build_ctrl_cmd and send_state_machine together are a one-slot command   *)
(* channel: whatever the shell thread is preempted in, a command is either *)
(* dropped or owns the line for its three bytes (lmsuart.c:51-68, 97-125). *)
(***************************************************************************)
ImplementsCommand == Cmd!Spec

(***************************************************************************)
(* The long frame on the line never mixes bytes of two commands, repeats   *)
(* or skips one, or has a poll byte in it (lmsuart.c:109-121).             *)
(***************************************************************************)
FrameIntegrity == Cmd!FrameIntegrity

(***************************************************************************)
(* Nothing can drive the bus while answers are collected, and the bus is   *)
(* driven until the terminals have had their preparation crossings: the    *)
(* transmit delay runs only in STATE_TX, and the direction pin follows the *)
(* state (lmsuart.c:141-157).                                              *)
(***************************************************************************)
BusDiscipline ==
    /\ txDelay => state = "TX"
    /\ state = "WAITRCV" => dir = "SEND"
    /\ state = "RECVING" => dir = "RECV"

(***************************************************************************)
(* When terminals keep their slots, the table entry of every terminal      *)
(* already read in this poll is what that terminal answered to this poll,  *)
(* 0xff if it was silent: no answer is missed, delayed by one poll or      *)
(* recorded for a neighbour (lmsuart.c:149-180).                           *)
(***************************************************************************)
PollExact ==
    \A t \in Terminals :
        \/ state = "RECVING" /\ t < terminal_index
        \/ state = "TX" /\ polling_complete_flag
        => terminalState[t] = ans[t]

(***************************************************************************)
(* When answers may be one slot late, a byte can be recorded for the wrong *)
(* terminal (nothing in the byte names its sender), but only for the next  *)
(* one round the poll, however many polls go by: the register is emptied   *)
(* at each read, so errors do not accumulate (lmsuart.c:87-96, 161-174).   *)
(***************************************************************************)
LateByOne ==
    rx # NoByte =>
        \/ terminal_index \in {rx.from, rx.from + 1}
        \/ terminal_index = 0 /\ rx.from = TERMIANL_NUM - 1

(***************************************************************************)
(* An accepted command is eventually on the line in full and the lock is   *)
(* released, even if a poll was in progress (lmsuart.c:115-120).           *)
(***************************************************************************)
CommandCompletes == write_lock ~> ~write_lock

(***************************************************************************)
(* Once the operator stops issuing commands, polling goes on for ever: a   *)
(* command never leaves the link in a state that no crossing gets it out   *)
(* of.  (Without the premise it is false: a new command before each        *)
(* TX_SS delay expires keeps the poll byte out.)                           *)
(***************************************************************************)
PollsRecur == <>[](pc = "idle") => []<>(state = "RECVING")
=============================================================================
