------------------------------ MODULE CanNode ------------------------------
(***************************************************************************)
(* The node on one CAN bus: mycan.c and can_response.c.  An interrupt      *)
(* fills the driver's receive queue and releases a semaphore, a receiving  *)
(* thread handles one frame per permit, a SYNC frame fills a mailbox with  *)
(* the replies it asks for, and an uploading thread sends them.  The two   *)
(* buses have their own copy of all this and share only the clock that     *)
(* SYNC_TIME frames set (module CanClock).                                 *)
(*                                                                         *)
(* Contexts.  The receiver has the higher priority: the uploader runs only *)
(* while the receiver is blocked.  Interrupts come at any time.            *)
(***************************************************************************)
EXTENDS Naturals, Sequences

CONSTANTS
    BOX_SZ,      \* frames the receive queue of the driver holds (16)
    CAN_MB_NUM,  \* slots of the reply mailbox (10)
    MaxPermits   \* bound of the semaphore

ASSUME SizeAssumption ==
    /\ BOX_SZ \in Nat \ {0}
    /\ CAN_MB_NUM \in Nat \ {0}
    /\ MaxPermits \in Nat \ {0}

VARIABLES
    rx_fifo,    \* frames received and not read
    rx_sem,     \* can0_rx_sem (can1_rx_sem)
    rxpc,       \* receiving thread: its next step
    rxmsg,      \* receiving thread: the frame in its buffer
    posted,     \* receiving thread: mails of this SYNC posted so far
    comm_fail,  \* can0_comm_fail_flag (can1_comm_fail_flag)
    sync_mb,    \* can_sync_mb0 (can_sync_mb1)
    uppc,       \* uploading thread: its next step
    cmd,        \* uploading thread: the mail it took last
    early,      \* observer: frames queued before the callback was registered
    overrun     \* observer: the queue has overwritten a frame

rxVars == <<rx_fifo, rx_sem, rxpc, rxmsg, posted, comm_fail>>
upVars == <<sync_mb, uppc, cmd>>
obsVars == <<early, overrun>>

vars == <<rxVars, upVars, obsVars>>

\* What ccr_sync posts for one SYNC frame, in this order.
cmd_list == <<"CCR_IO", "CCR_LOOP_V_I_INFO", "UPS_ANALOG", "UPS_IO">>

Mails == {cmd_list[i] : i \in 1 .. Len(cmd_list)}

NoCmd == "none"

\* Frames, by what they make the node do: SYNC posts replies, an ASK is
\* answered at once, a QUIET one is neither.  A SHORT frame has less than two
\* bytes: can_msg_parse leaves address and service code of it uninitialised,
\* so it is taken for any of the others.
Frames == {"SYNC", "ASK", "QUIET", "SHORT"}

\* The frame in the receiver's buffer is taken for a frame of kind f.
TakenFor(f) == rxmsg \in {f, "SHORT"}

(* Types: the queue, the semaphore, the mailbox and the index into cmd_list *)
(* stay within their size.                                                  *)
TypeOK ==
    /\ rx_fifo \in Seq(Frames)
    /\ Len(rx_fifo) <= BOX_SZ
    /\ rx_sem \in 0 .. MaxPermits
    /\ rxpc \in {"start", "take", "read", "parse", "post", "send", "sending"}
    /\ rxmsg \in Frames
    /\ posted \in 0 .. Len(cmd_list) - 1
    /\ comm_fail \in BOOLEAN
    /\ sync_mb \in Seq(Mails)
    /\ Len(sync_mb) <= CAN_MB_NUM
    /\ uppc \in {"recv", "send", "sending"}
    /\ cmd \in Mails \union {NoCmd}
    /\ early \in 0 .. BOX_SZ
    /\ overrun \in BOOLEAN

\* can_thtead_create has opened the device and created the threads, which
\* have not run yet.  The buffer is all zero, a frame for another node.
Init ==
    /\ rx_fifo = <<>>
    /\ rx_sem = 0
    /\ rxpc = "start"
    /\ rxmsg = "QUIET"
    /\ posted = 0
    /\ comm_fail = FALSE
    /\ sync_mb = <<>>
    /\ uppc = "recv"
    /\ cmd = NoCmd
    /\ early = 0
    /\ overrun = FALSE

\* The driver has one send box.
BoxFree == rxpc # "sending" /\ uppc # "sending"

RxBlocked ==
    \/ rxpc = "take" /\ rx_sem = 0
    \/ rxpc = "send" /\ ~BoxFree
    \/ rxpc = "sending"

-----------------------------------------------------------------------------
(* Interrupts. *)

\* A callback that signals only the first frame of an empty queue.
SignalFirst == rx_sem' = IF rx_fifo = <<>> THEN rx_sem + 1 ELSE rx_sem

can_rx_call == rx_sem' = rx_sem + 1

\* rt_hw_can_isr: a frame is queued, over the oldest one if there is no room.
Enqueue(f) ==
    LET full == Len(rx_fifo) = BOX_SZ
    IN  /\ rx_fifo' = Append(IF full THEN Tail(rx_fifo) ELSE rx_fifo, f)
        /\ overrun' = (overrun \/ full)

\* Before the receiving thread has registered the callback ...
ArriveEarly(f) ==
    /\ rxpc = "start"
    /\ Enqueue(f)
    /\ early' = IF Len(rx_fifo) = BOX_SZ THEN early ELSE early + 1
    /\ UNCHANGED <<rx_sem, rxpc, rxmsg, posted, comm_fail, upVars>>

\* ... and after.
Arrive(f) ==
    /\ rxpc # "start"
    /\ rx_sem < MaxPermits
    /\ Enqueue(f)
    /\ can_rx_call
    /\ UNCHANGED <<rxpc, rxmsg, posted, comm_fail, upVars, early>>

\* A transmission ends, sent or failed; the thread that waits for it gives
\* the box back and goes on.
TxDone ==
    /\ ~BoxFree
    /\ rxpc' = IF rxpc = "sending" THEN "take" ELSE rxpc
    /\ uppc' = IF uppc = "sending" THEN "recv" ELSE uppc
    /\ UNCHANGED <<rx_fifo, rx_sem, rxmsg, posted, comm_fail, sync_mb, cmd, obsVars>>

-----------------------------------------------------------------------------
(* Receiving thread: can_rx_thread. *)

Start ==
    /\ rxpc = "start"
    /\ rxpc' = "take"
    /\ UNCHANGED <<rx_fifo, rx_sem, rxmsg, posted, comm_fail, upVars, obsVars>>

\* A wait that leaves the permit in the semaphore.
TakeKeepsPermit ==
    /\ rxpc = "take"
    /\ rx_sem > 0
    /\ comm_fail' = FALSE
    /\ rxpc' = "read"
    /\ UNCHANGED <<rx_fifo, rx_sem, rxmsg, posted, upVars, obsVars>>

Take ==
    /\ rxpc = "take"
    /\ rx_sem > 0
    /\ rx_sem' = rx_sem - 1
    /\ comm_fail' = FALSE
    /\ rxpc' = "read"
    /\ UNCHANGED <<rx_fifo, rxmsg, posted, upVars, obsVars>>

\* Two seconds without a permit.
TakeTimeout ==
    /\ rxpc = "take"
    /\ rx_sem = 0
    /\ comm_fail' = TRUE
    /\ UNCHANGED <<rx_fifo, rx_sem, rxpc, rxmsg, posted, upVars, obsVars>>

\* A read that empties the queue.
ReadAndPurge ==
    /\ rxpc = "read"
    /\ rxpc' = "parse"
    /\ rxmsg' = IF rx_fifo = <<>> THEN rxmsg ELSE Head(rx_fifo)
    /\ rx_fifo' = <<>>
    /\ UNCHANGED <<rx_sem, posted, comm_fail, upVars, obsVars>>

\* rt_device_read: an empty queue leaves the old frame in the buffer, and
\* nobody looks at the result.
Read ==
    /\ rxpc = "read"
    /\ rxpc' = "parse"
    /\ \/ /\ rx_fifo # <<>>
          /\ rxmsg' = Head(rx_fifo)
          /\ rx_fifo' = Tail(rx_fifo)
       \/ /\ rx_fifo = <<>>
          /\ UNCHANGED <<rxmsg, rx_fifo>>
    /\ UNCHANGED <<rx_sem, posted, comm_fail, upVars, obsVars>>

\* A frame for another node, on which can_msg_parse returns, a SYNC_TIME, or a
\* light level, which the node refuses in local mode (nothing that runs ever
\* selects remote mode).
Quiet ==
    /\ rxpc = "parse"
    /\ TakenFor("QUIET")
    /\ rxpc' = "take"
    /\ UNCHANGED <<rx_fifo, rx_sem, rxmsg, posted, comm_fail, upVars, obsVars>>

\* A handler packs up to six bytes; a command without a handler is answered
\* with none.
Answer ==
    /\ rxpc = "parse"
    /\ TakenFor("ASK")
    /\ rxpc' = "send"
    /\ UNCHANGED <<rx_fifo, rx_sem, rxmsg, posted, comm_fail, upVars, obsVars>>

\* send_standard_frame hands the frame to the driver and waits.
Send ==
    /\ rxpc = "send"
    /\ BoxFree
    /\ rxpc' = "sending"
    /\ UNCHANGED <<rx_fifo, rx_sem, rxmsg, posted, comm_fail, upVars, obsVars>>

\* rt_mb_send: a full mailbox refuses, and nobody looks.
MbSend(q, c) == IF Len(q) < CAN_MB_NUM THEN Append(q, c) ELSE q

\* ccr_sync: one mail after the other.
SyncPost ==
    /\ rxpc \in {"parse", "post"}
    /\ TakenFor("SYNC")
    /\ sync_mb' = MbSend(sync_mb, cmd_list[posted + 1])
    /\ \/ /\ posted + 1 < Len(cmd_list)
          /\ posted' = posted + 1
          /\ rxpc' = "post"
       \/ /\ posted + 1 = Len(cmd_list)
          /\ posted' = 0
          /\ rxpc' = "take"
    /\ UNCHANGED <<rx_fifo, rx_sem, rxmsg, comm_fail, uppc, cmd, obsVars>>

-----------------------------------------------------------------------------
(* Uploading thread: can_sync_upload_thread. *)

\* The uploader with a priority above the receiver's.
UpFirst == TRUE

UpRuns == RxBlocked

UpRecv ==
    /\ uppc = "recv"
    /\ UpRuns
    /\ sync_mb # <<>>
    /\ cmd' = Head(sync_mb)
    /\ sync_mb' = Tail(sync_mb)
    /\ uppc' = "send"
    /\ UNCHANGED <<rxVars, obsVars>>

UpSend ==
    /\ uppc = "send"
    /\ UpRuns
    /\ BoxFree
    /\ uppc' = "sending"
    /\ UNCHANGED <<rxVars, sync_mb, cmd, obsVars>>

-----------------------------------------------------------------------------
RxStep == Start \/ Take \/ Read \/ Quiet \/ Answer \/ Send \/ SyncPost

UpStep == UpRecv \/ UpSend

Traffic == \E f \in Frames : ArriveEarly(f) \/ Arrive(f)

Next == Traffic \/ TxDone \/ RxStep \/ TakeTimeout \/ UpStep

Spec == Init /\ [][Next]_vars

\* Ready threads run when no higher one does, a wait of two seconds ends, and
\* a frame handed to a live bus is sent (the controller repeats it) or fails.
\* The bus owes no frames.
FairSpec ==
    /\ Spec
    /\ WF_vars(RxStep)
    /\ WF_vars(TakeTimeout)
    /\ WF_vars(UpStep)
    /\ WF_vars(TxDone)
-----------------------------------------------------------------------------
(* Properties. *)

(***************************************************************************)
(* When the receiver waits for a permit, at most the frames that came      *)
(* before it registered its callback are still queued: every later frame   *)
(* has its permit, whatever was overwritten.  The early ones stay: from    *)
(* then on a frame is handled only when that many later ones have come     *)
(* (mycan.c:24-33, 50-61, 73-84, 238-240).                                 *)
(***************************************************************************)
BacklogIsEarly == rxpc = "take" /\ rx_sem = 0 => Len(rx_fifo) <= early

(***************************************************************************)
(* A frame is handled twice (an old time set again, a second batch of      *)
(* replies) only after the queue has overwritten frames, whose permits are *)
(* left over: without an overrun no read comes back empty (mycan.c:76-84). *)
(***************************************************************************)
ReplayNeedsOverrun == rxpc = "read" /\ rx_fifo = <<>> => overrun

\* y may follow x in the mailbox: next of its batch, or first of another.
Follows(x, y) ==
    \/ x = NoCmd
    \/ y = cmd_list[1]
    \/ \E i \in 2 .. Len(cmd_list) : x = cmd_list[i - 1] /\ y = cmd_list[i]

(***************************************************************************)
(* The replies to a SYNC go out in order, and a full mailbox costs the end *)
(* of a batch, never its middle: the uploader cannot make room between two *)
(* posts of ccr_sync because it has the lower priority                     *)
(* (can_response.c:38-60, mycan.c:115-127, 243-251).                       *)
(***************************************************************************)
BatchHasNoGap ==
    LET q == <<cmd>> \o sync_mb
    IN  \A i \in 1 .. Len(q) - 1 : Follows(q[i], q[i + 1])

(***************************************************************************)
(* When the bus falls silent the node comes to rest: every reply has been  *)
(* sent and the communication failure is flagged, whatever backlog or      *)
(* left-over permits the traffic left behind (mycan.c:73-84, 115-127).     *)
(***************************************************************************)
SettlesWhenSilent ==
    []<><<Traffic>>_vars \/ <>[](comm_fail /\ sync_mb = <<>> /\ BoxFree)
=============================================================================
