--------------------------- MODULE CanNodeProofs ---------------------------
(***************************************************************************)
(* Proofs about the CAN node, for any size of the receive queue and of the *)
(* reply mailbox.                                                          *)
(***************************************************************************)
EXTENDS CanNode, TLAPS

\* The permit the receiver has taken and not yet read a frame for.
InHand == IF rxpc = "read" THEN 1 ELSE 0

\* Frames and permits balance: every queued frame is an early one or has its
\* permit, and without an overrun every permit has its frame.
BalanceInv ==
    /\ rxpc = "start" => early = Len(rx_fifo) /\ rx_sem = 0
    /\ Len(rx_fifo) <= early + rx_sem + InHand
    /\ ~overrun => Len(rx_fifo) = early + rx_sem + InHand

\* The mail posted last, or taken last if the mailbox is empty.
LastMail == IF sync_mb = <<>> THEN cmd ELSE sync_mb[Len(sync_mb)]

\* Mails follow each other, and between two posts of one batch either the last
\* mail is the previous one of the batch or the mailbox is still full.
BatchInv ==
    /\ rxpc # "post" => posted = 0
    /\ rxpc = "post" => posted > 0 /\ (Len(sync_mb) = CAN_MB_NUM \/ LastMail = cmd_list[posted])
    /\ sync_mb # <<>> => Follows(cmd, sync_mb[1])
    /\ \A i \in 1 .. Len(sync_mb) - 1 : Follows(sync_mb[i], sync_mb[i + 1])

NodeInv == TypeOK /\ BalanceInv /\ BatchInv
-----------------------------------------------------------------------------
LEMMA Sizes ==
    /\ BOX_SZ \in Nat /\ BOX_SZ > 0
    /\ CAN_MB_NUM \in Nat /\ CAN_MB_NUM > 0
    /\ MaxPermits \in Nat
  BY SizeAssumption

LEMMA ListFacts ==
    /\ Len(cmd_list) = 4
    /\ cmd_list[1] = "CCR_IO" /\ cmd_list[2] = "CCR_LOOP_V_I_INFO"
    /\ cmd_list[3] = "UPS_ANALOG" /\ cmd_list[4] = "UPS_IO"
    /\ \A i \in 1 .. 4 : cmd_list[i] \in Mails
  BY DEF cmd_list, Mails

LEMMA EnqueueFacts ==
    ASSUME TypeOK, NEW f \in Frames, Enqueue(f)
    PROVE  /\ rx_fifo' \in Seq(Frames)
           /\ Len(rx_fifo') = IF Len(rx_fifo) = BOX_SZ THEN BOX_SZ ELSE Len(rx_fifo) + 1
           /\ Len(rx_fifo') <= BOX_SZ
  BY Sizes DEF TypeOK, Enqueue

LEMMA OverrunFacts ==
    ASSUME TypeOK, NEW f \in Frames, Enqueue(f)
    PROVE  /\ overrun' \in BOOLEAN
           /\ ~overrun' => ~overrun /\ Len(rx_fifo) # BOX_SZ
  BY DEF TypeOK, Enqueue

\* A post appends a mail or leaves the full mailbox as it is.
LEMMA MbSendFacts ==
    ASSUME NEW q \in Seq(Mails), Len(q) <= CAN_MB_NUM, NEW c \in Mails
    PROVE  /\ MbSend(q, c) \in Seq(Mails)
           /\ Len(MbSend(q, c)) <= CAN_MB_NUM
           /\ \/ MbSend(q, c) = Append(q, c) /\ Len(q) < CAN_MB_NUM
              \/ MbSend(q, c) = q /\ Len(q) = CAN_MB_NUM
  BY Sizes DEF MbSend

LEMMA TypeStep == ASSUME TypeOK, BalanceInv, [Next]_vars PROVE TypeOK'
<1> USE Sizes DEF TypeOK
<1>1. ASSUME NEW f \in Frames, ArriveEarly(f) PROVE TypeOK'
  <2>1. Enqueue(f) /\ overrun' \in BOOLEAN
    BY <1>1, OverrunFacts DEF ArriveEarly
  <2>2. /\ rx_fifo' \in Seq(Frames) /\ Len(rx_fifo') <= BOX_SZ
    BY <2>1, EnqueueFacts
  <2>3. early' \in 0 .. BOX_SZ
    <3>1. early = Len(rx_fifo)
      BY <1>1 DEF ArriveEarly, BalanceInv
    <3> QED
      BY <1>1, <3>1 DEF ArriveEarly
  <2>4. UNCHANGED <<rx_sem, rxpc, rxmsg, posted, comm_fail, sync_mb, uppc, cmd>>
    BY <1>1 DEF ArriveEarly, upVars
  <2> QED
    BY <2>1, <2>2, <2>3, <2>4
<1>2. ASSUME NEW f \in Frames, Arrive(f) PROVE TypeOK'
  <2>1. Enqueue(f) /\ overrun' \in BOOLEAN
    BY <1>2, OverrunFacts DEF Arrive
  <2>2. /\ rx_fifo' \in Seq(Frames) /\ Len(rx_fifo') <= BOX_SZ
    BY <2>1, EnqueueFacts
  <2>3. rx_sem' \in 0 .. MaxPermits
    BY <1>2 DEF Arrive, can_rx_call
  <2>4. UNCHANGED <<rxpc, rxmsg, posted, comm_fail, sync_mb, uppc, cmd, early>>
    BY <1>2 DEF Arrive, upVars
  <2> QED
    BY <2>1, <2>2, <2>3, <2>4
<1>3. CASE TxDone
  <2>1. /\ rxpc' \in {"start", "take", "read", "parse", "post", "send", "sending"}
        /\ uppc' \in {"recv", "send", "sending"}
    BY <1>3 DEF TxDone
  <2>2. UNCHANGED <<rx_fifo, rx_sem, rxmsg, posted, comm_fail, sync_mb, cmd, early, overrun>>
    BY <1>3 DEF TxDone, obsVars
  <2> QED
    BY <2>1, <2>2
<1>4. CASE Start
  BY <1>4 DEF Start, upVars, obsVars
<1>5. CASE Take
  <2>1. rx_sem' \in 0 .. MaxPermits /\ rxpc' = "read" /\ comm_fail' = FALSE
    BY <1>5 DEF Take
  <2>2. UNCHANGED <<rx_fifo, rxmsg, posted, sync_mb, uppc, cmd, early, overrun>>
    BY <1>5 DEF Take, upVars, obsVars
  <2> QED
    BY <2>1, <2>2
<1>6. CASE TakeTimeout
  BY <1>6 DEF TakeTimeout, upVars, obsVars
<1>7. CASE Read
  <2>1. rx_fifo' \in Seq(Frames) /\ Len(rx_fifo') <= BOX_SZ /\ rxmsg' \in Frames
    BY <1>7 DEF Read
  <2>2. rxpc' = "parse" /\ UNCHANGED <<rx_sem, posted, comm_fail, sync_mb, uppc, cmd, early, overrun>>
    BY <1>7 DEF Read, upVars, obsVars
  <2> QED
    BY <2>1, <2>2
<1>8. CASE Quiet \/ Answer \/ Send
  BY <1>8 DEF Quiet, Answer, Send, upVars, obsVars
<1>9. CASE SyncPost
  <2>1. posted + 1 \in 1 .. 4 /\ cmd_list[posted + 1] \in Mails
    BY ListFacts
  <2>2. sync_mb' \in Seq(Mails) /\ Len(sync_mb') <= CAN_MB_NUM
    BY <1>9, <2>1, MbSendFacts DEF SyncPost
  <2>3. posted' \in 0 .. Len(cmd_list) - 1 /\ rxpc' \in {"post", "take"}
    BY <1>9, <2>1, ListFacts DEF SyncPost
  <2>4. UNCHANGED <<rx_fifo, rx_sem, rxmsg, comm_fail, uppc, cmd, early, overrun>>
    BY <1>9 DEF SyncPost, obsVars
  <2> QED
    BY <2>2, <2>3, <2>4
<1>10. CASE UpRecv \/ UpSend
  <2>1. /\ sync_mb' \in Seq(Mails) /\ Len(sync_mb') <= CAN_MB_NUM
        /\ cmd' \in Mails \union {NoCmd} /\ uppc' \in {"send", "sending"}
    <3>1. CASE UpRecv
      BY <3>1 DEF UpRecv
    <3>2. CASE UpSend
      BY <3>2 DEF UpSend
    <3> QED
      BY <1>10, <3>1, <3>2
  <2>2. UNCHANGED <<rx_fifo, rx_sem, rxpc, rxmsg, posted, comm_fail, early, overrun>>
    BY <1>10 DEF UpRecv, UpSend, rxVars, obsVars
  <2> QED
    BY <2>1, <2>2
<1>11. CASE UNCHANGED vars
  BY <1>11 DEF vars, rxVars, upVars, obsVars
<1> QED
  BY <1>1, <1>2, <1>3, <1>4, <1>5, <1>6, <1>7, <1>8, <1>9, <1>10, <1>11
  DEF Next, Traffic, RxStep, UpStep

LEMMA BalanceStep == ASSUME TypeOK, BalanceInv, [Next]_vars PROVE BalanceInv'
<1>n. /\ Len(rx_fifo) \in Nat /\ Len(rx_fifo) <= BOX_SZ /\ rx_sem \in Nat /\ early \in Nat
      /\ InHand \in {0, 1} /\ BOX_SZ \in Nat /\ BOX_SZ > 0
  BY Sizes DEF TypeOK, InHand
<1>b. overrun \in BOOLEAN
  BY DEF TypeOK
<1>1. ASSUME NEW f \in Frames, ArriveEarly(f) PROVE BalanceInv'
  <2>1. /\ Len(rx_fifo') = IF Len(rx_fifo) = BOX_SZ THEN BOX_SZ ELSE Len(rx_fifo) + 1
        /\ ~overrun' => ~overrun /\ Len(rx_fifo) # BOX_SZ
    BY <1>1, EnqueueFacts, OverrunFacts DEF ArriveEarly
  <2>2. /\ rxpc = "start" /\ UNCHANGED <<rxpc, rx_sem>>
        /\ early' = IF Len(rx_fifo) = BOX_SZ THEN early ELSE early + 1
    BY <1>1 DEF ArriveEarly
  <2>3. early = Len(rx_fifo) /\ rx_sem = 0
    BY <2>2 DEF BalanceInv
  <2> QED
    BY <1>n, <2>1, <2>2, <2>3 DEF BalanceInv, InHand
<1>2. ASSUME NEW f \in Frames, Arrive(f) PROVE BalanceInv'
  <2>1. /\ Len(rx_fifo') = IF Len(rx_fifo) = BOX_SZ THEN BOX_SZ ELSE Len(rx_fifo) + 1
        /\ ~overrun' => ~overrun /\ Len(rx_fifo) # BOX_SZ
    BY <1>2, EnqueueFacts, OverrunFacts DEF Arrive
  <2>2. rxpc # "start" /\ rx_sem' = rx_sem + 1 /\ UNCHANGED <<rxpc, early>>
    BY <1>2 DEF Arrive, can_rx_call
  <2> QED
    BY <1>n, <2>1, <2>2 DEF BalanceInv, InHand
<1>3. CASE Take
  <2>1. /\ rxpc = "take" /\ rxpc' = "read" /\ rx_sem' = rx_sem - 1
        /\ UNCHANGED <<rx_fifo, early, overrun>>
    BY <1>3 DEF Take, obsVars
  <2> QED
    BY <1>n, <2>1 DEF BalanceInv, InHand
<1>4. CASE Read
  <2>1. rxpc = "read" /\ rxpc' = "parse" /\ UNCHANGED <<rx_sem, early, overrun>>
    BY <1>4 DEF Read, obsVars
  <2>2. CASE rx_fifo # <<>> /\ rx_fifo' = Tail(rx_fifo)
    <3>1. Len(rx_fifo') = Len(rx_fifo) - 1
      BY <2>2 DEF TypeOK
    <3> QED
      BY <1>n, <2>1, <3>1 DEF BalanceInv, InHand
  <2>3. CASE rx_fifo = <<>> /\ rx_fifo' = rx_fifo
    <3>1. Len(rx_fifo) = 0 /\ Len(rx_fifo') = 0
      BY <2>3
    <3> QED
      BY <1>n, <2>1, <3>1 DEF BalanceInv, InHand
  <2> QED
    BY <1>4, <2>2, <2>3 DEF Read
<1>5. CASE UNCHANGED <<rx_fifo, rx_sem, early, overrun>> /\ rxpc # "read" /\ rxpc' \notin {"read", "start"}
  BY <1>5 DEF BalanceInv, InHand
<1>6. CASE UNCHANGED <<rx_fifo, rx_sem, early, overrun, rxpc>>
  BY <1>6 DEF BalanceInv, InHand
<1>7. CASE TxDone
  <2>1. \/ UNCHANGED rxpc
        \/ rxpc = "sending" /\ rxpc' = "take"
    BY <1>7 DEF TxDone
  <2>2. UNCHANGED <<rx_fifo, rx_sem, early, overrun>>
    BY <1>7 DEF TxDone, obsVars
  <2> QED
    BY <1>5, <1>6, <2>1, <2>2
<1>8. CASE Start \/ Quiet \/ Answer \/ Send
  BY <1>5, <1>8 DEF Start, Quiet, Answer, Send, obsVars
<1>9. CASE SyncPost
  BY <1>5, <1>9 DEF SyncPost, obsVars
<1>10. CASE TakeTimeout \/ UpRecv \/ UpSend \/ UNCHANGED vars
  BY <1>6, <1>10 DEF TakeTimeout, UpRecv, UpSend, rxVars, obsVars, vars
<1> QED
  BY <1>1, <1>2, <1>3, <1>4, <1>7, <1>8, <1>9, <1>10 DEF Next, Traffic, RxStep, UpStep

LEMMA BatchStep == ASSUME TypeOK, BatchInv, [Next]_vars PROVE BatchInv'
<1>m. sync_mb \in Seq(Mails) /\ Len(sync_mb) <= CAN_MB_NUM /\ posted \in 0 .. 3 /\ cmd \in Mails \union {NoCmd}
  BY ListFacts DEF TypeOK
<1>1. CASE UNCHANGED <<sync_mb, cmd, posted>> /\ rxpc # "post" /\ rxpc' # "post"
  BY <1>1 DEF BatchInv, LastMail, Follows
<1>2. CASE UNCHANGED <<sync_mb, cmd, posted, rxpc>>
  BY <1>2 DEF BatchInv, LastMail, Follows
<1>3. CASE SyncPost
  <2>c. cmd_list[posted + 1] \in Mails
    BY <1>m, ListFacts
  <2> DEFINE c == cmd_list[posted + 1]
  <2>1. /\ rxpc \in {"parse", "post"} /\ cmd' = cmd /\ sync_mb' = MbSend(sync_mb, c)
        /\ \/ posted' = posted + 1 /\ rxpc' = "post"
           \/ posted' = 0 /\ rxpc' = "take"
    BY <1>3 DEF SyncPost
  <2>2. \/ sync_mb' = Append(sync_mb, c) /\ Len(sync_mb) < CAN_MB_NUM
        \/ sync_mb' = sync_mb /\ Len(sync_mb) = CAN_MB_NUM
    BY <1>m, <2>c, <2>1, MbSendFacts
  <2>3. CASE sync_mb' = sync_mb /\ Len(sync_mb) = CAN_MB_NUM
    BY <1>m, <2>1, <2>3 DEF BatchInv, Follows
  <2>4. CASE sync_mb' = Append(sync_mb, c) /\ Len(sync_mb) < CAN_MB_NUM
    <3>1. Follows(LastMail, c)
      <4>1. posted = 0 \/ (posted \in 1 .. 3 /\ LastMail = cmd_list[posted])
        BY <1>m, <2>1, <2>4, Sizes DEF BatchInv
      <4> QED
        BY <4>1, ListFacts DEF Follows
    <3> HIDE DEF c
    <3>2. /\ Len(sync_mb') = Len(sync_mb) + 1
          /\ \A i \in 1 .. Len(sync_mb) : sync_mb'[i] = sync_mb[i]
          /\ sync_mb'[Len(sync_mb) + 1] = c
          /\ sync_mb' # <<>>
      BY <1>m, <2>4, <2>c DEF c
    <3>3. Follows(cmd, sync_mb'[1])
      <4>1. CASE sync_mb = <<>>
        BY <3>1, <3>2, <4>1 DEF LastMail
      <4>2. CASE sync_mb # <<>>
        BY <1>m, <3>2, <4>2 DEF BatchInv
      <4> QED
        BY <4>1, <4>2
    <3>4. ASSUME NEW i \in 1 .. Len(sync_mb') - 1
          PROVE  Follows(sync_mb'[i], sync_mb'[i + 1])
      <4>1. CASE i < Len(sync_mb)
        <5>1. i \in 1 .. Len(sync_mb) - 1 /\ sync_mb'[i] = sync_mb[i] /\ sync_mb'[i + 1] = sync_mb[i + 1]
          BY <1>m, <3>2, <3>4, <4>1
        <5> QED
          BY <5>1 DEF BatchInv
      <4>2. CASE i = Len(sync_mb)
        <5>1. sync_mb # <<>> /\ sync_mb'[i] = LastMail /\ sync_mb'[i + 1] = c
          BY <1>m, <3>2, <3>4, <4>2 DEF LastMail
        <5> QED
          BY <3>1, <5>1
      <4> QED
        BY <1>m, <3>2, <3>4, <4>1, <4>2
    <3>5. rxpc' = "post" => posted' > 0 /\ LastMail' = cmd_list[posted']
      BY <1>m, <2>1, <3>2 DEF LastMail, c
    <3>6. rxpc' # "post" => posted' = 0
      BY <2>1
    <3>7. cmd' = cmd
      BY <2>1
    <3> QED
      BY <3>3, <3>4, <3>5, <3>6, <3>7 DEF BatchInv, Follows
  <2> QED
    BY <2>2, <2>3, <2>4
<1>4. CASE UpRecv
  <2>1. /\ rxpc # "post" /\ UNCHANGED <<rxpc, posted>>
        /\ sync_mb # <<>> /\ cmd' = Head(sync_mb) /\ sync_mb' = Tail(sync_mb)
    BY <1>4 DEF UpRecv, UpRuns, RxBlocked, rxVars
  <2>2. /\ Len(sync_mb') = Len(sync_mb) - 1 /\ cmd' = sync_mb[1] /\ Len(sync_mb) >= 1
        /\ \A i \in 1 .. Len(sync_mb') : sync_mb'[i] = sync_mb[i + 1]
    BY <1>m, <2>1
  <2>3. sync_mb' # <<>> => Follows(cmd', sync_mb'[1])
    <3>1. sync_mb' # <<>> => 1 \in 1 .. Len(sync_mb) - 1 /\ sync_mb'[1] = sync_mb[1 + 1]
      BY <1>m, <2>1, <2>2
    <3> QED
      BY <2>2, <3>1 DEF BatchInv
  <2>4. \A i \in 1 .. Len(sync_mb') - 1 : Follows(sync_mb'[i], sync_mb'[i + 1])
    <3>1. SUFFICES ASSUME NEW i \in 1 .. Len(sync_mb') - 1
                   PROVE  Follows(sync_mb'[i], sync_mb'[i + 1])
      OBVIOUS
    <3>2. /\ i + 1 \in 1 .. Len(sync_mb) - 1 /\ sync_mb'[i] = sync_mb[i + 1]
          /\ sync_mb'[i + 1] = sync_mb[(i + 1) + 1]
      BY <1>m, <2>2
    <3> QED
      BY <3>2 DEF BatchInv
  <2>5. rxpc' # "post" /\ posted' = 0
    BY <2>1 DEF BatchInv
  <2> QED
    BY <2>3, <2>4, <2>5 DEF BatchInv
<1>5. ASSUME NEW f \in Frames, ArriveEarly(f) \/ Arrive(f) PROVE BatchInv'
  BY <1>2, <1>5 DEF ArriveEarly, Arrive, upVars
<1>6. CASE TxDone
  <2>1. UNCHANGED rxpc \/ (rxpc = "sending" /\ rxpc' = "take")
    BY <1>6 DEF TxDone
  <2>2. UNCHANGED <<sync_mb, cmd, posted>>
    BY <1>6 DEF TxDone
  <2> QED
    BY <1>1, <1>2, <2>1, <2>2
<1>7. CASE Start \/ Take \/ Read \/ Quiet \/ Answer \/ Send
  BY <1>1, <1>7 DEF Start, Take, Read, Quiet, Answer, Send, upVars
<1>8. CASE TakeTimeout \/ UpSend \/ UNCHANGED vars
  BY <1>2, <1>8 DEF TakeTimeout, UpSend, rxVars, upVars, vars
<1> QED
  BY <1>3, <1>4, <1>5, <1>6, <1>7, <1>8 DEF Next, Traffic, RxStep, UpStep

LEMMA NodeInit == ASSUME Init PROVE NodeInv
<1>1. rx_fifo = <<>> /\ Len(rx_fifo) = 0 /\ sync_mb = <<>> /\ Len(sync_mb) = 0
  BY DEF Init
<1>2. TypeOK
  <2>1. /\ rx_fifo \in Seq(Frames) /\ sync_mb \in Seq(Mails)
        /\ Len(rx_fifo) <= BOX_SZ /\ Len(sync_mb) <= CAN_MB_NUM
    BY <1>1, Sizes
  <2>2. comm_fail \in BOOLEAN /\ overrun \in BOOLEAN
    BY DEF Init
  <2>3. rx_sem \in 0 .. MaxPermits /\ posted \in 0 .. Len(cmd_list) - 1 /\ early \in 0 .. BOX_SZ
    BY Sizes, ListFacts DEF Init
  <2> QED
    BY <2>1, <2>2, <2>3 DEF Init, TypeOK, Frames
<1>3. BalanceInv
  BY <1>1 DEF Init, BalanceInv, InHand
<1>4. BatchInv
  BY <1>1 DEF Init, BatchInv
<1> QED
  BY <1>2, <1>3, <1>4 DEF NodeInv

LEMMA NodeInductive == Spec => []NodeInv
<1>1. ASSUME NodeInv, [Next]_vars PROVE NodeInv'
  BY <1>1, TypeStep, BalanceStep, BatchStep DEF NodeInv
<1> QED
  BY NodeInit, <1>1, PTL DEF Spec

(***************************************************************************)
(* The receive queue, the semaphore, the mailbox and the index into        *)
(* cmd_list stay within their size, for any sizes (mycan.c, can_response.c)*)
(***************************************************************************)
THEOREM NodeTypeCorrect == Spec => []TypeOK
<1>1. NodeInv => TypeOK
  BY DEF NodeInv
<1> QED
  BY NodeInductive, <1>1, PTL

(***************************************************************************)
(* Only frames that came before the callback was registered stay in the    *)
(* queue while the receiver waits (mycan.c:24-33, 50-84).                  *)
(***************************************************************************)
THEOREM BacklogBounded == Spec => []BacklogIsEarly
<1>1. NodeInv => BacklogIsEarly
  <2>1. ASSUME NodeInv, rxpc = "take", rx_sem = 0 PROVE Len(rx_fifo) <= early
    <3>1. InHand = 0 /\ early \in Nat
      BY <2>1, Sizes DEF InHand, NodeInv, TypeOK
    <3> QED
      BY <2>1, <3>1 DEF NodeInv, BalanceInv
  <2> QED
    BY <2>1 DEF BacklogIsEarly
<1> QED
  BY NodeInductive, <1>1, PTL

(***************************************************************************)
(* Without an overrun of the queue no frame is handled twice               *)
(* (mycan.c:73-84).                                                        *)
(***************************************************************************)
THEOREM NoReplay == Spec => []ReplayNeedsOverrun
<1>1. NodeInv => ReplayNeedsOverrun
  <2>1. ASSUME NodeInv, rxpc = "read", rx_fifo = <<>>, ~overrun PROVE FALSE
    <3>1. Len(rx_fifo) = 0 /\ InHand = 1
      BY <2>1 DEF InHand
    <3>2. early \in Nat /\ rx_sem \in Nat
      BY <2>1, Sizes DEF NodeInv, TypeOK
    <3> QED
      BY <2>1, <3>1, <3>2 DEF NodeInv, BalanceInv
  <2> QED
    BY <2>1 DEF ReplayNeedsOverrun
<1> QED
  BY NodeInductive, <1>1, PTL

(***************************************************************************)
(* Replies to a SYNC go out in order and a full mailbox costs only the end *)
(* of a batch (can_response.c:38-60, mycan.c:115-127).                     *)
(***************************************************************************)
THEOREM BatchesHaveNoGap == Spec => []BatchHasNoGap
<1>1. NodeInv => BatchHasNoGap
  <2>1. SUFFICES ASSUME NodeInv, NEW i \in 1 .. Len(<<cmd>> \o sync_mb) - 1
                 PROVE  Follows((<<cmd>> \o sync_mb)[i], (<<cmd>> \o sync_mb)[i + 1])
    BY DEF BatchHasNoGap
  <2>2. sync_mb \in Seq(Mails) /\ cmd \in Mails \union {NoCmd}
    BY <2>1 DEF NodeInv, TypeOK
  <2>3. CASE i = 1
    <3>1. sync_mb # <<>> /\ (<<cmd>> \o sync_mb)[i] = cmd /\ (<<cmd>> \o sync_mb)[i + 1] = sync_mb[1]
      BY <2>1, <2>2, <2>3
    <3> QED
      BY <2>1, <3>1 DEF NodeInv, BatchInv
  <2>4. CASE i > 1
    <3>1. /\ i - 1 \in 1 .. Len(sync_mb) - 1
          /\ (<<cmd>> \o sync_mb)[i] = sync_mb[i - 1]
          /\ (<<cmd>> \o sync_mb)[i + 1] = sync_mb[(i - 1) + 1]
      BY <2>1, <2>2, <2>4
    <3> QED
      BY <2>1, <3>1 DEF NodeInv, BatchInv
  <2> QED
    BY <2>2, <2>3, <2>4
<1> QED
  BY NodeInductive, <1>1, PTL
=============================================================================
