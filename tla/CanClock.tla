------------------------------ MODULE CanClock ------------------------------
(***************************************************************************)
(* The system clock that the CAN nodes share: a 1 ms timer interrupt       *)
(* advances it (timeout, mycan.c), and a SYNC_TIME frame on any bus sets   *)
(* it with two stores (ccr_sync_time, can_response.c), first the seconds,  *)
(* then the milliseconds.                                                  *)
(*                                                                         *)
(* Contexts.  The receiver of a lower bus number has the higher priority   *)
(* and can preempt another between its two stores; the timer interrupts    *)
(* both.  The code checks neither the received milliseconds nor that the   *)
(* masters of the buses agree: any 16-bit value is stored, and a receiver  *)
(* nested in another can leave its own seconds under the other's           *)
(* milliseconds.                                                           *)
(***************************************************************************)
EXTENDS Integers, FiniteSets

CONSTANTS
    Buses,      \* the buses, by number
    Times,      \* the times SYNC_TIME frames carry, <<seconds, ms>>
    MS,         \* milliseconds of a second (1000)
    TOP,        \* milliseconds from which the timer no longer counts (65530)
    WORD,       \* the largest 16-bit value (65535)
    MaxHeld,    \* ticks for which other threads keep a receiver between its stores
    MaxSeconds  \* bound of the clock

ASSUME BusAssumption == Buses \subseteq Nat /\ IsFiniteSet(Buses)

ASSUME TimeAssumption ==
    /\ MS \in Nat \ {0} /\ TOP \in Nat /\ WORD \in Nat
    /\ MS <= TOP /\ TOP <= WORD
    /\ MaxSeconds \in Nat
    /\ Times \subseteq (0 .. MaxSeconds) \X (0 .. WORD)

\* The threads before the receivers, main and hmi, hold them up by less than
\* a second.
ASSUME HeldAssumption == MaxHeld \in 0 .. MS - 1

VARIABLES
    seconds,  \* sys.mycan.para.seconds
    ms,       \* sys.mycan.para.ms
    rxpc,     \* per receiver: its next store
    time,     \* per receiver: the time in its frame
    held,     \* ticks since a receiver stored the seconds
    target,   \* observer: the values stored last, plus the ticks since
    secondsOf, msOf  \* observers: whose frame they are from

vars == <<seconds, ms, rxpc, time, held, target, secondsOf, msOf>>

NoBus == -1

\* A receiver is between the two stores of ccr_sync_time.
Setting == \E b \in Buses : rxpc[b] = "ms"

(* Types: whatever is received, the milliseconds stay a 16-bit value       *)
(* (mycan.c:342-352, can_response.c:25).                                   *)
TypeOK ==
    /\ seconds \in 0 .. MaxSeconds
    /\ ms \in 0 .. WORD
    /\ rxpc \in [Buses -> {"idle", "seconds", "ms"}]
    /\ time \in [Buses -> Times \union {<<0, 0>>}]
    /\ held \in 0 .. MaxHeld
    /\ target \in Nat \X (0 .. WORD)
    /\ secondsOf \in Buses \union {NoBus} /\ msOf \in Buses \union {NoBus}

Init ==
    /\ seconds = 0
    /\ ms = 0
    /\ rxpc = [b \in Buses |-> "idle"]
    /\ time = [b \in Buses |-> <<0, 0>>]
    /\ held = 0
    /\ target = <<0, 0>>
    /\ secondsOf = NoBus /\ msOf = NoBus

Ticked(t) ==
    LET m == IF t[2] < TOP THEN t[2] + 1 ELSE t[2]
    IN  IF m >= MS THEN <<t[1] + 1, 0>> ELSE <<t[1], m>>

Tick ==
    /\ seconds < MaxSeconds
    /\ LET next == Ticked(<<seconds, ms>>)
       IN  seconds' = next[1] /\ ms' = next[2]
    /\ \/ /\ Setting
          /\ held < MaxHeld
          /\ held' = held + 1
          /\ UNCHANGED target
       \/ /\ ~Setting
          /\ target' = Ticked(target)
          /\ UNCHANGED held
    /\ UNCHANGED <<rxpc, time, secondsOf, msOf>>

\* A receiver runs while those before it wait for a frame.
RxRuns(b) == \A c \in Buses : c < b => rxpc[c] = "idle"

\* A receiver has read a SYNC_TIME frame.
Receive(b, t) ==
    /\ rxpc[b] = "idle"
    /\ RxRuns(b)
    /\ rxpc' = [rxpc EXCEPT ![b] = "seconds"]
    /\ time' = [time EXCEPT ![b] = t]
    /\ UNCHANGED <<seconds, ms, held, target, secondsOf, msOf>>

StoreSeconds(b) ==
    /\ rxpc[b] = "seconds"
    /\ RxRuns(b)
    /\ seconds' = time[b][1]
    /\ rxpc' = [rxpc EXCEPT ![b] = "ms"]
    /\ target' = <<time[b][1], target[2]>>
    /\ secondsOf' = b
    /\ UNCHANGED <<ms, time, held, msOf>>

\* The receiver stores the milliseconds, or only starts them again.
ResetMs(b) == ms' = 0

SetMs(b) == ms' = time[b][2]

StoreMs(b) ==
    /\ rxpc[b] = "ms"
    /\ RxRuns(b)
    /\ SetMs(b)
    /\ rxpc' = [rxpc EXCEPT ![b] = "idle"]
    /\ target' = <<target[1], time[b][2]>>
    /\ msOf' = b
    /\ held' = IF \E c \in Buses \ {b} : rxpc[c] = "ms" THEN held ELSE 0
    /\ UNCHANGED <<seconds, time, secondsOf>>

Next ==
    \/ Tick
    \/ \E b \in Buses, t \in Times : Receive(b, t)
    \/ \E b \in Buses : StoreSeconds(b) \/ StoreMs(b)

Spec == Init /\ [][Next]_vars
-----------------------------------------------------------------------------
(* Properties. *)

(***************************************************************************)
(* What a SYNC_TIME leaves when it races the timer and the other buses'    *)
(* SYNC_TIMEs (can_response.c:16-29, mycan.c:338-353).  If no receiver     *)
(* nested in it, both stored values are of one frame and the clock is that *)
(* frame's time or one second fast: a tick between the stores that ends a  *)
(* second is added to the new seconds.  If one did, the seconds are the    *)
(* nested frame's, so that the clock may be slow against the outer frame,  *)
(* and fast against the stored values by at most one second per bus: the   *)
(* nested races add up.  The milliseconds are never lost.                  *)
(***************************************************************************)
FastBySecondPerBus ==
    ~Setting =>
        /\ ms = target[2]
        /\ seconds - target[1] \in 0 .. IF secondsOf = msOf THEN 1 ELSE Cardinality(Buses)
=============================================================================
