---------------------------- MODULE MultiButton ----------------------------
(***************************************************************************)
(* One key of the front panel: multi_button.c as key_function.c sets it    *)
(* up.  Every 5 ms a timer interrupt runs button_handler, which debounces  *)
(* the pin and tells clicks, double clicks and long presses apart.  Only   *)
(* the callback of SINGLE_CLICK is attached; it is the key click of module *)
(* LmsHmi.  The four keys share nothing: each has a handle of its own, and *)
(* all four handlers run in the same tick.                                 *)
(***************************************************************************)
EXTENDS Naturals

CONSTANTS
    DEBOUNCE_TICKS,  \* equal samples that make a new level (3)
    SHORT_TICKS,     \* longest pause inside a gesture (60)
    LONG_TICKS,      \* longest press that is not a long one (200)
    TickMod,         \* ticks is an unsigned number of 16 bits (65536)
    MaxEdges         \* bound: presses of one gesture

ASSUME TickAssumption ==
    /\ DEBOUNCE_TICKS \in Nat
    /\ DEBOUNCE_TICKS > 1
    /\ SHORT_TICKS \in Nat
    /\ LONG_TICKS \in Nat
    /\ TickMod \in Nat
    /\ SHORT_TICKS + 2 < TickMod
    /\ LONG_TICKS + 2 < TickMod

ASSUME EdgeAssumption == MaxEdges \in Nat \ {0}

VARIABLES
    state,         \* handle->state
    ticks,         \* handle->ticks
    repeat,        \* handle->repeat
    event,         \* handle->event
    debounce_cnt,  \* handle->debounce_cnt
    button_level,  \* handle->button_level
    pin,           \* the level sampled last
    cb,            \* the events raised in this tick
    same,          \* observer: samples equal to the last one, so far
    edges,         \* observer: debounced presses since the machine was at rest
    overheld,      \* observer: 1 if a press was given up while held
    reported,      \* observer: the press or release raised last
    since,         \* observer: ticks since the last single click
    beat           \* alternates: a tick is a step even when nothing changes

handleVars == <<state, ticks, repeat, event>>
levelVars == <<debounce_cnt, button_level, pin, same>>
obsVars == <<edges, overheld, reported, since, beat>>

vars == <<handleVars, levelVars, cb, obsVars>>

\* The keys pull their pins to ground: buttons_init passes level 0.
ACTIVE == 0

Levels == {0, 1}

\* repeat is a bit field of four bits.
RepeatMod == 16

Events == {"PRESS_DOWN", "PRESS_UP", "PRESS_REPEAT", "SINGLE_CLICK", "DOUBLE_CLICK",
           "LONG_PRESS_START", "LONG_PRESS_HOLD"}

\* Ticks from one single click to the next, at least; since stops there.
ClickGap == SHORT_TICKS + DEBOUNCE_TICKS + 2

(* Types: the machine is in one of the five states that have a case, and    *)
(* the ticks that a state compares never wrap before the comparison is made *)
(* (multi_button.c:72, 86-161).                                             *)
TypeOK ==
    /\ state \in {0, 1, 2, 3, 5}
    /\ ticks \in 0 .. TickMod - 1
    /\ state = 1 => ticks <= LONG_TICKS
    /\ state \in {2, 3} => ticks <= SHORT_TICKS
    /\ repeat \in 0 .. RepeatMod - 1
    /\ event \in Events \union {"NONE_PRESS"}
    /\ debounce_cnt \in 0 .. DEBOUNCE_TICKS - 1
    /\ button_level \in Levels
    /\ pin \in Levels
    /\ cb \subseteq Events
    /\ same \in 0 .. DEBOUNCE_TICKS
    /\ edges \in 0 .. MaxEdges
    /\ overheld \in {0, 1}
    /\ reported \in {"PRESS_DOWN", "PRESS_UP"}
    /\ since \in 0 .. ClickGap
    /\ beat \in {0, 1}

\* button_init; a key may be held while the board starts, which counts as a
\* press.
Init ==
    /\ state = 0
    /\ ticks = 0
    /\ repeat = 0
    /\ event = "NONE_PRESS"
    /\ debounce_cnt = 0
    /\ button_level \in Levels
    /\ pin = button_level
    /\ cb = {}
    /\ same = DEBOUNCE_TICKS
    /\ edges = IF button_level = ACTIVE THEN 1 ELSE 0
    /\ overheld = 0
    /\ reported = IF button_level = ACTIVE THEN "PRESS_DOWN" ELSE "PRESS_UP"
    /\ since = ClickGap
    /\ beat = 0

-----------------------------------------------------------------------------
(* The first half of button_handler: clock and debouncing of a sample l. *)

StoppedClock == ticks

\* handle->ticks as the switch sees it: 16 bits that wrap.
Elapsed ==
    IF state = 0 THEN ticks
    ELSE IF ticks + 1 < TickMod THEN ticks + 1 ELSE 0

KeepTicks == ticks' = Elapsed

\* A press or a release starts the ticks again.
RestartTicks == ticks' = 0

\* A counter that bounces do not reset.
CountAlways(l) ==
    IF l = button_level THEN debounce_cnt ELSE (debounce_cnt + 1) % DEBOUNCE_TICKS

Count(l) ==
    IF l # button_level /\ debounce_cnt + 1 < DEBOUNCE_TICKS THEN debounce_cnt + 1 ELSE 0

Level(l) ==
    IF l # button_level /\ debounce_cnt + 1 >= DEBOUNCE_TICKS THEN l ELSE button_level

Down(l) == Level(l) = ACTIVE

\* A debounced press.
Edge(l) == Down(l) /\ button_level # ACTIVE

Sample(l) ==
    /\ edges < MaxEdges \/ ~Edge(l)
    /\ debounce_cnt' = Count(l)
    /\ button_level' = Level(l)
    /\ pin' = l
    /\ beat' = 1 - beat
    /\ same' = IF l # pin THEN 1 ELSE IF same < DEBOUNCE_TICKS THEN same + 1 ELSE same

\* What the observers make of the tick: es are the events raised.
Observe(l, es) ==
    /\ cb' = es
    /\ edges' = IF state' = 0 /\ ~Down(l) THEN 0 ELSE IF Edge(l) THEN edges + 1 ELSE edges
    /\ reported' = IF "PRESS_DOWN" \in es THEN "PRESS_DOWN"
                   ELSE IF "PRESS_UP" \in es THEN "PRESS_UP" ELSE reported
    /\ since' = IF "SINGLE_CLICK" \in es THEN 0
                ELSE IF since < ClickGap THEN since + 1 ELSE since

\* The end of a gesture.
Settle(l) == overheld' = IF state' = 0 /\ ~Down(l) THEN 0 ELSE overheld

-----------------------------------------------------------------------------
(* The second half: one action per branch of the switch. *)

Rest(l) ==
    /\ state = 0
    /\ ~Down(l)
    /\ event' = "NONE_PRESS"
    /\ UNCHANGED <<state, ticks, repeat, overheld>>
    /\ Observe(l, {})

\* A press that does not start the count again.
KeepRepeat == repeat' = IF repeat = 0 THEN 1 ELSE repeat

FirstPress == repeat' = 1

PressDown(l) ==
    /\ state = 0
    /\ Down(l)
    /\ event' = "PRESS_DOWN"
    /\ RestartTicks
    /\ FirstPress
    /\ state' = 1
    /\ Observe(l, {"PRESS_DOWN"})
    /\ overheld' = IF Edge(l) THEN 0 ELSE overheld

PressUp(l) ==
    /\ state = 1
    /\ ~Down(l)
    /\ event' = "PRESS_UP"
    /\ RestartTicks
    /\ state' = 2
    /\ UNCHANGED repeat
    /\ Observe(l, {"PRESS_UP"})
    /\ Settle(l)

LongPressStart(l) ==
    /\ state = 1
    /\ Down(l)
    /\ Elapsed > LONG_TICKS
    /\ event' = "LONG_PRESS_START"
    /\ ticks' = Elapsed
    /\ state' = 5
    /\ UNCHANGED repeat
    /\ Observe(l, {"LONG_PRESS_START"})
    /\ Settle(l)

\* No branch is taken: the key is held in state 1 or 3, or up in state 2.
Wait(l) ==
    /\ \/ state = 1 /\ Down(l) /\ Elapsed <= LONG_TICKS
       \/ state = 2 /\ ~Down(l) /\ Elapsed <= SHORT_TICKS
       \/ state = 3 /\ Down(l) /\ Elapsed <= SHORT_TICKS
    /\ ticks' = Elapsed
    /\ UNCHANGED <<state, repeat, event>>
    /\ Observe(l, {})
    /\ Settle(l)

PressRepeat(l) ==
    /\ state = 2
    /\ Down(l)
    /\ event' = "PRESS_DOWN"
    /\ repeat' = (repeat + 1) % RepeatMod
    /\ RestartTicks
    /\ state' = 3
    /\ Observe(l, {"PRESS_DOWN", "PRESS_REPEAT"})
    /\ Settle(l)

\* A gesture that ends at once.
NoPause == 0

\* The pause that ends a gesture.
Pause == SHORT_TICKS

\* A gesture of neither one nor two presses raises nothing.
Clicks ==
    CASE repeat = 1 -> {"SINGLE_CLICK"}
      [] repeat = 2 -> {"DOUBLE_CLICK"}
      [] OTHER -> {}

GestureEnd(l) ==
    /\ state = 2
    /\ ~Down(l)
    /\ Elapsed > Pause
    /\ event' = IF repeat = 1 THEN "SINGLE_CLICK"
                ELSE IF repeat = 2 THEN "DOUBLE_CLICK" ELSE event
    /\ ticks' = Elapsed
    /\ state' = 0
    /\ UNCHANGED repeat
    /\ Observe(l, Clicks)
    /\ Settle(l)

\* A release of a repeated press after SHORT_TICKS ends the gesture silently.
ReleaseAgain(l) ==
    /\ state = 3
    /\ ~Down(l)
    /\ event' = "PRESS_UP"
    /\ \/ /\ Elapsed < SHORT_TICKS
          /\ RestartTicks
          /\ state' = 2
       \/ /\ Elapsed >= SHORT_TICKS
          /\ ticks' = Elapsed
          /\ state' = 0
    /\ UNCHANGED repeat
    /\ Observe(l, {"PRESS_UP"})
    /\ Settle(l)

\* A repeated press held too long: back to state 0 with the key still down, so
\* that the next tick takes it for a new press.
GiveUp(l) ==
    /\ state = 3
    /\ Down(l)
    /\ Elapsed > SHORT_TICKS
    /\ ticks' = Elapsed
    /\ state' = 0
    /\ UNCHANGED <<repeat, event>>
    /\ Observe(l, {})
    /\ overheld' = 1

LongPressHold(l) ==
    /\ state = 5
    /\ Down(l)
    /\ event' = "LONG_PRESS_HOLD"
    /\ ticks' = Elapsed
    /\ UNCHANGED <<state, repeat>>
    /\ Observe(l, {"LONG_PRESS_HOLD"})
    /\ Settle(l)

\* A release of a long press that raises nothing.
SilentRelease == {}

LongRelease == {"PRESS_UP"}

LongPressUp(l) ==
    /\ state = 5
    /\ ~Down(l)
    /\ event' = "PRESS_UP"
    /\ ticks' = Elapsed
    /\ state' = 0
    /\ UNCHANGED repeat
    /\ Observe(l, LongRelease)
    /\ Settle(l)

Handle(l) ==
    \/ Rest(l)
    \/ PressDown(l)
    \/ PressUp(l)
    \/ LongPressStart(l)
    \/ Wait(l)
    \/ PressRepeat(l)
    \/ GestureEnd(l)
    \/ ReleaseAgain(l)
    \/ GiveUp(l)
    \/ LongPressHold(l)
    \/ LongPressUp(l)

\* button_handler, called by button_ticks in the timer interrupt.
Tick == \E l \in Levels : Sample(l) /\ Handle(l)

Next == Tick

Spec == Init /\ [][Next]_vars

\* The 5 ms timer is periodic: ticks go on.  The operator owes nothing.
FairSpec == Spec /\ WF_vars(Tick)
-----------------------------------------------------------------------------
(* Properties. *)

(***************************************************************************)
(* The debounced level changes exactly when DEBOUNCE_TICKS samples in a    *)
(* row had the other level: contact bounce, in any pattern, neither        *)
(* produces a press nor delays a settled one (multi_button.c:74-83).       *)
(***************************************************************************)
BounceRejected ==
    [][(button_level' # button_level) <=> (pin' # button_level /\ same' = DEBOUNCE_TICKS)]_vars

(***************************************************************************)
(* A single click means one press of the key, a double click two, with two *)
(* exceptions that the run shows to be real: the count is that of the      *)
(* presses modulo the width of the bit field (a seventeenth press makes a  *)
(* single click), and a repeated press that is held too long is given up   *)
(* and counts as the first one of a new gesture                            *)
(* (multi_button.c:112-145, multi_button.h:35).                            *)
(***************************************************************************)
ClickCount ==
    [][/\ "SINGLE_CLICK" \in cb' => edges % RepeatMod = 1 \/ overheld = 1
       /\ "DOUBLE_CLICK" \in cb' => edges % RepeatMod = 2 \/ overheld = 1]_vars

(***************************************************************************)
(* The press or release raised last is the state the key is in.  The one   *)
(* exception: a key let go in the very tick after the machine gave a held  *)
(* press up is never reported released (multi_button.c:86-97, 142-144).    *)
(***************************************************************************)
ReportsFollow ==
    \/ reported = "PRESS_DOWN" /\ button_level = ACTIVE
    \/ reported = "PRESS_UP" /\ button_level # ACTIVE
    \/ reported = "PRESS_DOWN" /\ button_level # ACTIVE /\ state = 0 /\ overheld = 1

(***************************************************************************)
(* One key clicks at most once in ClickGap ticks (325 ms), however it      *)
(* bounces: between two clicks lie a debounced press, its release and the  *)
(* pause.  The display thread's pass of 200 ms therefore sees at most one  *)
(* click per key (multi_button.c:112-130, hmi.c:414).                      *)
(***************************************************************************)
ClicksApart == []["SINGLE_CLICK" \in cb' => since + 1 >= ClickGap]_vars

(***************************************************************************)
(* A key that is let go for good brings the machine back to rest, whatever *)
(* gesture it was in: no press is waited for for ever                      *)
(* (multi_button.c:86-161).                                                *)
(***************************************************************************)
ComesToRest == <>[](pin # ACTIVE) => <>[](state = 0 /\ event = "NONE_PRESS")
=============================================================================
