------------------------------ MODULE PulseGen ------------------------------
(***************************************************************************)
(* The zero-crossing generator: pulse_generate.c.  A comparator output is  *)
(* low for a width w in the middle of each mains period, so the loop       *)
(* current crosses zero a quarter period before and after the middle of    *)
(* the low pulse.  int1_callback measures the width with timer1 and starts *)
(* timer2 so that it fires on the crossings; each firing drives the link   *)
(* (module LmsLink, action Crossing).                                      *)
(*                                                                         *)
(* Time is counted in half milliseconds and jumps from event to event;     *)
(* events due at the same instant are handled in any order.                *)
(***************************************************************************)
EXTENDS Integers, FiniteSets, FiniteSetsExt

CONSTANTS
    Widths,  \* low-pulse widths of the comparator, even; 0 is no pulse at all
    SECOND,  \* where the microsecond reading of timer1 wraps
    RELOAD,  \* period of timer1's counter
    Grains,  \* resolutions a reading of timer1 has as the uptime grows
    MaxSteady \* cap of the observer's count of equal periods

PERIOD == 40

QUARTER == 10

MinCaptureCurWidth == 21

MaxCaptureCurWidth == 39

Off == -1

ASSUME WidthAssumption == \A x \in Widths : x \in Nat /\ x % 2 = 0 /\ x < PERIOD

ASSUME ClockAssumption ==
    /\ RELOAD \in Nat /\ RELOAD >= 2 * PERIOD
    /\ SECOND \in Nat /\ SECOND % RELOAD = 0 /\ SECOND >= 2 * RELOAD
    /\ 1 \in Grains
    /\ \A g \in Grains : g \in 1 .. SECOND /\ SECOND % g = 0

ASSUME SteadyAssumption == MaxSteady \in Nat

VARIABLES
    now,               \* time since the period began
    clock,             \* timer1, modulo SECOND
    grain,             \* resolution of a reading of timer1 at this uptime
    width,             \* low-pulse width of this period
    stage,             \* edge the comparator gives next: "fall", "rise", "none"
    g_calibrate_flag,  \* a width has been captured and not yet used
    cross_pulse_us,    \* delay from falling edge to the first crossing
    t1_us,             \* reading of timer1 at the falling edge
    timer2,            \* time to the next crossing pulse, or Off
    timer3,            \* time to the end of the LED pulse, or Off
    captured,          \* observer: width of the period last captured
    fires,             \* observer: instants of this period at which timer2 fired
    steady             \* observer: periods in a row captured with this same width

vars == <<now, clock, grain, width, stage, g_calibrate_flag, cross_pulse_us, t1_us,
          timer2, timer3, captured, fires, steady>>

FirstEdge(w) == IF w = 0 THEN "none" ELSE "fall"

Init ==
    /\ now = 0
    /\ clock = 0
    /\ grain = 1
    /\ width \in Widths
    /\ stage = FirstEdge(width)
    /\ g_calibrate_flag = FALSE
    /\ cross_pulse_us = 0
    /\ t1_us = 0
    /\ timer2 = Off
    /\ timer3 = Off
    /\ captured = 0
    /\ fires = {}
    /\ steady = 0

-----------------------------------------------------------------------------
(* Events and the passage of time. *)

FallAt == PERIOD \div 2 - width \div 2

RiseAt == PERIOD \div 2 + width \div 2

\* Instants of this period at which the comparator or the period ends.
NextEdge == CASE stage = "fall" -> FallAt [] stage = "rise" -> RiseAt [] OTHER -> PERIOD

\* Time to the next event.
Gap == Min({NextEdge - now} \union ({timer2, timer3} \ {Off}))

Elapse(timer, d) == IF timer = Off THEN Off ELSE timer - d

\* timer1 counts modulo a second; neither a gap nor a reload is longer.
Wrapped(c) == IF c < 0 THEN c + SECOND ELSE IF c < SECOND THEN c ELSE c - SECOND

Advance ==
    /\ Gap > 0
    /\ now' = now + Gap
    /\ clock' = Wrapped(clock + Gap)
    /\ timer2' = Elapse(timer2, Gap)
    /\ timer3' = Elapse(timer3, Gap)
    /\ UNCHANGED <<grain, width, stage, g_calibrate_flag, cross_pulse_us, t1_us, captured,
                   fires, steady>>

\* The next period has a width of its own.
NewPeriod ==
    /\ now = PERIOD
    /\ now' = 0
    /\ width' \in Widths
    /\ stage' = FirstEdge(width')
    /\ fires' = {}
    /\ steady' = IF width' # width THEN 0 ELSE Min({steady + 1, MaxSteady})
    /\ UNCHANGED <<clock, grain, g_calibrate_flag, cross_pulse_us, t1_us, timer2, timer3,
                   captured>>

\* The float of rt_hwtimer_read holds the whole uptime: each time that
\* doubles, what is left for the fraction of the second is coarser.
Age ==
    /\ \E g \in Grains : g > grain /\ grain' = g
    /\ UNCHANGED <<now, clock, width, stage, g_calibrate_flag, cross_pulse_us, t1_us,
                   timer2, timer3, captured, fires, steady>>

\* The sum of reloads and count is rounded, up or down, to what the float
\* resolves: a multiple of the grain next to it.
Rounded(c) ==
    {Wrapped(m) : m \in {n \in c - (grain - 1) .. c + (grain - 1) : n % grain = 0}}

\* rt_device_read(timer1_ICR1).  At the instant the counter reloads, the
\* reload may not have been counted yet: the edge and timer1 interrupts have
\* the same priority.
Readings ==
    Rounded(clock)
    \union IF clock % RELOAD = 0 THEN Rounded(Wrapped(clock - RELOAD)) ELSE {}

-----------------------------------------------------------------------------
(* Interrupt handlers. *)

NoStart == UNCHANGED timer2

StartCross == timer2' = IF g_calibrate_flag THEN cross_pulse_us ELSE timer2

\* int1_callback, falling edge: time stamp, and the first crossing is due.
FallingEdge ==
    /\ stage = "fall"
    /\ now = FallAt
    /\ stage' = "rise"
    /\ t1_us' \in Readings
    /\ StartCross
    /\ UNCHANGED <<now, clock, grain, width, g_calibrate_flag, cross_pulse_us, timer3, captured,
                   fires, steady>>

\* The reading wraps every second.
PulseWidth(t1, t2) == IF t2 > t1 THEN t2 - t1 ELSE SECOND - t1 + t2

NoMaximum(icr1_time) == icr1_time >= MinCaptureCurWidth

NoMinimum(icr1_time) == icr1_time <= MaxCaptureCurWidth

InWindow(icr1_time) ==
    icr1_time >= MinCaptureCurWidth /\ icr1_time <= MaxCaptureCurWidth

\* int1_callback, rising edge: a width in the window calibrates the generator.
RisingEdge ==
    /\ stage = "rise"
    /\ now = RiseAt
    /\ stage' = "none"
    /\ \E t2_us \in Readings :
          LET icr1_time == PulseWidth(t1_us, t2_us)
          IN  \/ /\ InWindow(icr1_time)
                 /\ cross_pulse_us' = icr1_time \div 2 - QUARTER
                 /\ g_calibrate_flag' = TRUE
                 /\ captured' = width
                 /\ UNCHANGED steady
              \/ /\ ~InWindow(icr1_time)
                 /\ steady' = 0
                 /\ UNCHANGED <<cross_pulse_us, g_calibrate_flag, captured>>
    /\ UNCHANGED <<now, clock, grain, width, t1_us, timer2, timer3, fires>>

NextQuarter == QUARTER

\* From one zero crossing to the next: half a period.
NextCross == 2 * QUARTER

\* timer2_crossPulse_cb: LED pulse, second crossing 10 ms after the first,
\* ADC hand-over, one step of the link.
CrossPulse ==
    /\ timer2 = 0
    /\ timer3' = 2
    /\ \/ /\ g_calibrate_flag
          /\ timer2' = NextCross
          /\ g_calibrate_flag' = FALSE
       \/ /\ ~g_calibrate_flag
          /\ timer2' = Off
          /\ UNCHANGED g_calibrate_flag
    /\ fires' = fires \union {now}
    /\ UNCHANGED <<now, clock, grain, width, stage, cross_pulse_us, t1_us, captured, steady>>

\* timer3_pulseWidth_cb: the LED pulse ends.
PulseEnd ==
    /\ timer3 = 0
    /\ timer3' = Off
    /\ UNCHANGED <<now, clock, grain, width, stage, g_calibrate_flag, cross_pulse_us, t1_us,
                   timer2, captured, fires, steady>>

Next ==
    Advance \/ Age \/ NewPeriod \/ FallingEdge \/ RisingEdge \/ CrossPulse \/ PulseEnd

Spec == Init /\ [][Next]_vars

\* Time passes, and an interrupt that is due is served.
FairSpec == Spec /\ WF_vars(Next)
-----------------------------------------------------------------------------
(* Properties. *)

(* Types: the delay given to timer2 is never negative (it is unsigned in    *)
(* pulse_generate.c:170) and stays below a quarter period.                  *)
TypeOK ==
    /\ now \in 0 .. PERIOD
    /\ clock \in 0 .. SECOND - 1
    /\ grain \in Grains
    /\ width \in Widths
    /\ stage \in {"fall", "rise", "none"}
    /\ g_calibrate_flag \in BOOLEAN
    /\ cross_pulse_us \in 0 .. MaxCaptureCurWidth \div 2 - QUARTER
    /\ t1_us \in 0 .. SECOND - 1
    /\ timer2 \in {Off} \union (0 .. 2 * QUARTER)
    /\ timer3 \in {Off} \union (0 .. 2)
    /\ captured \in Widths \union {0}
    /\ fires \subseteq 0 .. PERIOD
    /\ steady \in 0 .. MaxSteady

(***************************************************************************)
(* A captured width is the true one, but for the resolution of the two     *)
(* readings it is the difference of: exact while that is fine, and at any  *)
(* uptime neither the wrap of the second nor a reload of timer1 that the   *)
(* edge interrupt overtook makes another width fall into the window        *)
(* (pulse_generate.c:154-173, hwtimer.c:173-175).                          *)
(***************************************************************************)
CaptureTrue ==
    g_calibrate_flag =>
        \E e \in -2 * (grain - 1) .. 2 * (grain - 1) :
            cross_pulse_us = (captured + e) \div 2 - QUARTER

(***************************************************************************)
(* While the readings are fine (grain 1): however the widths jumped before *)
(* (a drop can make the rising edge overtake the second firing, which then *)
(* starts a third), once MaxSteady periods with one width have been        *)
(* captured the generator fires on the two zero crossings of each period   *)
(* and at no other time; two periods are enough, one is not                *)
(* (pulse_generate.c:89-105, 129-175).                                     *)
(***************************************************************************)
Recovers ==
    grain = 1 /\ steady >= MaxSteady /\ InWindow(width) =>
        /\ fires \subseteq {QUARTER, PERIOD - QUARTER}
        /\ now > QUARTER => QUARTER \in fires
        /\ now > PERIOD - QUARTER => PERIOD - QUARTER \in fires

(***************************************************************************)
(* As its header says (pulse_generate.c:4), zero-cross pulses are made     *)
(* from the comparator's, as long as those are in the window.  True while  *)
(* no width is nearer to the window's limits than two readings round;      *)
(* violated once the readings of timer1 are coarser than the window: the   *)
(* float of rt_hwtimer_read holds the whole uptime, so from 2^18 s (three  *)
(* days) on it resolves 31 ms.                                             *)
(***************************************************************************)
PulsesRecur == <>[](InWindow(width)) => []<>(timer2 = 0)
=============================================================================
