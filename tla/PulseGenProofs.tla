--------------------------- MODULE PulseGenProofs ---------------------------
(***************************************************************************)
(* Proofs about PulseGen for any set of widths, any timer1 and any course  *)
(* of its resolution.                                                      *)
(***************************************************************************)
EXTENDS PulseGen, TLAPS

\* The clock at the falling edge of this period.
Base == Wrapped(clock - (now - FallAt))

\* When timer2 fires, if it runs.
Due == now + timer2

\* The delay is right for the width of this period.
Right == cross_pulse_us = width \div 2 - QUARTER

\* Time does not pass an edge.
TimeInv ==
    /\ stage = "fall" => now <= FallAt
    /\ stage = "rise" => now >= FallAt /\ now <= RiseAt
    /\ stage = "none" => width = 0 \/ now >= RiseAt
    /\ stage # "none" => width > 0

\* x is a reading of timer1 taken when it stood at c.
Near(x, c) == \E m \in c - (grain - 1) .. c + (grain - 1) : x = Wrapped(m)

\* The stamp is the clock at the falling edge, or a reload behind, to within
\* the resolution.
StampInv == stage = "rise" => Near(t1_us, Base) \/ Near(t1_us, Wrapped(Base - RELOAD))

\* Readings resolve what is measured, and the width is in the window.
Fresh == grain = 1 /\ InWindow(width)

\* Whatever the widths were before, a width in the window bounds timer2.
LooseInv ==
    Fresh =>
        /\ stage = "rise" =>
              /\ g_calibrate_flag => timer2 # Off /\ Due <= 18
              /\ ~g_calibrate_flag => timer2 = Off \/ Due <= 38
        /\ stage = "none" =>
              /\ g_calibrate_flag => Right /\ (timer2 = Off \/ Due <= 38)
              /\ ~g_calibrate_flag => timer2 = Off \/ Due <= 38 \/ Due \in 51 .. 58

\* From the second period of one width on, timer2 is off at the rising edge.
SecondInv ==
    Fresh /\ steady >= 1 =>
        /\ stage = "fall" =>
              /\ g_calibrate_flag => timer2 = Off /\ Right
              /\ ~g_calibrate_flag => timer2 = Off \/ Due \in 11 .. 18
        /\ stage = "rise" =>
              /\ g_calibrate_flag => timer2 # Off /\ Due = 10
              /\ ~g_calibrate_flag => timer2 = Off \/ Due \in 11 .. 18 \/ Due = 30
        /\ stage = "none" => g_calibrate_flag /\ timer2 = Off /\ Right

\* From the third period on the firings are the zero crossings.
ThirdInv ==
    Fresh /\ steady >= 2 =>
        /\ stage = "fall" => g_calibrate_flag /\ fires = {}
        /\ stage = "rise" =>
              \/ g_calibrate_flag /\ fires = {}
              \/ ~g_calibrate_flag /\ timer2 # Off /\ Due = 30 /\ fires = {10}
              \/ ~g_calibrate_flag /\ timer2 = Off /\ fires = {10, 30}
        /\ stage = "none" => fires = {10, 30}

PulseInv ==
    TypeOK /\ TimeInv /\ StampInv /\ CaptureTrue /\ LooseInv /\ SecondInv /\ ThirdInv
-----------------------------------------------------------------------------
(* Arithmetic. *)

LEMMA ClockFacts ==
    /\ RELOAD \in Nat /\ SECOND \in Nat /\ RELOAD >= 80 /\ SECOND >= 2 * RELOAD
    /\ 1 \in Grains /\ \A g \in Grains : g \in Nat /\ g >= 1 /\ g <= SECOND
  BY ClockAssumption DEF PERIOD

LEMMA WrapUp ==
    ASSUME NEW c \in Nat
    PROVE  Wrapped(c) = IF c < SECOND THEN c ELSE c - SECOND
  BY ClockFacts DEF Wrapped

LEMMA WrapDown ==
    ASSUME NEW c \in Nat, c < SECOND, NEW k \in Nat, k < SECOND
    PROVE  /\ Wrapped(c - k) \in Nat /\ Wrapped(c - k) < SECOND
           /\ Wrapped(c - k) = c - k \/ Wrapped(c - k) = c - k + SECOND
  BY ClockFacts DEF Wrapped

LEMMA WidthFacts ==
    ASSUME NEW w \in Widths
    PROVE  /\ w \in Nat /\ w < 40
           /\ w \div 2 \in Nat /\ w \div 2 < 20 /\ 2 * (w \div 2) = w
           /\ InWindow(w) => w \div 2 \in 11 .. 19
<1>1. w \in Nat /\ w % 2 = 0 /\ w < 40
  BY WidthAssumption DEF PERIOD
<1>2. w \div 2 \in Nat /\ w \div 2 < 20 /\ 2 * (w \div 2) = w
  BY <1>1
<1> QED
  BY <1>1, <1>2 DEF InWindow, MinCaptureCurWidth, MaxCaptureCurWidth

LEMMA EdgeFacts ==
    ASSUME width \in Widths
    PROVE  FallAt = 20 - width \div 2 /\ RiseAt = 20 + width \div 2
  BY WidthFacts DEF FallAt, RiseAt, PERIOD

LEMMA SmallestOfTwo ==
    ASSUME NEW a \in Int, NEW b \in Int
    PROVE  Min({a, b}) \in {a, b} /\ Min({a, b}) <= a /\ Min({a, b}) <= b
<1>1. \E x \in {a, b} : \A y \in {a, b} : x =< y
  <2>1. CASE a <= b
    BY <2>1
  <2>2. CASE b <= a
    BY <2>2
  <2> QED
    BY <2>1, <2>2
<1>2. Min({a, b}) \in {a, b} /\ \A y \in {a, b} : Min({a, b}) =< y
  BY <1>1 DEF Min
<1> QED
  BY <1>2

\* Time goes on to the next event and not past it.
LEMMA GapFacts ==
    ASSUME NextEdge \in Int, now \in Int, timer2 \in Int, timer3 \in Int
    PROVE  /\ Gap \in Int
           /\ Gap <= NextEdge - now
           /\ timer2 # Off => Gap <= timer2
           /\ timer3 # Off => Gap <= timer3
<1> DEFINE S == {NextEdge - now} \union ({timer2, timer3} \ {Off})
           a == NextEdge - now
           b == IF timer2 # Off THEN timer2 ELSE a
           c == IF timer3 # Off THEN timer3 ELSE a
<1>1. a \in S /\ b \in S /\ c \in S /\ a \in Int /\ b \in Int /\ c \in Int
  OBVIOUS
<1>2. \A y \in S : y = a \/ y = b \/ y = c
  OBVIOUS
<1>3. \E x \in S : x <= a /\ x <= b /\ x <= c
  <2> HIDE DEF S, a, b, c
  <2>1. CASE a <= b /\ a <= c
    BY <1>1, <2>1
  <2>2. CASE b <= a /\ b <= c
    BY <1>1, <2>2
  <2>3. CASE c <= a /\ c <= b
    BY <1>1, <2>3
  <2> QED
    BY <1>1, <2>1, <2>2, <2>3
<1>4. \E x \in S : \A y \in S : x =< y
  <2> HIDE DEF S, a, b, c
  <2> QED
    BY <1>2, <1>3
<1>5. Gap \in S /\ \A y \in S : Gap =< y
  BY <1>4 DEF Gap, Min
<1> QED
  BY <1>1, <1>5
-----------------------------------------------------------------------------
(* Steps. *)

\* The types as plain facts.
LEMMA TypeFacts ==
    ASSUME TypeOK
    PROVE  /\ now \in Nat /\ now <= 40
           /\ clock \in Nat /\ clock < SECOND
           /\ grain \in Grains /\ grain \in Nat /\ grain >= 1 /\ grain <= SECOND
           /\ timer2 \in Int /\ timer3 \in Int /\ Off = -1
           /\ timer2 # Off => timer2 >= 0 /\ timer2 <= 20
           /\ timer3 # Off => timer3 >= 0 /\ timer3 <= 2
           /\ cross_pulse_us \in 0 .. 9
           /\ t1_us \in Nat /\ t1_us < SECOND
           /\ steady \in Nat /\ steady <= MaxSteady
           /\ g_calibrate_flag \in BOOLEAN
           /\ width \in Widths
           /\ stage \in {"fall", "rise", "none"}
<1>1. MaxCaptureCurWidth \div 2 - QUARTER = 9
  BY DEF MaxCaptureCurWidth, QUARTER
<1> QED
  BY <1>1, ClockFacts, SteadyAssumption DEF TypeOK, PERIOD, QUARTER, Off

LEMMA TypeFromFacts ==
    ASSUME now \in 0 .. 40, clock \in 0 .. SECOND - 1, grain \in Grains, width \in Widths,
           stage \in {"fall", "rise", "none"}, g_calibrate_flag \in BOOLEAN,
           cross_pulse_us \in 0 .. 9, t1_us \in 0 .. SECOND - 1,
           timer2 = Off \/ timer2 \in 0 .. 20, timer3 = Off \/ timer3 \in 0 .. 2,
           captured \in Widths \union {0}, fires \subseteq 0 .. 40, steady \in 0 .. MaxSteady
    PROVE  TypeOK
<1>1. MaxCaptureCurWidth \div 2 - QUARTER = 9
  BY DEF MaxCaptureCurWidth, QUARTER
<1> QED
  BY <1>1 DEF TypeOK, PERIOD, QUARTER

\* A step that leaves the generator alone, and timer2 due when it was.
LEMMA Undisturbed ==
    ASSUME LooseInv, SecondInv, ThirdInv,
           UNCHANGED <<grain, width, stage, g_calibrate_flag, cross_pulse_us, fires, steady>>,
           timer2 = Off => timer2' = Off,
           timer2 # Off => timer2' # Off /\ Due' = Due
    PROVE  LooseInv' /\ SecondInv' /\ ThirdInv'
<1>1. (Fresh' <=> Fresh) /\ UNCHANGED Right
  BY DEF Fresh, InWindow, Right
<1>2. LooseInv'
  BY <1>1 DEF LooseInv
<1>3. SecondInv'
  BY <1>1 DEF SecondInv
<1>4. ThirdInv'
  BY <1>1 DEF ThirdInv
<1> QED
  BY <1>2, <1>3, <1>4

LEMMA AdvanceStep == ASSUME PulseInv, Advance PROVE PulseInv'
<1>1. TypeOK /\ TimeInv /\ StampInv /\ CaptureTrue /\ LooseInv /\ SecondInv /\ ThirdInv
  BY DEF PulseInv
<1>2. UNCHANGED <<grain, width, stage, g_calibrate_flag, cross_pulse_us, t1_us, captured, fires,
                  steady>>
  BY DEF Advance
<1>3. /\ FallAt = 20 - width \div 2 /\ RiseAt = 20 + width \div 2
      /\ width \div 2 \in Nat /\ width \div 2 < 20
  BY <1>1, TypeFacts, EdgeFacts, WidthFacts
<1>4. /\ NextEdge \in Int /\ NextEdge <= 40
      /\ stage = "fall" => NextEdge = FallAt
      /\ stage = "rise" => NextEdge = RiseAt
  BY <1>3 DEF NextEdge, PERIOD
<1>5. /\ Gap \in Nat /\ Gap > 0 /\ Gap <= NextEdge - now
      /\ timer2 # Off => Gap <= timer2
      /\ timer3 # Off => Gap <= timer3
  BY <1>1, <1>4, GapFacts, TypeFacts DEF Advance
<1>6. /\ now' = now + Gap
      /\ clock' = IF clock + Gap < SECOND THEN clock + Gap ELSE clock + Gap - SECOND
      /\ timer2' = IF timer2 = Off THEN Off ELSE timer2 - Gap
      /\ timer3' = IF timer3 = Off THEN Off ELSE timer3 - Gap
  <2>1. clock \in Nat /\ clock + Gap \in Nat
    BY <1>1, <1>5, TypeFacts
  <2>2. clock' = Wrapped(clock + Gap)
    BY DEF Advance
  <2>3. PICK c \in Nat : c = clock + Gap
    BY <2>1
  <2>4. clock' = IF c < SECOND THEN c ELSE c - SECOND
    BY <2>2, <2>3, WrapUp
  <2>5. clock' = IF clock + Gap < SECOND THEN clock + Gap ELSE clock + Gap - SECOND
    BY <1>5, <2>1, <2>3, <2>4, ClockFacts
  <2> QED
    BY <2>5 DEF Advance, Elapse
<1>7. now' \in 0 .. 40 /\ clock' \in 0 .. SECOND - 1
  BY <1>1, <1>4, <1>5, <1>6, TypeFacts, ClockFacts
<1>8. /\ timer2' = Off \/ timer2' \in 0 .. 20
      /\ timer3' = Off \/ timer3' \in 0 .. 2
  BY <1>1, <1>5, <1>6, TypeFacts
<1>9. TypeOK'
  BY <1>1, <1>2, <1>7, <1>8 DEF TypeOK, PERIOD, QUARTER
<1>10. TimeInv'
  <2>1. UNCHANGED <<FallAt, RiseAt>>
    BY <1>2 DEF FallAt, RiseAt
  <2>2. stage = "fall" => now' <= FallAt
    BY <1>1, <1>3, <1>4, <1>5, <1>6, TypeFacts
  <2>3. stage = "rise" => now' >= FallAt /\ now' <= RiseAt
    BY <1>1, <1>3, <1>4, <1>5, <1>6, TypeFacts DEF TimeInv
  <2>4. stage = "none" => width = 0 \/ now' >= RiseAt
    BY <1>1, <1>3, <1>5, <1>6, TypeFacts DEF TimeInv
  <2> QED
    BY <1>1, <1>2, <2>1, <2>2, <2>3, <2>4 DEF TimeInv
<1>11. StampInv'
  <2>1. SUFFICES ASSUME stage = "rise" PROVE StampInv'
    BY <1>2 DEF StampInv
  <2>2. FallAt' = FallAt /\ FallAt \in Nat /\ FallAt <= now /\ now' <= 40 /\ now \in Nat
    BY <1>1, <1>2, <1>3, <1>7, <2>1, TypeFacts DEF TimeInv, FallAt
  <2>3. Base' = Base
    BY <1>1, <1>5, <1>6, <2>2, TypeFacts, ClockFacts DEF Base, Wrapped
  <2> QED
    BY <1>1, <1>2, <2>1, <2>3 DEF StampInv, Near, Wrapped
<1>12. CaptureTrue'
  BY <1>1, <1>2 DEF CaptureTrue
<1>13. timer2 # Off => timer2' # Off /\ Due' = Due
  BY <1>1, <1>5, <1>6, TypeFacts DEF Due
<1>14. LooseInv' /\ SecondInv' /\ ThirdInv'
  BY <1>1, <1>2, <1>6, <1>13, Undisturbed
<1> QED
  BY <1>9, <1>10, <1>11, <1>12, <1>14 DEF PulseInv

LEMMA PulseEndStep == ASSUME PulseInv, PulseEnd PROVE PulseInv'
<1>1. TypeOK /\ TimeInv /\ StampInv /\ CaptureTrue /\ LooseInv /\ SecondInv /\ ThirdInv
  BY DEF PulseInv
<1>2. UNCHANGED <<now, clock, grain, width, stage, g_calibrate_flag, cross_pulse_us, t1_us,
                  timer2, captured, fires, steady>>
  BY DEF PulseEnd
<1>3. TypeOK'
  BY <1>1, <1>2 DEF TypeOK, PulseEnd
<1>4. TimeInv' /\ StampInv' /\ CaptureTrue'
  BY <1>1, <1>2 DEF TimeInv, StampInv, CaptureTrue, Near, Base, Wrapped, FallAt, RiseAt
<1>5. Due' = Due
  BY <1>2 DEF Due
<1>6. LooseInv' /\ SecondInv' /\ ThirdInv'
  BY <1>1, <1>2, <1>5, Undisturbed
<1> QED
  BY <1>3, <1>4, <1>6 DEF PulseInv

LEMMA NewPeriodStep == ASSUME PulseInv, NewPeriod PROVE PulseInv'
<1>1. TypeOK /\ TimeInv /\ StampInv /\ CaptureTrue /\ LooseInv /\ SecondInv /\ ThirdInv
  BY DEF PulseInv
<1>2. /\ now = 40 /\ now' = 0 /\ width' \in Widths /\ fires' = {}
      /\ stage' = IF width' = 0 THEN "none" ELSE "fall"
      /\ UNCHANGED <<clock, grain, g_calibrate_flag, cross_pulse_us, t1_us, timer2, timer3,
                     captured>>
  BY DEF NewPeriod, FirstEdge, PERIOD
<1>3. /\ steady' \in 0 .. MaxSteady
      /\ steady' >= 1 => width' = width
      /\ steady' >= 2 => steady >= 1
  <2>1. steady \in Nat /\ MaxSteady \in Nat
    BY <1>1, TypeFacts, SteadyAssumption
  <2>2. PICK m \in Int : m = steady + 1
    BY <2>1
  <2>3. PICK n : n = Min({m, MaxSteady})
    OBVIOUS
  <2>4. n \in {m, MaxSteady} /\ n <= m /\ n <= MaxSteady
    BY <2>1, <2>3, SmallestOfTwo
  <2>5. steady' = IF width' # width THEN 0 ELSE n
    BY <2>2, <2>3 DEF NewPeriod
  <2> QED
    BY <2>1, <2>2, <2>4, <2>5
<1>4. /\ FallAt' = 20 - width' \div 2 /\ width' \div 2 \in Nat /\ width' \div 2 < 20
  <2>1. width' \div 2 \in Nat /\ width' \div 2 < 20
    BY <1>2, WidthFacts
  <2>2. FallAt' = PERIOD \div 2 - width' \div 2 /\ PERIOD \div 2 = 20
    BY DEF FallAt, PERIOD
  <2> QED
    BY <2>1, <2>2
<1>5. TypeOK'
  <2>1. stage' \in {"fall", "rise", "none"} /\ now' \in 0 .. PERIOD /\ fires' \subseteq 0 .. PERIOD
    BY <1>2 DEF PERIOD
  <2> QED
    BY <1>1, <1>2, <1>3, <2>1 DEF TypeOK
<1>6. TimeInv'
  <2>1. stage' # "none" => width' > 0
    BY <1>2, WidthFacts
  <2> QED
    BY <1>2, <1>4, <2>1 DEF TimeInv
<1>7. StampInv' /\ CaptureTrue'
  BY <1>1, <1>2 DEF StampInv, CaptureTrue
<1>8. Fresh' => stage' = "fall"
  BY <1>2, WidthFacts DEF Fresh, InWindow, MinCaptureCurWidth, MaxCaptureCurWidth
<1>9. LooseInv'
  BY <1>8 DEF LooseInv
<1>10. Fresh => stage = "none"
  <2>1. SUFFICES ASSUME Fresh PROVE stage = "none"
    OBVIOUS
  <2>2. width \div 2 \in 11 .. 19 /\ FallAt = 20 - width \div 2 /\ RiseAt = 20 + width \div 2
    BY <1>1, <2>1, TypeFacts, WidthFacts, EdgeFacts DEF Fresh
  <2> QED
    BY <1>1, <1>2, <2>2, TypeFacts DEF TimeInv
<1>11. SecondInv'
  <2>1. SUFFICES ASSUME Fresh', steady' >= 1
                 PROVE  /\ g_calibrate_flag => timer2 = Off /\ Right'
                        /\ ~g_calibrate_flag => timer2 = Off \/ Due' \in 11 .. 18
    BY <1>2, <1>8 DEF SecondInv
  <2>2. width' = width /\ stage = "none" /\ Fresh
    BY <1>2, <1>3, <1>10, <2>1 DEF Fresh, InWindow
  <2>3. Right' = Right
    BY <1>2, <2>2 DEF Right
  <2>4. Due = 40 + timer2 /\ Due' = timer2 /\ timer2 \in Int /\ (timer2 # Off => timer2 >= 0)
    BY <1>1, <1>2, TypeFacts DEF Due
  <2>5. ASSUME g_calibrate_flag PROVE timer2 = Off /\ Right'
    <3>1. Right /\ (timer2 = Off \/ Due <= 38)
      BY <1>1, <2>2, <2>5 DEF LooseInv
    <3> QED
      BY <2>3, <2>4, <3>1
  <2>6. ASSUME ~g_calibrate_flag PROVE timer2 = Off \/ Due' \in 11 .. 18
    <3>1. timer2 = Off \/ Due <= 38 \/ Due \in 51 .. 58
      BY <1>1, <2>2, <2>6 DEF LooseInv
    <3> QED
      BY <2>4, <3>1
  <2> QED
    BY <2>5, <2>6
<1>12. ThirdInv'
  <2>1. SUFFICES ASSUME Fresh', steady' >= 2 PROVE g_calibrate_flag
    BY <1>2, <1>8 DEF ThirdInv
  <2>2. steady \in Nat /\ steady' \in Nat
    BY <1>1, <1>3, TypeFacts, SteadyAssumption
  <2>3. steady >= 1 /\ width' = width
    BY <1>3, <2>1, <2>2
  <2> QED
    BY <1>1, <1>2, <1>10, <2>1, <2>3 DEF SecondInv, Fresh, InWindow
<1> QED
  BY <1>5, <1>6, <1>7, <1>9, <1>11, <1>12 DEF PulseInv

\* A value near the clock's range is wrapped into it, by one second at most.
LEMMA WrapRange ==
    ASSUME NEW m \in Int, m >= -SECOND, m < 2 * SECOND
    PROVE  /\ Wrapped(m) \in 0 .. SECOND - 1
           /\ Wrapped(m) \in {m - SECOND, m, m + SECOND}
  BY ClockFacts DEF Wrapped

LEMMA NearFacts ==
    ASSUME TypeOK, NEW c \in Nat, c < SECOND, NEW x, Near(x, c)
    PROVE  /\ x \in 0 .. SECOND - 1
           /\ \E m \in Int : /\ m >= c - (grain - 1) /\ m <= c + (grain - 1)
                             /\ x \in {m - SECOND, m, m + SECOND}
<1>1. grain \in Nat /\ grain >= 1 /\ grain <= SECOND /\ SECOND \in Nat
  BY TypeFacts, ClockFacts
<1>2. PICK m \in c - (grain - 1) .. c + (grain - 1) : x = Wrapped(m)
  BY DEF Near
<1>3. m \in Int /\ m >= c - (grain - 1) /\ m <= c + (grain - 1)
  BY <1>1, <1>2
<1>4. m >= -SECOND /\ m < 2 * SECOND
  BY <1>1, <1>3
<1>5. x \in 0 .. SECOND - 1 /\ x \in {m - SECOND, m, m + SECOND}
  BY <1>2, <1>3, <1>4, WrapRange
<1> QED
  BY <1>3, <1>5

\* A reading is the clock, or a reload behind, to within the resolution.
LEMMA ReadingFacts ==
    ASSUME NEW t \in Readings
    PROVE  Near(t, clock) \/ Near(t, Wrapped(clock - RELOAD))
  BY DEF Readings, Rounded, Near

LEMMA FallingEdgeStep == ASSUME PulseInv, FallingEdge PROVE PulseInv'
<1>1. TypeOK /\ TimeInv /\ StampInv /\ CaptureTrue /\ LooseInv /\ SecondInv /\ ThirdInv
  BY DEF PulseInv
<1>2. /\ stage = "fall" /\ now = FallAt /\ stage' = "rise" /\ t1_us' \in Readings
      /\ UNCHANGED <<now, clock, grain, width, g_calibrate_flag, cross_pulse_us, timer3, captured,
                     fires, steady>>
  BY DEF FallingEdge
<1>3. /\ g_calibrate_flag => timer2' = cross_pulse_us
      /\ ~g_calibrate_flag => timer2' = timer2
  BY DEF FallingEdge, StartCross
<1>4. /\ FallAt = 20 - width \div 2 /\ RiseAt = 20 + width \div 2
      /\ width \div 2 \in Nat /\ width \div 2 < 20
  BY <1>1, TypeFacts, EdgeFacts, WidthFacts
<1>5. UNCHANGED <<FallAt, RiseAt, Right>>
  BY <1>2 DEF FallAt, RiseAt, Right
<1>6. timer2' = Off \/ timer2' \in 0 .. 20
  BY <1>1, <1>3, TypeFacts
<1>7. /\ t1_us' \in 0 .. SECOND - 1
      /\ Near(t1_us', clock) \/ Near(t1_us', Wrapped(clock - RELOAD))
  <2>1. Near(t1_us', clock) \/ Near(t1_us', Wrapped(clock - RELOAD))
    BY <1>2, ReadingFacts
  <2>2. /\ clock \in Nat /\ clock < SECOND
        /\ Wrapped(clock - RELOAD) \in Nat /\ Wrapped(clock - RELOAD) < SECOND
    <3>1. RELOAD \in Nat /\ RELOAD < SECOND
      BY ClockFacts
    <3> QED
      BY <1>1, <3>1, TypeFacts, WrapDown
  <2> QED
    BY <1>1, <2>1, <2>2, NearFacts
<1>8. TypeOK'
  BY <1>1, <1>2, <1>6, <1>7 DEF TypeOK, QUARTER
<1>9. TimeInv'
  BY <1>1, <1>2, <1>4, <1>5 DEF TimeInv
<1>10. StampInv'
  <2>1. Base' = clock
    <3>1. clock - (now - FallAt) = clock /\ clock \in Nat /\ clock < SECOND
      BY <1>1, <1>2, <1>4, TypeFacts
    <3>2. Base' = Wrapped(clock - (now - FallAt))
      BY <1>2, <1>5 DEF Base, Wrapped
    <3> QED
      BY <3>1, <3>2, WrapUp
  <2> QED
    BY <1>2, <1>7, <2>1 DEF StampInv, Near, Wrapped
<1>11. CaptureTrue'
  BY <1>1, <1>2 DEF CaptureTrue
<1>12. Fresh => width \div 2 \in 11 .. 19
  BY <1>1, TypeFacts, WidthFacts DEF Fresh
<1>13. Fresh' <=> Fresh
  BY <1>2 DEF Fresh, InWindow
<1>14. ASSUME g_calibrate_flag, Fresh
       PROVE  timer2' # Off /\ Due' <= 18 /\ (Right => Due' = 10)
  <2>1. timer2' = cross_pulse_us /\ Due' = FallAt + cross_pulse_us
    BY <1>2, <1>3, <1>14 DEF Due
  <2> QED
    BY <1>1, <1>4, <1>12, <1>14, <2>1, TypeFacts DEF Right, QUARTER
<1>15. ASSUME ~g_calibrate_flag, Fresh
       PROVE  timer2' = timer2 /\ Due' = Due /\ (timer2 # Off => Due <= 38)
  <2>1. timer2' = timer2 /\ Due' = Due
    BY <1>2, <1>3, <1>15 DEF Due
  <2> QED
    BY <1>1, <1>2, <1>4, <1>12, <1>15, <2>1, TypeFacts DEF Due
<1>16. LooseInv'
  BY <1>2, <1>13, <1>14, <1>15 DEF LooseInv
<1>17. SecondInv'
  <2>1. SUFFICES ASSUME Fresh, steady >= 1
                 PROVE  /\ g_calibrate_flag => timer2' # Off /\ Due' = 10
                        /\ ~g_calibrate_flag => timer2' = Off \/ Due' \in 11 .. 18
    BY <1>2, <1>13 DEF SecondInv
  <2>2. /\ g_calibrate_flag => timer2 = Off /\ Right
        /\ ~g_calibrate_flag => timer2 = Off \/ Due \in 11 .. 18
    BY <1>1, <1>2, <2>1 DEF SecondInv
  <2> QED
    BY <1>14, <1>15, <2>1, <2>2
<1>18. ThirdInv'
  <2>1. SUFFICES ASSUME Fresh, steady >= 2 PROVE g_calibrate_flag /\ fires = {}
    BY <1>2, <1>13 DEF ThirdInv
  <2> QED
    BY <1>1, <1>2, <2>1 DEF ThirdInv
<1> QED
  BY <1>8, <1>9, <1>10, <1>11, <1>16, <1>17, <1>18 DEF PulseInv

\* A measured width that is in the window is the true one to within twice the
\* resolution: a reload missed at either edge, or the wrap of the second, puts
\* it outside, unless the resolution is coarser than the window anyway.
LEMMA Measured ==
    ASSUME NEW c \in Nat, c < SECOND, NEW w \in Nat, w > 0, w < 40,
           NEW g \in Nat, g >= 1,
           NEW b \in Int, b \in {c - w, c - w + SECOND},
           NEW b1 \in Int, b1 \in {b, b - RELOAD, b - RELOAD + SECOND},
           NEW c1 \in Int, c1 \in {c, c - RELOAD, c - RELOAD + SECOND},
           NEW m1 \in Int, m1 >= b1 - (g - 1), m1 <= b1 + (g - 1),
           NEW m2 \in Int, m2 >= c1 - (g - 1), m2 <= c1 + (g - 1),
           NEW t1 \in 0 .. SECOND - 1, t1 \in {m1 - SECOND, m1, m1 + SECOND},
           NEW t2 \in 0 .. SECOND - 1, t2 \in {m2 - SECOND, m2, m2 + SECOND},
           InWindow(PulseWidth(t1, t2))
    PROVE  PulseWidth(t1, t2) - w \in -2 * (g - 1) .. 2 * (g - 1)
<1>0. t1 \in Int /\ t2 \in Int /\ SECOND \in Int
  BY ClockFacts
<1>1. PICK p \in Int : p = PulseWidth(t1, t2)
  <2>1. PulseWidth(t1, t2) \in Int
    BY ONLY <1>0 DEF PulseWidth
  <2> QED
    BY <2>1
<1>2. p >= 21 /\ p <= 39
  BY <1>1 DEF InWindow, MinCaptureCurWidth, MaxCaptureCurWidth
<1>3. t1 \in Int /\ t2 \in Int /\ SECOND \in Int /\ RELOAD \in Int /\ RELOAD >= 80 /\ SECOND >= 2 * RELOAD
  BY ClockFacts
<1>4. p = t2 - t1 \/ p = t2 - t1 + SECOND
  BY <1>1, <1>3 DEF PulseWidth
<1>5. PICK d \in Int, e \in Int, o \in Int :
          d = m1 - b1 /\ e = m2 - c1 /\ o = p - w - (e - d)
  BY <1>1
<1>6. o = 0 \/ o >= RELOAD \/ o <= -RELOAD
  <2>1. PICK x \in Int : x = t1 - m1 /\ x \in {-SECOND, 0, SECOND}
    BY <1>3
  <2>2. PICK y \in Int : y = t2 - m2 /\ y \in {-SECOND, 0, SECOND}
    BY <1>3
  <2>3. PICK z \in Int : z = p - t2 + t1 /\ z \in {0, SECOND}
    BY <1>1, <1>3, <1>4
  <2>4. PICK u \in Int : u = b1 - c + w /\ u \in {0, SECOND, -RELOAD, SECOND - RELOAD, 2 * SECOND - RELOAD}
    BY <1>3
  <2>5. PICK v \in Int : v = c1 - c /\ v \in {0, -RELOAD, SECOND - RELOAD}
    BY <1>3
  <2>6. o = v + y + z - u - x
    BY <1>3, <1>5, <2>1, <2>2, <2>3, <2>4, <2>5
  <2> QED
    BY <1>3, <2>1, <2>2, <2>3, <2>4, <2>5, <2>6
<1>7. p - w >= -2 * (g - 1) /\ p - w <= 2 * (g - 1)
  <2>1. e - d >= -2 * (g - 1) /\ e - d <= 2 * (g - 1) /\ p - w = o + (e - d)
    BY <1>1, <1>5
  <2> QED
    BY <1>1, <1>2, <1>3, <1>6, <2>1
<1> QED
  BY <1>1, <1>7

\* Where the clock stood at the falling edge.
LEMMA BaseFacts ==
    ASSUME TypeOK, TimeInv, stage = "rise"
    PROVE  Base \in Int /\ Wrapped(Base - RELOAD) \in Int
<1>1. now \in Int /\ FallAt \in Int /\ clock \in Int
  BY TypeFacts, EdgeFacts, WidthFacts
<1>2. Base \in Int
  BY <1>1, ClockFacts DEF Base, Wrapped
<1> QED
  BY <1>2, ClockFacts DEF Wrapped

\* The same at a rising edge.
LEMMA MeasuredHere ==
    ASSUME TypeOK, TimeInv, StampInv, stage = "rise", now = RiseAt,
           NEW t2_us \in Readings, InWindow(PulseWidth(t1_us, t2_us))
    PROVE  \E p \in Int : /\ p = PulseWidth(t1_us, t2_us)
                          /\ p - width \in -2 * (grain - 1) .. 2 * (grain - 1)
<1>1. PICK c \in Nat : c = clock /\ c < SECOND
  BY TypeFacts
<1>2. PICK w \in Nat : w = width /\ w > 0 /\ w < 40 /\ now - FallAt = w
  <2>1. /\ FallAt = 20 - width \div 2 /\ RiseAt = 20 + width \div 2
        /\ width \div 2 \in Nat /\ 2 * (width \div 2) = width
        /\ width \in Nat /\ width < 40
    BY TypeFacts, EdgeFacts, WidthFacts
  <2>2. width > 0
    BY DEF TimeInv
  <2>3. now - FallAt = width
    BY <2>1
  <2> QED
    BY <2>1, <2>2, <2>3
<1>3. PICK g \in Nat : g = grain /\ g >= 1
  BY TypeFacts
<1>4. RELOAD \in Nat /\ SECOND \in Nat /\ RELOAD < SECOND /\ w < SECOND
  BY <1>2, ClockFacts
<1>5. PICK b \in Nat : b = Base /\ b < SECOND /\ b \in {c - w, c - w + SECOND}
  <2>1. Base = Wrapped(c - w)
    BY <1>1, <1>2 DEF Base
  <2> QED
    BY <1>1, <1>2, <1>4, <2>1, WrapDown
<1>6. PICK b0 \in Nat : b0 = Wrapped(b - RELOAD) /\ b0 < SECOND /\ b0 \in {b - RELOAD, b - RELOAD + SECOND}
  BY <1>4, <1>5, WrapDown
<1>7. PICK c0 \in Nat : c0 = Wrapped(c - RELOAD) /\ c0 < SECOND /\ c0 \in {c - RELOAD, c - RELOAD + SECOND}
  BY <1>1, <1>4, WrapDown
<1>8. PICK b1 \in Nat : b1 \in {b, b0} /\ Near(t1_us, b1)
  BY <1>5, <1>6 DEF StampInv
<1>9. PICK c1 \in Nat : c1 \in {c, c0} /\ Near(t2_us, c1)
  BY <1>1, <1>7, ReadingFacts
<1>10. PICK m1 \in Int : /\ m1 >= b1 - (grain - 1) /\ m1 <= b1 + (grain - 1)
                         /\ t1_us \in {m1 - SECOND, m1, m1 + SECOND}
  BY <1>5, <1>6, <1>8, NearFacts
<1>11. PICK m2 \in Int : /\ m2 >= c1 - (grain - 1) /\ m2 <= c1 + (grain - 1)
                         /\ t2_us \in {m2 - SECOND, m2, m2 + SECOND}
  BY <1>1, <1>7, <1>9, NearFacts
<1>12. t1_us \in 0 .. SECOND - 1 /\ t2_us \in 0 .. SECOND - 1
  BY <1>1, <1>5, <1>6, <1>7, <1>8, <1>9, NearFacts
<1>13. PICK t1, t2 : t1 = t1_us /\ t2 = t2_us
  OBVIOUS
<1>14. /\ b \in {c - w, c - w + SECOND}
       /\ b1 \in {b, b - RELOAD, b - RELOAD + SECOND}
       /\ c1 \in {c, c - RELOAD, c - RELOAD + SECOND}
       /\ m1 >= b1 - (g - 1) /\ m1 <= b1 + (g - 1) /\ m2 >= c1 - (g - 1) /\ m2 <= c1 + (g - 1)
       /\ t1 \in 0 .. SECOND - 1 /\ t1 \in {m1 - SECOND, m1, m1 + SECOND}
       /\ t2 \in 0 .. SECOND - 1 /\ t2 \in {m2 - SECOND, m2, m2 + SECOND}
       /\ InWindow(PulseWidth(t1, t2))
  BY <1>3, <1>5, <1>6, <1>7, <1>8, <1>9, <1>10, <1>11, <1>12, <1>13
<1>15. b \in Int /\ b1 \in Int /\ c1 \in Int
  OBVIOUS
<1>16. PulseWidth(t1, t2) - w \in -2 * (g - 1) .. 2 * (g - 1)
  BY <1>1, <1>2, <1>3, <1>14, <1>15, Measured
<1>17. PulseWidth(t1, t2) \in Int
  BY <1>4, <1>14 DEF PulseWidth
<1> QED
  BY <1>2, <1>3, <1>13, <1>16, <1>17

LEMMA RisingEdgeStep == ASSUME PulseInv, RisingEdge PROVE PulseInv'
<1>1. TypeOK /\ TimeInv /\ StampInv /\ CaptureTrue /\ LooseInv /\ SecondInv /\ ThirdInv
  BY DEF PulseInv
<1>2. /\ stage = "rise" /\ now = RiseAt /\ stage' = "none"
      /\ UNCHANGED <<now, clock, grain, width, t1_us, timer2, timer3, fires>>
  BY DEF RisingEdge
<1>3. /\ FallAt = 20 - width \div 2 /\ RiseAt = 20 + width \div 2
      /\ width \div 2 \in Nat /\ width \div 2 < 20 /\ 2 * (width \div 2) = width
      /\ width \in Nat /\ width < 40
      /\ Fresh => width \div 2 \in 11 .. 19
  BY <1>1, TypeFacts, EdgeFacts, WidthFacts DEF Fresh
<1>4. UNCHANGED <<FallAt, RiseAt, Due>>
  BY <1>2 DEF FallAt, RiseAt, Due
<1>5. Fresh' <=> Fresh
  BY <1>2 DEF Fresh, InWindow
<1>6. TimeInv' /\ StampInv'
  BY <1>2, <1>3, <1>4 DEF TimeInv, StampInv
<1>7. Fresh => ~g_calibrate_flag /\ (timer2 = Off \/ (Due >= 31 /\ Due <= 38))
  <2>1. SUFFICES ASSUME Fresh
                 PROVE  ~g_calibrate_flag /\ (timer2 = Off \/ (Due >= 31 /\ Due <= 38))
    OBVIOUS
  <2>2. timer2 # Off => Due >= 31
    BY <1>1, <1>2, <1>3, <2>1, TypeFacts DEF Due
  <2>3. /\ g_calibrate_flag => timer2 # Off /\ Due <= 18
        /\ ~g_calibrate_flag => timer2 = Off \/ Due <= 38
    BY <1>1, <1>2, <2>1 DEF LooseInv
  <2>4. Due \in Int
    BY <1>1, TypeFacts DEF Due
  <2>5. ~g_calibrate_flag
    BY <2>2, <2>3, <2>4
  <2> QED
    BY <2>2, <2>3, <2>5
<1>8. PICK t2_us \in Readings :
          \/ /\ InWindow(PulseWidth(t1_us, t2_us))
             /\ cross_pulse_us' = PulseWidth(t1_us, t2_us) \div 2 - QUARTER
             /\ g_calibrate_flag' = TRUE
             /\ captured' = width
             /\ UNCHANGED steady
          \/ /\ ~InWindow(PulseWidth(t1_us, t2_us))
             /\ steady' = 0
             /\ UNCHANGED <<cross_pulse_us, g_calibrate_flag, captured>>
  BY DEF RisingEdge
<1>9. CASE InWindow(PulseWidth(t1_us, t2_us))
  <2>1. PICK p \in Int : /\ p = PulseWidth(t1_us, t2_us)
                         /\ p - width \in -2 * (grain - 1) .. 2 * (grain - 1)
    BY <1>1, <1>2, <1>9, MeasuredHere
  <2>2. p >= 21 /\ p <= 39
    BY <1>9, <2>1 DEF InWindow, MinCaptureCurWidth, MaxCaptureCurWidth
  <2>3. /\ cross_pulse_us' = p \div 2 - QUARTER
        /\ g_calibrate_flag' = TRUE /\ captured' = width /\ UNCHANGED steady
    BY <1>8, <1>9, <2>1
  <2>4. cross_pulse_us' \in 0 .. 9
    BY <2>2, <2>3 DEF QUARTER
  <2>5. grain = 1 => p = width
    BY <1>3, <2>1
  <2>6. Fresh => Right'
    BY <1>2, <2>3, <2>5 DEF Right, Fresh
  <2>7. TypeOK'
    <3>1. MaxCaptureCurWidth \div 2 - QUARTER = 9
      BY DEF MaxCaptureCurWidth, QUARTER
    <3> QED
      BY <1>1, <1>2, <2>3, <2>4, <3>1 DEF TypeOK
  <2>8. CaptureTrue'
    <3>1. PICK e \in -2 * (grain - 1) .. 2 * (grain - 1) : e = p - width
      BY <2>1
    <3>2. width + e = p
      <4>1. e \in Int
        BY <1>1, <3>1, TypeFacts
      <4> QED
        BY <1>3, <2>1, <3>1, <4>1
    <3>3. cross_pulse_us' = (captured' + e) \div 2 - QUARTER
      BY <2>3, <3>2
    <3> QED
      BY <1>2, <3>1, <3>3 DEF CaptureTrue
  <2>9. LooseInv'
    <3>1. SUFFICES ASSUME Fresh PROVE Right' /\ (timer2 = Off \/ Due <= 38)
      BY <1>2, <1>4, <1>5, <2>3 DEF LooseInv
    <3> QED
      BY <1>7, <2>6, <3>1
  <2>10. Fresh /\ steady >= 1 => timer2 = Off
    <3>1. SUFFICES ASSUME Fresh, steady >= 1 PROVE timer2 = Off
      OBVIOUS
    <3>2. timer2 = Off \/ Due \in 11 .. 18 \/ Due = 30
      BY <1>1, <1>2, <1>7, <3>1 DEF SecondInv
    <3> QED
      BY <1>7, <3>1, <3>2
  <2>11. SecondInv'
    <3>1. SUFFICES ASSUME Fresh, steady >= 1 PROVE timer2 = Off /\ Right'
      BY <1>2, <1>5, <2>3 DEF SecondInv
    <3> QED
      BY <2>6, <2>10, <3>1
  <2>12. ThirdInv'
    <3>1. SUFFICES ASSUME Fresh, steady >= 2 PROVE fires = {10, 30}
      BY <1>2, <1>5, <2>3 DEF ThirdInv
    <3>2. \/ timer2 # Off /\ Due = 30
          \/ fires = {10, 30}
      BY <1>1, <1>2, <1>7, <3>1 DEF ThirdInv
    <3> QED
      BY <1>7, <3>1, <3>2
  <2> QED
    BY <1>6, <2>7, <2>8, <2>9, <2>11, <2>12 DEF PulseInv
<1>10. CASE ~InWindow(PulseWidth(t1_us, t2_us))
  <2>1. steady' = 0 /\ UNCHANGED <<cross_pulse_us, g_calibrate_flag, captured>>
    BY <1>8, <1>10
  <2>2. TypeOK'
    <3>1. 0 \in 0 .. MaxSteady
      BY SteadyAssumption
    <3> QED
      BY <1>1, <1>2, <2>1, <3>1 DEF TypeOK
  <2>3. CaptureTrue'
    BY <1>1, <1>2, <2>1 DEF CaptureTrue
  <2>4. LooseInv'
    BY <1>2, <1>4, <1>5, <1>7, <2>1 DEF LooseInv
  <2>5. SecondInv' /\ ThirdInv'
    BY <2>1 DEF SecondInv, ThirdInv
  <2> QED
    BY <1>6, <2>2, <2>3, <2>4, <2>5 DEF PulseInv
<1> QED
  BY <1>9, <1>10

LEMMA CrossPulseStep == ASSUME PulseInv, CrossPulse PROVE PulseInv'
<1>1. TypeOK /\ TimeInv /\ StampInv /\ CaptureTrue /\ LooseInv /\ SecondInv /\ ThirdInv
  BY DEF PulseInv
<1>2. /\ timer2 = 0 /\ timer3' = 2 /\ fires' = fires \union {now}
      /\ UNCHANGED <<now, clock, grain, width, stage, cross_pulse_us, t1_us, captured, steady>>
  BY DEF CrossPulse
<1>3. /\ g_calibrate_flag => timer2' = 20 /\ g_calibrate_flag' = FALSE
      /\ ~g_calibrate_flag => timer2' = Off /\ g_calibrate_flag' = FALSE
  BY <1>1, TypeFacts DEF CrossPulse, NextCross, QUARTER
<1>4. /\ FallAt = 20 - width \div 2 /\ RiseAt = 20 + width \div 2
      /\ Fresh => width \div 2 \in 11 .. 19
  BY <1>1, TypeFacts, EdgeFacts, WidthFacts DEF Fresh
<1>5. timer2 # Off /\ Due = now /\ now \in Nat /\ now <= 40
  BY <1>1, <1>2, TypeFacts DEF Due
<1>6. g_calibrate_flag => Due' = now + 20
  BY <1>2, <1>3 DEF Due
<1>7. Fresh' <=> Fresh
  BY <1>2 DEF Fresh, InWindow
<1>8. g_calibrate_flag' = FALSE /\ (timer2' = Off \/ timer2' \in 0 .. 20)
  BY <1>1, <1>3, TypeFacts
<1>9. TypeOK'
  <2>1. fires' \subseteq 0 .. PERIOD
    BY <1>1, <1>2, <1>5 DEF TypeOK, PERIOD
  <2>2. timer3' \in {Off} \union (0 .. 2) /\ timer2' \in {Off} \union (0 .. 2 * QUARTER)
    BY <1>2, <1>8 DEF QUARTER
  <2>3. g_calibrate_flag' \in BOOLEAN
    BY <1>8
  <2> QED
    BY <1>1, <1>2, <2>1, <2>2, <2>3 DEF TypeOK
<1>10. TimeInv' /\ StampInv'
  BY <1>1, <1>2 DEF TimeInv, StampInv, Near, Base, Wrapped, FallAt, RiseAt
<1>11. CaptureTrue'
  BY <1>8 DEF CaptureTrue
<1>12. LooseInv'
  <2>1. SUFFICES ASSUME Fresh
                 PROVE  /\ stage = "rise" => timer2' = Off \/ Due' <= 38
                        /\ stage = "none" => timer2' = Off \/ Due' <= 38 \/ Due' \in 51 .. 58
    BY <1>2, <1>7, <1>8 DEF LooseInv
  <2>2. CASE ~g_calibrate_flag
    BY <1>3, <2>2
  <2>3. CASE g_calibrate_flag
    <3>1. stage = "rise" => now <= 18
      BY <1>1, <1>5, <2>1, <2>3 DEF LooseInv
    <3>2. stage = "none" => now <= 38
      BY <1>1, <1>5, <2>1, <2>3 DEF LooseInv
    <3>3. stage = "none" => now >= 31
      <4>1. width # 0
        BY <2>1 DEF Fresh, InWindow, MinCaptureCurWidth
      <4>2. stage = "none" => now >= RiseAt
        BY <1>1, <4>1 DEF TimeInv
      <4> QED
        BY <1>4, <1>5, <2>1, <4>2
    <3> QED
      BY <1>5, <1>6, <2>3, <3>1, <3>2, <3>3
  <2> QED
    BY <1>1, <2>2, <2>3, TypeFacts
<1>13. ASSUME Fresh, steady >= 1
       PROVE  /\ stage = "rise"
              /\ g_calibrate_flag => now = 10
  <2>1. stage # "none"
    BY <1>1, <1>5, <1>13 DEF SecondInv
  <2>2. stage # "fall"
    <3>1. SUFFICES ASSUME stage = "fall" PROVE FALSE
      OBVIOUS
    <3>2. now <= 9
      BY <1>1, <1>4, <1>5, <1>13, <3>1 DEF TimeInv
    <3>3. /\ g_calibrate_flag => timer2 = Off
          /\ ~g_calibrate_flag => timer2 = Off \/ Due \in 11 .. 18
      BY <1>1, <1>13, <3>1 DEF SecondInv
    <3> QED
      BY <1>5, <3>2, <3>3
  <2>3. stage = "rise"
    BY <1>1, <2>1, <2>2, TypeFacts
  <2> QED
    BY <1>1, <1>5, <1>13, <2>3 DEF SecondInv
<1>14. SecondInv'
  <2>1. SUFFICES ASSUME Fresh, steady >= 1
                 PROVE  stage = "rise" /\ (timer2' = Off \/ Due' = 30)
    BY <1>2, <1>7, <1>8 DEF SecondInv
  <2>2. stage = "rise" /\ (g_calibrate_flag => now = 10)
    BY <1>13, <2>1
  <2>3. CASE g_calibrate_flag
    BY <1>6, <2>2, <2>3
  <2>4. CASE ~g_calibrate_flag
    BY <1>3, <2>2, <2>4
  <2> QED
    BY <1>1, <2>3, <2>4, TypeFacts
<1>15. ThirdInv'
  <2>1. SUFFICES ASSUME Fresh, steady >= 2
                 PROVE  /\ stage = "rise"
                        /\ \/ timer2' # Off /\ Due' = 30 /\ fires' = {10}
                           \/ timer2' = Off /\ fires' = {10, 30}
    BY <1>2, <1>7, <1>8 DEF ThirdInv
  <2>2. steady >= 1
    BY <1>1, <2>1, TypeFacts
  <2>3. stage = "rise" /\ (g_calibrate_flag => now = 10)
    BY <1>13, <2>1, <2>2
  <2>4. \/ g_calibrate_flag /\ fires = {}
        \/ ~g_calibrate_flag /\ Due = 30 /\ fires = {10}
    BY <1>1, <1>5, <2>1, <2>3 DEF ThirdInv
  <2>5. CASE g_calibrate_flag /\ fires = {}
    BY <1>2, <1>3, <1>6, <2>3, <2>5 DEF Off
  <2>6. CASE ~g_calibrate_flag /\ Due = 30 /\ fires = {10}
    BY <1>2, <1>3, <1>5, <2>3, <2>6
  <2> QED
    BY <2>4, <2>5, <2>6
<1> QED
  BY <1>9, <1>10, <1>11, <1>12, <1>14, <1>15 DEF PulseInv

\* A coarser resolution only widens what is allowed.
LEMMA AgeStep == ASSUME PulseInv, Age PROVE PulseInv'
<1>1. TypeOK /\ TimeInv /\ StampInv /\ CaptureTrue
  BY DEF PulseInv
<1>2. /\ grain' \in Grains /\ grain' > grain
      /\ UNCHANGED <<now, clock, width, stage, g_calibrate_flag, cross_pulse_us, t1_us, timer2,
                     timer3, captured, fires, steady>>
  BY DEF Age
<1>3. grain \in Nat /\ grain' \in Nat /\ grain >= 1
  BY <1>1, <1>2, TypeFacts, ClockFacts
<1>4. TypeOK' /\ TimeInv'
  BY <1>1, <1>2 DEF TypeOK, TimeInv, FallAt, RiseAt
<1>5. StampInv'
  <2>1. SUFFICES ASSUME stage = "rise" PROVE StampInv'
    BY <1>2 DEF StampInv
  <2>2. Base' = Base /\ t1_us' = t1_us
    BY <1>2 DEF Base, Wrapped, FallAt
  <2>3. Base \in Int /\ Wrapped(Base - RELOAD) \in Int
    BY <1>1, <2>1, BaseFacts
  <2>4. ASSUME NEW c \in Int, Near(t1_us, c) PROVE Near(t1_us, c)'
    <3>1. PICK m \in c - (grain - 1) .. c + (grain - 1) : t1_us = Wrapped(m)
      BY <2>4 DEF Near
    <3>2. PICK g \in Nat, h \in Nat : g = grain /\ h = grain' /\ h > g
      BY <1>2, <1>3
    <3>3. m \in c - (h - 1) .. c + (h - 1)
      <4>1. m \in c - (g - 1) .. c + (g - 1) /\ h > g
        BY <3>1, <3>2
      <4> QED
        BY <4>1
    <3> QED
      BY <2>2, <3>1, <3>2, <3>3 DEF Near, Wrapped
  <2>5. Near(t1_us, Base)' \/ Near(t1_us, Wrapped(Base - RELOAD))'
    BY <1>1, <2>1, <2>2, <2>3, <2>4 DEF StampInv, Near, Wrapped
  <2> QED
    BY <2>5 DEF StampInv, Near, Wrapped
<1>6. CaptureTrue'
  <2>1. SUFFICES ASSUME g_calibrate_flag PROVE CaptureTrue'
    BY <1>2 DEF CaptureTrue
  <2>2. PICK e \in -2 * (grain - 1) .. 2 * (grain - 1) :
            cross_pulse_us = (captured + e) \div 2 - QUARTER
    BY <1>1, <2>1 DEF CaptureTrue
  <2>3. PICK g \in Nat, h \in Nat : g = grain /\ h = grain' /\ h > g
    BY <1>2, <1>3
  <2>4. e \in -2 * (h - 1) .. 2 * (h - 1)
    <3>1. e \in -2 * (g - 1) .. 2 * (g - 1) /\ h > g
      BY <2>2, <2>3
    <3> QED
      BY <3>1
  <2> QED
    BY <1>2, <2>2, <2>3, <2>4 DEF CaptureTrue
<1>7. ~Fresh'
  BY <1>2, <1>3 DEF Fresh
<1>8. LooseInv' /\ SecondInv' /\ ThirdInv'
  BY <1>7 DEF LooseInv, SecondInv, ThirdInv
<1> QED
  BY <1>4, <1>5, <1>6, <1>8 DEF PulseInv

LEMMA PulseInvariant == Spec => []PulseInv
<1>1. Init => PulseInv
  <2>1. SUFFICES ASSUME Init PROVE PulseInv
    OBVIOUS
  <2>2. /\ now = 0 /\ clock = 0 /\ grain = 1 /\ width \in Widths
        /\ stage = IF width = 0 THEN "none" ELSE "fall"
        /\ g_calibrate_flag = FALSE /\ cross_pulse_us = 0 /\ t1_us = 0
        /\ timer2 = Off /\ timer3 = Off /\ captured = 0 /\ fires = {} /\ steady = 0
    BY <2>1 DEF Init, FirstEdge
  <2>3. TypeOK
    <3>1. /\ now \in 0 .. 40 /\ clock \in 0 .. SECOND - 1 /\ grain \in Grains
          /\ cross_pulse_us \in 0 .. 9
          /\ t1_us \in 0 .. SECOND - 1 /\ steady \in 0 .. MaxSteady
      BY <2>2, ClockFacts, SteadyAssumption
    <3>2. stage \in {"fall", "rise", "none"} /\ fires \subseteq 0 .. 40
      BY <2>2
    <3> QED
      BY <2>2, <3>1, <3>2, TypeFromFacts
  <2>4. TimeInv
    BY <2>2, EdgeFacts, WidthFacts DEF TimeInv
  <2>5. Fresh => stage = "fall"
    BY <2>2 DEF Fresh, InWindow, MinCaptureCurWidth
  <2>6. StampInv /\ CaptureTrue /\ LooseInv /\ SecondInv /\ ThirdInv
    BY <2>2, <2>5 DEF StampInv, CaptureTrue, LooseInv, SecondInv, ThirdInv
  <2> QED
    BY <2>3, <2>4, <2>6 DEF PulseInv
<1>2. ASSUME PulseInv, UNCHANGED vars PROVE PulseInv'
  BY <1>2 DEF vars, PulseInv, TypeOK, TimeInv, StampInv, CaptureTrue, LooseInv, SecondInv, ThirdInv,
     Near, Base, Due, Right, Wrapped, FallAt, RiseAt, Fresh, InWindow
<1>3. PulseInv /\ [Next]_vars => PulseInv'
  BY <1>2, AdvanceStep, AgeStep, NewPeriodStep, FallingEdgeStep, RisingEdgeStep, CrossPulseStep, PulseEndStep
  DEF Next
<1> QED
  BY <1>1, <1>3, PTL DEF Spec

-----------------------------------------------------------------------------
(***************************************************************************)
(* The delay given to timer2 never goes negative and every timer stays in  *)
(* its range, for any widths and at any uptime (pulse_generate.c:170).     *)
(***************************************************************************)
THEOREM PulseTypeCorrect == Spec => []TypeOK
<1>1. PulseInv => TypeOK
  BY DEF PulseInv
<1> QED
  BY <1>1, PulseInvariant, PTL

(***************************************************************************)
(* However the readings coarsen, a captured width is the true one to       *)
(* within twice their resolution at the time, for any widths, any period   *)
(* of timer1 of at least two mains periods and any wrap of at least two of *)
(* those (pulse_generate.c:154-173, hwtimer.c:173-175).                    *)
(***************************************************************************)
THEOREM CapturesAreTrue == Spec => []CaptureTrue
<1>1. PulseInv => CaptureTrue
  BY DEF PulseInv
<1> QED
  BY <1>1, PulseInvariant, PTL

(***************************************************************************)
(* As long as readings resolve the half millisecond, two periods of one    *)
(* width bring the generator back to the zero crossings, whatever it did   *)
(* before (pulse_generate.c:89-105, 129-175).                              *)
(***************************************************************************)
THEOREM GeneratorRecovers ==
    ASSUME MaxSteady >= 2
    PROVE  Spec => []Recovers
<1>1. ASSUME PulseInv PROVE Recovers
  <2>1. SUFFICES ASSUME steady >= MaxSteady, Fresh
                 PROVE  /\ fires \subseteq {10, 30}
                        /\ now > 10 => 10 \in fires
                        /\ now > 30 => 30 \in fires
    BY DEF Recovers, Fresh, QUARTER, PERIOD
  <2>2. TypeOK /\ TimeInv /\ SecondInv /\ ThirdInv
    BY <1>1 DEF PulseInv
  <2>3. steady >= 2 /\ steady >= 1
    BY <2>1, <2>2, TypeFacts, SteadyAssumption
  <2>4. timer2 # Off => now <= Due
    BY <2>2, TypeFacts DEF Due
  <2>5. CASE stage = "fall"
    <3>1. now <= 9
      BY <2>1, <2>2, <2>5, TypeFacts, WidthFacts, EdgeFacts DEF TimeInv, Fresh
    <3> QED
      BY <2>1, <2>2, <2>3, <2>5, <3>1, TypeFacts DEF ThirdInv
  <2>6. CASE stage = "rise"
    <3>1. \/ g_calibrate_flag /\ fires = {}
          \/ timer2 # Off /\ Due = 30 /\ fires = {10}
          \/ fires = {10, 30}
      BY <2>1, <2>2, <2>3, <2>6 DEF ThirdInv
    <3>2. g_calibrate_flag => timer2 # Off /\ Due = 10
      BY <2>1, <2>2, <2>3, <2>6 DEF SecondInv
    <3> QED
      BY <2>2, <2>4, <3>1, <3>2, TypeFacts
  <2>7. CASE stage = "none"
    BY <2>1, <2>2, <2>3, <2>7 DEF ThirdInv
  <2> QED
    BY <2>2, <2>5, <2>6, <2>7, TypeFacts
<1> QED
  BY <1>1, PulseInvariant, PTL
=============================================================================
