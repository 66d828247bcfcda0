------------------------- MODULE MultiButtonProofs -------------------------
(***************************************************************************)
(* Proofs about one key, for any debouncing and gesture times.             *)
(***************************************************************************)
EXTENDS MultiButton, TLAPS

\* The debounce counter is the length of the run of samples that differ from
\* the debounced level.
RunInv ==
    /\ pin # button_level => same = debounce_cnt
    /\ pin = button_level => debounce_cnt = 0

\* The states that wait for a release have the key down, state 2 has it up.
LevelInv ==
    /\ state \in {1, 3, 5} => button_level = ACTIVE
    /\ state = 2 => button_level # ACTIVE

\* repeat counts the presses of the gesture.  At rest with the key down, and
\* nothing given up, the board has just started with the key held.
CountInv ==
    /\ state \in {1, 2, 3} /\ overheld = 0 => edges % RepeatMod = repeat
    /\ state = 0 /\ button_level # ACTIVE => edges = 0
    /\ state = 0 /\ button_level = ACTIVE /\ overheld = 0 => edges = 1 /\ debounce_cnt = 0

\* How long ago the last single click must be.
SinceInv ==
    /\ state = 1 => since > debounce_cnt
    /\ state = 2 => since >= DEBOUNCE_TICKS + 1 + ticks
    /\ state = 3 => since >= DEBOUNCE_TICKS + 1
    /\ state = 0 /\ button_level = ACTIVE => since >= DEBOUNCE_TICKS + 1

KeyInv == TypeOK /\ RunInv /\ LevelInv /\ CountInv /\ ReportsFollow /\ SinceInv
-----------------------------------------------------------------------------
(* One tick: the sample, the clock, the observers. *)

LEMMA Numbers ==
    /\ DEBOUNCE_TICKS \in Nat /\ DEBOUNCE_TICKS > 1
    /\ SHORT_TICKS \in Nat /\ LONG_TICKS \in Nat /\ TickMod \in Nat
    /\ SHORT_TICKS + 2 < TickMod /\ LONG_TICKS + 2 < TickMod
    /\ MaxEdges \in Nat /\ MaxEdges > 0
    /\ ClickGap = SHORT_TICKS + DEBOUNCE_TICKS + 2
  BY TickAssumption, EdgeAssumption DEF ClickGap

\* What the debouncing does: the level flips when the run is complete.
LEMMA SampleFacts ==
    ASSUME TypeOK, NEW l \in Levels, Sample(l)
    PROVE  /\ debounce_cnt' \in 0 .. DEBOUNCE_TICKS - 1
           /\ debounce_cnt' <= debounce_cnt + 1
           /\ button_level' \in Levels
           /\ Down(l) <=> button_level' = ACTIVE
           /\ Edge(l) <=> (button_level' = ACTIVE /\ button_level # ACTIVE)
           /\ button_level' # button_level => debounce_cnt = DEBOUNCE_TICKS - 1 /\ debounce_cnt' = 0
           /\ pin' \in Levels
           /\ same' \in 0 .. DEBOUNCE_TICKS
           /\ beat' \in {0, 1}
           /\ Edge(l) => edges < MaxEdges
  BY Numbers DEF TypeOK, Sample, Count, Level, Down, Edge, Levels, ACTIVE

LEMMA RunStep == ASSUME TypeOK, RunInv, NEW l \in Levels, Sample(l) PROVE RunInv'
  BY Numbers DEF TypeOK, RunInv, Sample, Count, Level, Levels

LEMMA ElapsedFacts ==
    ASSUME TypeOK
    PROVE  /\ Elapsed \in 0 .. TickMod - 1
           /\ state \in {1, 2, 3} => Elapsed = ticks + 1
  BY Numbers DEF TypeOK, Elapsed

LEMMA ObserveFacts ==
    ASSUME TypeOK, NEW l \in Levels, Sample(l), NEW es \in SUBSET Events, Observe(l, es)
    PROVE  /\ cb' \subseteq Events
           /\ edges' \in 0 .. MaxEdges
           /\ reported' \in {"PRESS_DOWN", "PRESS_UP"}
           /\ since' \in 0 .. ClickGap
           /\ "SINGLE_CLICK" \notin es => since' = since + 1 \/ since' = ClickGap
  BY Numbers, SampleFacts DEF TypeOK, Observe
LEMMA KeyStep ==
    ASSUME KeyInv, NEW l \in Levels, Sample(l), Handle(l)
    PROVE  KeyInv'
<1> USE DEF KeyInv
<1>s. /\ debounce_cnt' \in 0 .. DEBOUNCE_TICKS - 1
      /\ debounce_cnt' <= debounce_cnt + 1
      /\ button_level' \in Levels
      /\ Down(l) <=> button_level' = ACTIVE
      /\ Edge(l) <=> (button_level' = ACTIVE /\ button_level # ACTIVE)
      /\ button_level' # button_level => debounce_cnt = DEBOUNCE_TICKS - 1 /\ debounce_cnt' = 0
      /\ pin' \in Levels
      /\ same' \in 0 .. DEBOUNCE_TICKS
      /\ beat' \in {0, 1}
  BY SampleFacts
<1>e. Elapsed \in 0 .. TickMod - 1 /\ (state \in {1, 2, 3} => Elapsed = ticks + 1)
  BY ElapsedFacts
<1>i. /\ debounce_cnt' \in Nat
      /\ debounce_cnt' < DEBOUNCE_TICKS
      /\ debounce_cnt' <= debounce_cnt + 1
      /\ button_level' # button_level => debounce_cnt = DEBOUNCE_TICKS - 1 /\ debounce_cnt' = 0
  BY <1>s, Numbers
<1>n. /\ state \in {0, 1, 2, 3, 5} /\ since \in Nat /\ ticks \in Nat /\ debounce_cnt \in Nat
      /\ debounce_cnt < DEBOUNCE_TICKS /\ button_level \in Levels
      /\ state \in {2, 3} => ticks <= SHORT_TICKS
  BY Numbers DEF TypeOK
<1>r. RunInv'
  BY RunStep
<1>1. CASE Rest(l)
  <2>1. Observe(l, {}) /\ {} \in SUBSET Events
    BY <1>1 DEF Rest, Events
  <2>2. /\ cb' \subseteq Events
        /\ edges' \in 0 .. MaxEdges
        /\ reported' \in {"PRESS_DOWN", "PRESS_UP"}
        /\ since' \in 0 .. ClickGap
        /\ "SINGLE_CLICK" \notin {} => since' = since + 1 \/ since' = ClickGap
    BY <2>1, ObserveFacts
  <2>3. TypeOK'
    BY <1>1, <1>s, <1>e, <2>2, Numbers DEF TypeOK, Rest, Events, RepeatMod
  <2>4. LevelInv'
    BY <1>1, <1>s DEF TypeOK, LevelInv, Rest, Levels, ACTIVE
  <2>5. CountInv'
    BY <1>1, <1>s, <2>1, Numbers
    DEF TypeOK, LevelInv, CountInv, Rest, Observe, Levels, ACTIVE, RepeatMod
  <2>6. ReportsFollow'
    BY <1>1, <1>s, <2>1, Numbers
    DEF TypeOK, LevelInv, CountInv, ReportsFollow, Rest, Observe, Levels, ACTIVE
  <2>7. SinceInv'
    <3>1. since' \in Nat /\ (since' = since + 1 \/ since' = SHORT_TICKS + DEBOUNCE_TICKS + 2)
      BY <2>2, Numbers
    <3>2. state' \in {0, 1, 2, 3, 5} /\ ticks' \in Nat
      BY <2>3, Numbers DEF TypeOK
    <3>3. state = 0 /\ state' = 0 /\ button_level' # ACTIVE
      BY <1>1, <1>s, <1>e, <1>n DEF LevelInv, Rest, Levels, ACTIVE
    <3> QED
      BY <1>i, <1>n, <3>1, <3>2, <3>3, Numbers DEF SinceInv
  <2> QED
    BY <1>r, <2>3, <2>4, <2>5, <2>6, <2>7
<1>2. CASE PressDown(l)
  <2>1. Observe(l, {"PRESS_DOWN"}) /\ {"PRESS_DOWN"} \in SUBSET Events
    BY <1>2 DEF PressDown, Events
  <2>2. /\ cb' \subseteq Events
        /\ edges' \in 0 .. MaxEdges
        /\ reported' \in {"PRESS_DOWN", "PRESS_UP"}
        /\ since' \in 0 .. ClickGap
        /\ "SINGLE_CLICK" \notin {"PRESS_DOWN"} => since' = since + 1 \/ since' = ClickGap
    BY <2>1, ObserveFacts
  <2>3. TypeOK'
    BY <1>2, <1>s, <1>e, <2>2, Numbers DEF TypeOK, PressDown, Events, RepeatMod, RestartTicks, FirstPress
  <2>4. LevelInv'
    BY <1>2, <1>s DEF TypeOK, LevelInv, PressDown, Levels, ACTIVE
  <2>5. CountInv'
    BY <1>2, <1>s, <2>1, Numbers
    DEF TypeOK, LevelInv, CountInv, PressDown, Observe, Levels, ACTIVE, RepeatMod, RestartTicks, FirstPress
  <2>6. ReportsFollow'
    BY <1>2, <1>s, <2>1, Numbers
    DEF TypeOK, LevelInv, CountInv, ReportsFollow, PressDown, Observe, Levels, ACTIVE
  <2>7. SinceInv'
    <3>1. since' \in Nat /\ (since' = since + 1 \/ since' = SHORT_TICKS + DEBOUNCE_TICKS + 2)
      BY <2>2, Numbers
    <3>2. state' \in {0, 1, 2, 3, 5} /\ ticks' \in Nat
      BY <2>3, Numbers DEF TypeOK
    <3>3. state' = 1 /\ ((button_level = ACTIVE /\ state = 0) \/ button_level' # button_level)
      BY <1>2, <1>s, <1>e, <1>n DEF LevelInv, PressDown, Levels, ACTIVE, RestartTicks, FirstPress
    <3> QED
      BY <1>i, <1>n, <3>1, <3>2, <3>3, Numbers DEF SinceInv
  <2> QED
    BY <1>r, <2>3, <2>4, <2>5, <2>6, <2>7
<1>3. CASE PressUp(l)
  <2>1. Observe(l, {"PRESS_UP"}) /\ {"PRESS_UP"} \in SUBSET Events
    BY <1>3 DEF PressUp, Events
  <2>2. /\ cb' \subseteq Events
        /\ edges' \in 0 .. MaxEdges
        /\ reported' \in {"PRESS_DOWN", "PRESS_UP"}
        /\ since' \in 0 .. ClickGap
        /\ "SINGLE_CLICK" \notin {"PRESS_UP"} => since' = since + 1 \/ since' = ClickGap
    BY <2>1, ObserveFacts
  <2>3. TypeOK'
    BY <1>3, <1>s, <1>e, <2>2, Numbers DEF TypeOK, PressUp, Events, RepeatMod, RestartTicks, Settle
  <2>4. LevelInv'
    BY <1>3, <1>s DEF TypeOK, LevelInv, PressUp, Levels, ACTIVE
  <2>5. CountInv'
    BY <1>3, <1>s, <2>1, Numbers
    DEF TypeOK, LevelInv, CountInv, PressUp, Observe, Levels, ACTIVE, RepeatMod, RestartTicks, Settle
  <2>6. ReportsFollow'
    BY <1>3, <1>s, <2>1, Numbers
    DEF TypeOK, LevelInv, CountInv, ReportsFollow, PressUp, Observe, Levels, ACTIVE, Settle
  <2>7. SinceInv'
    <3>1. since' \in Nat /\ (since' = since + 1 \/ since' = SHORT_TICKS + DEBOUNCE_TICKS + 2)
      BY <2>2, Numbers
    <3>2. state' \in {0, 1, 2, 3, 5} /\ ticks' \in Nat
      BY <2>3, Numbers DEF TypeOK
    <3>3. state = 1 /\ state' = 2 /\ ticks' = 0 /\ button_level' # button_level
      BY <1>3, <1>s, <1>e, <1>n DEF LevelInv, PressUp, Levels, ACTIVE, RestartTicks
    <3> QED
      BY <1>i, <1>n, <3>1, <3>2, <3>3, Numbers DEF SinceInv
  <2> QED
    BY <1>r, <2>3, <2>4, <2>5, <2>6, <2>7
<1>4. CASE LongPressStart(l)
  <2>1. Observe(l, {"LONG_PRESS_START"}) /\ {"LONG_PRESS_START"} \in SUBSET Events
    BY <1>4 DEF LongPressStart, Events
  <2>2. /\ cb' \subseteq Events
        /\ edges' \in 0 .. MaxEdges
        /\ reported' \in {"PRESS_DOWN", "PRESS_UP"}
        /\ since' \in 0 .. ClickGap
        /\ "SINGLE_CLICK" \notin {"LONG_PRESS_START"} => since' = since + 1 \/ since' = ClickGap
    BY <2>1, ObserveFacts
  <2>3. TypeOK'
    BY <1>4, <1>s, <1>e, <2>2, Numbers DEF TypeOK, LongPressStart, Events, RepeatMod, Settle
  <2>4. LevelInv'
    BY <1>4, <1>s DEF TypeOK, LevelInv, LongPressStart, Levels, ACTIVE
  <2>5. CountInv'
    BY <1>4, <1>s, <2>1, Numbers
    DEF TypeOK, LevelInv, CountInv, LongPressStart, Observe, Levels, ACTIVE, RepeatMod, Settle
  <2>6. ReportsFollow'
    BY <1>4, <1>s, <2>1, Numbers
    DEF TypeOK, LevelInv, CountInv, ReportsFollow, LongPressStart, Observe, Levels, ACTIVE, Settle
  <2>7. SinceInv'
    <3>1. since' \in Nat /\ (since' = since + 1 \/ since' = SHORT_TICKS + DEBOUNCE_TICKS + 2)
      BY <2>2, Numbers
    <3>2. state' \in {0, 1, 2, 3, 5} /\ ticks' \in Nat
      BY <2>3, Numbers DEF TypeOK
    <3>3. state' = 5
      BY <1>4, <1>s, <1>e, <1>n DEF LevelInv, LongPressStart, Levels, ACTIVE
    <3> QED
      BY <1>i, <1>n, <3>1, <3>2, <3>3, Numbers DEF SinceInv
  <2> QED
    BY <1>r, <2>3, <2>4, <2>5, <2>6, <2>7
<1>5. CASE Wait(l)
  <2>1. Observe(l, {}) /\ {} \in SUBSET Events
    BY <1>5 DEF Wait, Events
  <2>2. /\ cb' \subseteq Events
        /\ edges' \in 0 .. MaxEdges
        /\ reported' \in {"PRESS_DOWN", "PRESS_UP"}
        /\ since' \in 0 .. ClickGap
        /\ "SINGLE_CLICK" \notin {} => since' = since + 1 \/ since' = ClickGap
    BY <2>1, ObserveFacts
  <2>3. TypeOK'
    BY <1>5, <1>s, <1>e, <2>2, Numbers DEF TypeOK, Wait, Events, RepeatMod, Settle
  <2>4. LevelInv'
    BY <1>5, <1>s DEF TypeOK, LevelInv, Wait, Levels, ACTIVE
  <2>5. CountInv'
    BY <1>5, <1>s, <2>1, Numbers
    DEF TypeOK, LevelInv, CountInv, Wait, Observe, Levels, ACTIVE, RepeatMod, Settle
  <2>6. ReportsFollow'
    BY <1>5, <1>s, <2>1, Numbers
    DEF TypeOK, LevelInv, CountInv, ReportsFollow, Wait, Observe, Levels, ACTIVE, Settle
  <2>7. SinceInv'
    <3>1. since' \in Nat /\ (since' = since + 1 \/ since' = SHORT_TICKS + DEBOUNCE_TICKS + 2)
      BY <2>2, Numbers
    <3>2. state' \in {0, 1, 2, 3, 5} /\ ticks' \in Nat
      BY <2>3, Numbers DEF TypeOK
    <3>3. state' = state /\ ticks' = ticks + 1 /\ state \in {1, 2, 3}
      BY <1>5, <1>s, <1>e, <1>n DEF LevelInv, Wait, Levels, ACTIVE
    <3> QED
      BY <1>i, <1>n, <3>1, <3>2, <3>3, Numbers DEF SinceInv
  <2> QED
    BY <1>r, <2>3, <2>4, <2>5, <2>6, <2>7
<1>6. CASE PressRepeat(l)
  <2>1. Observe(l, {"PRESS_DOWN", "PRESS_REPEAT"}) /\ {"PRESS_DOWN", "PRESS_REPEAT"} \in SUBSET Events
    BY <1>6 DEF PressRepeat, Events
  <2>2. /\ cb' \subseteq Events
        /\ edges' \in 0 .. MaxEdges
        /\ reported' \in {"PRESS_DOWN", "PRESS_UP"}
        /\ since' \in 0 .. ClickGap
        /\ "SINGLE_CLICK" \notin {"PRESS_DOWN", "PRESS_REPEAT"} => since' = since + 1 \/ since' = ClickGap
    BY <2>1, ObserveFacts
  <2>3. TypeOK'
    BY <1>6, <1>s, <1>e, <2>2, Numbers DEF TypeOK, PressRepeat, Events, RepeatMod, RestartTicks, Settle
  <2>4. LevelInv'
    BY <1>6, <1>s DEF TypeOK, LevelInv, PressRepeat, Levels, ACTIVE
  <2>5. CountInv'
    BY <1>6, <1>s, <2>1, Numbers
    DEF TypeOK, LevelInv, CountInv, PressRepeat, Observe, Levels, ACTIVE, RepeatMod, RestartTicks, Settle
  <2>6. ReportsFollow'
    BY <1>6, <1>s, <2>1, Numbers
    DEF TypeOK, LevelInv, CountInv, ReportsFollow, PressRepeat, Observe, Levels, ACTIVE, Settle
  <2>7. SinceInv'
    <3>1. since' \in Nat /\ (since' = since + 1 \/ since' = SHORT_TICKS + DEBOUNCE_TICKS + 2)
      BY <2>2, Numbers
    <3>2. state' \in {0, 1, 2, 3, 5} /\ ticks' \in Nat
      BY <2>3, Numbers DEF TypeOK
    <3>3. state = 2 /\ state' = 3
      BY <1>6, <1>s, <1>e, <1>n DEF LevelInv, PressRepeat, Levels, ACTIVE, RestartTicks
    <3> QED
      BY <1>i, <1>n, <3>1, <3>2, <3>3, Numbers DEF SinceInv
  <2> QED
    BY <1>r, <2>3, <2>4, <2>5, <2>6, <2>7
<1>7. CASE GestureEnd(l)
  <2>1. Observe(l, Clicks) /\ Clicks \in SUBSET Events
    BY <1>7 DEF GestureEnd, Events, Clicks, Pause
  <2>2. /\ cb' \subseteq Events
        /\ edges' \in 0 .. MaxEdges
        /\ reported' \in {"PRESS_DOWN", "PRESS_UP"}
        /\ since' \in 0 .. ClickGap
        /\ "SINGLE_CLICK" \notin Clicks => since' = since + 1 \/ since' = ClickGap
    BY <2>1, ObserveFacts
  <2>3. TypeOK'
    BY <1>7, <1>s, <1>e, <2>2, Numbers DEF TypeOK, GestureEnd, Events, RepeatMod, Settle, Clicks, Pause
  <2>4. LevelInv'
    BY <1>7, <1>s DEF TypeOK, LevelInv, GestureEnd, Levels, ACTIVE
  <2>5. CountInv'
    BY <1>7, <1>s, <2>1, Numbers
    DEF TypeOK, LevelInv, CountInv, GestureEnd, Observe, Levels, ACTIVE, RepeatMod, Settle, Clicks, Pause
  <2>6. ReportsFollow'
    BY <1>7, <1>s, <2>1, Numbers
    DEF TypeOK, LevelInv, CountInv, ReportsFollow, GestureEnd, Observe, Levels, ACTIVE, Settle, Clicks, Pause
  <2>7. SinceInv'
    BY <1>7, <1>s, <1>e, <1>n, <2>2, Numbers
    DEF LevelInv, SinceInv, GestureEnd, Levels, ACTIVE, Clicks, Pause
  <2> QED
    BY <1>r, <2>3, <2>4, <2>5, <2>6, <2>7
<1>8. CASE ReleaseAgain(l)
  <2>1. Observe(l, {"PRESS_UP"}) /\ {"PRESS_UP"} \in SUBSET Events
    BY <1>8 DEF ReleaseAgain, Events
  <2>2. /\ cb' \subseteq Events
        /\ edges' \in 0 .. MaxEdges
        /\ reported' \in {"PRESS_DOWN", "PRESS_UP"}
        /\ since' \in 0 .. ClickGap
        /\ "SINGLE_CLICK" \notin {"PRESS_UP"} => since' = since + 1 \/ since' = ClickGap
    BY <2>1, ObserveFacts
  <2>3. TypeOK'
    BY <1>8, <1>s, <1>e, <2>2, Numbers DEF TypeOK, ReleaseAgain, Events, RepeatMod, RestartTicks, Settle
  <2>4. LevelInv'
    BY <1>8, <1>s DEF TypeOK, LevelInv, ReleaseAgain, Levels, ACTIVE
  <2>5. CountInv'
    BY <1>8, <1>s, <2>1, Numbers
    DEF TypeOK, LevelInv, CountInv, ReleaseAgain, Observe, Levels, ACTIVE, RepeatMod, RestartTicks, Settle
  <2>6. ReportsFollow'
    BY <1>8, <1>s, <2>1, Numbers
    DEF TypeOK, LevelInv, CountInv, ReportsFollow, ReleaseAgain, Observe, Levels, ACTIVE, Settle
  <2>7. SinceInv'
    <3>1. since' \in Nat /\ (since' = since + 1 \/ since' = SHORT_TICKS + DEBOUNCE_TICKS + 2)
      BY <2>2, Numbers
    <3>2. state' \in {0, 1, 2, 3, 5} /\ ticks' \in Nat
      BY <2>3, Numbers DEF TypeOK
    <3>3. state = 3 /\ button_level' # ACTIVE /\ ((state' = 2 /\ ticks' = 0) \/ state' = 0)
      BY <1>8, <1>s, <1>e, <1>n DEF LevelInv, ReleaseAgain, Levels, ACTIVE, RestartTicks
    <3>4. since' >= DEBOUNCE_TICKS + 1
      BY <1>n, <3>1, <3>3, Numbers DEF SinceInv
    <3> QED
      BY <3>1, <3>3, <3>4, Numbers DEF SinceInv
  <2> QED
    BY <1>r, <2>3, <2>4, <2>5, <2>6, <2>7
<1>9. CASE GiveUp(l)
  <2>1. Observe(l, {}) /\ {} \in SUBSET Events
    BY <1>9 DEF GiveUp, Events
  <2>2. /\ cb' \subseteq Events
        /\ edges' \in 0 .. MaxEdges
        /\ reported' \in {"PRESS_DOWN", "PRESS_UP"}
        /\ since' \in 0 .. ClickGap
        /\ "SINGLE_CLICK" \notin {} => since' = since + 1 \/ since' = ClickGap
    BY <2>1, ObserveFacts
  <2>3. TypeOK'
    BY <1>9, <1>s, <1>e, <2>2, Numbers DEF TypeOK, GiveUp, Events, RepeatMod
  <2>4. LevelInv'
    BY <1>9, <1>s DEF TypeOK, LevelInv, GiveUp, Levels, ACTIVE
  <2>5. CountInv'
    BY <1>9, <1>s, <2>1, Numbers
    DEF TypeOK, LevelInv, CountInv, GiveUp, Observe, Levels, ACTIVE, RepeatMod
  <2>6. ReportsFollow'
    BY <1>9, <1>s, <2>1, Numbers
    DEF TypeOK, LevelInv, CountInv, ReportsFollow, GiveUp, Observe, Levels, ACTIVE
  <2>7. SinceInv'
    <3>1. since' \in Nat /\ (since' = since + 1 \/ since' = SHORT_TICKS + DEBOUNCE_TICKS + 2)
      BY <2>2, Numbers
    <3>2. state' \in {0, 1, 2, 3, 5} /\ ticks' \in Nat
      BY <2>3, Numbers DEF TypeOK
    <3>3. state = 3 /\ state' = 0
      BY <1>9, <1>s, <1>e, <1>n DEF LevelInv, GiveUp, Levels, ACTIVE
    <3> QED
      BY <1>i, <1>n, <3>1, <3>2, <3>3, Numbers DEF SinceInv
  <2> QED
    BY <1>r, <2>3, <2>4, <2>5, <2>6, <2>7
<1>10. CASE LongPressHold(l)
  <2>1. Observe(l, {"LONG_PRESS_HOLD"}) /\ {"LONG_PRESS_HOLD"} \in SUBSET Events
    BY <1>10 DEF LongPressHold, Events
  <2>2. /\ cb' \subseteq Events
        /\ edges' \in 0 .. MaxEdges
        /\ reported' \in {"PRESS_DOWN", "PRESS_UP"}
        /\ since' \in 0 .. ClickGap
        /\ "SINGLE_CLICK" \notin {"LONG_PRESS_HOLD"} => since' = since + 1 \/ since' = ClickGap
    BY <2>1, ObserveFacts
  <2>3. TypeOK'
    BY <1>10, <1>s, <1>e, <2>2, Numbers DEF TypeOK, LongPressHold, Events, RepeatMod, Settle
  <2>4. LevelInv'
    BY <1>10, <1>s DEF TypeOK, LevelInv, LongPressHold, Levels, ACTIVE
  <2>5. CountInv'
    BY <1>10, <1>s, <2>1, Numbers
    DEF TypeOK, LevelInv, CountInv, LongPressHold, Observe, Levels, ACTIVE, RepeatMod, Settle
  <2>6. ReportsFollow'
    BY <1>10, <1>s, <2>1, Numbers
    DEF TypeOK, LevelInv, CountInv, ReportsFollow, LongPressHold, Observe, Levels, ACTIVE, Settle
  <2>7. SinceInv'
    <3>1. since' \in Nat /\ (since' = since + 1 \/ since' = SHORT_TICKS + DEBOUNCE_TICKS + 2)
      BY <2>2, Numbers
    <3>2. state' \in {0, 1, 2, 3, 5} /\ ticks' \in Nat
      BY <2>3, Numbers DEF TypeOK
    <3>3. state' = 5
      BY <1>10, <1>s, <1>e, <1>n DEF LevelInv, LongPressHold, Levels, ACTIVE
    <3> QED
      BY <1>i, <1>n, <3>1, <3>2, <3>3, Numbers DEF SinceInv
  <2> QED
    BY <1>r, <2>3, <2>4, <2>5, <2>6, <2>7
<1>11. CASE LongPressUp(l)
  <2>1. Observe(l, LongRelease) /\ LongRelease \in SUBSET Events
    BY <1>11 DEF LongPressUp, Events, LongRelease
  <2>2. /\ cb' \subseteq Events
        /\ edges' \in 0 .. MaxEdges
        /\ reported' \in {"PRESS_DOWN", "PRESS_UP"}
        /\ since' \in 0 .. ClickGap
        /\ "SINGLE_CLICK" \notin LongRelease => since' = since + 1 \/ since' = ClickGap
    BY <2>1, ObserveFacts
  <2>3. TypeOK'
    BY <1>11, <1>s, <1>e, <2>2, Numbers DEF TypeOK, LongPressUp, Events, RepeatMod, Settle, LongRelease
  <2>4. LevelInv'
    BY <1>11, <1>s DEF TypeOK, LevelInv, LongPressUp, Levels, ACTIVE
  <2>5. CountInv'
    BY <1>11, <1>s, <2>1, Numbers
    DEF TypeOK, LevelInv, CountInv, LongPressUp, Observe, Levels, ACTIVE, RepeatMod, Settle, LongRelease
  <2>6. ReportsFollow'
    BY <1>11, <1>s, <2>1, Numbers
    DEF TypeOK, LevelInv, CountInv, ReportsFollow, LongPressUp, Observe, Levels, ACTIVE, Settle, LongRelease
  <2>7. SinceInv'
    BY <1>11, <1>s, <1>e, <1>n, <2>2, Numbers
    DEF LevelInv, SinceInv, LongPressUp, Levels, ACTIVE, LongRelease
  <2> QED
    BY <1>r, <2>3, <2>4, <2>5, <2>6, <2>7
<1> QED
  BY <1>1, <1>2, <1>3, <1>4, <1>5, <1>6, <1>7, <1>8, <1>9, <1>10, <1>11 DEF Handle

LEMMA KeyInit == ASSUME Init PROVE KeyInv
  BY Numbers DEF Init, KeyInv, TypeOK, RunInv, LevelInv, CountInv, ReportsFollow, SinceInv,
     Levels, ACTIVE, Events, RepeatMod

LEMMA KeyStutter == ASSUME KeyInv, UNCHANGED vars PROVE KeyInv'
  BY DEF KeyInv, TypeOK, RunInv, LevelInv, CountInv, ReportsFollow, SinceInv, vars,
     handleVars, levelVars, obsVars

LEMMA KeyInductive == Spec => []KeyInv
<1>1. ASSUME KeyInv, [Next]_vars PROVE KeyInv'
  BY <1>1, KeyStep, KeyStutter DEF Next, Tick
<1> QED
  BY KeyInit, <1>1, PTL DEF Spec

(***************************************************************************)
(* button_handler stays in the states that have a case and its counters in *)
(* their range, for any debouncing and gesture times                       *)
(* (multi_button.c:67-162).                                                *)
(***************************************************************************)
THEOREM KeyTypeCorrect == Spec => []TypeOK
<1>1. KeyInv => TypeOK
  BY DEF KeyInv
<1> QED
  BY KeyInductive, <1>1, PTL

(***************************************************************************)
(* The press or release raised last is the state the key is in, but for a  *)
(* key let go right after the machine gave it up (multi_button.c:86-145).  *)
(***************************************************************************)
THEOREM ReportsAreRight == Spec => []ReportsFollow
<1>1. KeyInv => ReportsFollow
  BY DEF KeyInv
<1> QED
  BY KeyInductive, <1>1, PTL

(***************************************************************************)
(* Debouncing: the level changes exactly when DEBOUNCE_TICKS samples in a  *)
(* row differ from it (multi_button.c:74-83).                              *)
(***************************************************************************)
THEOREM BouncesIgnored == Spec => BounceRejected
<1>1. ASSUME KeyInv, [Next]_vars
      PROVE  [(button_level' # button_level)
                <=> (pin' # button_level /\ same' = DEBOUNCE_TICKS)]_vars
  <2>1. CASE UNCHANGED vars
    BY <2>1
  <2>2. CASE Next
    <3>1. PICK l \in Levels : Sample(l)
      BY <2>2 DEF Next, Tick
    <3>2. /\ debounce_cnt \in Nat /\ debounce_cnt < DEBOUNCE_TICKS /\ same \in Nat
          /\ pin \in Levels /\ button_level \in Levels /\ RunInv
      BY <1>1, Numbers DEF KeyInv, TypeOK
    <3> QED
      BY <3>1, <3>2, Numbers DEF RunInv, Sample, Level, Levels
  <2> QED
    BY <1>1, <2>1, <2>2
<1> QED
  BY KeyInductive, <1>1, PTL DEF Spec, BounceRejected

(***************************************************************************)
(* A single click is one press and a double click two, modulo the four     *)
(* bits of repeat and but for a press that was given up                    *)
(* (multi_button.c:112-145, multi_button.h:35).                            *)
(***************************************************************************)
THEOREM ClicksCountPresses == Spec => ClickCount
<1>1. ASSUME KeyInv, [Next]_vars
      PROVE  [/\ "SINGLE_CLICK" \in cb' => edges % RepeatMod = 1 \/ overheld = 1
              /\ "DOUBLE_CLICK" \in cb' => edges % RepeatMod = 2 \/ overheld = 1]_vars
  <2>1. CASE UNCHANGED vars
    BY <2>1
  <2>2. CASE Next
    <3>1. PICK l \in Levels : Handle(l)
      BY <2>2 DEF Next, Tick
    <3>2. overheld \in {0, 1} /\ (state = 2 /\ overheld = 0 => edges % RepeatMod = repeat)
      BY <1>1 DEF KeyInv, TypeOK, CountInv
    <3>3. ("SINGLE_CLICK" \notin cb' /\ "DOUBLE_CLICK" \notin cb') \/ GestureEnd(l)
      BY <3>1 DEF Handle, Rest, PressDown, PressUp, LongPressStart, Wait, PressRepeat,
         ReleaseAgain, GiveUp, LongPressHold, LongPressUp, LongRelease, Observe
    <3>4. CASE GestureEnd(l)
      <4>1. state = 2 /\ cb' = Clicks
        BY <3>4 DEF GestureEnd, Observe
      <4>2. /\ "SINGLE_CLICK" \in cb' => repeat = 1
            /\ "DOUBLE_CLICK" \in cb' => repeat = 2
        BY <4>1 DEF Clicks
      <4> QED
        BY <3>2, <4>1, <4>2
    <3> QED
      BY <3>3, <3>4
  <2> QED
    BY <1>1, <2>1, <2>2
<1> QED
  BY KeyInductive, <1>1, PTL DEF Spec, ClickCount

(***************************************************************************)
(* Two single clicks of a key are at least ClickGap ticks apart            *)
(* (multi_button.c:86-145).                                                *)
(***************************************************************************)
THEOREM ClicksFarApart == Spec => ClicksApart
<1>1. ASSUME KeyInv, [Next]_vars
      PROVE  ["SINGLE_CLICK" \in cb' => since + 1 >= ClickGap]_vars
  <2>1. CASE UNCHANGED vars
    BY <2>1
  <2>2. CASE Next
    <3>1. PICK l \in Levels : Handle(l)
      BY <2>2 DEF Next, Tick
    <3>2. "SINGLE_CLICK" \notin cb' \/ GestureEnd(l)
      BY <3>1 DEF Handle, Rest, PressDown, PressUp, LongPressStart, Wait, PressRepeat,
         ReleaseAgain, GiveUp, LongPressHold, LongPressUp, LongRelease, Observe
    <3>3. CASE GestureEnd(l)
      <4>1. state = 2 /\ Elapsed > SHORT_TICKS
        BY <3>3 DEF GestureEnd, Pause
      <4>2. ticks \in Nat /\ since \in Nat /\ Elapsed = ticks + 1
        BY <1>1, <4>1, ElapsedFacts, Numbers DEF KeyInv, TypeOK
      <4>3. since >= DEBOUNCE_TICKS + 1 + ticks
        BY <1>1, <4>1 DEF KeyInv, SinceInv
      <4> QED
        BY <4>1, <4>2, <4>3, Numbers
    <3> QED
      BY <3>2, <3>3
  <2> QED
    BY <1>1, <2>1, <2>2
<1> QED
  BY KeyInductive, <1>1, PTL DEF Spec, ClicksApart
=============================================================================
