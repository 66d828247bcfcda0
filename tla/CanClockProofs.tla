--------------------------- MODULE CanClockProofs ---------------------------
(***************************************************************************)
(* Proofs about the clock, for any set of buses and any times received.    *)
(***************************************************************************)
EXTENDS CanClock, FiniteSetTheorems, TLAPS

\* How many receivers have at least the priority of b's.
Rank(b) == Cardinality({c \in Buses : c <= b})

\* The receiver that will store the milliseconds next.
Innermost(b) == rxpc[b] = "ms" /\ \A c \in Buses : rxpc[c] = "ms" => b <= c

\* 1 if the ticks still to come before that store can end a second.
Carry == IF held < MaxHeld /\ ms + MaxHeld - held >= MS THEN 1 ELSE 0

\* If the seconds are those of a receiver at work, none nested in it since.
OwnerInv == \A b \in Buses : rxpc[b] = "ms" /\ secondsOf = b => Innermost(b)

\* The seconds that a receiver's race can add to the ones stored last: its
\* own one, and one for each receiver that can have nested in it.
Surplus(b) == IF secondsOf = b THEN 1 ELSE Rank(b)

\* While a receiver is between its stores.
RaceInv ==
    \A b \in Buses :
        Innermost(b) =>
            /\ seconds >= target[1]
            /\ seconds + Carry <= target[1] + Surplus(b)

ClockInv == TypeOK /\ OwnerInv /\ RaceInv /\ FastBySecondPerBus
-----------------------------------------------------------------------------
LEMMA ClockNumbers ==
    /\ MS \in Nat /\ MS > 0 /\ MaxSeconds \in Nat
    /\ TOP \in Nat /\ WORD \in Nat /\ MS <= TOP /\ TOP <= WORD
    /\ MaxHeld \in Nat /\ MaxHeld < MS
    /\ \A b \in Buses : b \in Nat
  BY TimeAssumption, HeldAssumption, BusAssumption

LEMMA TimeFacts ==
    ASSUME NEW t \in Times \union {<<0, 0>>}
    PROVE  t = <<t[1], t[2]>> /\ t[1] \in 0 .. MaxSeconds /\ t[2] \in 0 .. WORD
  BY TimeAssumption, ClockNumbers

LEMMA TickedFacts ==
    ASSUME NEW s \in Nat, NEW m \in 0 .. WORD
    PROVE  /\ m + 1 < MS => Ticked(<<s, m>>)[1] = s /\ Ticked(<<s, m>>)[2] = m + 1
           /\ m + 1 >= MS => Ticked(<<s, m>>)[1] = s + 1 /\ Ticked(<<s, m>>)[2] = 0
           /\ Ticked(<<s, m>>) \in Nat \X (0 .. MS - 1)
  BY ClockNumbers DEF Ticked

\* A receiver of lower priority has a higher rank.
LEMMA RankFacts ==
    /\ Cardinality(Buses) \in Nat
    /\ \A b \in Buses : Rank(b) \in Nat /\ 1 <= Rank(b) /\ Rank(b) <= Cardinality(Buses)
    /\ \A b, c \in Buses : b < c => Rank(b) + 1 <= Rank(c)
<1>1. IsFiniteSet(Buses) /\ Cardinality(Buses) \in Nat
  BY BusAssumption, FS_CardinalityType
<1>2. ASSUME NEW b \in Buses
      PROVE  /\ IsFiniteSet({c \in Buses : c <= b})
             /\ Rank(b) \in Nat /\ 1 <= Rank(b) /\ Rank(b) <= Cardinality(Buses)
  <2>1. {c \in Buses : c <= b} \subseteq Buses
    OBVIOUS
  <2>2. IsFiniteSet({c \in Buses : c <= b}) /\ Rank(b) <= Cardinality(Buses)
    BY <1>1, <2>1, FS_Subset DEF Rank
  <2>3. Rank(b) \in Nat
    BY <2>2, FS_CardinalityType DEF Rank
  <2>4. {b} \subseteq {c \in Buses : c <= b}
    BY ClockNumbers
  <2>5. Cardinality({b}) = 1
    BY FS_Singleton
  <2>6. Cardinality({b}) <= Rank(b)
    BY <2>2, <2>4, FS_Subset DEF Rank
  <2> QED
    BY <2>2, <2>3, <2>5, <2>6
<1>3. ASSUME NEW b \in Buses, NEW c \in Buses, b < c PROVE Rank(b) + 1 <= Rank(c)
  <2>1. b \in Nat /\ c \in Nat /\ c \notin {d \in Buses : d <= b}
    BY <1>3, ClockNumbers
  <2>2. {d \in Buses : d <= b} \union {c} \subseteq {d \in Buses : d <= c}
    BY <1>3, ClockNumbers
  <2>3. IsFiniteSet({d \in Buses : d <= b}) /\ IsFiniteSet({d \in Buses : d <= c})
    BY <1>2
  <2>4. Cardinality({d \in Buses : d <= b} \union {c}) = Rank(b) + 1
    BY <2>1, <2>3, FS_AddElement DEF Rank
  <2>5. Cardinality({d \in Buses : d <= b} \union {c}) <= Rank(c)
    BY <2>2, <2>3, FS_Subset DEF Rank
  <2> QED
    BY <2>4, <2>5
<1> QED
  BY <1>1, <1>2, <1>3

LEMMA ClockTypeStep == ASSUME TypeOK, [Next]_vars PROVE TypeOK'
<1> USE DEF TypeOK
<1>1. CASE Tick
  <2>1. seconds \in Nat /\ seconds < MaxSeconds /\ ms \in 0 .. WORD
    BY <1>1, ClockNumbers DEF Tick
  <2>2. seconds' \in 0 .. MaxSeconds /\ ms' \in 0 .. WORD
    <3>1. seconds' = Ticked(<<seconds, ms>>)[1] /\ ms' = Ticked(<<seconds, ms>>)[2]
      BY <1>1 DEF Tick
    <3> QED
      BY <2>1, <3>1, TickedFacts, ClockNumbers
  <2>3. held' \in 0 .. MaxHeld
    BY <1>1, ClockNumbers DEF Tick
  <2>4. target' \in Nat \X (0 .. WORD)
    <3>1. target = <<target[1], target[2]>> /\ target[1] \in Nat /\ target[2] \in 0 .. WORD
      OBVIOUS
    <3>2. Ticked(target) \in Nat \X (0 .. MS - 1)
      BY <3>1, TickedFacts
    <3>3. Ticked(target) \in Nat \X (0 .. WORD)
      BY <3>2, ClockNumbers
    <3> QED
      BY <1>1, <3>3 DEF Tick
  <2> QED
    BY <1>1, <2>2, <2>3, <2>4 DEF Tick
<1>2. ASSUME NEW b \in Buses, NEW t \in Times, Receive(b, t) PROVE TypeOK'
  BY <1>2 DEF Receive
<1>3. ASSUME NEW b \in Buses, StoreSeconds(b) PROVE TypeOK'
  <2>1. time[b] \in Times \union {<<0, 0>>}
    OBVIOUS
  <2>2. seconds' \in 0 .. MaxSeconds /\ target' \in Nat \X (0 .. WORD)
    BY <1>3, <2>1, TimeFacts, ClockNumbers DEF StoreSeconds
  <2> QED
    BY <1>3, <2>2 DEF StoreSeconds
<1>4. ASSUME NEW b \in Buses, StoreMs(b) PROVE TypeOK'
  <2>1. time[b] \in Times \union {<<0, 0>>}
    OBVIOUS
  <2>2. ms' \in 0 .. WORD /\ target' \in Nat \X (0 .. WORD)
    BY <1>4, <2>1, TimeFacts, ClockNumbers DEF StoreMs, SetMs
  <2>3. held' \in 0 .. MaxHeld
    BY <1>4, ClockNumbers DEF StoreMs
  <2> QED
    BY <1>4, <2>2, <2>3 DEF StoreMs
<1>5. CASE UNCHANGED vars
  BY <1>5 DEF vars
<1> QED
  BY <1>1, <1>2, <1>3, <1>4, <1>5 DEF Next

LEMMA OwnerStep == ASSUME TypeOK, OwnerInv, [Next]_vars PROVE OwnerInv'
<1>1. CASE Tick \/ UNCHANGED vars
  BY <1>1 DEF OwnerInv, Innermost, Tick, vars
<1>2. ASSUME NEW a \in Buses, NEW t \in Times, Receive(a, t) PROVE OwnerInv'
  BY <1>2 DEF TypeOK, OwnerInv, Innermost, Receive
<1>3. ASSUME NEW a \in Buses, StoreSeconds(a) PROVE OwnerInv'
  <2>1. \A c \in Buses : rxpc'[c] = "ms" => ~(c < a)
    BY <1>3 DEF TypeOK, StoreSeconds, RxRuns
  <2>2. \A c \in Buses : rxpc'[c] = "ms" => a <= c
    BY <2>1, ClockNumbers
  <2>3. secondsOf' = a
    BY <1>3 DEF StoreSeconds
  <2> QED
    BY <2>2, <2>3 DEF OwnerInv, Innermost
<1>4. ASSUME NEW a \in Buses, StoreMs(a) PROVE OwnerInv'
  BY <1>4 DEF TypeOK, OwnerInv, Innermost, StoreMs
<1> QED
  BY <1>1, <1>2, <1>3, <1>4 DEF Next

LEMMA Numeric ==
    ASSUME TypeOK
    PROVE  /\ seconds \in Nat /\ ms \in Nat /\ ms \in 0 .. WORD
           /\ held \in Nat /\ held <= MaxHeld
           /\ target = <<target[1], target[2]>> /\ target[1] \in Nat /\ target[2] \in 0 .. WORD
           /\ Carry \in 0 .. 1
  BY ClockNumbers DEF TypeOK, Carry

LEMMA SurplusFacts ==
    ASSUME NEW b \in Buses
    PROVE  /\ Surplus(b) \in Nat /\ 1 <= Surplus(b) /\ Surplus(b) <= Rank(b)
           /\ secondsOf # b => Surplus(b) = Rank(b)
           /\ secondsOf = b => Surplus(b) = 1
  BY RankFacts DEF Surplus

LEMMA RaceStep ==
    ASSUME TypeOK, OwnerInv, RaceInv, [Next]_vars
    PROVE  RaceInv'
<1>n. /\ seconds \in Nat /\ ms \in Nat /\ ms \in 0 .. WORD
      /\ held \in Nat /\ held <= MaxHeld
      /\ target[1] \in Nat
      /\ Carry \in 0 .. 1
  BY Numeric
<1>p. /\ seconds' \in Nat /\ target'[1] \in Nat /\ Carry' \in 0 .. 1
  <2>1. TypeOK'
    BY ClockTypeStep
  <2> QED
    BY <2>1, ClockNumbers DEF TypeOK, Carry
<1>1. CASE Tick
  <2>1. SUFFICES ASSUME NEW b \in Buses, Innermost(b)'
                 PROVE  /\ seconds' >= target'[1]
                        /\ seconds' + Carry' <= target'[1] + Surplus(b)'
    BY DEF RaceInv
  <2>2. rxpc' = rxpc /\ secondsOf' = secondsOf
    BY <1>1 DEF Tick
  <2>3. Innermost(b) /\ Setting
    BY <2>1, <2>2 DEF Innermost, Setting
  <2>4. held < MaxHeld /\ held' = held + 1 /\ target' = target
    BY <1>1, <2>3 DEF Tick
  <2>5. /\ ms + 1 < MS => seconds' = seconds /\ ms' = ms + 1
        /\ ms + 1 >= MS => seconds' = seconds + 1 /\ ms' = 0
    <3>1. seconds' = Ticked(<<seconds, ms>>)[1] /\ ms' = Ticked(<<seconds, ms>>)[2]
      BY <1>1 DEF Tick
    <3> QED
      BY <1>n, <3>1, TickedFacts, ClockNumbers
  <2>6. seconds' + Carry' <= seconds + Carry /\ seconds' >= seconds
    <3>1. CASE ms + 1 < MS
      <4>1. Carry' <= Carry
        BY <1>n, <2>4, <2>5, <3>1, ClockNumbers DEF Carry
      <4>2. PICK n \in Int, p \in Int, q \in Int :
                /\ n = seconds' /\ n = seconds
                /\ p = Carry' /\ q = Carry
        BY <1>n, <1>p, <2>5, <3>1
      <4>3. p <= q
        BY <4>1, <4>2
      <4>4. n + p <= n + q /\ n >= n
        BY <4>3
      <4> QED
        BY <4>2, <4>4
    <3>2. CASE ms + 1 >= MS
      <4>1. Carry' = 0 /\ Carry = 1
        BY <1>n, <2>4, <2>5, <3>2, ClockNumbers DEF Carry
      <4> QED
        BY <1>n, <2>5, <3>2, <4>1
    <3> QED
      BY <1>n, <3>1, <3>2, ClockNumbers
  <2>7. /\ seconds >= target[1]
        /\ seconds + Carry <= target[1] + Surplus(b)
    BY <2>3 DEF RaceInv
  <2>8. Surplus(b) \in Nat /\ Surplus(b)' = Surplus(b)
    BY <2>2, SurplusFacts DEF Surplus, Rank
  <2>9. PICK m \in Int, n \in Int, k \in Int, p \in Int, q \in Int, r \in Int :
            /\ m = seconds /\ n = seconds' /\ k = target[1] /\ k = target'[1]
            /\ p = Carry' /\ q = Carry /\ r = Surplus(b) /\ r = Surplus(b)'
    BY <1>n, <1>p, <2>4, <2>8
  <2>10. n + p <= m + q /\ n >= m /\ m >= k /\ m + q <= k + r
    BY <2>6, <2>7, <2>9
  <2>11. n >= k /\ n + p <= k + r
    BY <2>10
  <2> QED
    BY <2>9, <2>11
<1>2. ASSUME NEW a \in Buses, NEW t \in Times, Receive(a, t) PROVE RaceInv'
  <2>1. SUFFICES ASSUME NEW b \in Buses, Innermost(b)'
                 PROVE  /\ seconds' >= target'[1]
                        /\ seconds' + Carry' <= target'[1] + Surplus(b)'
    BY DEF RaceInv
  <2>2. /\ rxpc[a] = "idle" /\ rxpc' = [rxpc EXCEPT ![a] = "seconds"]
        /\ UNCHANGED <<seconds, ms, held, target, secondsOf>>
    BY <1>2 DEF Receive
  <2>3. Innermost(b)
    BY <2>1, <2>2 DEF Innermost, TypeOK
  <2>4. Carry' = Carry /\ Surplus(b)' = Surplus(b)
    BY <2>2 DEF Carry, Surplus, Rank
  <2> QED
    BY <2>2, <2>3, <2>4 DEF RaceInv
<1>3. ASSUME NEW a \in Buses, StoreSeconds(a) PROVE RaceInv'
  <2>1. SUFFICES ASSUME NEW b \in Buses, Innermost(b)'
                 PROVE  /\ seconds' >= target'[1]
                        /\ seconds' + Carry' <= target'[1] + Surplus(b)'
    BY DEF RaceInv
  <2>2. /\ rxpc[a] = "seconds" /\ rxpc' = [rxpc EXCEPT ![a] = "ms"]
        /\ seconds' = time[a][1] /\ target' = <<time[a][1], target[2]>>
        /\ secondsOf' = a
        /\ \A c \in Buses : c < a => rxpc[c] = "idle"
    BY <1>3 DEF StoreSeconds, RxRuns
  <2>3. b = a
    <3>1. rxpc'[a] = "ms" /\ b <= a
      BY <2>1, <2>2 DEF Innermost, TypeOK
    <3>2. ~(b < a)
      BY <2>1, <2>2 DEF Innermost, TypeOK
    <3> QED
      BY <3>1, <3>2, ClockNumbers
  <2>4. Surplus(b)' = 1
    BY <2>2, <2>3 DEF Surplus
  <2>5. seconds' = target'[1]
    BY <2>2
  <2> QED
    BY <1>p, <2>4, <2>5
<1>4. ASSUME NEW a \in Buses, StoreMs(a) PROVE RaceInv'
  <2>1. SUFFICES ASSUME NEW b \in Buses, Innermost(b)'
                 PROVE  /\ seconds' >= target'[1]
                        /\ seconds' + Carry' <= target'[1] + Surplus(b)'
    BY DEF RaceInv
  <2>2. /\ rxpc[a] = "ms" /\ rxpc' = [rxpc EXCEPT ![a] = "idle"]
        /\ seconds' = seconds /\ target' = <<target[1], time[a][2]>>
        /\ secondsOf' = secondsOf
        /\ \A c \in Buses : c < a => rxpc[c] = "idle"
    BY <1>4 DEF StoreMs, RxRuns
  <2>3. b # a /\ rxpc[b] = "ms"
    BY <2>1, <2>2 DEF Innermost, TypeOK
  <2>4. a < b
    <3>1. ~(b < a)
      BY <2>2, <2>3
    <3> QED
      BY <2>3, <3>1, ClockNumbers
  <2>5. Innermost(a)
    <3>1. \A c \in Buses : rxpc[c] = "ms" => ~(c < a)
      BY <2>2
    <3> QED
      BY <2>2, <3>1, ClockNumbers DEF Innermost
  <2>6. seconds >= target[1] /\ seconds + Carry <= target[1] + Surplus(a)
    BY <2>5 DEF RaceInv
  <2>7. secondsOf # b
    <3>1. ~Innermost(b)
      BY <2>2, <2>4, ClockNumbers DEF Innermost
    <3> QED
      BY <2>3, <3>1 DEF OwnerInv
  <2>8. /\ Rank(a) \in Nat /\ Rank(b) \in Nat /\ Rank(a) + 1 <= Rank(b)
        /\ Surplus(a) \in Nat /\ Surplus(a) <= Rank(a)
    BY <2>4, RankFacts, SurplusFacts
  <2>9. Surplus(b)' = Rank(b) /\ target'[1] = target[1]
    BY <2>2, <2>7 DEF Surplus, Rank
  <2> QED
    BY <1>n, <1>p, <2>2, <2>6, <2>8, <2>9
<1>5. CASE UNCHANGED vars
  BY <1>5 DEF vars, RaceInv, Innermost, Carry, Surplus, Rank
<1> QED
  BY <1>1, <1>2, <1>3, <1>4, <1>5 DEF Next

\* How fast the clock may be against the values stored last.
Allowed == IF secondsOf = msOf THEN 1 ELSE Cardinality(Buses)

LEMMA FastStep ==
    ASSUME TypeOK, RaceInv, FastBySecondPerBus, [Next]_vars
    PROVE  FastBySecondPerBus'
<1>n. /\ seconds \in Nat /\ ms \in 0 .. WORD
      /\ target = <<target[1], target[2]>> /\ target[1] \in Nat /\ target[2] \in 0 .. WORD
      /\ Cardinality(Buses) \in Nat /\ Allowed \in Nat
  BY Numeric, RankFacts DEF Allowed
<1>a. ~Setting => ms = target[2] /\ seconds - target[1] \in 0 .. Allowed
  BY DEF FastBySecondPerBus, Allowed
<1>1. SUFFICES ASSUME ~Setting'
               PROVE  ms' = target'[2] /\ seconds' - target'[1] \in 0 .. Allowed'
  BY DEF FastBySecondPerBus, Allowed
<1>2. CASE Tick
  <2>1. rxpc' = rxpc /\ ~Setting /\ Allowed' = Allowed
    BY <1>1, <1>2 DEF Tick, Setting, Allowed
  <2>2. ms = target[2] /\ seconds - target[1] \in 0 .. Allowed
    BY <1>a, <2>1
  <2>3. target' = Ticked(target)
    BY <1>2, <2>1 DEF Tick
  <2>4. seconds' = Ticked(<<seconds, ms>>)[1] /\ ms' = Ticked(<<seconds, ms>>)[2]
    BY <1>2 DEF Tick
  <2>5. CASE ms + 1 < MS
    <3>1. seconds' = seconds /\ ms' = ms + 1
      BY <1>n, <2>4, <2>5, TickedFacts
    <3>2. target'[1] = target[1] /\ target'[2] = target[2] + 1
      BY <1>n, <2>2, <2>3, <2>5, TickedFacts
    <3> QED
      BY <2>1, <2>2, <3>1, <3>2
  <2>6. CASE ms + 1 >= MS
    <3>1. seconds' = seconds + 1 /\ ms' = 0
      BY <1>n, <2>4, <2>6, TickedFacts
    <3>2. target'[1] = target[1] + 1 /\ target'[2] = 0
      BY <1>n, <2>2, <2>3, <2>6, TickedFacts
    <3> QED
      BY <1>n, <2>1, <2>2, <3>1, <3>2
  <2> QED
    BY <1>n, <2>5, <2>6, ClockNumbers
<1>3. ASSUME NEW a \in Buses, NEW t \in Times, Receive(a, t)
      PROVE  ms' = target'[2] /\ seconds' - target'[1] \in 0 .. Allowed'
  <2>1. ~Setting
    BY <1>1, <1>3 DEF Receive, Setting, TypeOK
  <2> QED
    BY <1>3, <1>a, <2>1 DEF Receive, Allowed
<1>4. ASSUME NEW a \in Buses, StoreSeconds(a)
      PROVE  ms' = target'[2] /\ seconds' - target'[1] \in 0 .. Allowed'
  BY <1>1, <1>4 DEF StoreSeconds, Setting, TypeOK
<1>5. ASSUME NEW a \in Buses, StoreMs(a)
      PROVE  ms' = target'[2] /\ seconds' - target'[1] \in 0 .. Allowed'
  <2>1. /\ rxpc[a] = "ms" /\ rxpc' = [rxpc EXCEPT ![a] = "idle"]
        /\ seconds' = seconds /\ ms' = time[a][2]
        /\ target' = <<target[1], time[a][2]>>
        /\ secondsOf' = secondsOf /\ msOf' = a
    BY <1>5 DEF StoreMs, SetMs
  <2>2. Innermost(a)
    <3>1. \A c \in Buses : rxpc[c] = "ms" => c = a
      BY <1>1, <2>1 DEF Setting, TypeOK
    <3> QED
      BY <2>1, <3>1, ClockNumbers DEF Innermost
  <2>3. seconds >= target[1] /\ seconds + Carry <= target[1] + Surplus(a)
    BY <2>2 DEF RaceInv
  <2>4. Carry \in 0 .. 1
    BY Numeric
  <2>5. Surplus(a) \in Nat /\ Surplus(a) <= Allowed' /\ Allowed' \in Nat
    BY <1>n, <2>1, RankFacts, SurplusFacts DEF Allowed
  <2>6. seconds - target[1] \in 0 .. Allowed'
    BY <1>n, <2>3, <2>4, <2>5
  <2> QED
    BY <2>1, <2>6
<1>6. CASE UNCHANGED vars
  BY <1>1, <1>6, <1>a DEF vars, Allowed, Setting
<1> QED
  BY <1>2, <1>3, <1>4, <1>5, <1>6 DEF Next

LEMMA ClockInit == ASSUME Init PROVE ClockInv
<1>1. TypeOK
  BY ClockNumbers DEF Init, TypeOK
<1>2. OwnerInv /\ RaceInv
  BY DEF Init, OwnerInv, RaceInv, Innermost
<1>3. FastBySecondPerBus
  BY RankFacts DEF Init, FastBySecondPerBus
<1> QED
  BY <1>1, <1>2, <1>3 DEF ClockInv

(***************************************************************************)
(* Whatever 16-bit milliseconds are received, a tick of the timer leaves   *)
(* fewer than a second's: a value of a second and more lasts for less than *)
(* one tick, and costs one second (mycan.c:342-352, can_response.c:23-25). *)
(***************************************************************************)
THEOREM TickNormalises == Spec => [][Tick => ms' \in 0 .. MS - 1]_vars
<1>1. Init => TypeOK
  BY ClockInit DEF ClockInv
<1>2. ASSUME TypeOK, [Next]_vars PROVE [Tick => ms' \in 0 .. MS - 1]_vars
  <2>1. SUFFICES ASSUME Tick PROVE ms' \in 0 .. MS - 1
    OBVIOUS
  <2>2. ms' = Ticked(<<seconds, ms>>)[2]
    BY <2>1 DEF Tick
  <2>3. seconds \in Nat /\ ms \in 0 .. WORD
    BY <1>2, Numeric
  <2> QED
    BY <2>2, <2>3, TickedFacts
<1> QED
  BY <1>1, <1>2, ClockTypeStep, PTL DEF Spec

(***************************************************************************)
(* For any set of buses and whatever times they receive, the races of      *)
(* ccr_sync_time with the timer and with itself leave the milliseconds     *)
(* stored last, and the seconds stored last or at most one second more per *)
(* bus; one more if no receiver nested in the other (can_response.c:16-29, *)
(* mycan.c:338-353).                                                       *)
(***************************************************************************)
THEOREM ClockRacesBounded == Spec => []FastBySecondPerBus
<1>1. ASSUME ClockInv, [Next]_vars PROVE ClockInv'
  BY <1>1, ClockTypeStep, OwnerStep, RaceStep, FastStep DEF ClockInv
<1>2. ClockInv => FastBySecondPerBus
  BY DEF ClockInv
<1> QED
  BY ClockInit, <1>1, <1>2, PTL DEF Spec
=============================================================================
