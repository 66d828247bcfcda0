--------------------------- MODULE SamplingProofs ---------------------------
(***************************************************************************)
(* Proofs about Sampling for every size of the buffer and of the window.   *)
(***************************************************************************)
EXTENDS Sampling, TLAPS

W == RMS_WINDOWN_SIZE

\* The DMA is behind the samples taken since the hand-over.
FillInv ==
    /\ SamplesInOrder
    /\ taken < SAMPLES => pos = taken

\* One full buffer overwrites every zero.
CleanInv == clean > 0 => \A c \in Cells : adc_value[c] # "zero"

\* The cells before count were filled in this turn of the window, the others
\* in the turn before, if there was one.
AgeInv ==
    \A i \in Window :
        age[i] = IF i < count THEN count - 1 - i
                 ELSE IF local_load = {} THEN W ELSE W + count - 1 - i

\* Zeros in the window are from before the first full buffer.
ZeroInv ==
    /\ local_load = {} => clean <= count
    /\ \A i \in Window : "zero" \in rms_adc_voltage[i] => clean <= age[i]

\* Zeros in the published means too, but those are older by the turn so far.
LoadInv == "zero" \in local_load => clean < W + count

SampleInv == TypeOK /\ FillInv /\ CleanInv /\ AgeInv /\ ZeroInv /\ LoadInv
-----------------------------------------------------------------------------
LEMMA Sizes ==
    /\ SAMPLES \in Nat /\ SAMPLES > 0 /\ W \in Nat /\ W > 0
    /\ Settled = 2 * W - 1
    /\ 0 \in Cells /\ 0 \in Window
  BY SizeAssumption DEF W, Settled, Cells, Window

LEMMA InitInv == ASSUME Init PROVE SampleInv
<1> USE Sizes DEF Init
<1>1. TypeOK
  <2>1. pos \in Cells /\ count \in Window /\ taken \in 0 .. SAMPLES /\ clean \in 0 .. Settled
    OBVIOUS
  <2>2. age \in [Window -> 0 .. RMS_WINDOWN_SIZE]
    BY DEF W
  <2>3. adc_value \in [Cells -> Kinds] /\ rms_adc_voltage \in [Window -> SUBSET Kinds]
    BY DEF Kinds
  <2> QED
    BY <2>1, <2>2, <2>3 DEF TypeOK
<1>2. FillInv
  BY DEF FillInv, SamplesInOrder, Cells
<1>3. CleanInv /\ LoadInv /\ ZeroInv
  BY DEF CleanInv, LoadInv, ZeroInv
<1>4. AgeInv
  BY DEF AgeInv, W, Window
<1> QED
  BY <1>1, <1>2, <1>3, <1>4 DEF SampleInv

LEMMA SampleStep == ASSUME SampleInv, Sample PROVE SampleInv'
<1>1. /\ pos \in 0 .. SAMPLES - 1 /\ taken \in 0 .. SAMPLES
      /\ adc_value \in [Cells -> Kinds]
      /\ adc_value' = [adc_value EXCEPT ![pos] = "new"]
      /\ pos' = IF pos + 1 < SAMPLES THEN pos + 1 ELSE 0
      /\ taken' = IF taken + 1 < SAMPLES THEN taken + 1 ELSE SAMPLES
  BY DEF SampleInv, TypeOK, Sample, NextCell, UpTo, Cells
<1>2. UNCHANGED <<timer4, rms_adc_voltage, count, local_load, age, clean>>
  BY DEF Sample
<1>3. pos' \in Cells /\ taken' \in 0 .. SAMPLES /\ adc_value' \in [Cells -> Kinds]
  BY <1>1, Sizes DEF Cells, Kinds
<1>4. TypeOK'
  BY <1>2, <1>3 DEF SampleInv, TypeOK
<1>5. FillInv'
  <2>1. \A c \in Cells : adc_value[c] = "new" <=> c < taken
    BY DEF SampleInv, FillInv, SamplesInOrder
  <2>2. taken < SAMPLES => pos = taken
    BY DEF SampleInv, FillInv
  <2>3. SamplesInOrder'
    BY <1>1, <2>1, <2>2, Sizes DEF SamplesInOrder, Cells
  <2>4. taken' < SAMPLES => pos' = taken'
    BY <1>1, <2>2, Sizes
  <2> QED
    BY <2>3, <2>4 DEF FillInv
<1>6. CleanInv'
  BY <1>1, <1>2 DEF SampleInv, CleanInv
<1>7. AgeInv' /\ ZeroInv' /\ LoadInv'
  BY <1>2 DEF SampleInv, AgeInv, ZeroInv, LoadInv
<1> QED
  BY <1>4, <1>5, <1>6, <1>7 DEF SampleInv

\* What a hand-over does, in plain terms.
LEMMA CaptureFacts ==
    ASSUME SampleInv, Capture
    PROVE  /\ adc_value' = [c \in Cells |-> IF adc_value[c] = "zero" THEN "zero" ELSE "old"]
           /\ pos' = 0 /\ taken' = 0 /\ timer4' = TRUE
           /\ clean' \in 0 .. Settled /\ clean' <= clean + 1
           /\ clean' > 0 => clean > 0 \/ taken = SAMPLES
           /\ rms_adc_voltage' = [rms_adc_voltage EXCEPT ![count] = Rms]
           /\ rms_adc_voltage' \in [Window -> SUBSET Kinds]
           /\ age' = [i \in Window |-> IF i = count THEN 0 ELSE UpTo(age[i] + 1, W)]
           /\ \/ count + 1 = W /\ count' = 0 /\ local_load' = Mean(rms_adc_voltage')
              \/ count + 1 < W /\ count' = count + 1 /\ local_load' = local_load
<1>1. /\ count \in Nat /\ count < W /\ clean \in 0 .. Settled
      /\ adc_value \in [Cells -> Kinds] /\ rms_adc_voltage \in [Window -> SUBSET Kinds]
  BY Sizes DEF SampleInv, TypeOK, Window, W
<1>2. clean' = IF taken = SAMPLES \/ clean > 0
               THEN IF clean + 1 < Settled THEN clean + 1 ELSE Settled ELSE 0
  BY DEF Capture, HandOver, UpTo
<1>3. /\ clean' \in 0 .. Settled /\ clean' <= clean + 1
      /\ clean' > 0 => clean > 0 \/ taken = SAMPLES
  BY <1>1, <1>2, Sizes
<1>4. Rms \in SUBSET Kinds
  BY <1>1 DEF Rms
<1>5. /\ rms_adc_voltage' = [rms_adc_voltage EXCEPT ![count] = Rms]
      /\ rms_adc_voltage' \in [Window -> SUBSET Kinds]
  BY <1>1, <1>4 DEF Capture, cal_rms
<1>6. \/ count + 1 = W /\ count' = 0 /\ local_load' = Mean(rms_adc_voltage')
      \/ count + 1 < W /\ count' = count + 1 /\ local_load' = local_load
  BY <1>1, Sizes DEF Capture, cal_rms, WindowFull, RestartWindow, W
<1>7. age' = [i \in Window |-> IF i = count THEN 0 ELSE UpTo(age[i] + 1, W)]
  BY DEF Capture, cal_rms, W
<1> QED
  BY <1>3, <1>5, <1>6, <1>7 DEF Capture, HandOver, RestartDma

LEMMA CaptureStep == ASSUME SampleInv, Capture PROVE SampleInv'
<1>0. /\ count \in Nat /\ count < W /\ count \in Window /\ clean \in Nat
      /\ adc_value \in [Cells -> Kinds] /\ rms_adc_voltage \in [Window -> SUBSET Kinds]
      /\ age \in [Window -> 0 .. W]
  BY Sizes DEF SampleInv, TypeOK, Window, W
<1>1. /\ \A c \in Cells : adc_value[c] = "new" <=> c < taken
      /\ taken < SAMPLES => pos = taken
  BY DEF SampleInv, FillInv, SamplesInOrder
<1>2. clean > 0 => \A c \in Cells : adc_value[c] # "zero"
  BY DEF SampleInv, CleanInv
<1>3. \A i \in Window : i \in Nat /\ i < W
  BY Sizes DEF Window, W
<1>4. \A i \in Window : age'[i] = IF i = count THEN 0
                                  ELSE IF age[i] + 1 < W THEN age[i] + 1 ELSE W
  BY CaptureFacts DEF UpTo
<1>5. clean' > 0 => \A c \in Cells : adc_value[c] # "zero"
  <2>1. taken = SAMPLES => \A c \in Cells : adc_value[c] = "new"
    BY <1>1, Sizes DEF Cells
  <2> QED
    BY <1>2, <2>1, CaptureFacts
<1>6. TypeOK'
  <2>1. adc_value' \in [Cells -> Kinds]
    BY <1>0, CaptureFacts DEF Kinds
  <2>2. count' \in Window
    BY <1>0, CaptureFacts, Sizes DEF Window, W
  <2>3. local_load' \in SUBSET Kinds
    <3>1. Mean(rms_adc_voltage') \in SUBSET Kinds
      BY CaptureFacts DEF Mean
    <3> QED
      BY <3>1, CaptureFacts DEF SampleInv, TypeOK
  <2>4. age' \in [Window -> 0 .. RMS_WINDOWN_SIZE]
    <3>1. \A i \in Window : (IF i = count THEN 0 ELSE UpTo(age[i] + 1, W)) \in 0 .. W
      BY <1>0, Sizes DEF UpTo
    <3> QED
      BY <3>1, CaptureFacts DEF W
  <2>5. pos' \in Cells /\ taken' \in 0 .. SAMPLES
    BY CaptureFacts, Sizes
  <2> QED
    BY <2>1, <2>2, <2>3, <2>4, <2>5, CaptureFacts DEF TypeOK
<1>7. FillInv'
  <2>1. \A c \in Cells : adc_value'[c] # "new" /\ ~(c < 0)
    BY CaptureFacts, Sizes DEF Cells
  <2> QED
    BY <2>1, CaptureFacts DEF FillInv, SamplesInOrder
<1>8. CleanInv'
  BY <1>5, CaptureFacts DEF CleanInv
<1>9. Rms # {} /\ ("zero" \in Rms => clean' = 0)
  <2>1. adc_value[0] \in Rms
    BY Sizes DEF Rms
  <2>2. "zero" \in Rms => \E c \in Cells : adc_value[c] = "zero"
    BY DEF Rms
  <2>3. clean' \in Nat
    BY CaptureFacts, Sizes
  <2> QED
    BY <1>5, <2>1, <2>2, <2>3
<1>10. count + 1 = W => local_load' # {}
  <2>1. SUFFICES ASSUME count + 1 = W PROVE local_load' # {}
    OBVIOUS
  <2>2. local_load' = Mean(rms_adc_voltage')
    BY <1>0, <2>1, CaptureFacts
  <2>3. rms_adc_voltage'[count] = Rms
    BY <1>0, CaptureFacts
  <2> QED
    BY <1>0, <1>9, <2>2, <2>3 DEF Mean
<1>11. AgeInv'
  <2>1. SUFFICES ASSUME NEW i \in Window
                 PROVE  age'[i] = IF i < count' THEN count' - 1 - i
                                  ELSE IF local_load' = {} THEN W ELSE W + count' - 1 - i
    BY DEF AgeInv
  <2>2. age[i] = IF i < count THEN count - 1 - i
                 ELSE IF local_load = {} THEN W ELSE W + count - 1 - i
    BY DEF SampleInv, AgeInv
  <2>3. CASE count + 1 = W
    <3>1. count' = 0 /\ local_load' # {}
      BY <1>0, <1>10, <2>3, CaptureFacts
    <3> QED
      BY <1>0, <1>3, <1>4, <2>2, <2>3, <3>1, Sizes
  <2>4. CASE count + 1 < W
    <3>1. count' = count + 1 /\ local_load' = local_load
      BY <1>0, <2>4, CaptureFacts
    <3> QED
      BY <1>0, <1>3, <1>4, <2>2, <2>4, <3>1, Sizes
  <2> QED
    BY <2>3, <2>4, CaptureFacts
<1>12. ZeroInv'
  <2>1. local_load' = {} => clean' <= count'
    <3>1. SUFFICES ASSUME local_load' = {} PROVE clean' <= count'
      OBVIOUS
    <3>2. count' = count + 1 /\ local_load' = local_load
      BY <1>10, <3>1, CaptureFacts
    <3>3. clean <= count
      BY <3>1, <3>2 DEF SampleInv, ZeroInv
    <3>4. clean' <= clean + 1 /\ clean' \in Nat
      BY CaptureFacts, Sizes
    <3> QED
      BY <1>0, <3>2, <3>3, <3>4
  <2>2. ASSUME NEW i \in Window, "zero" \in rms_adc_voltage'[i]
        PROVE  clean' <= age'[i]
    <3>1. CASE i = count
      <4>1. "zero" \in Rms
        BY <1>0, <2>2, <3>1, CaptureFacts
      <4> QED
        BY <1>4, <1>9, <3>1, <4>1
    <3>2. CASE i # count
      <4>1. "zero" \in rms_adc_voltage[i]
        BY <1>0, <2>2, <3>2, CaptureFacts
      <4>2. clean <= age[i]
        BY <4>1 DEF SampleInv, ZeroInv
      <4>3. clean' <= clean + 1 /\ clean' \in Nat /\ age[i] \in 0 .. W
        BY <1>0, CaptureFacts, Sizes
      <4>4. CASE age[i] + 1 <= W
        BY <1>0, <1>4, <3>2, <4>2, <4>3, <4>4, Sizes
      <4>5. CASE age[i] = W
        <5>1. local_load = {} /\ clean <= count
          BY <1>0, <1>3, <4>5, Sizes DEF SampleInv, AgeInv, ZeroInv
        <5> QED
          BY <1>0, <1>4, <3>2, <4>3, <4>5, <5>1, Sizes
      <4> QED
        BY <4>3, <4>4, <4>5, Sizes
    <3> QED
      BY <3>1, <3>2
  <2> QED
    BY <2>1, <2>2 DEF ZeroInv
<1>13. LoadInv'
  <2>1. SUFFICES ASSUME "zero" \in local_load' PROVE clean' < W + count'
    BY DEF LoadInv
  <2>2. clean' <= clean + 1 /\ clean' \in Nat
    BY CaptureFacts, Sizes
  <2>3. CASE count + 1 = W
    <3>1. count' = 0 /\ local_load' = Mean(rms_adc_voltage')
      BY <1>0, <2>3, CaptureFacts
    <3>2. PICK i \in Window : "zero" \in rms_adc_voltage'[i]
      BY <2>1, <3>1 DEF Mean
    <3>3. clean' <= age'[i]
      BY <1>12, <3>2 DEF ZeroInv
    <3>4. age'[i] = W + count' - 1 - i
      BY <1>10, <1>11, <1>3, <2>3, <3>1 DEF AgeInv
    <3> QED
      BY <1>3, <2>2, <3>1, <3>3, <3>4, Sizes
  <2>4. CASE count + 1 < W
    <3>1. count' = count + 1 /\ local_load' = local_load
      BY <1>0, <2>4, CaptureFacts
    <3>2. clean < W + count
      BY <2>1, <3>1 DEF SampleInv, LoadInv
    <3> QED
      BY <1>0, <2>2, <3>1, <3>2, Sizes
  <2> QED
    BY <2>3, <2>4, CaptureFacts
<1> QED
  BY <1>6, <1>7, <1>8, <1>11, <1>12, <1>13 DEF SampleInv

LEMMA SampleInvariant == Spec => []SampleInv
<1>1. ASSUME SampleInv, UNCHANGED vars PROVE SampleInv'
  BY <1>1 DEF vars, SampleInv, TypeOK, FillInv, SamplesInOrder, CleanInv, AgeInv, ZeroInv, LoadInv
<1>2. SampleInv /\ [Next]_vars => SampleInv'
  BY <1>1, SampleStep, CaptureStep DEF Next
<1> QED
  BY <1>2, InitInv, PTL DEF Spec

-----------------------------------------------------------------------------
(***************************************************************************)
(* The DMA stays in the buffer and the index of cal_rms in the window, for *)
(* every size of both (drv_adc.c:125, 178, 193).                           *)
(***************************************************************************)
THEOREM SamplingTypeCorrect == Spec => []TypeOK
<1>1. SampleInv => TypeOK
  BY DEF SampleInv
<1> QED
  BY <1>1, SampleInvariant, PTL

(***************************************************************************)
(* However long the intervals are, the samples since the hand-over are in  *)
(* order and none is taken twice (drv_adc.c:250-277, 450-454).             *)
(***************************************************************************)
THEOREM BufferInOrder == Spec => []SamplesInOrder
<1>1. SampleInv => SamplesInOrder
  BY DEF SampleInv, FillInv
<1> QED
  BY <1>1, SampleInvariant, PTL

(***************************************************************************)
(* The window holds the latest hand-overs, each of them once               *)
(* (drv_adc.c:178-208).                                                    *)
(***************************************************************************)
THEOREM WindowHoldsLatest == Spec => []WindowFresh
<1>1. ASSUME SampleInv PROVE WindowFresh
  <2>1. SUFFICES ASSUME local_load # {}, NEW k \in Window
                 PROVE  \E i \in Window : age[i] = k
    BY DEF WindowFresh
  <2>2. count \in Nat /\ count < W /\ k \in Nat /\ k < W
    BY <1>1, Sizes DEF SampleInv, TypeOK, Window, W
  <2>3. CASE k < count
    <3>1. count - 1 - k \in Window /\ count - 1 - k < count
      BY <2>2, <2>3, Sizes DEF Window, W
    <3>2. age[count - 1 - k] = count - 1 - (count - 1 - k)
      BY <1>1, <3>1 DEF SampleInv, AgeInv
    <3> QED
      BY <2>2, <3>1, <3>2
  <2>4. CASE ~(k < count)
    <3>1. W + count - 1 - k \in Window /\ ~(W + count - 1 - k < count)
      BY <2>2, <2>4, Sizes DEF Window, W
    <3>2. age[W + count - 1 - k] = W + count - 1 - (W + count - 1 - k)
      BY <1>1, <2>1, <3>1 DEF SampleInv, AgeInv
    <3> QED
      BY <2>2, <3>1, <3>2, Sizes
  <2> QED
    BY <2>3, <2>4
<1> QED
  BY <1>1, SampleInvariant, PTL

(***************************************************************************)
(* The zeros of the buffer never written leave the published means within  *)
(* two windows less one from the first full buffer on                      *)
(* (pulse_generate.c:93-101, drv_adc.c:155-208).                           *)
(***************************************************************************)
THEOREM ZerosAreTransient == Spec => []ZerosLeave
<1>1. ASSUME SampleInv PROVE ZerosLeave
  <2>1. SUFFICES ASSUME "zero" \in local_load, clean = Settled PROVE FALSE
    BY DEF ZerosLeave
  <2>2. count \in Nat /\ count < W
    BY <1>1, Sizes DEF SampleInv, TypeOK, Window, W
  <2>3. clean < W + count
    BY <1>1, <2>1 DEF SampleInv, LoadInv
  <2> QED
    BY <2>1, <2>2, <2>3, Sizes
<1> QED
  BY <1>1, SampleInvariant, PTL
=============================================================================
