------------------------------ MODULE Sampling ------------------------------
(***************************************************************************)
(* Current and voltage measurement: timer4 triggers the ADC, the DMA       *)
(* stores the samples in a circular buffer, and at a calibrated zero       *)
(* crossing timer2_crossPulse_cb (pulse_generate.c) hands the buffer over  *)
(* to cal_rms (drv_adc.c), which keeps a window of RMS values and          *)
(* publishes their mean each time the window is full.                      *)
(*                                                                         *)
(* Crossings come whenever the generator is calibrated (module PulseGen),  *)
(* so the number of samples between two of them is arbitrary.  Sampling is *)
(* stopped during the hand-over, which is therefore one step.  Values are  *)
(* abstracted to where they come from: an RMS value is the set of the      *)
(* kinds of sample it is computed from, a mean is the union of its RMS     *)
(* values.  Both channels are sampled in pairs and treated alike.          *)
(***************************************************************************)
EXTENDS Naturals

CONSTANTS
    SAMPLES,           \* pairs of samples in the buffer (200)
    RMS_WINDOWN_SIZE   \* RMS values in the window (20)

ASSUME SizeAssumption == SAMPLES \in Nat \ {0} /\ RMS_WINDOWN_SIZE \in Nat \ {0}

VARIABLES
    timer4,           \* the sample timer runs
    adc_value,        \* the buffer: what each cell holds
    pos,              \* cell the DMA writes next
    rms_adc_voltage,  \* the window
    count,            \* cell of the window that cal_rms fills next
    local_load,       \* local_i_load and local_v_load: the means published last
    taken,            \* observer: samples since the hand-over, up to a full buffer
    age,              \* observer: hand-overs since each cell of the window was filled
    clean             \* observer: hand-overs from the first of a full buffer on

vars == <<timer4, adc_value, pos, rms_adc_voltage, count, local_load, taken, age, clean>>

Cells == 0 .. SAMPLES - 1

Window == 0 .. RMS_WINDOWN_SIZE - 1

\* A cell holds the zero of a buffer never written (which is no zero signal:
\* the reference is VREFCONST), a sample taken before the last hand-over or
\* one taken since.
Kinds == {"zero", "old", "new"}

\* Hand-overs after which the zeros have left the published means.
Settled == 2 * RMS_WINDOWN_SIZE - 1

\* Bounded counters.
UpTo(n, cap) == IF n < cap THEN n ELSE cap

(* Types: the DMA stays in the buffer and the window index in the window;  *)
(* one further, and an RMS value would go to the cell of the mean          *)
(* (drv_adc.c:125, 178, 193).                                              *)
TypeOK ==
    /\ timer4 \in BOOLEAN
    /\ adc_value \in [Cells -> Kinds]
    /\ pos \in Cells
    /\ rms_adc_voltage \in [Window -> SUBSET Kinds]
    /\ count \in Window
    /\ local_load \in SUBSET Kinds
    /\ taken \in 0 .. SAMPLES
    /\ age \in [Window -> 0 .. RMS_WINDOWN_SIZE]
    /\ clean \in 0 .. Settled

\* gd32_adc_enabled configures the DMA and timer4 but does not start timer4.
Init ==
    /\ timer4 = FALSE
    /\ adc_value = [c \in Cells |-> "zero"]
    /\ pos = 0
    /\ rms_adc_voltage = [i \in Window |-> {}]
    /\ count = 0
    /\ local_load = {}
    /\ taken = 0
    /\ age = [i \in Window |-> RMS_WINDOWN_SIZE]
    /\ clean = 0

-----------------------------------------------------------------------------
OneShort == IF pos + 1 < SAMPLES - 1 THEN pos + 1 ELSE 0

\* dma_circulation_enable: after the last cell the DMA starts again.
NextCell == IF pos + 1 < SAMPLES THEN pos + 1 ELSE 0

\* timer4 triggers a pair of conversions and the DMA stores it.
Sample ==
    /\ timer4
    /\ adc_value' = [adc_value EXCEPT ![pos] = "new"]
    /\ pos' = NextCell
    /\ taken' = UpTo(taken + 1, SAMPLES)
    /\ UNCHANGED <<timer4, rms_adc_voltage, count, local_load, age, clean>>

GoOn == UNCHANGED pos

\* dma_config: the DMA starts from the first cell.
RestartDma == pos' = 0

\* get_dma_data: the buffer is copied; what is in it is old from here on.
HandOver ==
    /\ adc_value' = [c \in Cells |-> IF adc_value[c] = "zero" THEN "zero" ELSE "old"]
    /\ RestartDma
    /\ taken' = 0
    /\ clean' = IF taken = SAMPLES \/ clean > 0 THEN UpTo(clean + 1, Settled) ELSE 0

\* The RMS value of the buffer.
Rms == {adc_value[c] : c \in Cells}

\* The mean of a window.
Mean(w) == UNION {w[i] : i \in Window}

WindowOverfull == count + 1 > RMS_WINDOWN_SIZE

WindowFull == count + 1 >= RMS_WINDOWN_SIZE

RestartAtOne == count' = UpTo(1, RMS_WINDOWN_SIZE - 1)

RestartWindow == count' = 0

\* cal_rms; update_i_load and update_load_voltage publish the means (a small
\* one as 0, which is left out here).
cal_rms ==
    /\ rms_adc_voltage' = [rms_adc_voltage EXCEPT ![count] = Rms]
    /\ age' = [i \in Window |-> IF i = count THEN 0 ELSE UpTo(age[i] + 1, RMS_WINDOWN_SIZE)]
    /\ \/ /\ WindowFull
          /\ local_load' = Mean(rms_adc_voltage')
          /\ RestartWindow
       \/ /\ ~WindowFull
          /\ count' = count + 1
          /\ UNCHANGED local_load

\* timer2_crossPulse_cb with g_calibrate_flag set; the first one starts timer4.
Capture ==
    /\ HandOver
    /\ cal_rms
    /\ timer4' = TRUE

Next == Sample \/ Capture

Spec == Init /\ [][Next]_vars
-----------------------------------------------------------------------------
(* Properties. *)

(***************************************************************************)
(* The samples taken since the hand-over are the first cells of the buffer *)
(* in the order taken, and all of it once it has wrapped: an interval that *)
(* is short (two crossings of one period captured) or long only mixes in   *)
(* older samples behind them and never takes the same sample twice         *)
(* (drv_adc.c:250-277, 450-454).                                           *)
(***************************************************************************)
SamplesInOrder == \A c \in Cells : adc_value[c] = "new" <=> c < taken

(***************************************************************************)
(* Once a mean has been published, the window holds the RMS values of the  *)
(* latest hand-overs, each of them once: neither the running mean that     *)
(* show_adc_info prints nor the published one weighs a hand-over twice or  *)
(* keeps one for ever (drv_adc.c:178-208).                                 *)
(***************************************************************************)
WindowFresh ==
    local_load # {} => \A k \in Window : \E i \in Window : age[i] = k

(***************************************************************************)
(* The first hand-over is of a buffer that was never written, whose zeros  *)
(* are a full-scale signal, and short intervals keep its last cells for as *)
(* long as they go on.  But one full buffer ends it: from there on the     *)
(* zeros are out of the published means within two windows less one        *)
(* (pulse_generate.c:93-101, drv_adc.c:155-208).                           *)
(***************************************************************************)
ZerosLeave == clean = Settled => "zero" \notin local_load
=============================================================================
