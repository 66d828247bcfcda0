# Verification of the light control monitor

TLA+ models of the firmware in this repository, the TLC runs that check them on
small instances, and TLAPS proofs of the main results. The firmware runs on a
GD32F425 under RT-Thread. It polls up to 32 airfield-lamp terminals over a
half-duplex power-line link, sends them lamp commands, shows their status on a
front panel and reports to two CAN buses.

The program's own code is `src/applications/`. RT-Thread, the GD32 firmware
library and agile_modbus are vendored: they are modelled only where the
application depends on a detail of theirs. File names without a directory below
are in `src/applications/`.

## 1. The system

### Execution contexts

| Context | Runs | Priority |
|---|---|---|
| EXTI2 edge interrupt | `int1_callback`: comparator edges | interrupt |
| timer2 | `timer2_crossPulse_cb`: zero crossing, steps the link | interrupt |
| timer3, timer6 | end of the LED pulse; transmit delay of the link | interrupt |
| 5 ms and 1 ms timers | `button_ticks`; the CAN clock `timeout` | interrupt |
| CAN interrupts | the driver's receive queue, send box | interrupt |
| `hmi` | display | thread, 2 |
| `main` | initialisation, indicator loop | thread, 10 |
| `can0_rx`, `can1_rx` | receiving threads | threads, 12 and 13 |
| `can0_sync_upload`, `can1_sync_upload` | uploading threads | threads, 14 and 15 |
| `adc_sample` | sampling | thread, 15 |
| `tshell` | shell commands `light_on`, `light_off`, `change_lms_state` | thread, 20 |

All interrupts the models depend on have one preemption priority, so a handler
is atomic with respect to another handler. It is *not* atomic with respect to a
thread: a thread can be interrupted between any two stores. The build is `-O0`,
so a thread's stores happen in program order. Every model below takes its
atomicity from these two facts, and thread priorities where they matter.

### Components

| Component | State it keeps | Operations | Interacts with | What makes it correct |
|---|---|---|---|---|
| Power-line link (`lmsuart.c`) | link state, send state, command buffer with its lock, status table, change mailbox, bus direction | step per zero crossing, step per transmit delay, `build_ctrl_cmd`, `change_lms_state` | driven by the pulse generator; fed by the shell; announces changes to the display | frames never torn; bus never driven during collection; each status recorded for its own terminal; every command completes |
| Frame codes (`lms.c`, `crc16.c`) | none (pure) | Hamming sync frame, CRC4, CRC16 | used by the link and by the parameter store | the tables are the codes they claim to be, and detect and correct what those codes can |
| Pulse generator (`pulse_generate.c`) | captured width, calibration flag, three timers | edge interrupt, timer callbacks | drives the link and the sampling | pulses on the zero crossings, recovery after disturbances, no false width |
| Front panel (`hmi.c`, `key_function.c`) | current and last menu, redraw flag, the screen | key callbacks, one pass of the display thread | reads the link's table and mailbox | no status change lost silently; no page left painted over another |
| CAN node (`mycan.c`, `can_response.c`) | receive queue, semaphore, reply mailbox, send box, failure flag, clock | receive interrupt, receiving and uploading thread, clock tick | two buses share one clock | no frame left behind, none handled twice, replies in order, clock right |
| Key debouncing (`multi_button.c`) | per key: state, ticks, repeat and debounce counters | tick every 5 ms | raises the panel's key events | bounces ignored; a click means one press; no gesture is waited for for ever |
| Parameter store (`i2c_app.c`) | record and CRC in the EEPROM, copy in RAM | load, save, restore defaults | CRC16; shell | a crash or failed write never yields a mixed record |
| UPS Modbus master (`modbus_master.c`, `rs_485.c`) | register image | poll, retry | agile_modbus | not started in this build |
| Inputs, outputs, alarms (`tca9535.c`, `io.c`, `event_monitor.c`) | input image, alarm list | poll, publish | I2C | not started in this build |
| Analogue sampling (`drv_adc.c`, `pulse_generate.c`) | sample buffer and DMA position, window of RMS values, published means | sample, hand-over at a crossing | driven by the pulse generator; the panel shows the means | no sample counted twice; the window holds the latest values; the start does not stay in the means |

The remaining parts (main loop, watchdog, display/SPI/UART drivers, vendored
code) keep no state that a property here is about.

### What is hard to test here

- Preemption of the shell thread between the stores of `build_ctrl_cmd`, which
  share the buffer with the transmit interrupt.
- Answers that carry no sender: attribution is by time slot alone.
- The edge interrupt racing timer2 when the width jumps from one period to the
  next, and the wrap and resolution of the timer reading.
- Keys and polls arriving between the display thread's several reads of the
  same variable; a mailbox that refuses silently.
- CAN frames before the callback is registered, overruns, and a semaphore that
  counts permits for frames that were overwritten.
- Two stores that set the clock while an interrupt advances it.
- Contact bounce and gestures in any rhythm; a repeat counter of four bits; a
  press given up while the key is still down.
- A sample buffer that is handed over after an arbitrary number of samples, the
  first time before any was taken.
- Loss of power between the pages of an EEPROM write, or while the defaults are
  being restored after one; read errors that nobody looks at.

Each hazard is listed in `PROJECT.json` with its source line and the properties
that cover it, or the reason none does yet.

## 2. Modules

| Module | Models | Used by |
|---|---|---|
| `LmsCommand` | abstract: the link as a one-slot command channel | refined by `LmsLink` |
| `LmsLink` | `lmsuart.c`, its two timer callbacks, the shell commands, the terminals | `LmsHmi`, `MCLmsLink` |
| `LmsHmi` | `hmi.c`, `key_function.c`, composed with `LmsLink` (extends it) | `LmsProofs`, `MCLmsHmi` |
| `LmsProofs` | theorems about `LmsLink` and, on top of them, `LmsHmi` | - |
| `MultiButton`, `MultiButtonProofs` | `multi_button.c` as `key_function.c` sets it up; theorems | `MCMultiButton` |
| `LmsBits` | bytes as sets of bits | `LmsCodec`, `LmsCrc16` |
| `LmsCodec`, `LmsCrc16` | the codes of `lms.c` and `crc16.c` over a noisy line | `LmsCodeProofs`, `MCLmsCodec`, `MCLmsCrc16` |
| `LmsCodeProofs` | theorems about the codes | - |
| `PulseGen`, `PulseGenProofs` | `pulse_generate.c` in discrete time; theorems | `MCPulseGen` |
| `Sampling`, `SamplingProofs` | sampling part of `pulse_generate.c` and `drv_adc.c`; theorems | `MCSampling` |
| `CanNode`, `CanNodeProofs` | one bus of `mycan.c`, `can_response.c` with the driver's queue; theorems | `MCCanNode` |
| `CanClock`, `CanClockProofs` | the clock both buses set; theorems | `MCCanClock` |
| `ParamCell` | abstract: the parameter store as a cell that survives losses of power | refined by `SysParamStore` |
| `SysParamStore` | `i2c_app.c`, `set_un` and `set_In` of `main.c` | `SysParamStoreProofs`, `MCSysParamStore` |
| `SysParamStoreProofs` | theorems about `SysParamStore` | - |

`PROJECT.json` maps each definition to its source lines. Definitions that stand
immediately before the one they resemble (`LockAndPost` before `LockOnly`,
`ResetMs` before `SetMs`) are faulty variants: each property is checked to
fail when the real definition is replaced by such a variant.

### LmsLink

`state`, `send_state`, `write_lock`, `cmd_data`, `cmd_current_send_index`,
`waitToRecvicntLeft`, `terminal_index`, `terminalState`, `polling_complete_flag`
and `mb` are the fields of the same names. `order` stands for the three fields
`group_id`, `seg_id` and `cmd_toSend`, which nothing but the shell reads. A byte
of the command buffer is represented by the command it belongs to; which bits it
has is `LmsCodec`'s subject. `txDelay`, `dir` and `rx` are timer6, the direction
pin and the receive register. `uart2` is opened without receive interrupts, so
`lms_uart_recv_byte` polls the register: reading clears it, an empty one reads
as 0xff, and a byte that comes while it is full is lost.

`Crossing` is `lms_state_machine`, one action per state; `TxDelay` is
`send_state_machine`, called when timer6 expires. `BuildCheck` ... `BuildPost`
are the stores of `build_ctrl_cmd` one by one, `ChangeStatus`/`ChangeMail` the
two statements of `change_lms_state`. `Answer` is a terminal (external): once
per poll, in its slot or up to `MaxLate` slots later.

Three variables are observers and appear in no guard of the code: `frame`,
the bytes on the line since the last long frame began; `crossings` and `ans`,
what the terminals have seen and answered.

### LmsHmi

Extends `LmsLink` with the menu, the screen (`mark` per terminal, `painted` the
set of pages drawn since the last clear) and one pass of `hmi_test` split at
every read of shared state: the menu is read three times, the status of each
terminal once per redraw. Keys come from the 5 ms interrupt; the display thread
outranks all other threads and busy-waits, so shell actions occur only while it
sleeps. `dropped` observes changes that the full mailbox refused.

### LmsCodec and LmsCrc16

The functions of `lms.c` and `crc16.c` with their tables in full. A byte is the
set of its one bits (`LmsBits`), exclusive or is symmetric difference: the same
definitions are evaluated by TLC and reasoned about by the prover. The eight
rounds of a loop over the bits of a byte are written as doublings (`Crc4Shift2`,
`Crc4Shift4`). The state machine around the functions is a line or a memory that
flips up to `MaxFlips` bits of a frame, or corrupts up to `MaxCorrupt` bits of a
block, in any pattern (`damaged` observes in which bytes).
`PolyStep` and `Cal_GenSyncFrame` are the references: the first is bitwise
polynomial division, the second the calculation that `lms.c` itself keeps to
verify its table.

### PulseGen

Time in half milliseconds, jumping from event to event; events due at the same
instant occur in any order. The comparator's pulse is centred in the 20 ms
period, so the crossings are at 5 and 15 ms. `Readings` is `rt_hwtimer_read`: the value
passes through a 32-bit float holding the whole uptime, rounded up or down to its
resolution `grain` (`Rounded`), and at the instant of a counter reload the reload
may not have been counted yet. The resolution gets coarser as the uptime doubles
(`Age`: any coarser member of `Grains`, at any moment, between the two edges of a
pulse included); 1 stands for everything finer than half a millisecond, that is
for the first hour and more.

### MultiButton

One key: the four handles share nothing. The fields of `struct Button` are
variables; a tick samples the pin (any level), advances the clock and debounces
(`Sample`), and takes one branch of the switch (one action each). `cb` is the set
of events raised in the tick; only SINGLE_CLICK has a callback, the key click of
`LmsHmi`. `same`, `edges`, `overheld`, `reported` and `since` are observers;
`beat` makes a tick in which nothing changes a step.

### Sampling

A cell of the DMA buffer is the zero it was born with, a sample from before the
last hand-over or one since; an RMS value is the set of the kinds it was computed
from, a mean the union of its values. So the model says *which* samples a
published current comes from, and nothing about the arithmetic. `Sample` is the
ADC with its DMA (external, as `dma_config` sets it up), `Capture` the part of
`timer2_crossPulse_cb` that runs with the calibration flag set: timer4 is stopped
while the buffer is copied and the DMA restarted, and `cal_rms` works on the copy,
so the whole is one step. `taken`, `age` and `clean` are observers. Crossings come
at any time here; when they come is `PulseGen`'s subject.

### CanNode and CanClock

Frames are kept apart only by what they make the node do: post replies (SYNC),
answer at once (ASK), or neither (QUIET). A frame of fewer than two bytes (SHORT)
leaves address and service code on the stack uninitialised and is taken for any
of the others. The receive queue overwrites its oldest
frame when full, and the semaphore still gets its permit; both threads share one
send box; replies to SYNC go through a mailbox that refuses silently. The
device is open before the receiving thread registers its callback: `ArriveEarly`
are the frames of that interval. `early` and `overrun` are observers.

The buses share only the clock, so it has a module of its own: `Tick` is
`timeout` of `mycan.c`, `StoreSeconds`/`StoreMs` the two stores of
`ccr_sync_time`, which a tick, or the receiver of the other bus, can separate.
Nothing is assumed of the times received: masters may disagree, and the 16-bit
milliseconds may exceed a second, as `ccr_sync_time` checks neither. `target`
observes the values stored last, `secondsOf` and `msOf` whose they are.

### SysParamStore

`ee` and `ee_crc` are the record in the chip, `g_sys_param` the coefficients in
use. The 22 bytes span three pages of 8; In_b and Un_a share the middle one, so
each of the two shell commands touches two pages. at24cxx is not in the
repository: it is modelled as writing page by page, with each page write free to
fail, and a page that fails or is cut off may be old, new or spoilt. A CRC is
represented by the record it was computed from, that is, different records are
assumed to have different CRCs; what the real CRC16 detects is `LmsCrc16`'s
subject. `Load`, `Restore`, `Reread` and their failing forms are the paths of
`read_sysdata_from_eeprom`; `WritePage` and `WriteFails` the loop of
`write_sysdata_to_eeprom`. `readFailed`, `wfails`, `tainted` and `attempted` are
observers.

## 3. Runs

| Run | Properties | Distinct states | Result |
|---|---|---|---|
| `lms_link` | `FrameIntegrity`, `BusDiscipline`, `PollExact`, `ImplementsCommand` | 69 025 | hold |
| `lms_live` | `LateByOne`, `CommandCompletes`, `PollsRecur` | 62 594 | hold |
| `lms_codec` | `TableIsHamming`, `SyncCorrects`, `OrderDetects` | 70 737 | hold |
| `lms_crc16` | `TablesArePolynomial`, `SameCode`, `BlockCheckExact` | 311 953 | hold |
| `hmi` | `HmiTypeOK`, `MarksAnnounced`, `OverlayCleared`, `DisplayConverges` | 1 884 025 | hold |
| `keys` | `TypeOK`, `ReportsFollow`, `BounceRejected`, `ClickCount`, `ClicksApart`, `ComesToRest` | 428 601 | hold |
| `pulse` | `TypeOK`, `CaptureTrue`, `Recovers`, `PulsesRecur` | 790 590 | hold |
| `pulse_uptime` | `PulsesRecur` | - | violated, see findings |
| `sampling` | `TypeOK`, `SamplesInOrder`, `WindowFresh`, `ZerosLeave` | 19 498 | hold |
| `can` | `BacklogIsEarly`, `ReplayNeedsOverrun`, `BatchHasNoGap`, `SettlesWhenSilent` | 2 692 553 | hold |
| `can_clock` | `FastBySecondPerBus` | 304 693 | hold |
| `eeprom` | `FailuresMasked`, `AllOrNothing`, `ImplementsCell`, `CallsEnd` | 471 486 | hold |

The type invariants of `LmsLink`, `CanNode`, `CanClock` and `SysParamStore` say
little beyond types; they are proved (section 4) and not repeated in the runs. The
others carry a bound of the code: the menu index, the tick counter of a key, the
delay of timer2, the index of the window.

Several properties state a limit rather than a guarantee, and the limit is what
the run shows to be exact:

- `LateByOne`: an answer one slot late *is* recorded for the next terminal
  (the byte does not name its sender), but the error does not spread.
- `OrderDetects`: two flipped bits in an order frame escape the CRC4 when they
  are 15 stream positions apart, and only then. The frame is 16 bits but the CRC
  runs over a zero nibble too, longer than the code's period.
- `OverlayCleared` holds for one key click per pass of the display thread. With
  two, the second can return to the old page before the comparison, and the page
  painted in between stays on the screen.
- `ClickCount`: a gesture of seventeen presses ends in a single click, since the
  counter has four bits; and after a repeated press that is held longer than
  300 ms the count starts again, so the gesture may end in a click it is not.
- `ReportsFollow`: a key let go in the tick after such a press was given up is
  never reported released. No callback of this build depends on it.
- `ClicksApart`: one key clicks at most every 325 ms, which is why one pass of the
  display thread (200 ms) sees at most one click *per key*. The bound of one click
  per pass in `OverlayCleared` is broken only by two different keys.
- `ZerosLeave`: the first hand-over is of a buffer never written, and its zeros
  are a full-scale signal against the reference of 1840, so the first readings
  published are of a voltage that never was. They are gone 2W - 1 hand-overs
  after the first full buffer and, as TLC shows, not always sooner; as long as
  every interval is short they stay.
- `BacklogIsEarly`: frames that arrive before the callback is registered stay in
  the queue for good, and every later frame is handled that much later.
- `BatchHasNoGap`: a full mailbox costs the tail of a batch of replies.
- `CaptureTrue`: a captured width is off by up to twice the resolution of the
  readings, less what the half-millisecond unit shows; missed reloads and the wrap
  add nothing to that at any uptime.
- `Recovers`: two equal captured periods are needed; one is not enough. It is
  claimed while readings are fine; coarser ones move the crossings with the
  captured width.
- `PulsesRecur`: holds for widths inside the window by the error of two readings.
  A width nearer to the limit can be rounded out of it as soon as readings are
  coarser than half a millisecond.
- `FastBySecondPerBus`: a tick that ends a second between the stores of
  `can_response.c:23` and `:25` is added to the new seconds, and the error stays
  until the next SYNC_TIME. A receiver that nests between them leaves *its* seconds
  under the outer frame's milliseconds: with masters that disagree the clock may
  be slow against the frame stored last (bus 1 stores second 2, bus 0 sets 1 s
  999 ms, bus 1 stores 0 ms: the clock is 1 s 0 ms), and the races of both may add
  up to one second per bus. That is all that can happen, and all of it does.
- `AllOrNothing` holds until a boot could not read the chip or could not restore
  it in three attempts. From then on zeroed or spoilt coefficients may be in use,
  and the next `set_un` or `set_In` saves them with a right CRC. A save of one pair
  that is cut off costs both pairs, which fall back to the defaults.

### Bounds

- *Link*: three terminals, so that there is a first, an inner and a last one;
  a mailbox of one, so that it is often full; two commands, so that bytes of two
  can mix. The late-answer run uses three terminals and one command. No counter
  is cut off: `CrossCap` only stops the terminals' crossing counter once every
  slot has passed.
- *Panel*: two terminals over a mailbox of one; a terminal is lit or silent;
  one click per pass. The link under it carries no commands: they touch neither
  table nor mailbox.
- *Keys*: the limits of the code (3, 60 and 200 ticks). The tick counter wraps at
  256 instead of 65536: it must only outlast the longest comparison, and a long
  press lets it wrap in state 5, where nothing reads it. `MaxEdges` allows a
  gesture of 18 presses, two more than the counter holds.
- *Sampling*: four pairs in the buffer and four values in the window instead of
  200 and 20; the number of samples between hand-overs is not bounded.
- *Codes*: all eight groups and both types; every segment byte with the two order
  codes in use; for the CRC16 a block as long as the parameter record (20 bytes and
  the CRC), with up to two corrupted bits anywhere, both in one byte included. One
  content is enough: by `OnlyDamageCounts` (section 4) what the check makes of
  damage does not depend on the content, and the tables are proved entry by entry.
- *Pulses*: a width of none, one too short, and two in the window, far enough
  apart for the rising edge to overtake the second firing and far enough inside for
  the coarser reading. The reload is shortened to 40.5 ms and the "second" to 81 ms:
  the edges still meet its wrap, and the reload of the counter, in every phase.
  Readings resolve half a millisecond and later one; in `pulse_uptime` 31 ms.
- *CAN*: a queue of two, a mailbox of five (a batch is four, so the second batch
  is cut) and up to three permits, one more than the queue holds, so that permits
  outlive overwritten frames. `MaxPermits` holds back further frames while the
  receiver is three permits behind.
- *Clock*: a second of four ticks; two buses; a receiver may be held up between
  its stores for less than a second (`HeldAssumption`). Frames carry either of two
  seconds and any of eight "16-bit" milliseconds, four of them a second and more,
  the last one above the value from which the timer no longer counts.
- *Parameter store*: one value besides the default, zero and spoilt ones; three
  power losses (`MaxLosses`), so that one can hit a save, the next the restoring
  of the defaults, and the third what follows; failing transfers are not bounded.
  The theorems hold for any bound.

Deadlock is checked in every run.

### Fairness

- *Link*: crossings recur, a running timer6 expires, the shell thread is
  scheduled. Crossings are the assumption of the whole link: without loop current
  nothing in the code ends the wait, and a command stays locked (listed as a
  hazard). Operators and terminals owe nothing. `PollsRecur` has the premise that
  commands stop: a command before each poll byte would keep it off the line.
- *Panel*: the display thread runs and its sleep ends (it has the highest
  priority). Nothing is assumed of the link, the shell or the keys.
- *Keys*: the 5 ms timer is periodic. The operator owes nothing: that the key is
  let go for good is a premise of `ComesToRest`.
- *Pulses*: time passes and due interrupts are served.
- *CAN*: ready threads run, a wait of two seconds ends, a transmission ends. The
  last is not true of a bus on which nobody acknowledges: the controller repeats
  for ever, and the thread that sent waits for ever (listed as a hazard).

- *Parameter store*: the code goes on; transfers may fail for ever. Power losses
  are bounded, so `CallsEnd` is about the time after the last one.

## 4. Proofs

`LmsProofs` proves, for every number of terminals, every mailbox size and
every set of commands and statuses:

| Theorem | Statement |
|---|---|
| `TypeCorrect` | `Spec => []TypeOK` |
| `FramesIntact` | `Spec => []FrameIntegrity` |
| `CommandRefinement` | `Spec => ImplementsCommand`: the link implements `LmsCommand` |
| `BusSafe` | `Spec => []BusDiscipline` |
| `TableExact` | `Spec => []PollExact`, if `MaxLate = 0` and `DiagStatus = {}` |
| `LateByAtMostOne` | `Spec => []LateByOne`, if `MaxLate <= 1` |

The assumptions are those named in `LmsLink`: at least one terminal
(`TerminalAssumption`) and one mailbox slot (`MailboxAssumption`), `MaxLate` a
natural number (`LateAssumption`), and the markers for "no command", "no answer"
and "no byte" differing from real ones (`ValueAssumption`, `NoByteAssumption`).

*Frames and refinement.* `FrameIntegrity` is not inductive: it says nothing of
the buffer the next byte will come from. The strengthening is `CmdInv`:

- `LockInv`: who holds the lock. While the shell is filling the buffer the send
  state is still TX_SS, and TX_LS implies the lock is set. So the interrupt
  cannot send from a half-filled buffer, and the shell cannot fill one that is
  being sent.
- `FillInv`: what has been stored up to the shell's program counter.
- `LineInv`: in TX_LS the three bytes belong to one command, and the frame on the
  line is its first `cmd_current_send_index` bytes.

The refinement maps the abstract slot to `Accepted`: empty while unlocked, the
argument of the call until `cmd_info` has been written, `order` afterwards. Under
`CmdInv`, `BuildLock` is `Accept`, `SendLong` is `SendByte`, `SendDone` is
`Release` and everything else stutters.

*Bus.* `BusDiscipline` is inductive given the types: the transmit delay is
started only in TX, and its expiry is the only way from TX to WAITRCV.

*Table.* `SlotInv` (`WaitInv`, `ReceiveInv`, `TransmitInv`) ties the terminals'
count of crossings to the state machine's counters: crossings since the poll byte
equal `2 + terminal_index` while receiving, so the terminal whose slot it is is
always the one to be read next, and the register holds that terminal's byte or
none. The two conditions are needed: late answers and manual edits of the table
both falsify `PollExact`. For late answers `LateInv` keeps the same count of
crossings and adds that a byte left in the register while nobody is being read
can only be the last terminal's.

Of the panel over the link it proves, for any number of terminals and any
mailbox:

| Theorem | Statement |
|---|---|
| `PanelKeepsLink` | `HmiSpec => Spec`: the composition takes only steps of the link, so all theorems above hold of it |
| `PanelTypeCorrect` | `HmiSpec => []HmiTypeOK` |
| `ChangesReachScreen` | `HmiSpec => []MarksAnnounced` |
| `OverlaysCleared` | `HmiSpec => []OverlayCleared`, if `MaxClicks <= 1` |

`MarksAnnounced` is not inductive: the place being drawn is blank for a moment,
which may by accident be the right mark. `MarkInv` judges that place by the value
about to be drawn (`Current`). `OverlayInv` adds to `OverlayCleared` that a menu
that differs from the last one has used up the click of the pass.

`SysParamStoreProofs` proves, for any set of coefficients and any number of power
losses, assuming only that a spoilt CRC is not one of a record (`JunkAssumption`)
and that the bound is a natural number (`LossAssumption`):

| Theorem | Statement |
|---|---|
| `StoreTypeCorrect` | `Spec => []TypeOK` |
| `RetriesMask` | `Spec => []FailuresMasked` |
| `SavesAtomic` | `Spec => []AllOrNothing` |
| `CellRefinement` | `Spec => ImplementsCell`: the store implements `ParamCell` |

*Store.* Both properties speak of the end of a call only. `StoreInv` adds what
holds on the way: during a write the failed attempts and the remaining ones add
up to three and the pages before the current one are written (`WriteInv`); before
the read-back the chip holds the defaults unless every attempt failed
(`RestoreInv`); and the CRC in the chip always belongs to a record whose save
began, to the defaults, or is spoilt (`CrcInv`), which is why a mixture of pages
cannot pass the check at the next boot.

The refinement maps the abstract cell to the chip: it is sealed with the record
whose CRC is stored, and intact when the CRC is right. Each of its actions is one
of the abstract ones or part of `Write`; `WriteInv` makes the last page of a save
`Saved`, `RestoreInv` makes the read-back `Restored` or `BootFails`, and `CallInv`
(no read has failed before a call ends) tells a failed call from a good one. The
cell says more than `AllOrNothing`, which allows the defaults at every boot: a
record saved without failure is the one every boot that can read finds, until
another save begins. Unlike `AllOrNothing` it holds after failed boots too. That
different records have different CRCs is an assumption of the model; how far the
CRC16 justifies it is the subject of the next theorems.

`LmsCodeProofs`, for any groups, segments and orders that fit their fields
(`FrameAssumption`) and blocks of any length and content (`BlockAssumption`):

| Theorem | Statement |
|---|---|
| `TableRight` | `Spec => []TableIsHamming` |
| `SyncFramesCorrected` | `Spec => []SyncCorrects`, if `MaxFlips <= 2` |
| `NothingIsRejected` | `DeSyncFrame` never returns 0xf0, whatever byte it is given |
| `OrderErrorsDetected` | `Spec => []OrderDetects`, if `MaxFlips <= 2` |
| `TablesCorrect` | `BlockSpec => []TablesArePolynomial` |
| `CodesAgree` | `BlockSpec => []SameCode` |
| `SingleErrorExact` | `BlockSpec => []BlockCheckExact`, if `MaxCorrupt <= 1` |
| `DamageIsDetected` | any number of corrupted bits: an odd number, and all damage within two neighbouring bytes, is detected |
| `OnlyDamageCounts` | the two sides differ by the CRC of the damage alone |
| `ComparingIsRemainder` | comparing CRCs (`i2c_app.c:95`) decides like a zero remainder (`lms.c:176`) |
| `RecordOrderCosts` | what the byte order of the record costs, see below |

*Sync frames.* The sixteen table entries are the words whose three sums are even
(`CodeIsWord`, `WordIsCode`); a syndrome is that of the errors alone
(`SyndromeOfErrors`), and the syndromes of the seven single errors differ, which
is what `Errorpattern` inverts. Every word of seven bits is within one bit of a
code word, so the rejecting branch of `DeSyncFrame` is never taken: the code
corrects whatever it gets, and the flag 0x40 is all a receiver has to go by.

*Order frames.* Eight shifts of the CRC4 are written out bit by bit (`DivBits`),
are linear (`DivLinear`), and so is the residue of a frame (`ResidueLinear`): it is
that of the flipped bits. The residues of the sixteen single bits are computed and
compared (`ResidueOfOne`, `ResidueOfTwo`).

*Blocks.* Each table entry is a sum of bits of its index (`HTabBits`, `LTabBits`);
`StepIsDivision` compares the look-ups with eight shifts of the polynomial. The
entries being sums, a step is linear. `BlockInv` follows `Diff`, the difference
between the reader's register and the register of a reader without damage
(`Shadow`): it is moved by the corrupted bits only; a step without damage never
makes a nonzero difference zero (`StepKeeps`), which is why one damaged byte and
two neighbouring ones are detected; and its parity is that of the corrupted bits
(`StepOdd`: the polynomial has the factor x + 1).

*The record's byte order.* `write_sysdata_to_eeprom` stores `crc16`'s low byte
first; `crc16` is `crc16_modbus` with the bytes exchanged (`CodesAgree`), so the
record has them in the opposite order to the one `lms.c:175` prescribes. All
results on the number of corrupted bits are independent of that. Damage to the
last data byte together with the byte behind it is not: exactly 31 patterns pass
(`RecordOrderCosts`), where in the other order none does.

`MultiButtonProofs`, for any debounce, pause and long-press times that the tick
counter can hold (`TickAssumption`): `KeyTypeCorrect` (`TypeOK`),
`ReportsAreRight` (`ReportsFollow`), `BouncesIgnored` (`BounceRejected`),
`ClicksCountPresses` (`ClickCount`), `ClicksFarApart` (`ClicksApart`). The
invariant `KeyInv` has: the debounce counter is the length of the run of differing
samples (`RunInv`), the debounced level in each state (`LevelInv`), `repeat` is
the number of presses modulo 16 unless one was given up (`CountInv`), and how long
ago the last click must be in each state (`SinceInv`).

`CanNodeProofs`, for any queue, mailbox and bound on permits: `NodeTypeCorrect`
(`TypeOK`), `BacklogBounded` (`BacklogIsEarly`), `NoReplay`
(`ReplayNeedsOverrun`), `BatchesHaveNoGap` (`BatchHasNoGap`). `BalanceInv` counts:
queued frames are at most early frames plus permits, those in hand included, and
exactly so while nothing was overwritten. `BatchInv` says that between two posts
of a batch the last mail is the batch's previous one or the mailbox is still full:
the uploader, of lower priority, cannot make room in the middle of a batch.

`CanClockProofs`, for any finite set of buses and any times received:
`TickNormalises` (milliseconds of a second and more last for less than one tick)
and `ClockRacesBounded` (`FastBySecondPerBus`). While a receiver is between its
stores, `RaceInv` bounds the seconds by those stored last plus one, if they are its
own, and else plus its rank, the number of receivers of at least its priority: one
that nests sets the seconds anew, and each adds at most one, since together they
are held for less than a second (`HeldAssumption`). `OwnerInv` says that seconds of
a receiver at work are from the innermost one.

`PulseGenProofs`, for any set of widths, any course of the resolution and any timer1
that reloads no faster than every second period (the code: every fifth):
`PulseTypeCorrect` (`TypeOK`), `CapturesAreTrue` (`CaptureTrue`),
`GeneratorRecovers` (`Recovers`, with `MaxSteady >= 2`). `StampInv` says what the
stamp of the falling edge can be, rounded and a reload behind included; a width
computed from stamps of which one is behind, or wrapped wrongly, is at least a
reload off and falls outside the window, unless the rounding alone can bridge the
window (`Measured`). The recovery, `LooseInv` to `ThirdInv`, needs fine readings
(`Fresh`) and is an argument over three periods of one width:
whatever came before, timer2 is bounded in the first (`LooseInv`), it is off at
the end of the second (`SecondInv`), and the firings of the third are the
crossings (`ThirdInv`).

`SamplingProofs`, for any buffer and window: `SamplingTypeCorrect` (`TypeOK`),
`BufferInOrder` (`SamplesInOrder`), `WindowHoldsLatest` (`WindowFresh`),
`ZerosAreTransient` (`ZerosLeave`). `AgeInv` gives the age of every cell from the
index alone; `ZeroInv` and `LoadInv` compare those ages with the hand-overs since
the first full buffer.

Every invariant and action property of the runs, and both refinements, are proved.
Model-checked only: liveness (`CommandCompletes`, `PollsRecur`,
`DisplayConverges`, `ComesToRest`, `PulsesRecur`, `SettlesWhenSilent`,
`CallsEnd`), which needs fairness and ENABLED and is beyond the prover; and that
*two* corrupted bits far apart are detected in a block, which holds up to the
period of the polynomial, 32767 bits: an induction over that many steps of the
register, which TLC does for the length the program uses (any content, by
`OnlyDamageCounts`).

## 5. Findings

The run in which TLC refutes what the repository says:

- **`pulse_uptime`**, code. `rt_hwtimer_read` computes the reading in a 32-bit
  float that holds the whole uptime. Captured widths get coarser as it grows
  (`CaptureTrue`); from 2^18 s (about three days) on the float resolves 31 ms, no width falls into the 10.5-19.5 ms window any more, and the
  pulses, which drive the link, stop.
Noticed while modelling, without a run of their own: the error table in the
comment above `DeSyncFrame` (lms.c:55-63) exchanges the entries for syndromes 011
and 100 (the array `Errorpattern` is right, as `SyncCorrects` shows, and the
commented order is the faulty variant that property is tested with); the CRC bytes stored at the
end of `RxProgBlock1` (lms.c:232) are not the CRC of the block, which nothing in
this build reads; a mean below the offset of the calibration is a negative float
that `drv_adc.c:199-200` converts to an unsigned number, which C leaves undefined;
the clock that is a second ahead or mixed from two frames, the overlay with two clicks, the permanent lag after early CAN
frames and the dead bus are described with their properties above; the
CRC bytes of the parameter record are in the order that costs a few patterns of
damage (`RecordOrderCosts`); `NothingIsRejected` makes the branch at lms.c:93-96,
and the promise of the comment at lms.c:52 to return 0xf0, void.

## 6. Not modelled

- *UPS master, inputs and outputs, alarms*: their threads are not started in this
  build (the call at `modbus_master.c:190` is commented out, `TCA9535_init` is
  exported nowhere), so no state the program can be in contains them.
- *Main loop, watchdog, display, SPI and UART drivers*: I/O without state that
  another part reads. The main loop computes indicator bits whose write is
  commented out.
- *Arithmetic* of the measurement: floating point. The active power is computed
  and stored, but nothing reads it.
- *Payloads* of CAN replies and of terminal statuses, layout and fonts.
- *Remote mode* of `ccr_ctrl_light_lvl`: nothing that runs selects it.
- *Vendored code*: of the 664 000 lines of C in the repository about 660 000 are
  RT-Thread with its file systems, network stacks and board packages, the GD32
  firmware library and agile_modbus. Most of it is not even compiled into this
  firmware. The models cover the program's own code and those few functions of the
  kernel and its drivers whose details it depends on: `rt_mb_send`, the CAN
  receive queue and send box, `rt_hwtimer_read`, the ADC's DMA.

## 7. Plan

All parts of the program that run in this build are modelled: the link with its
abstract specification, the codes, the pulse generator, the panel over the link,
the CAN node and clock, the parameter store with its abstract specification, the keys and the
sampling, with proofs of every safety property. What is left:

1. An abstract specification of the CAN node (a lossy queue that keeps order) and
   its refinement.
2. `LmsHmi` with the clicks of four `MultiButton`s instead of its own bound
   (`ClicksApart` is the fact that connects them).
3. The UPS master and the inputs, when their threads are enabled.
4. A CAN controller that gives up on a dead bus, when the code handles one.
