----------------------------- MODULE LmsCommand -----------------------------
(***************************************************************************)
(* What the LMS link promises to whoever issues a lamp command, seen from  *)
(* the power line: a one-slot command channel.  A command is accepted only *)
(* when the slot is free; while the slot is taken the line carries that    *)
(* command's long frame, its three bytes in order and each exactly once,   *)
(* with nothing in between; the slot is freed when the frame is complete.  *)
(*                                                                         *)
(* LmsLink (lmsuart.c with its interrupts and the shell thread) is shown   *)
(* to implement this module.                                               *)
(***************************************************************************)
EXTENDS Naturals, Sequences

CONSTANTS
    Cmds,       \* the lamp commands: group, segment and order code
    NoCmd       \* the empty slot, not a command

VARIABLES
    slot,       \* the accepted command, NoCmd when the slot is free
    frame       \* the bytes of the current long frame sent so far

vars == <<slot, frame>>

\* A long frame: sync byte, segment byte, order code with its CRC4.
FrameLen == 3

\* The k-th byte (0, 1, 2) of the frame of command c.
Byte(c, k) == <<c, k>>

TypeOK ==
    /\ slot \in Cmds \union {NoCmd}
    /\ frame \in Seq(Cmds \X (0 .. FrameLen - 1))

Init ==
    /\ slot = NoCmd
    /\ frame = <<>>

Accept(c) ==
    /\ slot = NoCmd
    /\ slot' = c
    /\ UNCHANGED frame

SendByte ==
    /\ slot # NoCmd
    /\ Len(frame) < FrameLen
    /\ frame' = Append(frame, Byte(slot, Len(frame)))
    /\ UNCHANGED slot

Release ==
    /\ Len(frame) = FrameLen
    /\ slot' = NoCmd
    /\ frame' = <<>>

Next ==
    \/ \E c \in Cmds : Accept(c)
    \/ SendByte
    \/ Release

Spec == Init /\ [][Next]_vars

(***************************************************************************)
(* The frame on the line is a prefix of the accepted command's frame: no   *)
(* byte of another command, none repeated, none skipped.                   *)
(***************************************************************************)
FrameIntegrity ==
    /\ Len(frame) <= FrameLen
    /\ \A j \in 1 .. Len(frame) : frame[j] = Byte(slot, j - 1)
=============================================================================
