------------------------------ MODULE LmsCodec ------------------------------
(***************************************************************************)
(* The codes that protect the frames of the power-line link: the (7,4)     *)
(* Hamming code of the sync frame and the CRC4 of the order frame (lms.c). *)
(* The state machine is a noisy line: a frame is put on it as the code     *)
(* builds it, and noise flips at most MaxFlips of its bits.                *)
(***************************************************************************)
EXTENDS LmsBits, FiniteSets

CONSTANTS
    Groups,    \* group numbers given to GenSyncFrame
    Segments,  \* segment bytes given to build_ctrl_cmd
    Orders,    \* order codes given to build_ctrl_cmd
    MaxFlips   \* bits the line can flip in one frame

ASSUME FrameAssumption ==
    /\ Groups \subseteq 0 .. 7
    /\ Segments \subseteq 0 .. 255
    /\ Orders \subseteq 0 .. 15
    /\ MaxFlips \in Nat

VARIABLES
    phase,  \* "idle", "sync" or "order": the frame on the line
    sent,   \* what was encoded
    word,   \* the bits as they arrive
    flips   \* bit positions of word that noise has flipped

vars == <<phase, sent, word, flips>>

SHORT_CMD == 0

LONG_CMD == 1

TxSyncFrame == <<
    \h00, \h0b, \h15, \h1e, \h26, \h2d, \h33, \h38,
    \h47, \h4c, \h52, \h59, \h61, \h6a, \h74, \h7f >>

SwappedId(byGroupNo, IDType) == Bits(TxSyncFrame[2 * byGroupNo + (1 - IDType) + 1])

\* Sync frame of a group, by table: 0 g2 g1 g0 ID c2 c1 c0.
GenSyncFrame(byGroupNo, IDType) == Bits(TxSyncFrame[2 * byGroupNo + IDType + 1])

\* The same by calculation; lms.c keeps it to verify the table.
Cal_GenSyncFrame(byGroupNo, IDType) ==
    LET info == Bits(2 * byGroupNo + IDType)
        c2 == (3 \in info) # ((2 \in info) # (1 \in info))
        c1 == (3 \in info) # ((2 \in info) # (0 \in info))
        c0 == (3 \in info) # ((1 \in info) # (0 \in info))
    IN  ShiftL(info, 3) \union {i \in 0 .. 2 : (i = 2 /\ c2) \/ (i = 1 /\ c1) \/ (i = 0 /\ c0)}

\* The order in which the comment above DeSyncFrame lists the error bits.
CommentedPattern == <<0, 1, 2, 3, 4, 5, 6, 7>>

\* Bit to correct for each syndrome, counted from 1; 0 is none.
Errorpattern == <<0, 1, 2, 4, 3, 5, 6, 7>>

\* Sums modulo 2 of four bits of a frame; each is 0 for a code word.
OddS2(f) == (6 \in f) # ((5 \in f) # ((4 \in f) # (2 \in f)))

OddS1(f) == (6 \in f) # ((5 \in f) # ((3 \in f) # (1 \in f)))

OddS0(f) == (6 \in f) # ((4 \in f) # ((3 \in f) # (0 \in f)))

Syndrome(RxSyncFrame) ==
    (IF OddS2(RxSyncFrame) THEN 4 ELSE 0)
        + (IF OddS1(RxSyncFrame) THEN 2 ELSE 0)
        + (IF OddS0(RxSyncFrame) THEN 1 ELSE 0)

\* What DeSyncFrame returns of a code word: ID 0 0 0 0 g2 g1 g0.
Content(RxSyncFrame) ==
    ShiftR(RxSyncFrame, 4) \union (ShiftL(RxSyncFrame, 4) \intersect {7})

\* Decode: 0x40 marks a frame that needed a correction, 0xf0 one that is no
\* code word even after it.
DeSyncFrame(byValue) ==
    LET RxSyncFrame == byValue \intersect (0 .. 6)
        ErrorBitLocation == Errorpattern[Syndrome(RxSyncFrame) + 1]
        Corrected == Xor(RxSyncFrame, {ErrorBitLocation - 1})
        s0 == {s1 \in 0 .. 15 : Bits(TxSyncFrame[s1 + 1]) = Corrected}
    IN  IF ErrorBitLocation = 0 THEN Content(RxSyncFrame)
        ELSE IF Cardinality(s0) = 1 THEN Content(Corrected) \union {6}
        ELSE {4, 5, 6, 7}

\* The same shift with the top tap forgotten.
Crc4WrongTap(crc) == IF 0 \in crc THEN Xor(ShiftR(crc, 1), {2}) ELSE ShiftR(crc, 1)

\* One bit of the division by x^4 + x + 1, reflected.
Crc4Shift(crc) == IF 0 \in crc THEN Xor(ShiftR(crc, 1), {2, 3}) ELSE ShiftR(crc, 1)

Crc4Shift2(crc) == Crc4Shift(Crc4Shift(crc))

Crc4Shift4(crc) == Crc4Shift2(Crc4Shift2(crc))

\* One round of crc4_itu's outer loop.
Crc4Byte(crc, b) == Crc4Shift4(Crc4Shift4(Xor(crc, b)))

\* crc4_itu of two bytes, as build_ctrl_cmd calls it, and of the three bytes
\* of its receive mode.
crc4_itu(b1, b2) == Crc4Byte(Crc4Byte({}, b1), b2)

crc4_rx(b1, b2, b3) == Crc4Byte(crc4_itu(b1, b2), b3)

\* build_ctrl_cmd's second and third byte, as one 16-bit word.
OrderFrame(seg_id, cmd) ==
    LET temp_buf == <<Bits(seg_id), ShiftL(Bits(cmd), 4) \intersect (0 .. 7)>>
    IN  ShiftL(temp_buf[1], 8) \union (crc4_itu(temp_buf[1], temp_buf[2]) \union temp_buf[2])

-----------------------------------------------------------------------------
Init ==
    /\ phase = "idle"
    /\ sent = <<>>
    /\ word = {}
    /\ flips = {}

\* A sync byte goes on the line: the poll (SS) or a command's first byte (LS).
SendSyncFrame(g, id) ==
    /\ phase = "idle"
    /\ phase' = "sync"
    /\ sent' = <<g, id>>
    /\ word' = GenSyncFrame(g, id)
    /\ UNCHANGED flips

SendOrderFrame(seg, cmd) ==
    /\ phase = "idle"
    /\ phase' = "order"
    /\ sent' = <<seg, cmd>>
    /\ word' = OrderFrame(seg, cmd)
    /\ UNCHANGED flips

Width == IF phase = "sync" THEN 8 ELSE 16

Flip(b) ==
    /\ phase # "idle"
    /\ b \in (0 .. Width - 1) \ flips
    /\ Cardinality(flips) < MaxFlips
    /\ word' = Xor(word, {b})
    /\ flips' = flips \union {b}
    /\ UNCHANGED <<phase, sent>>

\* The receiver has the frame; the line is free again.
Received ==
    /\ phase # "idle"
    /\ phase' = "idle"
    /\ sent' = <<>>
    /\ word' = {}
    /\ flips' = {}

Next ==
    \/ \E g \in Groups, id \in {SHORT_CMD, LONG_CMD} : SendSyncFrame(g, id)
    \/ \E seg \in Segments, cmd \in Orders : SendOrderFrame(seg, cmd)
    \/ \E b \in 0 .. 15 : Flip(b)
    \/ Received

Spec == Init /\ [][Next]_vars
-----------------------------------------------------------------------------
(* Properties. *)

\* Flips that reach the decoder: bit 7 of a sync byte is masked off.
Errors == IF phase = "sync" THEN flips \ {7} ELSE flips

(***************************************************************************)
(* The lookup table that is transmitted from is the code the calculation   *)
(* defines, for every group and both frame types (lms.c:32-47).            *)
(***************************************************************************)
TableIsHamming ==
    phase = "sync" /\ flips = {} => word = Cal_GenSyncFrame(sent[1], sent[2])

(***************************************************************************)
(* DeSyncFrame undoes GenSyncFrame through one flipped bit: the group and  *)
(* type come back, flagged exactly when a bit was wrong; two flipped bits  *)
(* may come back as another frame but never unflagged (lms.c:64-98).       *)
(***************************************************************************)
SyncCorrects ==
    phase = "sync" =>
        LET clean == Bits(sent[1] + 128 * sent[2])
        IN  CASE Cardinality(Errors) = 0 -> DeSyncFrame(word) = clean
              [] Cardinality(Errors) = 1 -> DeSyncFrame(word) = clean \union {6}
              [] OTHER -> 6 \in DeSyncFrame(word)

\* Position of an order bit in the stream the CRC is computed over: segment
\* byte, order byte, CRC byte, each least significant bit first.
StreamPos(b) == IF b >= 8 THEN b - 8 ELSE IF b >= 4 THEN 8 + b ELSE 16 + b

\* The receiver's check: the CRC nibble split from the order nibble.
Residue(w) == crc4_rx(ShiftR(w, 8), w \intersect (4 .. 7), w \intersect (0 .. 3))

(***************************************************************************)
(* The order frame as build_ctrl_cmd packs it passes the receive-mode      *)
(* check, one flipped bit never does, and two do exactly when they lie the *)
(* CRC's period, 15 positions, apart: the zero nibble the CRC runs over    *)
(* stretches the 16 bits past the period, so five double errors escape     *)
(* (lms.c:108-129, lmsuart.c:56-66).                                       *)
(***************************************************************************)
OrderDetects ==
    phase = "order" =>
        (Residue(word) = {} <=>
            \/ flips = {}
            \/ \E a, b \in flips : flips = {a, b} /\ StreamPos(a) - StreamPos(b) = 15)
=============================================================================
