------------------------------ MODULE LmsCrc16 ------------------------------
(***************************************************************************)
(* The table-driven CRC16 of the programming blocks (crc16_modbus, lms.c)  *)
(* and of the parameter record in the EEPROM (crc16, crc16.c): each file   *)
(* has its own two tables, and the same loop with the roles of the two     *)
(* register bytes exchanged.                                               *)
(*                                                                         *)
(* The state machine is a block on its way from a writer to a reader: the  *)
(* writer appends its register low byte first, storage or the line flips   *)
(* at most MaxCorrupt bits, and both sides run the code's loop.  (The      *)
(* record has its two CRC bytes in the other order: see RecordOrderCosts.) *)
(***************************************************************************)
EXTENDS LmsBits

CONSTANTS
    Bytes,      \* the values of each data byte of a block, a sequence of sets
    MaxCorrupt  \* bits corrupted in a block

ASSUME BlockAssumption ==
    /\ Bytes \in Seq(SUBSET (0 .. 255))
    /\ MaxCorrupt \in Nat

VARIABLES
    stage,     \* "data", "high" or "read": how far the block is
    len,       \* data bytes so far
    writer,    \* the writer's register <<uchCRCHi, uchCRCLo>>
    reader,    \* the reader's register
    swapped,   \* <<crc_hi, crc_lo>> of crc16 on the writer's bytes
    poly,      \* reference: remainder of the writer's bytes, bit by bit
    damaged,   \* bytes of the block, counted from 0, with corrupted bits
    corrupted  \* bits corrupted so far

blockVars == <<stage, len, writer, reader, swapped, poly, damaged, corrupted>>

CRC16_HTab == <<
    \h00, \hC1, \h81, \h40, \h01, \hC0, \h80, \h41, \h01, \hC0, \h80, \h41, \h00, \hC1, \h81, \h40,
    \h01, \hC0, \h80, \h41, \h00, \hC1, \h81, \h40, \h00, \hC1, \h81, \h40, \h01, \hC0, \h80, \h41,
    \h01, \hC0, \h80, \h41, \h00, \hC1, \h81, \h40, \h00, \hC1, \h81, \h40, \h01, \hC0, \h80, \h41,
    \h00, \hC1, \h81, \h40, \h01, \hC0, \h80, \h41, \h01, \hC0, \h80, \h41, \h00, \hC1, \h81, \h40,
    \h01, \hC0, \h80, \h41, \h00, \hC1, \h81, \h40, \h00, \hC1, \h81, \h40, \h01, \hC0, \h80, \h41,
    \h00, \hC1, \h81, \h40, \h01, \hC0, \h80, \h41, \h01, \hC0, \h80, \h41, \h00, \hC1, \h81, \h40,
    \h00, \hC1, \h81, \h40, \h01, \hC0, \h80, \h41, \h01, \hC0, \h80, \h41, \h00, \hC1, \h81, \h40,
    \h01, \hC0, \h80, \h41, \h00, \hC1, \h81, \h40, \h00, \hC1, \h81, \h40, \h01, \hC0, \h80, \h41,
    \h01, \hC0, \h80, \h41, \h00, \hC1, \h81, \h40, \h00, \hC1, \h81, \h40, \h01, \hC0, \h80, \h41,
    \h00, \hC1, \h81, \h40, \h01, \hC0, \h80, \h41, \h01, \hC0, \h80, \h41, \h00, \hC1, \h81, \h40,
    \h00, \hC1, \h81, \h40, \h01, \hC0, \h80, \h41, \h01, \hC0, \h80, \h41, \h00, \hC1, \h81, \h40,
    \h01, \hC0, \h80, \h41, \h00, \hC1, \h81, \h40, \h00, \hC1, \h81, \h40, \h01, \hC0, \h80, \h41,
    \h00, \hC1, \h81, \h40, \h01, \hC0, \h80, \h41, \h01, \hC0, \h80, \h41, \h00, \hC1, \h81, \h40,
    \h01, \hC0, \h80, \h41, \h00, \hC1, \h81, \h40, \h00, \hC1, \h81, \h40, \h01, \hC0, \h80, \h41,
    \h01, \hC0, \h80, \h41, \h00, \hC1, \h81, \h40, \h00, \hC1, \h81, \h40, \h01, \hC0, \h80, \h41,
    \h00, \hC1, \h81, \h40, \h01, \hC0, \h80, \h41, \h01, \hC0, \h80, \h41, \h00, \hC1, \h81, \h40 >>

CRC16_LTab == <<
    \h00, \hC0, \hC1, \h01, \hC3, \h03, \h02, \hC2, \hC6, \h06, \h07, \hC7, \h05, \hC5, \hC4, \h04,
    \hCC, \h0C, \h0D, \hCD, \h0F, \hCF, \hCE, \h0E, \h0A, \hCA, \hCB, \h0B, \hC9, \h09, \h08, \hC8,
    \hD8, \h18, \h19, \hD9, \h1B, \hDB, \hDA, \h1A, \h1E, \hDE, \hDF, \h1F, \hDD, \h1D, \h1C, \hDC,
    \h14, \hD4, \hD5, \h15, \hD7, \h17, \h16, \hD6, \hD2, \h12, \h13, \hD3, \h11, \hD1, \hD0, \h10,
    \hF0, \h30, \h31, \hF1, \h33, \hF3, \hF2, \h32, \h36, \hF6, \hF7, \h37, \hF5, \h35, \h34, \hF4,
    \h3C, \hFC, \hFD, \h3D, \hFF, \h3F, \h3E, \hFE, \hFA, \h3A, \h3B, \hFB, \h39, \hF9, \hF8, \h38,
    \h28, \hE8, \hE9, \h29, \hEB, \h2B, \h2A, \hEA, \hEE, \h2E, \h2F, \hEF, \h2D, \hED, \hEC, \h2C,
    \hE4, \h24, \h25, \hE5, \h27, \hE7, \hE6, \h26, \h22, \hE2, \hE3, \h23, \hE1, \h21, \h20, \hE0,
    \hA0, \h60, \h61, \hA1, \h63, \hA3, \hA2, \h62, \h66, \hA6, \hA7, \h67, \hA5, \h65, \h64, \hA4,
    \h6C, \hAC, \hAD, \h6D, \hAF, \h6F, \h6E, \hAE, \hAA, \h6A, \h6B, \hAB, \h69, \hA9, \hA8, \h68,
    \h78, \hB8, \hB9, \h79, \hBB, \h7B, \h7A, \hBA, \hBE, \h7E, \h7F, \hBF, \h7D, \hBD, \hBC, \h7C,
    \hB4, \h74, \h75, \hB5, \h77, \hB7, \hB6, \h76, \h72, \hB2, \hB3, \h73, \hB1, \h71, \h70, \hB0,
    \h50, \h90, \h91, \h51, \h93, \h53, \h52, \h92, \h96, \h56, \h57, \h97, \h55, \h95, \h94, \h54,
    \h9C, \h5C, \h5D, \h9D, \h5F, \h9F, \h9E, \h5E, \h5A, \h9A, \h9B, \h5B, \h99, \h59, \h58, \h98,
    \h88, \h48, \h49, \h89, \h4B, \h8B, \h8A, \h4A, \h4E, \h8E, \h8F, \h4F, \h8D, \h4D, \h4C, \h8C,
    \h44, \h84, \h85, \h45, \h87, \h47, \h46, \h86, \h82, \h42, \h43, \h83, \h41, \h81, \h80, \h40 >>

\* The register before the first byte, and after a block that is accepted.
Fresh == <<Bits(\hFF), Bits(\hFF)>>

Zero == <<{}, {}>>

\* The two look-ups with the tables exchanged.
Crc16WrongTable(reg, b) ==
    LET uIndex == Xor(reg[2], b)
    IN  <<Entry(CRC16_HTab, uIndex), Xor(reg[1], Entry(CRC16_LTab, uIndex))>>

\* One byte, with the other register byte forgotten.
Crc16LostHi(reg, b) ==
    LET uIndex == Xor(reg[2], b)
    IN  <<Entry(CRC16_LTab, uIndex), Entry(CRC16_HTab, uIndex)>>

\* One byte through the loop of crc16_modbus.
Crc16Step(reg, b) ==
    LET uIndex == Xor(reg[2], b)
    IN  <<Entry(CRC16_LTab, uIndex), Xor(reg[1], Entry(CRC16_HTab, uIndex))>>

\* crc16.c has two tables of its own.
table_crc_hi == <<
    \h00, \hC1, \h81, \h40, \h01, \hC0, \h80, \h41, \h01, \hC0, \h80, \h41, \h00, \hC1, \h81, \h40,
    \h01, \hC0, \h80, \h41, \h00, \hC1, \h81, \h40, \h00, \hC1, \h81, \h40, \h01, \hC0, \h80, \h41,
    \h01, \hC0, \h80, \h41, \h00, \hC1, \h81, \h40, \h00, \hC1, \h81, \h40, \h01, \hC0, \h80, \h41,
    \h00, \hC1, \h81, \h40, \h01, \hC0, \h80, \h41, \h01, \hC0, \h80, \h41, \h00, \hC1, \h81, \h40,
    \h01, \hC0, \h80, \h41, \h00, \hC1, \h81, \h40, \h00, \hC1, \h81, \h40, \h01, \hC0, \h80, \h41,
    \h00, \hC1, \h81, \h40, \h01, \hC0, \h80, \h41, \h01, \hC0, \h80, \h41, \h00, \hC1, \h81, \h40,
    \h00, \hC1, \h81, \h40, \h01, \hC0, \h80, \h41, \h01, \hC0, \h80, \h41, \h00, \hC1, \h81, \h40,
    \h01, \hC0, \h80, \h41, \h00, \hC1, \h81, \h40, \h00, \hC1, \h81, \h40, \h01, \hC0, \h80, \h41,
    \h01, \hC0, \h80, \h41, \h00, \hC1, \h81, \h40, \h00, \hC1, \h81, \h40, \h01, \hC0, \h80, \h41,
    \h00, \hC1, \h81, \h40, \h01, \hC0, \h80, \h41, \h01, \hC0, \h80, \h41, \h00, \hC1, \h81, \h40,
    \h00, \hC1, \h81, \h40, \h01, \hC0, \h80, \h41, \h01, \hC0, \h80, \h41, \h00, \hC1, \h81, \h40,
    \h01, \hC0, \h80, \h41, \h00, \hC1, \h81, \h40, \h00, \hC1, \h81, \h40, \h01, \hC0, \h80, \h41,
    \h00, \hC1, \h81, \h40, \h01, \hC0, \h80, \h41, \h01, \hC0, \h80, \h41, \h00, \hC1, \h81, \h40,
    \h01, \hC0, \h80, \h41, \h00, \hC1, \h81, \h40, \h00, \hC1, \h81, \h40, \h01, \hC0, \h80, \h41,
    \h01, \hC0, \h80, \h41, \h00, \hC1, \h81, \h40, \h00, \hC1, \h81, \h40, \h01, \hC0, \h80, \h41,
    \h00, \hC1, \h81, \h40, \h01, \hC0, \h80, \h41, \h01, \hC0, \h80, \h41, \h00, \hC1, \h81, \h40 >>

table_crc_lo == <<
    \h00, \hC0, \hC1, \h01, \hC3, \h03, \h02, \hC2, \hC6, \h06, \h07, \hC7, \h05, \hC5, \hC4, \h04,
    \hCC, \h0C, \h0D, \hCD, \h0F, \hCF, \hCE, \h0E, \h0A, \hCA, \hCB, \h0B, \hC9, \h09, \h08, \hC8,
    \hD8, \h18, \h19, \hD9, \h1B, \hDB, \hDA, \h1A, \h1E, \hDE, \hDF, \h1F, \hDD, \h1D, \h1C, \hDC,
    \h14, \hD4, \hD5, \h15, \hD7, \h17, \h16, \hD6, \hD2, \h12, \h13, \hD3, \h11, \hD1, \hD0, \h10,
    \hF0, \h30, \h31, \hF1, \h33, \hF3, \hF2, \h32, \h36, \hF6, \hF7, \h37, \hF5, \h35, \h34, \hF4,
    \h3C, \hFC, \hFD, \h3D, \hFF, \h3F, \h3E, \hFE, \hFA, \h3A, \h3B, \hFB, \h39, \hF9, \hF8, \h38,
    \h28, \hE8, \hE9, \h29, \hEB, \h2B, \h2A, \hEA, \hEE, \h2E, \h2F, \hEF, \h2D, \hED, \hEC, \h2C,
    \hE4, \h24, \h25, \hE5, \h27, \hE7, \hE6, \h26, \h22, \hE2, \hE3, \h23, \hE1, \h21, \h20, \hE0,
    \hA0, \h60, \h61, \hA1, \h63, \hA3, \hA2, \h62, \h66, \hA6, \hA7, \h67, \hA5, \h65, \h64, \hA4,
    \h6C, \hAC, \hAD, \h6D, \hAF, \h6F, \h6E, \hAE, \hAA, \h6A, \h6B, \hAB, \h69, \hA9, \hA8, \h68,
    \h78, \hB8, \hB9, \h79, \hBB, \h7B, \h7A, \hBA, \hBE, \h7E, \h7F, \hBF, \h7D, \hBD, \hBC, \h7C,
    \hB4, \h74, \h75, \hB5, \h77, \hB7, \hB6, \h76, \h72, \hB2, \hB3, \h73, \hB1, \h71, \h70, \hB0,
    \h50, \h90, \h91, \h51, \h93, \h53, \h52, \h92, \h96, \h56, \h57, \h97, \h55, \h95, \h94, \h54,
    \h9C, \h5C, \h5D, \h9D, \h5F, \h9F, \h9E, \h5E, \h5A, \h9A, \h9B, \h5B, \h99, \h59, \h58, \h98,
    \h88, \h48, \h49, \h89, \h4B, \h8B, \h8A, \h4A, \h4E, \h8E, \h8F, \h4F, \h8D, \h4D, \h4C, \h8C,
    \h44, \h84, \h85, \h45, \h87, \h47, \h46, \h86, \h82, \h42, \h43, \h83, \h41, \h81, \h80, \h40 >>

\* The same loop with the index taken from the wrong register byte.
SwappedFromLo(reg, b) ==
    LET i == Xor(reg[2], b)
    IN  <<Xor(reg[2], Entry(table_crc_hi, i)), Entry(table_crc_lo, i)>>

\* One byte through the loop of crc16: crc_hi is what crc16_modbus calls Lo.
SwappedStep(reg, b) ==
    LET i == Xor(reg[1], b)
    IN  <<Xor(reg[2], Entry(table_crc_hi, i)), Entry(table_crc_lo, i)>>

\* Reference: division by x^16 + x^15 + x^2 + 1, reflected (0xA001), of one
\* bit, of two, of four and of a byte.
PolyShift(c) == IF 0 \in c THEN Xor(ShiftR(c, 1), {0, 13, 15}) ELSE ShiftR(c, 1)

PolyShift2(c) == PolyShift(PolyShift(c))

PolyShift4(c) == PolyShift2(PolyShift2(c))

PolyStep(r, b) == PolyShift4(PolyShift4(Xor(r, b)))

-----------------------------------------------------------------------------
BlockInit ==
    /\ stage = "data"
    /\ len = 0
    /\ writer = Fresh
    /\ reader = Fresh
    /\ swapped = Fresh
    /\ poly = 0 .. 15
    /\ damaged = {}
    /\ corrupted = 0

\* What can happen to a byte: the bits of it that are corrupted.
Damage == {e \in Byte : Ones(e) <= MaxCorrupt}

\* Byte b of the block, number n, is carried over.
Carry(b, n) == \E e \in Damage :
    /\ corrupted + Ones(e) <= MaxCorrupt
    /\ reader' = Crc16Step(reader, Xor(b, e))
    /\ damaged' = IF e = {} THEN damaged ELSE damaged \union {n}
    /\ corrupted' = corrupted + Ones(e)

Data(v) ==
    /\ stage = "data"
    /\ len < Len(Bytes)
    /\ v \in Bytes[len + 1]
    /\ len' = len + 1
    /\ writer' = Crc16Step(writer, Bits(v))
    /\ swapped' = SwappedStep(swapped, Bits(v))
    /\ poly' = PolyStep(poly, Bits(v))
    /\ Carry(Bits(v), len)
    /\ UNCHANGED stage

AppendLow ==
    /\ stage = "data"
    /\ len > 0
    /\ stage' = "high"
    /\ Carry(writer[2], len)
    /\ UNCHANGED <<len, writer, swapped, poly>>

AppendHigh ==
    /\ stage = "high"
    /\ stage' = "read"
    /\ Carry(writer[1], len + 1)
    /\ UNCHANGED <<len, writer, swapped, poly>>

NextBlock ==
    /\ stage = "read"
    /\ stage' = "data"
    /\ len' = 0
    /\ writer' = Fresh
    /\ reader' = Fresh
    /\ swapped' = Fresh
    /\ poly' = 0 .. 15
    /\ damaged' = {}
    /\ corrupted' = 0

BlockNext ==
    \/ \E v \in 0 .. 255 : Data(v)
    \/ AppendLow
    \/ AppendHigh
    \/ NextBlock

BlockSpec == BlockInit /\ [][BlockNext]_blockVars
-----------------------------------------------------------------------------
(* Properties. *)

(***************************************************************************)
(* The two tables, applied as crc16_modbus applies them, compute the       *)
(* remainder of the polynomial (lms.c:133-191).                            *)
(***************************************************************************)
TablesArePolynomial == poly = ShiftL(writer[1], 8) \union writer[2]

(***************************************************************************)
(* crc16 (crc16.c:80-93), which guards the EEPROM record, is the same code *)
(* with the bytes of its result exchanged.                                 *)
(***************************************************************************)
SameCode == swapped = <<writer[2], writer[1]>>

(***************************************************************************)
(* A block followed by its CRC, low byte first, is accepted (remainder 0)  *)
(* exactly when no bit of it is corrupted, for up to two corrupted bits    *)
(* anywhere in it, the CRC bytes included (lms.c:171-191).                 *)
(***************************************************************************)
BlockCheckExact == stage = "read" => (reader = Zero <=> corrupted = 0)
=============================================================================
