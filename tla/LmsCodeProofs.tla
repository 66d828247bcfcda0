--------------------------- MODULE LmsCodeProofs ---------------------------
(***************************************************************************)
(* Theorems about the codes of the link and of the parameter record: for   *)
(* every block, of every length, and every order frame.                    *)
(***************************************************************************)
EXTENDS LmsCodec, LmsCrc16, FiniteSetTheorems, TLAPS

(* Bytes as sets of bits. *)

\* A byte is determined by its eight bits.
LEMMA ByteExt ==
    ASSUME NEW s \in Byte, NEW t \in Byte,
           0 \in s <=> 0 \in t, 1 \in s <=> 1 \in t, 2 \in s <=> 2 \in t, 3 \in s <=> 3 \in t,
           4 \in s <=> 4 \in t, 5 \in s <=> 5 \in t, 6 \in s <=> 6 \in t, 7 \in s <=> 7 \in t
    PROVE  s = t
<1>1. \A i \in 0 .. 7 : i \in s <=> i \in t
  OBVIOUS
<1> QED
  BY <1>1 DEF Byte

LEMMA XorBit == ASSUME NEW a, NEW b, NEW i PROVE i \in Xor(a, b) <=> ((i \in a) # (i \in b))
  BY DEF Xor

LEMMA XorByte == ASSUME NEW a \in Byte, NEW b \in Byte PROVE Xor(a, b) \in Byte
  BY DEF Xor, Byte

LEMMA XorEmpty == ASSUME NEW a, NEW b PROVE Xor(a, b) = {} <=> a = b
  BY DEF Xor

LEMMA BitsByte == ASSUME NEW n PROVE Bits(n) \in Byte
  BY DEF Bits, Byte

\* Four bytes added in pairs, in either order.
LEMMA XorSwap ==
    ASSUME NEW a, NEW b, NEW c, NEW d
    PROVE  Xor(Xor(a, b), Xor(c, d)) = Xor(Xor(a, c), Xor(b, d))
  BY DEF Xor

\* The number of ones of a byte is odd.
Odd(s) ==
    (0 \in s) # ((1 \in s) # ((2 \in s) # ((3 \in s)
        # ((4 \in s) # ((5 \in s) # ((6 \in s) # (7 \in s)))))))

LEMMA OnesOdd == ASSUME NEW s PROVE Ones(s) \in 0 .. 8 /\ (Ones(s) % 2 = 1 <=> Odd(s))
  BY DEF Ones, Term, Odd

LEMMA OnesEmpty == ASSUME NEW s \in Byte PROVE Ones(s) = 0 <=> s = {}
<1>1. Ones(s) = 0 <=> \A i \in 0 .. 7 : i \notin s
  BY DEF Ones, Term
<1> QED
  BY <1>1 DEF Byte

LEMMA OddXor == ASSUME NEW a, NEW b PROVE Odd(Xor(a, b)) <=> ~(Odd(a) <=> Odd(b))
  BY XorBit DEF Odd

-----------------------------------------------------------------------------
(* The two tables of the CRC16, as sums of bits of the index. *)

LEMMA HTabBits ==
    ASSUME NEW s
    PROVE  /\ Entry(CRC16_HTab, s) \in Byte
           /\ 0 \in Entry(CRC16_HTab, s) <=> Odd(s)
           /\ Entry(CRC16_HTab, s) \intersect {1, 2, 3, 4, 5} = {}
           /\ 6 \in Entry(CRC16_HTab, s) <=> 0 \in s
           /\ 7 \in Entry(CRC16_HTab, s) <=> ((0 \in s) # (1 \in s))
<1>1. 0 \in Entry(CRC16_HTab, s) <=> Odd(s)
  BY DEF CRC16_HTab, Weight, Bits, Entry, Value, Term, Odd
<1>2. /\ 6 \in Entry(CRC16_HTab, s) <=> 0 \in s
      /\ 7 \in Entry(CRC16_HTab, s) <=> ((0 \in s) # (1 \in s))
  BY DEF CRC16_HTab, Weight, Bits, Entry, Value, Term
<1>3. /\ 1 \notin Entry(CRC16_HTab, s)
      /\ 2 \notin Entry(CRC16_HTab, s)
      /\ 3 \notin Entry(CRC16_HTab, s)
      /\ 4 \notin Entry(CRC16_HTab, s)
      /\ 5 \notin Entry(CRC16_HTab, s)
  BY DEF CRC16_HTab, Weight, Bits, Entry, Value, Term
<1> QED
  BY <1>1, <1>2, <1>3, BitsByte DEF Entry

LEMMA LTabBits ==
    ASSUME NEW s
    PROVE  /\ Entry(CRC16_LTab, s) \in Byte
           /\ 0 \in Entry(CRC16_LTab, s) <=> ((1 \in s) # (2 \in s))
           /\ 1 \in Entry(CRC16_LTab, s) <=> ((2 \in s) # (3 \in s))
           /\ 2 \in Entry(CRC16_LTab, s) <=> ((3 \in s) # (4 \in s))
           /\ 3 \in Entry(CRC16_LTab, s) <=> ((4 \in s) # (5 \in s))
           /\ 4 \in Entry(CRC16_LTab, s) <=> ((5 \in s) # (6 \in s))
           /\ 5 \in Entry(CRC16_LTab, s) <=> ((6 \in s) # (7 \in s))
           /\ 6 \in Entry(CRC16_LTab, s) <=> ~(7 \in s <=> Odd(s))
           /\ 7 \in Entry(CRC16_LTab, s) <=> Odd(s)
<1>1. /\ 0 \in Entry(CRC16_LTab, s) <=> ((1 \in s) # (2 \in s))
      /\ 1 \in Entry(CRC16_LTab, s) <=> ((2 \in s) # (3 \in s))
      /\ 2 \in Entry(CRC16_LTab, s) <=> ((3 \in s) # (4 \in s))
  BY DEF CRC16_LTab, Weight, Bits, Entry, Value, Term
<1>2. /\ 3 \in Entry(CRC16_LTab, s) <=> ((4 \in s) # (5 \in s))
      /\ 4 \in Entry(CRC16_LTab, s) <=> ((5 \in s) # (6 \in s))
      /\ 5 \in Entry(CRC16_LTab, s) <=> ((6 \in s) # (7 \in s))
  BY DEF CRC16_LTab, Weight, Bits, Entry, Value, Term
<1>3. /\ 6 \in Entry(CRC16_LTab, s) <=> ~(7 \in s <=> Odd(s))
      /\ 7 \in Entry(CRC16_LTab, s) <=> Odd(s)
  BY DEF CRC16_LTab, Weight, Bits, Entry, Value, Term, Odd
<1> QED
  BY <1>1, <1>2, <1>3, BitsByte DEF Entry

\* Both tables are linear; the low one loses nothing.
LEMMA HTabLinear ==
    ASSUME NEW s, NEW t
    PROVE  Entry(CRC16_HTab, Xor(s, t)) = Xor(Entry(CRC16_HTab, s), Entry(CRC16_HTab, t))
<1> DEFINE l == Entry(CRC16_HTab, Xor(s, t))
           r == Xor(Entry(CRC16_HTab, s), Entry(CRC16_HTab, t))
<1>1. l \in Byte /\ r \in Byte
  BY HTabBits, XorByte
<1>2. /\ 0 \in l <=> 0 \in r
      /\ 6 \in l <=> 6 \in r
      /\ 7 \in l <=> 7 \in r
  BY HTabBits, XorBit, OddXor
<1>3. l \intersect {1, 2, 3, 4, 5} = {} /\ r \intersect {1, 2, 3, 4, 5} = {}
  BY HTabBits DEF Xor
<1> QED
  BY <1>1, <1>2, <1>3, ByteExt

LEMMA LTabLinear ==
    ASSUME NEW s, NEW t
    PROVE  Entry(CRC16_LTab, Xor(s, t)) = Xor(Entry(CRC16_LTab, s), Entry(CRC16_LTab, t))
<1> DEFINE l == Entry(CRC16_LTab, Xor(s, t))
           r == Xor(Entry(CRC16_LTab, s), Entry(CRC16_LTab, t))
<1>1. l \in Byte /\ r \in Byte
  BY LTabBits, XorByte
<1>2. /\ 0 \in l <=> 0 \in r
      /\ 1 \in l <=> 1 \in r
      /\ 2 \in l <=> 2 \in r
      /\ 3 \in l <=> 3 \in r
      /\ 4 \in l <=> 4 \in r
      /\ 5 \in l <=> 5 \in r
  BY LTabBits, XorBit
<1>3. /\ 6 \in l <=> 6 \in r
      /\ 7 \in l <=> 7 \in r
  BY LTabBits, XorBit, OddXor
<1> QED
  BY <1>1, <1>2, <1>3, ByteExt

LEMMA TabsAtZero == Entry(CRC16_HTab, {}) = {} /\ Entry(CRC16_LTab, {}) = {}
<1>1. Xor({}, {}) = {}
  BY XorEmpty
<1>2. Entry(CRC16_HTab, {}) = Xor(Entry(CRC16_HTab, {}), Entry(CRC16_HTab, {}))
  BY <1>1, HTabLinear
<1>3. Entry(CRC16_LTab, {}) = Xor(Entry(CRC16_LTab, {}), Entry(CRC16_LTab, {}))
  BY <1>1, LTabLinear
<1> QED
  BY <1>2, <1>3, XorEmpty

LEMMA LTabExact == ASSUME NEW s \in Byte, Entry(CRC16_LTab, s) = {} PROVE s = {}
<1>1. ~Odd(s) /\ 7 \notin s
  BY LTabBits
<1>2. /\ 0 \notin s /\ 1 \notin s /\ 2 \notin s /\ 3 \notin s
      /\ 4 \notin s /\ 5 \notin s /\ 6 \notin s
  BY <1>1, LTabBits DEF Odd
<1> QED
  BY <1>1, <1>2, ByteExt DEF Byte

-----------------------------------------------------------------------------
(* One byte through the register. *)

Register == Byte \X Byte

\* The sum of two registers.
RegXor(r, w) == <<Xor(r[1], w[1]), Xor(r[2], w[2])>>

LEMMA StepRegister ==
    ASSUME NEW r \in Register, NEW b PROVE Crc16Step(r, b) \in Register
  BY HTabBits, LTabBits, XorByte DEF Register, Crc16Step

LEMMA ZeroRegister == Zero \in Register /\ Fresh \in Register
  BY BitsByte DEF Zero, Fresh, Register, Byte

\* Two registers fed with bytes that differ in e: their sum is a register fed
\* with e.
LEMMA StepLinear ==
    ASSUME NEW r, NEW w, NEW b, NEW e
    PROVE  RegXor(Crc16Step(r, Xor(b, e)), Crc16Step(w, b)) = Crc16Step(RegXor(r, w), e)
<1> DEFINE i == Xor(r[2], Xor(b, e))
           j == Xor(w[2], b)
           k == Xor(Xor(r[2], w[2]), e)
<1>1. k = Xor(i, j)
  BY DEF Xor
<1>2. Entry(CRC16_LTab, k) = Xor(Entry(CRC16_LTab, i), Entry(CRC16_LTab, j))
  BY <1>1, LTabLinear
<1>3. Entry(CRC16_HTab, k) = Xor(Entry(CRC16_HTab, i), Entry(CRC16_HTab, j))
  BY <1>1, HTabLinear
<1>4. Xor(Xor(r[1], w[1]), Entry(CRC16_HTab, k))
        = Xor(Xor(r[1], Entry(CRC16_HTab, i)), Xor(w[1], Entry(CRC16_HTab, j)))
  BY <1>3, XorSwap
<1> QED
  BY <1>2, <1>4 DEF Crc16Step, RegXor

\* Nothing on nothing is nothing.
LEMMA StepZero == Crc16Step(Zero, {}) = Zero
<1>1. Xor({}, {}) = {}
  BY XorEmpty
<1> QED
  BY <1>1, TabsAtZero DEF Crc16Step, Zero

\* A difference in the high byte survives whatever comes next.
LEMMA StepKeepsHigh ==
    ASSUME NEW d \in Register, NEW e \in Byte, d[1] # {}
    PROVE  Crc16Step(d, e) # Zero
<1> DEFINE i == Xor(d[2], e)
<1>1. i \in Byte
  BY XorByte DEF Register
<1>2. CASE i = {}
  <2>1. Xor(d[1], Entry(CRC16_HTab, i)) # {}
    BY <1>2, TabsAtZero, XorEmpty
  <2> QED
    BY <2>1 DEF Crc16Step, Zero
<1>3. CASE i # {}
  BY <1>1, <1>3, LTabExact DEF Crc16Step, Zero
<1> QED
  BY <1>2, <1>3

\* A difference survives a byte that is the same on both sides.
LEMMA StepKeeps ==
    ASSUME NEW d \in Register, d # Zero PROVE Crc16Step(d, {}) # Zero
<1>0. {} \in Byte
  BY DEF Byte
<1>1. CASE d[1] # {}
  BY <1>0, <1>1, StepKeepsHigh
<1>2. CASE d[1] = {}
  <2>1. d = <<d[1], d[2]>> /\ d[2] \in Byte
    BY DEF Register
  <2>2. d[2] # {}
    BY <1>2, <2>1 DEF Zero
  <2>3. Xor(d[2], {}) = d[2]
    BY DEF Xor
  <2>4. Entry(CRC16_LTab, d[2]) # {}
    BY <2>1, <2>2, LTabExact
  <2> QED
    BY <2>3, <2>4 DEF Crc16Step, Zero
<1> QED
  BY <1>1, <1>2

\* Damage to one byte shows in the high byte at once.
LEMMA StepDamage ==
    ASSUME NEW e \in Byte, e # {} PROVE Crc16Step(Zero, e)[1] # {}
<1>1. Xor({}, e) = e
  BY DEF Xor
<1> QED
  BY <1>1, LTabExact DEF Crc16Step, Zero

\* The polynomial has the factor x + 1: a step keeps the parity of all bits.
LEMMA StepOdd ==
    ASSUME NEW d, NEW e
    PROVE  (Odd(Crc16Step(d, e)[1]) <=> Odd(Crc16Step(d, e)[2]))
             <=> (Odd(e) <=> ~(Odd(d[1]) <=> Odd(d[2])))
<1> DEFINE i == Xor(d[2], e)
           l == Entry(CRC16_LTab, i)
           h == Entry(CRC16_HTab, i)
<1>1. Odd(l) <=> 1 \in i
  BY LTabBits DEF Odd
<1>2. Odd(h) <=> ~(1 \in i <=> Odd(i))
  BY HTabBits DEF Odd
<1>3. Odd(Xor(d[1], h)) <=> ~(Odd(d[1]) <=> Odd(h))
  BY OddXor
<1>4. Odd(i) <=> ~(Odd(d[2]) <=> Odd(e))
  BY OddXor
<1>5. Crc16Step(d, e)[1] = l /\ Crc16Step(d, e)[2] = Xor(d[1], h)
  BY DEF Crc16Step
<1> QED
  BY <1>1, <1>2, <1>3, <1>4, <1>5

-----------------------------------------------------------------------------
(***************************************************************************)
(* A block on its way.  Shadow is the register of a reader that gets every *)
(* byte as it was written; the actual reader differs from it by Diff, which*)
(* is itself a register, fed with nothing but the corrupted bits.          *)
(***************************************************************************)
Shadow ==
    IF stage = "data" THEN writer
    ELSE IF stage = "high" THEN <<{}, writer[1]>>
    ELSE Zero

Diff == RegXor(reader, Shadow)

\* Bytes of the block that the reader has.
Carried ==
    IF stage = "data" THEN len
    ELSE IF stage = "high" THEN len + 1
    ELSE len + 2

\* The damage is confined to two neighbouring bytes.
Burst == \E k \in Nat : damaged \subseteq {k, k + 1}

BlockTypeOK ==
    /\ stage \in {"data", "high", "read"}
    /\ len \in Nat
    /\ writer \in Register
    /\ reader \in Register
    /\ damaged \subseteq 0 .. Carried - 1
    /\ corrupted \in 0 .. MaxCorrupt

\* What the difference of the registers remembers of the damage.
DiffInv ==
    /\ damaged = {} <=> corrupted = 0
    /\ damaged = {} => Diff = Zero
    /\ corrupted % 2 = 1 <=> ~(Odd(Diff[1]) <=> Odd(Diff[2]))
    /\ damaged # {} /\ Burst => Diff # Zero
    /\ damaged # {} /\ damaged \subseteq {Carried - 1} => Diff[1] # {}

LEMMA ShadowRegister == ASSUME BlockTypeOK PROVE Shadow \in Register /\ Diff \in Register
<1>1. Shadow \in Register
  BY ZeroRegister DEF BlockTypeOK, Shadow, Register, Byte
<1>2. reader \in Register
  BY DEF BlockTypeOK
<1> QED
  BY <1>1, <1>2, XorByte DEF Diff, RegXor, Register

\* A sum of registers is zero only if they are equal.
LEMMA RegXorZero ==
    ASSUME NEW r \in Register, NEW w \in Register PROVE RegXor(r, w) = Zero <=> r = w
<1>1. r = <<r[1], r[2]>> /\ w = <<w[1], w[2]>>
  BY DEF Register
<1>2. Xor(r[1], w[1]) = {} <=> r[1] = w[1]
  BY XorEmpty
<1>3. Xor(r[2], w[2]) = {} <=> r[2] = w[2]
  BY XorEmpty
<1> QED
  BY <1>1, <1>2, <1>3 DEF RegXor, Zero

\* A byte that is carried over feeds the difference with its corrupted bits.
LEMMA CarryInv ==
    ASSUME BlockTypeOK, DiffInv, NEW b \in Byte, Carry(b, Carried),
           Shadow' = Crc16Step(Shadow, b), Carried' = Carried + 1
    PROVE  /\ reader' \in Register
           /\ damaged' \subseteq 0 .. Carried' - 1
           /\ corrupted' \in 0 .. MaxCorrupt
           /\ DiffInv'
<1> PICK e \in Damage :
        /\ corrupted + Ones(e) <= MaxCorrupt
        /\ reader' = Crc16Step(reader, Xor(b, e))
        /\ damaged' = IF e = {} THEN damaged ELSE damaged \union {Carried}
        /\ corrupted' = corrupted + Ones(e)
  BY DEF Carry
<1>1. e \in Byte /\ Ones(e) \in 0 .. 8 /\ (Ones(e) = 0 <=> e = {})
  BY OnesOdd, OnesEmpty DEF Damage
<1>2. /\ Carried \in Nat
      /\ damaged \subseteq 0 .. Carried - 1
      /\ corrupted \in Nat
      /\ MaxCorrupt \in Nat
  BY BlockAssumption DEF BlockTypeOK, Carried
<1>3. Diff \in Register
  BY ShadowRegister
<1>4. Diff' = Crc16Step(Diff, e)
  BY StepLinear DEF Diff
<1>5. reader' \in Register
  BY StepRegister DEF BlockTypeOK
<1>6. damaged' \subseteq 0 .. Carried' - 1
  BY <1>2
<1>7. corrupted' \in 0 .. MaxCorrupt
  BY <1>1, <1>2
<1>8. damaged' = {} <=> corrupted' = 0
  BY <1>1, <1>2 DEF DiffInv
<1>9. damaged' = {} => Diff' = Zero
  <2>1. damaged' = {} => damaged = {} /\ e = {}
    OBVIOUS
  <2> QED
    BY <2>1, <1>4, StepZero DEF DiffInv
<1>10. corrupted' % 2 = 1 <=> ~(Odd(Diff'[1]) <=> Odd(Diff'[2]))
  <2>1. Ones(e) % 2 = 1 <=> Odd(e)
    BY OnesOdd
  <2>2. corrupted' % 2 = 1 <=> ~(corrupted % 2 = 1 <=> Ones(e) % 2 = 1)
    BY <1>1, <1>2
  <2>3. corrupted % 2 = 1 <=> ~(Odd(Diff[1]) <=> Odd(Diff[2]))
    BY DEF DiffInv
  <2>4. (Odd(Diff'[1]) <=> Odd(Diff'[2])) <=> (Odd(e) <=> ~(Odd(Diff[1]) <=> Odd(Diff[2])))
    BY <1>4, StepOdd
  <2> QED
    BY <2>1, <2>2, <2>3, <2>4
<1>11. ASSUME damaged' # {}
       PROVE  /\ Burst' => Diff' # Zero
              /\ damaged' \subseteq {Carried' - 1} => Diff'[1] # {}
  <2>1. CASE damaged = {}
    <3>1. e # {} /\ Diff = Zero
      BY <1>11, <2>1 DEF DiffInv
    <3>2. Diff'[1] # {}
      BY <1>1, <1>4, <3>1, StepDamage
    <3> QED
      BY <3>2 DEF Zero
  <2>2. CASE damaged # {} /\ e = {}
    <3>1. damaged' = damaged
      BY <2>2
    <3>2. ~(damaged' \subseteq {Carried' - 1})
      <4>1. PICK m \in damaged : m \in 0 .. Carried - 1
        BY <1>2, <2>2
      <4> QED
        BY <1>2, <3>1, <4>1
    <3>3. Burst' => Diff # Zero
      BY <2>2, <3>1 DEF Burst, DiffInv
    <3> QED
      BY <1>3, <1>4, <2>2, <3>2, <3>3, StepKeeps
  <2>3. CASE damaged # {} /\ e # {}
    <3>1. PICK m \in damaged : m \in 0 .. Carried - 1
      BY <1>2, <2>3
    <3>2. ~(damaged' \subseteq {Carried' - 1})
      <4>1. m \in damaged' /\ Carried' - 1 = Carried /\ m # Carried
        BY <1>2, <2>3, <3>1
      <4> QED
        BY <4>1
    <3>3. ASSUME NEW k \in Nat, damaged' \subseteq {k, k + 1}
          PROVE  damaged \subseteq {Carried - 1}
      BY <1>2, <2>3, <3>1, <3>3
    <3>4. Burst' => Diff[1] # {}
      BY <2>3, <3>3 DEF Burst, DiffInv
    <3> QED
      BY <1>1, <1>3, <1>4, <3>2, <3>4, StepKeepsHigh
  <2> QED
    BY <2>1, <2>2, <2>3
<1> QED
  BY <1>5, <1>6, <1>7, <1>8, <1>9, <1>10, <1>11 DEF DiffInv

BlockInv == BlockTypeOK /\ DiffInv

LEMMA FreshInv ==
    ASSUME stage = "data", len = 0, writer = Fresh, reader = Fresh, damaged = {}, corrupted = 0
    PROVE  BlockInv
<1>1. Diff = Zero
  BY ZeroRegister, RegXorZero DEF Diff, Shadow
<1>2. ~Odd({})
  BY DEF Odd
<1>3. BlockTypeOK
  BY ZeroRegister, BlockAssumption DEF BlockTypeOK, Carried
<1>4. DiffInv
  BY <1>1, <1>2 DEF DiffInv, Zero
<1> QED
  BY <1>3, <1>4 DEF BlockInv

\* Every step within a block carries one byte over, as the shadow gets it.
Carries(b) ==
    /\ Carry(b, Carried)
    /\ Shadow' = Crc16Step(Shadow, b)
    /\ Carried' = Carried + 1
    /\ stage' \in {"data", "high", "read"}
    /\ len' \in Nat
    /\ writer' \in Register

LEMMA BlockCarries ==
    ASSUME BlockTypeOK, (\E v \in 0 .. 255 : Data(v)) \/ AppendLow \/ AppendHigh
    PROVE  \E b \in Byte : Carries(b)
<1>0. writer \in Register /\ writer[1] \in Byte /\ writer[2] \in Byte /\ len \in Nat
  BY DEF BlockTypeOK, Register
<1>1. ASSUME NEW v \in 0 .. 255, Data(v) PROVE Bits(v) \in Byte /\ Carries(Bits(v))
  <2>1. Shadow' = Crc16Step(Shadow, Bits(v)) /\ Carried' = Carried + 1 /\ Carried = len
    BY <1>0, <1>1 DEF Data, Shadow, Carried
  <2>2. Carry(Bits(v), Carried)
    BY <1>1, <2>1 DEF Data
  <2>3. stage' = "data" /\ len' \in Nat /\ writer' \in Register
    BY <1>0, <1>1, StepRegister DEF Data
  <2> QED
    BY <2>1, <2>2, <2>3, BitsByte DEF Carries
<1>2. ASSUME AppendLow PROVE Carries(writer[2])
  <2>1. Xor(writer[2], writer[2]) = {} /\ Xor(writer[1], {}) = writer[1]
    BY DEF Xor
  <2>2. Crc16Step(writer, writer[2]) = <<{}, writer[1]>>
    BY <2>1, TabsAtZero DEF Crc16Step
  <2>3. Shadow' = Crc16Step(Shadow, writer[2]) /\ Carried' = Carried + 1 /\ Carried = len
    BY <1>0, <1>2, <2>2 DEF AppendLow, Shadow, Carried
  <2>4. Carry(writer[2], Carried)
    BY <1>2, <2>3 DEF AppendLow
  <2>5. stage' = "high" /\ len' \in Nat /\ writer' \in Register
    BY <1>0, <1>2 DEF AppendLow
  <2> QED
    BY <2>3, <2>4, <2>5 DEF Carries
<1>3. ASSUME AppendHigh PROVE Carries(writer[1])
  <2>1. Xor(writer[1], writer[1]) = {} /\ Xor({}, {}) = {}
    BY DEF Xor
  <2>2. Crc16Step(<<{}, writer[1]>>, writer[1]) = Zero
    BY <2>1, TabsAtZero DEF Crc16Step, Zero
  <2>3. Shadow' = Crc16Step(Shadow, writer[1]) /\ Carried' = Carried + 1 /\ Carried = len + 1
    BY <1>0, <1>3, <2>2 DEF AppendHigh, Shadow, Carried
  <2>4. Carry(writer[1], Carried)
    BY <1>3, <2>3 DEF AppendHigh
  <2>5. stage' = "read" /\ len' \in Nat /\ writer' \in Register
    BY <1>0, <1>3 DEF AppendHigh
  <2> QED
    BY <2>3, <2>4, <2>5 DEF Carries
<1> QED
  BY <1>0, <1>1, <1>2, <1>3

LEMMA BlockStep == ASSUME BlockInv, [BlockNext]_blockVars PROVE BlockInv'
<1> USE DEF BlockInv
<1>1. CASE (\E v \in 0 .. 255 : Data(v)) \/ AppendLow \/ AppendHigh
  <2>1. PICK b \in Byte : Carries(b)
    BY <1>1, BlockCarries
  <2>2. /\ reader' \in Register
        /\ damaged' \subseteq 0 .. Carried' - 1
        /\ corrupted' \in 0 .. MaxCorrupt
        /\ DiffInv'
    BY <2>1, CarryInv DEF Carries
  <2> QED
    BY <2>1, <2>2 DEF Carries, BlockTypeOK
<1>2. CASE NextBlock
  <2>1. /\ stage' = "data" /\ len' = 0 /\ writer' = Fresh /\ reader' = Fresh
        /\ damaged' = {} /\ corrupted' = 0
    BY <1>2 DEF NextBlock
  <2>2. Diff' = Zero
    BY <2>1, ZeroRegister, RegXorZero DEF Diff, Shadow
  <2>3. ~Odd({})
    BY DEF Odd
  <2>4. BlockTypeOK'
    BY <2>1, ZeroRegister, BlockAssumption DEF BlockTypeOK, Carried
  <2>5. DiffInv'
    BY <2>1, <2>2, <2>3 DEF DiffInv, Zero
  <2> QED
    BY <2>4, <2>5
<1>3. CASE UNCHANGED blockVars
  BY <1>3 DEF blockVars, BlockTypeOK, DiffInv, Diff, Shadow, Carried, Burst
<1> QED
  BY <1>1, <1>2, <1>3 DEF BlockNext

LEMMA BlockInvariant == BlockSpec => []BlockInv
<1>1. BlockInit => BlockInv
  BY FreshInv DEF BlockInit
<1> QED
  BY <1>1, BlockStep, PTL DEF BlockSpec

\* A step feeds the difference of reader and shadow with corrupted bits only.
OnlyDamage ==
    [][NextBlock \/ \E e \in Damage :
          /\ Diff' = Crc16Step(Diff, e)
          /\ corrupted' = corrupted + Ones(e)]_blockVars

(***************************************************************************)
(* What crc16_modbus makes of a damaged block depends on the corrupted     *)
(* bits and where they are, never on what the block holds: a check over    *)
(* one content of each length is a check over all (lms.c:183-188).         *)
(***************************************************************************)
THEOREM OnlyDamageCounts == BlockSpec => OnlyDamage
<1>1. ASSUME BlockInv, BlockNext, ~NextBlock
      PROVE  \E e \in Damage : /\ Diff' = Crc16Step(Diff, e)
                               /\ corrupted' = corrupted + Ones(e)
  <2>1. PICK b \in Byte : Carries(b)
    BY <1>1, BlockCarries DEF BlockInv, BlockNext
  <2>2. PICK e \in Damage : /\ reader' = Crc16Step(reader, Xor(b, e))
                            /\ corrupted' = corrupted + Ones(e)
    BY <2>1 DEF Carries, Carry
  <2>3. Diff' = Crc16Step(Diff, e)
    BY <2>1, <2>2, StepLinear DEF Carries, Diff
  <2> QED
    BY <2>2, <2>3
<1>2. BlockInv /\ [BlockNext]_blockVars =>
        [NextBlock \/ \E e \in Damage :
            /\ Diff' = Crc16Step(Diff, e)
            /\ corrupted' = corrupted + Ones(e)]_blockVars
  BY <1>1
<1> QED
  BY <1>2, BlockInvariant, PTL DEF BlockSpec, OnlyDamage

(***************************************************************************)
(* The reader of the parameter record computes the CRC of the data and     *)
(* compares it with the two bytes stored behind it (i2c_app.c:94-95). With *)
(* hi = sys_data[20] and lo = sys_data[21], as i2c_app.c:134-135 store     *)
(* them, that is the decision of a zero remainder of the block in which    *)
(* the low byte comes first.  The record has the two exchanged, so what    *)
(* the check says of a number of corrupted bits holds of it too, and what  *)
(* it says of neighbouring bytes does except for the last data byte.       *)
(***************************************************************************)
THEOREM ComparingIsRemainder ==
    ASSUME NEW r \in Register, NEW lo \in Byte, NEW hi \in Byte
    PROVE  Crc16Step(Crc16Step(r, lo), hi) = Zero <=> r = <<hi, lo>>
<1> DEFINE m == Crc16Step(r, lo)
           i == Xor(r[2], lo)
<1>1. r = <<r[1], r[2]>> /\ r[1] \in Byte /\ r[2] \in Byte
  BY DEF Register
<1>2. i \in Byte /\ m \in Register
  BY <1>1, XorByte, StepRegister
<1>3. ASSUME Crc16Step(m, hi) = Zero PROVE r = <<hi, lo>>
  <2>1. m[1] = {}
    BY <1>2, <1>3, StepKeepsHigh
  <2>2. i = {}
    BY <1>2, <2>1, LTabExact DEF Crc16Step
  <2>3. m[2] = r[1]
    <3>1. Xor(r[1], {}) = r[1]
      BY DEF Xor
    <3> QED
      BY <2>2, <3>1, TabsAtZero DEF Crc16Step
  <2>4. Xor(m[2], hi) = {}
    <3>1. Xor(m[2], hi) \in Byte
      BY <1>1, <2>3, XorByte
    <3>2. Entry(CRC16_LTab, Xor(m[2], hi)) = {}
      BY <1>3 DEF Crc16Step, Zero
    <3> QED
      BY <3>1, <3>2, LTabExact
  <2> QED
    BY <1>1, <2>2, <2>3, <2>4, XorEmpty
<1>4. ASSUME r = <<hi, lo>> PROVE Crc16Step(m, hi) = Zero
  <2>1. Xor(lo, lo) = {} /\ Xor(hi, hi) = {} /\ Xor(hi, {}) = hi /\ Xor({}, {}) = {}
    BY DEF Xor
  <2>2. m = <<{}, hi>>
    BY <1>4, <2>1, TabsAtZero DEF Crc16Step
  <2> QED
    BY <2>1, <2>2, TabsAtZero DEF Crc16Step, Zero
<1> QED
  BY <1>3, <1>4

(***************************************************************************)
(* What the order of the two bytes in the record costs (i2c_app.c:134,135):*)
(* damage a to the last data byte and b to the byte stored behind it, one  *)
(* byte apart in the CRC's order, passes for exactly 31 pairs, where in    *)
(* the order of lms.c:175 no damage to two neighbouring bytes does.        *)
(***************************************************************************)
THEOREM RecordOrderCosts ==
    ASSUME NEW a \in Byte, NEW b \in Byte
    PROVE  Crc16Step(Crc16Step(Crc16Step(Zero, a), {}), b) = Zero <=>
               /\ 0 \notin a /\ 1 \notin a /\ ~Odd(a)
               /\ b = Entry(CRC16_LTab, a)
<1> DEFINE h == Entry(CRC16_HTab, a)
           l == Entry(CRC16_LTab, a)
           m == Crc16Step(Crc16Step(Zero, a), {})
<1>1. h \in Byte /\ l \in Byte
  BY HTabBits, LTabBits
<1>2. Crc16Step(Zero, a) = <<l, h>>
  <2>1. Xor({}, a) = a /\ Xor({}, h) = h
    BY DEF Xor
  <2> QED
    BY <2>1 DEF Crc16Step, Zero
<1>3. m = <<Entry(CRC16_LTab, h), Xor(l, Entry(CRC16_HTab, h))>>
  <2>1. Xor(h, {}) = h
    BY DEF Xor
  <2> QED
    BY <1>2, <2>1 DEF Crc16Step
<1>4. m \in Register
  BY <1>3, <1>1, HTabBits, LTabBits, XorByte DEF Register
<1>5. h = {} <=> (0 \notin a /\ 1 \notin a /\ ~Odd(a))
  <2>1. h = {} <=> (0 \notin h /\ 6 \notin h /\ 7 \notin h)
    <3>1. h \intersect {1, 2, 3, 4, 5} = {}
      BY HTabBits
    <3> QED
      BY <1>1, <3>1 DEF Byte
  <2> QED
    BY <2>1, HTabBits
<1>6. ASSUME Crc16Step(m, b) = Zero PROVE h = {} /\ b = l
  <2>1. m[1] = {}
    BY <1>4, <1>6, StepKeepsHigh
  <2>2. h = {}
    BY <1>1, <1>3, <2>1, LTabExact
  <2>3. m[2] = l
    <3>1. Xor(l, {}) = l
      BY DEF Xor
    <3> QED
      BY <1>3, <2>2, <3>1, TabsAtZero
  <2>4. Xor(m[2], b) = {}
    <3>1. Xor(m[2], b) \in Byte
      BY <1>1, <2>3, XorByte
    <3>2. Entry(CRC16_LTab, Xor(m[2], b)) = {}
      BY <1>6 DEF Crc16Step, Zero
    <3> QED
      BY <3>1, <3>2, LTabExact
  <2> QED
    BY <2>2, <2>3, <2>4, XorEmpty
<1>7. ASSUME h = {}, b = l PROVE Crc16Step(m, b) = Zero
  <2>1. Xor(l, {}) = l /\ Xor(l, l) = {} /\ Xor({}, {}) = {}
    BY DEF Xor
  <2>2. m = <<{}, l>>
    BY <1>3, <1>7, <2>1, TabsAtZero
  <2> QED
    BY <1>7, <2>1, <2>2, TabsAtZero DEF Crc16Step, Zero
<1> QED
  BY <1>5, <1>6, <1>7

\* What the check of a block of any length tells: undamaged blocks pass, and
\* neither an odd number of corrupted bits nor damage to two neighbouring
\* bytes, of any pattern, does.
DamageDetected ==
    stage = "read" =>
        /\ corrupted = 0 => reader = Zero
        /\ corrupted % 2 = 1 => reader # Zero
        /\ corrupted # 0 /\ Burst => reader # Zero

(***************************************************************************)
(* crc16_modbus in its receive mode (lms.c:171-191), for blocks of every   *)
(* length and any number of corrupted bits: the check accepts every intact *)
(* block and rejects every odd number of corrupted bits, and every burst   *)
(* within two neighbouring bytes, the CRC bytes included.                  *)
(***************************************************************************)
THEOREM DamageIsDetected == BlockSpec => []DamageDetected
<1>1. ASSUME BlockInv PROVE DamageDetected
  <2> SUFFICES ASSUME stage = "read"
               PROVE  /\ corrupted = 0 => reader = Zero
                      /\ corrupted % 2 = 1 => reader # Zero
                      /\ corrupted # 0 /\ Burst => reader # Zero
    BY DEF DamageDetected
  <2>1. reader = Zero <=> Diff = Zero
    <3>1. Shadow = Zero /\ reader \in Register
      BY <1>1 DEF Shadow, BlockInv, BlockTypeOK
    <3> QED
      BY <3>1, ZeroRegister, RegXorZero DEF Diff
  <2>2. Diff = Zero => corrupted % 2 # 1
    BY <1>1 DEF BlockInv, DiffInv, Zero
  <2> QED
    BY <1>1, <2>1, <2>2 DEF BlockInv, DiffInv
<1> QED
  BY <1>1, BlockInvariant, PTL

(***************************************************************************)
(* With at most one corrupted bit the check of crc16_modbus is exact for   *)
(* blocks of every length and every content (lms.c:171-191).               *)
(***************************************************************************)
THEOREM SingleErrorExact ==
    ASSUME MaxCorrupt \in {0, 1}
    PROVE  BlockSpec => []BlockCheckExact
<1>1. ASSUME BlockInv, DamageDetected PROVE BlockCheckExact
  <2>1. corrupted = 0 \/ corrupted = 1
    BY <1>1 DEF BlockInv, BlockTypeOK
  <2> QED
    BY <1>1, <2>1 DEF DamageDetected, BlockCheckExact
<1> QED
  BY <1>1, BlockInvariant, DamageIsDetected, PTL

\* The tables of crc16.c and lms.c are equal, entry by entry.
LEMMA SameTables == table_crc_hi = CRC16_HTab /\ table_crc_lo = CRC16_LTab
  BY DEF table_crc_hi, table_crc_lo, CRC16_HTab, CRC16_LTab

(***************************************************************************)
(* crc16 of crc16.c and crc16_modbus of lms.c give the same code with the  *)
(* bytes exchanged, for blocks of every length (crc16.c:80-93).            *)
(***************************************************************************)
THEOREM CodesAgree == BlockSpec => []SameCode
<1>1. BlockInit => SameCode
  BY DEF BlockInit, SameCode, Fresh
<1>2. ASSUME SameCode, [BlockNext]_blockVars PROVE SameCode'
  <2>1. ASSUME NEW v \in 0 .. 255, Data(v) PROVE SameCode'
    BY <1>2, <2>1, SameTables DEF Data, SameCode, SwappedStep, Crc16Step
  <2>2. CASE AppendLow \/ AppendHigh
    BY <1>2, <2>2 DEF AppendLow, AppendHigh, SameCode
  <2>3. CASE NextBlock
    BY <2>3 DEF NextBlock, SameCode, Fresh
  <2>4. CASE UNCHANGED blockVars
    BY <1>2, <2>4 DEF blockVars, SameCode
  <2> QED
    BY <1>2, <2>1, <2>2, <2>3, <2>4 DEF BlockNext
<1> QED
  BY <1>1, <1>2, PTL DEF BlockSpec

-----------------------------------------------------------------------------
(* The reference: division of a 16-bit register by the polynomial. *)

Word == SUBSET (0 .. 15)

LEMMA WordExt ==
    ASSUME NEW s \in Word, NEW t \in Word, \A i \in 0 .. 15 : i \in s <=> i \in t
    PROVE  s = t
  BY DEF Word

LEMMA PolyShiftBits ==
    ASSUME NEW c \in Word
    PROVE  /\ PolyShift(c) \in Word
           /\ \A i \in (0 .. 14) \ {0, 13} : i \in PolyShift(c) <=> i + 1 \in c
           /\ 0 \in PolyShift(c) <=> ~(1 \in c <=> 0 \in c)
           /\ 13 \in PolyShift(c) <=> ~(14 \in c <=> 0 \in c)
           /\ 15 \in PolyShift(c) <=> 0 \in c
<1>1. \A i \in Int : i \in ShiftR(c, 1) <=> i >= 0 /\ i + 1 \in c
  BY DEF ShiftR, Word
<1>2. ShiftR(c, 1) \in Word /\ 15 \notin ShiftR(c, 1)
  BY DEF ShiftR, Word
<1> QED
  BY <1>1, <1>2 DEF PolyShift, Xor, Word

\* Two, four and eight shifts, as sums of bits of the register.
LEMMA PolyShift2Bits ==
    ASSUME NEW c \in Word
    PROVE  /\ PolyShift2(c) \in Word
           /\ \A i \in 1 .. 11 : i \in PolyShift2(c) <=> i + 2 \in c
           /\ 0 \in PolyShift2(c) <=> ((2 \in c) # ((0 \in c) # (1 \in c)))
           /\ 12 \in PolyShift2(c) <=> ((14 \in c) # (0 \in c))
           /\ 13 \in PolyShift2(c) <=> ((15 \in c) # ((0 \in c) # (1 \in c)))
           /\ 14 \in PolyShift2(c) <=> 0 \in c
           /\ 15 \in PolyShift2(c) <=> ((0 \in c) # (1 \in c))
<1> DEFINE d == PolyShift(c)
<1>1. d \in Word
  BY PolyShiftBits
<1>2. /\ 0 \in d <=> ((1 \in c) # (0 \in c))
      /\ 1 \in d <=> 2 \in c
      /\ 13 \in d <=> ((14 \in c) # (0 \in c))
      /\ 14 \in d <=> 15 \in c
      /\ 15 \in d <=> 0 \in c
      /\ \A i \in 2 .. 12 : i \in d <=> i + 1 \in c
  BY PolyShiftBits
<1>3. /\ PolyShift(d) \in Word
      /\ 0 \in PolyShift(d) <=> ((1 \in d) # (0 \in d))
      /\ 12 \in PolyShift(d) <=> 13 \in d
      /\ 13 \in PolyShift(d) <=> ((14 \in d) # (0 \in d))
      /\ 14 \in PolyShift(d) <=> 15 \in d
      /\ 15 \in PolyShift(d) <=> 0 \in d
      /\ \A i \in 1 .. 11 : i \in PolyShift(d) <=> i + 1 \in d
  BY <1>1, PolyShiftBits
<1> QED
  BY <1>2, <1>3 DEF PolyShift2

LEMMA PolyShift4Bits ==
    ASSUME NEW c \in Word
    PROVE  /\ PolyShift4(c) \in Word
           /\ \A i \in 1 .. 9 : i \in PolyShift4(c) <=> i + 4 \in c
           /\ 0 \in PolyShift4(c)
                <=> ((4 \in c) # ((0 \in c) # ((1 \in c) # ((2 \in c) # (3 \in c)))))
           /\ 10 \in PolyShift4(c) <=> ((14 \in c) # (0 \in c))
           /\ 11 \in PolyShift4(c) <=> ((15 \in c) # ((0 \in c) # (1 \in c)))
           /\ 12 \in PolyShift4(c) <=> ((1 \in c) # (2 \in c))
           /\ 13 \in PolyShift4(c) <=> ((2 \in c) # (3 \in c))
           /\ 14 \in PolyShift4(c) <=> ((0 \in c) # ((1 \in c) # (2 \in c)))
           /\ 15 \in PolyShift4(c) <=> ((0 \in c) # ((1 \in c) # ((2 \in c) # (3 \in c))))
<1> DEFINE d == PolyShift2(c)
<1>1. d \in Word
  BY PolyShift2Bits
<1>2. /\ 0 \in d <=> ((2 \in c) # ((0 \in c) # (1 \in c)))
      /\ \A i \in 1 .. 11 : i \in d <=> i + 2 \in c
      /\ 12 \in d <=> ((14 \in c) # (0 \in c))
      /\ 13 \in d <=> ((15 \in c) # ((0 \in c) # (1 \in c)))
      /\ 14 \in d <=> 0 \in c
      /\ 15 \in d <=> ((0 \in c) # (1 \in c))
  BY PolyShift2Bits
<1>3. /\ PolyShift2(d) \in Word
      /\ \A i \in 1 .. 11 : i \in PolyShift2(d) <=> i + 2 \in d
      /\ 0 \in PolyShift2(d) <=> ((2 \in d) # ((0 \in d) # (1 \in d)))
      /\ 12 \in PolyShift2(d) <=> ((14 \in d) # (0 \in d))
      /\ 13 \in PolyShift2(d) <=> ((15 \in d) # ((0 \in d) # (1 \in d)))
      /\ 14 \in PolyShift2(d) <=> 0 \in d
      /\ 15 \in PolyShift2(d) <=> ((0 \in d) # (1 \in d))
  BY <1>1, PolyShift2Bits
<1>4. \A i \in 1 .. 9 : i \in PolyShift2(d) <=> i + 4 \in c
  BY <1>2, <1>3
<1> QED
  BY <1>2, <1>3, <1>4 DEF PolyShift4

LEMMA PolyShift8Bits ==
    ASSUME NEW c \in Word
    PROVE  LET e == PolyShift4(PolyShift4(c)) IN
           /\ e \in Word
           /\ 0 \in e <=> ~(8 \in c <=> Odd(c))
           /\ \A i \in 1 .. 5 : i \in e <=> i + 8 \in c
           /\ 6 \in e <=> ((14 \in c) # (0 \in c))
           /\ 7 \in e <=> ((15 \in c) # ((0 \in c) # (1 \in c)))
           /\ \A i \in 0 .. 5 : i + 8 \in e <=> ((i + 1 \in c) # (i + 2 \in c))
           /\ 14 \in e <=> ~(7 \in c <=> Odd(c))
           /\ 15 \in e <=> Odd(c)
<1> DEFINE d == PolyShift4(c)
           e == PolyShift4(d)
<1>1. d \in Word
  BY PolyShift4Bits
<1>2. /\ 0 \in d <=> ((4 \in c) # ((0 \in c) # ((1 \in c) # ((2 \in c) # (3 \in c)))))
      /\ \A i \in 1 .. 9 : i \in d <=> i + 4 \in c
      /\ 10 \in d <=> ((14 \in c) # (0 \in c))
      /\ 11 \in d <=> ((15 \in c) # ((0 \in c) # (1 \in c)))
      /\ 12 \in d <=> ((1 \in c) # (2 \in c))
      /\ 13 \in d <=> ((2 \in c) # (3 \in c))
      /\ 14 \in d <=> ((0 \in c) # ((1 \in c) # (2 \in c)))
      /\ 15 \in d <=> ((0 \in c) # ((1 \in c) # ((2 \in c) # (3 \in c))))
  BY PolyShift4Bits
<1>3. /\ 1 \in d <=> 5 \in c
      /\ 2 \in d <=> 6 \in c
      /\ 3 \in d <=> 7 \in c
      /\ 4 \in d <=> 8 \in c
      /\ \A i \in 5 .. 9 : i \in d <=> i + 4 \in c
  BY <1>2
<1>4. /\ e \in Word
      /\ \A i \in 1 .. 9 : i \in e <=> i + 4 \in d
      /\ 0 \in e <=> ((4 \in d) # ((0 \in d) # ((1 \in d) # ((2 \in d) # (3 \in d)))))
      /\ 10 \in e <=> ((14 \in d) # (0 \in d))
      /\ 11 \in e <=> ((15 \in d) # ((0 \in d) # (1 \in d)))
      /\ 12 \in e <=> ((1 \in d) # (2 \in d))
      /\ 13 \in e <=> ((2 \in d) # (3 \in d))
      /\ 14 \in e <=> ((0 \in d) # ((1 \in d) # (2 \in d)))
      /\ 15 \in e <=> ((0 \in d) # ((1 \in d) # ((2 \in d) # (3 \in d))))
  BY <1>1, PolyShift4Bits
<1>5. /\ 0 \in e <=> ~(8 \in c <=> Odd(c))
      /\ 14 \in e <=> ~(7 \in c <=> Odd(c))
      /\ 15 \in e <=> Odd(c)
  BY <1>2, <1>3, <1>4 DEF Odd
<1>6. \A i \in 1 .. 5 : i \in e <=> i + 8 \in c
  BY <1>3, <1>4
<1>7. /\ 6 \in e <=> ((14 \in c) # (0 \in c))
      /\ 7 \in e <=> ((15 \in c) # ((0 \in c) # (1 \in c)))
      /\ 8 \in e <=> ((1 \in c) # (2 \in c))
      /\ 9 \in e <=> ((2 \in c) # (3 \in c))
  BY <1>2, <1>4
<1>8. /\ 10 \in e <=> ((3 \in c) # (4 \in c))
      /\ 11 \in e <=> ((4 \in c) # (5 \in c))
      /\ 12 \in e <=> ((5 \in c) # (6 \in c))
      /\ 13 \in e <=> ((6 \in c) # (7 \in c))
  BY <1>2, <1>3, <1>4
<1>9. \A i \in 0 .. 5 : i + 8 \in e <=> ((i + 1 \in c) # (i + 2 \in c))
  BY <1>7, <1>8
<1> QED
  BY <1>4, <1>5, <1>6, <1>7, <1>9

\* The 16-bit register that a pair of register bytes stands for.
Joined(reg) == ShiftL(reg[1], 8) \union reg[2]

LEMMA JoinedBits ==
    ASSUME NEW reg \in Register
    PROVE  /\ Joined(reg) \in Word
           /\ \A i \in 0 .. 7 : i \in Joined(reg) <=> i \in reg[2]
           /\ \A i \in 0 .. 7 : i + 8 \in Joined(reg) <=> i \in reg[1]
<1>1. reg[1] \in Byte /\ reg[2] \in Byte
  BY DEF Register
<1>2. \A i \in Int : i \in ShiftL(reg[1], 8) <=> i - 8 \in reg[1]
  BY <1>1 DEF ShiftL, Byte
<1>3. \A i \in 0 .. 7 : i - 8 \notin reg[1] /\ i + 8 \notin reg[2] /\ (i + 8) - 8 = i
  BY <1>1 DEF Byte
<1>4. \A i \in 0 .. 7 : i \in Joined(reg) <=> i \in reg[2]
  BY <1>2, <1>3 DEF Joined
<1>5. \A i \in 0 .. 7 : i + 8 \in Joined(reg) <=> i \in reg[1]
  BY <1>2, <1>3 DEF Joined
<1>6. ShiftL(reg[1], 8) \in Word /\ reg[2] \in Word
  BY <1>1 DEF ShiftL, Byte, Word
<1>7. Joined(reg) \in Word
  BY <1>6 DEF Joined, Word
<1> QED
  BY <1>4, <1>5, <1>7

\* A table step is eight shifts of the division.
LEMMA StepIsDivision ==
    ASSUME NEW reg \in Register, NEW b \in Byte
    PROVE  PolyStep(Joined(reg), b) = Joined(Crc16Step(reg, b))
<1> DEFINE s == Xor(reg[2], b)
           c == Xor(Joined(reg), b)
           l == Entry(CRC16_LTab, s)
           h == Xor(reg[1], Entry(CRC16_HTab, s))
           e == PolyShift4(PolyShift4(c))
           f == Joined(Crc16Step(reg, b))
<1>1. /\ \A i \in 0 .. 7 : i \in c <=> i \in s
      /\ \A i \in 0 .. 7 : i + 8 \in c <=> i \in reg[1]
      /\ c \in Word
  <2>1. \A i \in 0 .. 7 : i \in c <=> i \in s
    BY JoinedBits DEF Xor
  <2>2. \A i \in 0 .. 7 : i + 8 \notin b
    BY DEF Byte
  <2>3. \A i \in 0 .. 7 : i + 8 \in c <=> i \in reg[1]
    BY <2>2, JoinedBits DEF Xor
  <2>4. Joined(reg) \in Word /\ b \in Word
    BY JoinedBits DEF Byte, Word
  <2>5. c \in Word
    BY <2>4 DEF Xor, Word
  <2> QED
    BY <2>1, <2>3, <2>5
<1>2. Odd(c) <=> Odd(s)
  BY <1>1 DEF Odd
<1>3. Crc16Step(reg, b) \in Register /\ Crc16Step(reg, b) = <<l, h>>
  BY StepRegister DEF Crc16Step
<1>4. /\ f \in Word
      /\ \A i \in 0 .. 7 : i \in f <=> i \in h
      /\ \A i \in 0 .. 7 : i + 8 \in f <=> i \in l
  BY <1>3, JoinedBits
<1>5. /\ e \in Word
      /\ 0 \in e <=> ~(8 \in c <=> Odd(c))
      /\ \A i \in 1 .. 5 : i \in e <=> i + 8 \in c
      /\ 6 \in e <=> ((14 \in c) # (0 \in c))
      /\ 7 \in e <=> ((15 \in c) # ((0 \in c) # (1 \in c)))
      /\ \A i \in 0 .. 5 : i + 8 \in e <=> ((i + 1 \in c) # (i + 2 \in c))
      /\ 14 \in e <=> ~(7 \in c <=> Odd(c))
      /\ 15 \in e <=> Odd(c)
  BY <1>1, PolyShift8Bits
<1>6. \A i \in 0 .. 7 : i \in h <=> ~(i \in reg[1] <=> i \in Entry(CRC16_HTab, s))
  BY XorBit
<1>7. \A i \in 0 .. 7 : i \in e <=> i \in h
  <2>1. 0 \in e <=> 0 \in h
    BY <1>1, <1>2, <1>5, <1>6, HTabBits
  <2>2. \A i \in 1 .. 5 : i \in e <=> i \in h
    BY <1>1, <1>5, <1>6, HTabBits
  <2>3. 14 \in c <=> 6 \in reg[1]
    BY <1>1
  <2>4. 15 \in c <=> 7 \in reg[1]
    BY <1>1
  <2>5. 6 \in e <=> 6 \in h
    BY <1>1, <1>5, <1>6, <2>3, HTabBits
  <2>6. 7 \in e <=> 7 \in h
    BY <1>1, <1>5, <1>6, <2>4, HTabBits
  <2> QED
    BY <2>1, <2>2, <2>5, <2>6
<1>8. \A i \in 0 .. 7 : i + 8 \in e <=> i \in l
  <2>1. /\ 0 + 8 \in e <=> 0 \in l
        /\ 1 + 8 \in e <=> 1 \in l
        /\ 2 + 8 \in e <=> 2 \in l
        /\ 3 + 8 \in e <=> 3 \in l
        /\ 4 + 8 \in e <=> 4 \in l
        /\ 5 + 8 \in e <=> 5 \in l
    BY <1>1, <1>5, LTabBits
  <2>2. 14 \in e <=> 6 \in l
    BY <1>1, <1>2, <1>5, LTabBits
  <2>3. 15 \in e <=> 7 \in l
    BY <1>2, <1>5, LTabBits
  <2> QED
    BY <2>1, <2>2, <2>3
<1>9. \A i \in 0 .. 7 : i + 8 \in e <=> i + 8 \in f
  BY <1>4, <1>8
<1>10. \A i \in 8 .. 15 : i \in e <=> i \in f
  BY <1>9
<1>11. e = f
  BY <1>4, <1>5, <1>7, <1>10, WordExt
<1> QED
  BY <1>11 DEF PolyStep

(***************************************************************************)
(* The 512 bytes of the two tables and the loop of crc16_modbus compute    *)
(* the remainder of the modbus polynomial, for blocks of every length and  *)
(* every content (lms.c:133-191).                                          *)
(***************************************************************************)
THEOREM TablesCorrect == BlockSpec => []TablesArePolynomial
<1>1. TablesArePolynomial <=> poly = Joined(writer)
  BY DEF TablesArePolynomial, Joined
<1>2. Joined(Fresh) = 0 .. 15
  <2>1. \A i \in 0 .. 7 : i \in Bits(\hFF)
    BY DEF Bits, Weight
  <2>2. \A i \in 0 .. 7 : i \in Joined(Fresh) /\ i + 8 \in Joined(Fresh)
    BY <2>1, ZeroRegister, JoinedBits DEF Fresh
  <2>3. Joined(Fresh) \in Word
    BY ZeroRegister, JoinedBits
  <2>4. \A i \in 8 .. 15 : i \in Joined(Fresh)
    <3>1. ASSUME NEW i \in 8 .. 15 PROVE i \in Joined(Fresh)
      <4>1. (i - 8) + 8 \in Joined(Fresh)
        BY <2>2
      <4> QED
        BY <4>1
    <3> QED
      BY <3>1
  <2> QED
    BY <2>2, <2>3, <2>4 DEF Word
<1>3. BlockInit => TablesArePolynomial
  BY <1>1, <1>2 DEF BlockInit
<1>4. ASSUME BlockInv, TablesArePolynomial, [BlockNext]_blockVars PROVE TablesArePolynomial'
  <2>0. poly = Joined(writer) /\ writer \in Register
    BY <1>1, <1>4 DEF BlockInv, BlockTypeOK
  <2>1. ASSUME NEW v \in 0 .. 255, Data(v) PROVE poly' = Joined(writer')
    BY <2>0, <2>1, StepIsDivision, BitsByte DEF Data
  <2>2. ASSUME AppendLow \/ AppendHigh PROVE poly' = Joined(writer')
    BY <2>0, <2>2 DEF AppendLow, AppendHigh
  <2>3. ASSUME NextBlock PROVE poly' = Joined(writer')
    BY <1>2, <2>3 DEF NextBlock
  <2>4. ASSUME UNCHANGED blockVars PROVE poly' = Joined(writer')
    BY <2>0, <2>4 DEF blockVars
  <2>5. poly' = Joined(writer')
    BY <1>4, <2>1, <2>2, <2>3, <2>4 DEF BlockNext
  <2> QED
    BY <2>5 DEF TablesArePolynomial, Joined
<1> QED
  BY <1>3, <1>4, BlockInvariant, PTL DEF BlockSpec

-----------------------------------------------------------------------------
(* The Hamming code of the sync frame. *)

\* The frame of information k = g2 g1 g0 ID.
Code(k) == Bits(TxSyncFrame[k + 1])

\* A code word: seven bits, even in each of the three sums.
CodeWord(f) == f \in SUBSET (0 .. 6) /\ ~OddS2(f) /\ ~OddS1(f) /\ ~OddS0(f)

LEMMA CodeIsWord == ASSUME NEW k \in 0 .. 15 PROVE CodeWord(Code(k))
<1>1. 7 \notin Code(k)
  BY DEF Code, Bits, Weight, TxSyncFrame
<1>2. ~OddS2(Code(k)) /\ ~OddS1(Code(k)) /\ ~OddS0(Code(k))
  BY DEF Code, Bits, Weight, TxSyncFrame, OddS2, OddS1, OddS0
<1> QED
  BY <1>1, <1>2, BitsByte DEF CodeWord, Code, Byte

\* The information is in the frame as it is.
LEMMA CodeInfo ==
    ASSUME NEW k \in 0 .. 15 PROVE \A i \in 0 .. 3 : i + 3 \in Code(k) <=> i \in Bits(k)
<1>1. /\ 3 \in Code(k) <=> 0 \in Bits(k)
      /\ 4 \in Code(k) <=> 1 \in Bits(k)
      /\ 5 \in Code(k) <=> 2 \in Bits(k)
      /\ 6 \in Code(k) <=> 3 \in Bits(k)
  BY DEF Code, Bits, Weight, TxSyncFrame
<1> QED
  BY <1>1

\* The low bits of a code word are sums of the others.
LEMMA WordsDiffer ==
    ASSUME NEW f, NEW h, CodeWord(f), CodeWord(h), \A i \in 3 .. 6 : i \in f <=> i \in h
    PROVE  f = h
<1>1. f \in Byte /\ h \in Byte /\ 7 \notin f /\ 7 \notin h
  BY DEF CodeWord, Byte
<1>2. /\ 3 \in f <=> 3 \in h
      /\ 4 \in f <=> 4 \in h
      /\ 5 \in f <=> 5 \in h
      /\ 6 \in f <=> 6 \in h
  OBVIOUS
<1>3. /\ 0 \in f <=> 0 \in h
      /\ 1 \in f <=> 1 \in h
      /\ 2 \in f <=> 2 \in h
  BY <1>2 DEF CodeWord, OddS2, OddS1, OddS0
<1> QED
  BY <1>1, <1>2, <1>3, ByteExt

LEMMA CodesDiffer ==
    ASSUME NEW j \in 0 .. 15, NEW k \in 0 .. 15, Code(j) = Code(k) PROVE j = k
<1>1. \A i \in 0 .. 3 : i \in Bits(j) <=> i \in Bits(k)
  BY CodeInfo
<1>2. /\ j % 2 = k % 2
      /\ (j \div 2) % 2 = (k \div 2) % 2
      /\ (j \div 4) % 2 = (k \div 4) % 2
      /\ (j \div 8) % 2 = (k \div 8) % 2
  BY <1>1 DEF Bits, Weight
<1> QED
  BY <1>2

\* The table holds every code word.
LEMMA WordIsCode == ASSUME NEW f, CodeWord(f) PROVE \E k \in 0 .. 15 : f = Code(k)
<1> DEFINE k == Term(f, 3, 1) + Term(f, 4, 2) + Term(f, 5, 4) + Term(f, 6, 8)
<1>1. k \in 0 .. 15
  BY DEF Term
<1>2. \A i \in 0 .. 3 : i \in Bits(k) <=> i + 3 \in f
  BY DEF Term, Bits, Weight
<1>3. \A i \in 3 .. 6 : i \in f <=> i \in Code(k)
  <2>1. ASSUME NEW i \in 3 .. 6 PROVE i \in f <=> i \in Code(k)
    <3>1. i - 3 \in 0 .. 3 /\ (i - 3) + 3 = i
      OBVIOUS
    <3>2. i - 3 \in Bits(k) <=> (i - 3) + 3 \in f
      BY <1>2, <3>1
    <3>3. (i - 3) + 3 \in Code(k) <=> i - 3 \in Bits(k)
      BY <1>1, <3>1, CodeInfo
    <3> QED
      BY <3>1, <3>2, <3>3
  <2> QED
    BY <2>1
<1>4. f = Code(k)
  BY <1>1, <1>3, CodeIsWord, WordsDiffer
<1> QED
  BY <1>1, <1>4

(***************************************************************************)
(* The table that is transmitted from is the code that the calculation     *)
(* defines: TxSyncFrame against Cal_GenSyncFrame (lms.c:14-47).            *)
(***************************************************************************)
LEMMA TableIsCalculated ==
    ASSUME NEW g \in 0 .. 7, NEW id \in {SHORT_CMD, LONG_CMD}
    PROVE  GenSyncFrame(g, id) = Cal_GenSyncFrame(g, id)
<1> DEFINE k == 2 * g + id
           info == Bits(k)
           cal == Cal_GenSyncFrame(g, id)
<1>1. k \in 0 .. 15
  BY DEF SHORT_CMD, LONG_CMD
<1>2. GenSyncFrame(g, id) = Code(k)
  BY DEF GenSyncFrame, Code
<1>3. \A i \in 4 .. 7 : i \notin info
  BY <1>1 DEF Bits, Weight
<1>4. info \in SUBSET (0 .. 3)
  BY <1>3 DEF Bits
<1>5. \A i \in Int : i \in ShiftL(info, 3) <=> i - 3 \in info
  BY <1>4 DEF ShiftL
<1>6. /\ 0 \in cal <=> ((3 \in info) # ((1 \in info) # (0 \in info)))
      /\ 1 \in cal <=> ((3 \in info) # ((2 \in info) # (0 \in info)))
      /\ 2 \in cal <=> ((3 \in info) # ((2 \in info) # (1 \in info)))
      /\ 3 \in cal <=> 0 \in info
      /\ 4 \in cal <=> 1 \in info
      /\ 5 \in cal <=> 2 \in info
      /\ 6 \in cal <=> 3 \in info
      /\ cal \in SUBSET (0 .. 6)
  <2>1. \A i \in 0 .. 2 : i \notin ShiftL(info, 3)
    BY <1>4, <1>5
  <2>2. /\ 3 \in ShiftL(info, 3) <=> 0 \in info
        /\ 4 \in ShiftL(info, 3) <=> 1 \in info
        /\ 5 \in ShiftL(info, 3) <=> 2 \in info
        /\ 6 \in ShiftL(info, 3) <=> 3 \in info
    BY <1>4, <1>5
  <2>3. ShiftL(info, 3) \in SUBSET (0 .. 6)
    BY <1>4 DEF ShiftL
  <2> QED
    BY <2>1, <2>2, <2>3 DEF Cal_GenSyncFrame
<1>7. CodeWord(cal)
  BY <1>6 DEF CodeWord, OddS2, OddS1, OddS0
<1>8. \A i \in 3 .. 6 : i \in cal <=> i \in Code(k)
  <2>1. /\ 0 + 3 \in Code(k) <=> 0 \in info
        /\ 1 + 3 \in Code(k) <=> 1 \in info
        /\ 2 + 3 \in Code(k) <=> 2 \in info
        /\ 3 + 3 \in Code(k) <=> 3 \in info
    BY <1>1, CodeInfo
  <2> QED
    BY <1>6, <2>1
<1> QED
  BY <1>1, <1>2, <1>7, <1>8, CodeIsWord, WordsDiffer

-----------------------------------------------------------------------------
(* Decoding. *)

\* Frames and errors add up, and so do the three sums.
LEMMA SumsAdd ==
    ASSUME NEW f, NEW e
    PROVE  /\ OddS2(Xor(f, e)) <=> ~(OddS2(f) <=> OddS2(e))
           /\ OddS1(Xor(f, e)) <=> ~(OddS1(f) <=> OddS1(e))
           /\ OddS0(Xor(f, e)) <=> ~(OddS0(f) <=> OddS0(e))
  BY XorBit DEF OddS2, OddS1, OddS0

\* The syndrome is that of the errors.
LEMMA SyndromeOfErrors ==
    ASSUME NEW f, NEW e, CodeWord(f) PROVE Syndrome(Xor(f, e)) = Syndrome(e)
  BY SumsAdd DEF CodeWord, Syndrome

\* One wrong bit is located, two are noticed.
LEMMA SyndromeOfOne ==
    ASSUME NEW a \in 0 .. 6
    PROVE  Syndrome({a}) \in 0 .. 7 /\ Errorpattern[Syndrome({a}) + 1] = a + 1
  BY DEF Syndrome, OddS2, OddS1, OddS0, Errorpattern

LEMMA SyndromeOfTwo ==
    ASSUME NEW a \in 0 .. 6, NEW b \in 0 .. 6, a # b
    PROVE  Syndrome({a, b}) \in 1 .. 7
  BY DEF Syndrome, OddS2, OddS1, OddS0

LEMMA SyndromeRange ==
    ASSUME NEW f
    PROVE  /\ Syndrome(f) \in 0 .. 7
           /\ Errorpattern[Syndrome(f) + 1] \in 0 .. 7
           /\ Errorpattern[Syndrome(f) + 1] = 0 <=> Syndrome(f) = 0
<1>1. Syndrome(f) \in 0 .. 7
  BY DEF Syndrome
<1> QED
  BY <1>1 DEF Errorpattern

\* What was sent comes out of its code word.
LEMMA CodeContent ==
    ASSUME NEW g \in 0 .. 7, NEW id \in {SHORT_CMD, LONG_CMD}
    PROVE  Content(Code(2 * g + id)) = Bits(g + 128 * id)
<1> DEFINE k == 2 * g + id
           c == Content(Code(k))
           d == Bits(g + 128 * id)
<1>1. k \in 0 .. 15 /\ id \in 0 .. 1
  BY DEF SHORT_CMD, LONG_CMD
<1>2. Code(k) \in SUBSET (0 .. 6)
  BY <1>1, CodeIsWord DEF CodeWord
<1>3. \A i \in Int : i \in ShiftR(Code(k), 4) <=> i >= 0 /\ i + 4 \in Code(k)
  BY <1>2 DEF ShiftR
<1>4. \A i \in Int : i \in ShiftL(Code(k), 4) <=> i - 4 \in Code(k)
  BY <1>2 DEF ShiftL
<1>5. ShiftR(Code(k), 4) \in SUBSET (0 .. 2)
  BY <1>2 DEF ShiftR
<1>6. c \in Byte
  BY <1>5 DEF Content, Byte
<1>7. /\ 0 \in c <=> 4 \in Code(k)
      /\ 1 \in c <=> 5 \in Code(k)
      /\ 2 \in c <=> 6 \in Code(k)
      /\ 7 \in c <=> 3 \in Code(k)
      /\ 3 \notin c /\ 4 \notin c /\ 5 \notin c /\ 6 \notin c
  BY <1>3, <1>4, <1>5 DEF Content
<1>8. /\ 0 \in d <=> 1 \in Bits(k)
      /\ 1 \in d <=> 2 \in Bits(k)
      /\ 2 \in d <=> 3 \in Bits(k)
      /\ 7 \in d <=> 0 \in Bits(k)
      /\ 3 \notin d /\ 4 \notin d /\ 5 \notin d /\ 6 \notin d
  BY <1>1 DEF Bits, Weight
<1>9. /\ 0 + 3 \in Code(k) <=> 0 \in Bits(k)
      /\ 1 + 3 \in Code(k) <=> 1 \in Bits(k)
      /\ 2 + 3 \in Code(k) <=> 2 \in Bits(k)
      /\ 3 + 3 \in Code(k) <=> 3 \in Bits(k)
  BY <1>1, CodeInfo
<1>10. c = d
  BY <1>6, <1>7, <1>8, <1>9, BitsByte, ByteExt
<1> QED
  BY <1>10

\* The loop over the table finds a code word exactly once.
LEMMA FoundOnce ==
    ASSUME NEW k \in 0 .. 15
    PROVE  Cardinality({s1 \in 0 .. 15 : Bits(TxSyncFrame[s1 + 1]) = Code(k)}) = 1
<1>1. {s1 \in 0 .. 15 : Bits(TxSyncFrame[s1 + 1]) = Code(k)} = {k}
  BY CodesDiffer DEF Code
<1> QED
  BY <1>1, FS_Singleton

LEMMA DecodeClean ==
    ASSUME NEW k \in 0 .. 15, NEW v, v \intersect (0 .. 6) = Code(k)
    PROVE  DeSyncFrame(v) = Content(Code(k))
<1>1. Syndrome(Code(k)) = 0
  BY CodeIsWord DEF CodeWord, Syndrome
<1>2. Errorpattern[Syndrome(v \intersect (0 .. 6)) + 1] = 0
  BY <1>1, SyndromeRange
<1> QED
  BY <1>2 DEF DeSyncFrame

LEMMA DecodeOne ==
    ASSUME NEW k \in 0 .. 15, NEW a \in 0 .. 6, NEW v,
           v \intersect (0 .. 6) = Xor(Code(k), {a})
    PROVE  DeSyncFrame(v) = Content(Code(k)) \union {6}
<1> DEFINE rx == Xor(Code(k), {a})
<1>1. Errorpattern[Syndrome(rx) + 1] = a + 1
  BY CodeIsWord, SyndromeOfErrors, SyndromeOfOne
<1>2. Xor(rx, {(a + 1) - 1}) = Code(k)
  BY DEF Xor
<1>3. a + 1 # 0
  OBVIOUS
<1>4. Cardinality({s1 \in 0 .. 15 : Bits(TxSyncFrame[s1 + 1]) = Code(k)}) = 1
  BY FoundOnce
<1> HIDE DEF rx
<1> QED
  BY <1>1, <1>2, <1>3, <1>4 DEF DeSyncFrame, rx

LEMMA DecodeTwo ==
    ASSUME NEW k \in 0 .. 15, NEW a \in 0 .. 6, NEW b \in 0 .. 6, a # b, NEW v,
           v \intersect (0 .. 6) = Xor(Code(k), {a, b})
    PROVE  6 \in DeSyncFrame(v)
<1>1. Syndrome(v \intersect (0 .. 6)) # 0
  <2>1. Syndrome(Xor(Code(k), {a, b})) = Syndrome({a, b})
    BY CodeIsWord, SyndromeOfErrors
  <2>2. Syndrome({a, b}) \in 1 .. 7
    BY SyndromeOfTwo
  <2> QED
    BY <2>1, <2>2
<1>2. Errorpattern[Syndrome(v \intersect (0 .. 6)) + 1] # 0
  BY <1>1, SyndromeRange
<1> QED
  BY <1>2 DEF DeSyncFrame

(***************************************************************************)
(* The code is perfect: every byte is a frame or one wrong bit away from   *)
(* one, so the 0xf0 with which DeSyncFrame would report a frame it cannot  *)
(* correct is never returned, and a receiver that waits for it never       *)
(* rejects a sync byte (lms.c:81-96).                                      *)
(***************************************************************************)
THEOREM NothingIsRejected ==
    ASSUME NEW v \in Byte
    PROVE  DeSyncFrame(v) # Bits(\hf0)
<1> DEFINE rx == v \intersect (0 .. 6)
           loc == Errorpattern[Syndrome(rx) + 1]
           fixed == Xor(rx, {loc - 1})
<1>1. Syndrome(rx) \in 0 .. 7 /\ loc \in 0 .. 7 /\ (loc = 0 <=> Syndrome(rx) = 0)
  BY SyndromeRange
<1>2. Bits(\hf0) = {4, 5, 6, 7}
  BY DEF Bits, Weight
<1>3. \A f \in SUBSET (0 .. 6) : 4 \notin Content(f)
  BY DEF Content, ShiftR, ShiftL
<1>4. CASE loc = 0
  BY <1>2, <1>3, <1>4 DEF DeSyncFrame
<1>5. CASE loc # 0
  <2>1. loc - 1 \in 0 .. 6
    BY <1>1, <1>5
  <2>2. Syndrome({loc - 1}) \in 0 .. 7 /\ Errorpattern[Syndrome({loc - 1}) + 1] = loc
    BY <2>1, SyndromeOfOne
  <2>3. Syndrome({loc - 1}) = Syndrome(rx)
    BY <1>1, <2>2 DEF Errorpattern
  <2>4. fixed \in SUBSET (0 .. 6)
    BY <2>1 DEF Xor
  <2>5. CodeWord(fixed)
    <3>1. /\ OddS2(rx) <=> OddS2({loc - 1})
          /\ OddS1(rx) <=> OddS1({loc - 1})
          /\ OddS0(rx) <=> OddS0({loc - 1})
      BY <2>3 DEF Syndrome
    <3> QED
      BY <2>4, <3>1, SumsAdd DEF CodeWord
  <2>6. PICK k \in 0 .. 15 : fixed = Code(k)
    BY <2>5, WordIsCode
  <2>7. Cardinality({s1 \in 0 .. 15 : Bits(TxSyncFrame[s1 + 1]) = fixed}) = 1
    BY <2>6, FoundOnce
  <2>8. DeSyncFrame(v) = Content(fixed) \union {6}
    BY <1>5, <2>7 DEF DeSyncFrame
  <2>9. 4 \notin Content(fixed)
    <3> HIDE DEF fixed
    <3> QED
      BY <1>3, <2>4
  <2>10. 4 \notin DeSyncFrame(v)
    <3> HIDE DEF fixed
    <3> QED
      BY <2>8, <2>9
  <2> QED
    BY <1>2, <2>10
<1> QED
  BY <1>4, <1>5

-----------------------------------------------------------------------------
(* The order frame: its bits as the CRC4 adds them up. *)

LEMMA Crc4ShiftBits ==
    ASSUME NEW c \in Byte
    PROVE  /\ Crc4Shift(c) \in Byte
           /\ 0 \in Crc4Shift(c) <=> 1 \in c
           /\ 1 \in Crc4Shift(c) <=> 2 \in c
           /\ 2 \in Crc4Shift(c) <=> ((3 \in c) # (0 \in c))
           /\ 3 \in Crc4Shift(c) <=> ((4 \in c) # (0 \in c))
           /\ 4 \in Crc4Shift(c) <=> 5 \in c
           /\ 5 \in Crc4Shift(c) <=> 6 \in c
           /\ 6 \in Crc4Shift(c) <=> 7 \in c
           /\ 7 \notin Crc4Shift(c)
<1>1. \A i \in Int : i \in ShiftR(c, 1) <=> i >= 0 /\ i + 1 \in c
  BY DEF ShiftR, Byte
<1>2. ShiftR(c, 1) \in Byte /\ 7 \notin ShiftR(c, 1)
  BY DEF ShiftR, Byte
<1> QED
  BY <1>1, <1>2 DEF Crc4Shift, Xor, Byte

LEMMA Crc4Shift2Bits ==
    ASSUME NEW c \in Byte
    PROVE  /\ Crc4Shift2(c) \in Byte
           /\ 0 \in Crc4Shift2(c) <=> 2 \in c
           /\ 1 \in Crc4Shift2(c) <=> ((3 \in c) # (0 \in c))
           /\ 2 \in Crc4Shift2(c) <=> ((4 \in c) # ((0 \in c) # (1 \in c)))
           /\ 3 \in Crc4Shift2(c) <=> ((5 \in c) # (1 \in c))
           /\ 4 \in Crc4Shift2(c) <=> 6 \in c
           /\ 5 \in Crc4Shift2(c) <=> 7 \in c
           /\ 6 \notin Crc4Shift2(c)
           /\ 7 \notin Crc4Shift2(c)
<1> DEFINE d == Crc4Shift(c)
<1>1. d \in Byte
  BY Crc4ShiftBits
<1>2. /\ Crc4Shift(d) \in Byte
      /\ 0 \in Crc4Shift(d) <=> 1 \in d
      /\ 1 \in Crc4Shift(d) <=> 2 \in d
      /\ 2 \in Crc4Shift(d) <=> ((3 \in d) # (0 \in d))
      /\ 3 \in Crc4Shift(d) <=> ((4 \in d) # (0 \in d))
      /\ 4 \in Crc4Shift(d) <=> 5 \in d
      /\ 5 \in Crc4Shift(d) <=> 6 \in d
      /\ 6 \in Crc4Shift(d) <=> 7 \in d
      /\ 7 \notin Crc4Shift(d)
  BY <1>1, Crc4ShiftBits
<1> QED
  BY <1>2, Crc4ShiftBits DEF Crc4Shift2

LEMMA Crc4Shift4Bits ==
    ASSUME NEW c \in Byte
    PROVE  /\ Crc4Shift4(c) \in Byte
           /\ 0 \in Crc4Shift4(c) <=> ((4 \in c) # ((0 \in c) # (1 \in c)))
           /\ 1 \in Crc4Shift4(c) <=> ((5 \in c) # ((1 \in c) # (2 \in c)))
           /\ 2 \in Crc4Shift4(c) <=> ((6 \in c) # ((2 \in c) # ((3 \in c) # (0 \in c))))
           /\ 3 \in Crc4Shift4(c) <=> ((7 \in c) # ((3 \in c) # (0 \in c)))
           /\ 4 \notin Crc4Shift4(c) /\ 5 \notin Crc4Shift4(c)
           /\ 6 \notin Crc4Shift4(c) /\ 7 \notin Crc4Shift4(c)
<1> DEFINE d == Crc4Shift2(c)
<1>1. d \in Byte
  BY Crc4Shift2Bits
<1>2. /\ Crc4Shift2(d) \in Byte
      /\ 0 \in Crc4Shift2(d) <=> 2 \in d
      /\ 1 \in Crc4Shift2(d) <=> ((3 \in d) # (0 \in d))
      /\ 2 \in Crc4Shift2(d) <=> ((4 \in d) # ((0 \in d) # (1 \in d)))
      /\ 3 \in Crc4Shift2(d) <=> ((5 \in d) # (1 \in d))
      /\ 4 \in Crc4Shift2(d) <=> 6 \in d
      /\ 5 \in Crc4Shift2(d) <=> 7 \in d
      /\ 6 \notin Crc4Shift2(d)
      /\ 7 \notin Crc4Shift2(d)
  BY <1>1, Crc4Shift2Bits
<1> QED
  BY <1>2, Crc4Shift2Bits DEF Crc4Shift4

\* A byte divided: the eight shifts of one round of crc4_itu.
Div(x) == Crc4Shift4(Crc4Shift4(x))

LEMMA DivBits ==
    ASSUME NEW x \in Byte
    PROVE  /\ Div(x) \in SUBSET (0 .. 3)
           /\ Div(x) \in Byte
           /\ 0 \in Div(x) <=> (((0 \in x) # (2 \in x)) # ((4 \in x) # (5 \in x)))
           /\ 1 \in Div(x)
                <=> (((0 \in x) # (1 \in x)) # ((3 \in x) # ((5 \in x) # (6 \in x))))
           /\ 2 \in Div(x)
                <=> (((0 \in x) # (1 \in x)) # ((2 \in x) # ((4 \in x) # ((6 \in x) # (7 \in x)))))
           /\ 3 \in Div(x) <=> (((1 \in x) # (3 \in x)) # ((4 \in x) # (7 \in x)))
<1> DEFINE d == Crc4Shift4(x)
<1>1. d \in Byte
  BY Crc4Shift4Bits
<1>2. /\ 0 \in d <=> ((4 \in x) # ((0 \in x) # (1 \in x)))
      /\ 1 \in d <=> ((5 \in x) # ((1 \in x) # (2 \in x)))
      /\ 2 \in d <=> ((6 \in x) # ((2 \in x) # ((3 \in x) # (0 \in x))))
      /\ 3 \in d <=> ((7 \in x) # ((3 \in x) # (0 \in x)))
      /\ 4 \notin d /\ 5 \notin d /\ 6 \notin d /\ 7 \notin d
  BY Crc4Shift4Bits
<1>3. /\ Div(x) \in Byte
      /\ 0 \in Div(x) <=> ((0 \in d) # (1 \in d))
      /\ 1 \in Div(x) <=> ((1 \in d) # (2 \in d))
      /\ 2 \in Div(x) <=> ((2 \in d) # ((3 \in d) # (0 \in d)))
      /\ 3 \in Div(x) <=> ((3 \in d) # (0 \in d))
      /\ 4 \notin Div(x) /\ 5 \notin Div(x) /\ 6 \notin Div(x) /\ 7 \notin Div(x)
  BY <1>1, <1>2, Crc4Shift4Bits DEF Div
<1>4. Div(x) \in SUBSET (0 .. 3)
  BY <1>3 DEF Byte
<1> QED
  BY <1>2, <1>3, <1>4

\* Of a nibble.
LEMMA DivNibble ==
    ASSUME NEW x \in SUBSET (0 .. 3)
    PROVE  /\ x \in Byte
           /\ 0 \in Div(x) <=> ((0 \in x) # (2 \in x))
           /\ 1 \in Div(x) <=> ((0 \in x) # ((1 \in x) # (3 \in x)))
           /\ 2 \in Div(x) <=> ((0 \in x) # ((1 \in x) # (2 \in x)))
           /\ 3 \in Div(x) <=> ((1 \in x) # (3 \in x))
<1>1. x \in Byte /\ 4 \notin x /\ 5 \notin x /\ 6 \notin x /\ 7 \notin x
  BY DEF Byte
<1> QED
  BY <1>1, DivBits

LEMMA DivLinear ==
    ASSUME NEW x \in Byte, NEW y \in Byte PROVE Div(Xor(x, y)) = Xor(Div(x), Div(y))
<1> DEFINE l == Div(Xor(x, y))
           r == Xor(Div(x), Div(y))
<1>1. Xor(x, y) \in Byte
  BY XorByte
<1>2. l \in Byte /\ r \in Byte /\ l \in SUBSET (0 .. 3) /\ r \in SUBSET (0 .. 3)
  BY <1>1, DivBits, XorByte DEF Xor
<1>3. /\ 0 \in l <=> 0 \in r
      /\ 1 \in l <=> 1 \in r
  BY <1>1, DivBits, XorBit
<1>4. /\ 2 \in l <=> 2 \in r
      /\ 3 \in l <=> 3 \in r
  BY <1>1, DivBits, XorBit
<1> QED
  BY <1>2, <1>3, <1>4, ByteExt

LEMMA DivEmpty == Div({}) = {}
<1>1. {} \in Byte /\ Xor({}, {}) = {}
  BY DEF Xor, Byte
<1>2. Div({}) = Xor(Div({}), Div({}))
  BY <1>1, DivLinear
<1> QED
  BY <1>2, XorEmpty

\* The three parts of a frame, as the check takes them.
Seg(w) == ShiftR(w, 8)

Ord(w) == w \intersect (4 .. 7)

Crc(w) == w \intersect (0 .. 3)

LEMMA PartsOfWord ==
    ASSUME NEW w \in Word
    PROVE  /\ Seg(w) \in Byte /\ Ord(w) \in Byte /\ Crc(w) \in Byte
           /\ \A i \in Int : i \in Seg(w) <=> i >= 0 /\ i + 8 \in w
  BY DEF Seg, Ord, Crc, ShiftR, Word, Byte

LEMMA ResidueOfParts ==
    ASSUME NEW w PROVE Residue(w) = Div(Xor(Div(Xor(Div(Seg(w)), Ord(w))), Crc(w)))
<1>1. Xor({}, Seg(w)) = Seg(w)
  BY DEF Xor
<1> QED
  BY <1>1 DEF Residue, crc4_rx, crc4_itu, Crc4Byte, Div, Seg, Ord, Crc

LEMMA XorWord == ASSUME NEW u \in Word, NEW v \in Word PROVE Xor(u, v) \in Word
  BY DEF Xor, Word

LEMMA PartsAdd ==
    ASSUME NEW u \in Word, NEW v \in Word
    PROVE  /\ Seg(Xor(u, v)) = Xor(Seg(u), Seg(v))
           /\ Ord(Xor(u, v)) = Xor(Ord(u), Ord(v))
           /\ Crc(Xor(u, v)) = Xor(Crc(u), Crc(v))
<1>1. Seg(Xor(u, v)) = Xor(Seg(u), Seg(v))
  <2>1. Seg(Xor(u, v)) \in Byte /\ Xor(Seg(u), Seg(v)) \in Byte
    BY XorWord, PartsOfWord, XorByte
  <2>2. \A i \in 0 .. 7 : i \in Seg(Xor(u, v)) <=> i \in Xor(Seg(u), Seg(v))
    BY XorWord, PartsOfWord, XorBit
  <2> QED
    BY <2>1, <2>2 DEF Byte
<1>2. Ord(Xor(u, v)) = Xor(Ord(u), Ord(v)) /\ Crc(Xor(u, v)) = Xor(Crc(u), Crc(v))
  BY DEF Ord, Crc, Xor
<1> QED
  BY <1>1, <1>2

\* The remainder of a sum is the sum of the remainders.
LEMMA ResidueLinear ==
    ASSUME NEW u \in Word, NEW v \in Word
    PROVE  Residue(Xor(u, v)) = Xor(Residue(u), Residue(v))
<1> DEFINE M(w) == Xor(Div(Seg(w)), Ord(w))
           N(w) == Xor(Div(M(w)), Crc(w))
<1>1. ASSUME NEW w \in Word
      PROVE  M(w) \in Byte /\ N(w) \in Byte /\ Div(M(w)) \in Byte /\ Div(Seg(w)) \in Byte
  <2>1. Seg(w) \in Byte /\ Ord(w) \in Byte /\ Crc(w) \in Byte
    BY PartsOfWord
  <2>2. Div(Seg(w)) \in Byte
    BY <2>1, DivBits
  <2>3. M(w) \in Byte
    BY <2>1, <2>2, XorByte
  <2>4. Div(M(w)) \in Byte
    BY <2>3, DivBits
  <2>5. N(w) \in Byte
    BY <2>1, <2>4, XorByte
  <2> QED
    BY <2>2, <2>3, <2>4, <2>5
<1>2. M(Xor(u, v)) = Xor(M(u), M(v))
  <2>1. Div(Seg(Xor(u, v))) = Xor(Div(Seg(u)), Div(Seg(v)))
    BY PartsAdd, PartsOfWord, DivLinear
  <2> QED
    BY <2>1, PartsAdd, XorSwap
<1>3. N(Xor(u, v)) = Xor(N(u), N(v))
  <2>1. Div(M(Xor(u, v))) = Xor(Div(M(u)), Div(M(v)))
    BY <1>1, <1>2, DivLinear
  <2> QED
    BY <2>1, PartsAdd, XorSwap
<1>4. Div(N(Xor(u, v))) = Xor(Div(N(u)), Div(N(v)))
  BY <1>1, <1>3, DivLinear
<1> QED
  BY <1>4, ResidueOfParts

\* A frame as it is built leaves no remainder.
LEMMA FrameResidue ==
    ASSUME NEW seg \in 0 .. 255, NEW cmd \in 0 .. 15
    PROVE  OrderFrame(seg, cmd) \in Word /\ Residue(OrderFrame(seg, cmd)) = {}
<1> DEFINE s == Bits(seg)
           o == ShiftL(Bits(cmd), 4) \intersect (0 .. 7)
           c == crc4_itu(s, o)
           w == OrderFrame(seg, cmd)
<1>1. s \in Byte /\ Bits(cmd) \in Byte
  BY BitsByte
<1>2. o \in SUBSET (4 .. 7)
  BY <1>1 DEF ShiftL, Byte
<1>3. o \in Byte
  BY <1>2 DEF Byte
<1>4. c = Div(Xor(Div(s), o))
  <2>1. Xor({}, s) = s
    BY DEF Xor
  <2> QED
    BY <2>1 DEF crc4_itu, Crc4Byte, Div
<1>5. c \in SUBSET (0 .. 3)
  BY <1>1, <1>3, <1>4, DivBits, XorByte
<1>6. w = ShiftL(s, 8) \union (c \union o)
  BY DEF OrderFrame
<1>7. \A i \in Int : i \in ShiftL(s, 8) <=> i - 8 \in s
  BY <1>1 DEF ShiftL, Byte
<1>8. ShiftL(s, 8) \in SUBSET (8 .. 15)
  BY <1>1 DEF ShiftL, Byte
<1> HIDE DEF s, o, c, w
<1>9. w \in Word
  <2>1. ShiftL(s, 8) \in Word /\ c \in Word /\ o \in Word
    BY <1>2, <1>5, <1>8 DEF Word
  <2> QED
    BY <1>6, <2>1 DEF Word
<1>10. Ord(w) = o /\ Crc(w) = c
  <2>1. \A i \in 0 .. 7 : i \notin ShiftL(s, 8)
    BY <1>8
  <2>2. \A i \in 0 .. 3 : i \notin o
    BY <1>2
  <2>3. \A i \in 4 .. 7 : i \notin c
    BY <1>5
  <2>4. \A i \in 4 .. 7 : i \in w <=> i \in o
    BY <1>6, <2>1, <2>3
  <2>5. \A i \in 0 .. 3 : i \in w <=> i \in c
    BY <1>6, <2>1, <2>2
  <2>6. Ord(w) = o
    BY <1>2, <2>4 DEF Ord
  <2>7. Crc(w) = c
    BY <1>5, <2>5 DEF Crc
  <2> QED
    BY <2>6, <2>7
<1>11. Seg(w) = s
  <2>1. \A i \in 0 .. 7 : i \in Seg(w) <=> i \in s
    <3>1. ASSUME NEW i \in 0 .. 7 PROVE i \in Seg(w) <=> i \in s
      <4>1. i \in Seg(w) <=> i + 8 \in w
        BY <1>9, PartsOfWord
      <4>2. i + 8 \in w <=> (i + 8) - 8 \in s
        BY <1>2, <1>5, <1>6, <1>7
      <4> QED
        BY <4>1, <4>2
    <3> QED
      BY <3>1
  <2>2. Seg(w) \in Byte
    BY <1>9, PartsOfWord
  <2> QED
    BY <1>1, <2>1, <2>2 DEF Byte
<1>12. Residue(w) = Div(Xor(c, c))
  BY <1>4, <1>10, <1>11, ResidueOfParts
<1>13. Residue(w) = {}
  BY <1>12, DivEmpty, XorEmpty
<1> QED
  BY <1>9, <1>13 DEF w

\* The remainder that each single bit leaves.
LEMMA DivOne ==
    ASSUME NEW i \in 0 .. 7
    PROVE  /\ {i} \in Byte
           /\ Div({i}) \in SUBSET (0 .. 3)
           /\ 0 \in Div({i}) <=> i \in {0, 2, 4, 5}
           /\ 1 \in Div({i}) <=> i \in {0, 1, 3, 5, 6}
           /\ 2 \in Div({i}) <=> i \in {0, 1, 2, 4, 6, 7}
           /\ 3 \in Div({i}) <=> i \in {1, 3, 4, 7}
<1> DEFINE x == {i}
<1>1. x \in Byte
  BY DEF Byte
<1>2. \A j : j \in x <=> j = i
  OBVIOUS
<1> HIDE DEF x
<1>3. /\ Div(x) \in SUBSET (0 .. 3)
      /\ 0 \in Div(x) <=> (((0 = i) # (2 = i)) # ((4 = i) # (5 = i)))
      /\ 1 \in Div(x) <=> (((0 = i) # (1 = i)) # ((3 = i) # ((5 = i) # (6 = i))))
      /\ 2 \in Div(x)
           <=> (((0 = i) # (1 = i)) # ((2 = i) # ((4 = i) # ((6 = i) # (7 = i)))))
      /\ 3 \in Div(x) <=> (((1 = i) # (3 = i)) # ((4 = i) # (7 = i)))
  BY <1>1, <1>2, DivBits
<1>4. /\ 0 \in Div(x) <=> i \in {0, 2, 4, 5}
      /\ 1 \in Div(x) <=> i \in {0, 1, 3, 5, 6}
      /\ 2 \in Div(x) <=> i \in {0, 1, 2, 4, 6, 7}
      /\ 3 \in Div(x) <=> i \in {1, 3, 4, 7}
  BY <1>3
<1> QED
  BY <1>1, <1>3, <1>4 DEF x

LEMMA DivOneTwice ==
    ASSUME NEW i \in 0 .. 7
    PROVE  /\ Div(Div({i})) \in SUBSET (0 .. 3)
           /\ 0 \in Div(Div({i})) <=> i \in {1, 5, 6, 7}
           /\ 1 \in Div(Div({i})) <=> i \in {2, 6, 7}
           /\ 2 \in Div(Div({i})) <=> i \in {0, 3, 7}
           /\ 3 \in Div(Div({i})) <=> i \in {0, 4, 5, 6, 7}
<1> DEFINE d == Div({i})
<1>1. d \in SUBSET (0 .. 3)
  BY DivOne
<1>2. /\ Div(d) \in SUBSET (0 .. 3)
      /\ 0 \in Div(d) <=> ((0 \in d) # (2 \in d))
      /\ 1 \in Div(d) <=> ((0 \in d) # ((1 \in d) # (3 \in d)))
      /\ 2 \in Div(d) <=> ((0 \in d) # ((1 \in d) # (2 \in d)))
      /\ 3 \in Div(d) <=> ((1 \in d) # (3 \in d))
  BY <1>1, DivNibble, DivBits
<1> QED
  BY <1>2, DivOne

LEMMA DivOneThrice ==
    ASSUME NEW i \in 0 .. 7
    PROVE  /\ Div(Div(Div({i}))) \in SUBSET (0 .. 3)
           /\ 0 \in Div(Div(Div({i}))) <=> i \in {0, 1, 3, 5, 6}
           /\ 1 \in Div(Div(Div({i}))) <=> i \in {0, 1, 2, 4, 6, 7}
           /\ 2 \in Div(Div(Div({i}))) <=> i \in {0, 1, 2, 3, 5, 7}
           /\ 3 \in Div(Div(Div({i}))) <=> i \in {0, 2, 4, 5}
<1> DEFINE d == Div(Div({i}))
<1>1. d \in SUBSET (0 .. 3)
  BY DivOneTwice
<1>2. /\ Div(d) \in SUBSET (0 .. 3)
      /\ 0 \in Div(d) <=> ((0 \in d) # (2 \in d))
      /\ 1 \in Div(d) <=> ((0 \in d) # ((1 \in d) # (3 \in d)))
      /\ 2 \in Div(d) <=> ((0 \in d) # ((1 \in d) # (2 \in d)))
      /\ 3 \in Div(d) <=> ((1 \in d) # (3 \in d))
  BY <1>1, DivNibble, DivBits
<1> QED
  BY <1>2, DivOneTwice

LEMMA ResidueOfOne ==
    ASSUME NEW a \in 0 .. 15
    PROVE  /\ {a} \in Word
           /\ Residue({a}) \in SUBSET (0 .. 3)
           /\ 0 \in Residue({a}) <=> a \in {0, 2, 5, 6, 7, 8, 9, 11, 13, 14}
           /\ 1 \in Residue({a}) <=> a \in {0, 1, 3, 6, 7, 8, 9, 10, 12, 14, 15}
           /\ 2 \in Residue({a}) <=> a \in {0, 1, 2, 7, 8, 9, 10, 11, 13, 15}
           /\ 3 \in Residue({a}) <=> a \in {1, 3, 4, 5, 6, 7, 8, 10, 12, 13}
<1>0. {a} \in Word /\ \A x : Xor(x, {}) = x /\ Xor({}, x) = x
  BY DEF Word, Xor
<1>1. CASE a \in 8 .. 15
  <2>1. Ord({a}) = {} /\ Crc({a}) = {}
    BY <1>1 DEF Ord, Crc
  <2>2. Seg({a}) = {a - 8}
    BY <1>1 DEF Seg, ShiftR
  <2>3. Residue({a}) = Div(Div(Div({a - 8})))
    BY <1>0, <2>1, <2>2, ResidueOfParts
  <2>4. a - 8 \in 0 .. 7
    BY <1>1
  <2>5. /\ Residue({a}) \in SUBSET (0 .. 3)
        /\ 0 \in Residue({a}) <=> a - 8 \in {0, 1, 3, 5, 6}
        /\ 1 \in Residue({a}) <=> a - 8 \in {0, 1, 2, 4, 6, 7}
        /\ 2 \in Residue({a}) <=> a - 8 \in {0, 1, 2, 3, 5, 7}
        /\ 3 \in Residue({a}) <=> a - 8 \in {0, 2, 4, 5}
    BY <2>3, <2>4, DivOneThrice
  <2> QED
    BY <1>0, <1>1, <2>5
<1>2. CASE a \in 4 .. 7
  <2>1. Ord({a}) = {a} /\ Crc({a}) = {}
    <3>1. a \notin 0 .. 3
      BY <1>2
    <3> QED
      BY <1>2, <3>1, Zenon DEF Ord, Crc
  <2>2. Seg({a}) = {}
    BY <1>2 DEF Seg, ShiftR
  <2>3. Residue({a}) = Div(Div({a}))
    BY <1>0, <2>1, <2>2, ResidueOfParts, DivEmpty
  <2>4. /\ Residue({a}) \in SUBSET (0 .. 3)
        /\ 0 \in Residue({a}) <=> a \in {1, 5, 6, 7}
        /\ 1 \in Residue({a}) <=> a \in {2, 6, 7}
        /\ 2 \in Residue({a}) <=> a \in {0, 3, 7}
        /\ 3 \in Residue({a}) <=> a \in {0, 4, 5, 6, 7}
    BY <1>2, <2>3, DivOneTwice
  <2> QED
    BY <1>0, <1>2, <2>4
<1>3. CASE a \in 0 .. 3
  <2>1. Ord({a}) = {} /\ Crc({a}) = {a}
    <3>1. a \notin 4 .. 7
      BY <1>3
    <3> QED
      BY <1>3, <3>1, Zenon DEF Ord, Crc
  <2>2. Seg({a}) = {}
    BY <1>3 DEF Seg, ShiftR
  <2>3. Residue({a}) = Div({a})
    BY <1>0, <2>1, <2>2, ResidueOfParts, DivEmpty
  <2>4. /\ Residue({a}) \in SUBSET (0 .. 3)
        /\ 0 \in Residue({a}) <=> a \in {0, 2, 4, 5}
        /\ 1 \in Residue({a}) <=> a \in {0, 1, 3, 5, 6}
        /\ 2 \in Residue({a}) <=> a \in {0, 1, 2, 4, 6, 7}
        /\ 3 \in Residue({a}) <=> a \in {1, 3, 4, 7}
    BY <1>3, <2>3, DivOne
  <2> QED
    BY <1>0, <1>3, <2>4
<1> QED
  BY <1>1, <1>2, <1>3

LEMMA NothingMissed == ASSUME NEW a \in 0 .. 15 PROVE Residue({a}) # {}
<1>1. \/ a \in {0, 2, 5, 6, 7, 8, 9, 11, 13, 14}
      \/ a \in {0, 1, 3, 6, 7, 8, 9, 10, 12, 14, 15}
      \/ a \in {1, 3, 4, 5, 6, 7, 8, 10, 12, 13}
  OBVIOUS
<1> QED
  BY <1>1, ResidueOfOne

\* Two bits leave the same remainder if they lie the period of the code apart.
LEMMA ResidueOfTwo ==
    ASSUME NEW a \in 0 .. 15, NEW b \in 0 .. 15, a # b
    PROVE  Residue({a}) = Residue({b})
             <=> StreamPos(a) - StreamPos(b) = 15 \/ StreamPos(b) - StreamPos(a) = 15
<1>1. Residue({a}) = Residue({b})
        <=> \A i \in 0 .. 3 : i \in Residue({a}) <=> i \in Residue({b})
  BY ResidueOfOne
<1>2. (\A i \in 0 .. 3 : i \in Residue({a}) <=> i \in Residue({b}))
        <=> /\ 0 \in Residue({a}) <=> 0 \in Residue({b})
            /\ 1 \in Residue({a}) <=> 1 \in Residue({b})
            /\ 2 \in Residue({a}) <=> 2 \in Residue({b})
            /\ 3 \in Residue({a}) <=> 3 \in Residue({b})
  OBVIOUS
<1> DEFINE In0(x) == x \in {0, 2, 5, 6, 7, 8, 9, 11, 13, 14}
           In1(x) == x \in {0, 1, 3, 6, 7, 8, 9, 10, 12, 14, 15}
           In2(x) == x \in {0, 1, 2, 7, 8, 9, 10, 11, 13, 15}
           In3(x) == x \in {1, 3, 4, 5, 6, 7, 8, 10, 12, 13}
<1>3. (/\ (In0(a) <=> In0(b)) /\ (In1(a) <=> In1(b))
       /\ (In2(a) <=> In2(b)) /\ (In3(a) <=> In3(b)))
        <=> StreamPos(a) - StreamPos(b) = 15 \/ StreamPos(b) - StreamPos(a) = 15
  BY SMTT(30) DEF StreamPos
<1> QED
  BY <1>1, <1>2, <1>3, ResidueOfOne

-----------------------------------------------------------------------------
(***************************************************************************)
(* The noisy line: what arrives is what was sent plus the flipped bits.    *)
(***************************************************************************)
LineInv ==
    /\ phase \in {"idle", "sync", "order"}
    /\ phase = "idle" => word = {} /\ flips = {}
    /\ phase = "sync" =>
          /\ sent[1] \in 0 .. 7 /\ sent[2] \in {SHORT_CMD, LONG_CMD}
          /\ flips \subseteq 0 .. 7
          /\ word = Xor(GenSyncFrame(sent[1], sent[2]), flips)
    /\ phase = "order" =>
          /\ sent[1] \in 0 .. 255 /\ sent[2] \in 0 .. 15
          /\ flips \subseteq 0 .. 15
          /\ word = Xor(OrderFrame(sent[1], sent[2]), flips)
    /\ IsFiniteSet(flips) /\ Cardinality(flips) <= MaxFlips

LEMMA XorNone == ASSUME NEW x PROVE Xor(x, {}) = x
  BY DEF Xor

LEMMA XorMore == ASSUME NEW x, NEW f, NEW b, b \notin f PROVE Xor(Xor(x, f), {b}) = Xor(x, f \union {b})
  BY DEF Xor

LEMMA LineInvariant == Spec => []LineInv
<1>0. IsFiniteSet({}) /\ Cardinality({}) = 0 /\ MaxFlips \in Nat
  BY FS_EmptySet, FrameAssumption
<1>1. Init => LineInv
  BY <1>0 DEF Init, LineInv
<1>2. ASSUME LineInv, [Next]_vars PROVE LineInv'
  <2>1. ASSUME NEW g \in Groups, NEW id \in {SHORT_CMD, LONG_CMD}, SendSyncFrame(g, id)
        PROVE  LineInv'
    <3>1. g \in 0 .. 7 /\ flips = {} /\ Xor(GenSyncFrame(g, id), {}) = GenSyncFrame(g, id)
      BY <1>2, <2>1, FrameAssumption, XorNone DEF LineInv, SendSyncFrame
    <3> QED
      BY <1>0, <2>1, <3>1 DEF LineInv, SendSyncFrame
  <2>2. ASSUME NEW seg \in Segments, NEW cmd \in Orders, SendOrderFrame(seg, cmd)
        PROVE  LineInv'
    <3>1. /\ seg \in 0 .. 255 /\ cmd \in 0 .. 15 /\ flips = {}
          /\ Xor(OrderFrame(seg, cmd), {}) = OrderFrame(seg, cmd)
      BY <1>2, <2>2, FrameAssumption, XorNone DEF LineInv, SendOrderFrame
    <3> QED
      BY <1>0, <2>2, <3>1 DEF LineInv, SendOrderFrame
  <2>3. ASSUME NEW b \in 0 .. 15, Flip(b) PROVE LineInv'
    <3>1. /\ phase # "idle" /\ UNCHANGED <<phase, sent>>
          /\ b \in 0 .. Width - 1 /\ b \notin flips
          /\ Cardinality(flips) < MaxFlips
          /\ word' = Xor(word, {b}) /\ flips' = flips \union {b}
      BY <2>3 DEF Flip
    <3>2. IsFiniteSet(flips') /\ Cardinality(flips') <= MaxFlips
      <4>1. IsFiniteSet(flips) /\ Cardinality(flips) \in Nat
        BY <1>2, FS_CardinalityType DEF LineInv
      <4>2. IsFiniteSet(flips') /\ Cardinality(flips') = Cardinality(flips) + 1
        BY <3>1, <4>1, FS_AddElement
      <4> QED
        BY <1>0, <3>1, <4>1, <4>2
    <3>3. CASE phase = "sync"
      <4>1. b \in 0 .. 7
        BY <3>1, <3>3 DEF Width
      <4>2. word' = Xor(GenSyncFrame(sent[1], sent[2]), flips')
        BY <1>2, <3>1, <3>3, XorMore DEF LineInv
      <4> QED
        BY <1>2, <3>1, <3>2, <3>3, <4>1, <4>2 DEF LineInv
    <3>4. CASE phase = "order"
      <4>1. word' = Xor(OrderFrame(sent[1], sent[2]), flips')
        BY <1>2, <3>1, <3>4, XorMore DEF LineInv
      <4> QED
        BY <1>2, <3>1, <3>2, <3>4, <4>1 DEF LineInv
    <3> QED
      BY <1>2, <3>1, <3>3, <3>4 DEF LineInv
  <2>4. CASE Received
    BY <1>0, <2>4 DEF Received, LineInv
  <2>5. CASE UNCHANGED vars
    BY <1>2, <2>5 DEF vars, LineInv
  <2> QED
    BY <1>2, <2>1, <2>2, <2>3, <2>4, <2>5 DEF Next
<1> QED
  BY <1>1, <1>2, PTL DEF Spec

(***************************************************************************)
(* Every sync frame is transmitted from the table as Cal_GenSyncFrame      *)
(* calculates it (lms.c:14-47).                                            *)
(***************************************************************************)
THEOREM TableRight == Spec => []TableIsHamming
<1>1. ASSUME LineInv PROVE TableIsHamming
  BY <1>1, TableIsCalculated, XorNone DEF LineInv, TableIsHamming
<1> QED
  BY <1>1, LineInvariant, PTL

LEMMA SmallSets ==
    ASSUME NEW S, IsFiniteSet(S), Cardinality(S) <= 2
    PROVE  \/ S = {} /\ Cardinality(S) = 0
           \/ \E a \in S : S = {a} /\ Cardinality(S) = 1
           \/ \E a, b \in S : a # b /\ S = {a, b} /\ Cardinality(S) = 2
<1>0. Cardinality(S) \in Nat /\ (Cardinality(S) = 0 <=> S = {})
  BY FS_CardinalityType, FS_EmptySet
<1>1. CASE S = {}
  BY <1>0, <1>1
<1>2. CASE S # {}
  <2>1. PICK a : a \in S
    BY <1>2
  <2>2. /\ IsFiniteSet(S \ {a})
        /\ Cardinality(S \ {a}) = Cardinality(S) - 1
    BY <2>1, FS_RemoveElement
  <2>3. Cardinality(S \ {a}) \in Nat /\ (Cardinality(S \ {a}) = 0 <=> S \ {a} = {})
    BY <2>2, FS_CardinalityType, FS_EmptySet
  <2>4. CASE S \ {a} = {}
    BY <1>0, <2>1, <2>2, <2>3, <2>4
  <2>5. CASE S \ {a} # {}
    <3>1. PICK b : b \in S /\ b # a
      BY <2>5
    <3>2. /\ IsFiniteSet((S \ {a}) \ {b})
          /\ Cardinality((S \ {a}) \ {b}) = Cardinality(S \ {a}) - 1
      BY <2>2, <3>1, FS_RemoveElement
    <3>3. Cardinality((S \ {a}) \ {b}) \in Nat
            /\ (Cardinality((S \ {a}) \ {b}) = 0 <=> (S \ {a}) \ {b} = {})
      BY <3>2, FS_CardinalityType, FS_EmptySet
    <3>4. Cardinality(S) = 2 /\ (S \ {a}) \ {b} = {}
      BY <1>0, <2>2, <2>3, <2>5, <3>2, <3>3
    <3>5. S = {a, b}
      BY <2>1, <3>1, <3>4
    <3> QED
      BY <2>1, <3>1, <3>4, <3>5
  <2> QED
    BY <2>4, <2>5
<1> QED
  BY <1>1, <1>2

(***************************************************************************)
(* DeSyncFrame undoes GenSyncFrame through one flipped bit, for every      *)
(* group and both types, and flags two (lms.c:64-98).                      *)
(***************************************************************************)
THEOREM SyncFramesCorrected ==
    ASSUME MaxFlips <= 2
    PROVE  Spec => []SyncCorrects
<1>1. ASSUME LineInv PROVE SyncCorrects
  <2> SUFFICES ASSUME phase = "sync" PROVE SyncCorrects
    BY DEF SyncCorrects
  <2> DEFINE k == 2 * sent[1] + sent[2]
  <2>1. /\ sent[1] \in 0 .. 7 /\ sent[2] \in {SHORT_CMD, LONG_CMD}
        /\ flips \subseteq 0 .. 7
        /\ word = Xor(Code(k), flips)
        /\ Errors = flips \ {7}
    BY <1>1 DEF LineInv, GenSyncFrame, Code, Errors
  <2>2. k \in 0 .. 15
    BY <2>1 DEF SHORT_CMD, LONG_CMD
  <2>3. Errors \subseteq 0 .. 6
    BY <2>1
  <2>4. word \intersect (0 .. 6) = Xor(Code(k), Errors)
    <3>1. Code(k) \in SUBSET (0 .. 6)
      BY <2>2, CodeIsWord DEF CodeWord
    <3>2. 7 \notin 0 .. 6
      OBVIOUS
    <3> HIDE DEF k
    <3> QED
      BY <2>1, <2>3, <3>1, <3>2 DEF Xor
  <2>5. IsFiniteSet(Errors) /\ Cardinality(Errors) <= 2
    <3>1. /\ IsFiniteSet(flips) /\ Cardinality(flips) \in Nat
          /\ Cardinality(flips) <= MaxFlips /\ MaxFlips \in Nat
      BY <1>1, FS_CardinalityType, FrameAssumption DEF LineInv
    <3>2. IsFiniteSet(Errors) /\ Cardinality(Errors) <= Cardinality(flips)
      BY <2>1, <3>1, FS_Subset
    <3>3. Cardinality(Errors) \in Nat
      BY <3>2, FS_CardinalityType
    <3> QED
      BY <3>1, <3>2, <3>3
  <2>6. Content(Code(k)) = Bits(sent[1] + 128 * sent[2])
    BY <2>1, CodeContent
  <2>7. CASE Errors = {} /\ Cardinality(Errors) = 0
    <3>1. DeSyncFrame(word) = Bits(sent[1] + 128 * sent[2])
      BY <2>2, <2>4, <2>6, <2>7, XorNone, DecodeClean
    <3> QED
      BY <2>7, <3>1 DEF SyncCorrects
  <2>8. CASE \E a \in Errors : Errors = {a} /\ Cardinality(Errors) = 1
    <3>1. PICK a \in 0 .. 6 : Errors = {a} /\ Cardinality(Errors) = 1
      BY <2>3, <2>8
    <3>2. DeSyncFrame(word) = Bits(sent[1] + 128 * sent[2]) \union {6}
      BY <2>2, <2>4, <2>6, <3>1, DecodeOne
    <3> QED
      BY <3>1, <3>2 DEF SyncCorrects
  <2>9. CASE \E a, b \in Errors : a # b /\ Errors = {a, b} /\ Cardinality(Errors) = 2
    <3>1. PICK a \in 0 .. 6, b \in 0 .. 6 :
             a # b /\ Errors = {a, b} /\ Cardinality(Errors) = 2
      BY <2>3, <2>9
    <3>2. 6 \in DeSyncFrame(word)
      BY <2>2, <2>4, <3>1, DecodeTwo
    <3> QED
      BY <3>1, <3>2 DEF SyncCorrects
  <2> QED
    BY <2>5, <2>7, <2>8, <2>9, SmallSets
<1> QED
  BY <1>1, LineInvariant, PTL

(***************************************************************************)
(* The CRC4 of every order frame build_ctrl_cmd packs, all 4096 of them:   *)
(* one flipped bit is always detected, two escape exactly when they lie    *)
(* 15 positions apart (lms.c:108-129, lmsuart.c:56-66).                    *)
(***************************************************************************)
THEOREM OrderErrorsDetected ==
    ASSUME MaxFlips <= 2
    PROVE  Spec => []OrderDetects
<1>1. ASSUME LineInv PROVE OrderDetects
  <2> SUFFICES ASSUME phase = "order"
               PROVE  Residue(word) = {} <=>
                        \/ flips = {}
                        \/ \E a, b \in flips : flips = {a, b} /\ StreamPos(a) - StreamPos(b) = 15
    BY DEF OrderDetects
  <2>1. /\ sent[1] \in 0 .. 255 /\ sent[2] \in 0 .. 15
        /\ flips \subseteq 0 .. 15
        /\ word = Xor(OrderFrame(sent[1], sent[2]), flips)
    BY <1>1 DEF LineInv
  <2>2. flips \in Word
    BY <2>1 DEF Word
  <2>3. Residue(word) = Residue(flips)
    <3>1. /\ OrderFrame(sent[1], sent[2]) \in Word
          /\ Residue(OrderFrame(sent[1], sent[2])) = {}
      BY <2>1, FrameResidue
    <3>2. Residue(word) = Xor({}, Residue(flips))
      BY <2>1, <2>2, <3>1, ResidueLinear
    <3> QED
      BY <3>2 DEF Xor
  <2>4. IsFiniteSet(flips) /\ Cardinality(flips) <= 2
    <3>1. /\ IsFiniteSet(flips) /\ Cardinality(flips) \in Nat
          /\ Cardinality(flips) <= MaxFlips /\ MaxFlips \in Nat
      BY <1>1, FS_CardinalityType, FrameAssumption DEF LineInv
    <3> QED
      BY <3>1
  <2>5. CASE flips = {}
    <3>1. {} \in Word /\ Xor({}, {}) = {}
      BY XorEmpty DEF Word
    <3>2. Residue({}) = Xor(Residue({}), Residue({}))
      BY <3>1, ResidueLinear
    <3> QED
      BY <2>3, <2>5, <3>2, XorEmpty
  <2>6. CASE \E a \in flips : flips = {a}
    <3>1. PICK a \in 0 .. 15 : flips = {a}
      BY <2>1, <2>6
    <3>2. Residue(word) # {}
      BY <2>3, <3>1, NothingMissed
    <3>3. StreamPos(a) - StreamPos(a) # 15
      BY DEF StreamPos
    <3> QED
      BY <3>1, <3>2, <3>3
  <2>7. CASE \E a, b \in flips : a # b /\ flips = {a, b}
    <3>1. PICK a \in 0 .. 15, b \in 0 .. 15 : a # b /\ flips = {a, b}
      BY <2>1, <2>7
    <3>2. Residue(word) = Xor(Residue({a}), Residue({b}))
      <4>1. flips = Xor({a}, {b})
        BY <3>1 DEF Xor
      <4>2. {a} \in Word /\ {b} \in Word
        BY ResidueOfOne
      <4> QED
        BY <2>3, <4>1, <4>2, ResidueLinear
    <3>3. Residue(word) = {}
            <=> StreamPos(a) - StreamPos(b) = 15 \/ StreamPos(b) - StreamPos(a) = 15
      <4>1. Residue(word) = {} <=> Residue({a}) = Residue({b})
        BY <3>2, XorEmpty
      <4>2. Residue({a}) = Residue({b})
              <=> StreamPos(a) - StreamPos(b) = 15 \/ StreamPos(b) - StreamPos(a) = 15
        BY <3>1, ResidueOfTwo
      <4> QED
        BY <4>1, <4>2
    <3>4. (\E c, d \in flips : flips = {c, d} /\ StreamPos(c) - StreamPos(d) = 15)
            <=> StreamPos(a) - StreamPos(b) = 15 \/ StreamPos(b) - StreamPos(a) = 15
      <4>1. ASSUME NEW c \in flips, NEW d \in flips, flips = {c, d},
                   StreamPos(c) - StreamPos(d) = 15
            PROVE  StreamPos(a) - StreamPos(b) = 15 \/ StreamPos(b) - StreamPos(a) = 15
        <5>1. (c = a /\ d = b) \/ (c = b /\ d = a)
          BY <3>1, <4>1
        <5> QED
          BY <4>1, <5>1
      <4>2. flips = {a, b} /\ flips = {b, a}
        BY <3>1
      <4> QED
        BY <4>1, <4>2
    <3>5. flips # {}
      BY <3>1
    <3> QED
      BY <3>3, <3>4, <3>5
  <2> QED
    BY <2>4, <2>5, <2>6, <2>7, SmallSets
<1> QED
  BY <1>1, LineInvariant, PTL
=============================================================================
