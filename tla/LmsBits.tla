------------------------------ MODULE LmsBits ------------------------------
(***************************************************************************)
(* Machine words as the sets of their one bits: a byte is a subset of      *)
(* 0 .. 7, exclusive or is symmetric difference, or is union.  The codes   *)
(* of lms.c and crc16.c are written over it so that they can be reasoned   *)
(* about as well as evaluated.                                             *)
(***************************************************************************)
EXTENDS Integers, Sequences

Byte == SUBSET (0 .. 7)

Xor(a, b) == (a \ b) \union (b \ a)

Weight == <<1, 2, 4, 8, 16, 32, 64, 128>>

\* The byte that a number of the source stands for.
Bits(n) == {i \in 0 .. 7 : (n \div Weight[i + 1]) % 2 = 1}

\* w if bit i of s is one.
Term(s, i, w) == IF i \in s THEN w ELSE 0

\* The number a byte stands for, where the code uses it as an index.
Value(s) ==
    Term(s, 0, 1) + Term(s, 1, 2) + Term(s, 2, 4) + Term(s, 3, 8)
        + Term(s, 4, 16) + Term(s, 5, 32) + Term(s, 6, 64) + Term(s, 7, 128)

\* How many bits of a byte are one.
Ones(s) ==
    Term(s, 0, 1) + Term(s, 1, 1) + Term(s, 2, 1) + Term(s, 3, 1)
        + Term(s, 4, 1) + Term(s, 5, 1) + Term(s, 6, 1) + Term(s, 7, 1)

\* Entry of a table of bytes, indexed by a byte.
Entry(table, s) == Bits(table[Value(s) + 1])

\* A word shifted to the right, and to the left, by n.
ShiftR(s, n) == {i - n : i \in {j \in s : j >= n}}

ShiftL(s, n) == {i + n : i \in s}
=============================================================================
