----------------------------- MODULE MCLmsCrc16 -----------------------------
(* TLC instances of LmsCrc16: a block as long as the parameter record.  One *)
(* content is enough: what the check makes of damage does not depend on it  *)
(* (LmsCodeProofs, OnlyDamageCounts), and the tables are proved entry by    *)
(* entry.                                                                   *)
EXTENDS LmsCrc16

\* sizeof(struct sys_param): five floats.
SYS_DATA_SIZE == 20

MCBytes == [n \in 1 .. SYS_DATA_SIZE |-> {(37 * n) % 256}]
=============================================================================
