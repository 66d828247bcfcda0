----------------------------- MODULE MCPulseGen -----------------------------
(* TLC instances of PulseGen.                                               *)
EXTENDS PulseGen
=============================================================================
