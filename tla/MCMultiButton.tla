--------------------------- MODULE MCMultiButton ---------------------------
(* TLC instances of MultiButton.                                            *)
EXTENDS MultiButton
=============================================================================
