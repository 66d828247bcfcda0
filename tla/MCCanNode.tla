----------------------------- MODULE MCCanNode ------------------------------
(* TLC instances of CanNode.                                                *)
EXTENDS CanNode
=============================================================================
