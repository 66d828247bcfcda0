----------------------------- MODULE MCLmsLink ------------------------------
(* TLC instances of LmsLink; the constants are given in the MCLmsLink cfgs. *)
EXTENDS LmsLink
=============================================================================
