------------------------------ MODULE MCLmsHmi ------------------------------
(* TLC instances of LmsHmi: the panel over a link with no commands in it.   *)
EXTENDS LmsHmi
=============================================================================
