----------------------------- MODULE MCCanClock -----------------------------
(* TLC instances of CanClock: two buses whose masters may disagree on the   *)
(* second and send milliseconds of a second and more.                       *)
EXTENDS CanClock

MCTimes == (1 .. 2) \X (0 .. WORD)
=============================================================================
