----------------------------- MODULE MCSampling -----------------------------
(* TLC instance of Sampling. *)
EXTENDS Sampling
=============================================================================
