----------------------------- MODULE MCLmsCodec -----------------------------
(* TLC instances of LmsCodec: every group, every segment byte and the two   *)
(* orders that are sent.                                                    *)
EXTENDS LmsCodec

MCGroups == 0 .. 7

MCSegments == 0 .. 255

\* OpenLamp_Order and CloseLamp_Order.
MCOrders == {2, 3}
=============================================================================
