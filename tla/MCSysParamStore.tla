--------------------------- MODULE MCSysParamStore ---------------------------
(* TLC instances of SysParamStore; the constants are in MCSysParamStore.cfg. *)
EXTENDS SysParamStore
=============================================================================
