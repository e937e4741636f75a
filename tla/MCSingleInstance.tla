--------------------------- MODULE MCSingleInstance ---------------------------
(* Instances of SingleInstance for TLC. *)
EXTENDS SingleInstance
=============================================================================
