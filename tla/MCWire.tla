------------------------------- MODULE MCWire -------------------------------
(* Wire has only numbers for constants; this is the instance for TLC.      *)
EXTENDS Wire
=============================================================================
