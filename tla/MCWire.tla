------------------------------- MODULE MCWire -------------------------------
(***************************************************************************)
(* Wire for TLC: the sets of calls its runs make.                          *)
(***************************************************************************)
EXTENDS Wire

AllKinds == {"write", "number", "read", "list"}

=============================================================================
