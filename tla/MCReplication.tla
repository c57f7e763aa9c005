--------------------------- MODULE MCReplication ---------------------------
(***************************************************************************)
(* Replication for TLC: a master, and a server that is made a slave and a  *)
(* master.                                                                 *)
(***************************************************************************)
EXTENDS Replication

CONSTANTS h, b

MCAsks == [n \in Nodes |-> IF n = h THEN {"master"} ELSE Roles]

=============================================================================
