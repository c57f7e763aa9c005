----------------------------- MODULE MCPayments -----------------------------
(***************************************************************************)
(* Payments for TLC: players, threads and connections are interchangeable. *)
(***************************************************************************)
EXTENDS Payments, TLC

SomeAmounts == {-1, 2}
SomeSettings == {2, NotANumber}

Symmetry == Permutations(Players) \cup Permutations(Threads) \cup Permutations(Conns)

=============================================================================
