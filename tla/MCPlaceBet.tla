------------------------------ MODULE MCPlaceBet ------------------------------
(***************************************************************************)
(* An instance of PlaceBet for TLC: a registered user with two keys and a  *)
(* customer who is not registered yet, with one.                           *)
(***************************************************************************)
EXTENDS PlaceBet, TLC

CONSTANTS c1, c2, u1, u2, k1, k2, k3, n1, n2

\* Calls are interchangeable, and so are bill numbers.
Symmetry == Permutations(Call) \cup Permutations(Bill)

Requests ==
  k1 :> [user |-> u1, stake |-> 4] @@ k2 :> [user |-> u1, stake |-> 3]
  @@ k3 :> [user |-> u2, stake |-> 1]

UserFunds == u1 :> 8
===============================================================================
