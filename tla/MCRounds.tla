------------------------------- MODULE MCRounds -------------------------------
(***************************************************************************)
(* Instances of Rounds for TLC: the names of calls, bets and rounds.       *)
(***************************************************************************)
EXTENDS Rounds

CONSTANTS r1, s1, s2, b1
===============================================================================
