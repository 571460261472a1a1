------------------------------- MODULE MCOutbox -------------------------------
(***************************************************************************)
(* Instances of Outbox for TLC: rows 1 and 3 are about one round, and row  *)
(* 2 is about another.                                                     *)
(***************************************************************************)
EXTENDS Outbox

CONSTANTS A, B, d1, d2, s1, s2

RoundsOfRows == [r \in Row |-> IF r = 2 THEN B ELSE A]
===============================================================================
