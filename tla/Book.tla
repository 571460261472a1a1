--------------------------------- MODULE Book ---------------------------------
(***************************************************************************)
(* What the table promises, without transactions, locks or retries: bets   *)
(* are taken and rounds are settled one at a time, each in a single step.  *)
(* Module Table is shown to implement this one.                            *)
(***************************************************************************)
EXTENDS Orders

CONSTANT Round    \* round identifiers

VARIABLES stage,    \* how far each round has come
          outcome,  \* its result, once settled
          order,    \* per bet: not accepted, waiting for the result, or settled
          balance   \* money of each user, in cents

bookVars == <<stage, outcome, order, balance>>

Init ==
  /\ stage = [r \in Round |-> "absent"]
  /\ outcome = [r \in Round |-> "none"]
  /\ order = [bet \in Bet |-> NoOrder]
  /\ balance = Funds

\* A round is created and goes through its stages; settling is not one of these steps.
Advance(r) ==
  /\ \E to \in State :
       /\ <<stage[r], to>> \in
            {<<"absent", "betting">>, <<"betting", "sealed">>, <<"sealed", "dealt">>,
             <<"dealt", "drawn">>, <<"settled", "finished">>}
       /\ stage' = [stage EXCEPT ![r] = to]
  /\ UNCHANGED <<outcome, order, balance>>

\* A bet is accepted once, while its round is betting, against no rival, and paid for.
Place(bet) ==
  LET u == Terms[bet].user
  IN /\ stage[Terms[bet].round] = "betting"
     /\ order[bet] = NoOrder
     /\ Rivals(bet, order) = {}
     /\ balance[u] >= Terms[bet].amount
     /\ order' = [order EXCEPT ![bet].bill = "pending"]
     /\ balance' = [balance EXCEPT ![u] = @ - Terms[bet].amount]
     /\ UNCHANGED <<stage, outcome>>

\* A drawn round is settled: every order that waits is settled and paid.
Settle(r, result) ==
  LET bets == Pending(r, order)
  IN /\ stage[r] = "drawn"
     /\ stage' = [stage EXCEPT ![r] = "settled"]
     /\ outcome' = [outcome EXCEPT ![r] = result]
     /\ order' = [bet \in Bet |->
          IF bet \in bets THEN [bill |-> "settled", win |-> Win(bet, result)] ELSE order[bet]]
     /\ balance' = [u \in User |-> Paid(u, balance[u], bets, result)]

Next ==
  \/ \E r \in Round : Advance(r) \/ \E result \in Result : Settle(r, result)
  \/ \E bet \in Bet : Place(bet)

Spec == Init /\ [][Next]_bookVars
===============================================================================
