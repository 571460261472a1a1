-------------------------------- MODULE Orders --------------------------------
(***************************************************************************)
(* Orders and what they pay: the vocabulary that the abstract book and the *)
(* detailed table share.                                                   *)
(***************************************************************************)
EXTENDS GameRules, FiniteSetsExt

CONSTANTS User,    \* customers
          Bet,     \* distinct bets; a bet is what an idempotency key names
          Terms,   \* the user, round, play and amount (in cents) of each bet
          Funds    \* the balance of each user at the start, in cents

ASSUME OrdersAssumption ==
  /\ \A bet \in Bet : /\ Terms[bet].user \in User
                      /\ Terms[bet].play \in Play
                      /\ Terms[bet].amount \in Nat \ {0}
  /\ Funds \in [User -> Nat]

\* An order's bill_status, "none" while the row does not exist, and win_amount.
Order == [bill : {"none", "pending", "settled"}, win : Nat]

NoOrder == [bill |-> "none", win |-> 0]

\* Orders of the same user and round whose play excludes bet's.
Rivals(bet, orders) ==
  {other \in Bet : /\ orders[other].bill # "none"
                   /\ Terms[other].user = Terms[bet].user
                   /\ Terms[other].round = Terms[bet].round
                   /\ Conflicting(Terms[other].play, Terms[bet].play)}

\* Mutant: the query forgets its condition on the round.
PendingOfAllRounds(r, orders) == {bet \in Bet : orders[bet].bill = "pending"}

\* The orders that wait for the result of round r.
Pending(r, orders) == {bet \in Bet : Terms[bet].round = r /\ orders[bet].bill = "pending"}

\* What bet pays under a result.
Win(bet, result) == Payout(Terms[bet].play, Terms[bet].amount, result)

\* Among bets, those of user u that a result pays.
Winning(u, bets, result) == {bet \in bets : Terms[bet].user = u /\ Win(bet, result) > 0}

\* What they pay together.
Credit(u, bets, result) ==
  MapThenSumSet(LAMBDA bet : Win(bet, result), Winning(u, bets, result))

\* A balance after its owner's winning bets are paid.
Paid(u, before, bets, result) ==
  IF Winning(u, bets, result) = {} THEN before ELSE before + Credit(u, bets, result)
===============================================================================
