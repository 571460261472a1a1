------------------------------ MODULE GameRules ------------------------------
(***************************************************************************)
(* The pure rules of the dragon/tiger table: the round's state machine,    *)
(* which plays exclude each other, the odds and what an order pays.        *)
(* Money is counted in cents and odds in hundredths, so that the           *)
(* decimal arithmetic of the code is integer arithmetic here.              *)
(***************************************************************************)
EXTENDS Integers

State == {"init", "betting", "sealed", "dealt", "drawn", "settled", "finished"}

Event == {"game_start", "game_stop", "new_card", "game_draw", "game_end"}

Result == {"dragon", "tiger", "tie"}

Play == Result          \* a bet names the result it wins on

\* Mutant: game_start also reopens a finished round.
TransitionReopens ==
  { <<"init", "game_start", "betting">>, <<"betting", "game_stop", "sealed">>,
    <<"sealed", "new_card", "dealt">>, <<"dealt", "game_draw", "drawn">>,
    <<"drawn", "game_end", "finished">>, <<"settled", "game_end", "finished">>,
    <<"finished", "game_start", "betting">> }

\* NextState as a relation; every pair it does not list is an error.
Transition ==
  { <<"init", "game_start", "betting">>, <<"betting", "game_stop", "sealed">>,
    <<"sealed", "new_card", "dealt">>, <<"dealt", "game_draw", "drawn">>,
    <<"drawn", "game_end", "finished">>, <<"settled", "game_end", "finished">> }

\* Dragon and tiger exclude each other in one round; a tie goes with either.
Conflicting(p, q) == {p, q} = {"dragon", "tiger"}

\* The odds an order is written with, in hundredths.
Odds(p) == IF p = "tie" THEN 800 ELSE 97

\* Mutant: the stake is paid back on top of the odds, but cut off, not rounded.
PayoutTruncates(p, amount, result) ==
  CASE p = result -> (amount * (100 + Odds(p))) \div 100
    [] p # result /\ result = "tie" -> amount
    [] OTHER -> 0

\* Mutant: a tie loses the bets on dragon and tiger.
PayoutNoRefund(p, amount, result) ==
  IF p = result THEN (amount * (100 + Odds(p)) + 50) \div 100 ELSE 0

\* What an order of amount cents on p receives, rounded half up to the cent:
\* stake and winnings, the stake back when dragon or tiger meets a tie, or 0.
Payout(p, amount, result) ==
  CASE p = result -> (amount * (100 + Odds(p)) + 50) \div 100
    [] p # result /\ result = "tie" -> amount
    [] OTHER -> 0
==============================================================================
