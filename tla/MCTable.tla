-------------------------------- MODULE MCTable -------------------------------
(***************************************************************************)
(* Instances of Table for TLC.  Two users and four bets, so that bets of   *)
(* one user meet on its row, a bet meets its rival with money for both,    *)
(* another finds too little money, one draw pays two orders of one user    *)
(* and orders of two users, and half cents are rounded.                    *)
(***************************************************************************)
EXTENDS Table, TLC

CONSTANTS r1, r2, s1, s2, b1, b2, u1, u2, d1, t1, e1, d2, x1, y1

Symmetry == Permutations(Staff) \cup Permutations(Bettor)

TwoUsers ==
  d1 :> [user |-> u1, round |-> r1, play |-> "dragon", amount |-> 50]
  @@ t1 :> [user |-> u1, round |-> r1, play |-> "tiger", amount |-> 30]
  @@ e1 :> [user |-> u1, round |-> r1, play |-> "tie", amount |-> 31]
  @@ d2 :> [user |-> u2, round |-> r1, play |-> "dragon", amount |-> 5]

\* One user, an order in each of two rounds.
TwoRounds ==
  x1 :> [user |-> u1, round |-> r1, play |-> "dragon", amount |-> 5]
  @@ y1 :> [user |-> u1, round |-> r2, play |-> "tie", amount |-> 3]

TwoUsersFunds == u1 :> 80 @@ u2 :> 5

OneUserFunds == u1 :> 9

\* A later moment, reached by one accepted bet and five events: r1 waits for its draw
\* with an order, r2 is taking bets of the same user.
LaterInit ==
  /\ round = r1 :> [NoRow EXCEPT !.status = "drawn", !.window = "past"]
             @@ r2 :> [NoRow EXCEPT !.status = "betting", !.window = "open"]
  /\ slog = [r \in Round |-> "none"]
  /\ audit = r1 :> << <<"init", "game_start", "betting">>, <<"betting", "game_stop", "sealed">>,
                      <<"sealed", "new_card", "dealt">>, <<"dealt", "game_draw", "drawn">> >>
             @@ r2 :> << <<"init", "game_start", "betting">> >>
  /\ outbox = [r \in Round |-> Sent(round[r].status)]
  /\ rowLock = [r \in Round |-> Null]
  /\ infoCache = [r \in Round |-> "none"]
  /\ resultCache = [r \in Round |-> "none"]
  /\ staff = [s \in Staff |-> NoCall]
  /\ balance = u1 :> 4
  /\ order = x1 :> [bill |-> "pending", win |-> 0] @@ y1 :> NoOrder
  /\ ledger = u1 :> << [bet |-> x1, kind |-> "bet", before |-> 9, after |-> 4] >>
  /\ mail = x1 :> <<"bet_placed">> @@ y1 :> << >>
  /\ userLock = [u \in User |-> Null]
  /\ bettor = [b \in Bettor |-> NoBet]
  /\ draw = [s \in Staff |-> NoDraw]

LaterSpec == LaterInit /\ [][TableNext]_allVars
===============================================================================
