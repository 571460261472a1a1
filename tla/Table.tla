-------------------------------- MODULE Table ---------------------------------
(***************************************************************************)
(* Bets and draws together: service/bet.go and the settlement inside       *)
(* service/draw.go, on top of the rounds of module Rounds.  A bet locks    *)
(* its user's row, then its round's; a draw locks the round's row, then    *)
(* the row of every winner.  What a transaction writes appears at its      *)
(* commit; what it has read stays in its own record until then, as it does *)
(* in the variables of the Go function.  Redis stands aside (its client is *)
(* optional and nil here): the idempotency key is protected by its unique  *)
(* key alone, and since that row is written and committed with the order,  *)
(* a key is taken exactly when its bet's order exists.                     *)
(***************************************************************************)
EXTENDS Rounds, Orders, SequencesExt

ASSUME TableAssumption ==
  /\ \A bet \in Bet : Terms[bet].round \in Round
  /\ Null \notin User

VARIABLES balance,   \* customers.balance, as committed, in cents
          order,     \* orders (and idempotency_keys), as committed
          ledger,    \* wallet_ledger of each user, as committed
          mail,      \* outbox rows that name a bet's bill
          userLock,  \* which transaction holds a customer row's lock
          bettor,    \* the calls of bet in progress
          draw       \* what each draw has read in its transaction

moneyVars == <<balance, order, ledger, mail>>
tableVars == <<moneyVars, userLock, bettor, draw>>
allVars == <<roundsVars, tableVars>>

-------------------------------------------------------------------------------
(* Data *)

Line == [bet : Bet, kind : {"bet", "settle"}, before : Nat, after : Nat]

BetCall == [pc : {"idle", "user", "round", "commit"}, bet : Bet \cup {Null}, before : Nat,
            reply : {"none", "ok", "repeat", "refused", "error"}]

NoBet == [pc |-> "idle", bet |-> Null, before |-> 0, reply |-> "none"]

\* orders: the list read; seen: the balances read, of the users already paid;
\* next: the user whose turn it is.
Draw == [listed : BOOLEAN, orders : SUBSET Bet, paid : SUBSET User,
         seen : [User -> Nat], next : User \cup {Null}]

NoDraw == [listed |-> FALSE, orders |-> {}, paid |-> {}, seen |-> [u \in User |-> 0],
           next |-> Null]

TableTypeOK ==
  /\ TypeOK
  /\ balance \in [User -> Nat]
  /\ order \in [Bet -> Order]
  /\ ledger \in [User -> Seq(Line)]
  /\ mail \in [Bet -> Seq({"bet_placed", "order_settled"})]
  /\ userLock \in [User -> Staff \cup Bettor \cup {Null}]
  /\ bettor \in [Bettor -> BetCall]
  /\ draw \in [Staff -> Draw]

TableInit ==
  /\ Init
  /\ balance = Funds
  /\ order = [bet \in Bet |-> NoOrder]
  /\ ledger = [u \in User |-> << >>]
  /\ mail = [bet \in Bet |-> << >>]
  /\ userLock = [u \in User |-> Null]
  /\ bettor = [b \in Bettor |-> NoBet]
  /\ draw = [s \in Staff |-> NoDraw]

\* The user locks of transaction t are dropped.
Released(t) == [u \in User |-> IF userLock[u] = t THEN Null ELSE userLock[u]]

-------------------------------------------------------------------------------
(* bet *)

UserOf(b) == Terms[bettor[b].bet].user
RoundOf(b) == Terms[bettor[b].bet].round

\* A bet arrives, first call or retry.
CallBet(b, bet) ==
  /\ bettor[b].pc = "idle"
  /\ bettor' = [bettor EXCEPT ![b] = [NoBet EXCEPT !.pc = "user", !.bet = bet]]
  /\ UNCHANGED <<roundsVars, moneyVars, userLock, draw>>

\* Mutant: the user's row is read without FOR UPDATE.
LockUserNot(b) ==
  /\ bettor[b].pc = "user"
  /\ bettor' = [bettor EXCEPT ![b] =
       [@ EXCEPT !.pc = "round", !.before = balance[UserOf(b)]]]
  /\ UNCHANGED <<roundsVars, moneyVars, userLock, draw>>

\* getOrCreateUserInTx: the user's row is locked and its balance read.
LockUser(b) ==
  /\ bettor[b].pc = "user"
  /\ userLock[UserOf(b)] = Null
  /\ userLock' = [userLock EXCEPT ![UserOf(b)] = b]
  /\ bettor' = [bettor EXCEPT ![b] =
       [@ EXCEPT !.pc = "round", !.before = balance[UserOf(b)]]]
  /\ UNCHANGED <<roundsVars, moneyVars, draw>>

\* Mutant: a bet is taken whatever the round's state, as long as the window is open.
OpenForBetAnyState(bet) ==
  round[Terms[bet].round] # NoRow /\ Rivals(bet, order) = {}

\* Mutant: checkConflictingBets is skipped.
OpenForBetBesideRivals(bet) ==
  /\ round[Terms[bet].round].status = "betting"
  /\ round[Terms[bet].round].window = "open"

\* The checks under the round's lock, in front of the idempotency key's insert.
OpenForBet(bet) ==
  /\ round[Terms[bet].round].status = "betting"
  /\ round[Terms[bet].round].window = "open"
  /\ Rivals(bet, order) = {}

\* The round's row is there to be locked, or is missing and nobody is inserting it.
AtRound(b) == bettor[b].pc = "round" /\ rowLock[RoundOf(b)] = Null

\* The bet returns without having written anything.
ReturnBet(b, reply) ==
  /\ bettor' = [bettor EXCEPT ![b] = [NoBet EXCEPT !.reply = reply]]
  /\ userLock' = Released(b)
  /\ UNCHANGED <<moneyVars, draw>>

\* Mutant: the balance is not compared with the amount.
AcceptBetOnCredit(b) ==
  /\ AtRound(b)
  /\ OpenForBet(bettor[b].bet)
  /\ order[bettor[b].bet] = NoOrder
  /\ BetLocksRound(b, RoundOf(b))
  /\ bettor' = [bettor EXCEPT ![b].pc = "commit"]
  /\ UNCHANGED <<moneyVars, userLock, draw>>

\* Mutant: the idempotency key is not inserted, every call is a first one.
AcceptBetAgain(b) ==
  /\ AtRound(b)
  /\ OpenForBet(bettor[b].bet)
  /\ bettor[b].before >= Terms[bettor[b].bet].amount
  /\ BetLocksRound(b, RoundOf(b))
  /\ bettor' = [bettor EXCEPT ![b].pc = "commit"]
  /\ UNCHANGED <<moneyVars, userLock, draw>>

\* The key is new and the balance suffices: the bet writes all its rows.
AcceptBet(b) ==
  /\ AtRound(b)
  /\ OpenForBet(bettor[b].bet)
  /\ order[bettor[b].bet] = NoOrder
  /\ bettor[b].before >= Terms[bettor[b].bet].amount
  /\ BetLocksRound(b, RoundOf(b))
  /\ bettor' = [bettor EXCEPT ![b].pc = "commit"]
  /\ UNCHANGED <<moneyVars, userLock, draw>>

\* The key is taken: rolled back, and answered with the first call's bill number.
RepeatBet(b) ==
  /\ AtRound(b)
  /\ OpenForBet(bettor[b].bet)
  /\ order[bettor[b].bet] # NoOrder
  /\ ReturnBet(b, "repeat")
  /\ UNCHANGED roundsVars

\* No such round, not betting, window past, a rival order, a customer who is disabled
\* (by nothing in this program, so any customer may be), or too little money.
RefuseBet(b) ==
  /\ AtRound(b)
  /\ \/ ~ OpenForBet(bettor[b].bet)
     \/ /\ order[bettor[b].bet] = NoOrder
        /\ \E disabled \in BOOLEAN :
             disabled \/ bettor[b].before < Terms[bettor[b].bet].amount
  /\ ReturnBet(b, "refused")
  /\ UNCHANGED roundsVars

\* Balance, ledger line, order and outbox row appear together; the answer may be lost.
CommitBet(b) ==
  LET bet == bettor[b].bet
      u == UserOf(b)
      after == bettor[b].before - Terms[bet].amount
  IN /\ bettor[b].pc = "commit"
     /\ BetUnlocksRound(b, RoundOf(b))
     /\ balance' = [balance EXCEPT ![u] = after]
     /\ ledger' = [ledger EXCEPT ![u] = Append(@,
          [bet |-> bet, kind |-> "bet", before |-> bettor[b].before, after |-> after])]
     /\ order' = [order EXCEPT ![bet].bill = "pending"]
     /\ mail' = [mail EXCEPT ![bet] = Append(@, "bet_placed")]
     /\ userLock' = Released(b)
     /\ \E reply \in {"ok", "error"} :
          bettor' = [bettor EXCEPT ![b] = [NoBet EXCEPT !.reply = reply]]
     /\ UNCHANGED draw

\* Mutant: the error of tx.Commit() is swallowed and the bet answers success.
FailBetAsSuccess(b) ==
  /\ bettor[b].pc # "idle"
  /\ ReturnBet(b, IF bettor[b].pc = "commit" THEN "ok" ELSE "error")
  /\ IF rowLock[RoundOf(b)] = b THEN BetUnlocksRound(b, RoundOf(b)) ELSE UNCHANGED roundsVars

\* Mutant: without the deferred tx.Rollback() a failed bet keeps its user locked.
FailBetLocked(b) ==
  /\ bettor[b].pc # "idle"
  /\ bettor' = [bettor EXCEPT ![b] = [NoBet EXCEPT !.reply = "error"]]
  /\ UNCHANGED <<moneyVars, userLock, draw>>
  /\ IF rowLock[RoundOf(b)] = b THEN BetUnlocksRound(b, RoundOf(b)) ELSE UNCHANGED roundsVars

\* The transaction's 3 s are over, InnoDB chose it as deadlock victim, a statement
\* failed or the client went away: it is rolled back.
FailBet(b) ==
  /\ bettor[b].pc # "idle"
  /\ ReturnBet(b, "error")
  /\ IF rowLock[RoundOf(b)] = b THEN BetUnlocksRound(b, RoundOf(b)) ELSE UNCHANGED roundsVars

-------------------------------------------------------------------------------
(* drawresult, from the list of orders to the commit *)

Card(s) == staff[s].card

\* Who of the orders read wins something.
Winners(s, bets) == {u \in User : Winning(u, bets, Card(s)) # {}}

\* The order of a Go map's iteration is arbitrary.
Turn(users, next) == IF users = {} THEN next = Null ELSE next \in users

InDraw(s) == staff[s].pc = "commit" /\ staff[s].op = "drawresult"

\* ListByRoundForUpdate: the orders that wait for this round's result.
ListOrders(s) ==
  /\ InDraw(s) /\ ~ draw[s].listed
  /\ LET bets == Pending(staff[s].rid, order)
     IN \E next \in User \cup {Null} :
          /\ Turn(Winners(s, bets), next)
          /\ draw' = [draw EXCEPT ![s] =
               [@ EXCEPT !.listed = TRUE, !.orders = bets, !.next = next]]
  /\ UNCHANGED <<roundsVars, moneyVars, userLock, bettor>>

\* The next winner's row is locked and its balance read.
PayUser(s) ==
  LET u == draw[s].next
      paid == draw[s].paid \cup {u}
  IN /\ InDraw(s) /\ draw[s].listed /\ u # Null
     /\ userLock[u] = Null
     /\ userLock' = [userLock EXCEPT ![u] = s]
     /\ \E next \in User \cup {Null} :
          /\ Turn(Winners(s, draw[s].orders) \ paid, next)
          /\ draw' = [draw EXCEPT ![s] =
               [@ EXCEPT !.paid = paid, !.seen[u] = balance[u],
                         !.next = next]]
     /\ UNCHANGED <<roundsVars, moneyVars, bettor>>

\* Mutant: every line of a user's payouts starts from the balance first read.
PayLinesUnchained(u, bets, result, before) ==
  [i \in 1..Cardinality(Winning(u, bets, result)) |->
     LET bet == SetToSeq(Winning(u, bets, result))[i]
     IN [bet |-> bet, kind |-> "settle", before |-> before, after |-> before + Win(bet, result)]]

\* One ledger line per winning order of user u, each starting where the last ended.
PayLines(u, bets, result, before) ==
  LET From(lines) == IF lines = << >> THEN before ELSE Last(lines).after
  IN FoldLeft(LAMBDA lines, bet :
                Append(lines, [bet |-> bet, kind |-> "settle", before |-> From(lines),
                               after |-> From(lines) + Win(bet, result)]),
              << >>, SetToSeq(Winning(u, bets, result)))

\* Mutant: only the orders that win are marked as settled.
SettledOrdersWinners(bets, result) ==
  [bet \in Bet |-> IF bet \in bets /\ Win(bet, result) > 0
                   THEN [bill |-> "settled", win |-> Win(bet, result)] ELSE order[bet]]

SettledOrders(bets, result) ==
  [bet \in Bet |-> IF bet \in bets
                   THEN [bill |-> "settled", win |-> Win(bet, result)] ELSE order[bet]]

\* The commit of a draw: every order listed is settled, every winner is paid.
SettleAndCommit(s) ==
  LET bets == draw[s].orders
      paid == draw[s].paid
      seen == draw[s].seen
  IN /\ CommitDraw(s)
     /\ draw[s].listed /\ draw[s].next = Null
     /\ balance' = [u \in User |->
          IF u \in paid THEN Paid(u, seen[u], bets, Card(s)) ELSE balance[u]]
     /\ ledger' = [u \in User |->
          IF u \in paid THEN ledger[u] \o PayLines(u, bets, Card(s), seen[u]) ELSE ledger[u]]
     /\ order' = SettledOrders(bets, Card(s))
     /\ mail' = [bet \in Bet |->
          IF bet \in bets THEN Append(mail[bet], "order_settled") ELSE mail[bet]]
     /\ userLock' = Released(s)
     /\ draw' = [draw EXCEPT ![s] = NoDraw]
     /\ UNCHANGED bettor

\* A staff call fails, and a draw's locks and readings are gone with it.
FailStaff(s) ==
  /\ Fail(s)
  /\ userLock' = Released(s)
  /\ draw' = [draw EXCEPT ![s] = NoDraw]
  /\ UNCHANGED <<moneyVars, bettor>>

-------------------------------------------------------------------------------
(* Specification *)

\* The steps of Rounds in which no bet and no settlement takes part.
RoundsOnly ==
  /\ \/ \E s \in Staff, r \in Round, op \in Event : CallEvent(s, op, r)
     \/ \E s \in Staff, r \in Round, card \in Result : CallDraw(s, card, r)
     \/ \E s \in Staff : \/ WantsLock(s) \/ EnsureCount(s) \/ CommitEvent(s)
                         \/ CacheEvent(s) \/ LogSettlement(s) \/ CacheResult(s)
     \/ \E r \in Round : WindowPasses(r) \/ InfoExpires(r) \/ ResultExpires(r)
  /\ UNCHANGED tableVars

BetStep(b) ==
  \/ \E bet \in Bet : CallBet(b, bet)
  \/ LockUser(b) \/ AcceptBet(b) \/ RepeatBet(b) \/ RefuseBet(b) \/ CommitBet(b) \/ FailBet(b)

SettleStep(s) == ListOrders(s) \/ PayUser(s) \/ SettleAndCommit(s) \/ FailStaff(s)

TableNext ==
  \/ RoundsOnly
  \/ \E b \in Bettor : BetStep(b)
  \/ \E s \in Staff : SettleStep(s)

TableSpec == TableInit /\ [][TableNext]_allVars

\* The steps of a staff call that wait for nobody.
GoesOn(s) ==
  \/ UNCHANGED tableVars /\ (\/ EnsureCount(s) \/ CommitEvent(s) \/ CacheEvent(s)
                             \/ LogSettlement(s) \/ CacheResult(s))
  \/ ListOrders(s) \/ SettleAndCommit(s)

\* As in Rounds: staff calls go on, and the lock of a row is granted to who waits for
\* it if it is free again and again. All that is asked of a bet is that its 3 s end.
TableFairness ==
  /\ \A s \in Staff :
       /\ WF_allVars(GoesOn(s))
       /\ SF_allVars(UNCHANGED tableVars /\ WantsLock(s))
       /\ SF_allVars(PayUser(s))
  /\ \A b \in Bettor : WF_allVars(FailBet(b))

FairTableSpec == TableSpec /\ TableFairness

-------------------------------------------------------------------------------
(* Properties *)

\* wallet_ledger explains customers.balance: a user's lines, in the order of their
\* ids, lead from the first balance to the present one without a gap. A balance read
\* before somebody else's commit and written after it, by a bet that races a draw of
\* another round or another bet of the user, breaks the chain.
LedgerExplainsBalance ==
  \A u \in User :
    LET lines == ledger[u]
        From(i) == IF i = 1 THEN Funds[u] ELSE lines[i - 1].after
    IN /\ \A i \in 1..Len(lines) : lines[i].before = From(i)
       /\ balance[u] = From(Len(lines) + 1)

\* The lines of one kind about one bet.
LinesOf(bet, kind) ==
  {i \in 1..Len(ledger[Terms[bet].user]) :
     LET line == ledger[Terms[bet].user][i] IN line.bet = bet /\ line.kind = kind}

\* Every order has exactly one ledger line that takes its stake, and exactly one that
\* pays its win_amount if it won: retries of the bet and repeated draws move no money.
EveryOrderIsBookedOnce ==
  \A bet \in Bet :
    LET lines == ledger[Terms[bet].user]
        taken == LinesOf(bet, "bet")
        given == LinesOf(bet, "settle")
    IN /\ Cardinality(taken) = IF order[bet] = NoOrder THEN 0 ELSE 1
       /\ \A i \in taken : lines[i].before - lines[i].after = Terms[bet].amount
       /\ Cardinality(given) = IF order[bet].win > 0 THEN 1 ELSE 0
       /\ \A i \in given : lines[i].after - lines[i].before = order[bet].win

\* No user has both dragon and tiger in one round. The check reads the orders without
\* locking them; it holds only because every bet of the round reads them, and writes
\* its own, under the round's row lock.
NoConflictingOrders ==
  \A bet \in Bet : order[bet] # NoOrder => Rivals(bet, order) = {}

\* Orders and outbox move with their round: no order waits in a settled round (a bet
\* that slips in behind the draw's list would wait for ever), none is settled before
\* it, each by the result the round shows, and each order sends each message once.
OrdersFollowTheRound ==
  \A bet \in Bet :
    LET r == Terms[bet].round
    IN CASE order[bet].bill = "none" -> mail[bet] = << >>
         [] order[bet].bill = "pending" ->
              /\ ~ round[r].settled /\ round[r] # NoRow
              /\ mail[bet] = <<"bet_placed">>
         [] order[bet].bill = "settled" ->
              /\ round[r].settled
              /\ order[bet].win = Win(bet, round[r].result)
              /\ mail[bet] = <<"bet_placed", "order_settled">>

\* A bet that is answered with success, for the first time or again, has its order.
BetAnswerIsDurable ==
  [][\A b \in Bettor :
       bettor[b].pc # "idle" /\ bettor'[b].reply \in {"ok", "repeat"}
         => order'[bettor[b].bet] # NoOrder
    ]_allVars

\* The table implements the book: seen from outside a bet and a settlement are each
\* one step, whatever happens between their locks and wherever they fail.
B == INSTANCE Book WITH stage <- [r \in Round |-> round[r].status],
                        outcome <- [r \in Round |-> round[r].result]

ImplementsBook == B!Spec

\* Every call returns: bets lock user before round and draws round before user, but
\* the bet's deadline lets go of the user a draw waits for.
TableCallsReturn ==
  /\ \A s \in Staff : staff[s].pc # "idle" ~> staff[s].pc = "idle"
  /\ \A b \in Bettor : bettor[b].pc # "idle" ~> bettor[b].pc = "idle"

\* What the bet controller promises of a retry with the same key once the first call
\* is done: the first answer, not an error. The service asks for the round's state and
\* window first, so a retry that comes after the betting is refused.
RetryGetsFirstAnswer ==
  [][\A b \in Bettor :
       bettor[b].pc = "round" /\ order[bettor[b].bet] # NoOrder
         => bettor'[b].reply # "refused"
    ]_allVars
===============================================================================
