-------------------------------- MODULE Rounds --------------------------------
(***************************************************************************)
(* The life of game rounds under concurrent staff calls: game_event        *)
(* (service/game_event.go) and drawresult (service/draw.go), each one a    *)
(* MySQL transaction on the row of game_round_info, followed by a write to *)
(* Redis.  What a transaction writes appears at its commit; the row lock   *)
(* of SELECT ... FOR UPDATE is explicit.  Bets lock the same row: here     *)
(* they only take and release that lock, and module Table says what they   *)
(* do with it.                                                             *)
(***************************************************************************)
EXTENDS GameRules, Sequences

CONSTANTS Round,    \* round identifiers
          Staff,    \* concurrent calls of game_event and drawresult
          Bettor,   \* concurrent calls of bet
          Null,     \* no lock holder, no round
          RedisOn   \* whether the optional Redis client is configured

ASSUME RoundsAssumption ==
  /\ Staff \cap Bettor = {}
  /\ Null \notin Staff \cup Bettor \cup Round
  /\ RedisOn \in BOOLEAN

VARIABLES round,        \* game_round_info, as committed
          slog,         \* settlement_log, as committed: the result logged
          audit,        \* game_event_audit, as committed: <<from, event, to>>
          outbox,       \* the round's rows of the outbox, in insertion order
          rowLock,      \* which transaction holds a round row's lock
          infoCache,    \* Redis RoundInfoKey
          resultCache,  \* Redis RoundResultKey
          staff         \* the calls in progress

dbVars == <<round, slog, audit, outbox>>
cacheVars == <<infoCache, resultCache>>
roundsVars == <<dbVars, rowLock, cacheVars, staff>>

-------------------------------------------------------------------------------
(* Data *)

Op == Event \cup {"drawresult"}

ResultOrNone == Result \cup {"none"}

Row == [status : State \cup {"absent"}, result : ResultOrNone,
        settled : BOOLEAN, window : {"unset", "open", "past"}]

NoRow == [status |-> "absent", result |-> "none", settled |-> FALSE, window |-> "unset"]

\* The row EnsureOnStart inserts.
NewRow == [NoRow EXCEPT !.status = "init"]

AuditEntry == State \X Event \X State

Topic == {"game_started", "game_draw_ready", "game_drawn", "game_ended"}

Call == [pc : {"idle", "ensure", "insert", "lock", "settle", "commit", "cache"},
         op : Op \cup {"none"}, rid : Round \cup {Null}, card : ResultOrNone,
         prev : State \cup {"none"}, reply : {"none", "ok", "error"}]

NoCall == [pc |-> "idle", op |-> "none", rid |-> Null, card |-> "none",
           prev |-> "none", reply |-> "none"]

TypeOK ==
  /\ round \in [Round -> Row]
  /\ slog \in [Round -> ResultOrNone]
  /\ audit \in [Round -> Seq(AuditEntry)]
  /\ outbox \in [Round -> Seq(Topic)]
  /\ rowLock \in [Round -> Staff \cup Bettor \cup {Null}]
  /\ infoCache \in [Round -> {"none", "betting"}]
  /\ resultCache \in [Round -> ResultOrNone]
  /\ staff \in [Staff -> Call]

Init ==
  /\ round = [r \in Round |-> NoRow]
  /\ slog = [r \in Round |-> "none"]
  /\ audit = [r \in Round |-> << >>]
  /\ outbox = [r \in Round |-> << >>]
  /\ rowLock = [r \in Round |-> Null]
  /\ infoCache = [r \in Round |-> "none"]
  /\ resultCache = [r \in Round |-> "none"]
  /\ staff = [s \in Staff |-> NoCall]

-------------------------------------------------------------------------------
(* Transactions *)

\* Mutant: the row is read without FOR UPDATE, whoever holds its lock.
CanLockAlways(s) == TRUE

\* The row lock is free, or this transaction's own since its insert.
CanLock(s) == rowLock[staff[s].rid] \in {Null, s}

\* What a locking read returns: the transaction's own insert, or the committed row.
Seen(s) ==
  LET r == staff[s].rid
  IN IF round[r] = NoRow /\ rowLock[r] = s THEN NewRow ELSE round[r]

\* All locks of transaction t are dropped, as commit and rollback do.
Unlocked(t) == [r \in Round |-> IF rowLock[r] = t THEN Null ELSE rowLock[r]]

\* Mutant: without the deferred tx.Rollback() an early return keeps the lock.
AnswerKeepsLock(s, reply) ==
  /\ staff' = [staff EXCEPT ![s] = [NoCall EXCEPT !.reply = reply]]
  /\ UNCHANGED <<rowLock, dbVars, cacheVars>>

\* The handler returns: what its transaction has not committed is rolled back.
Answer(s, reply) ==
  /\ staff' = [staff EXCEPT ![s] = [NoCall EXCEPT !.reply = reply]]
  /\ rowLock' = Unlocked(s)
  /\ UNCHANGED <<dbVars, cacheVars>>

\* The transaction has its row's lock, has read status prev, and goes on at pc.
Hold(s, prev, pc) ==
  /\ rowLock' = [rowLock EXCEPT ![staff[s].rid] = s]
  /\ staff' = [staff EXCEPT ![s] = [@ EXCEPT !.prev = prev, !.pc = pc]]
  /\ UNCHANGED <<dbVars, cacheVars>>

\* Commit: row, audit entry, outbox rows and settlement log appear at once and
\* the lock is dropped. What the handler does after it is no longer protected.
Commit(s, row, entry, topics, logged) ==
  LET r == staff[s].rid
  IN /\ round' = [round EXCEPT ![r] = row]
     /\ audit' = [audit EXCEPT ![r] = Append(@, entry)]
     /\ outbox' = [outbox EXCEPT ![r] = @ \o topics]
     /\ slog' = [slog EXCEPT ![r] = logged]
     /\ rowLock' = Unlocked(s)
     /\ staff' = [staff EXCEPT ![s].pc = "cache"]
     /\ UNCHANGED cacheVars

-------------------------------------------------------------------------------
(* game_event *)

\* A call of game_event arrives, validated by its controller.
CallEvent(s, op, r) ==
  /\ staff[s].pc = "idle"
  /\ staff' = [staff EXCEPT ![s] =
       [NoCall EXCEPT !.pc = IF op = "game_start" THEN "ensure" ELSE "lock",
                      !.op = op, !.rid = r]]
  /\ UNCHANGED <<dbVars, cacheVars, rowLock>>

\* EnsureOnStart counts the round's rows with a read that takes no lock ...
EnsureCount(s) ==
  /\ staff[s].pc = "ensure"
  /\ staff' = [staff EXCEPT ![s].pc =
       IF round[staff[s].rid] = NoRow THEN "insert" ELSE "lock"]
  /\ UNCHANGED <<dbVars, cacheVars, rowLock>>

\* ... and inserts the row it did not see; the new row is locked until commit.
EnsureInsert(s) ==
  /\ staff[s].pc = "insert"
  /\ CanLock(s)
  /\ round[staff[s].rid] = NoRow
  /\ Hold(s, "none", "lock")

\* Another call inserted it in between: error 1062, which game_event returns.
EnsureDuplicate(s) ==
  /\ staff[s].pc = "insert"
  /\ CanLock(s)
  /\ round[staff[s].rid] # NoRow
  /\ Answer(s, "error")

\* Mutant: game_end forgets to ask for a draw result.
AllowedNoResult(row, op) ==
  \E next \in State : <<row.status, op, next>> \in Transition

\* The event is legal in the row's status, and a round ends only with a result.
Allowed(row, op) ==
  /\ \E next \in State : <<row.status, op, next>> \in Transition
  /\ op = "game_end" => row.result # "none"

\* GetStatusForUpdate, NextState and the statements of the event, all under the lock.
LockForEvent(s) ==
  /\ staff[s].pc = "lock" /\ staff[s].op \in Event
  /\ CanLock(s)
  /\ Allowed(Seen(s), staff[s].op)
  /\ Hold(s, Seen(s).status, "commit")

\* No such round, an illegal transition, or game_end without a draw result.
RefuseEvent(s) ==
  /\ staff[s].pc = "lock" /\ staff[s].op \in Event
  /\ CanLock(s)
  /\ ~ Allowed(Seen(s), staff[s].op)
  /\ Answer(s, "error")

\* Mutant: game_end announces itself under a topic of its own.
EventTopicsRenamed(op) ==
  CASE op = "game_start" -> <<"game_started">>
    [] op = "game_draw"  -> <<"game_draw_ready">>
    [] op = "game_end"   -> <<"round_ended">>
    [] OTHER             -> << >>

\* The outbox rows an event writes.
EventTopics(op) ==
  CASE op = "game_start" -> <<"game_started">>
    [] op = "game_draw"  -> <<"game_draw_ready">>
    [] op = "game_end"   -> <<"game_ended">>
    [] OTHER             -> << >>

\* The betting window is opened by SetBetTimes and ended by SetBetStopNow.
EventWindow(op, window) ==
  CASE op = "game_start" -> "open"
    [] op = "game_stop"  -> "past"
    [] OTHER             -> window

CommitEvent(s) ==
  /\ staff[s].pc = "commit" /\ staff[s].op \in Event
  /\ \E next \in State :
       LET op == staff[s].op
           row == Seen(s)
       IN /\ <<staff[s].prev, op, next>> \in Transition
          /\ Commit(s, [row EXCEPT !.status = next, !.window = EventWindow(op, @)],
                    <<staff[s].prev, op, next>>, EventTopics(op), slog[staff[s].rid])

\* What an event leaves in the round's info cache.
EventInfo(op, info) ==
  CASE op = "game_start" -> "betting"
    [] op = "game_end"   -> "none"
    [] OTHER             -> info

\* After the commit game_start sets the round's info in Redis and game_end deletes
\* it; a Redis that fails, or is not configured, is passed over.
CacheEvent(s) ==
  /\ staff[s].pc = "cache" /\ staff[s].op \in Event
  /\ \E written \in {FALSE, RedisOn} :
       infoCache' = IF written
                    THEN [infoCache EXCEPT ![staff[s].rid] = EventInfo(staff[s].op, @)]
                    ELSE infoCache
  /\ staff' = [staff EXCEPT ![s] = [NoCall EXCEPT !.reply = "ok"]]
  /\ UNCHANGED <<dbVars, rowLock, resultCache>>

-------------------------------------------------------------------------------
(* drawresult *)

\* A call of drawresult arrives, with cards that decideResult turns into card.
CallDraw(s, card, r) ==
  /\ staff[s].pc = "idle"
  /\ staff' = [staff EXCEPT ![s] =
       [NoCall EXCEPT !.pc = "lock", !.op = "drawresult", !.rid = r, !.card = card]]
  /\ UNCHANGED <<dbVars, cacheVars, rowLock>>

\* Mutant: only is_settled is asked, any unsettled round can be drawn.
CanSettleAnyState(row) == row.status # "absent" /\ ~ row.settled

CanSettle(row) == row.status = "drawn" /\ ~ row.settled

\* Mutant: the result is cached while the draw's transaction is still open.
LockForDrawCaching(s) ==
  /\ staff[s].pc = "lock" /\ staff[s].op = "drawresult"
  /\ CanLock(s)
  /\ CanSettle(Seen(s))
  /\ rowLock' = [rowLock EXCEPT ![staff[s].rid] = s]
  /\ staff' = [staff EXCEPT ![s].prev = Seen(s).status, ![s].pc = "settle"]
  /\ resultCache' = [resultCache EXCEPT ![staff[s].rid] = staff[s].card]
  /\ UNCHANGED <<dbVars, infoCache>>

\* GetSettlementStatusForUpdate and UpdateDraw.
LockForDraw(s) ==
  /\ staff[s].pc = "lock" /\ staff[s].op = "drawresult"
  /\ CanLock(s)
  /\ CanSettle(Seen(s))
  /\ Hold(s, Seen(s).status, "settle")

\* A settled round answers success; an unknown round or another state is an error.
AnswerDraw(s) ==
  /\ staff[s].pc = "lock" /\ staff[s].op = "drawresult"
  /\ CanLock(s)
  /\ ~ CanSettle(Seen(s))
  /\ Answer(s, IF Seen(s).settled THEN "ok" ELSE "error")

\* CreateSettlementLog: its unique key on the round is the second protection,
\* a duplicate rolls the draw back and answers success.
LogSettlement(s) ==
  /\ staff[s].pc = "settle"
  /\ IF slog[staff[s].rid] = "none" THEN Hold(s, staff[s].prev, "commit")
                                    ELSE Answer(s, "ok")

\* MarkAsSettled and the audit entry, which the code writes as event game_draw.
CommitDraw(s) ==
  /\ staff[s].pc = "commit" /\ staff[s].op = "drawresult"
  /\ LET card == staff[s].card
     IN Commit(s, [round[staff[s].rid] EXCEPT !.status = "settled", !.settled = TRUE,
                                              !.result = card],
               <<"drawn", "game_draw", "settled">>, <<"game_drawn">>, card)

CacheResult(s) ==
  /\ staff[s].pc = "cache" /\ staff[s].op = "drawresult"
  /\ \E written \in {FALSE, RedisOn} :
       resultCache' = IF written
                      THEN [resultCache EXCEPT ![staff[s].rid] = staff[s].card]
                      ELSE resultCache
  /\ staff' = [staff EXCEPT ![s] = [NoCall EXCEPT !.reply = "ok"]]
  /\ UNCHANGED <<dbVars, rowLock, infoCache>>

-------------------------------------------------------------------------------
(* Failures and the environment *)

\* Mutant: the error of tx.Commit() is swallowed and the call answers success.
FailAsSuccess(s) ==
  /\ staff[s].pc # "idle"
  /\ Answer(s, IF staff[s].pc = "commit" THEN "ok" ELSE "error")

\* Any statement may fail (lock wait timeout, lost connection, deadlock victim,
\* cancelled request, crash), and a commit may succeed with its answer lost.
Fail(s) ==
  /\ staff[s].pc # "idle"
  /\ Answer(s, "error")

\* Forty-five seconds after game_start the betting window is past.
WindowPasses(r) ==
  /\ round[r].window = "open"
  /\ round' = [round EXCEPT ![r].window = "past"]
  /\ UNCHANGED <<slog, audit, outbox, rowLock, cacheVars, staff>>

\* Redis keys expire, 60 s and 2 min after they were set.
InfoExpires(r) ==
  /\ infoCache[r] # "none"
  /\ infoCache' = [infoCache EXCEPT ![r] = "none"]
  /\ UNCHANGED <<dbVars, rowLock, resultCache, staff>>

ResultExpires(r) ==
  /\ resultCache[r] # "none"
  /\ resultCache' = [resultCache EXCEPT ![r] = "none"]
  /\ UNCHANGED <<dbVars, rowLock, infoCache, staff>>

\* A bet's transaction locks an existing round ...
BetLocksRound(b, r) ==
  /\ round[r] # NoRow
  /\ rowLock[r] = Null
  /\ \A q \in Round : rowLock[q] # b
  /\ rowLock' = [rowLock EXCEPT ![r] = b]
  /\ UNCHANGED <<dbVars, cacheVars, staff>>

\* ... and drops the lock when it commits or rolls back.
BetUnlocksRound(b, r) ==
  /\ rowLock[r] = b
  /\ rowLock' = [rowLock EXCEPT ![r] = Null]
  /\ UNCHANGED <<dbVars, cacheVars, staff>>

-------------------------------------------------------------------------------
(* Specification *)

\* The steps that wait for the row lock.
WantsLock(s) ==
  \/ EnsureInsert(s) \/ EnsureDuplicate(s)
  \/ LockForEvent(s) \/ RefuseEvent(s)
  \/ LockForDraw(s) \/ AnswerDraw(s)

\* The steps that do not.
Continues(s) ==
  \/ EnsureCount(s) \/ CommitEvent(s) \/ CacheEvent(s)
  \/ LogSettlement(s) \/ CommitDraw(s) \/ CacheResult(s)

Environment ==
  \/ \E s \in Staff : Fail(s)
  \/ \E r \in Round : WindowPasses(r) \/ InfoExpires(r) \/ ResultExpires(r)
  \/ \E b \in Bettor, r \in Round : BetLocksRound(b, r) \/ BetUnlocksRound(b, r)

Next ==
  \/ \E s \in Staff, r \in Round, op \in Event : CallEvent(s, op, r)
  \/ \E s \in Staff, r \in Round, card \in Result : CallDraw(s, card, r)
  \/ \E s \in Staff : WantsLock(s) \/ Continues(s)
  \/ Environment

Spec == Init /\ [][Next]_roundsVars

\* Handlers go on; InnoDB grants row locks in the order they are asked for; a
\* bet's transaction ends, at the latest when its 3 s timeout rolls it back.
Fairness ==
  /\ \A s \in Staff : WF_roundsVars(Continues(s)) /\ SF_roundsVars(WantsLock(s))
  /\ \A b \in Bettor, r \in Round : WF_roundsVars(BetUnlocksRound(b, r))

FairSpec == Spec /\ Fairness

-------------------------------------------------------------------------------
(* Properties *)

\* The three records of a settlement agree: is_settled and game_result of the row
\* and the row of settlement_log are set together, by the draw, and no round ends
\* (game_end asks for the result only, and merely warns when is_settled is 0)
\* without them.
SettledTogether ==
  \A r \in Round :
    /\ slog[r] = round[r].result
    /\ round[r].settled <=> round[r].result # "none"
    /\ round[r].settled <=> round[r].status \in {"settled", "finished"}

\* The transitions an audit entry may record: NextState's, and the draw's.
AuditStep == Transition \cup {<<"drawn", "game_draw", "settled">>}

\* A gapless path of audit entries from init to a status; none for a missing row.
IsPath(path, status) ==
  /\ \A i \in 1..Len(path) : path[i] \in AuditStep
  /\ \A i \in 1..Len(path) - 1 : path[i][3] = path[i + 1][1]
  /\ path = << >> => status = "absent"
  /\ path # << >> => path[1][1] = "init" /\ path[Len(path)][3] = status

\* game_event_audit tells the round's history without a gap or a repetition: every
\* entry starts in the state the one before it reached, the first in init, the last
\* in the row's status. Two calls that act on one reading of the status break it.
AuditIsThePath == \A r \in Round : IsPath(audit[r], round[r].status)

\* The outbox rows of a round that has come to a status.
Sent(status) ==
  CASE status \in {"betting", "sealed", "dealt"} -> <<"game_started">>
    [] status = "drawn"    -> <<"game_started", "game_draw_ready">>
    [] status = "settled"  -> <<"game_started", "game_draw_ready", "game_drawn">>
    [] status = "finished" -> <<"game_started", "game_draw_ready", "game_drawn", "game_ended">>
    [] OTHER               -> << >>

\* The outbox rows of a round, in the order of their ids, are those of the stages it
\* has gone through, once each: a consumer reads the draw before the round's end.
MessagesFollowTheRound == \A r \in Round : outbox[r] = Sent(round[r].status)

\* Redis never runs ahead of MySQL: the handlers write it after their commit, so a
\* cached round exists and a cached result is the settled one, whatever is delayed.
CacheHoldsCommittedData ==
  \A r \in Round :
    /\ infoCache[r] # "none" => round[r] # NoRow
    /\ resultCache[r] # "none" => round[r].settled /\ resultCache[r] = round[r].result

Rank(status) ==
  CASE status = "absent" -> 0 [] status = "init" -> 1 [] status = "betting" -> 2
    [] status = "sealed" -> 3 [] status = "dealt" -> 4 [] status = "drawn" -> 5
    [] status = "settled" -> 6 [] status = "finished" -> 7

Forward(r) ==
  /\ Rank(round'[r].status) \in
       {Rank(round[r].status), Rank(round[r].status) + 1,
        IF round[r] = NoRow THEN 2 ELSE Rank(round[r].status)}
  /\ round[r].settled => round'[r].settled /\ round'[r].result = round[r].result

\* A round moves one stage at a time and never back, and a settled result stands:
\* no later call, retry or loser of a race changes it.
OneStageForward == [][\A r \in Round : Forward(r)]_roundsVars

Durable(s) ==
  LET r == staff[s].rid
  IN staff[s].pc # "idle" /\ staff'[s].reply = "ok" =>
       IF staff[s].op = "drawresult" THEN round'[r].settled
       ELSE \E i \in 1..Len(audit'[r]) : audit'[r][i][2] = staff[s].op

\* A call answered with success is committed: an event has its audit entry, a draw
\* its settlement, also when the answer is that of a repeated draw.
OkIsDurable == [][\A s \in Staff : Durable(s)]_roundsVars

\* Every call of game_event or drawresult returns, also those that fail: no early
\* return leaves the row locked for the calls that wait for it.
EveryCallReturns ==
  \A s \in Staff : staff[s].pc # "idle" ~> staff[s].pc = "idle"

\* What the requirements say of drawresult: called after game_end it is an error.
\* The code looks at is_settled before the state and answers success.
DrawRefusedAfterEnd ==
  [][\A s \in Staff :
       staff[s].pc = "lock" /\ staff[s].op = "drawresult" /\ staff'[s].pc = "idle"
         /\ round[staff[s].rid].status = "finished"
       => staff'[s].reply = "error"
    ]_roundsVars
===============================================================================
