# dt-game: a dragon/tiger table, specified, model-checked and proved

The program is the server of a dragon/tiger table. Dealers drive a round through
its stages with `game_event`, customers place bets with `bet`, and a dealer closes
the round with `drawresult`, which settles every order of the round. All state that
matters is in MySQL; Redis is an optional cache and duplicate filter; RocketMQ
carries the messages that the transactions leave in an outbox table.

This directory specifies what those handlers do when they run concurrently, fail at
any statement and are called again; what a request meets before it reaches them
(filters, a rate limiter, parsers); and the JSON library that the repository carries.
TLC checks the modules on small instances; TLAPS proves every safety property of all but
the JSON modules for every number of rounds, calls, customers, bets, dispatchers and requests.

## 1. Inventory

| Component (source) | State it keeps | Operations | What is hard about it | What makes it correct |
|---|---|---|---|---|
| Round state machine (`state/statemachine.go`) | none | `NextState` | every illegal pair must be refused | a round moves one stage at a time |
| `game_event` (`service/game_event.go`, `model/game_round_info.go`, `model/game_event_audit.go`) | the round's row, audit trail, outbox rows, Redis info key | start, stop, new card, draw, end | two calls on one reading of the status; `EnsureOnStart` counts without a lock; Redis is written after the unlock | the audit trail is a path; each stage announces itself once; a success is durable |
| `drawresult` (`service/draw.go`, `model/settlement_log.go`) | row, settlement log, orders, balances, ledger, outbox, Redis result key | draw and settle a round | three protections against a second settlement; a bet behind the list of orders; failures in the middle | settled once, by one result; every order settled and paid |
| `bet` (`service/bet.go`, `model/order.go`, `model/customers.go`, `model/idempotency.go`, `model/wallet_ledger.go`) | orders, idempotency keys, balances, ledger, outbox, Redis lock and result of a key | place a bet | lock order opposite to the draw's; retries; a deadline of 3 s; conflicting bets read without a lock | stake taken once per key; ledger explains balance |
| Payout rules (`service/draw.go`, `service/bet.go`) | none | `calcOdds`, `settlePayout` | half cents, ties | ledger and balance agree to the cent |
| Card list (`service/draw.go`, `common/helper/requtil.go`) | none | `decideResult`, `IsValidCardList` | the validator looks for letters, the parser for tokens | the two together give a list one result, whatever its order |
| Round query (`controller/api/round.go`) | Redis info and result keys | `GetRound` | fills the keys from an unlocked read, which can land late; its routes are commented out in `routers/router.go` | what Redis shows was once committed |
| Outbox dispatcher, inbox consumer (`worker/outbox_dispatcher.go`, `model/outbox.go`, `model/inbox.go`) | outbox status and retries, the broker, inbox | list, publish, mark; receive, upsert, ack | at least once, several dispatchers, ten attempts | nothing is lost before ten failures; one inbox row per message id |
| Rate limiter (`middleware/ratelimit.go`) | a Redis sorted set of requests for each client (global, IP, platform, user) | trim, count, add and expire in one pipeline | the pipeline is no transaction, and counts before it adds; refused requests count, too | nobody gets a second limit; nobody is refused for others' requests or for old ones |
| Controllers and validation (`controller/api`, `common/helper/requtil.go`) | none | two parsers and a validator for each body, HTTP answers | a form is checked field by field, JSON is taken as it decodes; errors are told apart by their texts | only sound input reaches the services; a refusal means that nothing was done |
| Authentication (`auth`, `middleware/auth_*.go`) | platforms of the configuration, tokens, nonces in Redis | verify a signature or token, name the customer | which filter is in front of a path is decided once | a bet is the bet of the customer who signed it |
| Configuration and start-up (`config`, `routers/router.go`, `common/Init.go`) | the process's configuration, the filters | load, set, insert the filters | the filters are inserted when a package is initialised, from a configuration that may be set later | a missing configuration gives the strict filter |
| JSON library (`common/jsoniter`, used through `common/json.go`) | an iterator's buffer, head, capture and depth; a stream's buffer; a pool of iterators | read, decode, skip, write | values that continue in the next chunk; two builds of the skipper; iterators used again | every call gets the element that is next |
| Clients, logging, metrics, CORS, static pages, deployment | process-wide clients | start-up | pure I/O | |

The handlers do not call one another. They interact through MySQL rows (a round's
row is locked by every event, draw and bet of the round; a customer's row by every
bet of the customer and every draw that pays the customer), through the Redis keys of
a round and of an idempotency key, and through the outbox. A bet passes the platform's (or
the demo's) filter and the limiter before its controller parses it; events and draws
pass the administrators' filter.

`PROJECT.json` lists the components with what is modelled of each, and under
`hazards` each thing that can go wrong here and a unit test would hardly reach, at
its line, with the property that watches it.

## 2. Plan

Done, in this order:

1. `GameRules`, `Rounds`: the round's row and all that is written with it.
2. `RoundsProofs`: the inductive invariant of `Rounds`.
3. `Orders`, `Book`, `Table`: bets and settlement on top of the rounds, and the
   abstract book that they implement.
4. `PlaceBet`, `PlaceBetProofs`: Redis in front of the bet's transaction, bill
   numbers, registration.
5. `Outbox`, `OutboxProofs`: rows, dispatchers, broker, inbox.
6. `Requests`, `RateLimit`, `Gateway`: from a client to a service, the card list with it.
7. `JsonCursor`, `JsonIter`, `JsonDecode`, `JsonStream`, `Json`: the JSON library, from its cursor up.

8. `FoldLemmas`, `TableProofs`, `LedgerProofs`: the table is a refinement of
   the rounds, so that what is proved of `Rounds` holds of it; the locking invariant of
   bets and draws; from it the orders' invariants, the refinement of `Book` and the ledger;
   transactions that are two-phase and write under their locks only, balances that add up,
   payouts to the nearest cent, records that only grow.
9. `GatewayProofs`: the limiter, and what reaches the services, for every limit, period, number
   of connections and set of bodies.
10. `StakeTakenOnce` in `PlaceBetProofs`, and that `PlaceBet` implements `Book` as `Table` does.
11. `JsonProofs`: the cursor of the JSON library, for every text and every splitting of it.

Next, in order of importance:

12. Lemmas about `Requests`: that each validator accepts what the code's does and no more,
    stated for every body rather than for those of the run.
13. A round query beside the writers of module `Rounds`, once a route leads to it.

## 3. Modules

| Module | Models | Uses |
|---|---|---|
| `GameRules` | `NextState`, conflicting plays, odds, `settlePayout` | |
| `Rounds` | `game_event` and `drawresult` on a round's row, audit, outbox, settlement log and Redis keys; bets as holders of the row lock | `GameRules` |
| `MCRounds` | TLC instance of `Rounds` | `Rounds` |
| `RoundsProofs` | theorems about `Rounds` | `Rounds`, TLAPS |
| `FoldLemmas` | lemmas: sums over finite sets, greatest and least numbers, functions by recursion on a number | library theorems, TLAPS |
| `Orders` | orders, rivals, what an order pays | `GameRules` |
| `Book` | the abstract table: place a bet and settle a round in one step each | `Orders` |
| `Table` | bet's transaction and the draw's settlement, with row locks | `Rounds`, `Orders`, `Book` by `INSTANCE` |
| `MCTable` | TLC instances of `Table` | `Table` |
| `TableProofs` | theorems about `Table`: its orders, rounds, book and locks; lemmas about what a draw pays: `Credit`, `PayLines` | `Table`, `RoundsProofs`, `FoldLemmas` |
| `LedgerProofs` | theorems about `Table`: its money and its ledger | `TableProofs` |
| `PlaceBet` | `PlaceBet` as its caller and Redis see it: cached result, in-flight lock, unique key, bill numbers, registration | |
| `MCPlaceBet` | TLC instance of `PlaceBet` | `PlaceBet` |
| `PlaceBetProofs` | theorems about `PlaceBet` | `PlaceBet`, `FoldLemmas`, `Book` by `INSTANCE`, TLAPS |
| `Outbox` | outbox rows from their commit to the inbox: dispatchers, broker (external), consumers | |
| `MCOutbox` | TLC instances of `Outbox` | `Outbox` |
| `OutboxProofs` | theorems about `Outbox` | `Outbox`, TLAPS |
| `Requests` | parsers, validators, `decideResult`, HTTP statuses: pure operators | |
| `RateLimit` | the limiter's sorted sets and its pipeline, command by command | |
| `Gateway` | configuration, filters, limiter and controllers; the services are external | `RateLimit`, `Requests` |
| `MCGateway` | TLC instance of `Gateway` | `Gateway` |
| `GatewayProofs` | theorems about `RateLimit` and `Gateway` | `Gateway`, `FoldLemmas`, TLAPS |
| `JsonCursor` | the iterator's place in a text: buffer, refills, captures, bytes, tokens, the step of the integer readers | |
| `JsonProofs` | theorems about `JsonCursor` | `JsonCursor`, `FoldLemmas`, TLAPS |
| `JsonIter` | the iterator's readers: literals, strings, integers, numbers, names | `JsonCursor` |
| `JsonDecode` | skippers of both builds, generic values, decoders by type | `JsonIter` |
| `JsonStream` | the writer: integers, strings, containers, indention | `JsonDecode` |
| `Json` | callers of the library, its pool and its readers | `JsonStream` |
| `MCJson` | TLC instance of `Json` | `Json` |

### Transactions

MySQL at its default isolation is modelled by what the handlers rely on: a
transaction's writes appear at its commit, all at once, and `SELECT ... FOR UPDATE`
holds the row until commit or rollback. `rowLock[r]` and `userLock[u]` name the
holder. What a handler has read is in the record of its call (`staff[s]`,
`bettor[b]`, `draw[s]`), as it is in the variables of the Go function, so that a
reading can be stale if no lock protects it. A new round's row, inserted but not
committed, is the lock of a round that is still `NoRow`: others wait for it, and its
owner sees `NewRow`.

Statements that touch only what the transaction has locked already are not steps of
their own, since nobody can see them; a step ends where another transaction can
come between: at each lock request, at the unlocked count of `EnsureOnStart`, at the
commit, and at the Redis writes after it. Any statement may fail (`Fail`, `FailBet`,
`FailStaff`): lock wait timeout, deadlock victim, lost connection, cancelled
request, crash of the process. The deferred `tx.Rollback()` then drops the locks, and so does
MySQL for a dead client. A commit whose answer is lost is a commit followed by
`Fail`, or the answer `"error"` of `CommitBet`.

### `Rounds`

`staff[s]` is one call of either endpoint: its program counter, the event, the
round, the status it read (`prev`), the result its cards stand for, the last answer.

- `CallEvent`, `EnsureCount`, `EnsureInsert`/`EnsureDuplicate` (game_start only),
  `LockForEvent`/`RefuseEvent`, `CommitEvent`, `CacheEvent` are `Handle` in order.
- `CallDraw`, `LockForDraw`/`AnswerDraw`, `LogSettlement`, `CommitDraw`,
  `CacheResult` are `SubmitDrawResult` without the orders.
- `WindowPasses` is the betting window's 45 s; `InfoExpires`, `ResultExpires` are
  Redis's TTLs, at any moment after the set.
- `BetLocksRound`, `BetUnlocksRound` are all that a round sees of a bet.

The cards are an input (`Result`): which lists of cards give which result is a matter of
module `Requests`. The round query is not modelled (no route leads to it).

### `Orders`, `Book`, `Table`

Money is an integer number of cents and odds of hundredths; the validators let only
amounts with at most two decimals pass, and the code rounds to cents, half up.
A bet is what an idempotency key names, with fixed terms (user, round, play,
amount). The row of `idempotency_keys` is written and committed with the order, so
`order[bet] # NoOrder` is both.

`Table` extends `Rounds`: `RoundsOnly` are the steps of rounds with the money
unchanged; `BetStep` is `PlaceBet` from the begin of its transaction
(`LockUser`, then `AcceptBet`/`RepeatBet`/`RefuseBet` at the round, then
`CommitBet`); `SettleStep` replaces `CommitDraw` by `ListOrders`, one `PayUser` per
winner in any order (a Go map is iterated), and `SettleAndCommit`. Redis is absent
here (`RedisOn = FALSE`, the code runs without it), which leaves the database's own
protections to be tested: with Redis the in-flight lock only removes interleavings.

`Book` is the promise: `Place` and `Settle` in one step each, no locks, no retries.
`ImplementsBook` instantiates it with `stage` and `outcome` read off the round's row.

### `PlaceBet`

`Table` leaves Redis out and takes the transaction apart; `PlaceBet` does the
opposite. Its transaction is one step, because `Table` shows what the locks of the
user's and the round's row make of the statements. `call[c]` is one run of
the Go function; `booked[k]` is what the committed order and ledger line of a key say.

- `Arrive`, `Hit`/`Miss`, `TakeLock`/`LockTaken`, `MissAgain` are the part in front of
  the transaction. The code drops the error of `SetNX`, so a failed `SETNX` counts as
  a lock of somebody else (`LockTaken`), also one that took effect (the second
  disjunct of `TakeLock`).
- `Accept`, `BillTaken`, `Refuse`, `Conflict`, `FailTx` are the outcomes of the
  transaction, in the order of its checks: round, key, balance. `Committed` has a
  third outcome, a commit whose answer is lost.
- `ConflictHit`, `ConflictRead` answer a repeated key; `CacheAnswer` and `Release`
  (deferred, the Lua script) end a call.
- Any Redis command may fail before or after its effect; `LockExpires` and
  `ResultExpires` come at any moment, with which the values of the TTLs are covered;
  `Crash` loses a call at any point, `BettingEnds` closes the round.

Bill numbers are members of a small set, so that two draws of `generateBillNo` can
collide; the order's primary key refuses the second.

### `Outbox`

Ids are assigned by the insert but rows become visible at the commit, so `Insert`
lets rows of different rounds appear in any order and rows of one round in the order
of their ids: their writers hold the round's row lock (`Rounds`, `Table`). A message is
`<<row, n>>`, the n-th send of the row, because the broker gives every send a new
id and the business key is not published.

- `List`, `Publish`/`PublishError`, `MarkSent`/`MarkFailed`/`MarkLost` are the
  dispatcher's loop over the rows it has listed; `StopDispatcher` is a crash or
  shutdown anywhere in it. The errors of both UPDATEs are ignored by the code
  (`MarkLost`). An error of the send may hide a delivered message (`PublishError`).
- `Receive`, `Upsert`, `Ack`, `Drop` are the consumer's loop. The code receives batches of 16 and
  handles them one by one; any message not acknowledged may be handed out again, at any
  time, so that a batch need not be kept.

`attempted` is a history variable: the rows some dispatcher has tried.

### `Requests`, `RateLimit`, `Gateway`

`Requests` has no state. A text is a core with or without blanks around it, since that is
what the parsers tell apart; a number in a body is missing, an integer, a fraction or a
word. A card list is a sequence of tokens, each its first letter and the rest, and the
validator sees its letters. `ParseBetFromJSON` and `ParseBetFromForm` keep their
different strictness: a form is trimmed and checked, JSON is taken as it decodes, and
`ValidateBet` is behind both. `BetStatus`, `DrawStatus` and `EventStatus` are the
controllers' chains of `errors.Is` and `strings.Contains`.

`RateLimit` is one check per dimension (global, IP, platform, user), and in each `Begin`
reads the clock, `Trim`, `Count`, `Add` and `Decide` (with the `EXPIRE`) are the
commands of the pipeline, between which those of other requests come. `PipelineFails` lets a
request through with the commands done so far. `KeyExpires` and `Tick` are Redis and time.
`asked` and `admitted` are history variables that the properties compare.

`Gateway` composes the two. `Set` and `InsertFilters` happen in either order, because
the filters are inserted by an `init` function from `config.Get()` and the main program,
which is not in the repository, sets the configuration; a filter that was inserted looks at
the configuration again when it runs (`conf`). `Arrive`, `DemoAuthFilter`,
`PlatformAuthFilter`, `AdminAuthFilter`, `EnterLimiter`/`LeaveLimiter` and the three
controllers are a request's way. The signature is a verdict that the request carries,
the first of the checks to fail, but for the platform, which depends on the configuration.
The services answer whatever their input and any state of theirs allow; whether they
changed something is recorded in `took`, for `AnswersTellTheOutcome`.

### `JsonCursor`, `JsonIter`, `JsonDecode`, `JsonStream`, `Json`

The repository carries json-iterator, and `common/json.go` is its only user. An operator of
`JsonCursor`, `JsonIter` and `JsonDecode` takes an iterator (a record of buffer, head, what the reader
still has, error, depth and capture) and returns the one it leaves, its result in `ret`.
The fast paths inside the buffer and the slow paths across refills are kept apart, as they
are in the code: that they agree is what there is to check. A routine is cut where it calls
another one: `ReadArray` hands the token it asked for to `NextElement`, which is the rest of
it. `KeepCaptured`, `Refill` and `LoadMore` are `loadMore`, and `Refilled` is the loop of `nextToken`
over its refills, both in `JsonCursor`, which has no recursive operator, so that it can be proved
about; `Skip` has the strict and the sloppy build; the decoders are those of the types
`any`, integers (also those that a string may hold, `ReadMixedInt`), strings, raw messages,
slices, maps, optionals and structs with up to `HashedFields` hashed names or the
general decoder. `JsonStream` writes values, with and without indention, HTML escapes and
sorted keys.

`Json` is a caller who opens a stream, whose reader splits the text anywhere and may break
off (`Open`, `OpenBroken`), or borrows an iterator for a text (`Borrow`), and then reads,
skips, decodes, or enters arrays and objects, in any order; `todo` is what should be next.
`UnmarshalDocument` and `Close` give iterators back to the pool. `Fit` is the reference
definition: what a value is in a type, from the value alone.

What the library does that callers might not expect, and where the model stops:

- A number that ends with the stream is not taken off the buffer, and the next `Decode`
  reads it again; `SkipAndReturnBytes` gives a wrong last chunk there. `Decode` after
  trailing blanks reports an error, not `io.EOF`. The streams of the model are what
  `Encoder` writes, which end with a line feed.
- A reader that breaks off between two elements looks like `io.EOF` to `Decode`; breaking
  off is allowed anywhere in `CallsGetTheirElement`, which asks for no more than an error.
- The check of unsigned integers for overflow misses some values that wrap
  (`iter_int.go:204`): read as a `uint32`, `4772185890` is `477218594`. `SomeOverflowsPass`
  says that there is such a number for every width. The numbers of the run stay within the widest type.
- `assertInteger` sees a fraction's dot only if it is in the same chunk, so `1.5` may
  decode as `1`: the model offers fractions to no integer type (`Offered`).
- The depth limit is kept by `Read`, both skippers' containers (the sloppy one counts only
  the kind of bracket it is in) and struct decoders, not by slices, maps and the pull functions.
- Names of fields are compared by hash in the code; two names with one hash are left out.
  Letters of names are folded for ASCII only.
- A pull of an object's fields sees them in the order in which they were written, which
  is some order when keys are not sorted.

## 4. Runs

| Run | Instance | Distinct states | Question |
|---|---|---|---|
| `rounds` | 1 round, 2 calls, 1 bet | 18,421 | the records of a round agree under concurrent calls, and every call returns |
| `rounds_draw_after_end` | 1 round, 2 calls, 1 bet | violated | drawresult after game_end is refused |
| `table` | 1 round, 1 staff call, 2 bets in progress, 2 users, 4 bets | 150,528 (with symmetry) | money, orders, messages agree; the book is implemented |
| `table_two_rounds` | 2 rounds, 2 staff calls, 1 bet in progress, 1 user, 2 bets | 633,000 (with symmetry, rounded) | one user between a draw of one round and a bet of another |
| `table_live` | 1 round, 1 staff call, 2 bets in progress, 1 user, 1 bet | 10,893 | every call of draw and bet returns |
| `table_retry` | as `table` | violated | a retry gets the first call's answer |
| `place_bet` | 2 calls, 3 keys, a registered and an unknown customer, 2 bill numbers | 441,002 (with symmetry) | with Redis failing and expiring at will, a stake is taken once and every answer names the one order |
| `place_bet_register` | as `place_bet` | violated | a bet registers an unknown customer |
| `outbox` | 2 rows of one round, 2 dispatchers, 1 consumer, 2 attempts, listings of 1 row | 16,689 | what is sent was delivered, what is given up was tried often enough, a round's messages go out in order, every row leaves, every message is stored |
| `outbox_once` | 1 row sent at most twice, 1 dispatcher, 1 consumer | violated | an event is stored once |
| `gateway` | 2 connections, 2 configurations, limit 1 in windows of 1 s, 5 requests | 1,267,196 (with symmetry) | limits hold within their slack, refusals are earned, services get sound input of the right customer, answers tell the outcome |
| `json` | 4 streams and 6 texts in 3 configurations of the writer, one text of another writer, 10 types | 63,692 | in every splitting into chunks and both builds, a call gets the element that is next |

Every run is exhaustive. In `Rounds`, `Table` and `PlaceBet` calls may be repeated for
ever, and no counter needs a bound, because audit, outbox, ledger and orders grow only
with the stages of a round and the orders of a bet, which are finite. In `Outbox`,
`MaxSends` bounds the messages one row may become (after that, a send fails without
delivery); `MaxRetry` is 2 for the code's 10, and `Limit` 1 for the code's 100. In `RateLimit`
the requests (`MaxRequests`), the failing pipelines (`MaxFailures`) and the seconds
(`MaxClock`) are bounded. In `Json` the inputs are finite, and so is what one does with them.

Why the bounds are enough. Rounds share nothing with one another in `Rounds`: a
call names one round, so one round shows all of them. Two calls race at every step, and each
can do so with a stale reading (`EnsureCount` or a Redis write still to come) while the other makes
one call after the other; more calls at a time are what the theorems are for. In `Table` the four bets
contain a rival pair (dragon and tiger of `u1`), two orders of one user that a tie
pays together, orders of two users that dragon pays together, amounts of which
dragon odds make half cents (5 x 1.97 = 9.85, 50 x 1.97 = 98.5), a balance that
does not suffice for all, and a bet retried by the second caller. What one round
cannot show, a user between two rounds, is `table_two_rounds`: it starts from
`LaterInit`, a state that one accepted bet and five events lead to (the first round
waits for its draw with an order, the second takes bets), because all the paths to
it would multiply the run without a new question.

In `PlaceBet` two calls meet at one key in every way the lock, its expiry and the unique
key allow; two keys of one customer make the balance of a repeated answer differ from
the first; three keys and two bill numbers make bills collide. In `Outbox` the two rows are of
one round and a listing holds one of them, so that the second waits behind the
first's failures, and each row is in the hands of either dispatcher. Two attempts are
enough to be at the last one with the row in two dispatchers' lists, and the theorems cover
every set of rows, `MaxRetry` and `Limit`. In the runs of `Outbox` everything can be
delivered and nothing is left to do, so deadlock is not checked there.

In `gateway` the production configuration has the limiter on and little variety in its
bodies; the demo has it off and sends every body: a good one and each that differs from it
in a field, by JSON and as a form, every list of three out of five tokens, and event
numbers around both ends of the range and beyond 8 bits. With a limit of 1 and two
connections, four requests of a window are what `AdmittedWithinLimit` allows (limit - 1, and
two for each connection) and the fifth would be one more; windows longer than a second, which
allow three for each connection, are left to the theorem; two seconds are a window and its successor, and a key with no
`Slack` expires as early as it can. The run ends when the requests are used up, so deadlock
is not checked.

In `json` buffers hold 1, 3 or 100 bytes and the first chunk has any length, so that each
byte of each text is once the last of a chunk; 3 levels are allowed and one text has 4;
integers are read two digits (`Unrolled`) before overflow is looked at and may have at most
four; a struct has more than, or fewer than, two hashed fields. The texts hold quotes,
backslashes and brackets inside strings, a pair of surrogates and one alone.

### What the violated runs show

- `rounds_draw_after_end`: the requirements (`src/docment/项目需求.md:22`) ask for
  an error when drawresult is called after game_end; the code looks at `is_settled`
  first and answers success. Nothing is changed by such a call.
- `table_retry`: the controller's comment (`controller/api/game.go:43`) promises a
  retry the first answer; the service checks the round's state and window before the
  idempotency key, so that a retry after the betting is refused although the first call's
  stake was taken.

- `place_bet_register`: the comments of `PlaceBet` (`service/bet.go:216`, `:480`) say
  that a bet registers a user it does not know. The row is inserted with balance 0 (`:494`), the
  same transaction fails for lack of money (`:311`), and the rollback takes
  the row back.
- `outbox_once`: `model/outbox.go:17` calls `biz_key` a key for removing duplicates, and the
  schema (`init_schema_v1.sql:169`) says that the inbox prevents a second
  consumption. The dispatcher publishes topic and payload only
  (`outbox_dispatcher.go:49`), and the inbox compares the broker's message ids, so a row that is
  published again after a lost UPDATE or a crash becomes two rows of the inbox.

### Fairness

`Rounds!Fairness`: a handler goes on (weak fairness of `Continues`); a call that
waits for a row gets it if the row is free again and again (strong fairness of
`WantsLock`), as InnoDB queues lock requests; a bet unlocks the round, at the latest
when its context's 3 s are over. A failing call needs no fairness: `Fail` only ends
calls earlier. `Table!TableFairness` asks of a bet no more than that its
deadline comes (weak fairness of `FailBet`), and this is what dissolves the deadlock between a bet
(user, then round) and a draw (round, then user). Calls are never required to arrive.

`Outbox!Fairness`: some dispatcher's ticker lists again (weak fairness over all
dispatchers: one process that goes on is enough). A row that comes to the hand of dispatchers
again and again is at last published, with or without success, and at last marked: strong
fairness for each row, since a stop or a lost UPDATE may interrupt any particular attempt,
but no row is always the one at which a process stops. Nothing is assumed about
the broker accepting a message: a row that always fails is given up, which is what lets
the rows behind it move. For each message, consumers that could receive and store it
again and again do so once; a consumer that has handled a message acknowledges
or drops it (weak fairness).

`Gateway`, `RateLimit` and `Json` have safety properties only: a request has no loop in it, and
the library's calls are functions.

## 5. Proofs

### `RoundsProofs`

`RoundsProofs` proves the theorems below for every set of rounds, calls and bets,
with or without Redis, from `RoundsAssumption` alone (calls and bets are different
things and neither is `Null`).

| Theorem | Property |
|---|---|
| `RoundsInvariant` | the inductive invariant `IInv` |
| `RoundsTyped` | `TypeOK` |
| `RoundsSettledTogether` | `SettledTogether` |
| `RoundsAuditIsThePath` | `AuditIsThePath` |
| `RoundsMessagesFollowTheRound` | `MessagesFollowTheRound` |
| `RoundsCacheHoldsCommittedData` | `CacheHoldsCommittedData` |
| `RoundsOneStageForward` | `OneStageForward` |
| `RoundsOkIsDurable` | `OkIsDurable` |
| `RoundsRecordsOnlyGrow` | `RoundRecordsOnlyGrow`: trail and outbox are only added to, a logged result stands |

None of the invariants is inductive: `CommitEvent` writes what follows from the
status its call read some steps ago. `IInv` adds what ties such a reading to
the row:

- `Locking`: a call between its lock and its commit holds the row's lock; its
  `prev` is still the row's status (or `init` for its own insert), the event is still
  allowed there, and a draw's round is drawn and unsettled. The lock is held by
  nobody else, which is why another call's commit cannot invalidate it.
- `AfterCommit`: a call that still has its Redis write to do has its event in the
  audit trail, or its result in the row. These facts are about committed data that
  later steps only extend, so they need no lock; they give `CacheHoldsCommittedData` and `OkIsDurable`.
- `NoInit`: a committed row is never `init`, because `game_start` inserts and leaves `init` in one
  transaction.

The proof goes by who writes what. `Records...Kept` lemmas say that a part of the
invariant follows when the variables it reads are unchanged; `CallStep`,
`AnswerStep`, `HoldStep` and `CommitStep` treat the four shapes a handler's step has;
`CommitEventStep`, `CommitDrawStep` and `CacheStep` are the steps that
write something; `NextKeepsIInv` combines them. The action properties follow from the
same invariant by `ForwardStep` and `DurableStep`.

### `PlaceBetProofs`

For every set of calls, keys, customers and bills, with or without Redis, from
`PlaceBetAssumption` (stakes are positive, balances natural numbers, `Null` is nothing
else):

| Theorem | Property |
|---|---|
| `PlaceBetInvariant` | the inductive invariant `IInv` |
| `PlaceBetTyped` | `TypeOK`: no balance is ever negative |
| `PlaceBetCachesFirstAnswer` | `CacheHoldsTheFirstAnswer` |
| `PlaceBetOwnerUnlocks` | `OnlyTheOwnerUnlocks` |
| `PlaceBetOneBillPerKey` | `OneBillPerKey` |
| `PlaceBetStakeTakenOnce` | `StakeTakenOnce` |
| `PlaceBetKeepsTheBook` | `KeepsTheBook`: the calls do to money and orders what `Book` allows |
| `PlaceBetRegistersNobody` | `RegistersNobody`: a bet in the name of a new customer leaves none behind |

`CacheHoldsTheFirstAnswer` is not inductive: `CacheAnswer` stores what a call computed
in its transaction, perhaps long ago. `CallsMatch` ties a call's answer at `cache`, and
its bill at `release`, to the row of its key, and says that a key in conflict
is booked. That row is written by `Accept` only, which needs it to be empty (the unique
key), so that no other call can make the tie untrue: booked rows never
change. Neither the lock nor its TTL appears in the invariant, which is the point: the
in-flight lock is an optimisation.

`StakeTakenOnce` needs `BooksAreSound` beside it: finitely many keys are booked (`Key`
may be infinite, and the sum of infinitely many stakes is nothing), each by a registered
customer, and nobody with a first balance is unregistered. `Accept` then adds one key to the
sum, which `FoldLemmas` shows to grow by that key's stake.

`KeepsTheBook` maps a key to a bet of `Book` with an order once it is booked, in a book of one
round whose betting ends when `betting` does. `Accept` is `Place`, and no other step touches the
book. `Table` implements the same abstract specification, so the two models of a bet, one of its
transaction and one of what stands before it, agree on what a bet is. `RegistersNobody` is a
consequence of the order of the statements: a new customer has no money and a stake is positive, so that
the insert of the customer is rolled back with the bet.

### `OutboxProofs`

For every finite set of rows and dispatchers, every set of consumers, every `MaxRetry`,
`Limit` and `MaxSends`, from `OutboxAssumption`:

| Theorem | Property |
|---|---|
| `OutboxInvariant` | the inductive invariant `IInv` |
| `OutboxTyped` | `TypeOK` |
| `OutboxSentWasDelivered` | `SentWasDelivered` |
| `OutboxRetriesAreBounded` | `RetriesAreBounded` |
| `OutboxFirstAttemptsInOrder` | `FirstAttemptsInOrder` |
| `OutboxAckedIsStored` | `AckedIsStored` |

- `ListsAreFair`: whoever has a row on its list has every earlier visible row of the
  same round on it, too, unless that was attempted. It holds of a new listing because
  listings take the lowest ids (`ListedFromBelow`, by the cardinalities of the rows below)
  and because a row that is no longer pending was attempted (`LeftMeansAttempted`); a
  late commit does not break it, since rows of one round appear in the order of their ids.
- `InHand`: between publication and mark, the row is attempted, and delivered if no
  error was reported; another dispatcher's mark takes nothing of that back.
- `LastAttempts`: a row out of attempts is listed by nobody any more, so its counter grows only
  by dispatchers that hold it in a list, each of which gives it up when it counts. The
  number of holders and the counter together stay below `MaxRetry` plus the number of dispatchers.
- `InConsumer`: what is acknowledged next is already stored.

### `FoldLemmas`

Balances, payouts and stakes are sums over sets of orders, and the card that counts in a list is
at the `Max` of a set of places. `FoldLemmas` proves what the others need of the library's folds:
a sum exists for every finite set, grows by the term of an element that is added, is the same
for terms that agree, and a function that takes one element after the other from a set is the sum
it looks like; the greatest of some numbers is one of them and no less than any. The library's induction theorems take an operator as parameter, which the provers cannot
instantiate; each induction is therefore an argument by a smallest counterexample
(`SubsetInduction`), from the well-foundedness of the subsets of a finite set.
It also proves that a function defined by recursion on a number exists (`IterationExists`), and
that numbers have a least one.

### `TableProofs`, `LedgerProofs`

For every set of rounds, calls, bets in progress, users and bets, finite or not, with or
without Redis, from `RoundsAssumption`, `OrdersAssumption` (a bet's user and play are such,
its amount is positive, first balances are natural numbers) and `TableAssumption` (a bet's round
is one, `Null` is no user):

| Theorem | Property |
|---|---|
| `TableInvariant` | the inductive invariant `TableIInv` |
| `TableTyped` | `TableTypeOK`: no balance is ever negative |
| `TableNoConflictingOrders` | `NoConflictingOrders` |
| `TableOrdersFollowTheRound` | `OrdersFollowTheRound` |
| `TableImplementsRounds` | `TableSpec => Spec`: the theorems of `RoundsProofs` hold of the table |
| `TableImplementsBook` | `ImplementsBook` |
| `TableBetAnswerIsDurable` | `BetAnswerIsDurable` |
| `TableLocksAreTwoPhase` | `LocksAreTwoPhase`: a transaction keeps its locks until it drops all of them |
| `TableCommitsAreUnderLocks` | `CommitsAreUnderLocks`: whatever is written is the commit of one transaction that holds the rows |
| `LedgerInvariant` | the inductive invariant `LedgerIInv` |
| `TableLedgerExplainsBalance` | `LedgerExplainsBalance` |
| `TableEveryOrderIsBookedOnce` | `EveryOrderIsBookedOnce` |
| `TableBalancesAddUp` | `BalancesAddUp`: a balance is the first one less stakes and with what was won |
| `TableMoneyRecordsOnlyGrow` | `MoneyRecordsOnlyGrow`: no ledger line, message or settled order is ever rewritten |
| `TableWinsAreFair` | `WinsAreFair`: settled orders are paid by the round's result, to the nearest cent |

`CommitBet` checks nothing: it writes what three earlier steps have read, one of them (the
conflicting orders) without a lock on what it reads. `TableIInv` says why that is still so
at the commit:

- `Betting`: a bet that has locked its customer's row knows the present balance; a bet at its
  commit holds the round's row too, the round is in its betting stage, no order exists for its key or
  for a rival play, and the balance suffices. Whoever inserts an order of the user holds the user's row, so the
  unlocked count of rivals cannot become untrue. This is the fact on which `NoConflictingOrders`
  depends: without the user's lock, the round's would have to do it.
- `Drawing`: a draw's list is what is pending now, since orders of the round are
  inserted under the round's lock, which the draw holds; the balances it has read are those of
  users whose rows it holds; the next in
  turn is one of the winners not yet locked, and nobody only if all are.
- `OrdersSound`: an order that is not settled has won nothing, and only finitely many
  orders exist, so that the sums over them are sums, even if `Bet` is infinite.

Every step of the table is a step of `Rounds` or leaves its variables alone
(`TableStepsAreRoundsSteps`): a bet is a holder of the row's lock there, and the settlement
is `CommitDraw`. Every step is `Place`, `Settle` or no step of `Book`
(`TableStepsAreBookSteps`): only the two commits write the book's variables, and by the
invariant each finds at its commit what the book's step asks for.

`LocksAreTwoPhase` and `CommitsAreUnderLocks` together make the transactions serializable. That
is what `PlaceBet` assumes when it takes the transaction of a bet as one step, and what
`Outbox` assumes when the rows of a round appear in the order of their ids.

What a settlement adds to a balance (`Paid`) is the total of
the user's payouts, and the ledger lines that `PayLines` writes lead, one after the other, from the
balance read under the lock to that balance and the credit, with one line for each order that won
and none for others (`PaidIsTotal`, `PayLinesBook`). `BalancesAddUp` follows, order by order, with
`BalanceIInv`; without `OrdersSound` it would not be inductive, since a settlement adds what an
order wins to the balance as if nothing had been counted of it before.

The ledger needs more than the property says. `LedgerIInv` adds `Chained` (each line of a
user begins where the one before ended, the last ends at the balance) and `Booking` (one line
takes an order's stake, one pays it if it won, none pays it if not), order by order. `ChainAppends`
is the commit of a bet, `ChainsJoin` with `PayoutChains` that of a draw.

### `GatewayProofs`

For every set of clients, configurations and bodies, every finite set of connections, every
limit, period and slack, from `RateLimitAssumption` and `GatewayAssumption` (a configuration
has its fields, a request that a filter lets pass names a client, the cards of a body are a list):

| Theorem | Property |
|---|---|
| `GatewayInvariant` | the inductive invariant `GatewayIInv` |
| `GatewayTyped` | `GatewayTypeOK` |
| `GatewayRefusalsAreEarned` | `RefusalsAreEarned` |
| `GatewayAdmittedWithinLimit` | `AdmittedWithinLimit` |
| `GatewayServiceInputsAreSound` | `ServiceInputsAreSound` |
| `GatewayDrawOrderIrrelevant` | `DrawOrderIrrelevant` |
| `GatewayAnswersTellTheOutcome` | `AnswersTellTheOutcome` |
| `GatewayBetsAreAttributed` | `BetsAreAttributed` |

The limiter's own invariant is `LimitIInv`. Entries of a sorted set are numbered requests that
were asked (`EntriesAreNumbered`), and `CountsWhatWasAsked` says that a check's count is at most
the number of other requests of its key in its window; they give `RefusalsAreEarned`. The
gateway adds to it `RoutesSound` (the demo's filters
are in front of bets only if the demo is what was set) and `RequestSound`, which follows one request: what it passed on its way
(`OnItsWay`) and what its answer says of it (`AnswerSound`).

`AdmittedWithinLimit` is about pipelines that overlap, and its invariant `WithinIInv` counts them.
Up to the end of a period, whoever passed has an entry that is in the sorted set, or has
expired while others were in flight; whoever will pass has counted fewer than the limit. Together
they are at most the limit less one, one for each connection (it has counted, but not
added), and, if windows are longer than a second, one more for each (its entry was taken by an expiry
that an earlier request set). After the end nobody new comes into the period; what is then still in
flight adds one for each connection again, since an entry of the period may be trimmed
by a reading of the clock later than its own. The proof corrected the property: two for each connection, as it
was stated before, is right for windows of one second only, and the windows in `src/config/dev.json`
are longer. A behaviour with two connections, a limit of 2 and windows of 2 s lets 7 requests pass, which
is the bound of three for each.

`DrawOrderIrrelevant` rests on lemmas about lists of cards: the validator's search for letters
and `decideResult`'s search for tokens see a list as a set (`CardAlone`, `MarkAlone`), and a list of three that the
validator accepts has one token of each kind (`OneTokenEach`), so that a permutation decides
the same result.

### `JsonProofs`

For every text over any set of bytes, every splitting of it into chunks that are not empty, and
every width of integers, from `CursorAssumption` (the greatest integer exceeds 10):

| Theorem | States |
|---|---|
| `IteratorsStartAtTheText` | an iterator that is given bytes, or a reader of chunks, is at position 0 of the text |
| `ReadByteReadsTheText` | `readByte` returns the next byte and moves by one, or the end stays the end; `unreadByte` undoes it |
| `NextTokenFindsTheToken` | `nextToken` moves to the next byte that is no blank, any number of refills away |
| `StartCaptureCaptures`, `CapturedIsTheText` | what is captured between two positions is the text between them |
| `FittingIntegersAreExact` | a number that fits is read as it is |
| `SomeOverflowsPass` | some that do not fit are read as others |

`IsAt` is the abstraction: an iterator is at a position of a text if its buffer is the text
around the position, and the chunks to come are what follows (`Makes`). `Moved` says that a routine has gone from one
position to another without touching the error, and that every capture that was complete still is
(`CapturesFrom`: what is kept, with what the buffer adds, is the text since the capture began).
`LoadMoreMoves` proves it of a refill, which puts the buffer's part of a capture by before it
overwrites the buffer, `HeadMoves` of a step inside the buffer, and `MovesOn` composes them;
`NextTokenFindsTheToken` is an induction over the refills. What is proved of the routines is therefore
a function of the text alone, so that readers that split it differently give the same bytes, tokens
and captures. A refill that fails moves nothing, but puts a capture's text by a second time; the theorems
say nothing of captures there, and a caller who goes on after the error gets the wrong last chunk named
above.

### Model-checked only

- Liveness (`rounds`, `table_live`, `outbox`): neither fairness nor `ENABLED` is in the
  prover's reach.
- The JSON modules above the cursor (`JsonTypeOK`, `CallsGetTheirElement`, `SkippersAgree`): values are
  trees and the library is recursive over them. The provers cannot read recursive operators, and the
  claims are inductions over trees. What they rest on is proved in `JsonProofs`.
- What the runs that are violated show: counterexamples need no proof.

The invariants and action properties of the runs that are proved are checked by the runs as well: a run shows on a small instance that what a theorem
assumes is met by some behaviour, and its mutants that the property can fail.

## 6. Not modelled

- Metrics, logs, request ids, CORS, static pages and deployment: no state the rules of the
  game depend on.
- Who disables a customer: nothing in the program does, so `RefuseBet` (`Table`) and `Refuse`
  (`PlaceBet`) may find any registered customer disabled. `PlaceBet` does not know which play a key
  bets on either, so a registered customer's bet may meet a rival one there; `Table` has the rivals.
- Cryptography (signatures, tokens, the store of nonces) is a verdict in `Gateway`, a wrong
  signature shorter than 16 characters among them (`auth/platform.go:117` cuts it, the cut panics, and the web
  framework answers with its 500); the
  filter for users' tokens (`middleware/auth_user.go`) is on no route, as is the round query.
- The watcher of the configuration: it changes `GetCurrent()`, which nobody reads to
  serve a request. The main program is not in the repository, so the start-up of the
  dispatcher, the consumer and the clients is not either.
- The columns of orders and ledger that nothing reads back (currency, remarks, trace ids),
  the statistics of the settlement log, the lengths of columns, and the collation of
  idempotency keys (keys are equal or not, for Redis and MySQL alike).
- Gap locks: the only range read under lock is the draw's list of orders, and inserts into
  it are kept out by the round's row lock already. Deadlocks that InnoDB detects are
  failures of one of the calls; a deadlock it detects late is a wait.
- Of the JSON library: `Any` (lazy values), extensions and naming strategies, custom
  marshalers, `json.Number`, decoders of floats, of other widths of integers and of
  base64, the writing of floats, the reuse of streams, and the caches of decoders. They are third-party
  code that this program's one user of the library does not reach, or repetitions
  for another type of what is modelled.

## 7. Running

    tlc -workers 2 -config Rounds.cfg MCRounds
    tlc -workers 2 -config Table.cfg MCTable
    tlc -workers 2 -config PlaceBet.cfg MCPlaceBet
    tlc -workers 2 -config Outbox.cfg MCOutbox
    tlc -workers 2 -config Gateway.cfg MCGateway
    tlc -workers 2 -config Json.cfg MCJson
    tlapm RoundsProofs.tla
    tlapm FoldLemmas.tla
    tlapm TableProofs.tla
    tlapm LedgerProofs.tla
    tlapm PlaceBetProofs.tla
    tlapm OutboxProofs.tla
    tlapm GatewayProofs.tla
    tlapm JsonProofs.tla

The other configurations are named after their run; `PROJECT.json` lists for each run the
module and properties, and for each property a mutation of the modelled code that breaks it.
