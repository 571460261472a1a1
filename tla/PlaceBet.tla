------------------------------- MODULE PlaceBet -------------------------------
(***************************************************************************)
(* Redis in front of the bet's transaction (service/bet.go): the cached    *)
(* result of an idempotency key, the in-flight lock with its TTL and its   *)
(* release by owner, the unique key behind both, bill numbers, and the     *)
(* registration of a customer inside the transaction.  The transaction is  *)
(* one step here: in TableProofs, TableCommitsAreUnderLocks shows that it  *)
(* may be.  Any Redis command may fail, before or after it took effect,    *)
(* and keys expire at any time.                                            *)
(***************************************************************************)
EXTENDS Integers, FiniteSetsExt

CONSTANTS Call,      \* concurrent calls of PlaceBet
          User,      \* customers of the platform, registered here or not
          Key,       \* idempotency keys, one for each bet somebody wants
          Request,   \* the user and the stake (in cents) of each key's bet
          Bill,      \* bill numbers generateBillNo may draw
          Funds,     \* the balance of each registered user at the start
          Null,
          RedisOn    \* whether the optional Redis client is configured

ASSUME PlaceBetAssumption ==
  /\ \A k \in Key : Request[k].user \in User /\ Request[k].stake \in Nat \ {0}
  /\ DOMAIN Funds \subseteq User /\ \A u \in DOMAIN Funds : Funds[u] \in Nat
  /\ Null \notin Call \cup Key \cup Bill
  /\ RedisOn \in BOOLEAN

VARIABLES betting,   \* whether the round still takes bets
          customer,  \* the rows of customers: the balance of each registered user
          booked,    \* per key, what its committed order and ledger line say
          lock,      \* Redis IdemLockKey: whose lock value is stored
          cache,     \* Redis IdemResultKey
          call       \* the calls in progress

dbVars == <<betting, customer, booked>>
vars == <<dbVars, lock, cache, call>>

-------------------------------------------------------------------------------
(* Data *)

\* BetOutput.
Answer == [bill : Bill, remain : Nat]

NoAnswer == [bill |-> Null, remain |-> 0]

Registered == DOMAIN customer

Taken == {booked[k].bill : k \in Key} \ {Null}

CallState ==
  [pc : {"idle", "get", "lock", "again", "tx", "conflict", "cache", "release"},
   key : Key \cup {Null},
   reply : {"none", "ok", "inflight", "refused", "duplicate", "error"},
   answer : Answer \cup {NoAnswer}]

NoCall == [pc |-> "idle", key |-> Null, reply |-> "none", answer |-> NoAnswer]

TypeOK ==
  /\ betting \in BOOLEAN
  /\ Registered \subseteq User /\ \A u \in Registered : customer[u] \in Nat
  /\ booked \in [Key -> Answer \cup {NoAnswer}]
  /\ lock \in [Key -> Call \cup {Null}]
  /\ cache \in [Key -> Answer \cup {NoAnswer}]
  /\ call \in [Call -> CallState]

Init ==
  /\ betting = TRUE
  /\ customer = Funds
  /\ booked = [k \in Key |-> NoAnswer]
  /\ lock = [k \in Key |-> Null]
  /\ cache = [k \in Key |-> NoAnswer]
  /\ call = [c \in Call |-> NoCall]

At(c, pc) == call[c].pc = pc

Goto(c, pc) == call' = [call EXCEPT ![c].pc = pc]

\* Returns before the call has taken the lock.
Return(c, reply, answer) ==
  call' = [call EXCEPT ![c] = [@ EXCEPT !.pc = "idle", !.reply = reply, !.answer = answer]]

\* The answer is settled; with Redis the deferred release comes in front of it.
Finish(c, reply, answer) ==
  call' = [call EXCEPT ![c] = [@ EXCEPT !.pc = IF RedisOn THEN "release" ELSE "idle",
                                        !.reply = reply, !.answer = answer]]

-------------------------------------------------------------------------------
(* In front of the transaction *)

\* A bet arrives, first call or retry.
Arrive(c, k) ==
  /\ At(c, "idle")
  /\ call' = [call EXCEPT ![c] =
       [NoCall EXCEPT !.pc = IF RedisOn THEN "get" ELSE "tx", !.key = k]]
  /\ UNCHANGED <<dbVars, lock, cache>>

\* The result is cached: on the fast path, or after the lock was found taken.
Hit(c) ==
  /\ At(c, "get") \/ At(c, "again")
  /\ cache[call[c].key] # NoAnswer
  /\ Return(c, "ok", cache[call[c].key])
  /\ UNCHANGED <<dbVars, lock, cache>>

\* It is not, or the GET failed.
Miss(c) ==
  /\ At(c, "get")
  /\ Goto(c, "lock")
  /\ UNCHANGED <<dbVars, lock, cache>>

MissAgain(c) ==
  /\ At(c, "again")
  /\ Return(c, "inflight", NoAnswer)
  /\ UNCHANGED <<dbVars, lock, cache>>

\* SetNX; its answer may be lost, and then the call counts the lock as taken.
TakeLock(c) ==
  /\ At(c, "lock")
  /\ lock[call[c].key] = Null
  /\ lock' = [lock EXCEPT ![call[c].key] = c]
  /\ Goto(c, "tx") \/ Goto(c, "again")
  /\ UNCHANGED <<dbVars, cache>>

\* Another call's lock, or a SetNX that failed.
LockTaken(c) ==
  /\ At(c, "lock")
  /\ Goto(c, "again")
  /\ UNCHANGED <<dbVars, lock, cache>>

-------------------------------------------------------------------------------
(* The transaction *)

\* The balance read: a customer who is not registered yet gets a new row with 0.
BalanceOf(u) == IF u \in Registered THEN customer[u] ELSE 0

Affordable(k) == BalanceOf(Request[k].user) >= Request[k].stake

\* The first answer to a key, and the rows it stands for: order, ledger line, balance.
FirstAnswer(k, bill) ==
  [bill |-> bill, remain |-> BalanceOf(Request[k].user) - Request[k].stake]

Write(k, answer) ==
  /\ booked' = [booked EXCEPT ![k] = answer]
  /\ customer' = [u \in Registered \cup {Request[k].user} |->
       IF u = Request[k].user THEN answer.remain ELSE customer[u]]

\* The commit succeeds. Its answer may be lost, and then neither the caller nor Redis
\* learns of it.
Committed(c, answer) ==
  \/ RedisOn /\ call' = [call EXCEPT ![c].pc = "cache", ![c].answer = answer]
  \/ ~ RedisOn /\ Finish(c, "ok", answer)
  \/ Finish(c, "error", NoAnswer)

\* Mutant: the balance is not compared with the stake.
AcceptOnCredit(c) ==
  /\ At(c, "tx") /\ betting /\ booked[call[c].key] = NoAnswer
  /\ \E bill \in Bill \ Taken :
       LET answer == FirstAnswer(call[c].key, bill)
       IN Write(call[c].key, answer) /\ Committed(c, answer)
  /\ UNCHANGED <<betting, lock, cache>>

\* Mutant: the in-flight lock is trusted, the unique key is gone.
AcceptUnderLock(c) ==
  /\ At(c, "tx") /\ betting /\ Affordable(call[c].key)
  /\ \E bill \in Bill \ Taken :
       LET answer == FirstAnswer(call[c].key, bill)
       IN Write(call[c].key, answer) /\ Committed(c, answer)
  /\ UNCHANGED <<betting, lock, cache>>

\* The key is new and the balance suffices.
Accept(c) ==
  /\ At(c, "tx") /\ betting /\ booked[call[c].key] = NoAnswer /\ Affordable(call[c].key)
  /\ \E bill \in Bill \ Taken :
       LET answer == FirstAnswer(call[c].key, bill)
       IN Write(call[c].key, answer) /\ Committed(c, answer)
  /\ UNCHANGED <<betting, lock, cache>>

\* The bill number drawn exists: the order's insert fails, all is rolled back.
BillTaken(c) ==
  LET k == call[c].key
  IN /\ At(c, "tx") /\ betting /\ booked[k] = NoAnswer /\ Affordable(k)
     /\ Taken # {}
     /\ Finish(c, "duplicate", NoAnswer)
     /\ UNCHANGED <<dbVars, lock, cache>>

\* The round's checks come first, the key next, the balance last; a registration
\* made at the start of the transaction is rolled back with it.  Beside these, a customer
\* who was there before may have placed a rival bet in the round, or be disabled (by
\* nothing in this program).
Refuse(c) ==
  LET k == call[c].key
  IN /\ At(c, "tx")
     /\ \/ ~ betting
        \/ /\ booked[k] = NoAnswer
           /\ \/ \E barred \in BOOLEAN : barred /\ Request[k].user \in Registered
              \/ ~ Affordable(k)
     /\ Finish(c, "refused", NoAnswer)
     /\ UNCHANGED <<dbVars, lock, cache>>

\* The key is taken: rolled back.
Conflict(c) ==
  /\ At(c, "tx") /\ betting /\ booked[call[c].key] # NoAnswer
  /\ Goto(c, "conflict")
  /\ UNCHANGED <<dbVars, lock, cache>>

\* The first result from Redis ...
ConflictHit(c) ==
  LET k == call[c].key
  IN /\ At(c, "conflict") /\ RedisOn /\ cache[k] # NoAnswer
     /\ Finish(c, "ok", cache[k])
     /\ UNCHANGED <<dbVars, lock, cache>>

\* Mutant: the repeated call answers with the bill number it drew itself.
ConflictReadOwnBill(c) ==
  LET k == call[c].key
  IN /\ At(c, "conflict")
     /\ \E bill \in Bill :
          Finish(c, "ok", [bill |-> bill, remain |-> BalanceOf(Request[k].user)])
     /\ UNCHANGED <<dbVars, lock, cache>>

\* Mutant: what is read from MySQL is put into the cache, too.
ConflictReadCaching(c) ==
  LET k == call[c].key
      answer == [bill |-> booked[k].bill, remain |-> BalanceOf(Request[k].user)]
  IN /\ At(c, "conflict")
     /\ Finish(c, "ok", answer)
     /\ cache' = [cache EXCEPT ![k] = answer]
     /\ UNCHANGED <<dbVars, lock>>

\* ... or the key's bill number and the user's present balance from MySQL.
ConflictRead(c) ==
  LET k == call[c].key
  IN /\ At(c, "conflict")
     /\ Finish(c, "ok", [bill |-> booked[k].bill, remain |-> BalanceOf(Request[k].user)])
     /\ UNCHANGED <<dbVars, lock, cache>>

\* A statement failed, or the transaction's 3 s are over.
FailTx(c) ==
  /\ At(c, "tx") \/ At(c, "conflict")
  /\ Finish(c, "error", NoAnswer)
  /\ UNCHANGED <<dbVars, lock, cache>>

-------------------------------------------------------------------------------
(* After it *)

\* The result is cached, or the SET failed.
CacheAnswer(c) ==
  LET k == call[c].key
  IN /\ At(c, "cache")
     /\ cache' = [cache EXCEPT ![k] = call[c].answer] \/ UNCHANGED cache
     /\ Finish(c, "ok", call[c].answer)
     /\ UNCHANGED <<dbVars, lock>>

\* Mutant: the lock is deleted without a look at its value.
ReleaseAnyLock(c) ==
  /\ At(c, "release")
  /\ lock' = [lock EXCEPT ![call[c].key] = Null]
  /\ Goto(c, "idle")
  /\ UNCHANGED <<dbVars, cache>>

\* The Lua script deletes the lock if its value is this call's; EVAL may fail.
Release(c) ==
  /\ At(c, "release")
  /\ \/ lock' = [lock EXCEPT ![call[c].key] = IF @ = c THEN Null ELSE @]
     \/ UNCHANGED lock
  /\ Goto(c, "idle")
  /\ UNCHANGED <<dbVars, cache>>

-------------------------------------------------------------------------------
(* The environment *)

\* The process dies: the call is gone without an answer, its lock is not.
Crash(c) ==
  /\ ~ At(c, "idle")
  /\ call' = [call EXCEPT ![c] = NoCall]
  /\ UNCHANGED <<dbVars, lock, cache>>

LockExpires(k) ==
  /\ lock[k] # Null
  /\ lock' = [lock EXCEPT ![k] = Null]
  /\ UNCHANGED <<dbVars, cache, call>>

ResultExpires(k) ==
  /\ cache[k] # NoAnswer
  /\ cache' = [cache EXCEPT ![k] = NoAnswer]
  /\ UNCHANGED <<dbVars, lock, call>>

BettingEnds ==
  /\ betting
  /\ betting' = FALSE
  /\ UNCHANGED <<customer, booked, lock, cache, call>>

-------------------------------------------------------------------------------
(* Specification *)

Step(c) ==
  \/ \E k \in Key : Arrive(c, k)
  \/ Hit(c) \/ Miss(c) \/ MissAgain(c) \/ TakeLock(c) \/ LockTaken(c)
  \/ Accept(c) \/ BillTaken(c) \/ Refuse(c) \/ Conflict(c) \/ FailTx(c)
  \/ ConflictHit(c) \/ ConflictRead(c) \/ CacheAnswer(c) \/ Release(c) \/ Crash(c)

Next ==
  \/ \E c \in Call : Step(c)
  \/ \E k \in Key : LockExpires(k) \/ ResultExpires(k)
  \/ BettingEnds

Spec == Init /\ [][Next]_vars

-------------------------------------------------------------------------------
(* Properties *)

KeysOf(u) == {k \in Key : Request[k].user = u /\ booked[k] # NoAnswer}

StakesOf(keys) == MapThenSumSet(LAMBDA k : Request[k].stake, keys)

\* A customer has paid each of its booked keys once, whatever expired or crashed:
\* the unique key on idempotency_keys holds where the in-flight lock does not.
StakeTakenOnce ==
  \A u \in Registered :
    customer[u] = (IF u \in DOMAIN Funds THEN Funds[u] ELSE 0) - StakesOf(KeysOf(u))

\* What Redis holds for a key is what its first call was answered, bill and balance,
\* and not what a later call computed for it.
CacheHoldsTheFirstAnswer ==
  \A k \in Key : cache[k] # NoAnswer => cache[k] = booked[k]

\* A call that returns removes no lock but its own: the lock another call took after
\* this call's lock had expired survives the late release.
OnlyTheOwnerUnlocks ==
  [][\A c \in Call :
       At(c, "release") /\ call'[c].pc = "idle" =>
         \A k \in Key : lock[k] # c => lock'[k] = lock[k]
    ]_vars

\* Every success of a key names one bill number, that of the order that exists, be it
\* answered by the first call, from Redis, or from MySQL.
OneBillPerKey ==
  [][\A c \in Call :
       ~ At(c, "idle") /\ call'[c].pc = "idle" /\ call'[c].reply = "ok" =>
         call'[c].answer.bill = booked'[call[c].key].bill /\ call'[c].answer.bill # Null
    ]_vars

\* What the service says of a customer it does not know: the bet registers it. The new
\* row has balance 0, so the same transaction fails for lack of money and takes the
\* row back: no bet ever registers anybody.
BetRegistersCustomer ==
  [][\A c \in Call :
       At(c, "tx") /\ call'[c].reply = "refused" /\ betting =>
         Request[call[c].key].user \in DOMAIN customer'
    ]_vars
===============================================================================
