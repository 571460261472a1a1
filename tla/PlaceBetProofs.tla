---------------------------- MODULE PlaceBetProofs ----------------------------
(***************************************************************************)
(* Proofs about PlaceBet, for any calls, keys, customers and bills, with   *)
(* and without Redis.  The invariant ties what a call is about to store or *)
(* to answer to the row of its key, which is never changed once written.   *)
(* By it the calls implement the abstract book that Table implements.      *)
(***************************************************************************)
EXTENDS PlaceBet, FoldLemmas

-------------------------------------------------------------------------------
(* The inductive invariant *)

\* A call's answer on its way to Redis or to the client.
CallsMatch ==
  \A c \in Call :
    LET k == call[c].key
    IN /\ call[c].pc # "idle" => k \in Key
       /\ call[c].pc = "conflict" => booked[k] # NoAnswer
       /\ call[c].pc = "cache" => call[c].answer = booked[k] /\ booked[k] # NoAnswer
       /\ call[c].pc = "release" /\ call[c].reply = "ok" =>
            call[c].answer.bill = booked[k].bill /\ booked[k] # NoAnswer

IInv == TypeOK /\ CacheHoldsTheFirstAnswer /\ CallsMatch

\* No answer is the empty one, and only the empty one has no bill.
LEMMA AnswersHaveBills ==
  /\ NoAnswer \notin Answer
  /\ \A a \in Answer \cup {NoAnswer} : a # NoAnswer <=> a.bill # Null
  /\ \A a \in Answer \cup {NoAnswer} : a # NoAnswer => a.bill \in Bill /\ a.remain \in Nat
BY PlaceBetAssumption DEF Answer, NoAnswer

\* The invariant holds of the first state.
LEMMA InitIInv == Init => IInv
<1> SUFFICES ASSUME Init PROVE IInv
  OBVIOUS
<1>1. TypeOK
  BY PlaceBetAssumption DEF Init, TypeOK, Registered, NoCall, CallState
<1>2. CacheHoldsTheFirstAnswer
  BY DEF Init, CacheHoldsTheFirstAnswer
<1>3. CallsMatch
  BY DEF Init, CallsMatch, NoCall
<1> QED BY <1>1, <1>2, <1>3 DEF IInv

-------------------------------------------------------------------------------
(* Steps *)

\* A step of call c that touches no table and no Redis key: the invariant follows from
\* what the step makes of the call.
LEMMA CallOnly ==
  ASSUME IInv, NEW c \in Call, UNCHANGED <<dbVars, lock, cache>>,
         call' \in [Call -> CallState],
         \A o \in Call \ {c} : call'[o] = call[o],
         call'[c].pc # "idle" => call'[c].key \in Key,
         call'[c].pc = "conflict" => booked[call'[c].key] # NoAnswer,
         call'[c].pc # "cache",
         call'[c].pc = "release" /\ call'[c].reply = "ok" =>
           call'[c].answer.bill = booked[call'[c].key].bill /\ booked[call'[c].key] # NoAnswer
  PROVE  IInv'
<1>1. TypeOK'
  BY DEF IInv, TypeOK, dbVars, Registered
<1>2. CacheHoldsTheFirstAnswer'
  BY DEF IInv, CacheHoldsTheFirstAnswer, dbVars
<1>3. CallsMatch'
  BY DEF IInv, CallsMatch, dbVars
<1> QED BY <1>1, <1>2, <1>3 DEF IInv

\* What the shapes of a step make of a call.
LEMMA GotoStep ==
  ASSUME call \in [Call -> CallState], NEW c \in Call,
         NEW pc \in {"lock", "again", "tx", "conflict", "idle"}, Goto(c, pc)
  PROVE  /\ call' \in [Call -> CallState]
         /\ \A o \in Call \ {c} : call'[o] = call[o]
         /\ call'[c].pc = pc /\ call'[c].key = call[c].key
BY DEF Goto, CallState

\* What a call that returns leaves of its record.
LEMMA ReturnStep ==
  ASSUME call \in [Call -> CallState], NEW c \in Call,
         NEW reply \in {"ok", "inflight"}, NEW answer \in Answer \cup {NoAnswer},
         Return(c, reply, answer)
  PROVE  /\ call' \in [Call -> CallState]
         /\ \A o \in Call \ {c} : call'[o] = call[o]
         /\ call'[c].pc = "idle" /\ call'[c].key = call[c].key
         /\ call'[c].reply = reply /\ call'[c].answer = answer
BY DEF Return, CallState

\* What a call that ends, with or without the lock of its key, leaves of its record.
LEMMA FinishStep ==
  ASSUME call \in [Call -> CallState], NEW c \in Call,
         NEW reply \in {"ok", "refused", "duplicate", "error"},
         NEW answer \in Answer \cup {NoAnswer},
         Finish(c, reply, answer)
  PROVE  /\ call' \in [Call -> CallState]
         /\ \A o \in Call \ {c} : call'[o] = call[o]
         /\ call'[c].pc \in {"idle", "release"} /\ call'[c].key = call[c].key
         /\ call'[c].reply = reply /\ call'[c].answer = answer
BY DEF Finish, CallState

\* Steps in front of the transaction that leave Redis alone, and the end of a call.
LEMMA FrontStep ==
  ASSUME IInv, NEW c \in Call,
         \/ \E k \in Key : Arrive(c, k)
         \/ Hit(c) \/ Miss(c) \/ MissAgain(c) \/ LockTaken(c) \/ Crash(c)
  PROVE  IInv'
<1>0. call \in [Call -> CallState] /\ call[c].key \in Key \cup {Null}
  BY DEF IInv, TypeOK, CallState
<1>1. CASE \E k \in Key : Arrive(c, k)
  <2> PICK k \in Key : Arrive(c, k)
    BY <1>1
  <2>1. /\ call' \in [Call -> CallState]
        /\ \A o \in Call \ {c} : call'[o] = call[o]
        /\ call'[c].pc \in {"get", "tx"} /\ call'[c].key = k
    BY <1>0 DEF Arrive, NoCall, CallState
  <2>2. UNCHANGED <<dbVars, lock, cache>>
    BY DEF Arrive
  <2> QED BY <2>1, <2>2, CallOnly
<1>2. CASE Hit(c)
  <2>1. cache[call[c].key] \in Answer \cup {NoAnswer}
    BY <1>2 DEF IInv, TypeOK, CallsMatch, Hit, At
  <2>2. Return(c, "ok", cache[call[c].key]) /\ UNCHANGED <<dbVars, lock, cache>>
    BY <1>2 DEF Hit
  <2> QED BY <1>0, <2>1, <2>2, ReturnStep, CallOnly
<1>3. CASE Miss(c)
  <2>1. Goto(c, "lock") /\ UNCHANGED <<dbVars, lock, cache>> /\ call[c].key \in Key
    BY <1>3 DEF Miss, At, IInv, CallsMatch
  <2> QED BY <1>0, <2>1, GotoStep, CallOnly
<1>4. CASE MissAgain(c)
  <2>1. Return(c, "inflight", NoAnswer) /\ UNCHANGED <<dbVars, lock, cache>>
    BY <1>4 DEF MissAgain
  <2> QED BY <1>0, <2>1, ReturnStep, CallOnly
<1>5. CASE LockTaken(c)
  <2>1. Goto(c, "again") /\ UNCHANGED <<dbVars, lock, cache>> /\ call[c].key \in Key
    BY <1>5 DEF LockTaken, At, IInv, CallsMatch
  <2> QED BY <1>0, <2>1, GotoStep, CallOnly
<1>6. CASE Crash(c)
  <2>1. /\ call' \in [Call -> CallState]
        /\ \A o \in Call \ {c} : call'[o] = call[o]
        /\ call'[c].pc = "idle"
    BY <1>0, <1>6 DEF Crash, NoCall, CallState
  <2>2. UNCHANGED <<dbVars, lock, cache>>
    BY <1>6 DEF Crash
  <2> QED BY <2>1, <2>2, CallOnly
<1> QED BY <1>1, <1>2, <1>3, <1>4, <1>5, <1>6

\* The lock is nothing that the tables, the cache or an answer depend on.
LEMMA LockStep ==
  ASSUME IInv, NEW c \in Call, TakeLock(c) \/ Release(c)
  PROVE  IInv'
<1>0. call \in [Call -> CallState]
  BY DEF IInv, TypeOK
<1>1. UNCHANGED <<dbVars, cache>>
  BY DEF TakeLock, Release
<1>2. lock' \in [Key -> Call \cup {Null}]
  BY DEF IInv, TypeOK, TakeLock, Release
<1>3. PICK pc \in {"tx", "again", "idle"} : Goto(c, pc)
  BY DEF TakeLock, Release
<1>4. call[c].key \in Key
  BY DEF IInv, CallsMatch, TakeLock, Release, At
<1>5. /\ call' \in [Call -> CallState]
      /\ \A o \in Call \ {c} : call'[o] = call[o]
      /\ call'[c].pc = pc /\ call'[c].key = call[c].key
  BY <1>0, <1>3, GotoStep
<1>6. TypeOK'
  BY <1>1, <1>2, <1>5 DEF IInv, TypeOK, dbVars, Registered
<1>7. CacheHoldsTheFirstAnswer'
  BY <1>1 DEF IInv, CacheHoldsTheFirstAnswer, dbVars
<1>8. CallsMatch'
  BY <1>1, <1>4, <1>5 DEF IInv, CallsMatch, dbVars
<1> QED BY <1>6, <1>7, <1>8 DEF IInv

\* The steps of the transaction that write nothing.
LEMMA ReadStep ==
  ASSUME IInv, NEW c \in Call,
         \/ BillTaken(c) \/ Refuse(c) \/ Conflict(c) \/ FailTx(c)
         \/ ConflictHit(c) \/ ConflictRead(c)
  PROVE  IInv'
<1> DEFINE k == call[c].key
<1>0. call \in [Call -> CallState] /\ k \in Key
  BY DEF IInv, TypeOK, CallsMatch, At, BillTaken, Refuse, Conflict, FailTx, ConflictHit,
         ConflictRead
<1>1. CASE BillTaken(c) \/ Refuse(c) \/ FailTx(c)
  <2>1. UNCHANGED <<dbVars, lock, cache>>
    BY <1>1 DEF BillTaken, Refuse, FailTx
  <2>2. PICK reply \in {"refused", "duplicate", "error"} : Finish(c, reply, NoAnswer)
    BY <1>1 DEF BillTaken, Refuse, FailTx
  <2> QED BY <1>0, <2>1, <2>2, FinishStep, CallOnly
<1>2. CASE Conflict(c)
  <2>1. Goto(c, "conflict") /\ UNCHANGED <<dbVars, lock, cache>> /\ booked[k] # NoAnswer
    BY <1>2 DEF Conflict
  <2> QED BY <1>0, <2>1, GotoStep, CallOnly
<1>3. CASE ConflictHit(c)
  <2>1. /\ Finish(c, "ok", cache[k]) /\ UNCHANGED <<dbVars, lock, cache>>
        /\ cache[k] # NoAnswer
    BY <1>3 DEF ConflictHit
  <2>2. cache[k] \in Answer \cup {NoAnswer} /\ cache[k] = booked[k]
    BY <1>0, <2>1 DEF IInv, TypeOK, CacheHoldsTheFirstAnswer
  <2> HIDE DEF k
  <2> QED BY <1>0, <2>1, <2>2, FinishStep, CallOnly DEF k
<1>4. CASE ConflictRead(c)
  <2> DEFINE answer == [bill |-> booked[k].bill, remain |-> BalanceOf(Request[k].user)]
  <2>1. Finish(c, "ok", answer) /\ UNCHANGED <<dbVars, lock, cache>> /\ booked[k] # NoAnswer
    BY <1>4 DEF ConflictRead, At, IInv, CallsMatch
  <2>2. booked[k].bill \in Bill
    BY <1>0, <2>1, AnswersHaveBills DEF IInv, TypeOK
  <2>3. BalanceOf(Request[k].user) \in Nat
    BY DEF IInv, TypeOK, BalanceOf
  <2>4. answer \in Answer /\ answer.bill = booked[k].bill
    BY <2>2, <2>3 DEF Answer
  <2> HIDE DEF answer
  <2> QED BY <1>0, <2>1, <2>4, FinishStep, CallOnly
<1> QED BY <1>1, <1>2, <1>3, <1>4

\* The commit writes the key's row, which was empty; no other call is past its own
\* transaction with this key's answer in its hands, for there was none.
LEMMA AcceptStep ==
  ASSUME IInv, NEW c \in Call, Accept(c)
  PROVE  IInv'
<1> DEFINE k == call[c].key
<1>0. /\ call \in [Call -> CallState] /\ k \in Key
      /\ booked[k] = NoAnswer /\ booked \in [Key -> Answer \cup {NoAnswer}]
      /\ cache \in [Key -> Answer \cup {NoAnswer}]
  BY DEF IInv, TypeOK, CallsMatch, At, Accept
<1>1. PICK bill \in Bill \ Taken :
        Write(k, FirstAnswer(k, bill)) /\ Committed(c, FirstAnswer(k, bill))
  BY DEF Accept
<1> DEFINE a == FirstAnswer(k, bill)
<1>2. a \in Answer /\ a # NoAnswer /\ a.remain \in Nat
  <2>1. Request[k].stake \in Nat /\ BalanceOf(Request[k].user) \in Nat
    BY <1>0, PlaceBetAssumption DEF IInv, TypeOK, BalanceOf
  <2>2. BalanceOf(Request[k].user) - Request[k].stake \in Nat
    BY <2>1 DEF Accept, Affordable
  <2>3. a \in Answer /\ a.remain \in Nat
    BY <1>1, <2>2 DEF FirstAnswer, Answer
  <2> QED BY <2>3, AnswersHaveBills
<1> HIDE DEF a
<1>3. booked' = [booked EXCEPT ![k] = a] /\ UNCHANGED <<betting, lock, cache>>
  BY <1>1 DEF Write, Accept, a
<1>4. /\ call' \in [Call -> CallState]
      /\ \A o \in Call \ {c} : call'[o] = call[o]
      /\ call'[c].pc \in {"cache", "idle", "release"} /\ call'[c].key = k
      /\ call'[c].pc = "cache" => call'[c].answer = a
      /\ call'[c].reply = "ok" /\ call'[c].pc = "release" => call'[c].answer = a
  <2>1. CASE RedisOn /\ call' = [call EXCEPT ![c].pc = "cache", ![c].answer = a]
    BY ZenonT(60), <1>0, <1>2, <2>1 DEF CallState
  <2>2. CASE Finish(c, "ok", a)
    <3> HIDE DEF k
    <3> QED BY <1>0, <1>2, <2>2, FinishStep DEF k
  <2>3. CASE Finish(c, "error", NoAnswer)
    BY <1>0, <2>3, FinishStep
  <2> QED BY <1>1, <2>1, <2>2, <2>3 DEF Committed, a
<1>5. TypeOK'
  <2>1. booked' \in [Key -> Answer \cup {NoAnswer}]
    BY <1>0, <1>2, <1>3
  <2>2. Registered' \subseteq User /\ \A u \in Registered' : customer'[u] \in Nat
    <3>1. customer' = [u \in Registered \cup {Request[k].user} |->
                         IF u = Request[k].user THEN a.remain ELSE customer[u]]
      BY <1>1 DEF Write, a
    <3>2. Request[k].user \in User
      BY <1>0, PlaceBetAssumption
    <3> QED BY <1>2, <3>1, <3>2 DEF IInv, TypeOK, Registered
  <2> QED BY <1>3, <1>4, <2>1, <2>2 DEF IInv, TypeOK
<1>6. CacheHoldsTheFirstAnswer'
  BY <1>0, <1>3 DEF IInv, CacheHoldsTheFirstAnswer
<1>7. CallsMatch'
  BY <1>0, <1>2, <1>3, <1>4 DEF IInv, CallsMatch
<1> QED BY <1>5, <1>6, <1>7 DEF IInv

\* What is stored in Redis is the row of the key.
LEMMA CacheAnswerStep ==
  ASSUME IInv, NEW c \in Call, CacheAnswer(c)
  PROVE  IInv'
<1> DEFINE k == call[c].key
           a == call[c].answer
<1>0. /\ call \in [Call -> CallState] /\ k \in Key
      /\ a = booked[k] /\ a # NoAnswer /\ a \in Answer \cup {NoAnswer}
  BY DEF IInv, TypeOK, CallsMatch, At, CacheAnswer, CallState
<1>1. UNCHANGED <<dbVars, lock>> /\ Finish(c, "ok", a)
  BY DEF CacheAnswer
<1>2. cache' = [cache EXCEPT ![k] = a] \/ cache' = cache
  BY DEF CacheAnswer
<1> HIDE DEF k, a
<1>3. /\ call' \in [Call -> CallState]
      /\ \A o \in Call \ {c} : call'[o] = call[o]
      /\ call'[c].pc \in {"idle", "release"} /\ call'[c].key = k /\ call'[c].answer = a
  BY <1>0, <1>1, FinishStep DEF k
<1>4. TypeOK'
  BY <1>0, <1>1, <1>2, <1>3 DEF IInv, TypeOK, dbVars, Registered
<1>5. CacheHoldsTheFirstAnswer'
  BY <1>0, <1>1, <1>2 DEF IInv, TypeOK, CacheHoldsTheFirstAnswer, dbVars
<1>6. CallsMatch'
  BY <1>0, <1>1, <1>3 DEF IInv, CallsMatch, dbVars
<1> QED BY <1>4, <1>5, <1>6 DEF IInv

\* Keys of Redis go away, and the round ends.
LEMMA EnvironmentStep ==
  ASSUME IInv, BettingEnds \/ \E k \in Key : LockExpires(k) \/ ResultExpires(k)
  PROVE  IInv'
<1>1. UNCHANGED <<customer, booked, call>> /\ betting' \in BOOLEAN
  BY DEF BettingEnds, LockExpires, ResultExpires, dbVars, IInv, TypeOK
<1>2. lock' \in [Key -> Call \cup {Null}] /\ cache' \in [Key -> Answer \cup {NoAnswer}]
  BY DEF BettingEnds, LockExpires, ResultExpires, IInv, TypeOK
<1>3. \A k \in Key : cache'[k] # NoAnswer => cache'[k] = cache[k]
  BY DEF BettingEnds, LockExpires, ResultExpires, IInv, TypeOK
<1>4. TypeOK'
  BY <1>1, <1>2 DEF IInv, TypeOK, Registered
<1>5. CacheHoldsTheFirstAnswer'
  BY <1>1, <1>3 DEF IInv, CacheHoldsTheFirstAnswer
<1>6. CallsMatch'
  BY <1>1 DEF IInv, CallsMatch
<1> QED BY <1>4, <1>5, <1>6 DEF IInv

\* Every step, and a stutter, keeps the invariant.
LEMMA NextKeepsIInv ==
  ASSUME IInv, [Next]_vars
  PROVE  IInv'
<1>1. CASE \E c \in Call : Step(c)
  BY <1>1, FrontStep, LockStep, ReadStep, AcceptStep, CacheAnswerStep DEF Step
<1>2. CASE \E k \in Key : LockExpires(k) \/ ResultExpires(k)
  BY <1>2, EnvironmentStep
<1>3. CASE BettingEnds
  BY <1>3, EnvironmentStep
<1>4. CASE UNCHANGED vars
  BY <1>4 DEF vars, dbVars, IInv, TypeOK, CacheHoldsTheFirstAnswer, CallsMatch, Registered
<1> QED BY <1>1, <1>2, <1>3, <1>4 DEF Next

-------------------------------------------------------------------------------
(* Theorems *)

\* The invariant holds in every state.
THEOREM PlaceBetInvariant == Spec => []IInv
<1>1. Init => IInv
  BY InitIInv
<1>2. IInv /\ [Next]_vars => IInv'
  BY NextKeepsIInv
<1> QED BY <1>1, <1>2, PTL DEF Spec

\* Every variable keeps its type.
THEOREM PlaceBetTyped == Spec => []TypeOK
<1>1. IInv => TypeOK
  BY DEF IInv
<1> QED BY <1>1, PlaceBetInvariant, PTL

\* Redis holds the first answer to a key or none.
THEOREM PlaceBetCachesFirstAnswer == Spec => []CacheHoldsTheFirstAnswer
<1>1. IInv => CacheHoldsTheFirstAnswer
  BY DEF IInv
<1> QED BY <1>1, PlaceBetInvariant, PTL

\* A call that returns removes no lock but its own.
THEOREM PlaceBetOwnerUnlocks == Spec => OnlyTheOwnerUnlocks
<1>1. ASSUME IInv, [Next]_vars, NEW c \in Call, At(c, "release"), call'[c].pc = "idle",
             NEW k \in Key, lock[k] # c
      PROVE  lock'[k] = lock[k]
  <2>0. call \in [Call -> CallState] /\ lock \in [Key -> Call \cup {Null}]
    BY <1>1 DEF IInv, TypeOK
  <2>1. CASE \E o \in Call \ {c} : Step(o)
    <3>1. call'[c] = call[c]
      BY ZenonT(60), <2>0, <2>1 DEF Step, Arrive, Hit, Miss, MissAgain, TakeLock, LockTaken, Accept,
           Committed, BillTaken, Refuse, Conflict, FailTx, ConflictHit, ConflictRead,
           CacheAnswer, Release, Crash, Return, Finish, Goto
    <3> QED BY <1>1, <3>1 DEF At
  <2>2. CASE Step(c)
    BY <1>1, <2>0, <2>2 DEF At, Step, Arrive, Hit, Miss, MissAgain, TakeLock, LockTaken, Accept,
         BillTaken, Refuse, Conflict, FailTx, ConflictHit, ConflictRead, CacheAnswer,
         Release, Crash
  <2>3. CASE UNCHANGED call
    BY <1>1, <2>3 DEF At
  <2> QED BY <1>1, <2>1, <2>2, <2>3 DEF Next, LockExpires, ResultExpires, BettingEnds, vars
<1>2. IInv /\ [Next]_vars =>
        [\A c \in Call : At(c, "release") /\ call'[c].pc = "idle" =>
           \A k \in Key : lock[k] # c => lock'[k] = lock[k]]_vars
  BY <1>1
<1> QED BY <1>2, PlaceBetInvariant, PTL DEF Spec, OnlyTheOwnerUnlocks

\* Every success of a key names the bill number of its order.
THEOREM PlaceBetOneBillPerKey == Spec => OneBillPerKey
<1>1. ASSUME IInv, [Next]_vars, NEW c \in Call,
             ~ At(c, "idle"), call'[c].pc = "idle", call'[c].reply = "ok"
      PROVE  /\ call'[c].answer.bill = booked'[call[c].key].bill
             /\ call'[c].answer.bill # Null
  <2> DEFINE k == call[c].key
  <2>0. /\ call \in [Call -> CallState] /\ k \in Key
        /\ booked \in [Key -> Answer \cup {NoAnswer}]
        /\ cache \in [Key -> Answer \cup {NoAnswer}]
    BY <1>1 DEF IInv, TypeOK, CallsMatch, At
  <2>1. CASE \E o \in Call \ {c} : Step(o)
    <3>1. call'[c] = call[c]
      BY ZenonT(60), <2>0, <2>1 DEF Step, Arrive, Hit, Miss, MissAgain, TakeLock, LockTaken, Accept,
           Committed, BillTaken, Refuse, Conflict, FailTx, ConflictHit, ConflictRead,
           CacheAnswer, Release, Crash, Return, Finish, Goto
    <3> QED BY <1>1, <3>1 DEF At
  <2>2. CASE UNCHANGED call
    BY <1>1, <2>2 DEF At
  <2>3. CASE Hit(c) \/ ConflictHit(c)
    <3>1. cache[k] # NoAnswer /\ call'[c].answer = cache[k] /\ booked' = booked
      <4>1. cache[k] \in Answer \cup {NoAnswer}
        BY <2>0
      <4>2. CASE Hit(c)
        BY <2>0, <4>1, <4>2, ReturnStep DEF Hit, dbVars
      <4>3. CASE ConflictHit(c)
        BY <2>0, <4>1, <4>3, FinishStep DEF ConflictHit, dbVars
      <4> QED BY <2>3, <4>2, <4>3
    <3>2. cache[k] = booked[k]
      BY <1>1, <2>0, <3>1 DEF IInv, CacheHoldsTheFirstAnswer
    <3> QED BY <2>0, <3>1, <3>2, AnswersHaveBills
  <2>4. CASE ConflictRead(c)
    <3>1. call'[c].answer.bill = booked[k].bill /\ booked' = booked /\ booked[k] # NoAnswer
      BY <1>1, <2>0, <2>4 DEF ConflictRead, Finish, dbVars, CallState, IInv, CallsMatch, At
    <3> QED BY <2>0, <3>1, AnswersHaveBills
  <2>5. CASE Release(c)
    <3>1. call'[c].answer = call[c].answer /\ call[c].reply = "ok" /\ booked' = booked
      BY <1>1, <2>0, <2>5 DEF Release, Goto, dbVars, CallState
    <3>2. call[c].answer.bill = booked[k].bill /\ booked[k] # NoAnswer
      BY <1>1, <2>5, <3>1 DEF IInv, CallsMatch, Release, At
    <3> QED BY <2>0, <3>1, <3>2, AnswersHaveBills
  <2>6. CASE CacheAnswer(c)
    <3>1. call'[c].answer = call[c].answer /\ booked' = booked
      BY <2>0, <2>6 DEF CacheAnswer, Finish, dbVars, CallState
    <3>2. call[c].answer = booked[k] /\ booked[k] # NoAnswer
      BY <1>1, <2>6 DEF IInv, CallsMatch, CacheAnswer, At
    <3> QED BY <2>0, <3>1, <3>2, AnswersHaveBills
  <2>7. CASE Accept(c)
    <3>1. PICK bill \in Bill :
            Write(k, FirstAnswer(k, bill)) /\ Committed(c, FirstAnswer(k, bill))
      BY <2>7 DEF Accept
    <3>2. booked'[k] = FirstAnswer(k, bill) /\ FirstAnswer(k, bill).bill = bill
      BY <2>0, <3>1 DEF Write, FirstAnswer
    <3>3. call'[c].answer = FirstAnswer(k, bill)
      BY ZenonT(60), <1>1, <2>0, <3>1 DEF Committed, Finish, CallState
    <3> QED BY <3>1, <3>2, <3>3, PlaceBetAssumption
  <2>8. CASE \/ \E q \in Key : Arrive(c, q)
             \/ Miss(c) \/ MissAgain(c) \/ TakeLock(c) \/ LockTaken(c)
             \/ BillTaken(c) \/ Refuse(c) \/ Conflict(c) \/ FailTx(c) \/ Crash(c)
    <3>1. CASE BillTaken(c) \/ Refuse(c) \/ FailTx(c)
      <4>1. PICK reply \in {"refused", "duplicate", "error"} : Finish(c, reply, NoAnswer)
        BY <3>1 DEF BillTaken, Refuse, FailTx
      <4> QED BY <1>1, <2>0, <4>1, FinishStep
    <3>2. CASE MissAgain(c)
      BY <1>1, <2>0, <3>2, ReturnStep DEF MissAgain
    <3>3. CASE Miss(c) \/ TakeLock(c) \/ LockTaken(c) \/ Conflict(c)
      <4>1. PICK pc \in {"lock", "tx", "again", "conflict"} : Goto(c, pc)
        BY <3>3 DEF Miss, TakeLock, LockTaken, Conflict
      <4> QED BY <1>1, <2>0, <4>1, GotoStep
    <3>4. CASE Crash(c)
      BY <1>1, <2>0, <3>4 DEF Crash, NoCall
    <3>5. CASE \E q \in Key : Arrive(c, q)
      BY <1>1, <3>5 DEF Arrive
    <3> QED BY <2>8, <3>1, <3>2, <3>3, <3>4, <3>5
  <2> QED BY <1>1, <2>1, <2>2, <2>3, <2>4, <2>5, <2>6, <2>7, <2>8
        DEF Next, Step, LockExpires, ResultExpires, BettingEnds, vars
<1>2. IInv /\ [Next]_vars =>
        [\A c \in Call : ~ At(c, "idle") /\ call'[c].pc = "idle" /\ call'[c].reply = "ok" =>
           call'[c].answer.bill = booked'[call[c].key].bill /\ call'[c].answer.bill # Null]_vars
  BY <1>1
<1> QED BY <1>2, PlaceBetInvariant, PTL DEF Spec, OneBillPerKey
-------------------------------------------------------------------------------
(* Money *)

\* What makes StakeTakenOnce inductive: the keys booked so far are finitely many, nobody
\* who started with money loses the row, and a booked key's customer has one.
BooksAreSound ==
  /\ IsFiniteSet({k \in Key : booked[k] # NoAnswer})
  /\ DOMAIN Funds \subseteq Registered
  /\ \A k \in Key : booked[k] # NoAnswer => Request[k].user \in Registered
  /\ StakeTakenOnce

Stakes == [k \in Key |-> Request[k].stake]

FundsOf(u) == IF u \in DOMAIN Funds THEN Funds[u] ELSE 0

\* The sum of stakes that the property names is the total of FoldLemmas.
LEMMA StakesAreTotal ==
  ASSUME NEW keys \in SUBSET Key, IsFiniteSet(keys)
  PROVE  StakesOf(keys) = Total(Stakes, keys)
<1> DEFINE h == CHOOSE i : i = [s \in SUBSET keys |->
                  IF s = {} THEN 0 ELSE Request[First(s)].stake + i[s \ {First(s)}]]
<1>1. \A k \in keys : Stakes[k] = Request[k].stake /\ Stakes[k] \in Nat
  BY PlaceBetAssumption DEF Stakes
<1>2. \A s \in SUBSET keys : s # {} => First(s) \in keys
  BY DEF First
<1>3. PICK g : IsSum(g, keys, Stakes)
  BY <1>1, SumExists
<1>4. StakesOf(keys) = h[keys]
  BY DEF StakesOf, MapThenSumSet, MapThenFoldSet, First
<1>5. g = [s \in SUBSET keys |->
             IF s = {} THEN 0 ELSE Request[First(s)].stake + g[s \ {First(s)}]]
  BY <1>1, <1>2, <1>3 DEF IsSum
<1>6. h = [s \in SUBSET keys |->
             IF s = {} THEN 0 ELSE Request[First(s)].stake + h[s \ {First(s)}]]
  BY <1>5
<1> HIDE DEF h
<1>7. h = [s \in SUBSET keys |-> IF s = {} THEN 0 ELSE Stakes[First(s)] + h[s \ {First(s)}]]
  BY <1>1, <1>2, <1>6
<1>8. h[keys] = Total(Stakes, keys)
  BY <1>1, <1>7, RecursionIsSum
<1> QED BY <1>4, <1>8

\* What a customer has paid, whether the customer is registered or not.
LEMMA BalanceIsExplained ==
  ASSUME TypeOK, BooksAreSound, NEW u \in User
  PROVE  /\ IsFiniteSet(KeysOf(u)) /\ KeysOf(u) \subseteq Key
         /\ BalanceOf(u) = FundsOf(u) - Total(Stakes, KeysOf(u))
<1>1. IsFiniteSet(KeysOf(u)) /\ KeysOf(u) \subseteq Key
  <2>1. KeysOf(u) \subseteq {k \in Key : booked[k] # NoAnswer}
    BY DEF KeysOf
  <2> QED BY <2>1, FS_Subset DEF BooksAreSound, KeysOf
<1>2. CASE u \in Registered
  BY <1>1, <1>2, StakesAreTotal DEF BooksAreSound, StakeTakenOnce, BalanceOf, FundsOf
<1>3. CASE u \notin Registered
  <2>1. KeysOf(u) = {} /\ u \notin DOMAIN Funds
    BY <1>3 DEF BooksAreSound, KeysOf
  <2> QED BY <1>1, <1>3, <2>1, TotalOfNone DEF BalanceOf, FundsOf
<1> QED BY <1>1, <1>2, <1>3

\* At the start nothing is booked.
LEMMA InitBooksAreSound == Init => BooksAreSound
<1> SUFFICES ASSUME Init PROVE BooksAreSound
  OBVIOUS
<1>1. {k \in Key : booked[k] # NoAnswer} = {}
  BY DEF Init
<1>2. Registered = DOMAIN Funds
  BY DEF Init, Registered
<1>3. ASSUME NEW u \in Registered
      PROVE  StakesOf(KeysOf(u)) = 0
  <2>1. KeysOf(u) = {}
    BY <1>1 DEF KeysOf
  <2>2. KeysOf(u) \in SUBSET Key /\ IsFiniteSet(KeysOf(u))
    BY <2>1, FS_EmptySet
  <2> QED BY <2>1, <2>2, StakesAreTotal, TotalOfNone
<1>4. StakeTakenOnce
  BY <1>2, <1>3, PlaceBetAssumption DEF StakeTakenOnce, Init
<1> QED BY <1>1, <1>2, <1>4, FS_EmptySet DEF BooksAreSound

\* The commit takes the stake of a key that was not booked.
LEMMA AcceptKeepsBooks ==
  ASSUME IInv, BooksAreSound, NEW c \in Call, Accept(c)
  PROVE  BooksAreSound'
<1>a. PICK k : k = call[c].key
  OBVIOUS
<1>b. PICK u : u = Request[k].user
  OBVIOUS
<1> DEFINE stake == Request[k].stake
<1>1. /\ k \in Key /\ booked[k] = NoAnswer /\ booked \in [Key -> Answer \cup {NoAnswer}]
      /\ Affordable(k)
  BY <1>a DEF IInv, TypeOK, CallsMatch, At, Accept
<1>2. u \in User /\ stake \in Nat /\ stake = Stakes[k] /\ \A q \in Key : Stakes[q] \in Nat
  BY <1>1, <1>b, PlaceBetAssumption DEF Stakes
<1>3. PICK bill \in Bill \ Taken : Write(k, FirstAnswer(k, bill))
  BY <1>a DEF Accept
<1> DEFINE a == FirstAnswer(k, bill)
<1>4. a.remain = BalanceOf(u) - stake /\ a.bill = bill
  BY <1>b DEF FirstAnswer
<1>5. a # NoAnswer
  BY <1>4, PlaceBetAssumption DEF NoAnswer
<1>6. booked' = [booked EXCEPT ![k] = a]
  BY <1>3 DEF Write
<1>7. customer' = [v \in Registered \cup {u} |-> IF v = u THEN a.remain ELSE customer[v]]
  BY <1>3, <1>b DEF Write
<1>8. Registered' = Registered \cup {u}
  BY <1>7 DEF Registered
<1> HIDE DEF a
<1>9. /\ {q \in Key : booked'[q] # NoAnswer} = {q \in Key : booked[q] # NoAnswer} \cup {k}
      /\ KeysOf(u)' = KeysOf(u) \cup {k} /\ k \notin KeysOf(u)
  <2>1. \A q \in Key : booked'[q] = IF q = k THEN a ELSE booked[q]
    BY <1>1, <1>6
  <2>2. {q \in Key : booked'[q] # NoAnswer} = {q \in Key : booked[q] # NoAnswer} \cup {k}
    BY <1>1, <1>5, <2>1
  <2>3. KeysOf(u)' = KeysOf(u) \cup {k} /\ k \notin KeysOf(u)
    <3>1. KeysOf(u)' = {q \in Key : Request[q].user = u /\ booked'[q] # NoAnswer}
      BY DEF KeysOf
    <3> QED BY <1>1, <1>5, <1>b, <2>1, <3>1 DEF KeysOf
  <2> QED BY <2>2, <2>3
<1>10. ASSUME NEW v \in Registered', v # u PROVE KeysOf(v)' = KeysOf(v)
  BY <1>1, <1>6, <1>10, <1>b DEF KeysOf
<1>11. IsFiniteSet({q \in Key : booked'[q] # NoAnswer})
  <2>1. IsFiniteSet({q \in Key : booked[q] # NoAnswer})
    BY DEF BooksAreSound
  <2>2. IsFiniteSet({q \in Key : booked[q] # NoAnswer} \cup {k})
    BY <2>1, FS_AddElement
  <2> QED BY <1>9, <2>2
<1>12. StakeTakenOnce'
  <2> SUFFICES ASSUME NEW v \in Registered'
               PROVE  customer'[v] = FundsOf(v) - StakesOf(KeysOf(v)')
    BY DEF StakeTakenOnce, FundsOf
  <2>1. CASE v = u
    <3>1. /\ IsFiniteSet(KeysOf(u)) /\ KeysOf(u) \subseteq Key
          /\ BalanceOf(u) = FundsOf(u) - Total(Stakes, KeysOf(u))
      BY <1>2, BalanceIsExplained DEF IInv
    <3>2. KeysOf(u)' \in SUBSET Key /\ IsFiniteSet(KeysOf(u)')
      BY <1>1, <1>9, <3>1, FS_AddElement
    <3>3. Total(Stakes, KeysOf(u) \cup {k}) = Stakes[k] + Total(Stakes, KeysOf(u))
      <4>1. \A x \in KeysOf(u) \cup {k} : Stakes[x] \in Nat
        BY <1>1, <1>2, <3>1
      <4> QED BY <1>9, <3>1, <4>1, TotalAdds
    <3>4. Total(Stakes, KeysOf(u)) \in Nat
      BY <1>2, <3>1, TotalIsNat
    <3>5. customer'[u] = BalanceOf(u) - stake
      BY <1>4, <1>7
    <3>6. FundsOf(u) \in Nat
      BY PlaceBetAssumption DEF FundsOf
    <3>7. StakesOf(KeysOf(u)') = Total(Stakes, KeysOf(u)')
      BY <3>2, StakesAreTotal
    <3>8. StakesOf(KeysOf(u)') = stake + Total(Stakes, KeysOf(u))
      BY <1>2, <1>9, <3>3, <3>7
    <3>9. customer'[u] = FundsOf(u) - StakesOf(KeysOf(u)')
      <4> HIDE DEF stake
      <4> QED BY <1>2, <3>1, <3>4, <3>5, <3>6, <3>8
    <3> QED BY <2>1, <3>9
  <2>2. CASE v # u
    <3>1. v \in Registered /\ customer'[v] = customer[v]
      BY <1>7, <1>8, <2>2
    <3>2. customer[v] = FundsOf(v) - StakesOf(KeysOf(v))
      BY <3>1 DEF BooksAreSound, StakeTakenOnce, FundsOf
    <3> QED BY <1>10, <2>2, <3>1, <3>2
  <2> QED BY <2>1, <2>2
<1>13. \A q \in Key : booked'[q] # NoAnswer => Request[q].user \in Registered'
  BY <1>1, <1>6, <1>8, <1>b DEF BooksAreSound
<1> QED BY <1>8, <1>11, <1>12, <1>13 DEF BooksAreSound

\* No other step touches a balance or books a key.
LEMMA NextKeepsBooks ==
  ASSUME IInv, BooksAreSound, [Next]_vars
  PROVE  BooksAreSound'
<1>1. CASE UNCHANGED <<customer, booked>>
  <2>1. Registered' = Registered /\ \A u : KeysOf(u)' = KeysOf(u)
    BY <1>1 DEF Registered, KeysOf
  <2>2. StakeTakenOnce'
    BY <1>1, <2>1 DEF BooksAreSound, StakeTakenOnce
  <2> QED BY <1>1, <2>1, <2>2 DEF BooksAreSound
<1>2. CASE \E c \in Call : Accept(c)
  BY <1>2, AcceptKeepsBooks
<1>3. (\E c \in Call : Accept(c)) \/ UNCHANGED <<customer, booked>>
  BY DEF Next, Step, Arrive, Hit, Miss, MissAgain, TakeLock, LockTaken, BillTaken, Refuse,
         Conflict, FailTx, ConflictHit, ConflictRead, CacheAnswer, Release, Crash,
         LockExpires, ResultExpires, BettingEnds, vars, dbVars
<1> QED BY <1>1, <1>2, <1>3

\* A customer has paid each of its booked keys once.
THEOREM PlaceBetStakeTakenOnce == Spec => []StakeTakenOnce
<1>1. Init => BooksAreSound
  BY InitBooksAreSound
<1>2. IInv /\ BooksAreSound /\ [Next]_vars => BooksAreSound'
  BY NextKeepsBooks
<1>3. BooksAreSound => StakeTakenOnce
  BY DEF BooksAreSound
<1> QED BY <1>1, <1>2, <1>3, PlaceBetInvariant, PTL DEF Spec
-------------------------------------------------------------------------------
(* PlaceBet keeps the book that the table keeps *)

\* The one round of these calls. Which play a bet is on is left out here, so that no bet
\* has a rival: each is on a tie.
Wanted ==
  [k \in Key |-> [user |-> Request[k].user, round |-> "table", play |-> "tie",
                  amount |-> Request[k].stake]]

Stage == [r \in {"table"} |-> IF betting THEN "betting" ELSE "sealed"]

Outcome == [r \in {"table"} |-> "none"]

\* A key is booked when its bet has an order.
Orders == [k \in Key |-> [bill |-> IF booked[k] = NoAnswer THEN "none" ELSE "pending", win |-> 0]]

Balances == [u \in User |-> BalanceOf(u)]

B == INSTANCE Book WITH Bet <- Key, Terms <- Wanted, Funds <- [u \in User |-> FundsOf(u)],
                        Round <- {"table"}, stage <- Stage, outcome <- Outcome,
                        order <- Orders, balance <- Balances

\* The book is opened where betting starts, and every step of it is one of Book's.
KeepsTheBook ==
  /\ Stage["table"] = "betting" /\ Orders = [k \in Key |-> B!NoOrder]
  /\ Balances = [u \in User |-> FundsOf(u)]
  /\ [][B!Next]_(B!bookVars)

\* A commit books one key and takes its stake from a customer who had it.
LEMMA AcceptBooks ==
  ASSUME IInv, NEW c \in Call, Accept(c)
  PROVE  \E k \in Key : /\ betting /\ betting' = betting /\ booked[k] = NoAnswer
                        /\ BalanceOf(Request[k].user) >= Request[k].stake
                        /\ Registered' = Registered /\ Request[k].user \in Registered
                        /\ Orders' = [Orders EXCEPT ![k].bill = "pending"]
                        /\ Balances' = [Balances EXCEPT ![Request[k].user] = @ - Request[k].stake]
<1>1. PICK k : k = call[c].key
  OBVIOUS
<1>2. PICK u : u = Request[k].user
  OBVIOUS
<1>3. /\ k \in Key /\ booked[k] = NoAnswer /\ betting /\ betting' = betting
      /\ BalanceOf(u) >= Request[k].stake /\ booked \in [Key -> Answer \cup {NoAnswer}]
  BY <1>1, <1>2 DEF IInv, TypeOK, CallsMatch, At, Accept, Affordable
<1>4. u \in User /\ Request[k].stake \in Nat \ {0}
  BY <1>2, <1>3, PlaceBetAssumption
<1>5. u \in Registered
  BY <1>3, <1>4 DEF BalanceOf
<1>6. PICK bill \in Bill \ Taken : Write(k, FirstAnswer(k, bill))
  BY <1>1 DEF Accept
<1>7. PICK a : a = FirstAnswer(k, bill)
  OBVIOUS
<1>8. a.remain = BalanceOf(u) - Request[k].stake /\ a # NoAnswer
  BY <1>2, <1>6, <1>7, PlaceBetAssumption DEF FirstAnswer, NoAnswer
<1>9. /\ booked' = [booked EXCEPT ![k] = a]
      /\ customer' = [v \in Registered \cup {u} |-> IF v = u THEN a.remain ELSE customer[v]]
  BY <1>2, <1>6, <1>7 DEF Write
<1>10. Registered' = Registered
  BY <1>5, <1>9 DEF Registered
<1>11. Orders' = [Orders EXCEPT ![k].bill = "pending"]
  <2>1. Orders[k] = [bill |-> "none", win |-> 0]
    BY <1>3 DEF Orders
  <2>2. \A q \in Key : Orders'[q] = IF q = k THEN [bill |-> "pending", win |-> 0] ELSE Orders[q]
    BY <1>3, <1>8, <1>9 DEF Orders
  <2>3. [Orders[k] EXCEPT !.bill = "pending"] = [bill |-> "pending", win |-> 0]
    BY <2>1
  <2>4. Orders' = [q \in Key |-> Orders'[q]] /\ Orders = [q \in Key |-> Orders[q]]
    BY DEF Orders
  <2> HIDE DEF Orders
  <2> QED BY <1>3, <2>2, <2>3, <2>4
<1>12. Balances' = [Balances EXCEPT ![u] = @ - Request[k].stake]
  <2>1. \A v \in Registered : customer'[v] = IF v = u THEN a.remain ELSE customer[v]
    BY <1>9
  <2>2. \A v \in User : BalanceOf(v)' = IF v = u THEN BalanceOf(u) - Request[k].stake
                                                 ELSE BalanceOf(v)
    BY <1>5, <1>8, <1>10, <2>1 DEF BalanceOf
  <2> QED BY <1>4, <2>2 DEF Balances
<1> QED BY <1>2, <1>3, <1>5, <1>10, <1>11, <1>12

\* Which steps write to the tables.
LEMMA WhoBooks ==
  ASSUME [Next]_vars
  PROVE  (\E c \in Call : Accept(c)) \/ BettingEnds \/ UNCHANGED dbVars
  BY DEF Next, Step, Arrive, Hit, Miss, MissAgain, TakeLock, LockTaken, BillTaken, Refuse,
         Conflict, FailTx, ConflictHit, ConflictRead, CacheAnswer, Release, Crash,
         LockExpires, ResultExpires, vars

\* Every step is one of the book's, or none.
LEMMA PlaceBetStepInBook ==
  ASSUME IInv, [Next]_vars
  PROVE  [B!Next]_(B!bookVars)
<1>1. CASE UNCHANGED dbVars
  <2>1. Stage' = Stage /\ Outcome' = Outcome /\ Orders' = Orders /\ Balances' = Balances
    BY <1>1 DEF dbVars, Stage, Outcome, Orders, Balances, BalanceOf, Registered
  <2> QED BY <2>1 DEF B!bookVars
<1>2. CASE BettingEnds
  <2>1. Orders' = Orders /\ Balances' = Balances /\ Outcome' = Outcome
    BY <1>2 DEF BettingEnds, Outcome, Orders, Balances, BalanceOf, Registered
  <2>2. Stage["table"] = "betting" /\ Stage' = [Stage EXCEPT !["table"] = "sealed"]
    BY <1>2 DEF BettingEnds, Stage
  <2>3. B!Advance("table")
    <3>1. "sealed" \in B!State
      BY DEF B!State
    <3> QED BY <2>1, <2>2, <3>1 DEF B!Advance
  <2> QED BY <2>3 DEF B!Next
<1>3. ASSUME NEW c \in Call, Accept(c) PROVE [B!Next]_(B!bookVars)
  <2>1. PICK k \in Key :
          /\ betting /\ betting' = betting /\ booked[k] = NoAnswer
          /\ BalanceOf(Request[k].user) >= Request[k].stake
          /\ Orders' = [Orders EXCEPT ![k].bill = "pending"]
          /\ Balances' = [Balances EXCEPT ![Request[k].user] = @ - Request[k].stake]
    BY <1>3, AcceptBooks
  <2>2. /\ Wanted[k].user = Request[k].user /\ Wanted[k].round = "table"
        /\ Wanted[k].amount = Request[k].stake
        /\ \A q \in Key : Wanted[q].play = "tie"
        /\ Request[k].user \in User
    BY PlaceBetAssumption DEF Wanted
  <2>3. Stage["table"] = "betting" /\ Stage' = Stage /\ Outcome' = Outcome
    BY <2>1 DEF Stage, Outcome
  <2>4. Orders[k] = B!NoOrder /\ Balances[Request[k].user] >= Request[k].stake
    BY <2>1, <2>2 DEF Orders, B!NoOrder, Balances
  <2>5. B!Rivals(k, Orders) = {}
    BY <2>2 DEF B!Rivals, B!Conflicting
  <2>6. B!Place(k)
    <3> HIDE DEF Wanted, Stage, Outcome, Orders, Balances
    <3> QED BY <2>1, <2>2, <2>3, <2>4, <2>5 DEF B!Place
  <2> QED BY <2>6 DEF B!Next
<1> QED BY <1>1, <1>2, <1>3, WhoBooks

\* Behind Redis, with its locks and answers lost, repeated or expired, the calls do to
\* money and orders what the book allows: each key is placed at most once, while the
\* round takes bets, by a customer who has the stake. Table is shown to keep the same
\* book, which is what lets PlaceBet take the transaction as one step.
THEOREM PlaceBetKeepsTheBook == Spec => KeepsTheBook
<1>1. Init => /\ Stage["table"] = "betting" /\ Orders = [k \in Key |-> B!NoOrder]
              /\ Balances = [u \in User |-> FundsOf(u)]
  BY DEF Init, Stage, Orders, B!NoOrder, Balances, BalanceOf, Registered, FundsOf
<1>2. IInv /\ [Next]_vars => [B!Next]_(B!bookVars)
  BY PlaceBetStepInBook
<1> QED BY <1>1, <1>2, PlaceBetInvariant, PTL DEF Spec, KeepsTheBook

\* Nobody is registered by a bet: a new customer has no money, every stake is positive,
\* and so the transaction that registers is rolled back.
RegistersNobody == Registered = DOMAIN Funds

\* The customers are those of the start, whatever is asked in the name of others.
THEOREM PlaceBetRegistersNobody == Spec => []RegistersNobody
<1>1. Init => RegistersNobody
  BY DEF Init, RegistersNobody, Registered
<1>2. IInv /\ RegistersNobody /\ [Next]_vars => RegistersNobody'
  <2> SUFFICES ASSUME IInv, RegistersNobody, [Next]_vars PROVE Registered' = Registered
    BY DEF RegistersNobody
  <2>1. CASE UNCHANGED dbVars \/ BettingEnds
    BY <2>1 DEF dbVars, BettingEnds, Registered
  <2> QED BY <2>1, AcceptBooks, WhoBooks
<1> QED BY <1>1, <1>2, PlaceBetInvariant, PTL DEF Spec
===============================================================================
