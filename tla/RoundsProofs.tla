----------------------------- MODULE RoundsProofs -----------------------------
(***************************************************************************)
(* Proofs about Rounds, for any number of rounds, calls and bets.  The     *)
(* argument: a call acts on what it read under its row's lock (Locking),   *)
(* so the row it read is the row it replaces; the records of the round     *)
(* then move together, and what a call does after its commit rests on      *)
(* facts that no later call takes back (AfterCommit).                      *)
(***************************************************************************)
EXTENDS Rounds, SequenceTheorems, TLAPS

\* The facts about the locks: when call s holds its row's lock, where it then is in
\* its transaction, and what it knows about the row that nobody else can change.
LockingOf(s) ==
  LET c == staff[s]
  IN /\ c.pc # "idle" => c.rid \in Round /\ c.op # "none" /\ c.reply = "none"
     /\ c.pc \in {"ensure", "insert"} => c.op = "game_start"
     /\ c.pc = "settle" => c.op = "drawresult"
     /\ c.op = "drawresult" => c.card \in Result
     /\ c.pc \in {"settle", "commit"} => rowLock[c.rid] = s
     /\ \A r \in Round :
          rowLock[r] = s => c.rid = r /\ c.pc \in {"lock", "settle", "commit"}
     /\ c.pc = "commit" /\ c.op \in Event =>
          c.prev = Seen(s).status /\ Allowed(Seen(s), c.op)
     /\ c.pc \in {"settle", "commit"} /\ c.op = "drawresult" => CanSettle(round[c.rid])

Locking == \A s \in Staff : LockingOf(s)

\* What a call may rely on between its commit and its write to Redis.
AfterCommitOf(s) ==
  LET c == staff[s]
  IN c.pc = "cache" =>
       /\ round[c.rid] # NoRow
       /\ c.op = "drawresult" => round[c.rid].settled /\ round[c.rid].result = c.card
       /\ c.op # "drawresult" =>
            \E i \in 1..Len(audit[c.rid]) : audit[c.rid][i][2] = c.op

AfterCommit == \A s \in Staff : AfterCommitOf(s)

\* The row is never committed in state init: its first event commits with it.
NoInit == \A r \in Round : round[r].status # "init"

\* The records of a round, which only a commit changes.
Records ==
  /\ NoInit
  /\ SettledTogether
  /\ AuditIsThePath
  /\ MessagesFollowTheRound

IInv ==
  /\ TypeOK
  /\ Locking
  /\ Records
  /\ CacheHoldsCommittedData
  /\ AfterCommit

-------------------------------------------------------------------------------
(* Steps that leave the records alone *)

\* Records and caches that nobody writes keep their invariants.
LEMMA RecordsKept == Records /\ UNCHANGED dbVars => Records'
<1> SUFFICES ASSUME Records, UNCHANGED dbVars PROVE Records'
  OBVIOUS
<1>1. round' = round /\ slog' = slog /\ audit' = audit /\ outbox' = outbox
  BY DEF dbVars
<1>2. NoInit' /\ SettledTogether'
  BY <1>1 DEF Records, NoInit, SettledTogether
<1>3. AuditIsThePath'
  BY <1>1 DEF Records, AuditIsThePath
<1>4. MessagesFollowTheRound'
  BY <1>1 DEF Records, MessagesFollowTheRound
<1> QED BY <1>2, <1>3, <1>4 DEF Records

\* The caches hold what was committed as long as neither they nor the rows change.
LEMMA CachesKept ==
  CacheHoldsCommittedData /\ UNCHANGED <<dbVars, cacheVars>> => CacheHoldsCommittedData'
  BY DEF CacheHoldsCommittedData, dbVars, cacheVars

\* A call that takes no part in a step keeps what it knows, provided the step leaves
\* it its locks and changes no more than the window of the rows it has locked.
LEMMA LockingKept ==
  ASSUME TypeOK, NEW t \in Staff, LockingOf(t),
         staff'[t] = staff[t],
         \A r \in Round : (rowLock'[r] = t) <=> (rowLock[r] = t),
         \A r \in Round : rowLock[r] = t =>
           /\ round'[r].status = round[r].status
           /\ round'[r].result = round[r].result
           /\ round'[r].settled = round[r].settled
           /\ (round'[r] = NoRow) <=> (round[r] = NoRow)
  PROVE  LockingOf(t)'
<1> DEFINE c == staff[t]
<1>1. CASE c.pc \notin {"settle", "commit"}
  BY <1>1 DEF LockingOf
<1>2. CASE c.pc \in {"settle", "commit"}
  <2>1. c.rid \in Round /\ rowLock[c.rid] = t /\ rowLock'[c.rid] = t
    BY <1>2 DEF LockingOf
  <2>2. /\ round'[c.rid].status = round[c.rid].status
        /\ round'[c.rid].result = round[c.rid].result
        /\ round'[c.rid].settled = round[c.rid].settled
        /\ (round'[c.rid] = NoRow) <=> (round[c.rid] = NoRow)
    BY <2>1
  <2>3. /\ Seen(t)'.status = Seen(t).status
        /\ Seen(t)'.result = Seen(t).result
    BY <2>1, <2>2 DEF Seen
  <2>4. c.op \in Event /\ Allowed(Seen(t), c.op) => Allowed(Seen(t)', c.op)
    BY <2>3 DEF Allowed
  <2>5. CanSettle(round[c.rid]) => CanSettle(round'[c.rid])
    BY <2>2 DEF CanSettle
  <2> QED BY <1>2, <2>1, <2>3, <2>4, <2>5 DEF LockingOf
<1> QED BY <1>1, <1>2

\* A call between its commit and its cache write keeps what it relies on, provided
\* rows stay, results stand and audit entries keep their places.
LEMMA AfterCommitKept ==
  ASSUME TypeOK, NEW t \in Staff, LockingOf(t), AfterCommitOf(t),
         staff'[t] = staff[t],
         \A r \in Round : round[r] # NoRow => round'[r] # NoRow,
         \A r \in Round : round[r].settled =>
           round'[r].settled /\ round'[r].result = round[r].result,
         \A r \in Round : \A i \in 1..Len(audit[r]) :
           i \in 1..Len(audit'[r]) /\ audit'[r][i] = audit[r][i]
  PROVE  AfterCommitOf(t)'
<1> DEFINE c == staff[t]
<1>1. CASE c.pc = "cache"
  <2>1. c.rid \in Round
    BY <1>1 DEF LockingOf
  <2>2. round[c.rid] # NoRow
    BY <1>1 DEF AfterCommitOf
  <2>3. CASE c.op = "drawresult"
    BY <1>1, <2>1, <2>2, <2>3 DEF AfterCommitOf
  <2>4. CASE c.op # "drawresult"
    <3>1. PICK i \in 1..Len(audit[c.rid]) : audit[c.rid][i][2] = c.op
      BY <1>1, <2>4 DEF AfterCommitOf
    <3>2. i \in 1..Len(audit'[c.rid]) /\ audit'[c.rid][i][2] = c.op
      BY <3>1, <2>1
    <3> QED BY <1>1, <2>1, <2>2, <2>4, <3>2 DEF AfterCommitOf
  <2> QED BY <2>3, <2>4
<1>2. CASE c.pc # "cache"
  BY <1>2 DEF AfterCommitOf
<1> QED BY <1>1, <1>2

\* A step of call s alone that writes no record keeps the invariant, if the other
\* calls keep their locks, s itself keeps to its discipline and is not about to write
\* to Redis, and the caches are sound.
LEMMA StepOfOneCall ==
  ASSUME IInv, NEW s \in Staff, TypeOK', UNCHANGED dbVars,
         \A t \in Staff \ {s} : staff'[t] = staff[t],
         \A t \in Staff \ {s} : \A r \in Round : (rowLock'[r] = t) <=> (rowLock[r] = t),
         staff'[s].pc # "cache", LockingOf(s)', CacheHoldsCommittedData'
  PROVE  IInv'
<1>1. round' = round /\ audit' = audit
  BY DEF dbVars
<1>2. ASSUME NEW t \in Staff PROVE LockingOf(t)' /\ AfterCommitOf(t)'
  <2>1. CASE t = s
    BY <2>1 DEF AfterCommitOf
  <2>2. CASE t # s
    <3>1. LockingOf(t)'
      BY <2>2, <1>1, LockingKept DEF IInv, Locking
    <3>2. AfterCommitOf(t)'
      BY <2>2, <1>1, AfterCommitKept DEF IInv, Locking, AfterCommit
    <3> QED BY <3>1, <3>2
  <2> QED BY <2>1, <2>2
<1> QED BY <1>2, RecordsKept DEF IInv, Locking, AfterCommit

-------------------------------------------------------------------------------
(* One lemma for each shape of step *)

\* The invariant holds of an empty database.
LEMMA InitIInv == Init => IInv
<1> SUFFICES ASSUME Init PROVE IInv
  OBVIOUS
<1>1. TypeOK
  BY RoundsAssumption DEF Init, TypeOK, Row, NoRow, Call, NoCall, ResultOrNone
<1>2. Locking
  BY RoundsAssumption DEF Init, Locking, LockingOf, NoCall
<1>3. Records
  <2>1. NoInit /\ SettledTogether
    <3>1. \A r \in Round : /\ round[r].status = "absent" /\ round[r].result = "none"
                           /\ ~ round[r].settled /\ slog[r] = "none"
      BY DEF Init, NoRow
    <3> QED BY <3>1 DEF NoInit, SettledTogether
  <2>2. AuditIsThePath
    BY DEF Init, AuditIsThePath, IsPath, NoRow
  <2>3. MessagesFollowTheRound
    BY DEF Init, MessagesFollowTheRound, Sent, NoRow
  <2> QED BY <2>1, <2>2, <2>3 DEF Records
<1>4. CacheHoldsCommittedData
  BY DEF Init, CacheHoldsCommittedData
<1>5. AfterCommit
  BY DEF Init, AfterCommit, AfterCommitOf, NoCall
<1> QED BY <1>1, <1>2, <1>3, <1>4, <1>5 DEF IInv

\* A call that starts, or goes on without touching its locks.
LEMMA CallStep ==
  ASSUME IInv, NEW s \in Staff, NEW c \in Call, staff' = [staff EXCEPT ![s] = c],
         staff[s].pc \in {"idle", "ensure"}, c.pc \in {"ensure", "insert", "lock"},
         c.rid \in Round, c.op # "none", c.reply = "none",
         c.pc \in {"ensure", "insert"} => c.op = "game_start",
         c.op = "drawresult" => c.card \in Result,
         UNCHANGED <<dbVars, cacheVars, rowLock>>
  PROVE  IInv'
<1>1. staff'[s] = c /\ \A t \in Staff \ {s} : staff'[t] = staff[t]
  BY DEF IInv, TypeOK
<1>2. TypeOK'
  BY DEF IInv, TypeOK, dbVars, cacheVars
<1>3. \A r \in Round : rowLock[r] # s
  BY DEF IInv, Locking, LockingOf
<1>4. LockingOf(s)'
  BY <1>1, <1>3 DEF LockingOf
<1>5. CacheHoldsCommittedData'
  BY CachesKept DEF IInv
<1> QED BY <1>1, <1>2, <1>4, <1>5, StepOfOneCall

\* A call that returns, its transaction rolled back.
LEMMA AnswerStep ==
  ASSUME IInv, NEW s \in Staff, NEW reply \in {"ok", "error"}, Answer(s, reply)
  PROVE  IInv'
<1>1. staff'[s] = [NoCall EXCEPT !.reply = reply] /\ \A t \in Staff \ {s} : staff'[t] = staff[t]
  BY DEF Answer, IInv, TypeOK
<1>2. \A r \in Round : rowLock'[r] = IF rowLock[r] = s THEN Null ELSE rowLock[r]
  BY DEF Answer, Unlocked
<1>3. TypeOK'
  BY DEF IInv, TypeOK, Answer, Unlocked, dbVars, cacheVars, NoCall, Call, ResultOrNone
<1>4. LockingOf(s)'
  BY <1>1, <1>2, RoundsAssumption DEF LockingOf, NoCall
<1>5. CacheHoldsCommittedData'
  BY CachesKept DEF IInv, Answer
<1>6. \A t \in Staff \ {s} : \A r \in Round : (rowLock'[r] = t) <=> (rowLock[r] = t)
  BY <1>2, RoundsAssumption
<1> QED BY <1>1, <1>3, <1>4, <1>5, <1>6, StepOfOneCall DEF Answer, NoCall

\* A call that takes its row's lock, or has it, and goes on.
LEMMA HoldStep ==
  ASSUME IInv, NEW s \in Staff, NEW prev \in State \cup {"none"},
         NEW pc \in {"lock", "settle", "commit"}, Hold(s, prev, pc),
         staff[s].pc # "idle", CanLock(s), LockingOf(s)'
  PROVE  IInv'
<1> DEFINE r == staff[s].rid
<1>1. r \in Round
  BY DEF IInv, Locking, LockingOf
<1>2. staff'[s].pc = pc /\ \A t \in Staff \ {s} : staff'[t] = staff[t]
  BY DEF Hold, IInv, TypeOK, Call
<1>3. \A q \in Round : rowLock'[q] = IF q = r THEN s ELSE rowLock[q]
  BY <1>1 DEF Hold, IInv, TypeOK
<1>4. TypeOK'
  <2> DEFINE c == [staff[s] EXCEPT !.prev = prev, !.pc = pc]
  <2>1. c \in Call
    BY ZenonT(60), SMTT(30) DEF IInv, TypeOK, Call
  <2>2. staff' = [staff EXCEPT ![s] = c]
    BY DEF Hold
  <2>3. staff' \in [Staff -> Call]
    BY <2>1, <2>2 DEF IInv, TypeOK
  <2> QED BY <2>3, <1>1 DEF IInv, TypeOK, Hold, dbVars, cacheVars
<1>5. CacheHoldsCommittedData'
  BY CachesKept DEF IInv, Hold
<1>6. \A t \in Staff \ {s} : \A q \in Round : (rowLock'[q] = t) <=> (rowLock[q] = t)
  BY <1>1, <1>3, RoundsAssumption DEF CanLock
<1> QED BY <1>2, <1>4, <1>5, <1>6, StepOfOneCall DEF Hold

\* A commit by the holder of the row's lock: its entry goes on from the row's status,
\* its row agrees with what it logs, writes and sends, and takes no result back.
LEMMA CommitStep ==
  ASSUME IInv, NEW s \in Staff, NEW r \in Round, r = staff[s].rid,
         staff[s].pc = "commit",
         NEW row \in Row, NEW entry \in AuditStep, NEW topics \in Seq(Topic),
         NEW logged \in ResultOrNone, Commit(s, row, entry, topics, logged),
         row.status \notin {"absent", "init"}, row.result = logged,
         row.settled <=> row.result # "none",
         row.settled <=> row.status \in {"settled", "finished"},
         entry[1] = IF audit[r] = << >> THEN "init" ELSE round[r].status,
         entry[3] = row.status,
         outbox[r] \o topics = Sent(row.status),
         round[r].settled => row.settled /\ row.result = round[r].result,
         staff[s].op = "drawresult" => row.settled /\ row.result = staff[s].card,
         staff[s].op # "drawresult" => entry[2] = staff[s].op
  PROVE  /\ IInv'
         /\ round' = [round EXCEPT ![r] = row]
         /\ audit' = [audit EXCEPT ![r] = Append(@, entry)]
<1> USE DEF AuditEntry
<1>1. /\ round' = [round EXCEPT ![r] = row]
      /\ audit' = [audit EXCEPT ![r] = Append(@, entry)]
      /\ outbox' = [outbox EXCEPT ![r] = @ \o topics]
      /\ slog' = [slog EXCEPT ![r] = logged]
      /\ rowLock' = Unlocked(s)
      /\ staff' = [staff EXCEPT ![s].pc = "cache"]
      /\ infoCache' = infoCache /\ resultCache' = resultCache
  BY DEF Commit, cacheVars
<1>2. AuditStep \subseteq AuditEntry
  BY DEF AuditStep, Transition, State, Event
<1>3. TypeOK'
  <2>1. staff' \in [Staff -> Call]
    <3> DEFINE c == [staff[s] EXCEPT !.pc = "cache"]
    <3>1. c \in Call
      BY ZenonT(60), SMTT(30) DEF IInv, TypeOK, Call
    <3>2. staff' = [staff EXCEPT ![s] = c]
      BY <1>1
    <3> QED BY <3>1, <3>2 DEF IInv, TypeOK
  <2>2. audit' \in [Round -> Seq(AuditEntry)]
    BY <1>1, <1>2 DEF IInv, TypeOK
  <2>3. outbox' \in [Round -> Seq(Topic)]
    <3> DEFINE old == outbox[r]
    <3>1. old \in Seq(Topic)
      BY DEF IInv, TypeOK
    <3>2. old \o topics \in Seq(Topic)
      <4> HIDE DEF old
      <4> QED BY <3>1
    <3> QED BY <1>1, <3>2 DEF IInv, TypeOK
  <2>4. rowLock' \in [Round -> Staff \cup Bettor \cup {Null}]
    BY <1>1 DEF IInv, TypeOK, Unlocked
  <2> QED BY <1>1, <2>1, <2>2, <2>3, <2>4 DEF IInv, TypeOK
<1>4. /\ staff'[s].pc = "cache" /\ staff'[s].rid = r
      /\ staff'[s].op = staff[s].op /\ staff'[s].card = staff[s].card
      /\ staff'[s].reply = staff[s].reply
      /\ \A t \in Staff \ {s} : staff'[t] = staff[t]
  BY <1>1 DEF IInv, TypeOK, Call
<1>5. \A q \in Round : rowLock'[q] = IF rowLock[q] = s THEN Null ELSE rowLock[q]
  BY <1>1 DEF Unlocked
<1>6. rowLock[r] = s
  BY DEF IInv, Locking, LockingOf
<1>7. round'[r] = row /\ \A q \in Round \ {r} : round'[q] = round[q]
  BY <1>1 DEF IInv, TypeOK
<1>8. row # NoRow
  BY DEF NoRow
<1>9. /\ audit'[r] = Append(audit[r], entry)
      /\ \A q \in Round \ {r} : audit'[q] = audit[q]
  BY <1>1 DEF IInv, TypeOK
<1>10. audit[r] \in Seq(AuditEntry) /\ entry \in AuditEntry
  BY <1>2 DEF IInv, TypeOK
<1>11. \A q \in Round : \A i \in 1..Len(audit[q]) :
         i \in 1..Len(audit'[q]) /\ audit'[q][i] = audit[q][i]
  <2>1. ASSUME NEW i \in 1..Len(audit[r])
        PROVE  i \in 1..Len(audit'[r]) /\ audit'[r][i] = audit[r][i]
    <3> DEFINE old == audit[r]
    <3>1. old \in Seq(AuditEntry) /\ i \in 1..Len(old) /\ audit'[r] = Append(old, entry)
      BY <1>9, <1>10
    <3> HIDE DEF old
    <3>2. i \in 1..Len(audit'[r]) /\ audit'[r][i] = old[i]
      BY <3>1, <1>10
    <3> QED BY <3>2 DEF old
  <2> QED BY <2>1, <1>9
<1>12. Locking'
  <2>1. LockingOf(s)'
    <3>1. \A q \in Round : rowLock'[q] # s
      BY <1>5, RoundsAssumption
    <3>2. /\ staff[s].op # "none" /\ staff[s].reply = "none"
          /\ staff[s].op = "drawresult" => staff[s].card \in Result
      BY DEF IInv, Locking, LockingOf
    <3> QED BY <1>4, <3>1, <3>2 DEF LockingOf
  <2>2. ASSUME NEW t \in Staff \ {s} PROVE LockingOf(t)'
    <3>1. \A q \in Round : (rowLock'[q] = t) <=> (rowLock[q] = t)
      BY <1>5, RoundsAssumption
    <3>2. \A q \in Round : rowLock[q] = t => round'[q] = round[q]
      BY <1>6, <1>7
    <3> QED BY <3>1, <3>2, <1>4, LockingKept DEF IInv, Locking
  <2> QED BY <2>1, <2>2 DEF Locking
<1>13. Records'
  <2>1. NoInit' /\ SettledTogether'
    BY <1>1, <1>7 DEF IInv, TypeOK, Records, NoInit, SettledTogether
  <2>2. AuditIsThePath'
    <3> SUFFICES ASSUME NEW q \in Round PROVE IsPath(audit'[q], round'[q].status)
      BY DEF AuditIsThePath
    <3>1. CASE q # r
      BY <3>1, <1>7, <1>9 DEF IInv, Records, AuditIsThePath
    <3>2. CASE q = r
      <4> DEFINE old == audit[r]
                 path == audit'[r]
      <4>1. /\ old \in Seq(AuditEntry) /\ Len(old) \in Nat
            /\ path \in Seq(AuditEntry) /\ Len(path) = Len(old) + 1
            /\ \A i \in 1..Len(old) : path[i] = old[i]
            /\ path[Len(path)] = entry
            /\ path # << >>
        BY SMTT(30), <1>9, <1>10
      <4>2. /\ \A i \in 1..Len(old) : old[i] \in AuditStep
            /\ \A i \in 1..Len(old) - 1 : old[i][3] = old[i + 1][1]
            /\ old # << >> => old[1][1] = "init" /\ old[Len(old)][3] = round[r].status
        BY DEF IInv, Records, AuditIsThePath, IsPath
      <4> HIDE DEF old, path
      <4>3. old = << >> <=> Len(old) = 0
        BY <4>1
      <4>4. \A i \in 1..Len(path) : path[i] \in AuditStep
        BY <4>1, <4>2
      <4>5. ASSUME NEW i \in 1..Len(path) - 1 PROVE path[i][3] = path[i + 1][1]
        <5>1. CASE i < Len(old)
          <6>1. i \in 1..Len(old) - 1 /\ i \in 1..Len(old) /\ i + 1 \in 1..Len(old)
            BY <5>1, <4>1
          <6>2. path[i] = old[i] /\ path[i + 1] = old[i + 1]
            BY <6>1, <4>1
          <6> QED BY <6>1, <6>2, <4>2
        <5>2. CASE i = Len(old)
          <6>1. path[i] = old[Len(old)] /\ path[i + 1] = entry /\ Len(old) # 0
            BY <5>2, <4>1
          <6> QED BY <6>1, <4>2, <4>3 DEF old
        <5> QED BY <5>1, <5>2, <4>1
      <4>6. path[1][1] = "init"
        <5>1. CASE Len(old) = 0
          BY <5>1, <4>1, <4>3 DEF old
        <5>2. CASE Len(old) # 0
          <6>1. 1 \in 1..Len(old)
            BY <5>2, <4>1
          <6> QED BY <5>2, <6>1, <4>1, <4>2, <4>3
        <5> QED BY <5>1, <5>2
      <4>7. path[Len(path)][3] = round'[r].status
        BY <4>1, <1>7
      <4> QED BY <3>2, <4>1, <4>4, <4>5, <4>6, <4>7 DEF path, IsPath
    <3> QED BY <3>1, <3>2
  <2>3. MessagesFollowTheRound'
    BY <1>1, <1>7 DEF IInv, TypeOK, Records, MessagesFollowTheRound
  <2> QED BY <2>1, <2>2, <2>3 DEF Records
<1>14. CacheHoldsCommittedData'
  BY <1>1, <1>7, <1>8 DEF IInv, CacheHoldsCommittedData
<1>15. AfterCommit'
  <2>1. AfterCommitOf(s)'
    <3>1. audit'[r][Len(audit'[r])] = entry /\ Len(audit'[r]) \in 1..Len(audit'[r])
      BY <1>9, <1>10
    <3>2. staff[s].op # "drawresult" =>
            \E i \in 1..Len(audit'[r]) : audit'[r][i][2] = staff[s].op
      BY <3>1
    <3> QED BY <3>2, <1>4, <1>7, <1>8 DEF AfterCommitOf
  <2>2. ASSUME NEW t \in Staff \ {s} PROVE AfterCommitOf(t)'
    <3>1. /\ \A q \in Round : round[q] # NoRow => round'[q] # NoRow
          /\ \A q \in Round : round[q].settled =>
               round'[q].settled /\ round'[q].result = round[q].result
      BY <1>7, <1>8
    <3> QED BY <3>1, <1>4, <1>11, AfterCommitKept DEF IInv, Locking, AfterCommit
  <2> QED BY <2>1, <2>2 DEF AfterCommit
<1> QED BY <1>1, <1>3, <1>12, <1>13, <1>14, <1>15 DEF IInv

-------------------------------------------------------------------------------
(* The steps, one by one *)

\* A call that begins, and its look for the round's row, keep the invariant.
LEMMA CallsKeepIInv ==
  ASSUME IInv, NEW s \in Staff, NEW r \in Round
  PROVE  /\ \A op \in Event : CallEvent(s, op, r) => IInv'
         /\ \A card \in Result : CallDraw(s, card, r) => IInv'
         /\ EnsureCount(s) => IInv'
<1>1. ASSUME NEW op \in Event, CallEvent(s, op, r) PROVE IInv'
  <2> DEFINE c == [NoCall EXCEPT !.pc = IF op = "game_start" THEN "ensure" ELSE "lock",
                                 !.op = op, !.rid = r]
  <2>1. c \in Call
    BY DEF NoCall, Call, Op, Event, ResultOrNone
  <2>2. /\ c.pc = IF op = "game_start" THEN "ensure" ELSE "lock"
        /\ c.op = op /\ c.rid = r /\ c.reply = "none"
    BY DEF NoCall
  <2>3. /\ staff' = [staff EXCEPT ![s] = c] /\ staff[s].pc = "idle"
        /\ UNCHANGED <<dbVars, cacheVars, rowLock>>
    BY <1>1 DEF CallEvent
  <2>4. op # "none" /\ op # "drawresult"
    BY DEF Event
  <2> HIDE DEF c
  <2> QED BY <2>1, <2>2, <2>3, <2>4, CallStep
<1>2. ASSUME NEW card \in Result, CallDraw(s, card, r) PROVE IInv'
  <2> DEFINE c == [NoCall EXCEPT !.pc = "lock", !.op = "drawresult", !.rid = r, !.card = card]
  <2>1. c \in Call
    BY DEF NoCall, Call, Op, ResultOrNone
  <2>2. c.pc = "lock" /\ c.op = "drawresult" /\ c.rid = r /\ c.reply = "none" /\ c.card = card
    BY DEF NoCall
  <2>3. /\ staff' = [staff EXCEPT ![s] = c] /\ staff[s].pc = "idle"
        /\ UNCHANGED <<dbVars, cacheVars, rowLock>>
    BY <1>2 DEF CallDraw
  <2> HIDE DEF c
  <2> QED BY <2>1, <2>2, <2>3, CallStep
<1>3. ASSUME EnsureCount(s) PROVE IInv'
  <2> DEFINE c == [staff[s] EXCEPT !.pc =
                     IF round[staff[s].rid] = NoRow THEN "insert" ELSE "lock"]
  <2>1. c \in Call
    <3>1. staff[s] \in Call
      BY DEF IInv, TypeOK
    <3>2. \A old \in Call : /\ [old EXCEPT !.pc = "insert"] \in Call
                            /\ [old EXCEPT !.pc = "lock"] \in Call
      BY DEF Call
    <3>3. c = [staff[s] EXCEPT !.pc = "insert"] \/ c = [staff[s] EXCEPT !.pc = "lock"]
      OBVIOUS
    <3> HIDE DEF c
    <3> QED BY <3>1, <3>2, <3>3, Zenon
  <2>2. /\ staff[s].rid \in Round /\ staff[s].op = "game_start" /\ staff[s].reply = "none"
        /\ staff[s].pc = "ensure"
    BY <1>3 DEF EnsureCount, IInv, Locking, LockingOf
  <2>3. c.pc \in {"insert", "lock"} /\ c.op = staff[s].op /\ c.rid = staff[s].rid
          /\ c.reply = staff[s].reply
    BY DEF IInv, TypeOK, Call
  <2>4. staff' = [staff EXCEPT ![s] = c] /\ UNCHANGED <<dbVars, cacheVars, rowLock>>
    BY <1>3 DEF EnsureCount
  <2> HIDE DEF c
  <2> QED BY <2>1, <2>2, <2>3, <2>4, CallStep
<1> QED BY <1>1, <1>2, <1>3

\* Everything a locked call must know, from the fields Hold gives it.
LEMMA HoldEffect ==
  ASSUME IInv, NEW s \in Staff, NEW prev \in State \cup {"none"},
         NEW pc \in {"lock", "settle", "commit"}, Hold(s, prev, pc), staff[s].pc # "idle"
  PROVE  /\ staff[s].rid \in Round
         /\ staff'[s].pc = pc /\ staff'[s].prev = prev
         /\ staff'[s].rid = staff[s].rid /\ staff'[s].op = staff[s].op
         /\ staff'[s].card = staff[s].card /\ staff'[s].reply = staff[s].reply
         /\ \A r \in Round : rowLock'[r] = IF r = staff[s].rid THEN s ELSE rowLock[r]
         /\ round' = round
BY DEF Hold, IInv, TypeOK, Call, Locking, LockingOf, dbVars

\* The steps that ask for a row's lock keep the invariant.
LEMMA WantsLockKeepsIInv ==
  ASSUME IInv, NEW s \in Staff, WantsLock(s)
  PROVE  IInv'
<1>1. CASE EnsureInsert(s)
  <2>1. /\ Hold(s, "none", "lock") /\ staff[s].pc = "insert" /\ CanLock(s)
        /\ staff[s].op = "game_start" /\ staff[s].reply = "none"
        /\ \A r \in Round : rowLock[r] # s
    BY <1>1 DEF EnsureInsert, IInv, Locking, LockingOf
  <2>2. LockingOf(s)'
    BY <2>1, HoldEffect DEF LockingOf
  <2> QED BY <2>1, <2>2, HoldStep
<1>2. CASE EnsureDuplicate(s)
  BY <1>2, AnswerStep DEF EnsureDuplicate
<1>3. CASE LockForEvent(s)
  <2> DEFINE prev == Seen(s).status
  <2>1. /\ Hold(s, prev, "commit") /\ staff[s].pc = "lock" /\ staff[s].op \in Event
        /\ CanLock(s) /\ Allowed(Seen(s), staff[s].op)
        /\ staff[s].op # "none" /\ staff[s].op # "drawresult" /\ staff[s].reply = "none"
        /\ \A r \in Round : rowLock[r] = s => staff[s].rid = r
    BY <1>3 DEF LockForEvent, IInv, Locking, LockingOf, Event
  <2>2. prev \in State
    BY <2>1 DEF Allowed, Transition, State
  <2>3. /\ Seen(s)'.status = Seen(s).status
        /\ Seen(s)'.result = Seen(s).result
    <3>1. /\ staff'[s].rid = staff[s].rid /\ round' = round /\ staff[s].rid \in Round
          /\ rowLock'[staff[s].rid] = s
      BY <2>1, <2>2, HoldEffect
    <3>2. CASE round[staff[s].rid] # NoRow
      BY <3>1, <3>2 DEF Seen
    <3>3. CASE round[staff[s].rid] = NoRow
      <4>1. rowLock[staff[s].rid] = s
        BY <2>1, <3>3 DEF Seen, NoRow, Allowed, Transition
      <4> QED BY <3>1, <3>3, <4>1 DEF Seen
    <3> QED BY <3>2, <3>3
  <2>4. Allowed(Seen(s), staff[s].op) => Allowed(Seen(s)', staff[s].op)
    BY <2>3 DEF Allowed
  <2> HIDE DEF prev
  <2>5. LockingOf(s)'
    <3>1. staff'[s].prev = Seen(s)'.status
      BY <2>1, <2>2, <2>3, HoldEffect DEF prev
    <3>2. Allowed(Seen(s)', staff'[s].op)
      BY <2>1, <2>2, <2>4, HoldEffect
    <3> QED BY <2>1, <2>2, <3>1, <3>2, HoldEffect DEF LockingOf
  <2> QED BY <2>1, <2>2, <2>5, HoldStep
<1>4. CASE RefuseEvent(s)
  BY <1>4, AnswerStep DEF RefuseEvent
<1>5. CASE LockForDraw(s)
  <2> DEFINE prev == Seen(s).status
  <2>1. /\ Hold(s, prev, "settle") /\ staff[s].pc = "lock" /\ staff[s].op = "drawresult"
        /\ CanLock(s) /\ CanSettle(Seen(s))
        /\ staff[s].card \in Result /\ staff[s].reply = "none"
        /\ \A r \in Round : rowLock[r] = s => staff[s].rid = r
    BY <1>5 DEF LockForDraw, IInv, Locking, LockingOf
  <2>2. prev \in State
    BY <2>1 DEF CanSettle, State
  <2>3. Seen(s) = round[staff[s].rid]
    BY <2>1 DEF Seen, CanSettle, NewRow, NoRow
  <2> HIDE DEF prev
  <2>4. LockingOf(s)'
    <3>1. CanSettle(round'[staff'[s].rid])
      BY <2>1, <2>2, <2>3, HoldEffect
    <3> QED BY <2>1, <2>2, <3>1, HoldEffect DEF LockingOf, Event
  <2> QED BY <2>1, <2>2, <2>4, HoldStep
<1>6. CASE AnswerDraw(s)
  BY <1>6, AnswerStep DEF AnswerDraw
<1> QED BY <1>1, <1>2, <1>3, <1>4, <1>5, <1>6 DEF WantsLock

\* An empty trail belongs to a missing row, and a trail never ends in "absent".
LEMMA TrailOfNoRow ==
  ASSUME NEW path \in Seq(AuditEntry), NEW status, IsPath(path, status)
  PROVE  path = << >> <=> status = "absent"
<1>1. CASE path # << >>
  <2>1. Len(path) \in 1..Len(path)
    BY <1>1
  <2>2. path[Len(path)] \in AuditStep
    BY <2>1 DEF IsPath
  <2> QED BY <1>1, <2>2 DEF IsPath, AuditStep, Transition
<1> QED BY <1>1 DEF IsPath

\* One message more.
LEMMA OneMore ==
  ASSUME NEW S, NEW s \in Seq(S), NEW e \in S, NEW t \in Seq(S), Len(t) = Len(s) + 1,
         \A i \in 1..Len(s) : t[i] = s[i], t[Len(s) + 1] = e
  PROVE  s \o <<e>> = t
<1> DEFINE u == s \o <<e>>
<1>1. u \in Seq(S) /\ Len(u) = Len(t)
  OBVIOUS
<1>2. ASSUME NEW i \in 1..Len(t) PROVE u[i] = t[i]
  <2>1. CASE i \in 1..Len(s)
    BY <2>1
  <2>2. CASE i = Len(s) + 1
    BY <2>2
  <2> QED BY <2>1, <2>2
<1> HIDE DEF u
<1>3. u = t
  BY <1>1, <1>2, SeqEqual
<1> QED BY <1>3 DEF u

\* What an event and a draw send takes the messages of one stage to those of the next.
LEMMA SentNext ==
  /\ \A edge \in Transition :
       Sent(IF edge[1] = "init" THEN "absent" ELSE edge[1]) \o EventTopics(edge[2])
         = IF edge[1] = "drawn" THEN <<"game_started", "game_draw_ready", "game_ended">>
           ELSE Sent(edge[3])
  /\ Sent("drawn") \o <<"game_drawn">> = Sent("settled")
<1>1. << >> \o <<"game_started">> = Sent("betting")
  BY DEF Sent
<1>2. <<"game_started">> \o << >> = <<"game_started">>
  OBVIOUS
<1>3. <<"game_started">> \o <<"game_draw_ready">>
        = <<"game_started", "game_draw_ready">>
  <2> DEFINE sent == <<"game_started">>
             next == <<"game_started", "game_draw_ready">>
  <2>1. /\ Len(next) = Len(sent) + 1 /\ next[Len(sent) + 1] = "game_draw_ready"
        /\ \A i \in 1..Len(sent) : next[i] = sent[i]
    OBVIOUS
  <2>2. sent \in Seq(Topic) /\ next \in Seq(Topic) /\ "game_draw_ready" \in Topic
    BY DEF Topic
  <2> HIDE DEF sent, next
  <2>3. sent \o <<"game_draw_ready">> = next
    BY <2>1, <2>2, OneMore
  <2> QED BY <2>3 DEF sent, next
<1>4. <<"game_started", "game_draw_ready">> \o <<"game_drawn">>
        = <<"game_started", "game_draw_ready", "game_drawn">>
  <2> DEFINE sent == <<"game_started", "game_draw_ready">>
             next == <<"game_started", "game_draw_ready", "game_drawn">>
  <2>1. /\ Len(next) = Len(sent) + 1 /\ next[Len(sent) + 1] = "game_drawn"
        /\ \A i \in 1..Len(sent) : next[i] = sent[i]
    OBVIOUS
  <2>2. sent \in Seq(Topic) /\ next \in Seq(Topic) /\ "game_drawn" \in Topic
    BY DEF Topic
  <2> HIDE DEF sent, next
  <2>3. sent \o <<"game_drawn">> = next
    BY <2>1, <2>2, OneMore
  <2> QED BY <2>3 DEF sent, next
<1>5. <<"game_started", "game_draw_ready">> \o <<"game_ended">>
        = <<"game_started", "game_draw_ready", "game_ended">>
  <2> DEFINE sent == <<"game_started", "game_draw_ready">>
             next == <<"game_started", "game_draw_ready", "game_ended">>
  <2>1. /\ Len(next) = Len(sent) + 1 /\ next[Len(sent) + 1] = "game_ended"
        /\ \A i \in 1..Len(sent) : next[i] = sent[i]
    OBVIOUS
  <2>2. sent \in Seq(Topic) /\ next \in Seq(Topic) /\ "game_ended" \in Topic
    BY DEF Topic
  <2> HIDE DEF sent, next
  <2>3. sent \o <<"game_ended">> = next
    BY <2>1, <2>2, OneMore
  <2> QED BY <2>3 DEF sent, next
<1>6. <<"game_started", "game_draw_ready", "game_drawn">> \o <<"game_ended">>
        = <<"game_started", "game_draw_ready", "game_drawn", "game_ended">>
  <2> DEFINE sent == <<"game_started", "game_draw_ready", "game_drawn">>
             next == <<"game_started", "game_draw_ready", "game_drawn", "game_ended">>
  <2>1. /\ Len(next) = Len(sent) + 1 /\ next[Len(sent) + 1] = "game_ended"
        /\ \A i \in 1..Len(sent) : next[i] = sent[i]
    OBVIOUS
  <2>2. sent \in Seq(Topic) /\ next \in Seq(Topic) /\ "game_ended" \in Topic
    BY DEF Topic
  <2> HIDE DEF sent, next
  <2>3. sent \o <<"game_ended">> = next
    BY <2>1, <2>2, OneMore
  <2> QED BY <2>3 DEF sent, next
<1> QED BY <1>1, <1>2, <1>3, <1>4, <1>5, <1>6 DEF Sent, EventTopics, Transition

\* An event's commit keeps the invariant, and moves its round along one transition.
LEMMA CommitEventStep ==
  ASSUME IInv, NEW s \in Staff, CommitEvent(s)
  PROVE  /\ IInv'
         /\ \E next \in State, row \in Row :
              /\ row.status = next /\ row.result = Seen(s).result
              /\ row.settled = Seen(s).settled
              /\ <<Seen(s).status, staff[s].op, next>> \in Transition
              /\ round' = [round EXCEPT ![staff[s].rid] = row]
<1> DEFINE r == staff[s].rid
           op == staff[s].op
<1>1. /\ staff[s].pc = "commit" /\ op \in Event /\ r \in Round
      /\ staff[s].prev = Seen(s).status /\ Allowed(Seen(s), op)
      /\ rowLock[r] = s
  BY DEF CommitEvent, IInv, Locking, LockingOf
<1>2. PICK next \in State :
        /\ <<Seen(s).status, op, next>> \in Transition
        /\ Commit(s, [Seen(s) EXCEPT !.status = next, !.window = EventWindow(op, @)],
                  <<Seen(s).status, op, next>>, EventTopics(op), slog[r])
  BY <1>1, Zenon DEF CommitEvent
<1> DEFINE seen == Seen(s)
           row == [seen EXCEPT !.status = next, !.window = EventWindow(op, @)]
           entry == <<seen.status, op, next>>
<1>3. seen \in Row
  BY <1>1 DEF Seen, NewRow, NoRow, Row, IInv, TypeOK, State, ResultOrNone
<1>4. /\ row \in Row /\ row.status = next
      /\ row.result = seen.result /\ row.settled = seen.settled
  BY <1>3 DEF Row, EventWindow
<1>5. /\ slog[r] = round[r].result
      /\ round[r].settled <=> round[r].result # "none"
      /\ round[r].settled <=> round[r].status \in {"settled", "finished"}
      /\ outbox[r] = Sent(round[r].status)
      /\ round[r].status # "init"
      /\ IsPath(audit[r], round[r].status) /\ audit[r] \in Seq(AuditEntry)
  BY <1>1 DEF IInv, TypeOK, Records, NoInit, SettledTogether, AuditIsThePath,
              MessagesFollowTheRound
<1>6. \/ round[r] = NoRow /\ seen = NewRow
      \/ round[r] # NoRow /\ seen = round[r]
  BY <1>1 DEF Seen
<1>7. /\ seen.result = round[r].result
      /\ seen.settled = round[r].settled
      /\ seen.status = IF round[r].status = "absent" THEN "init" ELSE round[r].status
  BY <1>2, <1>6 DEF NewRow, NoRow, Transition
<1>8. audit[r] = << >> <=> round[r].status = "absent"
  BY <1>5, TrailOfNoRow
<1> HIDE DEF seen
<1>9. entry \in AuditStep
  BY <1>2 DEF AuditStep, seen
<1>10. <<seen.status, op, next>> \in Transition /\ (op = "game_end" => seen.result # "none")
  BY <1>1, <1>2 DEF Allowed, seen
<1>11. next \notin {"absent", "init", "settled"}
  BY <1>10 DEF Transition
<1>12. row.settled <=> row.status \in {"settled", "finished"}
  BY <1>4, <1>5, <1>7, <1>10 DEF Transition
<1>13. outbox[r] \o EventTopics(op) = Sent(next)
  <2>1. seen.status # "drawn" \/ op # "game_end"
    BY <1>5, <1>7, <1>10
  <2>2. seen.status = "drawn" => next = "finished" /\ op = "game_end"
    BY <1>10 DEF Transition
  <2>3. round[r].status = IF seen.status = "init" THEN "absent" ELSE seen.status
    BY <1>5, <1>7
  <2> QED BY <2>1, <2>2, <2>3, <1>5, <1>10, SentNext
<1>14. EventTopics(op) \in Seq(Topic)
  <2>1. /\ <<"game_started">> \in Seq(Topic) /\ <<"game_draw_ready">> \in Seq(Topic)
        /\ <<"game_ended">> \in Seq(Topic) /\ << >> \in Seq(Topic)
    BY DEF Topic
  <2> QED BY <2>1 DEF EventTopics
<1>15. op # "drawresult"
  BY <1>1 DEF Event
<1>16. slog[r] \in ResultOrNone
  BY <1>1 DEF IInv, TypeOK
<1>17. entry[1] = IF audit[r] = << >> THEN "init" ELSE round[r].status
  BY <1>7, <1>8
<1>18. entry[2] = op /\ entry[3] = next
  OBVIOUS
<1>19. row.settled <=> row.result # "none"
  BY <1>4, <1>5, <1>7
<1>20. Commit(s, row, entry, EventTopics(op), slog[r])
  BY <1>2 DEF seen
<1> HIDE DEF row, entry
<1>21. IInv' /\ round' = [round EXCEPT ![r] = row]
  <2>1. round[r].settled => row.settled /\ row.result = round[r].result
    BY <1>4, <1>7
  <2>2. /\ row.result = slog[r] /\ row.status \notin {"absent", "init"}
        /\ outbox[r] \o EventTopics(op) = Sent(row.status)
        /\ entry[3] = row.status
    BY <1>4, <1>5, <1>7, <1>11, <1>13, <1>18
  <2>3. /\ op = "drawresult" => row.settled /\ row.result = staff[s].card
        /\ op # "drawresult" => entry[2] = op
    BY <1>15, <1>18
  <2>4. r \in Round /\ staff[s].pc = "commit" /\ row \in Row
    BY <1>1, <1>4
  <2>5. /\ row.settled <=> row.result # "none"
        /\ row.settled <=> row.status \in {"settled", "finished"}
    BY <1>12, <1>19
  <2> HIDE DEF op
  <2> QED BY ZenonT(60), <1>9, <1>14, <1>16, <1>17, <1>20, <2>1, <2>2, <2>3, <2>4, <2>5, CommitStep DEF op
<1> QED BY <1>21, <1>4, <1>10 DEF seen

\* A draw's commit keeps the invariant, and settles a round that was drawn, once.
LEMMA CommitDrawStep ==
  ASSUME IInv, NEW s \in Staff, CommitDraw(s)
  PROVE  /\ IInv'
         /\ \E row \in Row :
              /\ row.status = "settled" /\ row.settled /\ row.result = staff[s].card
              /\ round[staff[s].rid].status = "drawn" /\ ~ round[staff[s].rid].settled
              /\ round' = [round EXCEPT ![staff[s].rid] = row]
<1> DEFINE r == staff[s].rid
           card == staff[s].card
           row == [round[r] EXCEPT !.status = "settled", !.settled = TRUE, !.result = card]
           entry == <<"drawn", "game_draw", "settled">>
<1>1. /\ staff[s].pc = "commit" /\ staff[s].op = "drawresult" /\ r \in Round
      /\ card \in Result /\ rowLock[r] = s /\ CanSettle(round[r])
  BY DEF CommitDraw, IInv, Locking, LockingOf
<1>2. Commit(s, row, entry, <<"game_drawn">>, card)
  BY DEF CommitDraw
<1>3. /\ row \in Row /\ row.status = "settled" /\ row.settled /\ row.result = card
  <2>1. round[r] \in Row
    BY <1>1 DEF IInv, TypeOK
  <2> HIDE DEF r
  <2> QED BY <2>1, <1>1 DEF Row, State, ResultOrNone
<1>4. /\ outbox[r] = Sent(round[r].status)
      /\ IsPath(audit[r], round[r].status) /\ audit[r] \in Seq(AuditEntry)
      /\ round[r].status = "drawn" /\ ~ round[r].settled
  BY <1>1 DEF IInv, TypeOK, Records, AuditIsThePath, MessagesFollowTheRound, CanSettle
<1>5. audit[r] # << >>
  BY <1>4, TrailOfNoRow
<1>6. outbox[r] \o <<"game_drawn">> = Sent("settled")
  BY <1>4, SentNext
<1>7. entry \in AuditStep /\ <<"game_drawn">> \in Seq(Topic) /\ card \in ResultOrNone
  BY <1>1 DEF AuditStep, Topic, ResultOrNone
<1>8. entry[1] = "drawn" /\ entry[3] = "settled"
  OBVIOUS
<1>9. card # "none"
  BY <1>1 DEF Result
<1> HIDE DEF row, entry
<1>10. IInv' /\ round' = [round EXCEPT ![r] = row]
  <2>1. /\ row.status \notin {"absent", "init"}
        /\ row.settled <=> row.result # "none"
        /\ row.settled <=> row.status \in {"settled", "finished"}
        /\ entry[1] = IF audit[r] = << >> THEN "init" ELSE round[r].status
        /\ entry[3] = row.status
        /\ outbox[r] \o <<"game_drawn">> = Sent(row.status)
        /\ round[r].settled => row.settled /\ row.result = round[r].result
        /\ staff[s].op = "drawresult" => row.settled /\ row.result = card
        /\ staff[s].op # "drawresult" => entry[2] = staff[s].op
    BY <1>1, <1>3, <1>4, <1>5, <1>6, <1>8, <1>9
  <2> QED BY ZenonT(60), <1>1, <1>2, <1>3, <1>7, <2>1, CommitStep
<1> QED BY <1>10, <1>3, <1>4

\* After its commit a call writes to Redis what its commit has made true.
LEMMA CacheStep ==
  ASSUME IInv, NEW s \in Staff, CacheEvent(s) \/ CacheResult(s)
  PROVE  IInv'
<1> DEFINE r == staff[s].rid
<1>1. /\ staff[s].pc = "cache" /\ r \in Round
      /\ staff' = [staff EXCEPT ![s] = [NoCall EXCEPT !.reply = "ok"]]
      /\ UNCHANGED <<dbVars, rowLock>>
  BY DEF CacheEvent, CacheResult, IInv, Locking, LockingOf
<1>2. /\ round[r] # NoRow
      /\ staff[s].op = "drawresult" => round[r].settled /\ round[r].result = staff[s].card
  BY <1>1 DEF IInv, AfterCommit, AfterCommitOf
<1>3. staff'[s] = [NoCall EXCEPT !.reply = "ok"] /\ \A t \in Staff \ {s} : staff'[t] = staff[t]
  BY <1>1 DEF IInv, TypeOK
<1>4. /\ infoCache' \in [Round -> {"none", "betting"}]
      /\ \A q \in Round : infoCache'[q] # "none" => infoCache[q] # "none" \/ q = r
  BY ZenonT(60), <1>1 DEF CacheEvent, CacheResult, IInv, TypeOK, EventInfo
<1>5. /\ resultCache' \in [Round -> ResultOrNone]
      /\ \A q \in Round : resultCache'[q] # resultCache[q] =>
           q = r /\ staff[s].op = "drawresult" /\ resultCache'[q] = staff[s].card
  BY <1>1 DEF CacheEvent, CacheResult, IInv, TypeOK, Call
<1>6. TypeOK'
  <2>1. [NoCall EXCEPT !.reply = "ok"] \in Call
    BY DEF NoCall, Call, ResultOrNone
  <2> QED BY <1>1, <1>4, <1>5, <2>1 DEF IInv, TypeOK, dbVars
<1>7. CacheHoldsCommittedData'
  <2>1. round' = round
    BY <1>1 DEF dbVars
  <2> QED BY <2>1, <1>2, <1>4, <1>5 DEF IInv, CacheHoldsCommittedData
<1>8. LockingOf(s)'
  <2>1. \A q \in Round : rowLock[q] # s
    BY <1>1 DEF IInv, Locking, LockingOf
  <2> QED BY <2>1, <1>1, <1>3 DEF LockingOf, NoCall
<1> QED BY <1>1, <1>3, <1>6, <1>7, <1>8, StepOfOneCall DEF NoCall

\* The steps of a call that wait for no lock keep the invariant.
LEMMA ContinuesKeepsIInv ==
  ASSUME IInv, NEW s \in Staff, Continues(s)
  PROVE  IInv'
<1>1. CASE EnsureCount(s)
  <2>1. staff[s].rid \in Round
    BY <1>1 DEF EnsureCount, IInv, Locking, LockingOf
  <2> QED BY <1>1, <2>1, CallsKeepIInv
<1>2. CASE LogSettlement(s)
  <2>1. /\ staff[s].pc = "settle" /\ staff[s].rid \in Round /\ staff[s].op = "drawresult"
        /\ rowLock[staff[s].rid] = s /\ CanSettle(round[staff[s].rid])
        /\ staff[s].card \in Result /\ staff[s].reply = "none"
        /\ \A r \in Round : rowLock[r] = s => staff[s].rid = r
    BY <1>2 DEF LogSettlement, IInv, Locking, LockingOf
  <2>2. CASE Hold(s, staff[s].prev, "commit")
    <3>1. staff[s].prev \in State \cup {"none"}
      BY DEF IInv, TypeOK, Call
    <3>2. CanSettle(round'[staff'[s].rid])
      BY <2>1, <2>2, <3>1, HoldEffect
    <3>3. LockingOf(s)'
      BY <2>1, <2>2, <3>1, <3>2, HoldEffect DEF LockingOf, Event
    <3>4. CanLock(s)
      BY <2>1 DEF CanLock
    <3> QED BY <2>1, <2>2, <3>1, <3>3, <3>4, HoldStep
  <2>3. CASE Answer(s, "ok")
    BY <2>3, AnswerStep
  <2> QED BY <1>2, <2>2, <2>3 DEF LogSettlement
<1> QED BY <1>1, <1>2, CommitEventStep, CommitDrawStep, CacheStep DEF Continues

\* Failures, windows that pass, caches that expire and the bets' locks keep the invariant.
LEMMA EnvironmentKeepsIInv == IInv /\ Environment => IInv'
<1> SUFFICES ASSUME IInv, Environment PROVE IInv'
  OBVIOUS
<1>1. ASSUME NEW s \in Staff, Fail(s) PROVE IInv'
  BY <1>1, AnswerStep DEF Fail
<1>2. ASSUME NEW r \in Round, WindowPasses(r) PROVE IInv'
  <2> DEFINE row == [round[r] EXCEPT !.window = "past"]
  <2>1. /\ round[r].window = "open" /\ round' = [round EXCEPT ![r] = row]
        /\ UNCHANGED <<slog, audit, outbox, rowLock, infoCache, resultCache, staff>>
    BY <1>2 DEF WindowPasses, cacheVars
  <2>2. round[r] \in Row
    BY DEF IInv, TypeOK
  <2>3. /\ row \in Row /\ row.status = round[r].status /\ row.result = round[r].result
        /\ row.settled = round[r].settled /\ row # NoRow /\ round[r] # NoRow
    BY <2>1, <2>2 DEF Row, NoRow
  <2> HIDE DEF row
  <2>4. \A q \in Round :
          /\ round'[q].status = round[q].status /\ round'[q].result = round[q].result
          /\ round'[q].settled = round[q].settled
          /\ (round'[q] = NoRow) <=> (round[q] = NoRow)
    BY <2>1, <2>3 DEF IInv, TypeOK
  <2>5. TypeOK'
    BY <2>1, <2>3 DEF IInv, TypeOK
  <2>6. Records'
    BY <2>1, <2>4 DEF IInv, Records, NoInit, SettledTogether, AuditIsThePath,
                      MessagesFollowTheRound
  <2>7. CacheHoldsCommittedData'
    BY <2>1, <2>4 DEF IInv, CacheHoldsCommittedData
  <2>8. ASSUME NEW t \in Staff PROVE LockingOf(t)' /\ AfterCommitOf(t)'
    <3>1. LockingOf(t) /\ AfterCommitOf(t) /\ TypeOK
      BY DEF IInv, Locking, AfterCommit
    <3>2. LockingOf(t)'
      BY <2>1, <2>4, <3>1, LockingKept
    <3>3. AfterCommitOf(t)'
      BY <2>1, <2>4, <3>1, AfterCommitKept
    <3> QED BY <3>2, <3>3
  <2> QED BY <2>5, <2>6, <2>7, <2>8 DEF IInv, Locking, AfterCommit
<1>3. ASSUME UNCHANGED <<dbVars, staff>>, TypeOK', CacheHoldsCommittedData',
             \A t \in Staff : \A r \in Round : (rowLock'[r] = t) <=> (rowLock[r] = t)
      PROVE  IInv'
  <2>1. round' = round /\ audit' = audit /\ staff' = staff
    BY <1>3 DEF dbVars
  <2>2. ASSUME NEW t \in Staff PROVE LockingOf(t)' /\ AfterCommitOf(t)'
    <3>1. LockingOf(t) /\ AfterCommitOf(t) /\ TypeOK
      BY DEF IInv, Locking, AfterCommit
    <3>2. LockingOf(t)'
      BY <1>3, <2>1, <3>1, LockingKept
    <3>3. AfterCommitOf(t)'
      BY <2>1, <3>1, AfterCommitKept
    <3> QED BY <3>2, <3>3
  <2> QED BY <1>3, <2>2, RecordsKept DEF IInv, Locking, AfterCommit
<1>4. ASSUME NEW r \in Round, InfoExpires(r) \/ ResultExpires(r) PROVE IInv'
  <2>1. /\ UNCHANGED <<round, rowLock, staff>> /\ UNCHANGED <<dbVars, staff>>
        /\ infoCache' = infoCache \/ infoCache' = [infoCache EXCEPT ![r] = "none"]
        /\ resultCache' = resultCache \/ resultCache' = [resultCache EXCEPT ![r] = "none"]
    BY <1>4 DEF InfoExpires, ResultExpires, dbVars
  <2>2. TypeOK'
    BY <2>1 DEF IInv, TypeOK, dbVars, ResultOrNone
  <2>3. CacheHoldsCommittedData'
    BY <2>1 DEF IInv, TypeOK, CacheHoldsCommittedData
  <2> QED BY <2>1, <2>2, <2>3, <1>3
<1>5. ASSUME NEW b \in Bettor, NEW r \in Round, BetLocksRound(b, r) \/ BetUnlocksRound(b, r)
      PROVE  IInv'
  <2>1. /\ UNCHANGED <<dbVars, cacheVars, staff>> /\ UNCHANGED <<dbVars, staff>>
        /\ \/ rowLock[r] = Null /\ rowLock' = [rowLock EXCEPT ![r] = b]
           \/ rowLock[r] = b /\ rowLock' = [rowLock EXCEPT ![r] = Null]
    BY <1>5 DEF BetLocksRound, BetUnlocksRound
  <2>2. TypeOK'
    BY <2>1 DEF IInv, TypeOK, dbVars, cacheVars
  <2>3. \A t \in Staff : \A q \in Round : (rowLock'[q] = t) <=> (rowLock[q] = t)
    BY <2>1, RoundsAssumption DEF IInv, TypeOK
  <2> QED BY <2>1, <2>2, <2>3, <1>3, CachesKept DEF IInv
<1> QED BY <1>1, <1>2, <1>4, <1>5 DEF Environment

\* Every step, and a stutter, keeps the invariant.
LEMMA NextKeepsIInv == IInv /\ [Next]_roundsVars => IInv'
<1> SUFFICES ASSUME IInv, [Next]_roundsVars PROVE IInv'
  OBVIOUS
<1>1. CASE Next
  BY <1>1, CallsKeepIInv, WantsLockKeepsIInv, ContinuesKeepsIInv, EnvironmentKeepsIInv DEF Next
<1>2. CASE UNCHANGED roundsVars
  <2>1. /\ UNCHANGED <<dbVars, cacheVars, rowLock, staff>>
        /\ UNCHANGED <<round, slog, audit, outbox, infoCache, resultCache>>
    BY <1>2 DEF roundsVars, dbVars, cacheVars
  <2>2. TypeOK' /\ CacheHoldsCommittedData'
    BY <2>1 DEF IInv, TypeOK, CacheHoldsCommittedData
  <2>3. ASSUME NEW t \in Staff PROVE LockingOf(t)' /\ AfterCommitOf(t)'
    <3>1. LockingOf(t) /\ AfterCommitOf(t) /\ TypeOK
      BY DEF IInv, Locking, AfterCommit
    <3> QED BY <2>1, <3>1, LockingKept, AfterCommitKept
  <2> QED BY <2>1, <2>2, <2>3, RecordsKept DEF IInv, Locking, AfterCommit
<1> QED BY <1>1, <1>2

-------------------------------------------------------------------------------
(* The theorems *)

\* The invariant of the rounds holds in every state.
THEOREM RoundsInvariant == Spec => []IInv
  BY InitIInv, NextKeepsIInv, PTL DEF Spec

\* Every variable of the rounds keeps its type.
THEOREM RoundsTyped == Spec => []TypeOK
<1>1. IInv => TypeOK
  BY DEF IInv
<1> QED BY <1>1, RoundsInvariant, PTL

\* A draw writes is_settled, the result and the settlement log together, and no
\* round ends without them, however calls interleave and wherever they fail.
THEOREM RoundsSettledTogether == Spec => []SettledTogether
<1>1. IInv => SettledTogether
  BY DEF IInv, Records
<1> QED BY <1>1, RoundsInvariant, PTL

\* The audit trail of every round is a gapless path of the state machine to its status.
THEOREM RoundsAuditIsThePath == Spec => []AuditIsThePath
<1>1. IInv => AuditIsThePath
  BY DEF IInv, Records
<1> QED BY <1>1, RoundsInvariant, PTL

\* The outbox holds each stage's message once, in the order of the stages.
THEOREM RoundsMessagesFollowTheRound == Spec => []MessagesFollowTheRound
<1>1. IInv => MessagesFollowTheRound
  BY DEF IInv, Records
<1> QED BY <1>1, RoundsInvariant, PTL

\* Redis never holds a round or a result that MySQL has not committed.
THEOREM RoundsCacheHoldsCommittedData == Spec => []CacheHoldsCommittedData
<1>1. IInv => CacheHoldsCommittedData
  BY DEF IInv
<1> QED BY <1>1, RoundsInvariant, PTL

\* Only commits write records, and only they and the clock change a row.
LEMMA WhoWrites ==
  ASSUME [Next]_roundsVars
  PROVE  \/ UNCHANGED dbVars
         \/ \E s \in Staff : CommitEvent(s) \/ CommitDraw(s)
         \/ \E r \in Round : WindowPasses(r)
<1>1. CASE UNCHANGED roundsVars
  BY <1>1 DEF roundsVars
<1>2. ASSUME NEW s \in Staff, WantsLock(s) PROVE UNCHANGED dbVars
  BY <1>2 DEF WantsLock, EnsureInsert, EnsureDuplicate, LockForEvent, RefuseEvent,
              LockForDraw, AnswerDraw, Hold, Answer
<1>3. ASSUME NEW s \in Staff, Continues(s), ~ CommitEvent(s), ~ CommitDraw(s)
      PROVE  UNCHANGED dbVars
  BY <1>3 DEF Continues, EnsureCount, CacheEvent, CacheResult, LogSettlement, Hold, Answer
<1>4. ASSUME Environment, \A r \in Round : ~ WindowPasses(r) PROVE UNCHANGED dbVars
  BY <1>4 DEF Environment, Fail, Answer, InfoExpires, ResultExpires, BetLocksRound,
              BetUnlocksRound
<1>5. CASE Next
  BY <1>2, <1>3, <1>4, <1>5 DEF Next, CallEvent, CallDraw
<1> QED BY <1>1, <1>5

\* No step takes a round back or past a stage, or changes a result that is settled.
LEMMA ForwardStep ==
  ASSUME IInv, [Next]_roundsVars, NEW r \in Round
  PROVE  Forward(r)
<1> USE DEF Forward
<1>1. CASE UNCHANGED dbVars
  BY <1>1 DEF dbVars
<1>2. ASSUME NEW s \in Staff, CommitEvent(s) PROVE Forward(r)
  <2>1. PICK next \in State, row \in Row :
          /\ row.status = next /\ row.result = Seen(s).result
          /\ row.settled = Seen(s).settled
          /\ <<Seen(s).status, staff[s].op, next>> \in Transition
          /\ round' = [round EXCEPT ![staff[s].rid] = row]
    BY <1>2, CommitEventStep
  <2>2. /\ staff[s].pc = "commit" /\ staff[s].op \in Event /\ Allowed(Seen(s), staff[s].op)
    BY <1>2 DEF CommitEvent, IInv, Locking, LockingOf
  <2>3. CASE r # staff[s].rid
    BY <2>1, <2>3 DEF IInv, TypeOK
  <2>4. CASE r = staff[s].rid
    <3>1. round'[r] = row
      BY <2>1, <2>4 DEF IInv, TypeOK
    <3>2. CASE round[r] = NoRow
      <4>1. Seen(s) = NewRow \/ Seen(s) = NoRow
        BY <2>4, <3>2 DEF Seen
      <4>2. Seen(s).status = "init" /\ next = "betting"
        BY <4>1, <2>1 DEF NewRow, NoRow, Transition
      <4>3. ~ round[r].settled
        BY <3>2 DEF NoRow
      <4> QED BY <2>1, <3>1, <3>2, <4>2, <4>3 DEF Rank
    <3>3. CASE round[r] # NoRow
      <4>1. Seen(s) = round[r]
        BY <2>4, <3>3 DEF Seen
      <4>2. (round[r].settled <=> round[r].result # "none")
            /\ (round[r].settled <=> round[r].status \in {"settled", "finished"})
        BY DEF IInv, Records, SettledTogether
      <4>3. staff[s].op = "game_end" => round[r].result # "none"
        BY <2>2, <4>1 DEF Allowed
      <4>4. <<round[r].status, staff[s].op, row.status>> \in Transition
        BY <2>1, <4>1
      <4>5. Rank(row.status) = Rank(round[r].status) + 1
        BY <4>2, <4>3, <4>4 DEF Transition, Rank
      <4> QED BY <2>1, <3>1, <3>3, <4>1, <4>5
    <3> QED BY <3>2, <3>3
  <2> QED BY <2>3, <2>4
<1>3. ASSUME NEW s \in Staff, CommitDraw(s) PROVE Forward(r)
  <2>1. PICK row \in Row :
          /\ row.status = "settled" /\ row.settled /\ row.result = staff[s].card
          /\ round[staff[s].rid].status = "drawn" /\ ~ round[staff[s].rid].settled
          /\ round' = [round EXCEPT ![staff[s].rid] = row]
    BY <1>3, CommitDrawStep
  <2>2. CASE r # staff[s].rid
    BY <2>1, <2>2 DEF IInv, TypeOK
  <2>3. CASE r = staff[s].rid
    <3>1. round'[r] = row
      BY <2>1, <2>3 DEF IInv, TypeOK
    <3>2. round[r].status = "drawn" /\ ~ round[r].settled /\ round'[r].status = "settled"
          /\ round'[r].settled
      BY <2>1, <2>3, <3>1
    <3>3. Rank(round'[r].status) = Rank(round[r].status) + 1
      BY ONLY <3>2 DEF Rank
    <3> QED BY <3>2, <3>3
  <2> QED BY <2>2, <2>3
<1>4. ASSUME NEW q \in Round, WindowPasses(q) PROVE Forward(r)
  <2>1. round' = [round EXCEPT ![q] = [round[q] EXCEPT !.window = "past"]]
    BY <1>4 DEF WindowPasses
  <2>2. /\ round'[r].status = round[r].status /\ round'[r].result = round[r].result
        /\ round'[r].settled = round[r].settled
    BY <2>1 DEF IInv, TypeOK, Row
  <2> QED BY <2>2
<1> QED BY <1>1, <1>2, <1>3, <1>4, WhoWrites

\* A round goes forward one stage at a time and a settled result is never replaced.
THEOREM RoundsOneStageForward == Spec => OneStageForward
<1>1. IInv /\ [Next]_roundsVars => [\A r \in Round : Forward(r)]_roundsVars
  BY ForwardStep
<1> QED BY <1>1, RoundsInvariant, PTL DEF Spec, OneStageForward

\* No step answers with success what it has not committed.
LEMMA DurableStep ==
  ASSUME IInv, [Next]_roundsVars, NEW s \in Staff
  PROVE  Durable(s)
<1> SUFFICES ASSUME staff[s].pc # "idle", staff'[s].reply = "ok" PROVE Durable(s)
  BY DEF Durable
<1>1. staff[s].reply = "none" /\ staff[s].rid \in Round
  BY DEF IInv, Locking, LockingOf
<1>2. \/ Answer(s, "ok") /\ (AnswerDraw(s) \/ LogSettlement(s))
      \/ CacheEvent(s) \/ CacheResult(s)
  <2>1. staff'[s] # staff[s]
    BY <1>1
  <2>2. ASSUME NEW t \in Staff, WantsLock(t) \/ Continues(t) \/ Fail(t) PROVE t = s
    <3>1. CASE WantsLock(t)
      BY <2>1, <3>1 DEF WantsLock, EnsureInsert, EnsureDuplicate, LockForEvent,
         RefuseEvent, LockForDraw, AnswerDraw, Hold, Answer, IInv, TypeOK
    <3>2. CASE Continues(t) \/ Fail(t)
      BY <2>1, <3>2 DEF Continues, EnsureCount, CommitEvent, CacheEvent, LogSettlement,
         CommitDraw, CacheResult, Fail, Commit, Hold, Answer, IInv, TypeOK
    <3> QED BY <2>2, <3>1, <3>2
  <2>3. WantsLock(s) \/ Continues(s) \/ Fail(s)
    BY <1>1, <2>1, <2>2 DEF Next, Environment, CallEvent, CallDraw, WindowPasses,
       InfoExpires, ResultExpires, BetLocksRound, BetUnlocksRound, IInv, TypeOK, roundsVars
  <2>4. ASSUME NEW reply, Answer(s, reply) PROVE reply = "ok"
    BY <2>4 DEF Answer, IInv, TypeOK, NoCall
  <2>5. ASSUME NEW prev, NEW pc, Hold(s, prev, pc) PROVE FALSE
    BY <1>1, <2>5 DEF Hold, IInv, TypeOK, Call
  <2>6. ASSUME NEW row, NEW entry, NEW topics, NEW logged,
               Commit(s, row, entry, topics, logged)
        PROVE  FALSE
    BY <1>1, <2>6 DEF Commit, IInv, TypeOK, Call
  <2>7. ~ EnsureCount(s)
    BY <1>1 DEF EnsureCount, IInv, TypeOK, Call
  <2>8. CASE WantsLock(s)
    BY <2>8, <2>4, <2>5 DEF WantsLock, EnsureInsert, EnsureDuplicate, LockForEvent,
       RefuseEvent, LockForDraw, AnswerDraw
  <2>9. CASE Continues(s) \/ Fail(s)
    BY <2>9, <2>4, <2>5, <2>6, <2>7 DEF Continues, CommitEvent, CommitDraw,
       LogSettlement, Fail
  <2> QED BY <2>3, <2>8, <2>9
<1>3. CASE AnswerDraw(s) /\ Answer(s, "ok")
  <2>1. staff[s].op = "drawresult" /\ Seen(s).settled /\ round' = round
    BY <1>3 DEF AnswerDraw, Answer, IInv, TypeOK, NoCall, dbVars
  <2>2. round[staff[s].rid].settled
    BY <2>1 DEF Seen, NewRow, NoRow
  <2> QED BY <2>1, <2>2 DEF Durable
<1>4. CASE LogSettlement(s) /\ Answer(s, "ok")
  <2>1. /\ staff[s].op = "drawresult" /\ round' = round
        /\ slog[staff[s].rid] # "none"
    <3>1. staff[s].op = "drawresult"
      BY <1>4 DEF LogSettlement, IInv, Locking, LockingOf
    <3>2. staff'[s].pc = "idle" /\ round' = round
      BY <1>4 DEF Answer, IInv, TypeOK, NoCall, dbVars
    <3>3. ~ Hold(s, staff[s].prev, "commit")
      <4>1. staff[s].prev \in State \cup {"none"}
        BY DEF IInv, TypeOK, Call
      <4> QED BY <3>2, <4>1, HoldEffect
    <3> QED BY <1>4, <3>1, <3>2, <3>3 DEF LogSettlement
  <2> QED BY <1>1, <2>1 DEF Durable, IInv, Records, SettledTogether
<1>5. CASE CacheEvent(s)
  <2>1. staff[s].op # "drawresult" /\ audit' = audit /\ staff[s].pc = "cache"
    BY <1>5 DEF CacheEvent, dbVars, Event
  <2> QED BY <2>1 DEF Durable, IInv, AfterCommit, AfterCommitOf
<1>6. CASE CacheResult(s)
  <2>1. staff[s].op = "drawresult" /\ round' = round /\ staff[s].pc = "cache"
    BY <1>6 DEF CacheResult, dbVars
  <2> QED BY <2>1 DEF Durable, IInv, AfterCommit, AfterCommitOf
<1> QED BY <1>2, <1>3, <1>4, <1>5, <1>6

\* A call that is answered with success has its effect in the database for good.
THEOREM RoundsOkIsDurable == Spec => OkIsDurable
<1>1. IInv /\ [Next]_roundsVars => [\A s \in Staff : Durable(s)]_roundsVars
  BY DurableStep
<1> QED BY <1>1, RoundsInvariant, PTL DEF Spec, OkIsDurable
-------------------------------------------------------------------------------
(* What is written stays *)

\* A list is only added to, at its end.
OnlyGrows(old, new) == Len(old) <= Len(new) /\ \A i \in 1..Len(old) : new[i] = old[i]

\* The records of a round in this step: trail and outbox grow, a logged result stays.
RoundKeepsRecords(r) ==
  /\ OnlyGrows(audit[r], audit'[r]) /\ OnlyGrows(outbox[r], outbox'[r])
  /\ slog[r] # "none" => slog'[r] = slog[r]

RoundRecordsOnlyGrow == [][\A r \in Round : RoundKeepsRecords(r)]_roundsVars

\* Adding a list, or a single entry, to another keeps what is there.
LEMMA GrowsByConcat ==
  ASSUME NEW S, NEW old \in Seq(S), NEW more \in Seq(S)
  PROVE  OnlyGrows(old, old \o more) /\ OnlyGrows(old, old)
  BY DEF OnlyGrows

LEMMA GrowsByAppend ==
  ASSUME NEW S, NEW old \in Seq(S), NEW e \in S
  PROVE  OnlyGrows(old, Append(old, e))
  BY DEF OnlyGrows

\* A commit adds to the records of its round and logs a result where none is.
LEMMA CommitGrows ==
  ASSUME TypeOK, NEW s, NEW row, NEW entry \in AuditEntry, NEW topics \in Seq(Topic), NEW logged,
         Commit(s, row, entry, topics, logged), slog[staff[s].rid] \in {"none", logged},
         NEW r \in Round
  PROVE  RoundKeepsRecords(r)
<1>1. /\ audit[r] \in Seq(AuditEntry) /\ outbox[r] \in Seq(Topic)
      /\ OnlyGrows(audit[r], audit[r]) /\ OnlyGrows(outbox[r], outbox[r])
  BY GrowsByConcat DEF TypeOK
<1>2. CASE r = staff[s].rid
  <2>1. /\ audit'[r] = Append(audit[r], entry) /\ outbox'[r] = outbox[r] \o topics
        /\ slog'[r] = logged
    BY <1>2 DEF Commit, TypeOK
  <2>2. OnlyGrows(audit[r], Append(audit[r], entry))
    BY <1>1, GrowsByAppend
  <2>3. OnlyGrows(outbox[r], outbox[r] \o topics)
    BY <1>1, GrowsByConcat
  <2> QED BY <1>2, <2>1, <2>2, <2>3 DEF RoundKeepsRecords
<1>3. CASE r # staff[s].rid
  <2>1. audit'[r] = audit[r] /\ outbox'[r] = outbox[r] /\ slog'[r] = slog[r]
    BY <1>3 DEF Commit, TypeOK
  <2> QED BY <1>1, <2>1 DEF RoundKeepsRecords
<1> QED BY <1>2, <1>3

\* No step takes a record of a round back.
LEMMA RecordsStep ==
  ASSUME IInv, [Next]_roundsVars, NEW r \in Round
  PROVE  RoundKeepsRecords(r)
<1>1. TypeOK /\ Locking /\ SettledTogether
  BY DEF IInv, Records
<1>2. OnlyGrows(audit[r], audit[r]) /\ OnlyGrows(outbox[r], outbox[r])
  BY <1>1, GrowsByConcat DEF TypeOK
<1>3. CASE UNCHANGED <<slog, audit, outbox>>
  BY <1>2, <1>3 DEF RoundKeepsRecords
<1>4. ASSUME NEW s \in Staff, CommitEvent(s) PROVE RoundKeepsRecords(r)
  <2>1. PICK next \in State :
          /\ <<staff[s].prev, staff[s].op, next>> \in Transition
          /\ \E row : Commit(s, row, <<staff[s].prev, staff[s].op, next>>,
                              EventTopics(staff[s].op), slog[staff[s].rid])
    BY <1>4, Zenon DEF CommitEvent
  <2>2. <<staff[s].prev, staff[s].op, next>> \in AuditEntry
    BY <2>1 DEF Transition, AuditEntry, State, Event
  <2>3. EventTopics(staff[s].op) \in Seq(Topic)
    <3>1. \A topic \in Topic : <<topic>> \in Seq(Topic)
      OBVIOUS
    <3>2. << >> \in Seq(Topic) /\ {"game_started", "game_draw_ready", "game_ended"} \subseteq Topic
      BY DEF Topic
    <3> QED BY <3>1, <3>2 DEF EventTopics
  <2>4. PICK row : Commit(s, row, <<staff[s].prev, staff[s].op, next>>,
                          EventTopics(staff[s].op), slog[staff[s].rid])
    BY <2>1
  <2> QED BY <1>1, <2>2, <2>3, <2>4, CommitGrows
<1>5. ASSUME NEW s \in Staff, CommitDraw(s) PROVE RoundKeepsRecords(r)
  <2>1. PICK row : Commit(s, row, <<"drawn", "game_draw", "settled">>, <<"game_drawn">>,
                          staff[s].card)
    BY <1>5 DEF CommitDraw
  <2>2. staff[s].rid \in Round /\ CanSettle(round[staff[s].rid])
    BY <1>1, <1>5 DEF CommitDraw, Locking, LockingOf
  <2>3. slog[staff[s].rid] = "none"
    BY <1>1, <2>2 DEF SettledTogether, CanSettle
  <2>4. <<"drawn", "game_draw", "settled">> \in AuditEntry /\ <<"game_drawn">> \in Seq(Topic)
    BY DEF AuditEntry, State, Event, Topic
  <2> QED BY <1>1, <2>1, <2>3, <2>4, CommitGrows
<1> QED BY <1>3, <1>4, <1>5, WhoWrites DEF dbVars, WindowPasses

\* Audit trail and outbox of a round are only ever added to, and a result once logged
\* stands: no call, repetition or failure rewrites what another has committed.
THEOREM RoundsRecordsOnlyGrow == Spec => RoundRecordsOnlyGrow
<1>1. IInv /\ [Next]_roundsVars => [\A r \in Round : RoundKeepsRecords(r)]_roundsVars
  BY RecordsStep
<1> QED BY <1>1, RoundsInvariant, PTL DEF Spec, RoundRecordsOnlyGrow
===============================================================================
