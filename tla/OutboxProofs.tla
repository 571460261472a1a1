----------------------------- MODULE OutboxProofs -----------------------------
(***************************************************************************)
(* Proofs about Outbox, for any rows, dispatchers and consumers, any       *)
(* number of attempts and any limit of a listing.                          *)
(***************************************************************************)
EXTENDS Outbox, FiniteSetTheorems, WellFoundedInduction, TLAPS

-------------------------------------------------------------------------------
(* The inductive invariant *)

\* What a dispatcher has in hand.  A row on its list is visible, and so is, for a row of
\* the list, every visible earlier row of the same round, unless it was attempted.
ListsAreFair ==
  \A d \in Dispatcher : \A s \in disp[d].list :
    /\ status[s] # "none"
    /\ \A r \in Row : r < s /\ RoundOf[r] = RoundOf[s] /\ status[r] # "none" =>
         r \in attempted \/ r \in disp[d].list

\* After its publication the row is attempted, and delivered if that was reported.
InHand ==
  \A d \in Dispatcher :
    /\ At(d, "published") \/ At(d, "failed") => Due(d) \in attempted
    /\ At(d, "published") => sends[Due(d)] > 0

\* A row that has left the pending ones was attempted.
LeftMeansAttempted ==
  \A r \in Row : status[r] \in {"sent", "failed"} => r \in attempted

\* A row out of attempts is counted again by nobody but those who listed it before.
Holders(r) == {d \in Dispatcher : r \in disp[d].list}

LastAttempts ==
  \A r \in Row :
    /\ status[r] \in {"none", "pending"} => retry[r] < MaxRetry
    /\ status[r] = "failed" => retry[r] >= MaxRetry
    /\ retry[r] >= MaxRetry =>
         retry[r] + Cardinality(Holders(r)) < MaxRetry + Cardinality(Dispatcher)

\* What a consumer acknowledges it has stored, and what it stores was delivered.
InConsumer ==
  \A c \in Consumer :
    /\ cons[c].pc # "idle" => cons[c].msg \in Delivered
    /\ cons[c].pc = "ack" => cons[c].msg \in inbox

IInv ==
  /\ TypeOK /\ SentWasDelivered /\ AckedIsStored
  /\ ListsAreFair /\ InHand /\ LeftMeansAttempted /\ LastAttempts /\ InConsumer

-------------------------------------------------------------------------------
(* Lemmas *)

\* The least of some rows.
LEMMA MinOfRows ==
  ASSUME NEW S \in SUBSET Row, S # {}
  PROVE  Min(S) \in S /\ \A r \in S : Min(S) <= r
<1> DEFINE Less == {ss \in Nat \X Nat : ss[1] < ss[2]}
<1>1. S \subseteq Nat
  BY OutboxAssumption
<1>2. IsWellFoundedOn(Less, Nat)
  BY NatLessThanWellFounded DEF OpToRel
<1>3. \A x, y \in Nat : <<y, x>> \in Less <=> y < x
  OBVIOUS
<1> HIDE DEF Less
<1>4. PICK x \in S : \A y \in S : ~ (<<y, x>> \in Less)
  BY <1>1, <1>2, WFMin
<1>5. ASSUME NEW y \in S PROVE x <= y
  <2>1. x \in Nat /\ y \in Nat
    BY <1>1
  <2>2. ~ (y < x)
    BY <1>3, <1>4, <2>1
  <2> QED BY <2>1, <2>2
<1> QED BY <1>5 DEF Min

\* The row a busy dispatcher is at.
LEMMA DueIsLeast ==
  ASSUME TypeOK, NEW d \in Dispatcher, ~ At(d, "idle")
  PROVE  /\ Due(d) \in disp[d].list /\ Due(d) \in Row
         /\ \A r \in disp[d].list : Due(d) <= r
BY MinOfRows DEF TypeOK, At, Due

\* What Advance makes of a dispatcher.
LEMMA AdvanceStep ==
  ASSUME TypeOK, NEW d \in Dispatcher, ~ At(d, "idle"), Advance(d)
  PROVE  /\ disp' \in [Dispatcher ->
              [pc : {"idle", "publish", "published", "failed"}, list : SUBSET Row]]
         /\ \A o \in Dispatcher \ {d} : disp'[o] = disp[o]
         /\ disp'[d].list = disp[d].list \ {Due(d)}
         /\ disp'[d].pc \in {"idle", "publish"}
         /\ disp'[d].pc = "idle" <=> disp'[d].list = {}
BY DEF TypeOK, Advance

\* The listing takes no row and leaves an earlier one that it could have taken.
LEMMA ListedFromBelow ==
  ASSUME TypeOK, NEW s \in Listed, NEW r \in Row, r < s,
         status[r] = "pending", retry[r] < MaxRetry
  PROVE  r \in Listed
<1> DEFINE pending == {q \in Row : status[q] = "pending" /\ retry[q] < MaxRetry}
           Below(q) == {t \in pending : t < q}
<1>1. Row \subseteq Nat /\ IsFiniteSet(Row) /\ Limit \in Nat
  BY OutboxAssumption
<1>2. s \in pending /\ r \in pending /\ Cardinality(Below(s)) < Limit
  BY DEF Listed
<1>3. Below(r) \subseteq Below(s)
  <2>1. r \in Nat /\ s \in Nat
    BY <1>1, <1>2
  <2>2. \A t \in Row : t < r => t < s
    BY <1>1, <2>1
  <2> QED BY <2>2
<1>4. IsFiniteSet(Below(s))
  <2>1. Below(s) \in SUBSET Row
    OBVIOUS
  <2> QED BY <1>1, <2>1, FS_Subset
<1>5. /\ Cardinality(Below(r)) <= Cardinality(Below(s))
      /\ Cardinality(Below(s)) \in Nat /\ Cardinality(Below(r)) \in Nat
  BY <1>3, <1>4, FS_Subset, FS_CardinalityType
<1>6. Cardinality(Below(r)) < Limit
  BY <1>1, <1>2, <1>5
<1> QED BY <1>2, <1>6 DEF Listed

-------------------------------------------------------------------------------
(* Steps *)

\* The invariant holds before anything was emitted.
LEMMA InitIInv == Init => IInv
<1> SUFFICES ASSUME Init PROVE IInv
  OBVIOUS
<1>1. TypeOK
  BY OutboxAssumption DEF Init, TypeOK
<1>2. SentWasDelivered /\ AckedIsStored /\ LeftMeansAttempted
  BY DEF Init, SentWasDelivered, AckedIsStored, LeftMeansAttempted
<1>3. ListsAreFair /\ InHand /\ InConsumer
  BY DEF Init, ListsAreFair, InHand, InConsumer, At
<1>4. LastAttempts
  BY OutboxAssumption DEF Init, LastAttempts
<1> QED BY <1>1, <1>2, <1>3, <1>4 DEF IInv

\* The parts about rows and dispatchers, which no consumer disturbs.
DispatchInv ==
  /\ SentWasDelivered /\ ListsAreFair /\ InHand /\ LeftMeansAttempted /\ LastAttempts

\* A consumer's steps keep the invariant.
LEMMA ConsumerStep ==
  ASSUME IInv, NEW c \in Consumer, Consume(c)
  PROVE  IInv'
<1>1. UNCHANGED dispVars
  BY DEF Consume, Receive, Upsert, Ack, Drop
<1>2. DispatchInv'
  BY <1>1 DEF IInv, DispatchInv, dispVars, rowVars, SentWasDelivered, ListsAreFair, InHand, At, Due,
     LeftMeansAttempted, LastAttempts, Holders
<1>3. Delivered' = Delivered
  BY <1>1 DEF Delivered, dispVars
<1>4. /\ cons' \in [Consumer -> [pc : {"idle", "upsert", "ack"}, msg : Message \cup {Null}]]
      /\ acked' \subseteq Delivered /\ inbox' \subseteq Delivered
      /\ AckedIsStored' /\ InConsumer'
  <2> USE DEF IInv, TypeOK, AckedIsStored, InConsumer
  <2>1. CASE \E m \in Message : Receive(c, m)
    BY <1>3, <2>1 DEF Receive
  <2>2. CASE Upsert(c)
    BY <1>3, <2>2 DEF Upsert
  <2>3. CASE Ack(c)
    BY <1>3, <2>3 DEF Ack
  <2>4. CASE Drop(c)
    BY <1>3, <2>4 DEF Drop
  <2> QED BY <2>1, <2>2, <2>3, <2>4 DEF Consume
<1>5. TypeOK'
  BY <1>1, <1>3, <1>4 DEF IInv, TypeOK, dispVars, rowVars
<1> QED BY <1>2, <1>4, <1>5 DEF IInv, DispatchInv

\* The parts about consumers, which no dispatcher disturbs: messages only accumulate.
LEMMA ConsumersKept ==
  ASSUME IInv, UNCHANGED consVars, \A r \in Row : sends[r] <= sends'[r],
         sends' \in [Row -> 0..MaxSends]
  PROVE  /\ cons' \in [Consumer -> [pc : {"idle", "upsert", "ack"}, msg : Message \cup {Null}]]
         /\ acked' \subseteq Delivered' /\ inbox' \subseteq Delivered'
         /\ AckedIsStored' /\ InConsumer'
<1>1. Delivered \subseteq Delivered'
  <2>1. ASSUME NEW r \in Row, NEW n \in 1..MaxSends, n <= sends[r]
        PROVE  n <= sends'[r]
    <3>1. sends[r] \in 0..MaxSends /\ sends'[r] \in 0..MaxSends /\ sends[r] <= sends'[r]
      BY DEF IInv, TypeOK
    <3> QED BY <2>1, <3>1, OutboxAssumption
  <2>2. \A m \in Message : m[1] \in Row /\ m[2] \in 1..MaxSends
    BY DEF Message
  <2> QED BY <2>1, <2>2 DEF Delivered
<1> QED BY <1>1 DEF IInv, TypeOK, AckedIsStored, InConsumer, consVars

\* The same for a step in which the broker gets nothing.
LEMMA NothingSent ==
  ASSUME IInv, UNCHANGED <<sends, consVars>>
  PROVE  /\ cons' \in [Consumer -> [pc : {"idle", "upsert", "ack"}, msg : Message \cup {Null}]]
         /\ acked' \subseteq Delivered' /\ inbox' \subseteq Delivered'
         /\ AckedIsStored' /\ InConsumer'
<1>1. ASSUME NEW r \in Row PROVE sends[r] <= sends'[r]
  <2>1. sends[r] \in 0..MaxSends
    BY DEF IInv, TypeOK
  <2> QED BY <2>1
<1>2. sends' \in [Row -> 0..MaxSends]
  BY DEF IInv, TypeOK
<1> QED BY <1>1, <1>2, ConsumersKept

\* A row becomes visible; no later row of its round is on a list.
LEMMA InsertStep ==
  ASSUME IInv, NEW r \in Row, Insert(r)
  PROVE  IInv'
<1>1. /\ UNCHANGED <<retry, attempted, sends, disp, consVars>>
      /\ status[r] = "none" /\ status' = [status EXCEPT ![r] = "pending"]
  BY DEF Insert
<1>2. /\ cons' \in [Consumer -> [pc : {"idle", "upsert", "ack"}, msg : Message \cup {Null}]]
      /\ acked' \subseteq Delivered' /\ inbox' \subseteq Delivered'
      /\ AckedIsStored' /\ InConsumer'
  BY <1>1, NothingSent
<1>3. TypeOK'
  BY <1>1, <1>2 DEF IInv, TypeOK
<1>4. SentWasDelivered' /\ LeftMeansAttempted'
  BY <1>1 DEF IInv, TypeOK, SentWasDelivered, LeftMeansAttempted
<1>5. InHand'
  BY <1>1 DEF IInv, InHand, At, Due
<1>6. ListsAreFair'
  <2> SUFFICES ASSUME NEW d \in Dispatcher, NEW s \in disp[d].list
               PROVE  /\ status'[s] # "none"
                      /\ \A q \in Row : q < s /\ RoundOf[q] = RoundOf[s] /\ status'[q] # "none" =>
                           q \in attempted \/ q \in disp[d].list
    BY <1>1 DEF ListsAreFair
  <2>1. s \in Row /\ status[s] # "none"
    BY DEF IInv, TypeOK, ListsAreFair
  <2>2. ~ (RoundOf[s] = RoundOf[r] /\ s > r)
    BY <2>1 DEF Insert
  <2>3. ASSUME NEW q \in Row, q < s, RoundOf[q] = RoundOf[s], status'[q] # "none"
        PROVE  q \in attempted \/ q \in disp[d].list
    <3>1. q # r
      BY <2>1, <2>2, <2>3, OutboxAssumption
    <3> QED BY <1>1, <2>3, <3>1 DEF IInv, TypeOK, ListsAreFair
  <2> QED BY <1>1, <2>1, <2>3 DEF IInv, TypeOK
<1>7. LastAttempts'
  BY <1>1 DEF IInv, TypeOK, LastAttempts, Holders
<1> QED BY <1>2, <1>3, <1>4, <1>5, <1>6, <1>7 DEF IInv

\* A dispatcher takes a list.
LEMMA ListStep ==
  ASSUME IInv, NEW d \in Dispatcher, List(d)
  PROVE  IInv'
<1>1. /\ UNCHANGED <<status, retry, attempted, sends, consVars>>
      /\ disp' = [disp EXCEPT ![d] = [pc |-> "publish", list |-> Listed]]
      /\ Listed # {} /\ disp[d].list = {}
  BY DEF List, rowVars, At, IInv, TypeOK
<1>2. /\ Listed \subseteq Row
      /\ \A r \in Listed : status[r] = "pending" /\ retry[r] < MaxRetry
  BY DEF Listed
<1>3. /\ cons' \in [Consumer -> [pc : {"idle", "upsert", "ack"}, msg : Message \cup {Null}]]
      /\ acked' \subseteq Delivered' /\ inbox' \subseteq Delivered'
      /\ AckedIsStored' /\ InConsumer'
  BY <1>1, NothingSent
<1>4. TypeOK'
  BY <1>1, <1>2, <1>3 DEF IInv, TypeOK
<1>5. SentWasDelivered' /\ LeftMeansAttempted'
  BY <1>1 DEF IInv, SentWasDelivered, LeftMeansAttempted
<1>6. InHand'
  BY <1>1 DEF IInv, TypeOK, InHand, At, Due
<1>7. ListsAreFair'
  <2> SUFFICES ASSUME NEW s \in Listed
               PROVE  /\ status[s] # "none"
                      /\ \A r \in Row : r < s /\ RoundOf[r] = RoundOf[s] /\ status[r] # "none" =>
                           r \in attempted \/ r \in Listed
    BY <1>1 DEF IInv, TypeOK, ListsAreFair
  <2>1. ASSUME NEW r \in Row, r < s, status[r] # "none", r \notin attempted
        PROVE  r \in Listed
    <3>1. status[r] = "pending"
      BY <2>1 DEF IInv, TypeOK, LeftMeansAttempted
    <3>2. retry[r] < MaxRetry
      BY <3>1 DEF IInv, LastAttempts
    <3> QED BY <2>1, <3>1, <3>2, ListedFromBelow DEF IInv
  <2> QED BY <1>2, <2>1
<1>8. LastAttempts'
  <2>1. \A r \in Row : retry[r] >= MaxRetry => Holders(r)' = Holders(r)
    <3> SUFFICES ASSUME NEW r \in Row, retry[r] >= MaxRetry
                 PROVE  Holders(r)' = Holders(r)
      OBVIOUS
    <3>1. r \notin Listed
      BY <1>2, OutboxAssumption DEF IInv, TypeOK
    <3>2. \A o \in Dispatcher : r \in disp'[o].list <=> r \in disp[o].list
      BY <1>1, <3>1 DEF IInv, TypeOK
    <3> QED BY <3>2 DEF Holders
  <2> QED BY <1>1, <2>1 DEF IInv, LastAttempts
<1> QED BY <1>3, <1>4, <1>5, <1>6, <1>7, <1>8 DEF IInv

\* A dispatcher tries to publish the row it is at; the lists stay.
LEMMA PublishStep ==
  ASSUME IInv, NEW d \in Dispatcher, Publish(d) \/ PublishError(d)
  PROVE  IInv'
<1>1. /\ UNCHANGED <<status, retry, consVars>>
      /\ attempted' = attempted \cup {Due(d)}
      /\ ~ At(d, "idle")
  BY DEF Publish, PublishError, rowVars, At
<1>2. Due(d) \in Row
  BY <1>1, DueIsLeast DEF IInv
<1>3. /\ sends' \in [Row -> 0..MaxSends]
      /\ \A r \in Row : sends[r] <= sends'[r]
      /\ Publish(d) => sends'[Due(d)] > 0
  <2>1. MaxSends \in Nat /\ sends \in [Row -> 0..MaxSends]
    BY OutboxAssumption DEF IInv, TypeOK
  <2>2. CASE Send(Due(d))
    BY <1>2, <2>1, <2>2 DEF Send
  <2>3. CASE ~ Publish(d) /\ UNCHANGED sends
    BY <2>1, <2>3
  <2> QED BY <2>2, <2>3 DEF Publish, PublishError
<1>4. /\ disp' \in [Dispatcher ->
           [pc : {"idle", "publish", "published", "failed"}, list : SUBSET Row]]
      /\ \A o \in Dispatcher : disp'[o].list = disp[o].list
      /\ \A o \in Dispatcher \ {d} : disp'[o] = disp[o]
      /\ disp'[d].pc \in {"published", "failed"}
      /\ disp'[d].pc = "published" => Publish(d)
  <2>1. CASE Publish(d)
    BY <2>1 DEF IInv, TypeOK, Publish
  <2>2. CASE PublishError(d)
    BY <2>2 DEF IInv, TypeOK, PublishError
  <2> QED BY <2>1, <2>2
<1>5. /\ cons' \in [Consumer -> [pc : {"idle", "upsert", "ack"}, msg : Message \cup {Null}]]
      /\ acked' \subseteq Delivered' /\ inbox' \subseteq Delivered'
      /\ AckedIsStored' /\ InConsumer'
  BY <1>1, <1>3, ConsumersKept
<1>6. TypeOK'
  <2>1. \A o \in Dispatcher : disp'[o].pc = "idle" <=> disp'[o].list = {}
    BY <1>1, <1>4 DEF IInv, TypeOK, At
  <2> QED BY <1>1, <1>2, <1>3, <1>4, <1>5, <2>1 DEF IInv, TypeOK
<1>7. SentWasDelivered'
  <2> SUFFICES ASSUME NEW r \in Row, status[r] = "sent" PROVE sends'[r] > 0
    BY <1>1 DEF SentWasDelivered
  <2>1. sends[r] \in 0..MaxSends /\ sends'[r] \in 0..MaxSends /\ sends[r] > 0
    BY <1>3 DEF IInv, TypeOK, SentWasDelivered
  <2> QED BY <1>3, <2>1, OutboxAssumption
<1>8. LeftMeansAttempted'
  BY <1>1 DEF IInv, LeftMeansAttempted
<1>9. InHand'
  <2> SUFFICES ASSUME NEW o \in Dispatcher
               PROVE  /\ disp'[o].pc \in {"published", "failed"} => Due(o)' \in attempted'
                      /\ disp'[o].pc = "published" => sends'[Due(o)'] > 0
    BY DEF InHand, At
  <2>0. Due(o)' = Due(o)
    BY <1>4 DEF Due
  <2>1. CASE o = d
    BY <1>1, <1>3, <1>4, <2>0, <2>1
  <2>2. CASE o # d /\ disp[o].pc \in {"published", "failed"}
    <3>1. disp'[o] = disp[o] /\ Due(o) \in Row
      BY <1>4, <2>2, DueIsLeast DEF IInv, At
    <3>2. Due(o) \in attempted /\ (disp[o].pc = "published" => sends[Due(o)] > 0)
      BY <2>2 DEF IInv, InHand, At
    <3>3. sends[Due(o)] \in 0..MaxSends /\ sends'[Due(o)] \in 0..MaxSends
          /\ sends[Due(o)] <= sends'[Due(o)]
      BY <1>3, <3>1 DEF IInv, TypeOK
    <3> QED BY <1>1, <2>0, <3>1, <3>2, <3>3, OutboxAssumption
  <2> QED BY <1>4, <2>1, <2>2
<1>10. ListsAreFair'
  BY <1>1, <1>4 DEF IInv, ListsAreFair
<1>11. LastAttempts'
  <2>1. \A r \in Row : Holders(r)' = Holders(r)
    BY <1>4 DEF Holders
  <2> QED BY <1>1, <2>1 DEF IInv, LastAttempts
<1> QED BY <1>5, <1>6, <1>7, <1>8, <1>9, <1>10, <1>11 DEF IInv

\* What leaving the row just handled keeps, and what a change of the row's status and
\* count must do for it.
LEMMA MarkStep ==
  ASSUME IInv, NEW d \in Dispatcher, MarkSent(d) \/ MarkFailed(d) \/ MarkLost(d),
         NEW r, r = Due(d)
  PROVE  IInv'
<1>1. /\ UNCHANGED <<attempted, sends, consVars>> /\ Advance(d)
      /\ At(d, "published") \/ At(d, "failed")
      /\ ~ At(d, "idle")
  BY DEF MarkSent, MarkFailed, MarkLost, At
<1>2. /\ r \in disp[d].list /\ r \in Row /\ \A q \in disp[d].list : r <= q
      /\ r \in attempted /\ status[r] # "none"
  BY <1>1, DueIsLeast DEF IInv, InHand, ListsAreFair
<1>3. /\ disp' \in [Dispatcher ->
           [pc : {"idle", "publish", "published", "failed"}, list : SUBSET Row]]
      /\ \A o \in Dispatcher \ {d} : disp'[o] = disp[o]
      /\ disp'[d].list = disp[d].list \ {r}
      /\ disp'[d].pc \in {"idle", "publish"}
      /\ disp'[d].pc = "idle" <=> disp'[d].list = {}
  BY <1>1, AdvanceStep DEF IInv
<1>4. /\ status' \in [Row -> {"none", "pending", "sent", "failed"}]
      /\ retry' \in [Row -> Nat]
      /\ \A q \in Row \ {r} : status'[q] = status[q] /\ retry'[q] = retry[q]
      /\ \/ status'[r] = "sent" /\ retry'[r] = retry[r] /\ At(d, "published")
         \/ status'[r] = StatusAfterError(r) /\ retry'[r] = retry[r] + 1
         \/ status'[r] = status[r] /\ retry'[r] = retry[r]
  <2> USE DEF IInv, TypeOK
  <2>1. CASE MarkSent(d)
    BY <1>2, <2>1 DEF MarkSent
  <2>2. CASE MarkFailed(d)
    BY <1>2, <2>2 DEF MarkFailed, StatusAfterError
  <2>3. CASE MarkLost(d)
    BY <2>3 DEF MarkLost, rowVars
  <2> QED BY <2>1, <2>2, <2>3
<1>5. StatusAfterError(r) \in {"pending", "failed"}
  BY DEF StatusAfterError
<1>6. /\ cons' \in [Consumer -> [pc : {"idle", "upsert", "ack"}, msg : Message \cup {Null}]]
      /\ acked' \subseteq Delivered' /\ inbox' \subseteq Delivered'
      /\ AckedIsStored' /\ InConsumer'
  <2>1. \A q \in Row : sends[q] <= sends'[q]
    BY <1>1, OutboxAssumption DEF IInv, TypeOK
  <2> QED BY <1>1, <2>1, ConsumersKept DEF IInv, TypeOK
<1>7. TypeOK'
  <2>1. \A o \in Dispatcher : disp'[o].pc = "idle" <=> disp'[o].list = {}
    BY <1>3 DEF IInv, TypeOK
  <2> QED BY <1>1, <1>3, <1>4, <1>6, <2>1 DEF IInv, TypeOK
<1>8. SentWasDelivered'
  <2>1. At(d, "published") => sends[r] > 0
    BY DEF IInv, InHand
  <2> QED BY <1>1, <1>4, <1>5, <2>1 DEF IInv, SentWasDelivered
<1>9. LeftMeansAttempted'
  BY <1>1, <1>2, <1>4 DEF IInv, LeftMeansAttempted
<1>10. InHand'
  <2> SUFFICES ASSUME NEW o \in Dispatcher, disp'[o].pc \in {"published", "failed"}
               PROVE  /\ Due(o)' \in attempted
                      /\ disp'[o].pc = "published" => sends[Due(o)'] > 0
    BY <1>1 DEF InHand, At
  <2>1. disp'[o] = disp[o]
    BY <1>3
  <2>2. Due(o)' = Due(o)
    BY <2>1 DEF Due
  <2> QED BY <2>1, <2>2 DEF IInv, InHand, At
<1>11. ListsAreFair'
  <2> SUFFICES ASSUME NEW o \in Dispatcher, NEW s \in disp'[o].list
               PROVE  /\ status'[s] # "none"
                      /\ \A q \in Row : q < s /\ RoundOf[q] = RoundOf[s] /\ status'[q] # "none" =>
                           q \in attempted \/ q \in disp'[o].list
    BY <1>1 DEF ListsAreFair
  <2>1. s \in disp[o].list /\ s \in Row /\ status[s] # "none"
    BY <1>3 DEF IInv, TypeOK, ListsAreFair
  <2>2. \A q \in Row : status'[q] = "none" <=> status[q] = "none"
    BY <1>2, <1>4, <1>5
  <2>3. ASSUME NEW q \in Row, q < s, RoundOf[q] = RoundOf[s], status'[q] # "none"
        PROVE  q \in attempted \/ q \in disp'[o].list
    <3>1. q \in attempted \/ q \in disp[o].list
      BY <2>1, <2>2, <2>3 DEF IInv, ListsAreFair
    <3> QED BY <1>2, <1>3, <3>1
  <2> QED BY <2>1, <2>2, <2>3
<1>12. LastAttempts'
  <2>0. /\ IsFiniteSet(Dispatcher) /\ MaxRetry \in Nat \ {0}
        /\ \A q \in Row : retry[q] \in Nat /\ retry'[q] \in Nat
        /\ Cardinality(Dispatcher) \in Nat
    BY <1>4, OutboxAssumption, FS_CardinalityType DEF IInv, TypeOK
  <2>1. \A q \in Row : IsFiniteSet(Holders(q)) /\ Cardinality(Holders(q)) \in Nat
    BY <2>0, FS_Subset, FS_CardinalityType DEF Holders
  <2>2. \A q \in Row \ {r} : Holders(q)' = Holders(q)
    <3> SUFFICES ASSUME NEW q \in Row \ {r} PROVE Holders(q)' = Holders(q)
      OBVIOUS
    <3>1. \A o \in Dispatcher : q \in disp'[o].list <=> q \in disp[o].list
      BY <1>3
    <3> QED BY <3>1 DEF Holders
  <2>3. /\ d \in Holders(r) /\ Holders(r)' = Holders(r) \ {d}
        /\ Holders(r) \subseteq Dispatcher
    <3>1. \A o \in Dispatcher : r \in disp'[o].list <=> r \in disp[o].list /\ o # d
      BY <1>3
    <3> QED BY <1>2, <3>1 DEF Holders
  <2>4. /\ Cardinality(Holders(r)') = Cardinality(Holders(r)) - 1
        /\ Cardinality(Holders(r)) <= Cardinality(Dispatcher)
    BY <1>2, <2>0, <2>1, <2>3, FS_RemoveElement, FS_Subset
  <2>5. ASSUME NEW q \in Row \ {r}
        PROVE  /\ status'[q] \in {"none", "pending"} => retry'[q] < MaxRetry
               /\ status'[q] = "failed" => retry'[q] >= MaxRetry
               /\ retry'[q] >= MaxRetry =>
                    retry'[q] + Cardinality(Holders(q)') < MaxRetry + Cardinality(Dispatcher)
    BY <1>4, <2>2 DEF IInv, LastAttempts
  <2>6. /\ status'[r] \in {"none", "pending"} => retry'[r] < MaxRetry
        /\ status'[r] = "failed" => retry'[r] >= MaxRetry
    <3>1. /\ status[r] \in {"none", "pending"} => retry[r] < MaxRetry
          /\ status[r] = "failed" => retry[r] >= MaxRetry
      BY <1>2 DEF IInv, LastAttempts
    <3>2. /\ StatusAfterError(r) = "pending" => retry[r] + 1 < MaxRetry
          /\ StatusAfterError(r) = "failed" => retry[r] + 1 >= MaxRetry
      BY <1>2, <2>0 DEF StatusAfterError
    <3> QED BY <1>4, <1>5, <3>1, <3>2
  <2>7. retry'[r] >= MaxRetry =>
          retry'[r] + Cardinality(Holders(r)') < MaxRetry + Cardinality(Dispatcher)
    <3> DEFINE h == Cardinality(Holders(r))
               D == Cardinality(Dispatcher)
    <3>1. /\ h \in Nat /\ D \in Nat /\ h <= D /\ Cardinality(Holders(r)') = h - 1
          /\ retry[r] \in Nat /\ MaxRetry \in Nat
      BY <1>2, <2>0, <2>1, <2>4
    <3>2. retry[r] >= MaxRetry => retry[r] + h < MaxRetry + D
      BY <1>2 DEF IInv, LastAttempts
    <3>3. retry'[r] = retry[r] \/ retry'[r] = retry[r] + 1
      BY <1>4
    <3> HIDE DEF h, D
    <3>4. retry'[r] >= MaxRetry => retry'[r] + (h - 1) < MaxRetry + D
      BY <3>1, <3>2, <3>3
    <3> QED BY <3>1, <3>4 DEF D
  <2> QED BY <2>5, <2>6, <2>7 DEF LastAttempts
<1> QED BY <1>6, <1>7, <1>8, <1>9, <1>10, <1>11, <1>12 DEF IInv

\* A list is lost; its rows are listed again as they are.
LEMMA StopStep ==
  ASSUME IInv, NEW d \in Dispatcher, StopDispatcher(d)
  PROVE  IInv'
<1>1. /\ UNCHANGED <<status, retry, attempted, sends, consVars>>
      /\ disp' = [disp EXCEPT ![d] = [pc |-> "idle", list |-> {}]]
  BY DEF StopDispatcher, rowVars
<1>2. /\ cons' \in [Consumer -> [pc : {"idle", "upsert", "ack"}, msg : Message \cup {Null}]]
      /\ acked' \subseteq Delivered' /\ inbox' \subseteq Delivered'
      /\ AckedIsStored' /\ InConsumer'
  BY <1>1, NothingSent
<1>3. TypeOK'
  BY <1>1, <1>2 DEF IInv, TypeOK
<1>4. SentWasDelivered' /\ LeftMeansAttempted'
  BY <1>1 DEF IInv, SentWasDelivered, LeftMeansAttempted
<1>5. InHand'
  BY <1>1 DEF IInv, TypeOK, InHand, At, Due
<1>6. ListsAreFair'
  BY <1>1 DEF IInv, TypeOK, ListsAreFair
<1>7. LastAttempts'
  <2> SUFFICES ASSUME NEW r \in Row, retry[r] >= MaxRetry
               PROVE  retry[r] + Cardinality(Holders(r)') < MaxRetry + Cardinality(Dispatcher)
    BY <1>1 DEF IInv, LastAttempts
  <2>1. Holders(r)' \subseteq Holders(r)
    BY <1>1 DEF IInv, TypeOK, Holders
  <2>2. IsFiniteSet(Holders(r)) /\ Cardinality(Dispatcher) \in Nat
    BY OutboxAssumption, FS_Subset, FS_CardinalityType DEF Holders
  <2>3. /\ Cardinality(Holders(r)') <= Cardinality(Holders(r))
        /\ Cardinality(Holders(r)') \in Nat /\ Cardinality(Holders(r)) \in Nat
    BY <2>1, <2>2, FS_Subset, FS_CardinalityType
  <2>4. retry[r] + Cardinality(Holders(r)) < MaxRetry + Cardinality(Dispatcher)
    BY DEF IInv, LastAttempts
  <2> QED BY <2>2, <2>3, <2>4, OutboxAssumption DEF IInv, TypeOK
<1> QED BY <1>2, <1>3, <1>4, <1>5, <1>6, <1>7 DEF IInv

\* Every step, and a stutter, keeps the invariant.
LEMMA NextKeepsIInv ==
  ASSUME IInv, [Next]_vars
  PROVE  IInv'
<1>1. CASE \E r \in Row : Insert(r)
  BY <1>1, InsertStep
<1>2. CASE \E d \in Dispatcher : Dispatch(d)
  <2> PICK d \in Dispatcher : Dispatch(d)
    BY <1>2
  <2>1. CASE MarkSent(d) \/ MarkFailed(d) \/ MarkLost(d)
    BY <2>1, MarkStep
  <2> QED BY <2>1, ListStep, PublishStep, StopStep DEF Dispatch
<1>3. CASE \E c \in Consumer : Consume(c)
  BY <1>3, ConsumerStep
<1>4. CASE UNCHANGED vars
  <2>1. DispatchInv'
    BY <1>4 DEF vars, dispVars, rowVars, IInv, DispatchInv, SentWasDelivered, ListsAreFair, InHand,
       At, Due, LeftMeansAttempted, LastAttempts, Holders
  <2>2. TypeOK' /\ AckedIsStored' /\ InConsumer'
    BY <1>4 DEF vars, dispVars, rowVars, consVars, IInv, TypeOK, AckedIsStored, InConsumer, Delivered
  <2> QED BY <2>1, <2>2 DEF IInv, DispatchInv
<1> QED BY <1>1, <1>2, <1>3, <1>4 DEF Next

-------------------------------------------------------------------------------
(* Theorems *)

\* The invariant holds in every state.
THEOREM OutboxInvariant == Spec => []IInv
<1>1. Init => IInv
  BY InitIInv
<1>2. IInv /\ [Next]_vars => IInv'
  BY NextKeepsIInv
<1> QED BY <1>1, <1>2, PTL DEF Spec

\* Every variable keeps its type.
THEOREM OutboxTyped == Spec => []TypeOK
<1>1. IInv => TypeOK
  BY DEF IInv
<1> QED BY <1>1, OutboxInvariant, PTL

\* A row that counts as sent has reached the broker.
THEOREM OutboxSentWasDelivered == Spec => []SentWasDelivered
<1>1. IInv => SentWasDelivered
  BY DEF IInv
<1> QED BY <1>1, OutboxInvariant, PTL

\* Rows are given up after the last attempt, and dispatchers add at most one each.
THEOREM OutboxRetriesAreBounded == Spec => []RetriesAreBounded
<1>1. ASSUME IInv, NEW r \in Row
      PROVE  retry[r] < MaxRetry + Cardinality(Dispatcher)
  <2>1. /\ retry[r] \in Nat /\ MaxRetry \in Nat /\ Cardinality(Dispatcher) \in Nat
    BY <1>1, OutboxAssumption, FS_CardinalityType DEF IInv, TypeOK
  <2>2. CASE retry[r] < MaxRetry
    BY <2>1, <2>2
  <2>3. CASE retry[r] >= MaxRetry
    <3>1. retry[r] + Cardinality(Holders(r)) < MaxRetry + Cardinality(Dispatcher)
      BY <1>1, <2>3 DEF IInv, LastAttempts
    <3>2. Cardinality(Holders(r)) \in Nat
      BY OutboxAssumption, FS_Subset, FS_CardinalityType DEF Holders
    <3> QED BY <2>1, <3>1, <3>2
  <2> QED BY <2>1, <2>2, <2>3
<1>2. IInv => RetriesAreBounded
  BY <1>1 DEF IInv, LastAttempts, RetriesAreBounded
<1> QED BY <1>2, OutboxInvariant, PTL

\* The broker forgets only what the inbox has.
THEOREM OutboxAckedIsStored == Spec => []AckedIsStored
<1>1. IInv => AckedIsStored
  BY DEF IInv
<1> QED BY <1>1, OutboxInvariant, PTL

\* A round's rows are first attempted in the order of their ids.
THEOREM OutboxFirstAttemptsInOrder == Spec => FirstAttemptsInOrder
<1>1. ASSUME IInv, [Next]_vars, NEW r \in Row, NEW s \in Row,
             r < s, RoundOf[r] = RoundOf[s], s \in attempted' \ attempted, status[r] # "none"
      PROVE  r \in attempted'
  <2>1. PICK d \in Dispatcher : Publish(d) \/ PublishError(d)
    BY <1>1 DEF Next, Insert, Dispatch, List, MarkSent, MarkFailed, MarkLost, StopDispatcher,
       Consume, Receive, Upsert, Ack, Drop, dispVars, vars
  <2>2. attempted' = attempted \cup {Due(d)} /\ ~ At(d, "idle")
    BY <2>1 DEF Publish, PublishError, At
  <2>3. s = Due(d) /\ s \in disp[d].list /\ \A q \in disp[d].list : s <= q
    BY <1>1, <2>2, DueIsLeast DEF IInv
  <2>4. r \notin disp[d].list
    BY <1>1, <2>3, OutboxAssumption
  <2> QED BY <1>1, <2>2, <2>3, <2>4 DEF IInv, ListsAreFair
<1>2. IInv /\ [Next]_vars =>
        [\A r, s \in Row :
           /\ r < s /\ RoundOf[r] = RoundOf[s]
           /\ s \in attempted' \ attempted
           /\ status[r] # "none"
           => r \in attempted']_vars
  BY <1>1
<1> QED BY <1>2, OutboxInvariant, PTL DEF Spec, FirstAttemptsInOrder
===============================================================================
