-------------------------------- MODULE Outbox --------------------------------
(***************************************************************************)
(* From the outbox table to the inbox table: the dispatchers that publish  *)
(* pending rows (worker/outbox_dispatcher.go, model/outbox.go), one in     *)
(* every server process, the broker, and the consumers that store what     *)
(* arrives (model/inbox.go).  The broker is external: a send may be        *)
(* reported failed though it was delivered, and a message is handed out    *)
(* again until it is acknowledged.                                         *)
(***************************************************************************)
EXTENDS Integers, FiniteSets, FiniteSetsExt

CONSTANTS Row,         \* ids of outbox rows, in the order they were assigned
          Round,
          RoundOf,     \* the round each row is about
          Dispatcher,
          Consumer,
          MaxRetry,    \* 10 in the code
          Limit,       \* rows in one listing, 100 in the code
          MaxSends,    \* bound: messages that one row may become
          Null

ASSUME OutboxAssumption ==
  /\ Row \subseteq Nat /\ IsFiniteSet(Row) /\ IsFiniteSet(Dispatcher)
  /\ RoundOf \in [Row -> Round]
  /\ MaxRetry \in Nat \ {0} /\ Limit \in Nat \ {0} /\ MaxSends \in Nat \ {0}
  /\ Null \notin Row \X (1..MaxSends)

VARIABLES status,      \* outbox.status; "none" is a row nobody can see yet
          retry,       \* outbox.retry_count
          attempted,   \* history: rows some dispatcher has tried to publish
          sends,       \* messages the broker got for each row
          disp,        \* the dispatchers
          cons,        \* the consumers
          inbox,       \* inbox.message_id
          acked        \* messages the broker will not hand out again

rowVars == <<status, retry>>
dispVars == <<rowVars, attempted, sends, disp>>
consVars == <<cons, inbox, acked>>
vars == <<dispVars, consVars>>

-------------------------------------------------------------------------------
(* Data *)

\* The n-th message of a row: the broker gives every send an id of its own.
Message == Row \X (1..MaxSends)

Delivered == {m \in Message : m[2] <= sends[m[1]]}

TypeOK ==
  /\ status \in [Row -> {"none", "pending", "sent", "failed"}]
  /\ retry \in [Row -> Nat]
  /\ attempted \subseteq Row
  /\ sends \in [Row -> 0..MaxSends]
  /\ disp \in [Dispatcher ->
       [pc : {"idle", "publish", "published", "failed"}, list : SUBSET Row]]
  /\ \A d \in Dispatcher : disp[d].pc = "idle" <=> disp[d].list = {}
  /\ cons \in [Consumer -> [pc : {"idle", "upsert", "ack"}, msg : Message \cup {Null}]]
  /\ inbox \subseteq Delivered /\ acked \subseteq Delivered

Init ==
  /\ status = [r \in Row |-> "none"]
  /\ retry = [r \in Row |-> 0]
  /\ attempted = {}
  /\ sends = [r \in Row |-> 0]
  /\ disp = [d \in Dispatcher |-> [pc |-> "idle", list |-> {}]]
  /\ cons = [c \in Consumer |-> [pc |-> "idle", msg |-> Null]]
  /\ inbox = {} /\ acked = {}

-------------------------------------------------------------------------------
(* Rows arrive *)

\* A transaction that wrote a row commits.  Ids are assigned at the insert, so rows of
\* different rounds appear in any order; those of one round appear in the order of
\* their ids, since their writers hold the round's row lock.
Insert(r) ==
  /\ status[r] = "none"
  /\ \A s \in Row : RoundOf[s] = RoundOf[r] /\ s > r => status[s] = "none"
  /\ status' = [status EXCEPT ![r] = "pending"]
  /\ UNCHANGED <<retry, attempted, sends, disp, consVars>>

-------------------------------------------------------------------------------
(* The dispatcher *)

\* Mutant: the listing takes the highest ids.
ListedDescending ==
  LET pending == {r \in Row : status[r] = "pending" /\ retry[r] < MaxRetry}
  IN {r \in pending : Cardinality({s \in pending : s > r}) < Limit}

\* The listing: pending, with attempts left, the lowest ids.
Listed ==
  LET pending == {r \in Row : status[r] = "pending" /\ retry[r] < MaxRetry}
  IN {r \in pending : Cardinality({s \in pending : s < r}) < Limit}

\* The row of the list a dispatcher is at.
Due(d) == Min(disp[d].list)

At(d, pc) == disp[d].pc = pc

\* The list without the row just handled.
Advance(d) ==
  LET rest == disp[d].list \ {Due(d)}
  IN disp' = [disp EXCEPT ![d] = [pc |-> IF rest = {} THEN "idle" ELSE "publish",
                                  list |-> rest]]

List(d) ==
  /\ At(d, "idle") /\ Listed # {}
  /\ disp' = [disp EXCEPT ![d] = [pc |-> "publish", list |-> Listed]]
  /\ UNCHANGED <<rowVars, attempted, sends, consVars>>

\* The broker takes the message.
Send(r) ==
  /\ sends[r] < MaxSends
  /\ sends' = [sends EXCEPT ![r] = @ + 1]

Publish(d) ==
  /\ At(d, "publish")
  /\ Send(Due(d))
  /\ attempted' = attempted \cup {Due(d)}
  /\ disp' = [disp EXCEPT ![d].pc = "published"]
  /\ UNCHANGED <<rowVars, consVars>>

\* An error, though the broker may have the message (the send's 5 s are over).
PublishError(d) ==
  /\ At(d, "publish")
  /\ Send(Due(d)) \/ UNCHANGED sends
  /\ attempted' = attempted \cup {Due(d)}
  /\ disp' = [disp EXCEPT ![d].pc = "failed"]
  /\ UNCHANGED <<rowVars, consVars>>

\* Mutant: a row is marked as sent after an error, too.
MarkSentAnyway(d) ==
  /\ At(d, "published") \/ At(d, "failed")
  /\ status' = [status EXCEPT ![Due(d)] = "sent"]
  /\ Advance(d)
  /\ UNCHANGED <<retry, attempted, sends, consVars>>

MarkSent(d) ==
  /\ At(d, "published")
  /\ status' = [status EXCEPT ![Due(d)] = "sent"]
  /\ Advance(d)
  /\ UNCHANGED <<retry, attempted, sends, consVars>>

\* Mutant: the statement adds to retry_count before it compares.
StatusAfterErrorCountedFirst(r) == IF retry[r] + 1 >= MaxRetry - 1 THEN "failed" ELSE "pending"

\* Whatever the row's status was: a row that another dispatcher sent is pending again.
StatusAfterError(r) == IF retry[r] >= MaxRetry - 1 THEN "failed" ELSE "pending"

\* Mutant: the row is not taken off the list, and the dispatcher waits for its next tick.
MarkFailedKeepsList(d) ==
  /\ At(d, "failed")
  /\ status' = [status EXCEPT ![Due(d)] = StatusAfterError(Due(d))]
  /\ retry' = [retry EXCEPT ![Due(d)] = @ + 1]
  /\ disp' = [disp EXCEPT ![d].pc = "idle"]
  /\ UNCHANGED <<attempted, sends, consVars>>

\* Mutant: the attempt is not counted.
MarkFailedUncounted(d) ==
  /\ At(d, "failed")
  /\ status' = [status EXCEPT ![Due(d)] = StatusAfterError(Due(d))]
  /\ Advance(d)
  /\ UNCHANGED <<retry, attempted, sends, consVars>>

MarkFailed(d) ==
  /\ At(d, "failed")
  /\ status' = [status EXCEPT ![Due(d)] = StatusAfterError(Due(d))]
  /\ retry' = [retry EXCEPT ![Due(d)] = @ + 1]
  /\ Advance(d)
  /\ UNCHANGED <<attempted, sends, consVars>>

\* The UPDATE fails, and the dispatcher goes on to the next row.
MarkLost(d) ==
  /\ At(d, "published") \/ At(d, "failed")
  /\ Advance(d)
  /\ UNCHANGED <<rowVars, attempted, sends, consVars>>

\* The process stops, by crash or shutdown, and its list is gone.
StopDispatcher(d) ==
  /\ ~ At(d, "idle")
  /\ disp' = [disp EXCEPT ![d] = [pc |-> "idle", list |-> {}]]
  /\ UNCHANGED <<rowVars, attempted, sends, consVars>>

-------------------------------------------------------------------------------
(* The consumer *)

\* Mutant: a message counts as acknowledged when it is handed out.
ReceiveAutoAck(c, m) ==
  /\ cons[c].pc = "idle"
  /\ m \in Delivered \ acked
  /\ cons' = [cons EXCEPT ![c] = [pc |-> "upsert", msg |-> m]]
  /\ acked' = acked \cup {m}
  /\ UNCHANGED <<dispVars, inbox>>

\* Messages are received in batches and handled one by one.  One that is not handled
\* yet may be handed out again at any time, so a batch need not be kept.
Receive(c, m) ==
  /\ cons[c].pc = "idle"
  /\ m \in Delivered \ acked
  /\ cons' = [cons EXCEPT ![c] = [pc |-> "upsert", msg |-> m]]
  /\ UNCHANGED <<dispVars, inbox, acked>>

\* The id is the key: a message that is there already leaves the table as it is.
Upsert(c) ==
  /\ cons[c].pc = "upsert"
  /\ inbox' = inbox \cup {cons[c].msg}
  /\ cons' = [cons EXCEPT ![c].pc = "ack"]
  /\ UNCHANGED <<dispVars, acked>>

\* Mutant: a message whose upsert failed is acknowledged.
DropAcknowledged(c) ==
  /\ cons[c].pc # "idle"
  /\ acked' = acked \cup {cons[c].msg}
  /\ cons' = [cons EXCEPT ![c] = [pc |-> "idle", msg |-> Null]]
  /\ UNCHANGED <<dispVars, inbox>>

Ack(c) ==
  /\ cons[c].pc = "ack"
  /\ acked' = acked \cup {cons[c].msg}
  /\ cons' = [cons EXCEPT ![c] = [pc |-> "idle", msg |-> Null]]
  /\ UNCHANGED <<dispVars, inbox>>

\* Upsert or Ack failed, or the process stops: the broker hands the message out again.
Drop(c) ==
  /\ cons[c].pc # "idle"
  /\ cons' = [cons EXCEPT ![c] = [pc |-> "idle", msg |-> Null]]
  /\ UNCHANGED <<dispVars, inbox, acked>>

-------------------------------------------------------------------------------
(* Specification *)

Dispatch(d) ==
  \/ List(d) \/ Publish(d) \/ PublishError(d)
  \/ MarkSent(d) \/ MarkFailed(d) \/ MarkLost(d) \/ StopDispatcher(d)

Consume(c) ==
  \/ \E m \in Message : Receive(c, m)
  \/ Upsert(c) \/ Ack(c) \/ Drop(c)

Next ==
  \/ \E r \in Row : Insert(r)
  \/ \E d \in Dispatcher : Dispatch(d)
  \/ \E c \in Consumer : Consume(c)

Spec == Init /\ [][Next]_vars

Handling(d, r) == disp[d].list # {} /\ Due(d) = r

\* The tickers go on and the broker hands out what is not acknowledged.  No row is
\* always the one at which the processes stop or the UPDATE fails, whichever dispatcher
\* is at it, and no message the one whose storing fails.  A consumer goes on to its next
\* message, though acknowledging may fail forever.
Fairness ==
  /\ WF_vars(\E d \in Dispatcher : List(d))
  /\ \A r \in Row :
       /\ SF_vars(\E d \in Dispatcher : Handling(d, r) /\ (Publish(d) \/ PublishError(d)))
       /\ SF_vars(\E d \in Dispatcher : Handling(d, r) /\ (MarkSent(d) \/ MarkFailed(d)))
  /\ \A m \in Message :
       /\ SF_vars(\E c \in Consumer : Receive(c, m))
       /\ SF_vars(\E c \in Consumer : cons[c].msg = m /\ Upsert(c))
  /\ \A c \in Consumer : WF_vars(Ack(c) \/ Drop(c))

FairSpec == Spec /\ Fairness

-------------------------------------------------------------------------------
(* Properties *)

\* A row that counts as sent has reached the broker, whichever dispatcher sent it and
\* whichever marked it.
SentWasDelivered == \A r \in Row : status[r] = "sent" => sends[r] > 0

\* Nothing is given up before the last attempt, nothing is left pending after it where
\* no listing would find it, and beyond the last attempt each dispatcher that had
\* listed the row before adds at most one.
RetriesAreBounded ==
  \A r \in Row :
    /\ status[r] = "failed" => retry[r] >= MaxRetry
    /\ status[r] = "pending" => retry[r] < MaxRetry
    /\ retry[r] < MaxRetry + Cardinality(Dispatcher)

\* What happened in a round is first published in the order in which it happened, by
\* however many dispatchers: ids of one round follow the commits, listings take the
\* lowest ids, and a row is passed over only after an attempt at it.
FirstAttemptsInOrder ==
  [][\A r, s \in Row :
       /\ r < s /\ RoundOf[r] = RoundOf[s]
       /\ s \in attempted' \ attempted
       /\ status[r] # "none"
       => r \in attempted'
    ]_vars

\* The broker forgets only what the inbox has.
AckedIsStored == acked \subseteq inbox

\* Every row is sent or given up, also behind others that fail and fill the listing.
EveryRowLeaves == \A r \in Row : status[r] = "pending" ~> status[r] \in {"sent", "failed"}

\* Every message the broker got is stored, whatever is lost or stops on the way.
EveryMessageStored == \A m \in Message : m \in Delivered ~> m \in inbox

\* What the models' comments say the inbox and the business key are for: an event is
\* consumed once.  The inbox knows messages by the broker's id, and the business key is
\* not published, so an event that was sent two times is stored two times.
EventStoredOnce == \A m1, m2 \in inbox : m1[1] = m2[1] => m1 = m2
===============================================================================
