------------------------------- MODULE RateLimit -------------------------------
(***************************************************************************)
(* The sliding-window limiter of bets (middleware/ratelimit.go).  A        *)
(* request is checked in up to four dimensions, one after the other.  Each *)
(* check sends four commands on one sorted set of Redis in a pipeline,     *)
(* which is no transaction: the commands of concurrent requests interleave.*)
(* Requests are counted before they are added, and added though they are   *)
(* refused.                                                                *)
(***************************************************************************)
EXTENDS Integers, FiniteSets, Sequences

CONSTANTS Caller,       \* connections, each with one request at a time
          Client,       \* who sends a request: [ip, platform, user], Null for what no
                        \* filter has found out
          Limit,        \* requests in a window, 0 for a dimension that is off
          Period,       \* windowSeconds
          Slack,        \* what a key outlives its window by, 10 s in the code
          MaxRequests,  \* bound: requests
          MaxFailures,  \* bound: pipelines that fail
          MaxClock,     \* bound: seconds
          Null

\* The dimensions in the order of the filter.
Dimensions == <<"global", "ip", "platform", "user">>

Dimension == {Dimensions[i] : i \in DOMAIN Dimensions}

ASSUME RateLimitAssumption ==
  /\ \A u \in Client : DOMAIN u = {"ip", "platform", "user"}
  /\ Limit \in [Dimension -> Nat] /\ Period \in [Dimension -> Nat \ {0}]
  /\ Slack \in Nat /\ MaxRequests \in Nat /\ MaxFailures \in Nat /\ MaxClock \in Nat
  /\ IsFiniteSet(Caller)

VARIABLES clock,        \* in seconds
          issued,       \* requests so far
          failures,     \* pipelines that failed so far
          window,       \* the sorted sets: scored requests of each dimension and key
          expireAt,     \* when a sorted set expires
          check,        \* the check each caller is in
          asked,        \* history: every request added to a sorted set
          admitted      \* history: requests that a count let pass

limitVars == <<clock, issued, failures, window, expireAt, check, asked, admitted>>

-------------------------------------------------------------------------------
(* Data *)

\* A client's key in a dimension.
KeyOf(u, d) == IF d = "global" THEN "all" ELSE u[d]

\* A sorted set's key is its dimension and the client's key in it.
Key == {<<d, KeyOf(u, d)>> : d \in Dimension, u \in Client}

\* A member is the second of a request and a number that tells it from the others of the
\* second, as its nanoseconds do.
Entry == (0..MaxClock) \X (1..MaxRequests)

NextOf(entries, t) == <<t, 1 + Cardinality({e \in entries : e[1] = t})>>

NoCheck == [pc |-> "idle", client |-> Null, dim |-> 0, now |-> 0, count |-> 0]

CheckState ==
  [pc : {"idle", "next", "trim", "count", "add", "expire", "passed", "refused"},
   client : Client \cup {Null}, dim : 0..Len(Dimensions),
   now : 0..MaxClock, count : Nat]

LimitTypeOK ==
  /\ clock \in 0..MaxClock /\ issued \in 0..MaxRequests /\ failures \in 0..MaxFailures
  /\ window \in [Key -> SUBSET Entry]
  /\ expireAt \in [Key -> Nat]
  /\ check \in [Caller -> CheckState]
  /\ asked \in [Key -> SUBSET Entry] /\ admitted \in [Key -> SUBSET Entry]

LimitInit ==
  /\ clock = 0 /\ issued = 0 /\ failures = 0
  /\ window = [k \in Key |-> {}]
  /\ expireAt = [k \in Key |-> 0]
  /\ check = [c \in Caller |-> NoCheck]
  /\ asked = [k \in Key |-> {}] /\ admitted = [k \in Key |-> {}]

-------------------------------------------------------------------------------
(* One request *)

\* The request of caller c enters the filter.
Enter(c, u) ==
  /\ check[c].pc = "idle" /\ issued < MaxRequests
  /\ issued' = issued + 1
  /\ check' = [check EXCEPT ![c] = [NoCheck EXCEPT !.pc = "next", !.client = u]]
  /\ UNCHANGED <<clock, failures, window, expireAt, asked, admitted>>

\* The dimensions still to be checked: those that are on and have a key.
Remaining(c) ==
  {i \in DOMAIN Dimensions : /\ i > check[c].dim
                             /\ Limit[Dimensions[i]] > 0
                             /\ KeyOf(check[c].client, Dimensions[i]) # Null}

\* The first of them; checkRateLimit reads the time.
Begin(c) ==
  /\ check[c].pc = "next"
  /\ \E i \in Remaining(c) :
       /\ \A j \in Remaining(c) : i <= j
       /\ check' = [check EXCEPT ![c].pc = "trim", ![c].dim = i, ![c].now = clock]
  /\ UNCHANGED <<clock, issued, failures, window, expireAt, asked, admitted>>

Pass(c) ==
  /\ check[c].pc = "next" /\ Remaining(c) = {}
  /\ check' = [check EXCEPT ![c].pc = "passed"]
  /\ UNCHANGED <<clock, issued, failures, window, expireAt, asked, admitted>>

KeyAt(c) ==
  LET d == Dimensions[check[c].dim] IN <<d, KeyOf(check[c].client, d)>>

\* Mutant: the window is a second longer.
WindowStartEarlier(c) == check[c].now - Period[KeyAt(c)[1]] - 1

WindowStart(c) == check[c].now - Period[KeyAt(c)[1]]

\* ZREMRANGEBYSCORE, with the start of the window.  A set that is emptied is deleted, and
\* its expiry with it.
Trim(c) ==
  /\ check[c].pc = "trim"
  /\ LET k == KeyAt(c)
         kept == {e \in window[k] : e[1] > WindowStart(c)}
     IN /\ window' = [window EXCEPT ![k] = kept]
        /\ expireAt' = IF kept = {} THEN [expireAt EXCEPT ![k] = 0] ELSE expireAt
  /\ check' = [check EXCEPT ![c].pc = "count"]
  /\ UNCHANGED <<clock, issued, failures, asked, admitted>>

\* ZCOUNT, from the start of the window on.
Count(c) ==
  /\ check[c].pc = "count"
  /\ check' = [check EXCEPT ![c].pc = "add", ![c].count =
       Cardinality({e \in window[KeyAt(c)] : e[1] >= WindowStart(c)})]
  /\ UNCHANGED <<clock, issued, failures, window, expireAt, asked, admitted>>

\* ZADD: the request is added, whatever the count was.
Add(c) ==
  /\ check[c].pc = "add"
  /\ LET k == KeyAt(c)
         new == NextOf(asked[k], check[c].now)
     IN /\ window' = [window EXCEPT ![k] = @ \cup {new}]
        /\ asked' = [asked EXCEPT ![k] = @ \cup {new}]
  /\ check' = [check EXCEPT ![c].pc = "expire"]
  /\ UNCHANGED <<clock, issued, failures, expireAt, admitted>>

\* Mutant: as many requests as the limit are counted, and one more passes.
AllowsUpTo(c) == check[c].count <= Limit[KeyAt(c)[1]]

Allows(c) == check[c].count < Limit[KeyAt(c)[1]]

\* EXPIRE ends the pipeline, and the request passes this dimension or is refused.
Decide(c) ==
  /\ check[c].pc = "expire"
  /\ LET k == KeyAt(c)
     IN /\ expireAt' = IF window[k] = {} THEN expireAt
                       ELSE [expireAt EXCEPT ![k] = clock + Period[k[1]] + Slack]
        /\ admitted' = IF ~ Allows(c) THEN admitted
                       ELSE [admitted EXCEPT ![k] = @ \cup {NextOf(@, check[c].now)}]
  /\ check' = [check EXCEPT ![c].pc = IF Allows(c) THEN "next" ELSE "refused"]
  /\ UNCHANGED <<clock, issued, failures, window, asked>>

\* The pipeline fails, wherever its commands have got to: the request passes.
PipelineFails(c) ==
  /\ check[c].pc \in {"trim", "count", "add", "expire"} /\ failures < MaxFailures
  /\ failures' = failures + 1
  /\ check' = [check EXCEPT ![c].pc = "next"]
  /\ UNCHANGED <<clock, issued, window, expireAt, asked, admitted>>

\* The filter is left.
Leave(c) ==
  /\ check[c].pc \in {"passed", "refused"}
  /\ check' = [check EXCEPT ![c] = NoCheck]
  /\ UNCHANGED <<clock, issued, failures, window, expireAt, asked, admitted>>

-------------------------------------------------------------------------------
(* Time *)

Tick ==
  /\ clock < MaxClock
  /\ clock' = clock + 1
  /\ UNCHANGED <<issued, failures, window, expireAt, check, asked, admitted>>

KeyExpires(k) ==
  /\ expireAt[k] # 0 /\ clock >= expireAt[k]
  /\ window' = [window EXCEPT ![k] = {}]
  /\ expireAt' = [expireAt EXCEPT ![k] = 0]
  /\ UNCHANGED <<clock, issued, failures, check, asked, admitted>>

-------------------------------------------------------------------------------
(* Specification *)

Checking(c) ==
  \/ Begin(c) \/ Pass(c)
  \/ Trim(c) \/ Count(c) \/ Add(c) \/ Decide(c) \/ PipelineFails(c)

LimitNext ==
  \/ \E c \in Caller, u \in Client : Enter(c, u)
  \/ \E c \in Caller : Checking(c) \/ Leave(c)
  \/ Tick
  \/ \E k \in Key : KeyExpires(k)

LimitSpec == LimitInit /\ [][LimitNext]_limitVars

-------------------------------------------------------------------------------
(* Properties *)

\* The requests of a set that were made in the Period seconds up to t.
InPeriod(entries, k, t) == {e \in entries : t - Period[k[1]] < e[1] /\ e[1] <= t}

\* How often each connection may pass beyond what a key holds: with what is counted but
\* not yet added, and with what an earlier reading of the clock still lets count after the
\* entries of its window are gone.  In windows of more than a second a key may also expire
\* under requests that are added while the expiry is still an older one's.
Excess(d) == IF Period[d] = 1 THEN 2 ELSE 3

\* In no window of its length does a key get more requests past the limiter than its
\* limit and the excess of the connections, less one: though counting and adding are no
\* transaction, nobody gets a second limit.  A pipeline that fails counts nothing.
AdmittedWithinLimit ==
  \A k \in Key, t \in 0..MaxClock :
    Limit[k[1]] > 0 =>
      Cardinality(InPeriod(admitted[k], k, t))
        <= Limit[k[1]] - 1 + Excess(k[1]) * Cardinality(Caller)

\* A request is only refused when more requests of its key than the limit allows, its own
\* one of them, were made from the start of its window on: nobody is refused for requests
\* of another key or for old ones, whatever the interleaving of the pipelines.
RefusalsAreEarned ==
  \A c \in Caller :
    check[c].pc = "refused" =>
      Cardinality({e \in asked[KeyAt(c)] : e[1] >= check[c].now - Period[KeyAt(c)[1]]})
        > Limit[KeyAt(c)[1]]
===============================================================================
