-------------------------------- MODULE Gateway --------------------------------
(***************************************************************************)
(* What lies between a client and the three services: the filters that     *)
(* routers/router.go inserts when its package is initialised, from the     *)
(* configuration of that moment; the configuration, which the main program *)
(* loads and sets (config/config.go; the main program itself is not part   *)
(* of the repository); authentication, the limiter of RateLimit, and the   *)
(* controllers with the parsers of Requests.  The services are external    *)
(* here: they answer what their input and any state of theirs allow, and   *)
(* `took` says whether the call changed something.                         *)
(***************************************************************************)
EXTENDS RateLimit, Requests

CONSTANTS File, Nacos,  \* the configurations of the two sources, Null for one that fails
          Offered,      \* the requests that are sent under each configuration
          Bodies        \* the bodies of each path under each configuration

Config == {File, Nacos} \ {Null}

ASSUME GatewayAssumption ==
  /\ \A cfg \in Config :
       DOMAIN cfg = {"demo", "demoPlatform", "admin", "limiter", "platforms"}
  /\ Config \subseteq DOMAIN Offered /\ Config \subseteq DOMAIN Bodies
  /\ Null \notin Client
  /\ \A cfg \in Config : \A r \in Offered[cfg] :
       /\ r.path \in {"bet", "event", "draw"}
       /\ IF cfg.demo
          THEN \A u \in {r.header, r.query, "demo_user_001"} \ {""} :
                 [ip |-> r.ip, platform |-> cfg.demoPlatform, user |-> u] \in Client
          ELSE r.platform \in cfg.platforms /\ r.header \notin {"", "malformed"} =>
                 [ip |-> r.ip, platform |-> r.platform, user |-> r.header] \in Client
  /\ \A cfg \in Config : \A b \in Bodies[cfg].draw : b.cards \in Seq(Range(b.cards))

VARIABLES conf,         \* globalConfig, Null until the main program sets it
          routes,       \* the filters of each path, Null before the package is initialised
          http          \* the request of each caller

gatewayVars == <<conf, routes, http>>

allVars == <<limitVars, conf, routes, http>>

NoReply == [status |-> 0, outcome |-> "", took |-> FALSE, input |-> Invalid]

Idle == [pc |-> "idle", req |-> Null, left |-> <<>>, data |-> Null, reply |-> NoReply]

Filter == {"demo_auth", "platform_auth", "rate_limit", "admin_auth"}

GatewayTypeOK ==
  /\ LimitTypeOK
  /\ conf \in Config \cup {Null}
  /\ routes = Null \/ \A p \in DOMAIN routes : \A i \in DOMAIN routes[p] : routes[p][i] \in Filter
  /\ \A c \in Caller :
       /\ http[c].pc \in {"idle", "filters", "limiting", "answered"}
       /\ http[c].data \in Client \cup {Null}
       /\ http[c].reply.status \in {0, 200, 202, 400, 401, 403, 404, 409, 429, 500}

Init ==
  /\ LimitInit
  /\ conf = Null /\ routes = Null
  /\ http = [c \in Caller |-> Idle]

-------------------------------------------------------------------------------
(* Start-up *)

\* config.Load: Nacos comes first when its address is set, the file when it fails.
Load == IF Nacos = Null THEN {File} \ {Null} ELSE {Nacos, File} \ {Null}

\* The main program sets what it has loaded.
Set ==
  /\ conf = Null /\ conf' \in Load
  /\ UNCHANGED <<limitVars, routes, http>>

\* Mutant: the filters of the demo are inserted when there is no configuration yet.
RoutesForDemo ==
  [bet |-> <<IF conf = Null \/ conf.demo THEN "demo_auth" ELSE "platform_auth">>
            \o IF conf # Null /\ conf.limiter THEN <<"rate_limit">> ELSE <<>>,
   event |-> IF conf # Null /\ conf.admin THEN <<"admin_auth">> ELSE <<>>,
   draw |-> IF conf # Null /\ conf.admin THEN <<"admin_auth">> ELSE <<>>]

\* The filters of the moment's configuration.
Routes ==
  [bet |-> <<IF conf # Null /\ conf.demo THEN "demo_auth" ELSE "platform_auth">>
            \o IF conf # Null /\ conf.limiter THEN <<"rate_limit">> ELSE <<>>,
   event |-> IF conf # Null /\ conf.admin THEN <<"admin_auth">> ELSE <<>>,
   draw |-> IF conf # Null /\ conf.admin THEN <<"admin_auth">> ELSE <<>>]

InsertFilters ==
  /\ routes = Null /\ routes' = Routes
  /\ UNCHANGED <<limitVars, conf, http>>

-------------------------------------------------------------------------------
(* Requests and their filters *)

Arrive(c, r) ==
  /\ conf # Null /\ routes # Null /\ http[c].pc = "idle"
  /\ r.path = "bet" => issued < MaxRequests
  /\ http' = [http EXCEPT ![c] = [Idle EXCEPT !.pc = "filters", !.req = r,
                                              !.left = routes[r.path]]]
  /\ UNCHANGED <<limitVars, conf, routes>>

\* A filter that writes an answer ends the request.
Refuse(c, status) ==
  /\ http' = [http EXCEPT ![c].pc = "answered",
                          ![c].reply = [NoReply EXCEPT !.status = status, !.outcome = "filter"]]
  /\ UNCHANGED <<limitVars, conf, routes>>

PassFilter(c, data) ==
  /\ http' = [http EXCEPT ![c].left = Tail(@), ![c].data = data]
  /\ UNCHANGED <<limitVars, conf, routes>>

\* Whose turn it is among the filters left.
Before(c, filter) ==
  http[c].pc = "filters" /\ http[c].left # <<>> /\ Head(http[c].left) = filter

\* Mutant: a request without a user stays without one.
DemoUserNoDefault(r) == IF r.header # "" THEN r.header ELSE r.query

\* The demo takes the header's user, the query's or a fixed one.
DemoUser(r) == CASE r.header # "" -> r.header [] r.query # "" -> r.query [] OTHER -> "demo_user_001"

DemoData(r) == [ip |-> r.ip, platform |-> conf.demoPlatform, user |-> DemoUser(r)]

DemoAuthFilter(c) ==
  /\ Before(c, "demo_auth")
  /\ PassFilter(c, IF conf = Null \/ ~ conf.demo THEN http[c].data ELSE DemoData(http[c].req))

\* What VerifyPlatformSignature says of a request, whose proof names the first of its
\* checks that fails, "good" if none does; platforms come from the configuration.
\* The store of nonces is Redis: "nonce" is a nonce it still knows.  A wrong signature is
\* "short" if it has less than the 16 characters that the log line about it cuts off.
VerifyPlatformSignature(r) ==
  IF r.proof \in {"headers", "timestamp", "nonce"} THEN r.proof
  ELSE IF r.platform \notin conf.platforms THEN "platform" ELSE r.proof

\* Outside the demo: the signature's checks, then the user, who must be given and well
\* formed.  Cutting a short signature panics, which the web framework answers.
PlatformAuthFilter(c) ==
  /\ Before(c, "platform_auth")
  /\ LET r == http[c].req
         verdict == VerifyPlatformSignature(r)
     IN \/ conf.demo /\ PassFilter(c, DemoData(r))
        \/ ~ conf.demo /\ verdict \in {"disabled", "ip"} /\ Refuse(c, 403)
        \/ ~ conf.demo /\ verdict = "short" /\ Refuse(c, 500)
        \/ ~ conf.demo /\ verdict \notin {"good", "disabled", "ip", "short"} /\ Refuse(c, 401)
        \/ ~ conf.demo /\ verdict = "good" /\ r.header \in {"", "malformed"} /\ Refuse(c, 400)
        \/ /\ ~ conf.demo /\ verdict = "good" /\ r.header \notin {"", "malformed"}
           /\ PassFilter(c, [ip |-> r.ip, platform |-> r.platform, user |-> r.header])

AdminAuthFilter(c) ==
  /\ Before(c, "admin_auth")
  /\ IF conf.admin /\ ~ http[c].req.token THEN Refuse(c, 401) ELSE PassFilter(c, http[c].data)

\* What the limiter knows of a sender: its address, and what authentication left.
Sender(c) ==
  IF http[c].data = Null THEN [ip |-> http[c].req.ip, platform |-> Null, user |-> Null]
  ELSE http[c].data

\* The filter is only inserted when the limiter is on, and Redis is configured.
EnterLimiter(c) ==
  /\ Before(c, "rate_limit")
  /\ Enter(c, Sender(c))
  /\ http' = [http EXCEPT ![c].pc = "limiting"]
  /\ UNCHANGED <<conf, routes>>

\* The limiter's verdict: the request goes on, or is answered with 429.
LeaveLimiter(c) ==
  /\ http[c].pc = "limiting" /\ Leave(c)
  /\ http' = IF check[c].pc = "passed"
             THEN [http EXCEPT ![c].pc = "filters", ![c].left = Tail(@)]
             ELSE [http EXCEPT ![c].pc = "answered",
                               ![c].reply = [NoReply EXCEPT !.status = 429, !.outcome = "limit"]]
  /\ UNCHANGED <<conf, routes>>

-------------------------------------------------------------------------------
(* Controllers *)

\* No filter is left, and the path's controller runs.
AtController(c, path) ==
  http[c].pc = "filters" /\ http[c].left = <<>> /\ http[c].req.path = path

Answer(c, status, outcome, took, input) ==
  /\ http' = [http EXCEPT ![c].pc = "answered",
       ![c].reply = [status |-> status, outcome |-> outcome, took |-> took, input |-> input]]
  /\ UNCHANGED <<limitVars, conf, routes>>

BadBody(c) == Answer(c, 400, "body", FALSE, Invalid)

\* The customer of a bet: the one the filter found out, else the user of the body.
Attributed(p, data) ==
  IF data = Null
  THEN [platform |-> "0", user |-> IF p.user # 0 THEN "body_user" ELSE ""]
  ELSE [platform |-> data.platform, user |-> data.user]

\* What PlaceBet may answer: "state" stands for a round that takes no bet or not this one,
\* "refused" for a customer without the balance or disabled.  An error after its
\* transaction began leaves open whether it was committed; an answer of success may be that
\* of an earlier call.
PlaceBet(p) ==
  IF ~ AmountAccepted(p.amount) THEN {<<"amount", FALSE>>}
  ELSE ({"ok", "failed"} \X BOOLEAN) \cup
       ({"in_flight", "duplicate", "state", "refused"} \X {FALSE})

Bet(c) ==
  /\ AtController(c, "bet")
  /\ \E b \in Bodies[conf].bet :
       LET p == ParseAndValidateBet(b) IN
       \/ ~ p.valid /\ BadBody(c)
       \/ /\ p.valid
          /\ \E answer \in PlaceBet(p) :
               Answer(c, BetStatus(answer[1]), answer[1], answer[2],
                      [p EXCEPT !.user = Attributed(p, http[c].data)])

\* A Go conversion to int8: the controller's, of the event whose range was checked.
Int8(n) == ((n + 128) % 256) - 128

GameEvent(c) ==
  /\ AtController(c, "event")
  /\ \E b \in Bodies[conf].event :
       LET p == ParseAndValidateGameEvent(b) IN
       \/ ~ p.valid /\ BadBody(c)
       \/ /\ p.valid
          /\ \E answer \in ({"ok", "failed"} \X BOOLEAN) \cup {<<"state", FALSE>>} :
               Answer(c, EventStatus(answer[1]), answer[1], answer[2],
                      [p EXCEPT !.event = Int8(@)])

\* What SubmitDrawResult may answer.
SubmitDrawResult(p) ==
  IF decideResult(p.cards) = "" THEN {<<"cards", FALSE>>}
  ELSE ({"ok", "failed"} \X BOOLEAN) \cup ({"state", "no_round"} \X {FALSE})

Drawresult(c) ==
  /\ AtController(c, "draw")
  /\ \E b \in Bodies[conf].draw :
       LET p == ParseAndValidateDrawResult(b) IN
       \/ ~ p.valid /\ BadBody(c)
       \/ /\ p.valid
          /\ \E answer \in SubmitDrawResult(p) :
               Answer(c, DrawStatus(answer[1]), answer[1], answer[2], p)

\* The answer is sent and the connection is free.
Return(c) ==
  /\ http[c].pc = "answered"
  /\ http' = [http EXCEPT ![c] = Idle]
  /\ UNCHANGED <<limitVars, conf, routes>>

-------------------------------------------------------------------------------
(* Specification *)

\* A step of the limiter for a caller that is in it, of its clock or of Redis.  Only the
\* limiter reads the clock: it stands still, as a bound, where requests are not limited.
Limiter ==
  /\ \/ \E c \in Caller : Checking(c)
     \/ routes # Null /\ "rate_limit" \in Range(routes.bet) /\ Tick
     \/ \E k \in Key : KeyExpires(k)
  /\ UNCHANGED gatewayVars

Filtering(c) ==
  \/ DemoAuthFilter(c) \/ PlatformAuthFilter(c) \/ AdminAuthFilter(c)
  \/ EnterLimiter(c) \/ LeaveLimiter(c)

Next ==
  \/ Set \/ InsertFilters \/ Limiter
  \/ \E c \in Caller :
       \/ \E r \in IF conf = Null THEN {} ELSE Offered[conf] : Arrive(c, r)
       \/ Filtering(c) \/ Bet(c) \/ GameEvent(c) \/ Drawresult(c) \/ Return(c)

Spec == Init /\ [][Next]_allVars

-------------------------------------------------------------------------------
(* Properties *)

\* The input a service was given, for a request that got so far.
Served(c, path) == http[c].reply.input.valid /\ http[c].req.path = path

\* Whichever way a body takes through the parsers, a form's strict one or JSON's that
\* takes what decodes, the service only sees what it relies on without looking again: an
\* event from 1 to 5, a round that is no blank text, a stake in whole cents on one of the
\* three plays.  A number is cut to 8 bits after its range was checked.
ServiceInputsAreSound ==
  \A c \in Caller :
    /\ Served(c, "bet") =>
         LET in == http[c].reply.input IN
         /\ in.play \in 1..3 /\ Amount[in.amount.core] % 10 = 0
         /\ Amount[in.amount.core] >= 0
    /\ Served(c, "event") => LET in == http[c].reply.input IN in.event \in 1..5 /\ in.round.core # ""

\* The result of a draw does not hang on the order of the list's tokens.  The validator
\* only looks for letters and the parser of the service lets the last card of a side
\* count: it is the two together that leave no list with two cards of a side.
DrawOrderIrrelevant ==
  \A c \in Caller :
    Served(c, "draw") =>
      LET cards == http[c].reply.input.cards
          Orders == {o \in [DOMAIN cards -> DOMAIN cards] :
                       \A i, j \in DOMAIN cards : o[i] = o[j] => i = j}
      IN \A o \in Orders : decideResult([i \in DOMAIN cards |-> cards[o[i]]]) = decideResult(cards)

\* A client that gets 200 was served, one that gets 202 has the same bet in flight, and a
\* bet or a draw that changed something is answered with 200 or with 500: a refusal,
\* whoever gave it, means that nothing was done.  (An event that failed is answered as
\* an illegal state, even if its transaction was committed.)
AnswersTellTheOutcome ==
  \A c \in Caller :
    http[c].pc = "answered" =>
      LET reply == http[c].reply IN
      /\ reply.status = 200 => reply.outcome = "ok"
      /\ reply.status = 202 <=> reply.outcome = "in_flight"
      /\ reply.status = 429 <=> reply.outcome = "limit"
      /\ reply.took /\ http[c].req.path # "event" => reply.status \in {200, 500}

\* A bet that gets to the service is the bet of the customer that the request stands for:
\* outside the demo the header's user on the platform that signed, never the body's.  The
\* filter that says so was chosen before, maybe long before, the configuration was set.
BetsAreAttributed ==
  \A c \in Caller :
    Served(c, "bet") =>
      LET r == http[c].req
          customer == http[c].reply.input.user
      IN IF conf.demo THEN customer = [platform |-> conf.demoPlatform, user |-> DemoUser(r)]
         ELSE /\ r.proof = "good" /\ r.platform \in conf.platforms
              /\ customer = [platform |-> r.platform, user |-> r.header]
===============================================================================
