------------------------------- MODULE MCGateway -------------------------------
(***************************************************************************)
(* An instance of Gateway for TLC: Nacos holds a production configuration  *)
(* with the limiter on, the file that of a demo without limits.  Few       *)
(* requests and bodies go through the limiter, all kinds of them to the    *)
(* demo.                                                                   *)
(***************************************************************************)
EXTENDS Gateway, TLC

CONSTANTS c1, c2

Production == [demo |-> FALSE, demoPlatform |-> "99", admin |-> TRUE, limiter |-> TRUE,
               platforms |-> {"1", "2"}]

Demo == [demo |-> TRUE, demoPlatform |-> "99", admin |-> TRUE, limiter |-> FALSE,
         platforms |-> {}]

Sent == [path |-> "bet", ip |-> "here", platform |-> "1", header |-> "ann", query |-> "",
         proof |-> "good", token |-> FALSE]

ProductionRequests ==
  {Sent, [Sent EXCEPT !.header = "malformed"]} \cup
  {[Sent EXCEPT !.proof = p] : p \in {"disabled", "short"}}

DemoRequests ==
  {[Sent EXCEPT !.header = ""], [Sent EXCEPT !.header = "", !.query = "bob"]} \cup
  {[Sent EXCEPT !.path = p, !.token = t] : p \in {"event", "draw"}, t \in BOOLEAN}

T(core) == [core |-> core, padded |-> FALSE]

Num(n) == [is |-> "int", n |-> n]

Word == [is |-> "word", n |-> 0]

GoodBet == [json |-> TRUE, broken |-> FALSE, game |-> T("g"), room |-> T("r"),
            round |-> T("x"), user |-> Num(5), amount |-> T("a1_5"), play |-> Num(1),
            key |-> T("k")]

\* A good bet, and every bet that differs from it in one field.
BetBodies ==
  UNION {{[b EXCEPT !.broken = TRUE], [b EXCEPT !.user = Num(0)], [b EXCEPT !.user = Word],
          [b EXCEPT !.round = T("")], [b EXCEPT !.key = T("long")],
          [b EXCEPT !.game = [core |-> "", padded |-> TRUE]]} \cup
         {[b EXCEPT !.amount = [core |-> a, padded |-> blank]] :
            a \in DOMAIN Amount \cup {"", "long"}, blank \in BOOLEAN} \cup
         {[b EXCEPT !.play = n] : n \in {Num(i) : i \in 0..4} \cup {Word}}
         : b \in {GoodBet, [GoodBet EXCEPT !.json = FALSE]}}

EventBodies ==
  {[json |-> j, broken |-> b, round |-> r, event |-> e] :
     j \in BOOLEAN, b \in BOOLEAN, r \in {T("x"), [core |-> "", padded |-> TRUE]},
     e \in {Num(i) : i \in {-1, 0, 5, 6, 257}} \cup {Word, [is |-> "frac", n |-> 3]}}

Tokens ==
  {[first |-> "d", rest |-> "c1"], [first |-> "d", rest |-> "c2"], [first |-> "t", rest |-> "c2"],
   [first |-> "r", rest |-> "t"], [first |-> "d", rest |-> "ragon"]}

DrawBodies ==
  {[json |-> TRUE, broken |-> FALSE, round |-> T("x"), time |-> Num(0), cards |-> l] :
     l \in UNION {[1..n -> Tokens] : n \in {1, 3}}} \cup
  {[json |-> j, broken |-> b, round |-> T("x"), time |-> Word, cards |-> <<[first |-> "t", rest |-> "ie"]>>] :
     j \in BOOLEAN, b \in BOOLEAN}

TheBodies ==
  Production :> [bet |-> {GoodBet}, event |-> {}, draw |-> {}] @@
  Demo :> [bet |-> BetBodies, event |-> EventBodies, draw |-> DrawBodies]

TheRequests == Production :> ProductionRequests @@ Demo :> DemoRequests

Clients == {[ip |-> "here", platform |-> "1", user |-> "ann"]} \cup
           {[ip |-> "here", platform |-> "99", user |-> u] : u \in {"ann", "bob", "demo_user_001"}}

Limits == [global |-> 0, ip |-> 0, platform |-> 0, user |-> 1]

Periods == [global |-> 1, ip |-> 1, platform |-> 1, user |-> 1]

\* Callers are interchangeable.
Symmetry == Permutations(Caller)
===============================================================================
