------------------------------ MODULE LedgerProofs -----------------------------
(***************************************************************************)
(* Proofs about the money of Table: the ledger lines of every user lead,   *)
(* without a gap, from the first balance to the present one; every order   *)
(* has its one line that takes the stake and, if it won, its one line that *)
(* pays; and every balance is the first one less the stakes of the user's  *)
(* orders and with what they won.  Only the commit of a bet and that of a  *)
(* draw write a ledger; TableProofs says what they write and which lines a *)
(* settlement consists of.                                                 *)
(***************************************************************************)
EXTENDS TableProofs

\* Lines that lead from one balance to another, each starting where the last ended.
Chain(from, lines, to) ==
  /\ \A i \in 1..Len(lines) : lines[i].before = IF i = 1 THEN from ELSE lines[i - 1].after
  /\ Reached(from, lines) = to

\* The places of the lines of one kind about one bet.
About(lines, bet, kind) ==
  {i \in 1..Len(lines) : lines[i].bet = bet /\ lines[i].kind = kind}

\* What a ledger says of a bet whose order is o.
BookedOnce(bet, o, lines) ==
  /\ o = NoOrder => About(lines, bet, "bet") = {}
  /\ o # NoOrder => \E i \in 1..Len(lines) :
       About(lines, bet, "bet") = {i} /\ lines[i].before - lines[i].after = Terms[bet].amount
  /\ o.win = 0 => About(lines, bet, "settle") = {}
  /\ o.win > 0 => \E i \in 1..Len(lines) :
       About(lines, bet, "settle") = {i} /\ lines[i].after - lines[i].before = o.win

Chained == \A u \in User : Chain(Funds[u], ledger[u], balance[u])

Booking == \A bet \in Bet : BookedOnce(bet, order[bet], ledger[Terms[bet].user])

LedgerIInv == TableIInv /\ Chained /\ Booking

-------------------------------------------------------------------------------
(* Ledgers that grow *)

\* One more line, from where the chain has come to.
LEMMA ChainAppends ==
  ASSUME NEW from, NEW l \in Seq(Line), NEW x \in Line, Chain(from, l, x.before)
  PROVE  Chain(from, Append(l, x), x.after)
<1> DEFINE k == Append(l, x)
<1>1. /\ k \in Seq(Line) /\ Len(k) = Len(l) + 1 /\ k[Len(l) + 1] = x
      /\ \A i \in 1..Len(l) : k[i] = l[i]
  OBVIOUS
<1> HIDE DEF k
<1>2. x.before = IF Len(l) = 0 THEN from ELSE l[Len(l)].after
  BY DEF Chain, Reached
<1>3. ASSUME NEW i \in 1..Len(k)
      PROVE  k[i].before = IF i = 1 THEN from ELSE k[i - 1].after
  <2>1. CASE i = Len(l) + 1
    <3>1. i # 1 => i - 1 = Len(l) /\ Len(l) \in 1..Len(l)
      BY <2>1
    <3> QED BY <1>1, <1>2, <2>1, <3>1
  <2>2. CASE i # Len(l) + 1
    <3>1. i \in 1..Len(l) /\ (i # 1 => i - 1 \in 1..Len(l))
      BY <1>1, <2>2
    <3>2. l[i].before = IF i = 1 THEN from ELSE l[i - 1].after
      BY <3>1 DEF Chain
    <3> QED BY <1>1, <3>1, <3>2
  <2> QED BY <2>1, <2>2
<1>4. Reached(from, k) = x.after
  <2>1. k # << >>
    BY <1>1
  <2> QED BY <1>1, <2>1 DEF Reached
<1>5. Chain(from, k, x.after)
  BY <1>3, <1>4 DEF Chain
<1> QED BY <1>5 DEF k

\* Two chains, the second from where the first has come to.
LEMMA ChainsJoin ==
  ASSUME NEW from, NEW mid, NEW to, NEW l \in Seq(Line), NEW m \in Seq(Line),
         Chain(from, l, mid), Chain(mid, m, to)
  PROVE  Chain(from, l \o m, to)
<1> DEFINE k == l \o m
<1>1. /\ k \in Seq(Line) /\ Len(k) = Len(l) + Len(m)
      /\ \A i \in 1..Len(l) : k[i] = l[i]
      /\ \A i \in 1..Len(m) : k[Len(l) + i] = m[i]
  OBVIOUS
<1> HIDE DEF k
<1>2. mid = IF Len(l) = 0 THEN from ELSE l[Len(l)].after
  BY DEF Chain, Reached
<1>3. ASSUME NEW i \in 1..Len(k)
      PROVE  k[i].before = IF i = 1 THEN from ELSE k[i - 1].after
  <2>1. CASE i \in 1..Len(l)
    <3>1. i # 1 => i - 1 \in 1..Len(l)
      BY <2>1
    <3>2. l[i].before = IF i = 1 THEN from ELSE l[i - 1].after
      BY <2>1 DEF Chain
    <3> QED BY <1>1, <2>1, <3>1, <3>2
  <2>2. CASE i \notin 1..Len(l)
    <3>1. PICK j \in 1..Len(m) : i = Len(l) + j
      <4>1. i - Len(l) \in 1..Len(m) /\ i = Len(l) + (i - Len(l))
        BY <1>1, <2>2
      <4> QED BY <4>1
    <3>2. k[i] = m[j] /\ m[j].before = IF j = 1 THEN mid ELSE m[j - 1].after
      BY <1>1, <3>1 DEF Chain
    <3>3. CASE j = 1
      <4>1. i - 1 = Len(l) /\ (i # 1 => Len(l) \in 1..Len(l))
        BY <3>1, <3>3
      <4>2. i # 1 => k[i - 1] = l[Len(l)]
        BY <1>1, <4>1
      <4>3. (i = 1) <=> (Len(l) = 0)
        BY <3>1, <3>3
      <4> QED BY <1>2, <3>2, <3>3, <4>2, <4>3
    <3>4. CASE j # 1
      <4>1. j - 1 \in 1..Len(m) /\ i - 1 = Len(l) + (j - 1) /\ i # 1
        BY <3>1, <3>4
      <4>2. k[i - 1] = m[j - 1]
        BY <1>1, <4>1
      <4> QED BY <3>2, <3>4, <4>1, <4>2
    <3> QED BY <3>3, <3>4
  <2> QED BY <2>1, <2>2
<1>4. Reached(from, k) = to
  <2>1. CASE m = << >>
    <3>1. k = l /\ to = mid
      BY <2>1 DEF k, Chain, Reached
    <3> QED BY <3>1 DEF Chain
  <2>2. CASE m # << >>
    <3>1. Len(m) \in 1..Len(m) /\ k # << >>
      BY <1>1, <2>2
    <3>2. k[Len(k)] = m[Len(m)]
      BY <1>1, <3>1
    <3> QED BY <2>2, <3>1, <3>2 DEF Chain, Reached
  <2> QED BY <2>1, <2>2
<1>5. Chain(from, k, to)
  BY <1>3, <1>4 DEF Chain
<1> QED BY <1>5 DEF k

\* Places n further on.
Later(n, places) == {n + i : i \in places}

\* Lines k are lines l followed by lines m, and about the same bets.
Joined(l, m, k) ==
  /\ Len(k) = Len(l) + Len(m) /\ Len(l) \in Nat /\ Len(m) \in Nat
  /\ \A i \in 1..Len(l) : k[i] = l[i]
  /\ \A i \in 1..Len(m) : k[Len(l) + i] = m[i]
  /\ \A bet, kind :
       About(k, bet, kind) = About(l, bet, kind) \cup Later(Len(l), About(m, bet, kind))

\* Which lines are about a bet, when lines are added.
LEMMA AboutJoined ==
  ASSUME NEW l \in Seq(Line), NEW m \in Seq(Line)
  PROVE  Joined(l, m, l \o m)
<1>0. PICK k : k = l \o m
  OBVIOUS
<1>1. /\ k \in Seq(Line) /\ Len(k) = Len(l) + Len(m) /\ Len(l) \in Nat /\ Len(m) \in Nat
      /\ \A i \in 1..Len(l) : k[i] = l[i]
      /\ \A i \in 1..Len(m) : k[Len(l) + i] = m[i]
  BY <1>0
<1>2. \A i \in 1..Len(k) : i \in 1..Len(l) \/ (i - Len(l) \in 1..Len(m) /\ i = Len(l) + (i - Len(l)))
  BY <1>1
<1>3. ASSUME NEW bet, NEW kind
      PROVE  About(k, bet, kind) = About(l, bet, kind) \cup Later(Len(l), About(m, bet, kind))
  <2>1. ASSUME NEW i \in About(k, bet, kind)
        PROVE  i \in About(l, bet, kind) \cup Later(Len(l), About(m, bet, kind))
    <3>1. i \in 1..Len(k) /\ k[i].bet = bet /\ k[i].kind = kind
      BY DEF About
    <3>2. CASE i \in 1..Len(l)
      BY <1>1, <3>1, <3>2 DEF About
    <3>3. CASE i - Len(l) \in 1..Len(m) /\ i = Len(l) + (i - Len(l))
      <4>1. i - Len(l) \in About(m, bet, kind)
        BY <1>1, <3>1, <3>3 DEF About
      <4> QED BY <3>3, <4>1 DEF Later
    <3> QED BY <1>2, <3>1, <3>2, <3>3
  <2>2. ASSUME NEW i \in About(l, bet, kind) PROVE i \in About(k, bet, kind)
    BY <1>1 DEF About
  <2>3. ASSUME NEW j \in About(m, bet, kind) PROVE Len(l) + j \in About(k, bet, kind)
    <3>1. j \in 1..Len(m) /\ m[j].bet = bet /\ m[j].kind = kind
      BY DEF About
    <3>2. Len(l) + j \in 1..Len(k) /\ k[Len(l) + j] = m[j]
      BY <1>1, <3>1
    <3> QED BY <3>1, <3>2 DEF About
  <2> QED BY <2>1, <2>2, <2>3 DEF Later
<1>4. Joined(l, m, k)
  BY <1>1, <1>3 DEF Joined
<1> QED BY <1>0, <1>4

\* Lines that are not about a bet leave what the ledger says of it.
LEMMA BookedOnceKept ==
  ASSUME NEW l \in Seq(Line), NEW m \in Seq(Line), NEW bet, NEW o, NEW new, BookedOnce(bet, o, l),
         About(m, bet, "bet") = {}, About(m, bet, "settle") = {},
         new.win = o.win, (new = NoOrder) <=> (o = NoOrder)
  PROVE  BookedOnce(bet, new, l \o m)
<1>2. PICK k : k = l \o m /\ Joined(l, m, k)
  BY AboutJoined
<1>1. /\ About(k, bet, "bet") = About(l, bet, "bet")
      /\ About(k, bet, "settle") = About(l, bet, "settle")
      /\ \A i \in 1..Len(l) : i \in 1..Len(k) /\ k[i] = l[i]
  <2>1. /\ Len(k) = Len(l) + Len(m) /\ Len(l) \in Nat /\ Len(m) \in Nat
        /\ \A i \in 1..Len(l) : k[i] = l[i]
    BY <1>2 DEF Joined
  <2>2. \A kind : About(k, bet, kind) = About(l, bet, kind) \cup Later(Len(l), About(m, bet, kind))
    BY <1>2 DEF Joined
  <2>3. Later(Len(l), {}) = {}
    BY DEF Later
  <2>4. \A kind : About(m, bet, kind) = {} => About(k, bet, kind) = About(l, bet, kind)
    BY <2>2, <2>3
  <2>5. ASSUME NEW i \in 1..Len(l) PROVE i \in 1..Len(k) /\ k[i] = l[i]
    BY <2>1
  <2> QED BY <2>4, <2>5
<1>3. new # NoOrder => \E i \in 1..Len(k) :
        About(k, bet, "bet") = {i} /\ k[i].before - k[i].after = Terms[bet].amount
  BY <1>1, <1>2 DEF BookedOnce
<1>4. new.win > 0 => \E i \in 1..Len(k) :
        About(k, bet, "settle") = {i} /\ k[i].after - k[i].before = new.win
  BY <1>1, <1>2 DEF BookedOnce
<1> QED BY <1>1, <1>2, <1>3, <1>4 DEF BookedOnce

\* The ledger's line of a bet that is taken.
LEMMA OneLine ==
  ASSUME NEW x \in Line
  PROVE  /\ <<x>> \in Seq(Line) /\ Len(<<x>>) = 1 /\ <<x>>[1] = x
         /\ \A bet, kind : ~ (x.bet = bet /\ x.kind = kind) => About(<<x>>, bet, kind) = {}
         /\ \A bet, kind : x.bet = bet /\ x.kind = kind => About(<<x>>, bet, kind) = {1}
<1>1. <<x>> \in Seq(Line) /\ Len(<<x>>) = 1 /\ <<x>>[1] = x
  OBVIOUS
<1>2. PICK l : l = <<x>>
  OBVIOUS
<1>3. Len(l) = 1 /\ l[1] = x /\ 1..Len(l) = {1}
  BY <1>1, <1>2
<1>4. \A bet, kind : ~ (x.bet = bet /\ x.kind = kind) => About(l, bet, kind) = {}
  BY <1>3 DEF About
<1>5. \A bet, kind : x.bet = bet /\ x.kind = kind => About(l, bet, kind) = {1}
  BY <1>3 DEF About
<1> QED BY <1>1, <1>2, <1>4, <1>5

-------------------------------------------------------------------------------
(* The two commits *)

\* The line that a bet books goes on where its customer's last one ended.
LEMMA BetKeepsLedger ==
  ASSUME LedgerIInv, TableTypeOK', NEW b, NEW bet, NEW u, NEW r, BetCommits(b, bet, u, r)
  PROVE  Chained' /\ Booking'
<1>1. TableTypeOK /\ Chained /\ Booking /\ OrdersSound
  BY DEF LedgerIInv, TableIInv
<1>2. PICK x : x = [bet |-> bet, kind |-> "bet", before |-> balance[u],
                    after |-> balance[u] - Terms[bet].amount]
  OBVIOUS
<1>3. /\ bet \in Bet /\ u \in User /\ u = Terms[bet].user /\ order[bet] = NoOrder
      /\ balance[u] >= Terms[bet].amount
      /\ order' = [order EXCEPT ![bet] = [bill |-> "pending", win |-> 0]]
      /\ balance' = [balance EXCEPT ![u] = balance[u] - Terms[bet].amount]
      /\ ledger' = [ledger EXCEPT ![u] = Append(@, x)]
  BY <1>2 DEF BetCommits
<1>4. balance[u] \in Nat /\ Terms[bet].amount \in Nat /\ balance[u] - Terms[bet].amount \in Nat
  BY <1>1, <1>3, OrdersAssumption DEF TableTypeOK
<1>5. /\ x \in Line /\ x.bet = bet /\ x.kind = "bet" /\ x.before = balance[u]
      /\ x.after = balance[u] - Terms[bet].amount
  BY <1>2, <1>3, <1>4 DEF Line
<1>6. /\ ledger'[u] = Append(ledger[u], x) /\ balance'[u] = x.after
      /\ \A v \in User \ {u} : ledger'[v] = ledger[v] /\ balance'[v] = balance[v]
  BY <1>1, <1>3, <1>5 DEF TableTypeOK
<1>7. \A v \in User : ledger[v] \in Seq(Line)
  BY <1>1 DEF TableTypeOK
<1>8. Chained'
  <2>1. ASSUME NEW v \in User PROVE Chain(Funds[v], ledger'[v], balance'[v])
    <3>1. Chain(Funds[v], ledger[v], balance[v])
      BY <1>1 DEF Chained
    <3>2. CASE v = u
      <4>1. Chain(Funds[u], ledger[u], x.before) /\ ledger[u] \in Seq(Line)
        BY <1>3, <1>5, <1>7, <3>1, <3>2
      <4>2. Chain(Funds[u], Append(ledger[u], x), x.after)
        BY <1>5, <4>1, ChainAppends
      <4> QED BY <1>6, <3>2, <4>2
    <3>3. CASE v # u
      BY <1>6, <3>1, <3>3
    <3> QED BY <3>2, <3>3
  <2> QED BY <2>1 DEF Chained
<1>9. /\ order'[bet] = [bill |-> "pending", win |-> 0]
      /\ \A other \in Bet \ {bet} : order'[other] = order[other]
  BY <1>1, <1>3 DEF TableTypeOK
<1>10. ledger'[u] = ledger[u] \o <<x>>
  <2>1. ledger[u] \in Seq(Line) /\ x \in Line
    BY <1>3, <1>5, <1>7
  <2>2. Append(ledger[u], x) = ledger[u] \o <<x>>
    BY ONLY <2>1, AppendIsConcat
  <2>3. ledger'[u] = Append(ledger[u], x)
    BY <1>6
  <2> QED BY ONLY <2>2, <2>3
<1>11. ASSUME NEW other \in Bet
       PROVE  BookedOnce(other, order'[other], ledger'[Terms[other].user])
  <2>1. BookedOnce(other, order[other], ledger[Terms[other].user]) /\ Terms[other].user \in User
    BY <1>1, OrdersAssumption DEF Booking
  <2>2. CASE Terms[other].user # u
    BY <1>3, <1>6, <1>9, <2>1, <2>2
  <2>3. CASE Terms[other].user = u /\ other # bet
    <3>1. About(<<x>>, other, "bet") = {} /\ About(<<x>>, other, "settle") = {}
      BY <1>5, <2>3, OneLine
    <3>2. <<x>> \in Seq(Line) /\ ledger[u] \in Seq(Line) /\ order'[other] = order[other]
      BY <1>3, <1>5, <1>7, <1>9, <2>3, OneLine
    <3> QED BY <1>10, <2>1, <2>3, <3>1, <3>2, BookedOnceKept
  <2>4. CASE other = bet
    <3>1. PICK l \in Seq(Line), m \in Seq(Line) : l = ledger[u] /\ m = <<x>>
      BY <1>3, <1>5, <1>7, OneLine
    <3>2. PICK k : k = l \o m /\ Joined(l, m, k)
      BY AboutJoined
    <3>3. About(m, bet, "bet") = {1} /\ About(m, bet, "settle") = {} /\ m[1] = x /\ Len(m) = 1
      <4>1. m[1] = x /\ Len(m) = 1
        BY <1>5, <3>1, OneLine
      <4>2. About(m, bet, "bet") = {1}
        BY <1>5, <3>1, OneLine
      <4>3. About(m, bet, "settle") = {}
        BY <1>5, <3>1, OneLine
      <4> QED BY <4>1, <4>2, <4>3
    <3>4. About(l, bet, "bet") = {} /\ About(l, bet, "settle") = {}
      BY <1>3, <2>1, <2>4, <3>1 DEF BookedOnce, NoOrder
    <3>5. /\ About(k, bet, "bet") = {Len(l) + 1} /\ About(k, bet, "settle") = {}
          /\ Len(l) + 1 \in 1..Len(k) /\ k[Len(l) + 1] = x
      <4>a. \A kind : About(k, bet, kind) = About(l, bet, kind) \cup Later(Len(l), About(m, bet, kind))
        BY <3>2 DEF Joined
      <4>1. /\ About(k, bet, "bet") = {} \cup Later(Len(l), {1})
            /\ About(k, bet, "settle") = {} \cup Later(Len(l), {})
        <5>1. About(k, bet, "bet") = About(l, bet, "bet") \cup Later(Len(l), About(m, bet, "bet"))
          BY <4>a
        <5>2. About(k, bet, "settle") = About(l, bet, "settle") \cup Later(Len(l), About(m, bet, "settle"))
          BY <4>a
        <5> QED BY <3>3, <3>4, <5>1, <5>2
      <4>2. Len(k) = Len(l) + Len(m) /\ Len(l) \in Nat /\ \A i \in 1..Len(m) : k[Len(l) + i] = m[i]
        BY <3>2 DEF Joined
      <4>3. Later(Len(l), {1}) = {Len(l) + 1} /\ Later(Len(l), {}) = {}
        BY DEF Later
      <4> QED BY <3>3, <4>1, <4>2, <4>3
    <3>6. PICK o : o = order'[bet]
      OBVIOUS
    <3>7. o # NoOrder /\ o.win = 0
      BY <1>9, <3>6 DEF NoOrder
    <3>8. k[Len(l) + 1].before - k[Len(l) + 1].after = Terms[bet].amount
      BY <1>4, <1>5, <3>5
    <3>9. BookedOnce(bet, o, k)
      BY <3>5, <3>7, <3>8 DEF BookedOnce
    <3> QED BY <1>3, <1>10, <2>4, <3>1, <3>2, <3>6, <3>9
  <2> QED BY <2>2, <2>3, <2>4
<1>12. Booking'
  BY <1>11 DEF Booking
<1> QED BY <1>8, <1>12

\* The lines of a settlement: one about each order that wins, none about another.
LEMMA PayoutLines ==
  ASSUME NEW m, NEW u, NEW bets, NEW result, NEW before, BookPayout(m, u, bets, result, before),
         NEW bet
  PROVE  /\ About(m, bet, "bet") = {}
         /\ bet \notin Winning(u, bets, result) => About(m, bet, "settle") = {}
         /\ bet \in Winning(u, bets, result) =>
              \E i \in 1..Len(m) : /\ About(m, bet, "settle") = {i}
                                   /\ m[i].after - m[i].before = Win(bet, result)
<1>1. \A i \in 1..Len(m) : /\ m[i].bet \in Winning(u, bets, result) /\ m[i].kind = "settle"
                           /\ m[i].after - m[i].before = Win(m[i].bet, result)
  BY DEF BookPayout
<1>2. About(m, bet, "bet") = {}
  BY <1>1 DEF About
<1>3. bet \notin Winning(u, bets, result) => About(m, bet, "settle") = {}
  BY <1>1 DEF About
<1>4. ASSUME bet \in Winning(u, bets, result)
      PROVE  \E i \in 1..Len(m) : /\ About(m, bet, "settle") = {i}
                                  /\ m[i].after - m[i].before = Win(bet, result)
  <2>1. PICK i \in 1..Len(m) : m[i].bet = bet
    BY <1>4 DEF BookPayout
  <2>2. \A j \in 1..Len(m) : m[j].bet = bet => j = i
    BY <2>1 DEF BookPayout
  <2>3. About(m, bet, "settle") = {i}
    BY <1>1, <2>1, <2>2 DEF About
  <2>4. m[i].after - m[i].before = Win(bet, result)
    BY <1>1, <2>1
  <2> QED BY <2>3, <2>4
<1> QED BY <1>2, <1>3, <1>4

\* What a settlement pays is a chain from the balance it read.
LEMMA PayoutChains ==
  ASSUME NEW m, NEW u, NEW bets, NEW result, NEW before, BookPayout(m, u, bets, result, before)
  PROVE  m \in Seq(Line) /\ Chain(before, m, Paid(u, before, bets, result))
  BY DEF BookPayout, Chain

\* An order that wins is booked by its line in the settlement.
LEMMA WonIsBooked ==
  ASSUME NEW l \in Seq(Line), NEW m \in Seq(Line), NEW bet, NEW o, NEW new, BookedOnce(bet, o, l),
         o # NoOrder, o.win = 0, new # NoOrder, new.win # 0, About(m, bet, "bet") = {},
         NEW i \in 1..Len(m), About(m, bet, "settle") = {i}, m[i].after - m[i].before = new.win
  PROVE  BookedOnce(bet, new, l \o m)
<1>1. PICK k : k = l \o m /\ Joined(l, m, k)
  BY AboutJoined
<1>2. /\ About(k, bet, "bet") = About(l, bet, "bet") \cup Later(Len(l), About(m, bet, "bet"))
      /\ About(k, bet, "settle") =
           About(l, bet, "settle") \cup Later(Len(l), About(m, bet, "settle"))
  BY <1>1 DEF Joined
<1>3. Later(Len(l), {}) = {} /\ Later(Len(l), {i}) = {Len(l) + i}
  BY DEF Later
<1>4. PICK j \in 1..Len(l) :
        About(l, bet, "bet") = {j} /\ l[j].before - l[j].after = Terms[bet].amount
  BY DEF BookedOnce
<1>5. About(l, bet, "settle") = {}
  BY DEF BookedOnce
<1>6. About(k, bet, "bet") = {j} /\ About(k, bet, "settle") = {Len(l) + i}
  BY <1>2, <1>3, <1>4, <1>5
<1>7. /\ j \in 1..Len(k) /\ k[j] = l[j]
      /\ Len(l) + i \in 1..Len(k) /\ k[Len(l) + i] = m[i]
  BY <1>1 DEF Joined
<1>8. BookedOnce(bet, new, k)
  BY <1>4, <1>6, <1>7 DEF BookedOnce
<1> QED BY <1>1, <1>8

\* The lines of a settled round go on where each customer's last one ended, and book each
\* winning order of the round for the first time.
LEMMA SettleKeepsLedger ==
  ASSUME LedgerIInv, NEW s, NEW r, NEW result, NEW bets, NEW row,
         Settles(s, r, result, bets, row)
  PROVE  Chained' /\ Booking'
<1>1. TableTypeOK /\ Chained /\ Booking /\ OrdersSound
  BY DEF LedgerIInv, TableIInv
<1>2. /\ bets \in SUBSET Bet /\ IsFiniteSet(bets) /\ bets = Pending(r, order)
      /\ \A u \in User : (userLock[u] = s) <=> (Winning(u, bets, result) # {})
      /\ balance' = [u \in User |-> Paid(u, balance[u], bets, result)]
      /\ ledger' = [u \in User |-> IF userLock[u] = s
                                   THEN ledger[u] \o PayLines(u, bets, result, balance[u])
                                   ELSE ledger[u]]
      /\ order' = [bet \in Bet |-> IF bet \in bets
                                   THEN [bill |-> "settled", win |-> Win(bet, result)]
                                   ELSE order[bet]]
  BY DEF Settles
<1>3. ASSUME NEW u \in User
      PROVE  ledger[u] \in Seq(Line) /\ balance[u] \in Nat /\ Chain(Funds[u], ledger[u], balance[u])
  BY <1>1 DEF TableTypeOK, Chained
<1>4. ASSUME NEW u \in User, userLock[u] = s
      PROVE  \E m \in Seq(Line) : /\ ledger'[u] = ledger[u] \o m
                                  /\ BookPayout(m, u, bets, result, balance[u])
  <2>1. PICK m : m = PayLines(u, bets, result, balance[u])
    OBVIOUS
  <2>2. BookPayout(m, u, bets, result, balance[u])
    BY <1>2, <1>3, <2>1, PayLinesBook
  <2>3. ledger'[u] = ledger[u] \o m
    BY <1>2, <1>4, <2>1
  <2> QED BY <2>2, <2>3, PayoutChains
<1>5. ASSUME NEW u \in User, userLock[u] # s
      PROVE  /\ ledger'[u] = ledger[u] /\ balance'[u] = balance[u]
             /\ Winning(u, bets, result) = {}
  BY <1>2, <1>5 DEF Paid
<1>6. Chained'
  <2>1. ASSUME NEW u \in User PROVE Chain(Funds[u], ledger'[u], balance'[u])
    <3>1. CASE userLock[u] = s
      <4>1. PICK m \in Seq(Line) : /\ ledger'[u] = ledger[u] \o m
                                   /\ BookPayout(m, u, bets, result, balance[u])
        BY <1>4, <3>1
      <4>2. Chain(balance[u], m, Paid(u, balance[u], bets, result))
        BY <4>1, PayoutChains
      <4>3. balance'[u] = Paid(u, balance[u], bets, result)
        BY <1>2
      <4>4. Chain(Funds[u], ledger[u] \o m, Paid(u, balance[u], bets, result))
        BY <1>3, <4>2, ChainsJoin
      <4> QED BY <4>1, <4>3, <4>4
    <3>2. CASE userLock[u] # s
      BY <1>3, <1>5, <3>2
    <3> QED BY <3>1, <3>2
  <2> QED BY <2>1 DEF Chained
<1>7. ASSUME NEW bet \in Bet, NEW u \in User, u = Terms[bet].user
      PROVE  BookedOnce(bet, order'[bet], ledger'[u])
  <2>1. BookedOnce(bet, order[bet], ledger[u])
    BY <1>1, <1>7 DEF Booking
  <2>2. PICK o, new : o = order[bet] /\ new = order'[bet]
    OBVIOUS
  <2>3. Win(bet, result) \in Nat
    BY WinIsNat
  <2>4. bet \in bets => /\ o # NoOrder /\ o.win = 0
                        /\ new # NoOrder /\ new.win = Win(bet, result)
    <3>1. SUFFICES ASSUME bet \in bets
                   PROVE  o # NoOrder /\ o.win = 0 /\ new # NoOrder /\ new.win = Win(bet, result)
      OBVIOUS
    <3>2. o.bill = "pending"
      BY <1>2, <2>2, <3>1 DEF Pending
    <3>3. new = [bill |-> "settled", win |-> Win(bet, result)]
      BY <1>2, <2>2, <3>1
    <3>4. new.bill = "settled" /\ new.win = Win(bet, result)
      BY <3>3
    <3> QED BY <1>1, <2>2, <3>2, <3>4 DEF NoOrder, OrdersSound
  <2>5. bet \notin bets => new = o
    BY <1>2, <2>2
  <2>6. CASE bet \in Winning(u, bets, result)
    <3>1. bet \in bets /\ Win(bet, result) > 0 /\ userLock[u] = s
      BY <1>2, <2>6 DEF Winning
    <3>2. PICK m \in Seq(Line) : /\ ledger'[u] = ledger[u] \o m
                                 /\ BookPayout(m, u, bets, result, balance[u])
      BY <1>4, <3>1
    <3>3. About(m, bet, "bet") = {}
      BY <3>2, PayoutLines
    <3>4. PICK i \in 1..Len(m) : /\ About(m, bet, "settle") = {i}
                                 /\ m[i].after - m[i].before = Win(bet, result)
      BY <2>6, <3>2, PayoutLines
    <3>5. BookedOnce(bet, o, ledger[u]) /\ new.win # 0 /\ ledger[u] \in Seq(Line)
          /\ m[i].after - m[i].before = new.win
      BY <1>3, <2>1, <2>2, <2>3, <2>4, <3>1, <3>4
    <3>6. BookedOnce(bet, new, ledger[u] \o m)
      BY <2>4, <3>1, <3>3, <3>4, <3>5, WonIsBooked
    <3> QED BY <2>2, <3>2, <3>6
  <2>7. CASE bet \notin Winning(u, bets, result)
    <3>1. bet \in bets => Win(bet, result) = 0
      BY <1>7, <2>3, <2>7 DEF Winning
    <3>2. new.win = o.win /\ ((new = NoOrder) <=> (o = NoOrder))
      BY <2>4, <2>5, <3>1
    <3>3. CASE userLock[u] = s
      <4>1. PICK m \in Seq(Line) : /\ ledger'[u] = ledger[u] \o m
                                   /\ BookPayout(m, u, bets, result, balance[u])
        BY <1>4, <3>3
      <4>2. About(m, bet, "bet") = {} /\ About(m, bet, "settle") = {}
        BY <2>7, <4>1, PayoutLines
      <4>3. BookedOnce(bet, o, ledger[u]) /\ ledger[u] \in Seq(Line)
        BY <1>3, <2>1, <2>2
      <4>4. BookedOnce(bet, new, ledger[u] \o m)
        BY <3>2, <4>2, <4>3, BookedOnceKept
      <4> QED BY <2>2, <4>1, <4>4
    <3>4. CASE userLock[u] # s
      <4>1. ledger'[u] = ledger[u] /\ BookedOnce(bet, o, ledger[u])
        BY <1>5, <2>1, <2>2, <3>4
      <4>2. BookedOnce(bet, new, ledger[u])
        BY <3>2, <4>1 DEF BookedOnce
      <4> QED BY <2>2, <4>1, <4>2
    <3> QED BY <3>3, <3>4
  <2> QED BY <2>6, <2>7
<1>8. Booking'
  BY <1>7, OrdersAssumption DEF Booking
<1> QED BY <1>6, <1>8

-------------------------------------------------------------------------------
(* The theorems *)

\* Every step of the table keeps the ledger's invariant.
LEMMA LedgerStep == LedgerIInv /\ [TableNext]_allVars => LedgerIInv'
<1> SUFFICES ASSUME LedgerIInv, [TableNext]_allVars PROVE LedgerIInv'
  OBVIOUS
<1>1. TableIInv /\ TableIInv' /\ TableTypeOK'
  BY NextKeepsTableIInv DEF LedgerIInv, TableIInv
<1>2. ASSUME UNCHANGED moneyVars PROVE Chained' /\ Booking'
  BY <1>2 DEF LedgerIInv, Chained, Booking, moneyVars
<1>3. CASE RoundsOnly \/ UNCHANGED allVars
  BY <1>1, <1>2, <1>3 DEF RoundsOnly, allVars, tableVars, LedgerIInv
<1>4. ASSUME NEW b \in Bettor, BetStep(b) PROVE Chained' /\ Booking'
  <2>1. CASE CommitBet(b)
    BY <1>1, <2>1, CommitBetEffect, BetKeepsLedger
  <2>2. CASE ~ CommitBet(b)
    <3>1. UNCHANGED moneyVars
      BY <1>4, <2>2 DEF BetStep, CallBet, LockUser, AcceptBet, RepeatBet, RefuseBet, FailBet,
           ReturnBet
    <3> QED BY <1>2, <3>1
  <2> QED BY <2>1, <2>2
<1>5. ASSUME NEW s \in Staff, SettleStep(s) PROVE Chained' /\ Booking'
  <2>1. CASE SettleAndCommit(s)
    BY <1>1, <2>1, SettleEffect, SettleKeepsLedger
  <2>2. CASE ~ SettleAndCommit(s)
    <3>1. UNCHANGED moneyVars
      BY <1>5, <2>2 DEF SettleStep, ListOrders, PayUser, FailStaff
    <3> QED BY <1>2, <3>1
  <2> QED BY <2>1, <2>2
<1> QED BY <1>1, <1>3, <1>4, <1>5 DEF TableNext, LedgerIInv

\* The ledger starts empty.
LEMMA InitLedgerIInv == TableInit => LedgerIInv
<1> SUFFICES ASSUME TableInit PROVE LedgerIInv
  OBVIOUS
<1>1. /\ balance = Funds
      /\ order = [bet \in Bet |-> NoOrder]
      /\ ledger = [u \in User |-> << >>]
  BY DEF TableInit
<1>2. \A u, n : Chain(n, << >>, n)
  BY DEF Chain, Reached
<1>3. \A bet, kind : About(<< >>, bet, kind) = {}
  BY DEF About
<1>4. Chained
  BY <1>1, <1>2 DEF Chained
<1>5. Booking
  BY <1>1, <1>3, OrdersAssumption DEF Booking, BookedOnce, NoOrder
<1> QED BY <1>4, <1>5, InitTableIInv DEF LedgerIInv

\* The ledger moves with the balances and the orders, in the two commits alone.
THEOREM LedgerInvariant == TableSpec => []LedgerIInv
  BY InitLedgerIInv, LedgerStep, PTL DEF TableSpec

\* A chain of lines explains the balance it ends in.
LEMMA ChainedExplains == LedgerIInv => LedgerExplainsBalance
<1> SUFFICES ASSUME LedgerIInv, NEW u \in User
             PROVE  LET lines == ledger[u]
                        From(i) == IF i = 1 THEN Funds[u] ELSE lines[i - 1].after
                    IN /\ \A i \in 1..Len(lines) : lines[i].before = From(i)
                       /\ balance[u] = From(Len(lines) + 1)
  BY DEF LedgerExplainsBalance
<1>1. PICK l \in Seq(Line) : l = ledger[u]
  BY DEF LedgerIInv, TableIInv, TableTypeOK
<1>2. Chain(Funds[u], l, balance[u])
  BY <1>1 DEF LedgerIInv, Chained
<1>3. \A i \in 1..Len(l) : l[i].before = IF i = 1 THEN Funds[u] ELSE l[i - 1].after
  BY <1>2 DEF Chain
<1>4. balance[u] = IF Len(l) + 1 = 1 THEN Funds[u] ELSE l[(Len(l) + 1) - 1].after
  <2>1. balance[u] = Reached(Funds[u], l)
    BY <1>2 DEF Chain
  <2>2. CASE l = << >>
    BY <2>1, <2>2 DEF Reached
  <2>3. CASE l # << >>
    <3>1. Len(l) + 1 # 1 /\ (Len(l) + 1) - 1 = Len(l)
      BY <2>3
    <3> QED BY <2>1, <2>3, <3>1 DEF Reached
  <2> QED BY <2>2, <2>3
<1> QED BY <1>1, <1>3, <1>4

\* wallet_ledger explains customers.balance: no line starts anywhere but where the one
\* before it ended, and the last ends at the balance.
THEOREM TableLedgerExplainsBalance == TableSpec => []LedgerExplainsBalance
  BY ChainedExplains, LedgerInvariant, PTL

\* An order that the invariant accounts for is booked once.
LEMMA BookedIsOnce == LedgerIInv => EveryOrderIsBookedOnce
<1> SUFFICES ASSUME LedgerIInv, NEW bet \in Bet
             PROVE  LET lines == ledger[Terms[bet].user]
                        taken == LinesOf(bet, "bet")
                        given == LinesOf(bet, "settle")
                    IN /\ Cardinality(taken) = IF order[bet] = NoOrder THEN 0 ELSE 1
                       /\ \A i \in taken : lines[i].before - lines[i].after = Terms[bet].amount
                       /\ Cardinality(given) = IF order[bet].win > 0 THEN 1 ELSE 0
                       /\ \A i \in given : lines[i].after - lines[i].before = order[bet].win
  BY DEF EveryOrderIsBookedOnce
<1>1. PICK l, o : l = ledger[Terms[bet].user] /\ o = order[bet]
  OBVIOUS
<1>2. BookedOnce(bet, o, l) /\ o.win \in Nat
  BY <1>1 DEF LedgerIInv, Booking, TableIInv, TableTypeOK, Order
<1>3. \A kind : LinesOf(bet, kind) = About(l, bet, kind)
  BY <1>1 DEF LinesOf, About
<1>4. Cardinality({}) = 0 /\ \A i : Cardinality({i}) = 1
  BY FS_EmptySet, FS_Singleton
<1>5. /\ Cardinality(About(l, bet, "bet")) = IF o = NoOrder THEN 0 ELSE 1
      /\ \A i \in About(l, bet, "bet") : l[i].before - l[i].after = Terms[bet].amount
  <2>1. CASE o = NoOrder
    BY <1>2, <1>4, <2>1 DEF BookedOnce
  <2>2. CASE o # NoOrder
    BY <1>2, <1>4, <2>2 DEF BookedOnce
  <2> QED BY <2>1, <2>2
<1>6. /\ Cardinality(About(l, bet, "settle")) = IF o.win > 0 THEN 1 ELSE 0
      /\ \A i \in About(l, bet, "settle") : l[i].after - l[i].before = o.win
  <2>1. CASE o.win = 0
    BY <1>2, <1>4, <2>1 DEF BookedOnce
  <2>2. CASE o.win > 0
    BY <1>2, <1>4, <2>2 DEF BookedOnce
  <2> QED BY <1>2, <2>1, <2>2
<1> QED BY <1>1, <1>3, <1>5, <1>6

\* Every order has exactly one ledger line that takes its stake, and exactly one that
\* pays what it won.
THEOREM TableEveryOrderIsBookedOnce == TableSpec => []EveryOrderIsBookedOnce
  BY BookedIsOnce, LedgerInvariant, PTL
-------------------------------------------------------------------------------
(* Balances add up *)

\* The accepted orders of a user, what they cost and what they have won so far.
OrdersOf(u) == {bet \in Bet : Terms[bet].user = u /\ order[bet] # NoOrder}

StakesOf(bets) == MapThenSumSet(LAMBDA bet : Terms[bet].amount, bets)

WinsOf(bets) == MapThenSumSet(LAMBDA bet : order[bet].win, bets)

\* Every balance is the first one less the stakes of the user's orders and with what
\* they have won: neither a bet nor a draw makes money or loses it.
BalancesAddUp ==
  \A u \in User : balance[u] = Funds[u] - StakesOf(OrdersOf(u)) + WinsOf(OrdersOf(u))

Stakes == [bet \in Bet |-> Terms[bet].amount]

Wins == [bet \in Bet |-> order[bet].win]

\* The same, with totals: what makes BalancesAddUp inductive is that orders are finitely
\* many and that only settled ones have won.
AddsUp ==
  \A u \in User : balance[u] + Total(Stakes, OrdersOf(u)) = Funds[u] + Total(Wins, OrdersOf(u))

BalanceIInv == TableIInv /\ AddsUp

\* The sum of stakes that the property names is the total of FoldLemmas.
LEMMA StakesAreTotal ==
  ASSUME TableTypeOK, NEW bets \in SUBSET Bet, IsFiniteSet(bets)
  PROVE  StakesOf(bets) = Total(Stakes, bets)
<1> DEFINE h == CHOOSE i : i = [s \in SUBSET bets |->
                  IF s = {} THEN 0 ELSE Terms[First(s)].amount + i[s \ {First(s)}]]
<1>1. \A x \in bets : Stakes[x] = Terms[x].amount /\ Stakes[x] \in Nat
  BY OrdersAssumption DEF Stakes, TableTypeOK, Order
<1>2. \A s \in SUBSET bets : s # {} => First(s) \in bets
  BY DEF First
<1>3. PICK g : IsSum(g, bets, Stakes)
  BY <1>1, SumExists
<1>4. StakesOf(bets) = h[bets]
  BY DEF StakesOf, MapThenSumSet, MapThenFoldSet, First
<1>5. g = [s \in SUBSET bets |-> IF s = {} THEN 0 ELSE Terms[First(s)].amount + g[s \ {First(s)}]]
  BY <1>1, <1>2, <1>3 DEF IsSum
<1>6. h = [s \in SUBSET bets |-> IF s = {} THEN 0 ELSE Terms[First(s)].amount + h[s \ {First(s)}]]
  BY <1>5
<1> HIDE DEF h
<1>7. h = [s \in SUBSET bets |-> IF s = {} THEN 0 ELSE Stakes[First(s)] + h[s \ {First(s)}]]
  BY <1>1, <1>2, <1>6
<1>8. h[bets] = Total(Stakes, bets)
  BY <1>1, <1>7, RecursionIsSum
<1> QED BY <1>4, <1>8

\* The sum of wins that the property names is the total of FoldLemmas.
LEMMA WinsAreTotal ==
  ASSUME TableTypeOK, NEW bets \in SUBSET Bet, IsFiniteSet(bets)
  PROVE  WinsOf(bets) = Total(Wins, bets)
<1> DEFINE h == CHOOSE i : i = [s \in SUBSET bets |->
                  IF s = {} THEN 0 ELSE order[First(s)].win + i[s \ {First(s)}]]
<1>1. \A x \in bets : Wins[x] = order[x].win /\ Wins[x] \in Nat
  BY OrdersAssumption DEF Wins, TableTypeOK, Order
<1>2. \A s \in SUBSET bets : s # {} => First(s) \in bets
  BY DEF First
<1>3. PICK g : IsSum(g, bets, Wins)
  BY <1>1, SumExists
<1>4. WinsOf(bets) = h[bets]
  BY DEF WinsOf, MapThenSumSet, MapThenFoldSet, First
<1>5. g = [s \in SUBSET bets |-> IF s = {} THEN 0 ELSE order[First(s)].win + g[s \ {First(s)}]]
  BY <1>1, <1>2, <1>3 DEF IsSum
<1>6. h = [s \in SUBSET bets |-> IF s = {} THEN 0 ELSE order[First(s)].win + h[s \ {First(s)}]]
  BY <1>5
<1> HIDE DEF h
<1>7. h = [s \in SUBSET bets |-> IF s = {} THEN 0 ELSE Wins[First(s)] + h[s \ {First(s)}]]
  BY <1>1, <1>2, <1>6
<1>8. h[bets] = Total(Wins, bets)
  BY <1>1, <1>7, RecursionIsSum
<1> QED BY <1>4, <1>8

\* A user's orders are finitely many, and so are their stakes and wins.
LEMMA OrdersOfFinite ==
  ASSUME TableIInv, NEW u \in User
  PROVE  /\ OrdersOf(u) \in SUBSET Bet /\ IsFiniteSet(OrdersOf(u))
         /\ \A x \in OrdersOf(u) : Stakes[x] \in Nat /\ Wins[x] \in Nat
         /\ Total(Stakes, OrdersOf(u)) \in Nat /\ Total(Wins, OrdersOf(u)) \in Nat
<1>1. OrdersOf(u) \subseteq {bet \in Bet : order[bet] # NoOrder}
  BY DEF OrdersOf
<1>2. IsFiniteSet(OrdersOf(u))
  BY <1>1, FS_Subset DEF TableIInv, OrdersSound
<1>3. \A x \in OrdersOf(u) : Stakes[x] \in Nat /\ Wins[x] \in Nat
  BY <1>1, OrdersAssumption DEF Stakes, Wins, TableIInv, TableTypeOK, Order
<1> QED BY <1>1, <1>2, <1>3, TotalIsNat

\* The commit of a bet takes what its new order costs.
LEMMA BetAddsUp ==
  ASSUME BalanceIInv, TableIInv', NEW b, NEW bet, NEW u, NEW r, BetCommits(b, bet, u, r)
  PROVE  AddsUp'
<1>1. /\ bet \in Bet /\ u \in User /\ u = Terms[bet].user /\ order[bet] = NoOrder
      /\ order' = [order EXCEPT ![bet] = [bill |-> "pending", win |-> 0]]
      /\ balance' = [balance EXCEPT ![u] = balance[u] - Terms[bet].amount]
  BY DEF BetCommits
<1>2. TableIInv /\ TableTypeOK /\ AddsUp
  BY DEF BalanceIInv, TableIInv
<1>3. /\ order'[bet] # NoOrder /\ order'[bet].win = 0
      /\ \A other \in Bet \ {bet} : order'[other] = order[other]
      /\ balance'[u] = balance[u] - Terms[bet].amount
      /\ \A v \in User \ {u} : balance'[v] = balance[v]
  BY <1>1, <1>2 DEF TableTypeOK, NoOrder
<1>4. Stakes' = Stakes
  BY DEF Stakes
<1>5. ASSUME NEW v \in User
      PROVE  balance'[v] + Total(Stakes, OrdersOf(v)') = Funds[v] + Total(Wins', OrdersOf(v)')
  <2>1. /\ balance[v] + Total(Stakes, OrdersOf(v)) = Funds[v] + Total(Wins, OrdersOf(v))
        /\ IsFiniteSet(OrdersOf(v)) /\ OrdersOf(v) \subseteq Bet
        /\ \A x \in OrdersOf(v) : Stakes[x] \in Nat /\ Wins[x] \in Nat
        /\ Total(Stakes, OrdersOf(v)) \in Nat /\ Total(Wins, OrdersOf(v)) \in Nat
        /\ balance[v] \in Nat /\ Funds[v] \in Nat
    BY <1>2, OrdersOfFinite, OrdersAssumption DEF AddsUp, TableTypeOK
  <2>2. bet \notin OrdersOf(v)
    BY <1>1 DEF OrdersOf
  <2>3. \A x \in OrdersOf(v) : Wins'[x] = Wins[x]
    BY <1>3, <2>1, <2>2 DEF Wins
  <2>4. Total(Wins', OrdersOf(v)) = Total(Wins, OrdersOf(v))
    BY <2>1, <2>3, TotalsAgree
  <2>5. CASE v # u
    <3>1. OrdersOf(v)' = OrdersOf(v)
      BY <1>1, <1>3, <2>5 DEF OrdersOf
    <3> QED BY <1>3, <2>1, <2>4, <2>5, <3>1
  <2>6. CASE v = u
    <3>1. OrdersOf(v)' = OrdersOf(v) \cup {bet}
      BY <1>1, <1>3, <2>6 DEF OrdersOf
    <3>2. /\ Stakes[bet] = Terms[bet].amount /\ Terms[bet].amount \in Nat
          /\ Wins'[bet] = 0
      BY <1>1, <1>3, OrdersAssumption DEF Stakes, Wins
    <3>3. Total(Stakes, OrdersOf(v) \cup {bet}) = Stakes[bet] + Total(Stakes, OrdersOf(v))
      BY <2>1, <2>2, <3>2, TotalAdds
    <3>4. Total(Wins', OrdersOf(v) \cup {bet}) = Wins'[bet] + Total(Wins', OrdersOf(v))
      BY <2>1, <2>2, <2>3, <3>2, TotalAdds
    <3> QED BY <1>3, <2>1, <2>4, <2>6, <3>1, <3>2, <3>3, <3>4
  <2> QED BY <2>5, <2>6
<1> QED BY <1>4, <1>5 DEF AddsUp

\* The commit of a draw pays what its orders come to have won.
LEMMA SettleAddsUp ==
  ASSUME BalanceIInv, NEW s, NEW r, NEW result, NEW bets, NEW row,
         Settles(s, r, result, bets, row)
  PROVE  AddsUp'
<1>1. /\ bets \in SUBSET Bet /\ IsFiniteSet(bets) /\ bets = Pending(r, order)
      /\ balance' = [u \in User |-> Paid(u, balance[u], bets, result)]
      /\ order' = [bet \in Bet |-> IF bet \in bets
                                   THEN [bill |-> "settled", win |-> Win(bet, result)]
                                   ELSE order[bet]]
  BY DEF Settles
<1>2. TableIInv /\ TableTypeOK /\ OrdersSound /\ AddsUp
  BY DEF BalanceIInv, TableIInv
<1>3. \A bet \in bets : /\ order[bet] # NoOrder /\ order[bet].win = 0
                        /\ order'[bet] # NoOrder /\ order'[bet].win = Win(bet, result)
  BY <1>1, <1>2 DEF Pending, OrdersSound, NoOrder
<1>4. \A bet \in Bet \ bets : order'[bet] = order[bet]
  BY <1>1
<1>5. Stakes' = Stakes
  BY DEF Stakes
<1>6. ASSUME NEW v \in User
      PROVE  balance'[v] + Total(Stakes, OrdersOf(v)') = Funds[v] + Total(Wins', OrdersOf(v)')
  <2> DEFINE W == Winning(v, bets, result)
             e == Payouts(result)
  <2>1. /\ balance[v] + Total(Stakes, OrdersOf(v)) = Funds[v] + Total(Wins, OrdersOf(v))
        /\ IsFiniteSet(OrdersOf(v)) /\ OrdersOf(v) \subseteq Bet
        /\ \A x \in OrdersOf(v) : Stakes[x] \in Nat /\ Wins[x] \in Nat
        /\ Total(Stakes, OrdersOf(v)) \in Nat /\ Total(Wins, OrdersOf(v)) \in Nat
        /\ balance[v] \in Nat /\ Funds[v] \in Nat
    BY <1>2, OrdersOfFinite, OrdersAssumption DEF AddsUp, TableTypeOK
  <2>2. OrdersOf(v)' = OrdersOf(v)
    BY <1>1, <1>3, <1>4 DEF OrdersOf
  <2>3. W \in SUBSET OrdersOf(v)
    BY <1>1, <1>3 DEF Winning, OrdersOf
  <2>4. \A x \in W : e[x] \in Nat /\ Wins[x] = 0 /\ Wins'[x] = e[x]
    <3>1. \A x \in W : x \in bets /\ x \in Bet
      BY <1>1 DEF Winning
    <3> QED BY <1>3, <3>1, WinIsNat DEF Payouts, Wins
  <2>5. \A x \in OrdersOf(v) \ W : Wins'[x] = Wins[x]
    <3>1. ASSUME NEW x \in OrdersOf(v) \ W PROVE order'[x].win = order[x].win
      <4>1. CASE x \in bets
        <5>1. ~ (Win(x, result) > 0)
          BY <3>1, <4>1 DEF OrdersOf, Winning
        <5>2. Win(x, result) \in Nat
          BY <2>1, WinIsNat
        <5>3. Win(x, result) = 0
          BY <5>1, <5>2
        <5> QED BY <1>3, <4>1, <5>3
      <4>2. CASE x \notin bets
        BY <1>4, <2>1, <4>2
      <4> QED BY <4>1, <4>2
    <3> QED BY <2>1, <3>1 DEF Wins
  <2>6. balance'[v] = balance[v] + Total(e, W)
    BY <1>1, <2>1, PaidIsTotal
  <2>7. Total(e, W) \in Nat
    <3>1. IsFiniteSet(W)
      BY <1>1, WinningAreBets
    <3> HIDE DEF W, e
    <3> QED BY <2>4, <3>1, TotalIsNat
  <2>8. Total(Wins', OrdersOf(v)) = Total(Wins, OrdersOf(v)) + Total(e, W)
    <3> HIDE DEF W, e
    <3> QED BY <2>1, <2>3, <2>4, <2>5, TotalGains
  <2> HIDE DEF W, e
  <2> QED BY <2>1, <2>2, <2>6, <2>7, <2>8
<1> QED BY <1>5, <1>6 DEF AddsUp

\* Every step keeps the books.
LEMMA BalanceStep == BalanceIInv /\ [TableNext]_allVars => BalanceIInv'
<1> SUFFICES ASSUME BalanceIInv, [TableNext]_allVars PROVE BalanceIInv'
  OBVIOUS
<1>1. TableIInv /\ TableIInv'
  BY NextKeepsTableIInv DEF BalanceIInv
<1>2. ASSUME UNCHANGED moneyVars PROVE AddsUp'
  BY <1>2 DEF BalanceIInv, AddsUp, OrdersOf, Stakes, Wins, moneyVars
<1>3. CASE RoundsOnly \/ UNCHANGED allVars
  BY <1>1, <1>2, <1>3 DEF RoundsOnly, allVars, tableVars, BalanceIInv
<1>4. ASSUME NEW b \in Bettor, BetStep(b) PROVE AddsUp'
  <2>1. CASE CommitBet(b)
    BY <1>1, <2>1, CommitBetEffect, BetAddsUp
  <2>2. CASE ~ CommitBet(b)
    <3>1. UNCHANGED moneyVars
      BY <1>4, <2>2 DEF BetStep, CallBet, LockUser, AcceptBet, RepeatBet, RefuseBet, FailBet,
           ReturnBet
    <3> QED BY <1>2, <3>1
  <2> QED BY <2>1, <2>2
<1>5. ASSUME NEW s \in Staff, SettleStep(s) PROVE AddsUp'
  <2>1. CASE SettleAndCommit(s)
    BY <1>1, <2>1, SettleEffect, SettleAddsUp
  <2>2. CASE ~ SettleAndCommit(s)
    <3>1. UNCHANGED moneyVars
      BY <1>5, <2>2 DEF SettleStep, ListOrders, PayUser, FailStaff
    <3> QED BY <1>2, <3>1
  <2> QED BY <2>1, <2>2
<1> QED BY <1>1, <1>3, <1>4, <1>5 DEF TableNext, BalanceIInv

\* Nobody has an order at the start.
LEMMA InitAddsUp == TableInit => AddsUp
<1> SUFFICES ASSUME TableInit, NEW u \in User
             PROVE  balance[u] + Total(Stakes, OrdersOf(u)) = Funds[u] + Total(Wins, OrdersOf(u))
  BY DEF AddsUp
<1>1. OrdersOf(u) = {} /\ balance[u] = Funds[u] /\ Funds[u] \in Nat
  BY OrdersAssumption DEF TableInit, OrdersOf
<1> QED BY <1>1, TotalOfNone

\* Every balance is the first one less the stakes of the user's orders and with what
\* they have won, for any number of bets, draws, retries and failures.
THEOREM TableBalancesAddUp == TableSpec => []BalancesAddUp
<1>1. TableInit => BalanceIInv
  BY InitTableIInv, InitAddsUp DEF BalanceIInv
<1>2. BalanceIInv => BalancesAddUp
  <2> SUFFICES ASSUME BalanceIInv, NEW u \in User
               PROVE  balance[u] = Funds[u] - StakesOf(OrdersOf(u)) + WinsOf(OrdersOf(u))
    BY DEF BalancesAddUp
  <2>1. TableIInv /\ TableTypeOK /\ AddsUp
    BY DEF BalanceIInv, TableIInv
  <2>2. /\ OrdersOf(u) \in SUBSET Bet /\ IsFiniteSet(OrdersOf(u))
        /\ Total(Stakes, OrdersOf(u)) \in Nat /\ Total(Wins, OrdersOf(u)) \in Nat
    BY <2>1, OrdersOfFinite
  <2>3. /\ StakesOf(OrdersOf(u)) = Total(Stakes, OrdersOf(u))
        /\ WinsOf(OrdersOf(u)) = Total(Wins, OrdersOf(u))
    BY <2>1, <2>2, StakesAreTotal, WinsAreTotal
  <2>4. balance[u] + Total(Stakes, OrdersOf(u)) = Funds[u] + Total(Wins, OrdersOf(u))
    BY <2>1 DEF AddsUp
  <2>5. balance[u] \in Nat /\ Funds[u] \in Nat
    BY <2>1, OrdersAssumption DEF TableTypeOK
  <2> QED BY <2>2, <2>3, <2>4, <2>5
<1> QED BY <1>1, <1>2, BalanceStep, PTL DEF TableSpec
-------------------------------------------------------------------------------
(* Money that was moved stays moved *)

\* The records of money in this step: ledgers and messages grow, no order vanishes and a
\* settled one never changes.
MoneyKeepsRecords ==
  /\ \A u \in User : OnlyGrows(ledger[u], ledger'[u])
  /\ \A bet \in Bet :
       /\ OnlyGrows(mail[bet], mail'[bet])
       /\ order[bet] # NoOrder => order'[bet] # NoOrder
       /\ order[bet].bill = "settled" => order'[bet] = order[bet]

MoneyRecordsOnlyGrow == [][MoneyKeepsRecords]_allVars

\* The commit of a bet adds a line, a message and an order.
LEMMA BetKeepsRecords ==
  ASSUME TableIInv, TableTypeOK', NEW b, NEW bet, NEW u, NEW r, BetCommits(b, bet, u, r)
  PROVE  MoneyKeepsRecords
<1>1. TableTypeOK
  BY DEF TableIInv
<1>2. PICK x : x = [bet |-> bet, kind |-> "bet", before |-> balance[u],
                    after |-> balance[u] - Terms[bet].amount]
  OBVIOUS
<1>3. /\ bet \in Bet /\ u \in User /\ order[bet] = NoOrder
      /\ balance[u] \in Nat /\ Terms[bet].amount \in Nat /\ balance[u] >= Terms[bet].amount
      /\ order'[bet] # NoOrder
      /\ \A other \in Bet \ {bet} : order'[other] = order[other] /\ mail'[other] = mail[other]
      /\ mail'[bet] = Append(mail[bet], "bet_placed")
      /\ ledger'[u] = Append(ledger[u], x)
      /\ \A v \in User \ {u} : ledger'[v] = ledger[v]
  BY <1>1, <1>2, OrdersAssumption DEF BetCommits, TableTypeOK, NoOrder
<1>4. x \in Line
  BY <1>2, <1>3 DEF Line
<1>5. ASSUME NEW v \in User PROVE OnlyGrows(ledger[v], ledger'[v])
  <2>1. ledger[v] \in Seq(Line)
    BY <1>1 DEF TableTypeOK
  <2>2. CASE v = u
    BY <1>3, <1>4, <2>1, <2>2, GrowsByAppend
  <2>3. CASE v # u
    BY <1>3, <2>1, <2>3, GrowsByConcat
  <2> QED BY <2>2, <2>3
<1>6. ASSUME NEW other \in Bet PROVE OnlyGrows(mail[other], mail'[other])
  <2> DEFINE Kind == {"bet_placed", "order_settled"}
  <2>1. mail[other] \in Seq(Kind) /\ "bet_placed" \in Kind
    BY <1>1 DEF TableTypeOK
  <2> HIDE DEF Kind
  <2>2. CASE other = bet
    BY <1>3, <2>1, <2>2, GrowsByAppend
  <2>3. CASE other # bet
    BY <1>3, <2>1, <2>3, GrowsByConcat
  <2> QED BY <2>2, <2>3
<1>7. order[bet].bill # "settled"
  BY <1>3 DEF NoOrder
<1> QED BY <1>3, <1>5, <1>6, <1>7 DEF MoneyKeepsRecords

\* The commit of a draw adds lines and messages and settles orders that waited.
LEMMA SettleKeepsRecords ==
  ASSUME TableIInv, NEW s, NEW r, NEW result, NEW bets, NEW row,
         Settles(s, r, result, bets, row)
  PROVE  MoneyKeepsRecords
<1>1. TableTypeOK
  BY DEF TableIInv
<1>2. /\ bets \in SUBSET Bet /\ IsFiniteSet(bets) /\ bets = Pending(r, order)
      /\ ledger' = [u \in User |-> IF userLock[u] = s
                                   THEN ledger[u] \o PayLines(u, bets, result, balance[u])
                                   ELSE ledger[u]]
      /\ order' = [bet \in Bet |-> IF bet \in bets
                                   THEN [bill |-> "settled", win |-> Win(bet, result)]
                                   ELSE order[bet]]
      /\ mail' = [bet \in Bet |-> IF bet \in bets THEN Append(mail[bet], "order_settled")
                                                 ELSE mail[bet]]
  BY DEF Settles
<1>3. ASSUME NEW v \in User PROVE OnlyGrows(ledger[v], ledger'[v])
  <2>1. ledger[v] \in Seq(Line) /\ balance[v] \in Nat
    BY <1>1 DEF TableTypeOK
  <2>2. PICK m : m = PayLines(v, bets, result, balance[v])
    OBVIOUS
  <2>3. m \in Seq(Line)
    BY <1>2, <2>1, <2>2, PayLinesBook DEF BookPayout
  <2>4. ledger'[v] \in {ledger[v] \o m, ledger[v]}
    BY <1>2, <2>2
  <2> QED BY <2>1, <2>3, <2>4, GrowsByConcat
<1>4. ASSUME NEW bet \in Bet PROVE OnlyGrows(mail[bet], mail'[bet])
  <2> DEFINE Kind == {"bet_placed", "order_settled"}
  <2>1. mail[bet] \in Seq(Kind) /\ "order_settled" \in Kind
    BY <1>1 DEF TableTypeOK
  <2>2. mail'[bet] \in {Append(mail[bet], "order_settled"), mail[bet]}
    BY <1>2
  <2> HIDE DEF Kind
  <2> QED BY <2>1, <2>2, GrowsByAppend, GrowsByConcat
<1>5. ASSUME NEW bet \in Bet
      PROVE  /\ order[bet] # NoOrder => order'[bet] # NoOrder
             /\ order[bet].bill = "settled" => order'[bet] = order[bet]
  BY <1>2 DEF Pending, NoOrder
<1> QED BY <1>3, <1>4, <1>5 DEF MoneyKeepsRecords

\* No step takes back what was booked.
LEMMA MoneyRecordsStep ==
  ASSUME TableIInv, [TableNext]_allVars
  PROVE  MoneyKeepsRecords
<1>1. TableTypeOK /\ TableTypeOK'
  BY NextKeepsTableIInv DEF TableIInv
<1>2. CASE UNCHANGED moneyVars
  <2>1. \A u \in User : OnlyGrows(ledger[u], ledger[u])
    BY <1>1, GrowsByConcat DEF TableTypeOK
  <2>2. \A bet \in Bet : OnlyGrows(mail[bet], mail[bet])
    BY <1>1, GrowsByConcat DEF TableTypeOK
  <2> QED BY <1>2, <2>1, <2>2 DEF MoneyKeepsRecords, moneyVars
<1>3. CASE RoundsOnly \/ UNCHANGED allVars
  BY <1>2, <1>3 DEF RoundsOnly, allVars, tableVars
<1>4. ASSUME NEW b \in Bettor, BetStep(b) PROVE MoneyKeepsRecords
  <2>1. CASE CommitBet(b)
    BY <1>1, <2>1, CommitBetEffect, BetKeepsRecords
  <2>2. CASE ~ CommitBet(b)
    <3>1. UNCHANGED moneyVars
      BY <1>4, <2>2 DEF BetStep, CallBet, LockUser, AcceptBet, RepeatBet, RefuseBet, FailBet,
           ReturnBet
    <3> QED BY <1>2, <3>1
  <2> QED BY <2>1, <2>2
<1>5. ASSUME NEW s \in Staff, SettleStep(s) PROVE MoneyKeepsRecords
  <2>1. CASE SettleAndCommit(s)
    BY <2>1, SettleEffect, SettleKeepsRecords
  <2>2. CASE ~ SettleAndCommit(s)
    <3>1. UNCHANGED moneyVars
      BY <1>5, <2>2 DEF SettleStep, ListOrders, PayUser, FailStaff
    <3> QED BY <1>2, <3>1
  <2> QED BY <2>1, <2>2
<1> QED BY <1>3, <1>4, <1>5 DEF TableNext

\* Ledger lines and messages are only ever added, no order vanishes, and a settled order
\* is never settled again: no retry or repeated draw rewrites what was booked.
THEOREM TableMoneyRecordsOnlyGrow == TableSpec => MoneyRecordsOnlyGrow
<1>1. TableIInv /\ [TableNext]_allVars => [MoneyKeepsRecords]_allVars
  BY MoneyRecordsStep
<1> QED BY <1>1, TableInvariant, PTL DEF TableSpec, MoneyRecordsOnlyGrow

-------------------------------------------------------------------------------
(* What an order is paid *)

\* Under result, win hundredfold is within fifty of what the odds promise for amount on
\* play, above rather than below it; a tie gives dragon and tiger their stake back.
FairWin(play, amount, result, win) ==
  /\ play = result => LET exact == amount * (100 + Odds(play))
                      IN exact - 50 < 100 * win /\ 100 * win <= exact + 50
  /\ play # result /\ result = "tie" => win = amount
  /\ play # result /\ result # "tie" => win = 0

\* Every settled order was paid by the result its round shows, to the nearest cent; and
\* whoever backs dragon and tiger does so in different rounds, so that no user is paid
\* for both sides of one result.
WinsAreFair ==
  /\ \A bet \in Bet : order[bet].bill = "settled" =>
       FairWin(Terms[bet].play, Terms[bet].amount, round[Terms[bet].round].result, order[bet].win)
  /\ \A x, y \in Bet :
       /\ Terms[x].user = Terms[y].user /\ Terms[x].round = Terms[y].round
       /\ Conflicting(Terms[x].play, Terms[y].play)
       => ~ (order[x].win > 0 /\ order[y].win > 0)

\* Half a cent is rounded up, as decimal.Round does.
LEMMA PayoutIsFair ==
  ASSUME NEW play, NEW amount \in Nat, NEW result
  PROVE  FairWin(play, amount, result, Payout(play, amount, result))
<1>1. ASSUME NEW exact \in Nat
      PROVE  LET win == (exact + 50) \div 100 IN exact - 50 < 100 * win /\ 100 * win <= exact + 50
  OBVIOUS
<1>2. amount * (100 + Odds(play)) \in Nat
  BY DEF Odds
<1> QED BY <1>1, <1>2 DEF FairWin, Payout

\* Every order is paid what the odds promise, once its round is settled, to the nearest
\* cent, and nobody is paid for both sides of one round.
THEOREM TableWinsAreFair == TableSpec => []WinsAreFair
<1>1. TableIInv => WinsAreFair
  <2> SUFFICES ASSUME TableIInv PROVE WinsAreFair
    OBVIOUS
  <2>1. TableTypeOK /\ OrdersSound /\ NoConflictingOrders /\ AllFollow
    BY FollowingIsAllFollow DEF TableIInv
  <2>2. ASSUME NEW bet \in Bet, order[bet].bill = "settled"
        PROVE  FairWin(Terms[bet].play, Terms[bet].amount, round[Terms[bet].round].result,
                       order[bet].win)
    <3>1. order[bet].win = Win(bet, round[Terms[bet].round].result)
      BY <2>1, <2>2 DEF AllFollow, Follows
    <3> QED BY <3>1, PayoutIsFair, OrdersAssumption DEF Win
  <2>3. ASSUME NEW x \in Bet, NEW y \in Bet, Terms[x].user = Terms[y].user,
               Terms[x].round = Terms[y].round, Conflicting(Terms[x].play, Terms[y].play),
               order[x].win > 0, order[y].win > 0
        PROVE  FALSE
    <3>1. order[x].bill = "settled" /\ order[y].bill = "settled"
      BY <2>1, <2>3 DEF OrdersSound
    <3>2. x \in Rivals(y, order) /\ order[y] # NoOrder
      BY <2>3, <3>1 DEF Rivals, NoOrder
    <3> QED BY <2>1, <3>2 DEF NoConflictingOrders
  <2> QED BY <2>2, <2>3 DEF WinsAreFair
<1> QED BY <1>1, TableInvariant, PTL
===============================================================================
