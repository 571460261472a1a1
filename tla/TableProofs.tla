------------------------------ MODULE TableProofs ------------------------------
(***************************************************************************)
(* Proofs about Table, for any number of rounds, users, bets and calls.    *)
(* The argument: whoever writes an order holds the lock of its round's     *)
(* row, and whoever writes a balance holds the lock of its user's row, so  *)
(* what a bet or a draw has read under these locks is still true when it   *)
(* commits (Betting, Drawing).  Its commit is then a step of the book.     *)
(* The steps on the rounds' variables are steps of Rounds, whose           *)
(* invariant is taken from RoundsProofs.  The first section is about what  *)
(* a settlement pays: the credit of a user is the sum of what its winning  *)
(* orders pay, whatever the order of a Go map's iteration, and the ledger  *)
(* lines that book it lead, without a gap, from the balance read under     *)
(* the user's lock to that balance with the credit.                        *)
(***************************************************************************)
EXTENDS Table, FoldLemmas, RoundsProofs

-------------------------------------------------------------------------------
(* What a settlement pays *)

\* What every bet pays under a result, as a function.
Payouts(result) == [bet \in Bet |-> Win(bet, result)]

\* A bet is paid a natural amount, or nothing.
LEMMA WinIsNat ==
  ASSUME NEW bet \in Bet, NEW result
  PROVE  Win(bet, result) \in Nat
<1> DEFINE a == Terms[bet].amount
           p == Terms[bet].play
<1>1. a \in Nat
  BY OrdersAssumption
<1> HIDE DEF a
<1>2. (a * (100 + Odds(p)) + 50) \div 100 \in Nat
  <2>1. CASE p = "tie"
    BY <1>1, <2>1 DEF Odds
  <2>2. CASE p # "tie"
    BY <1>1, <2>2 DEF Odds
  <2> QED BY <2>1, <2>2
<1>3. Payout(p, a, result) \in Nat
  BY <1>1, <1>2 DEF Payout
<1> QED BY <1>3 DEF Win, a

\* The winning bets of a customer are finitely many of the bets listed.
LEMMA WinningAreBets ==
  ASSUME NEW u, NEW bets \in SUBSET Bet, NEW result, IsFiniteSet(bets)
  PROVE  /\ Winning(u, bets, result) \subseteq bets
         /\ IsFiniteSet(Winning(u, bets, result))
  BY FS_Subset DEF Winning

\* The sum that Credit takes exists.
LEMMA CreditIsTotal ==
  ASSUME NEW u, NEW bets \in SUBSET Bet, NEW result, IsFiniteSet(bets)
  PROVE  Credit(u, bets, result) = Total(Payouts(result), Winning(u, bets, result))
<1> DEFINE W == Winning(u, bets, result)
           f == Payouts(result)
           h == CHOOSE i : i = [s \in SUBSET W |->
                  IF s = {} THEN 0 ELSE Win(First(s), result) + i[s \ {First(s)}]]
<1>1. IsFiniteSet(W) /\ W \subseteq Bet
  BY WinningAreBets
<1>2. \A x \in W : f[x] = Win(x, result) /\ f[x] \in Nat
  BY <1>1, WinIsNat DEF Payouts
<1>3. \A s \in SUBSET W : s # {} => First(s) \in W
  BY DEF First
<1>4. PICK g : IsSum(g, W, f)
  <2> HIDE DEF W, f
  <2> QED BY <1>1, <1>2, SumExists
<1>5. Credit(u, bets, result) = h[W]
  BY DEF Credit, MapThenSumSet, MapThenFoldSet, First
<1> HIDE DEF W, f
<1>6. g = [s \in SUBSET W |-> IF s = {} THEN 0 ELSE Win(First(s), result) + g[s \ {First(s)}]]
  BY <1>2, <1>3, <1>4 DEF IsSum
<1>7. h = [s \in SUBSET W |-> IF s = {} THEN 0 ELSE Win(First(s), result) + h[s \ {First(s)}]]
  BY <1>6
<1> HIDE DEF h
<1>8. h = [s \in SUBSET W |-> IF s = {} THEN 0 ELSE f[First(s)] + h[s \ {First(s)}]]
  BY <1>2, <1>3, <1>7
<1>9. h[W] = Total(f, W)
  BY <1>1, <1>2, <1>8, RecursionIsSum
<1> QED BY <1>5, <1>9 DEF W, f

\* A balance after the payment is the one before it and the total of the winning bets.
LEMMA PaidIsTotal ==
  ASSUME NEW u, NEW bets \in SUBSET Bet, NEW result, IsFiniteSet(bets), NEW before \in Nat
  PROVE  /\ Paid(u, before, bets, result) =
              before + Total(Payouts(result), Winning(u, bets, result))
         /\ Paid(u, before, bets, result) \in Nat
<1> DEFINE W == Winning(u, bets, result)
<1>1. IsFiniteSet(W) /\ \A x \in W : Payouts(result)[x] \in Nat
  BY WinningAreBets, WinIsNat DEF Payouts
<1>2. Total(Payouts(result), W) \in Nat /\ (W = {} => Total(Payouts(result), W) = 0)
  <2> HIDE DEF W
  <2> QED BY <1>1, TotalIsNat, TotalOfNone
<1> QED BY <1>2, CreditIsTotal DEF Paid

-------------------------------------------------------------------------------
(* The lines of a settlement *)

\* The line that books what bet wins, on top of a balance.
PayLine(bet, result, from) ==
  [bet |-> bet, kind |-> "settle", before |-> from, after |-> from + Win(bet, result)]

\* Where a chain of lines that starts at a balance has come to.
Reached(before, lines) == IF lines = << >> THEN before ELSE lines[Len(lines)].after

\* SetToSeq lists a finite set: every element at one index.
LEMMA SetToSeqLists ==
  ASSUME NEW W, IsFiniteSet(W)
  PROVE  /\ Cardinality(W) \in Nat
         /\ SetToSeq(W) \in [1..Cardinality(W) -> W]
         /\ \A i, j \in 1..Cardinality(W) : SetToSeq(W)[i] = SetToSeq(W)[j] => i = j
         /\ \A x \in W : \E i \in 1..Cardinality(W) : SetToSeq(W)[i] = x
<1> DEFINE n == Cardinality(W)
           q == SetToSeq(W)
<1>1. n \in Nat /\ ExistsBijection(1..n, W)
  BY FS_CardinalityType
<1>2. \E f \in [1..n -> W] : IsInjective(f)
  BY <1>1 DEF ExistsBijection, Bijection, Injection
<1>3. q \in [1..n -> W] /\ IsInjective(q)
  BY <1>2 DEF SetToSeq
<1>4. q \in Injection(1..n, W)
  BY <1>3 DEF Injection
<1>5. Cardinality(1..n) = n
  BY <1>1, FS_Interval
<1>6. q \in Surjection(1..n, W)
  <2> HIDE DEF q, n
  <2> QED BY <1>4, <1>5, FS_Injection DEF n
<1> QED BY <1>1, <1>3, <1>6 DEF IsInjective, Surjection

\* h[1..k] is the list of ledger lines of the first k orders of the list q.
IsPayFold(h, n, q, result, before) ==
  /\ h \in [SUBSET (1..n) -> Seq(Line)]
  /\ h[{}] = << >>
  /\ \A s \in SUBSET (1..n) : s # {} =>
       h[s] = Append(h[s \ {Max(s)}],
                PayLine(q[Max(s)], result, Reached(before, h[s \ {Max(s)}])))

PayLinesFolds(u, bets, result, before) ==
  \E h, n, q : /\ n = Cardinality(Winning(u, bets, result))
               /\ q = SetToSeq(Winning(u, bets, result))
               /\ IsPayFold(h, n, q, result, before)
               /\ PayLines(u, bets, result, before) = h[1..n]

\* PayLines is a fold from the left over the winning orders.
LEMMA PayLinesIsFold ==
  ASSUME NEW u, NEW bets \in SUBSET Bet, NEW result, IsFiniteSet(bets), NEW before \in Nat
  PROVE  PayLinesFolds(u, bets, result, before)
<1>a. PICK n : n = Cardinality(Winning(u, bets, result))
  OBVIOUS
<1>b. PICK q : q = SetToSeq(Winning(u, bets, result))
  OBVIOUS
<1> DEFINE W == Winning(u, bets, result)
           Step(i, lines) == Append(lines, PayLine(q[i], result, Reached(before, lines)))
           step == [p \in (1..n) \X Seq(Line) |-> Step(p[1], p[2])]
           choice == [s \in SUBSET (1..n) |-> Max(s)]
           h == CHOOSE f : f = [s \in SUBSET (1..n) |->
                  IF s = {} THEN << >> ELSE Step(Max(s), f[s \ {Max(s)}])]
<1>1. IsFiniteSet(W) /\ W \subseteq Bet
  BY WinningAreBets
<1>2. n \in Nat /\ q \in [1..n -> Bet] /\ DOMAIN q = 1..n
  <2>1. n \in Nat /\ q \in [1..n -> W]
    BY <1>1, <1>a, <1>b, SetToSeqLists DEF W
  <2> HIDE DEF W
  <2> QED BY <1>1, <2>1
<1>3. ASSUME NEW i \in 1..n, NEW lines \in Seq(Line) PROVE Step(i, lines) \in Seq(Line)
  <2>1. Reached(before, lines) \in Nat
    <3>1. CASE lines # << >>
      <4>1. Len(lines) \in 1..Len(lines)
        BY <3>1
      <4>2. lines[Len(lines)] \in Line
        BY <4>1
      <4> QED BY <4>2 DEF Line, Reached
    <3> QED BY <3>1 DEF Reached
  <2>2. Win(q[i], result) \in Nat /\ q[i] \in Bet
    BY <1>2, WinIsNat
  <2>3. PayLine(q[i], result, Reached(before, lines)) \in Line
    BY <2>1, <2>2 DEF PayLine, Line
  <2> HIDE DEF W
  <2> QED BY <2>3
<1>4. step \in [(1..n) \X Seq(Line) -> Seq(Line)]
  <2> HIDE DEF Step
  <2> QED BY <1>3
<1>5. IsFiniteSet(1..n) /\ \A s \in SUBSET (1..n) : s # {} => Max(s) \in s
  <2>1. IsFiniteSet(1..n)
    BY <1>2, FS_Interval
  <2>2. ASSUME NEW s \in SUBSET (1..n), s # {} PROVE Max(s) \in s
    BY <1>2, <2>1, <2>2, MaxIsGreatest
  <2> QED BY <2>1, <2>2
<1>6. Chooses(choice, 1..n)
  BY <1>5 DEF Chooses
<1>7. PICK g \in [SUBSET (1..n) -> Seq(Line)] : IsFold(g, 1..n, << >>, step, choice)
  <2>1. << >> \in Seq(Line)
    OBVIOUS
  <2> HIDE DEF step, choice
  <2> QED BY <1>4, <1>5, <1>6, <2>1, FoldExists
<1>8. ASSUME NEW s \in SUBSET (1..n), s # {}
      PROVE  g[s] = Step(Max(s), g[s \ {Max(s)}])
  <2>1. choice[s] = Max(s) /\ Max(s) \in 1..n /\ g[s \ {Max(s)}] \in Seq(Line)
    BY <1>5, <1>8
  <2>2. g[s] = step[<<Max(s), g[s \ {Max(s)}]>>]
    BY <1>7, <1>8, <2>1 DEF IsFold
  <2> HIDE DEF Step, choice
  <2> QED BY <2>1, <2>2
<1>9. g[{}] = << >>
  BY <1>7 DEF IsFold
<1>10. g = [s \in SUBSET (1..n) |-> IF s = {} THEN << >> ELSE Step(Max(s), g[s \ {Max(s)}])]
  <2> HIDE DEF Step
  <2> QED BY <1>8, <1>9
<1>11. h = [s \in SUBSET (1..n) |-> IF s = {} THEN << >> ELSE Step(Max(s), h[s \ {Max(s)}])]
  <2> HIDE DEF Step
  <2> QED BY <1>10
<1>12. PayLines(u, bets, result, before) = h[1..n]
  BY <1>2, <1>b DEF PayLines, FoldLeft, MapThenFoldSet, PayLine, Reached, Last
<1>13. \A s \in SUBSET (1..n) : g[s] = h[s]
  <2>1. PICK N : N = 1..n
    OBVIOUS
  <2> DEFINE C == {s \in SUBSET N : g[s] = h[s]}
  <2> HIDE DEF Step, h
  <2>2. ASSUME NEW T \in SUBSET N, \A U \in SUBSET T : U # T => U \in C
        PROVE  g[T] = h[T]
    <3>1. CASE T = {}
      BY <1>9, <1>11, <2>1, <3>1
    <3>2. CASE T # {}
      <4>1. g[T \ {Max(T)}] = h[T \ {Max(T)}]
        BY <1>5, <2>1, <2>2, <3>2
      <4> QED BY <1>8, <1>11, <2>1, <3>2, <4>1
    <3> QED BY <3>1, <3>2
  <2>3. IsFiniteSet(N)
    BY <1>5, <2>1
  <2>4. \A T \in SUBSET N : (\A U \in SUBSET T : U # T => U \in C) => T \in C
    BY <2>2
  <2>5. \A T \in SUBSET N : T \in C
    <3> HIDE DEF C
    <3> QED BY <2>3, <2>4, SubsetInduction
  <2> QED BY <2>1, <2>5
<1>14. PayLines(u, bets, result, before) = g[1..n]
  BY <1>12, <1>13
<1>15. IsPayFold(g, n, q, result, before)
  <2> HIDE DEF W, step, h, choice
  <2> QED BY <1>7, <1>8, <1>9 DEF IsPayFold
<1> HIDE DEF W, h
<1> QED BY <1>a, <1>b, <1>14, <1>15 DEF PayLinesFolds

\* The first k of a list q of orders are booked by lines l, from a balance on.
Books(i, l, q, result, before) ==
  /\ l[i].bet = q[i]
  /\ l[i].kind = "settle"
  /\ l[i].before = IF i = 1 THEN before ELSE l[i - 1].after
  /\ l[i].after = l[i].before + Win(q[i], result)

Booked(k, l, q, result, before) ==
  Len(l) = k /\ \A i \in 1..k : Books(i, l, q, result, before)

\* One line more books one order more.
LEMMA AppendBooks ==
  ASSUME NEW k \in Nat \ {0}, NEW p \in Seq(Line), NEW q, NEW result, NEW before,
         Booked(k - 1, p, q, result, before), NEW from, from = Reached(before, p),
         NEW l \in Seq(Line), Len(l) = k, \A i \in 1..(k - 1) : l[i] = p[i],
         l[k].bet = q[k], l[k].kind = "settle", l[k].before = from,
         l[k].after = from + Win(q[k], result)
  PROVE  /\ Booked(k, l, q, result, before)
         /\ Reached(before, l) = from + Win(q[k], result)
<1>1. from = IF k = 1 THEN before ELSE p[k - 1].after
  BY DEF Reached, Booked
<1>2. ASSUME NEW i \in 1..(k - 1) PROVE Books(i, p, q, result, before)
  BY DEF Booked
<1>3. ASSUME NEW i \in 1..k PROVE Books(i, l, q, result, before)
  <2>1. CASE i = k
    <3>1. k # 1 => l[k - 1] = p[k - 1]
      OBVIOUS
    <3> QED BY <1>1, <2>1, <3>1 DEF Books
  <2>2. CASE i # k
    <3>1. i \in 1..(k - 1) /\ (i # 1 => i - 1 \in 1..(k - 1))
      BY <2>2
    <3>2. l[i] = p[i] /\ (i # 1 => l[i - 1] = p[i - 1])
      BY <3>1
    <3>3. Books(i, p, q, result, before)
      BY <1>2, <3>1
    <3> QED BY <3>2, <3>3 DEF Books
  <2> QED BY <2>1, <2>2
<1>4. Booked(k, l, q, result, before)
  BY <1>3, Zenon DEF Booked
<1>5. Reached(before, l) = l[k].after
  BY DEF Reached
<1> QED BY <1>4, <1>5

\* Lines book what user u is paid: one for each winning order, each starting where the
\* one before it ended, the first from the balance read, the last at the balance paid.
BookPayout(lines, u, bets, result, before) ==
  /\ lines \in Seq(Line)
  /\ \A i \in 1..Len(lines) :
       /\ lines[i].bet \in Winning(u, bets, result)
       /\ lines[i].kind = "settle"
       /\ lines[i].before = IF i = 1 THEN before ELSE lines[i - 1].after
       /\ lines[i].after - lines[i].before = Win(lines[i].bet, result)
  /\ Reached(before, lines) = Paid(u, before, bets, result)
  /\ \A bet \in Winning(u, bets, result) : \E i \in 1..Len(lines) : lines[i].bet = bet
  /\ \A i, j \in 1..Len(lines) : lines[i].bet = lines[j].bet => i = j

\* The ledger lines of a settlement book what it pays.
LEMMA PayLinesBook ==
  ASSUME NEW u, NEW bets \in SUBSET Bet, NEW result, IsFiniteSet(bets), NEW before \in Nat
  PROVE  BookPayout(PayLines(u, bets, result, before), u, bets, result, before)
<1>0. PICK lines : lines = PayLines(u, bets, result, before)
  OBVIOUS
<1> DEFINE W == Winning(u, bets, result)
           f == Payouts(result)
<1>1. IsFiniteSet(W) /\ W \subseteq Bet
  BY WinningAreBets
<1>a. PICK h, n, q : /\ n = Cardinality(Winning(u, bets, result))
                     /\ q = SetToSeq(Winning(u, bets, result))
                     /\ IsPayFold(h, n, q, result, before)
                     /\ PayLines(u, bets, result, before) = h[1..n]
  <2> HIDE DEF W
  <2>1. PayLinesFolds(u, bets, result, before)
    BY PayLinesIsFold
  <2> QED BY <2>1 DEF PayLinesFolds
<1>2. /\ n \in Nat
      /\ q \in [1..n -> W]
      /\ \A i, j \in 1..n : q[i] = q[j] => i = j
      /\ \A x \in W : \E i \in 1..n : q[i] = x
  <2> HIDE DEF W
  <2> QED BY <1>1, <1>a, SetToSeqLists DEF W
<1>3. /\ lines = h[1..n]
      /\ h \in [SUBSET (1..n) -> Seq(Line)]
      /\ h[{}] = << >>
      /\ \A s \in SUBSET (1..n) : s # {} =>
           h[s] = Append(h[s \ {Max(s)}],
                    PayLine(q[Max(s)], result, Reached(before, h[s \ {Max(s)}])))
  <2> HIDE DEF W
  <2> QED BY <1>0, <1>a, Zenon DEF IsPayFold
<1> DEFINE Done(k) == {q[i] : i \in 1..k}
           Good(k) == /\ Booked(k, h[1..k], q, result, before)
                      /\ Reached(before, h[1..k]) = before + Total(f, Done(k))
<1>4. Good(0)
  <2>1. 1..0 = {} /\ Done(0) = {}
    OBVIOUS
  <2>2. Total(f, Done(0)) = 0
    BY <2>1, TotalOfNone
  <2> HIDE DEF Done
  <2> QED BY <1>3, <2>1, <2>2 DEF Reached, Booked
<1>5. ASSUME NEW k \in 1..n, Good(k - 1) PROVE Good(k)
  <2>1. PICK p : p = h[1..(k - 1)]
    OBVIOUS
  <2>2. Max(1..k) = k /\ (1..k) \ {k} = 1..(k - 1)
    BY MaxOfInterval
  <2>3. k \in Nat /\ 1..k # {} /\ 1..k \in SUBSET (1..n) /\ 1..(k - 1) \in SUBSET (1..n)
    <3>1. n \in Nat /\ k \in Nat /\ 1 <= k /\ k <= n
      BY <1>2
    <3> QED BY <3>1
  <2>4. h[1..k] = Append(p, PayLine(q[k], result, Reached(before, p))) /\ p \in Seq(Line)
    BY <1>3, <2>1, <2>2, <2>3
  <2>5. /\ Booked(k, h[1..k], q, result, before)
        /\ Reached(before, h[1..k]) = Reached(before, p) + Win(q[k], result)
    <3>1. PICK new : new = PayLine(q[k], result, Reached(before, p))
      OBVIOUS
    <3>2. PICK l : l = h[1..k]
      OBVIOUS
    <3>3. Booked(k - 1, p, q, result, before) /\ k \in Nat \ {0}
      BY <1>2, <1>5, <2>1
    <3>4. Len(p) = k - 1
      BY <3>3 DEF Booked
    <3>5. l \in Seq(Line) /\ l = Append(p, new)
      BY <1>3, <2>3, <2>4, <3>1, <3>2
    <3>6. Len(l) = k /\ l[k] = new /\ \A i \in 1..(k - 1) : l[i] = p[i]
      BY <2>4, <3>4, <3>5
    <3>7. /\ new.bet = q[k] /\ new.kind = "settle" /\ new.before = Reached(before, p)
          /\ new.after = Reached(before, p) + Win(q[k], result)
      BY <3>1 DEF PayLine
    <3>8. /\ Booked(k, l, q, result, before)
          /\ Reached(before, l) = Reached(before, p) + Win(q[k], result)
      <4>1. PICK from : from = Reached(before, p)
        OBVIOUS
      <4>2. l \in Seq(Line) /\ p \in Seq(Line)
        BY <2>4, <3>5
      <4> QED BY <3>3, <3>6, <3>7, <4>1, <4>2, AppendBooks
    <3> QED BY <3>2, <3>8
  <2>6. /\ Done(k - 1) \subseteq Bet /\ q[k] \in Bet /\ q[k] \notin Done(k - 1)
        /\ Done(k) = Done(k - 1) \cup {q[k]}
        /\ Done(k - 1) \subseteq W
    <3> HIDE DEF W
    <3> QED BY <1>1, <1>2
  <2>7. IsFiniteSet(Done(k - 1))
    <3> HIDE DEF Done, W
    <3> QED BY <1>1, <2>6, FS_Subset
  <2>8. \A x \in Bet : f[x] = Win(x, result) /\ f[x] \in Nat
    BY WinIsNat DEF Payouts
  <2>9. /\ Total(f, Done(k)) = Win(q[k], result) + Total(f, Done(k - 1))
        /\ Total(f, Done(k - 1)) \in Nat
        /\ Win(q[k], result) \in Nat
    <3> HIDE DEF Done, f
    <3>1. Total(f, Done(k - 1)) \in Nat
      BY <2>6, <2>7, <2>8, TotalIsNat
    <3>2. Total(f, Done(k - 1) \cup {q[k]}) = f[q[k]] + Total(f, Done(k - 1))
      <4>1. \A x \in Done(k - 1) \cup {q[k]} : f[x] \in Nat
        BY <2>6, <2>8
      <4> QED BY <2>6, <2>7, <4>1, TotalAdds
    <3> QED BY <2>6, <2>8, <3>1, <3>2
  <2>10. Reached(before, p) = before + Total(f, Done(k - 1))
    BY <1>5, <2>1
  <2> HIDE DEF f, Done
  <2> QED BY <2>5, <2>9, <2>10
<1>6. Good(n)
  <2> DEFINE C == {k \in 0..n : Good(k)}
  <2>1. \A k \in 1..n : k - 1 \in C => k \in C
    <3> HIDE DEF Good
    <3> QED BY <1>2, <1>5
  <2>2. 0 \in C
    <3> HIDE DEF Good
    <3> QED BY <1>2, <1>4
  <2>3. \A k \in 0..n : k \in C
    <3> HIDE DEF C
    <3> QED BY <1>2, <2>1, <2>2, IntervalInduction
  <2> HIDE DEF Good
  <2> QED BY <1>2, <2>3
<1>7. Done(n) = W
  BY <1>2
<1>8. Reached(before, lines) = Paid(u, before, bets, result)
  <2>1. Reached(before, lines) = before + Total(f, W)
    <3> HIDE DEF f, W, Done
    <3> QED BY <1>3, <1>6, <1>7
  <2> QED BY <2>1, PaidIsTotal
<1>9. lines \in Seq(Line) /\ Booked(n, lines, q, result, before) /\ Len(lines) = n
  <2> HIDE DEF W, f, Done
  <2> QED BY <1>2, <1>3, <1>6 DEF Booked
<1> HIDE DEF W
<1>10. ASSUME NEW i \in 1..Len(lines)
       PROVE  /\ lines[i].bet = q[i] /\ q[i] \in W
              /\ lines[i].kind = "settle"
              /\ lines[i].before = IF i = 1 THEN before ELSE lines[i - 1].after
              /\ lines[i].after - lines[i].before = Win(lines[i].bet, result)
  <2>1. lines[i] \in Line
    BY <1>9
  <2>2. lines[i].before \in Nat /\ q[i] \in W /\ Win(q[i], result) \in Nat
    BY <1>1, <1>2, <1>9, <2>1, WinIsNat DEF Line
  <2>3. /\ lines[i].bet = q[i] /\ lines[i].kind = "settle"
        /\ lines[i].before = IF i = 1 THEN before ELSE lines[i - 1].after
        /\ lines[i].after = lines[i].before + Win(q[i], result)
    <3>1. Books(i, lines, q, result, before)
      BY <1>9, Zenon DEF Booked
    <3> QED BY <3>1 DEF Books
  <2> QED BY <2>2, <2>3
<1>11. \A bet \in W : \E i \in 1..Len(lines) : lines[i].bet = bet
  BY <1>2, <1>9, <1>10
<1>12. \A i, j \in 1..Len(lines) : lines[i].bet = lines[j].bet => i = j
  BY <1>2, <1>9, <1>10
<1>13. BookPayout(lines, u, bets, result, before)
  BY <1>8, <1>9, <1>10, <1>11, <1>12 DEF W, BookPayout
<1> QED BY <1>0, <1>13

-------------------------------------------------------------------------------
(* The inductive invariant *)


\* What bet b has locked, and what it knows of what it has locked.
BettorOf(b) ==
  LET c == bettor[b]
  IN /\ c.pc # "idle" => c.bet \in Bet /\ c.reply = "none"
     /\ c.pc \in {"round", "commit"} =>
          userLock[UserOf(b)] = b /\ c.before = balance[UserOf(b)]
     /\ \A u \in User : userLock[u] = b => c.pc \in {"round", "commit"} /\ u = UserOf(b)
     /\ \A r \in Round : rowLock[r] = b => c.pc = "commit" /\ r = RoundOf(b)
     /\ c.pc = "commit" =>
          /\ rowLock[RoundOf(b)] = b
          /\ round[RoundOf(b)].status = "betting"
          /\ order[c.bet] = NoOrder
          /\ Rivals(c.bet, order) = {}
          /\ c.before >= Terms[c.bet].amount

Betting == \A b \in Bettor : BettorOf(b)

\* What draw s has read is still so: the orders that wait and the balances of the
\* users it has locked, which are winners, the next one's turn among the rest.
DrawOf(s) ==
  LET d == draw[s]
  IN /\ ~ d.listed => d = NoDraw
     /\ \A u \in User : (userLock[u] = s) <=> (u \in d.paid)
     /\ d.listed =>
          /\ InDraw(s)
          /\ d.orders = Pending(staff[s].rid, order)
          /\ d.paid \subseteq Winners(s, d.orders)
          /\ Turn(Winners(s, d.orders) \ d.paid, d.next)
          /\ \A u \in d.paid : d.seen[u] = balance[u]

Drawing == \A s \in Staff : DrawOf(s)

\* Only a settled order has won, and only finitely many bets have orders.
OrdersSound ==
  /\ \A bet \in Bet : order[bet].bill # "settled" => order[bet].win = 0
  /\ IsFiniteSet({bet \in Bet : order[bet] # NoOrder})

TableIInv ==
  /\ IInv
  /\ TableTypeOK
  /\ Betting
  /\ Drawing
  /\ OrdersSound
  /\ NoConflictingOrders
  /\ OrdersFollowTheRound

-------------------------------------------------------------------------------
(* What steps leave alone *)

\* The orders of a round determine who rivals whom in it, and which of them wait.
LEMMA RoundsOrders ==
  ASSUME NEW r, NEW before, NEW after,
         \A bet \in Bet : Terms[bet].round = r => after[bet] = before[bet]
  PROVE  /\ Pending(r, after) = Pending(r, before)
         /\ \A bet \in Bet : Terms[bet].round = r => Rivals(bet, after) = Rivals(bet, before)
  BY DEF Pending, Rivals

\* No order of round r changes in this step.
SameOrders(r) == \A bet \in Bet : Terms[bet].round = r => order'[bet] = order[bet]

\* A bet that takes no part in a step keeps what it knows, if the step leaves it its
\* locks and what it has locked.
LEMMA BettorKept ==
  ASSUME TableTypeOK, NEW t \in Bettor, BettorOf(t), bettor'[t] = bettor[t],
         \A u \in User : (userLock'[u] = t) <=> (userLock[u] = t),
         \A r \in Round : (rowLock'[r] = t) <=> (rowLock[r] = t),
         \A u \in User : userLock[u] = t => balance'[u] = balance[u],
         \A r \in Round : rowLock[r] = t =>
           round'[r].status = round[r].status /\ SameOrders(r)
  PROVE  BettorOf(t)'
<1> DEFINE c == bettor[t]
<1>1. c.pc # "idle" => c.bet \in Bet /\ UserOf(t) \in User /\ RoundOf(t) \in Round
  BY OrdersAssumption, TableAssumption DEF BettorOf, UserOf, RoundOf
<1>2. UserOf(t)' = UserOf(t) /\ RoundOf(t)' = RoundOf(t)
  BY DEF UserOf, RoundOf
<1>3. c.pc = "commit" => /\ round'[RoundOf(t)].status = "betting"
                         /\ order'[c.bet] = NoOrder
                         /\ Rivals(c.bet, order') = {}
  <2> SUFFICES ASSUME c.pc = "commit" PROVE /\ round'[RoundOf(t)].status = "betting"
                                           /\ order'[c.bet] = NoOrder
                                           /\ Rivals(c.bet, order') = {}
    OBVIOUS
  <2>1. /\ RoundOf(t) \in Round /\ rowLock[RoundOf(t)] = t /\ c.bet \in Bet
        /\ Terms[c.bet].round = RoundOf(t)
        /\ round[RoundOf(t)].status = "betting"
        /\ order[c.bet] = NoOrder
        /\ Rivals(c.bet, order) = {}
    BY <1>1 DEF BettorOf, RoundOf
  <2>2. SameOrders(RoundOf(t)) /\ round'[RoundOf(t)].status = round[RoundOf(t)].status
    BY <2>1
  <2>3. order'[c.bet] = order[c.bet] /\ Rivals(c.bet, order') = Rivals(c.bet, order)
    BY <2>1, <2>2, RoundsOrders DEF SameOrders
  <2> QED BY <2>1, <2>2, <2>3
<1> QED BY <1>1, <1>2, <1>3 DEF BettorOf

\* So does a draw.
LEMMA DrawKept ==
  ASSUME TableTypeOK, NEW t \in Staff, LockingOf(t), DrawOf(t), draw'[t] = draw[t],
         InDraw(t) => staff'[t] = staff[t],
         \A u \in User : (userLock'[u] = t) <=> (userLock[u] = t),
         \A u \in User : userLock[u] = t => balance'[u] = balance[u],
         \A r \in Round : rowLock[r] = t => SameOrders(r)
  PROVE  DrawOf(t)'
<1> DEFINE d == draw[t]
<1>1. CASE ~ d.listed
  BY <1>1 DEF DrawOf, NoDraw
<1>2. CASE d.listed
  <2>1. /\ InDraw(t) /\ staff'[t] = staff[t]
        /\ d.orders = Pending(staff[t].rid, order)
        /\ d.paid \subseteq Winners(t, d.orders)
        /\ Turn(Winners(t, d.orders) \ d.paid, d.next)
        /\ \A u \in d.paid : d.seen[u] = balance[u]
    BY <1>2 DEF DrawOf
  <2>2. staff[t].rid \in Round /\ rowLock[staff[t].rid] = t
    BY <2>1 DEF LockingOf, InDraw
  <2>3. Pending(staff[t].rid, order') = Pending(staff[t].rid, order)
    BY <2>2, RoundsOrders DEF SameOrders
  <2>4. InDraw(t)' /\ Winners(t, d.orders)' = Winners(t, d.orders)
    BY <2>1 DEF InDraw, Winners, Card
  <2>5. \A u \in User : (userLock[u] = t) <=> (u \in d.paid)
    BY DEF DrawOf
  <2>6. \A u \in d.paid : u \in User /\ balance'[u] = balance[u]
    BY <2>1, <2>5 DEF Winners
  <2>7. d' = d
    OBVIOUS
  <2>8. Turn(Winners(t, d.orders)' \ d.paid, d.next)
    BY <2>1, <2>4
  <2> QED BY <1>2, <2>1, <2>3, <2>4, <2>5, <2>6, <2>7, <2>8 DEF DrawOf, Turn
<1> QED BY <1>1, <1>2

\* An order o of a bet, its messages m and its round's row keep together.
Follows(bet, o, m, row) ==
  /\ o.bill = "none" => m = << >>
  /\ o.bill = "pending" => ~ row.settled /\ row # NoRow /\ m = <<"bet_placed">>
  /\ o.bill = "settled" => /\ row.settled
                           /\ o.win = Win(bet, row.result)
                           /\ m = <<"bet_placed", "order_settled">>

AllFollow == \A bet \in Bet : Follows(bet, order[bet], mail[bet], round[Terms[bet].round])

\* The property is the invariant's form of it, order by order.
LEMMA FollowingIsAllFollow ==
  ASSUME TableTypeOK
  PROVE  OrdersFollowTheRound <=> AllFollow
<1>1. \A bet \in Bet : order[bet].bill \in {"none", "pending", "settled"}
  BY DEF TableTypeOK, Order
<1>2. ASSUME NEW bet \in Bet
      PROVE  (LET r == Terms[bet].round
              IN CASE order[bet].bill = "none" -> mail[bet] = << >>
                   [] order[bet].bill = "pending" ->
                        /\ ~ round[r].settled /\ round[r] # NoRow
                        /\ mail[bet] = <<"bet_placed">>
                   [] order[bet].bill = "settled" ->
                        /\ round[r].settled
                        /\ order[bet].win = Win(bet, round[r].result)
                        /\ mail[bet] = <<"bet_placed", "order_settled">>)
             <=> Follows(bet, order[bet], mail[bet], round[Terms[bet].round])
  <2> DEFINE o == order[bet]
             m == mail[bet]
             row == round[Terms[bet].round]
  <2>1. o.bill \in {"none", "pending", "settled"}
    BY <1>1
  <2>2. CASE o.bill = "none"
    BY <2>2 DEF Follows
  <2>3. CASE o.bill = "pending"
    BY <2>3 DEF Follows
  <2>4. CASE o.bill = "settled"
    BY <2>4 DEF Follows
  <2> QED BY <2>1, <2>2, <2>3, <2>4
<1> QED BY <1>2 DEF OrdersFollowTheRound, AllFollow

\* An order keeps up with its round, if neither it nor its messages change and the
\* round stays, settled or not.
LEMMA FollowsKept ==
  ASSUME NEW bet, NEW o, NEW m, NEW row, NEW new,
         Follows(bet, o, m, row),
         new.settled = row.settled, new.result = row.result, row # NoRow => new # NoRow
  PROVE  Follows(bet, o, m, new)
  BY DEF Follows

-------------------------------------------------------------------------------
(* The rounds' steps *)

\* What a step of a staff call or of the clock leaves to bets and draws in progress.
LEMMA RoundsOnlyEffect ==
  ASSUME IInv, RoundsOnly
  PROVE  /\ [Next]_roundsVars
         /\ UNCHANGED tableVars
         /\ \A r \in Round : /\ round'[r].settled = round[r].settled
                             /\ round'[r].result = round[r].result
                             /\ round[r] # NoRow => round'[r] # NoRow
         /\ \A t \in Bettor, r \in Round :
              /\ (rowLock'[r] = t) <=> (rowLock[r] = t)
              /\ rowLock[r] = t => round'[r].status = round[r].status
         /\ \A t \in Staff : InDraw(t) => staff'[t] = staff[t]
<1>1. [Next]_roundsVars /\ UNCHANGED tableVars
  BY DEF RoundsOnly, Next, Continues, Environment
<1>2. TypeOK /\ Locking
  BY DEF IInv
<1>3. \A t \in Bettor : t \notin Staff /\ t # Null
  BY RoundsAssumption
<1> DEFINE Rows == /\ \A r \in Round : /\ round'[r].settled = round[r].settled
                                       /\ round'[r].result = round[r].result
                                       /\ round[r] # NoRow => round'[r] # NoRow
                   /\ \A t \in Bettor, r \in Round :
                        rowLock[r] = t => round'[r].status = round[r].status
           Locks == \A t \in Bettor, r \in Round : (rowLock'[r] = t) <=> (rowLock[r] = t)
           Draws == \A t \in Staff : InDraw(t) => staff'[t] = staff[t]
<1>4. ASSUME \/ \E s \in Staff, r \in Round, op \in Event : CallEvent(s, op, r)
             \/ \E s \in Staff, r \in Round, card \in Result : CallDraw(s, card, r)
      PROVE  Rows /\ Locks /\ Draws
  <2>1. PICK s \in Staff :
          /\ UNCHANGED <<round, rowLock>>
          /\ staff[s].pc = "idle"
          /\ \A t \in Staff \ {s} : staff'[t] = staff[t]
    BY <1>2, <1>4 DEF CallEvent, CallDraw, TypeOK, dbVars
  <2> QED BY <1>1, <2>1 DEF InDraw
<1>5. ASSUME NEW s \in Staff,
             WantsLock(s) \/ EnsureCount(s) \/ LogSettlement(s) \/ CacheEvent(s)
               \/ CacheResult(s)
      PROVE  Rows /\ Locks /\ Draws
  <2>1. /\ UNCHANGED round
        /\ ~ InDraw(s)
        /\ \A t \in Staff \ {s} : staff'[t] = staff[t]
    BY <1>2, <1>5 DEF WantsLock, EnsureInsert, EnsureDuplicate, LockForEvent, RefuseEvent,
         LockForDraw, AnswerDraw, EnsureCount, LogSettlement, CacheEvent, CacheResult, Hold,
         Answer, dbVars, TypeOK, InDraw, Event
  <2>2. Locks
    <3>1. CASE UNCHANGED rowLock
      BY <3>1
    <3>2. CASE rowLock' = Unlocked(s)
      BY <1>2, <1>3, <3>2 DEF Unlocked, TypeOK
    <3>3. CASE /\ rowLock' = [rowLock EXCEPT ![staff[s].rid] = s]
               /\ rowLock[staff[s].rid] \in {Null, s}
      BY <1>2, <1>3, <3>3 DEF TypeOK
    <3>4. LogSettlement(s) => rowLock[staff[s].rid] = s
      BY <1>2 DEF LogSettlement, Locking, LockingOf
    <3> QED BY <1>5, <3>1, <3>2, <3>3, <3>4 DEF WantsLock, EnsureInsert, EnsureDuplicate,
              LockForEvent, RefuseEvent, LockForDraw, AnswerDraw, EnsureCount, LogSettlement,
              CacheEvent, CacheResult, Hold, Answer, CanLock
  <2> QED BY <2>1, <2>2
<1>6. ASSUME NEW s \in Staff, CommitEvent(s) PROVE Rows /\ Locks /\ Draws
  <2>1. PICK next \in State, row \in Row :
          /\ row.status = next /\ row.result = Seen(s).result
          /\ row.settled = Seen(s).settled
          /\ round' = [round EXCEPT ![staff[s].rid] = row]
    BY ZenonT(60), <1>6, CommitEventStep
  <2>2. staff[s].rid \in Round /\ rowLock[staff[s].rid] = s /\ staff[s].op \in Event
    BY <1>2, <1>6 DEF CommitEvent, Locking, LockingOf
  <2>3. /\ Seen(s).result = round[staff[s].rid].result
        /\ Seen(s).settled = round[staff[s].rid].settled
    BY DEF Seen, NewRow, NoRow
  <2>4. row # NoRow
    BY <2>1 DEF NoRow, State
  <2>5. Rows
    BY <1>2, <1>3, <2>1, <2>2, <2>3, <2>4 DEF TypeOK
  <2>6. Locks
    BY <1>2, <1>3, <1>6 DEF CommitEvent, Commit, Unlocked, TypeOK
  <2>7. Draws
    BY <1>2, <1>6 DEF CommitEvent, Commit, InDraw, TypeOK, Event
  <2> QED BY <2>5, <2>6, <2>7
<1>7. ASSUME NEW q \in Round, WindowPasses(q) \/ InfoExpires(q) \/ ResultExpires(q)
      PROVE  Rows /\ Locks /\ Draws
  <2>1. UNCHANGED <<rowLock, staff>>
    BY <1>7 DEF WindowPasses, InfoExpires, ResultExpires
  <2>2. CASE WindowPasses(q)
    <3>1. round[q] # NoRow /\ round' = [round EXCEPT ![q] = [round[q] EXCEPT !.window = "past"]]
      BY <2>2 DEF WindowPasses, NoRow
    <3>2. [round[q] EXCEPT !.window = "past"] # NoRow
      BY <1>2 DEF TypeOK, Row, NoRow
    <3> QED BY <1>2, <2>1, <3>1, <3>2 DEF TypeOK, Row
  <2>3. CASE ~ WindowPasses(q)
    BY <1>7, <2>1, <2>3 DEF InfoExpires, ResultExpires, dbVars
  <2> QED BY <2>2, <2>3
<1>8. Rows /\ Locks /\ Draws
  <2> HIDE DEF Rows, Locks, Draws
  <2> QED BY <1>4, <1>5, <1>6, <1>7 DEF RoundsOnly
<1> QED BY <1>1, <1>8

\* Rounds' own steps keep the invariant of the table.
LEMMA RoundsOnlyKeepsTableIInv == TableIInv /\ RoundsOnly => TableIInv'
<1> SUFFICES ASSUME TableIInv, RoundsOnly PROVE TableIInv'
  OBVIOUS
<1>1. /\ IInv /\ TableTypeOK /\ Betting /\ Drawing /\ OrdersSound
      /\ NoConflictingOrders /\ OrdersFollowTheRound /\ Locking
  BY DEF TableIInv, IInv
<1>2. IInv'
  BY <1>1, RoundsOnlyEffect, NextKeepsIInv
<1>3. UNCHANGED <<balance, order, ledger, mail, userLock, bettor, draw>>
  BY <1>1, RoundsOnlyEffect DEF tableVars, moneyVars
<1>4. TableTypeOK'
  BY <1>1, <1>2, <1>3 DEF TableTypeOK, IInv
<1>5. OrdersSound' /\ NoConflictingOrders'
  BY <1>1, <1>3 DEF OrdersSound, NoConflictingOrders
<1>6. \A r \in Round : SameOrders(r)
  BY <1>3 DEF SameOrders
<1>7. Betting'
  <2> SUFFICES ASSUME NEW t \in Bettor PROVE BettorOf(t)'
    BY DEF Betting
  <2>1. BettorOf(t)
    BY <1>1 DEF Betting
  <2>2. \A r \in Round : /\ (rowLock'[r] = t) <=> (rowLock[r] = t)
                         /\ rowLock[r] = t => round'[r].status = round[r].status
    BY <1>1, RoundsOnlyEffect
  <2> QED BY <1>1, <1>3, <1>6, <2>1, <2>2, BettorKept
<1>8. Drawing'
  <2> SUFFICES ASSUME NEW t \in Staff PROVE DrawOf(t)'
    BY DEF Drawing
  <2>1. DrawOf(t) /\ LockingOf(t)
    BY <1>1 DEF Drawing, Locking
  <2>2. InDraw(t) => staff'[t] = staff[t]
    BY <1>1, RoundsOnlyEffect
  <2> QED BY <1>1, <1>3, <1>6, <2>1, <2>2, DrawKept
<1>9. OrdersFollowTheRound'
  <2>1. AllFollow
    BY <1>1, FollowingIsAllFollow
  <2>2. ASSUME NEW bet \in Bet
        PROVE  Follows(bet, order'[bet], mail'[bet], round'[Terms[bet].round])
    <3>1. Terms[bet].round \in Round
      BY TableAssumption
    <3>2. LET r == Terms[bet].round
          IN /\ round'[r].settled = round[r].settled
             /\ round'[r].result = round[r].result
             /\ round[r] # NoRow => round'[r] # NoRow
      BY <1>1, <3>1, RoundsOnlyEffect
    <3>3. Follows(bet, order[bet], mail[bet], round[Terms[bet].round])
      BY <2>1 DEF AllFollow
    <3> QED BY <1>3, <3>2, <3>3, FollowsKept
  <2>3. AllFollow'
    BY <2>2 DEF AllFollow
  <2>4. OrdersFollowTheRound' <=> AllFollow'
    BY <1>4, FollowingIsAllFollow, PTL
  <2> QED BY <2>3, <2>4
<1> QED BY <1>2, <1>4, <1>5, <1>7, <1>8, <1>9 DEF TableIInv

-------------------------------------------------------------------------------
(* The steps of a bet *)

\* A step of bet b that writes no order and no balance keeps the invariant, if it
\* takes or drops locks for b only and b then knows what it should.
LEMMA QuietBetStep ==
  ASSUME TableIInv, NEW b \in Bettor, IInv',
         UNCHANGED <<moneyVars, draw, round, staff>>,
         userLock' \in [User -> Staff \cup Bettor \cup {Null}],
         bettor' \in [Bettor -> BetCall],
         \A t \in Bettor \ {b} : bettor'[t] = bettor[t],
         \A t \in Staff \cup (Bettor \ {b}) :
           /\ \A u \in User : (userLock'[u] = t) <=> (userLock[u] = t)
           /\ \A r \in Round : (rowLock'[r] = t) <=> (rowLock[r] = t),
         BettorOf(b)'
  PROVE  TableIInv'
<1>1. /\ IInv /\ TableTypeOK /\ Betting /\ Drawing /\ OrdersSound
      /\ NoConflictingOrders /\ OrdersFollowTheRound /\ Locking
  BY DEF TableIInv, IInv
<1>2. UNCHANGED <<balance, order, ledger, mail, draw, round, staff>>
  BY DEF moneyVars
<1>3. TableTypeOK'
  BY <1>1, <1>2 DEF TableTypeOK, IInv
<1>4. OrdersSound' /\ NoConflictingOrders' /\ OrdersFollowTheRound'
  BY ZenonT(60), <1>1, <1>2 DEF OrdersSound, NoConflictingOrders, OrdersFollowTheRound
<1>5. \A r \in Round : SameOrders(r)
  BY <1>2 DEF SameOrders
<1>6. ASSUME NEW t \in Bettor PROVE BettorOf(t)'
  <2>1. CASE t # b
    <3>1. BettorOf(t) /\ t \in Bettor \ {b}
      BY <1>1, <2>1 DEF Betting
    <3> QED BY <1>1, <1>2, <1>5, <3>1, BettorKept
  <2> QED BY <2>1
<1>7. ASSUME NEW t \in Staff PROVE DrawOf(t)'
  <2>1. DrawOf(t) /\ LockingOf(t)
    BY <1>1 DEF Drawing, Locking
  <2> QED BY <1>1, <1>2, <1>5, <2>1, DrawKept
<1> QED BY <1>3, <1>4, <1>6, <1>7 DEF TableIInv, Betting, Drawing

\* A bet that returns drops its locks.
LEMMA ReturnStep ==
  ASSUME TableIInv, NEW b \in Bettor, NEW reply \in {"none", "ok", "repeat", "refused", "error"},
         bettor' = [bettor EXCEPT ![b] = [NoBet EXCEPT !.reply = reply]],
         userLock' = Released(b),
         \/ UNCHANGED rowLock /\ \A r \in Round : rowLock[r] # b
         \/ rowLock' = Unlocked(b)
  PROVE  /\ userLock' \in [User -> Staff \cup Bettor \cup {Null}]
         /\ bettor' \in [Bettor -> BetCall]
         /\ \A t \in Bettor \ {b} : bettor'[t] = bettor[t]
         /\ \A t \in Staff \cup (Bettor \ {b}) :
              /\ \A u \in User : (userLock'[u] = t) <=> (userLock[u] = t)
              /\ \A r \in Round : (rowLock'[r] = t) <=> (rowLock[r] = t)
         /\ BettorOf(b)'
<1>1. TableTypeOK /\ TypeOK
  BY DEF TableIInv, IInv
<1>2. \A t \in Staff \cup (Bettor \ {b}) : t # b /\ t # Null
  BY RoundsAssumption
<1>3. b # Null
  BY RoundsAssumption
<1>4. [NoBet EXCEPT !.reply = reply] \in BetCall /\ NoBet \in BetCall
  BY DEF NoBet, BetCall
<1>5. bettor' \in [Bettor -> BetCall] /\ \A t \in Bettor \ {b} : bettor'[t] = bettor[t]
  BY <1>1, <1>4 DEF TableTypeOK
<1>6. bettor'[b].pc = "idle"
  BY <1>1 DEF TableTypeOK, NoBet
<1>7. /\ userLock' \in [User -> Staff \cup Bettor \cup {Null}]
      /\ \A u \in User : userLock'[u] # b
      /\ \A t \in Staff \cup (Bettor \ {b}), u \in User :
           (userLock'[u] = t) <=> (userLock[u] = t)
  BY <1>1, <1>2, <1>3 DEF TableTypeOK, Released
<1>8. /\ \A r \in Round : rowLock'[r] # b
      /\ \A t \in Staff \cup (Bettor \ {b}), r \in Round :
           (rowLock'[r] = t) <=> (rowLock[r] = t)
  BY <1>1, <1>2, <1>3 DEF TypeOK, Unlocked
<1>9. BettorOf(b)'
  BY <1>6, <1>7, <1>8 DEF BettorOf
<1> QED BY <1>5, <1>7, <1>8, <1>9

\* A bet's steps are steps of Rounds: it takes its round's lock, drops it or leaves it.
LEMMA BetIsRoundsStep ==
  ASSUME TableIInv, NEW b \in Bettor, BetStep(b)
  PROVE  [Next]_roundsVars
<1>1. BettorOf(b)
  BY DEF TableIInv, Betting
<1>2. bettor[b].pc # "idle" => RoundOf(b) \in Round
  BY <1>1, TableAssumption DEF BettorOf, RoundOf
<1>3. CASE UNCHANGED roundsVars
  BY <1>3
<1>4. CASE RoundOf(b) \in Round /\ BetLocksRound(b, RoundOf(b))
  BY <1>4 DEF Next, Environment
<1>5. CASE RoundOf(b) \in Round /\ BetUnlocksRound(b, RoundOf(b))
  BY <1>5 DEF Next, Environment
<1>6. CASE \E bet \in Bet : CallBet(b, bet)
  BY <1>3, <1>6 DEF CallBet
<1>7. CASE LockUser(b)
  BY <1>3, <1>7 DEF LockUser
<1>8. CASE AcceptBet(b)
  BY <1>2, <1>4, <1>8 DEF AcceptBet, AtRound
<1>9. CASE RepeatBet(b) \/ RefuseBet(b)
  BY <1>3, <1>9 DEF RepeatBet, RefuseBet
<1>10. CASE CommitBet(b)
  BY <1>2, <1>5, <1>10 DEF CommitBet
<1>11. CASE FailBet(b)
  BY <1>2, <1>3, <1>5, <1>11 DEF FailBet
<1> QED BY <1>6, <1>7, <1>8, <1>9, <1>10, <1>11 DEF BetStep

\* A bet that unlocks its round keeps no other row's lock.
LEMMA BetUnlocksAll ==
  ASSUME TableIInv, NEW b \in Bettor, BetUnlocksRound(b, RoundOf(b)), RoundOf(b) \in Round
  PROVE  rowLock' = Unlocked(b)
<1>1. TypeOK /\ BettorOf(b)
  BY DEF TableIInv, IInv, Betting
<1>2. \A r \in Round : rowLock[r] = b <=> r = RoundOf(b)
  BY <1>1 DEF BettorOf, BetUnlocksRound
<1> QED BY <1>1, <1>2 DEF BetUnlocksRound, Unlocked, TypeOK

\* A bet that arrives keeps the invariant.
LEMMA CallBetKeepsTableIInv ==
  ASSUME TableIInv, NEW b \in Bettor, NEW bet \in Bet, CallBet(b, bet)
  PROVE  TableIInv'
<1>1. TableTypeOK /\ BettorOf(b) /\ IInv
  BY DEF TableIInv, Betting
<1>2. IInv'
  BY <1>1, BetIsRoundsStep, NextKeepsIInv DEF BetStep
<1>3. /\ UNCHANGED <<moneyVars, draw, round, staff, userLock, rowLock>>
      /\ bettor' = [bettor EXCEPT ![b] = [NoBet EXCEPT !.pc = "user", !.bet = bet]]
      /\ bettor[b].pc = "idle"
  BY DEF CallBet, roundsVars, dbVars
<1>4. [NoBet EXCEPT !.pc = "user", !.bet = bet] \in BetCall
  BY DEF NoBet, BetCall
<1>5. /\ bettor' \in [Bettor -> BetCall]
      /\ \A t \in Bettor \ {b} : bettor'[t] = bettor[t]
      /\ userLock' \in [User -> Staff \cup Bettor \cup {Null}]
  BY <1>1, <1>3, <1>4 DEF TableTypeOK
<1>6. bettor'[b].pc = "user" /\ bettor'[b].bet = bet /\ bettor'[b].reply = "none"
  BY <1>1, <1>3 DEF TableTypeOK, NoBet
<1>7. /\ \A u \in User : userLock[u] # b
      /\ \A r \in Round : rowLock[r] # b
  BY <1>1, <1>3 DEF BettorOf
<1>8. BettorOf(b)'
  BY <1>3, <1>6, <1>7 DEF BettorOf
<1> QED BY <1>2, <1>3, <1>5, <1>8, QuietBetStep

\* A bet's lock of its customer's row, and the balance it reads, keep the invariant.
LEMMA LockUserKeepsTableIInv ==
  ASSUME TableIInv, NEW b \in Bettor, LockUser(b)
  PROVE  TableIInv'
<1>1. TableTypeOK /\ BettorOf(b) /\ IInv
  BY DEF TableIInv, Betting
<1>2. IInv'
  BY <1>1, BetIsRoundsStep, NextKeepsIInv DEF BetStep
<1>3. /\ UNCHANGED <<moneyVars, balance, draw, round, staff, rowLock>>
      /\ userLock' = [userLock EXCEPT ![UserOf(b)] = b]
      /\ bettor' = [bettor EXCEPT ![b] =
           [@ EXCEPT !.pc = "round", !.before = balance[UserOf(b)]]]
      /\ bettor[b].pc = "user" /\ userLock[UserOf(b)] = Null
  BY DEF LockUser, roundsVars, dbVars, moneyVars
<1>4. bettor[b].bet \in Bet /\ bettor[b].reply = "none" /\ UserOf(b) \in User
  BY <1>1, <1>3, OrdersAssumption DEF BettorOf, UserOf
<1>5. bettor[b] \in BetCall /\ balance[UserOf(b)] \in Nat
  BY <1>1, <1>4 DEF TableTypeOK
<1>6. /\ bettor' \in [Bettor -> BetCall]
      /\ \A t \in Bettor \ {b} : bettor'[t] = bettor[t]
      /\ userLock' \in [User -> Staff \cup Bettor \cup {Null}]
  BY <1>1, <1>3, <1>5 DEF TableTypeOK, BetCall
<1>7. /\ bettor'[b].pc = "round" /\ bettor'[b].bet = bettor[b].bet
      /\ bettor'[b].reply = "none" /\ bettor'[b].before = balance[UserOf(b)]
  BY <1>1, <1>3, <1>4, <1>5 DEF TableTypeOK, BetCall
<1>8. /\ userLock'[UserOf(b)] = b
      /\ \A u \in User : userLock'[u] = b => u = UserOf(b)
      /\ \A r \in Round : rowLock[r] # b
  BY <1>1, <1>3, <1>4 DEF BettorOf, TableTypeOK
<1>9. UserOf(b)' = UserOf(b)
  BY <1>7 DEF UserOf
<1>10. BettorOf(b)'
  BY <1>3, <1>4, <1>7, <1>8, <1>9 DEF BettorOf
<1>11. \A t \in Staff \cup (Bettor \ {b}) :
         /\ \A u \in User : (userLock'[u] = t) <=> (userLock[u] = t)
         /\ \A r \in Round : (rowLock'[r] = t) <=> (rowLock[r] = t)
  <2>1. \A t \in Staff \cup (Bettor \ {b}) : t # b /\ t # Null
    BY RoundsAssumption
  <2> QED BY <1>1, <1>3, <1>4, <2>1 DEF TableTypeOK
<1> QED BY <1>2, <1>3, <1>6, <1>10, <1>11, QuietBetStep

\* A bet that is accepted and takes the round's row keeps the invariant.
LEMMA AcceptBetKeepsTableIInv ==
  ASSUME TableIInv, NEW b \in Bettor, AcceptBet(b)
  PROVE  TableIInv'
<1>1. TableTypeOK /\ TypeOK /\ BettorOf(b) /\ IInv
  BY DEF TableIInv, Betting, IInv
<1>2. IInv'
  BY <1>1, BetIsRoundsStep, NextKeepsIInv DEF BetStep
<1>3. /\ UNCHANGED <<moneyVars, balance, order, draw, round, staff, userLock>>
      /\ rowLock' = [rowLock EXCEPT ![RoundOf(b)] = b] /\ rowLock[RoundOf(b)] = Null
      /\ bettor' = [bettor EXCEPT ![b].pc = "commit"]
      /\ bettor[b].pc = "round"
      /\ round[RoundOf(b)].status = "betting"
      /\ order[bettor[b].bet] = NoOrder
      /\ Rivals(bettor[b].bet, order) = {}
      /\ bettor[b].before >= Terms[bettor[b].bet].amount
  BY DEF AcceptBet, AtRound, OpenForBet, BetLocksRound, RoundOf, dbVars, moneyVars
<1>4. bettor[b].bet \in Bet /\ bettor[b].reply = "none" /\ RoundOf(b) \in Round
  BY <1>1, <1>3, TableAssumption DEF BettorOf, RoundOf
<1>5. bettor[b] \in BetCall
  BY <1>1 DEF TableTypeOK
<1>6. /\ bettor' \in [Bettor -> BetCall]
      /\ \A t \in Bettor \ {b} : bettor'[t] = bettor[t]
      /\ userLock' \in [User -> Staff \cup Bettor \cup {Null}]
  BY <1>1, <1>3, <1>5 DEF TableTypeOK, BetCall
<1>7. bettor'[b].pc = "commit" /\ bettor'[b].bet = bettor[b].bet
      /\ bettor'[b].reply = "none" /\ bettor'[b].before = bettor[b].before
  BY <1>1, <1>3, <1>4, <1>5 DEF TableTypeOK, BetCall
<1>8. /\ rowLock'[RoundOf(b)] = b
      /\ \A r \in Round : rowLock'[r] = b => r = RoundOf(b)
  BY <1>1, <1>3, <1>4 DEF BettorOf, TypeOK
<1>9. UserOf(b)' = UserOf(b) /\ RoundOf(b)' = RoundOf(b)
  BY <1>7 DEF UserOf, RoundOf
<1>10. BettorOf(b)'
  BY <1>1, <1>3, <1>4, <1>7, <1>8, <1>9 DEF BettorOf
<1>11. \A t \in Staff \cup (Bettor \ {b}) :
         /\ \A u \in User : (userLock'[u] = t) <=> (userLock[u] = t)
         /\ \A r \in Round : (rowLock'[r] = t) <=> (rowLock[r] = t)
  <2>1. \A t \in Staff \cup (Bettor \ {b}) : t # b /\ t # Null
    BY RoundsAssumption
  <2> QED BY <1>1, <1>3, <1>4, <2>1 DEF TypeOK
<1> QED BY <1>2, <1>3, <1>6, <1>10, <1>11, QuietBetStep

\* A bet that is refused, repeated or rolled back.
LEMMA ReturnsKeepTableIInv ==
  ASSUME TableIInv, NEW b \in Bettor, RepeatBet(b) \/ RefuseBet(b) \/ FailBet(b)
  PROVE  TableIInv'
<1>1. TypeOK /\ BettorOf(b) /\ IInv
  BY DEF TableIInv, Betting, IInv
<1>2. IInv'
  BY <1>1, BetIsRoundsStep, NextKeepsIInv DEF BetStep
<1>3. PICK reply \in {"none", "ok", "repeat", "refused", "error"} : ReturnBet(b, reply)
  BY DEF RepeatBet, RefuseBet, FailBet
<1>4. /\ UNCHANGED <<moneyVars, draw, round, staff>>
      /\ bettor' = [bettor EXCEPT ![b] = [NoBet EXCEPT !.reply = reply]]
      /\ userLock' = Released(b)
  BY <1>3 DEF RepeatBet, RefuseBet, FailBet, ReturnBet, BetUnlocksRound, roundsVars, dbVars
<1>5. /\ bettor[b].pc # "idle" => RoundOf(b) \in Round
      /\ \A r \in Round : rowLock[r] = b => bettor[b].pc = "commit" /\ r = RoundOf(b)
  BY <1>1, TableAssumption DEF BettorOf, RoundOf
<1>6. \/ UNCHANGED rowLock /\ \A r \in Round : rowLock[r] # b
      \/ rowLock' = Unlocked(b)
  <2>1. CASE RepeatBet(b) \/ RefuseBet(b)
    BY <1>5, <2>1 DEF RepeatBet, RefuseBet, AtRound, roundsVars
  <2>2. CASE FailBet(b) /\ rowLock[RoundOf(b)] = b
    BY <1>5, <2>2, BetUnlocksAll DEF FailBet
  <2>3. CASE FailBet(b) /\ rowLock[RoundOf(b)] # b
    BY <1>5, <2>3 DEF FailBet, roundsVars
  <2> QED BY <2>1, <2>2, <2>3
<1> QED BY <1>2, <1>4, <1>6, ReturnStep, QuietBetStep

\* What the commit of a bet does, in terms of what is so when it commits.
BetCommits(b, bet, u, r) ==
  /\ bet = bettor[b].bet /\ u = Terms[bet].user /\ r = Terms[bet].round
  /\ bet \in Bet /\ u \in User /\ r \in Round
  /\ rowLock[r] = b /\ userLock[u] = b
  /\ rowLock' = Unlocked(b) /\ userLock' = Released(b)
  /\ UNCHANGED <<round, slog, audit, outbox, infoCache, resultCache, staff, draw>>
  /\ round[r].status = "betting" /\ ~ round[r].settled
  /\ order[bet] = NoOrder /\ Rivals(bet, order) = {}
  /\ balance[u] >= Terms[bet].amount
  /\ order' = [order EXCEPT ![bet] = [bill |-> "pending", win |-> 0]]
  /\ balance' = [balance EXCEPT ![u] = balance[u] - Terms[bet].amount]
  /\ ledger' = [ledger EXCEPT ![u] = Append(@,
       [bet |-> bet, kind |-> "bet", before |-> balance[u],
        after |-> balance[u] - Terms[bet].amount])]
  /\ mail' = [mail EXCEPT ![bet] = Append(@, "bet_placed")]

\* What the commit of a bet does to the rows.
LEMMA CommitBetEffect ==
  ASSUME TableIInv, NEW b \in Bettor, CommitBet(b)
  PROVE  /\ \E bet, u, r : BetCommits(b, bet, u, r)
         /\ \E reply \in {"ok", "error"} :
              bettor' = [bettor EXCEPT ![b] = [NoBet EXCEPT !.reply = reply]]
<1>0. PICK bet, u, r : bet = bettor[b].bet /\ u = Terms[bet].user /\ r = Terms[bet].round
  OBVIOUS
<1>1. /\ TableTypeOK /\ TypeOK /\ BettorOf(b) /\ SettledTogether /\ bettor[b].pc = "commit"
  BY DEF TableIInv, Betting, IInv, Records, CommitBet
<1>2. UserOf(b) = u /\ RoundOf(b) = r
  BY <1>0 DEF UserOf, RoundOf
<1>3. bet \in Bet /\ u \in User /\ r \in Round
  BY <1>0, <1>1, OrdersAssumption, TableAssumption DEF BettorOf
<1>4. /\ rowLock[r] = b /\ userLock[u] = b /\ bettor[b].before = balance[u]
      /\ round[r].status = "betting" /\ order[bet] = NoOrder /\ Rivals(bet, order) = {}
      /\ bettor[b].before >= Terms[bet].amount
  BY <1>0, <1>1, <1>2, <1>3 DEF BettorOf
<1>5. ~ round[r].settled
  BY <1>1, <1>3, <1>4 DEF SettledTogether
<1>6. [order[bet] EXCEPT !.bill = "pending"] = [bill |-> "pending", win |-> 0]
  BY <1>4 DEF NoOrder
<1>7. rowLock' = Unlocked(b)
  BY <1>2, <1>3, BetUnlocksAll DEF CommitBet
<1>8. BetCommits(b, bet, u, r)
  BY <1>0, <1>2, <1>3, <1>4, <1>5, <1>6, <1>7
     DEF BetCommits, CommitBet, BetUnlocksRound, dbVars, cacheVars
<1> QED BY <1>8 DEF CommitBet

\* The commit of a bet keeps the invariant.
LEMMA CommitBetKeepsTableIInv ==
  ASSUME TableIInv, NEW b \in Bettor, CommitBet(b)
  PROVE  TableIInv'
<1>1. PICK bet, u, r : BetCommits(b, bet, u, r)
  BY CommitBetEffect
<1>2. /\ bet \in Bet /\ u \in User /\ r \in Round /\ r = Terms[bet].round
      /\ rowLock[r] = b /\ userLock[u] = b
      /\ rowLock' = Unlocked(b) /\ userLock' = Released(b)
      /\ UNCHANGED <<round, staff, draw>>
      /\ round[r].status = "betting" /\ ~ round[r].settled
      /\ order[bet] = NoOrder /\ Rivals(bet, order) = {}
      /\ balance[u] >= Terms[bet].amount
      /\ order' = [order EXCEPT ![bet] = [bill |-> "pending", win |-> 0]]
      /\ balance' = [balance EXCEPT ![u] = balance[u] - Terms[bet].amount]
      /\ ledger' = [ledger EXCEPT ![u] = Append(@,
           [bet |-> bet, kind |-> "bet", before |-> balance[u],
            after |-> balance[u] - Terms[bet].amount])]
      /\ mail' = [mail EXCEPT ![bet] = Append(@, "bet_placed")]
  BY <1>1 DEF BetCommits
<1>3. PICK reply \in {"ok", "error"} :
        bettor' = [bettor EXCEPT ![b] = [NoBet EXCEPT !.reply = reply]]
  BY CommitBetEffect
<1>4. /\ IInv /\ TableTypeOK /\ Betting /\ Drawing /\ OrdersSound
      /\ NoConflictingOrders /\ OrdersFollowTheRound /\ Locking
  BY DEF TableIInv, IInv
<1>5. IInv'
  BY <1>4, BetIsRoundsStep, NextKeepsIInv DEF BetStep
<1>6. /\ userLock' \in [User -> Staff \cup Bettor \cup {Null}]
      /\ bettor' \in [Bettor -> BetCall]
      /\ \A t \in Bettor \ {b} : bettor'[t] = bettor[t]
      /\ \A t \in Staff \cup (Bettor \ {b}) :
           /\ \A v \in User : (userLock'[v] = t) <=> (userLock[v] = t)
           /\ \A q \in Round : (rowLock'[q] = t) <=> (rowLock[q] = t)
      /\ BettorOf(b)'
  BY <1>2, <1>3, ReturnStep
<1>7. balance \in [User -> Nat] /\ order \in [Bet -> Order] /\ Terms[bet].amount \in Nat
  BY <1>2, <1>4, OrdersAssumption DEF TableTypeOK
<1>8. TableTypeOK'
  <2>1. balance[u] \in Nat /\ balance[u] - Terms[bet].amount \in Nat
    BY <1>2, <1>7
  <2>2. balance' \in [User -> Nat] /\ order' \in [Bet -> Order]
    BY <1>2, <1>7, <2>1 DEF Order
  <2>3. ledger' \in [User -> Seq(Line)]
    <3>1. [bet |-> bet, kind |-> "bet", before |-> balance[u],
           after |-> balance[u] - Terms[bet].amount] \in Line
      BY <1>2, <2>1 DEF Line
    <3> QED BY <1>2, <1>4, <3>1 DEF TableTypeOK
  <2>4. mail' \in [Bet -> Seq({"bet_placed", "order_settled"})]
    BY <1>2, <1>4 DEF TableTypeOK
  <2>5. TypeOK' /\ draw' \in [Staff -> Draw]
    BY <1>2, <1>4, <1>5 DEF TableTypeOK, IInv
  <2> QED BY <1>6, <2>2, <2>3, <2>4, <2>5 DEF TableTypeOK
<1>9. ASSUME NEW t \in Staff \cup (Bettor \ {b})
      PROVE  /\ \A v \in User : userLock[v] = t => balance'[v] = balance[v]
             /\ \A q \in Round : rowLock[q] = t => SameOrders(q)
  <2>1. t # b
    BY RoundsAssumption
  <2>2. \A v \in User : userLock[v] = t => balance'[v] = balance[v]
    BY <1>2, <1>7, <2>1
  <2>3. ASSUME NEW q \in Round, rowLock[q] = t PROVE SameOrders(q)
    BY <1>2, <1>7, <2>1, <2>3 DEF SameOrders
  <2> QED BY <2>2, <2>3
<1>10. Betting'
  <2> SUFFICES ASSUME NEW t \in Bettor PROVE BettorOf(t)'
    BY DEF Betting
  <2>1. CASE t # b
    <3>1. BettorOf(t) /\ t \in Staff \cup (Bettor \ {b})
      BY <1>4, <2>1 DEF Betting
    <3> QED BY <1>2, <1>4, <1>6, <1>9, <2>1, <3>1, BettorKept
  <2> QED BY <1>6, <2>1
<1>11. Drawing'
  <2> SUFFICES ASSUME NEW t \in Staff PROVE DrawOf(t)'
    BY DEF Drawing
  <2>1. DrawOf(t) /\ LockingOf(t) /\ t \in Staff \cup (Bettor \ {b})
    BY <1>4 DEF Drawing, Locking
  <2> QED BY <1>2, <1>4, <1>6, <1>9, <2>1, DrawKept
<1>12. /\ order'[bet] = [bill |-> "pending", win |-> 0]
       /\ \A other \in Bet \ {bet} : order'[other] = order[other]
  BY <1>2, <1>7
<1>13. OrdersSound'
  <2>1. \A other \in Bet : order'[other].bill # "settled" => order'[other].win = 0
    BY <1>4, <1>12 DEF OrdersSound
  <2>2. {other \in Bet : order'[other] # NoOrder} =
          {other \in Bet : order[other] # NoOrder} \cup {bet}
    BY <1>2, <1>12 DEF NoOrder
  <2>3. IsFiniteSet({other \in Bet : order[other] # NoOrder} \cup {bet})
    BY <1>4, FS_AddElement DEF OrdersSound
  <2> QED BY <2>1, <2>2, <2>3 DEF OrdersSound
<1>14. NoConflictingOrders'
  <2> SUFFICES ASSUME NEW one \in Bet, order'[one] # NoOrder, NEW other \in Rivals(one, order')
               PROVE  FALSE
    BY DEF NoConflictingOrders
  <2>1. /\ other \in Bet /\ order'[other].bill # "none"
        /\ Terms[other].user = Terms[one].user
        /\ Terms[other].round = Terms[one].round
        /\ Conflicting(Terms[other].play, Terms[one].play)
    BY DEF Rivals
  <2>2. other # one /\ Conflicting(Terms[one].play, Terms[other].play)
    BY <2>1 DEF Conflicting
  <2>3. CASE other = bet
    <3>1. order[one] # NoOrder /\ order[one] \in Order
      BY <1>7, <1>12, <2>2, <2>3
    <3>2. order[one].bill # "none"
      BY <1>4, <3>1 DEF OrdersSound, Order, NoOrder
    <3>3. one \in Rivals(bet, order)
      BY <2>1, <2>2, <2>3, <3>2 DEF Rivals
    <3> QED BY <1>2, <3>3
  <2>4. CASE other # bet /\ one = bet
    <3>1. other \in Rivals(bet, order)
      BY <1>12, <2>1, <2>4 DEF Rivals
    <3> QED BY <1>2, <3>1
  <2>5. CASE other # bet /\ one # bet
    <3>1. other \in Rivals(one, order) /\ order[one] # NoOrder
      BY <1>12, <2>1, <2>5 DEF Rivals
    <3> QED BY <1>4, <3>1 DEF NoConflictingOrders
  <2> QED BY <2>3, <2>4, <2>5
<1>15. OrdersFollowTheRound'
  <2>1. AllFollow
    BY <1>4, FollowingIsAllFollow
  <2>2. \A other \in Bet \ {bet} : mail'[other] = mail[other]
    BY <1>2, <1>4 DEF TableTypeOK
  <2>3. mail'[bet] = <<"bet_placed">>
    <3>1. mail[bet] = << >>
      BY <1>2, <2>1 DEF AllFollow, Follows, NoOrder
    <3>2. mail'[bet] = Append(<< >>, "bet_placed")
      BY <1>2, <1>4, <3>1 DEF TableTypeOK
    <3> QED BY <3>2
  <2>4. round[r] # NoRow
    BY <1>2 DEF NoRow
  <2>5. ASSUME NEW other \in Bet
        PROVE  Follows(other, order'[other], mail'[other], round'[Terms[other].round])
    <3>1. CASE other = bet
      <4>1. /\ order'[bet].bill = "pending" /\ mail'[bet] = <<"bet_placed">>
            /\ ~ round'[r].settled /\ round'[r] # NoRow /\ Terms[bet].round = r
        BY <1>2, <1>12, <2>3, <2>4
      <4> QED BY <3>1, <4>1 DEF Follows
    <3>2. CASE other # bet
      BY <1>2, <1>12, <2>1, <2>2, <3>2 DEF AllFollow
    <3> QED BY <3>1, <3>2
  <2>6. AllFollow'
    BY <2>5 DEF AllFollow
  <2>7. OrdersFollowTheRound' <=> AllFollow'
    BY <1>8, FollowingIsAllFollow, PTL
  <2> QED BY <2>6, <2>7
<1> QED BY <1>5, <1>8, <1>10, <1>11, <1>13, <1>14, <1>15 DEF TableIInv

\* Every step of a bet keeps the invariant.
LEMMA BetKeepsTableIInv ==
  ASSUME TableIInv, NEW b \in Bettor, BetStep(b)
  PROVE  TableIInv'
  BY CallBetKeepsTableIInv, LockUserKeepsTableIInv, AcceptBetKeepsTableIInv,
     ReturnsKeepTableIInv, CommitBetKeepsTableIInv DEF BetStep

-------------------------------------------------------------------------------
(* The steps of a draw *)

\* Two transactions are never the same, and neither is nobody.
LEMMA Transactions ==
  ASSUME NEW s \in Staff, NEW t \in Bettor \cup (Staff \ {s})
  PROVE  t # s /\ t # Null /\ s # Null
  BY RoundsAssumption

\* A draw's steps are steps of Rounds, or leave the rounds alone.
LEMMA SettleIsRoundsStep ==
  ASSUME NEW s \in Staff, SettleStep(s)
  PROVE  [Next]_roundsVars
<1>1. CASE ListOrders(s) \/ PayUser(s)
  BY <1>1 DEF ListOrders, PayUser
<1>2. CASE SettleAndCommit(s)
  BY <1>2 DEF SettleAndCommit, Next, Continues
<1>3. CASE FailStaff(s)
  BY <1>3 DEF FailStaff, Next, Environment
<1> QED BY <1>1, <1>2, <1>3 DEF SettleStep

\* A step of draw s that writes no order and no balance keeps the invariant, if it
\* takes or drops locks for s only and what s has read is so afterwards.
LEMMA QuietDrawStep ==
  ASSUME TableIInv, NEW s \in Staff, IInv',
         UNCHANGED <<moneyVars, bettor, round>>,
         userLock' \in [User -> Staff \cup Bettor \cup {Null}],
         draw' \in [Staff -> Draw],
         \A t \in Staff \ {s} : draw'[t] = draw[t] /\ staff'[t] = staff[t],
         \A t \in Bettor \cup (Staff \ {s}) :
           /\ \A u \in User : (userLock'[u] = t) <=> (userLock[u] = t)
           /\ \A r \in Round : (rowLock'[r] = t) <=> (rowLock[r] = t),
         DrawOf(s)'
  PROVE  TableIInv'
<1>1. /\ IInv /\ TableTypeOK /\ Betting /\ Drawing /\ OrdersSound
      /\ NoConflictingOrders /\ OrdersFollowTheRound /\ Locking
  BY DEF TableIInv, IInv
<1>2. UNCHANGED <<balance, order, ledger, mail, bettor, round>>
  BY DEF moneyVars
<1>3. TableTypeOK'
  BY <1>1, <1>2 DEF TableTypeOK, IInv
<1>4. OrdersSound' /\ NoConflictingOrders' /\ OrdersFollowTheRound'
  <2>1. OrdersSound' /\ NoConflictingOrders'
    BY <1>1, <1>2 DEF OrdersSound, NoConflictingOrders
  <2>2. OrdersFollowTheRound'
    <3>1. AllFollow /\ AllFollow' = AllFollow
      BY <1>1, <1>2, FollowingIsAllFollow DEF AllFollow
    <3>2. OrdersFollowTheRound' <=> AllFollow'
      BY <1>3, FollowingIsAllFollow, PTL
    <3> QED BY <3>1, <3>2
  <2> QED BY <2>1, <2>2
<1>5. \A r \in Round : SameOrders(r)
  BY <1>2 DEF SameOrders
<1>6. ASSUME NEW t \in Bettor PROVE BettorOf(t)'
  <2>1. BettorOf(t)
    BY <1>1 DEF Betting
  <2> QED BY <1>1, <1>2, <1>5, <2>1, BettorKept
<1>7. ASSUME NEW t \in Staff PROVE DrawOf(t)'
  <2>1. CASE t # s
    <3>1. DrawOf(t) /\ LockingOf(t) /\ t \in Staff \ {s}
      BY <1>1, <2>1 DEF Drawing, Locking
    <3> QED BY <1>1, <1>2, <1>5, <3>1, DrawKept
  <2> QED BY <2>1
<1> QED BY <1>3, <1>4, <1>6, <1>7 DEF TableIInv, Betting, Drawing

\* A draw that has listed nothing has its type.
LEMMA NoDrawTyped == NoDraw \in Draw
  BY DEF NoDraw, Draw

\* The listing of a round's orders keeps the invariant.
LEMMA ListOrdersKeepsTableIInv ==
  ASSUME TableIInv, NEW s \in Staff, ListOrders(s)
  PROVE  TableIInv'
<1>1. TableTypeOK /\ DrawOf(s) /\ IInv
  BY DEF TableIInv, Drawing
<1>2. IInv'
  BY <1>1, SettleIsRoundsStep, NextKeepsIInv DEF SettleStep
<1>3. UNCHANGED <<moneyVars, bettor, round, userLock, order, balance, staff, rowLock>>
  BY DEF ListOrders, roundsVars, dbVars, moneyVars
<1>0. PICK bets : bets = Pending(staff[s].rid, order)
  OBVIOUS
<1>4. PICK next \in User \cup {Null} :
        /\ bets = Pending(staff[s].rid, order)
        /\ Turn(Winners(s, bets), next)
        /\ draw' = [draw EXCEPT ![s] =
             [@ EXCEPT !.listed = TRUE, !.orders = bets, !.next = next]]
  BY <1>0 DEF ListOrders
<1>5. draw[s] = NoDraw /\ InDraw(s) /\ draw[s].paid = {} /\ draw[s] \in Draw
  BY <1>1, NoDrawTyped DEF ListOrders, DrawOf, NoDraw
<1>6. bets \in SUBSET Bet
  BY <1>4 DEF Pending
<1>7. /\ draw' \in [Staff -> Draw]
      /\ \A t \in Staff \ {s} : draw'[t] = draw[t]
      /\ draw'[s].listed /\ draw'[s].orders = bets /\ draw'[s].paid = {}
      /\ draw'[s].next = next
  BY <1>1, <1>4, <1>5, <1>6 DEF TableTypeOK, Draw
<1>8. \A u \in User : userLock[u] # s
  BY <1>1, <1>5 DEF DrawOf
<1>9. Winners(s, bets)' = Winners(s, bets) /\ Winners(s, bets) \ {} = Winners(s, bets)
      /\ InDraw(s)'
  BY <1>3, <1>5 DEF Winners, Card, InDraw
<1>10. DrawOf(s)'
  BY <1>3, <1>4, <1>7, <1>8, <1>9 DEF DrawOf, Turn
<1>11. userLock \in [User -> Staff \cup Bettor \cup {Null}]
  BY <1>1 DEF TableTypeOK
<1> QED BY <1>2, <1>3, <1>7, <1>10, <1>11, QuietDrawStep

\* The lock of a winner's row, and the balance read from it, keep the invariant.
LEMMA PayUserKeepsTableIInv ==
  ASSUME TableIInv, NEW s \in Staff, PayUser(s)
  PROVE  TableIInv'
<1>1. TableTypeOK /\ DrawOf(s) /\ IInv
  BY DEF TableIInv, Drawing
<1>2. IInv'
  BY <1>1, SettleIsRoundsStep, NextKeepsIInv DEF SettleStep
<1>3. UNCHANGED <<moneyVars, bettor, round, order, balance, staff, rowLock>>
  BY DEF PayUser, roundsVars, dbVars, moneyVars
<1>0. PICK u, paid : u = draw[s].next /\ paid = draw[s].paid \cup {u}
  OBVIOUS
<1>4. PICK next \in User \cup {Null} :
        /\ u = draw[s].next /\ u # Null /\ paid = draw[s].paid \cup {u}
        /\ draw[s].listed /\ userLock[u] = Null
        /\ userLock' = [userLock EXCEPT ![u] = s]
        /\ Turn(Winners(s, draw[s].orders) \ paid, next)
        /\ draw' = [draw EXCEPT ![s] =
             [@ EXCEPT !.paid = paid, !.seen[u] = balance[u], !.next = next]]
  BY <1>0 DEF PayUser
<1>5. draw[s] \in Draw /\ u \in User /\ balance[u] \in Nat
  BY <1>1, <1>4 DEF TableTypeOK, Draw
<1>6. /\ draw' \in [Staff -> Draw]
      /\ \A t \in Staff \ {s} : draw'[t] = draw[t]
      /\ draw'[s].listed /\ draw'[s].orders = draw[s].orders /\ draw'[s].paid = paid
      /\ draw'[s].next = next
      /\ draw'[s].seen = [draw[s].seen EXCEPT ![u] = balance[u]]
  <2>1. PICK seen : seen = [draw[s].seen EXCEPT ![u] = balance[u]]
    OBVIOUS
  <2>2. paid \in SUBSET User /\ seen \in [User -> Nat]
    BY <1>4, <1>5, <2>1 DEF Draw
  <2> DEFINE d == [draw[s] EXCEPT !.paid = paid, !.seen[u] = balance[u],
                                  !.next = next]
  <2>3. draw' = [draw EXCEPT ![s] = d]
    BY <1>4
  <2>4. d \in Draw /\ d.listed = draw[s].listed /\ d.orders = draw[s].orders /\ d.paid = paid
        /\ d.next = next /\ d.seen = seen
    BY <1>5, <2>1, <2>2 DEF Draw
  <2> HIDE DEF d
  <2>5. draw \in [Staff -> Draw]
    BY <1>1 DEF TableTypeOK
  <2>6. draw'[s] = d
    BY <2>3, <2>5
  <2>7. draw' \in [Staff -> Draw] /\ \A t \in Staff \ {s} : draw'[t] = draw[t]
    BY <2>3, <2>4, <2>5
  <2> QED BY <1>4, <2>1, <2>4, <2>6, <2>7
<1>7. /\ InDraw(s)
      /\ draw[s].orders = Pending(staff[s].rid, order)
      /\ draw[s].paid \subseteq Winners(s, draw[s].orders)
      /\ Turn(Winners(s, draw[s].orders) \ draw[s].paid, u)
      /\ \A v \in draw[s].paid : draw[s].seen[v] = balance[v]
      /\ \A v \in User : (userLock[v] = s) <=> (v \in draw[s].paid)
  BY <1>1, <1>4 DEF DrawOf
<1>8. u \in Winners(s, draw[s].orders)
  BY <1>4, <1>7 DEF Turn
<1>9. \A t \in Bettor \cup (Staff \ {s}) : \A v \in User :
        (userLock'[v] = t) <=> (userLock[v] = t)
  BY <1>1, <1>4, <1>5, Transactions DEF TableTypeOK
<1>10. /\ userLock' \in [User -> Staff \cup Bettor \cup {Null}]
       /\ \A v \in User : (userLock'[v] = s) <=> (v \in paid)
  BY <1>1, <1>4, <1>5, <1>7 DEF TableTypeOK
<1>11. \A v \in paid : v \in User /\ draw'[s].seen[v] = balance[v]
  BY <1>4, <1>5, <1>6, <1>7 DEF Draw, Winners
<1>12. /\ Winners(s, draw[s].orders)' = Winners(s, draw'[s].orders)
       /\ Winners(s, draw'[s].orders) = Winners(s, draw[s].orders)
       /\ InDraw(s)'
  BY <1>3, <1>6, <1>7 DEF Winners, Card, InDraw
<1>13. DrawOf(s)'
  <2>1. paid \subseteq Winners(s, draw[s].orders)
    BY <1>4, <1>7, <1>8
  <2> QED BY <1>3, <1>4, <1>6, <1>7, <1>10, <1>11, <1>12, <2>1 DEF DrawOf, Turn
<1> QED BY <1>2, <1>3, <1>6, <1>9, <1>10, <1>13, QuietDrawStep

\* A call that fails leaves the rows as they were.
LEMMA FailStaffKeepsTableIInv ==
  ASSUME TableIInv, NEW s \in Staff, FailStaff(s)
  PROVE  TableIInv'
<1>1. TableTypeOK /\ TypeOK /\ IInv
  BY DEF TableIInv, IInv
<1>2. IInv'
  BY <1>1, SettleIsRoundsStep, NextKeepsIInv DEF SettleStep
<1>3. /\ UNCHANGED <<moneyVars, bettor, round>>
      /\ rowLock' = Unlocked(s) /\ userLock' = Released(s)
      /\ draw' = [draw EXCEPT ![s] = NoDraw]
      /\ staff' = [staff EXCEPT ![s] = [NoCall EXCEPT !.reply = "error"]]
  BY DEF FailStaff, Fail, Answer, dbVars
<1>4. /\ draw' \in [Staff -> Draw] /\ draw'[s] = NoDraw
      /\ \A t \in Staff \ {s} : draw'[t] = draw[t] /\ staff'[t] = staff[t]
  BY <1>1, <1>3, NoDrawTyped DEF TableTypeOK, TypeOK
<1>5. \A t \in Bettor \cup (Staff \ {s}) :
        /\ \A u \in User : (userLock'[u] = t) <=> (userLock[u] = t)
        /\ \A r \in Round : (rowLock'[r] = t) <=> (rowLock[r] = t)
  BY <1>1, <1>3, Transactions DEF Released, Unlocked, TableTypeOK, TypeOK
<1>6. s # Null
  BY RoundsAssumption
<1>7. /\ userLock' \in [User -> Staff \cup Bettor \cup {Null}]
      /\ \A u \in User : userLock'[u] # s
  BY <1>1, <1>3, <1>6 DEF Released, TableTypeOK
<1>8. DrawOf(s)'
  BY <1>4, <1>7 DEF DrawOf, NoDraw
<1> QED BY <1>2, <1>3, <1>4, <1>5, <1>7, <1>8, QuietDrawStep

\* What the commit of a draw does, in terms of what is so when it commits: the orders
\* it settles are those that wait, the balances it adds to are the present ones.
Settles(s, r, result, bets, row) ==
  /\ r = staff[s].rid /\ result = staff[s].card /\ bets = Pending(r, order)
  /\ r \in Round /\ result \in Result
  /\ bets \subseteq Bet /\ IsFiniteSet(bets)
  /\ rowLock[r] = s
  /\ \A u \in User : (userLock[u] = s) <=> (Winning(u, bets, result) # {})
  /\ rowLock' = Unlocked(s) /\ userLock' = Released(s)
  /\ \A t \in Staff \ {s} : staff'[t] = staff[t]
  /\ UNCHANGED bettor
  /\ draw' = [draw EXCEPT ![s] = NoDraw]
  /\ round[r].status = "drawn" /\ ~ round[r].settled
  /\ row.status = "settled" /\ row.settled /\ row.result = result
  /\ round' = [round EXCEPT ![r] = row]
  /\ balance' = [u \in User |-> Paid(u, balance[u], bets, result)]
  /\ ledger' = [u \in User |-> IF userLock[u] = s
                                THEN ledger[u] \o PayLines(u, bets, result, balance[u])
                                ELSE ledger[u]]
  /\ order' = [bet \in Bet |-> IF bet \in bets
                               THEN [bill |-> "settled", win |-> Win(bet, result)]
                               ELSE order[bet]]
  /\ mail' = [bet \in Bet |-> IF bet \in bets THEN Append(mail[bet], "order_settled")
                                             ELSE mail[bet]]

\* What the commit of a draw does to the rows.
LEMMA SettleEffect ==
  ASSUME TableIInv, NEW s \in Staff, SettleAndCommit(s)
  PROVE  \E r, result, bets, row : Settles(s, r, result, bets, row)
<1>0. PICK r, result, bets, d :
        r = staff[s].rid /\ result = staff[s].card /\ bets = Pending(r, order) /\ d = draw[s]
  OBVIOUS
<1>1. /\ IInv /\ TypeOK /\ TableTypeOK /\ DrawOf(s) /\ LockingOf(s) /\ OrdersSound
      /\ CommitDraw(s) /\ d.listed /\ d.next = Null
  BY <1>0 DEF TableIInv, IInv, Drawing, Locking, SettleAndCommit
<1>2. PICK row \in Row :
        /\ row.status = "settled" /\ row.settled /\ row.result = result
        /\ round[r].status = "drawn" /\ ~ round[r].settled
        /\ round' = [round EXCEPT ![r] = row]
  BY <1>0, <1>1, CommitDrawStep
<1>3. r \in Round /\ result \in Result /\ rowLock[r] = s
  BY <1>0, <1>1 DEF CommitDraw, LockingOf
<1>4. rowLock' = Unlocked(s) /\ \A t \in Staff \ {s} : staff'[t] = staff[t]
  BY <1>1 DEF CommitDraw, Commit, TypeOK
<1>5. bets \subseteq Bet /\ IsFiniteSet(bets)
  <2>1. bets \subseteq {bet \in Bet : order[bet] # NoOrder}
    BY <1>0 DEF Pending, NoOrder
  <2> QED BY <1>1, <2>1, FS_Subset DEF OrdersSound
<1>6. /\ d.orders = bets
      /\ d.paid \subseteq Winners(s, bets)
      /\ Turn(Winners(s, bets) \ d.paid, Null)
      /\ \A u \in d.paid : d.seen[u] = balance[u]
      /\ \A u \in User : (userLock[u] = s) <=> (u \in d.paid)
  BY <1>0, <1>1 DEF DrawOf
<1>7. d.paid = Winners(s, bets)
  <2>1. Null \notin Winners(s, bets) \ d.paid
    BY TableAssumption DEF Winners
  <2> QED BY <1>6, <2>1 DEF Turn
<1>8. \A u \in User : /\ (u \in d.paid) <=> (Winning(u, bets, result) # {})
                      /\ (userLock[u] = s) <=> (Winning(u, bets, result) # {})
  BY <1>0, <1>6, <1>7 DEF Winners, Card
<1>9. /\ balance' = [u \in User |->
           IF u \in d.paid THEN Paid(u, d.seen[u], bets, result) ELSE balance[u]]
      /\ ledger' = [u \in User |->
           IF u \in d.paid THEN ledger[u] \o PayLines(u, bets, result, d.seen[u]) ELSE ledger[u]]
      /\ order' = SettledOrders(bets, result)
      /\ mail' = [bet \in Bet |->
           IF bet \in bets THEN Append(mail[bet], "order_settled") ELSE mail[bet]]
      /\ userLock' = Released(s)
      /\ draw' = [draw EXCEPT ![s] = NoDraw]
      /\ UNCHANGED bettor
  BY <1>0, <1>6 DEF SettleAndCommit, Card
<1>10. balance' = [u \in User |-> Paid(u, balance[u], bets, result)]
  <2>1. \A u \in User : u \notin d.paid => Paid(u, balance[u], bets, result) = balance[u]
    BY <1>8 DEF Paid
  <2>2. \A u \in User : (IF u \in d.paid THEN Paid(u, d.seen[u], bets, result) ELSE balance[u])
                          = Paid(u, balance[u], bets, result)
    BY <1>6, <2>1
  <2> QED BY <1>9, <2>2
<1>11. ledger' = [u \in User |-> IF userLock[u] = s
                                THEN ledger[u] \o PayLines(u, bets, result, balance[u])
                                ELSE ledger[u]]
  BY <1>6, <1>9
<1>12. order' = [bet \in Bet |-> IF bet \in bets
                                THEN [bill |-> "settled", win |-> Win(bet, result)]
                                ELSE order[bet]]
  BY <1>9 DEF SettledOrders
<1>13. Settles(s, r, result, bets, row)
  BY <1>0, <1>2, <1>3, <1>4, <1>5, <1>8, <1>9, <1>10, <1>11, <1>12 DEF Settles
<1> QED BY <1>13

\* The two messages an order sends in its life.
LEMMA TwoMails == Append(<<"bet_placed">>, "order_settled") = <<"bet_placed", "order_settled">>
<1> DEFINE sent == <<"bet_placed">>
           both == <<"bet_placed", "order_settled">>
           S == {"bet_placed", "order_settled"}
<1>1. /\ Len(both) = Len(sent) + 1 /\ both[Len(sent) + 1] = "order_settled"
      /\ \A i \in 1..Len(sent) : both[i] = sent[i]
  OBVIOUS
<1>2. sent \in Seq(S) /\ both \in Seq(S) /\ "order_settled" \in S
  OBVIOUS
<1> HIDE DEF sent, both, S
<1>3. sent \o <<"order_settled">> = both
  BY <1>1, <1>2, OneMore
<1>4. Append(sent, "order_settled") = both
  BY <1>2, <1>3, AppendIsConcat
<1> QED BY <1>4 DEF sent, both

\* The commit of a draw keeps the invariant.
LEMMA SettleKeepsTableIInv ==
  ASSUME TableIInv, NEW s \in Staff, SettleAndCommit(s)
  PROVE  TableIInv'
<1>1. PICK r, result, bets, row : Settles(s, r, result, bets, row)
  BY SettleEffect
<1>2. /\ IInv /\ TypeOK /\ TableTypeOK /\ Betting /\ Drawing /\ OrdersSound
      /\ NoConflictingOrders /\ OrdersFollowTheRound /\ Locking
  BY DEF TableIInv, IInv
<1>3. IInv' /\ TypeOK'
  BY <1>2, SettleIsRoundsStep, NextKeepsIInv DEF SettleStep, IInv
<1>4. /\ r \in Round /\ bets \subseteq Bet /\ IsFiniteSet(bets) /\ bets = Pending(r, order)
      /\ result \in Result /\ rowLock[r] = s
  BY <1>1 DEF Settles
<1>5. /\ rowLock' = Unlocked(s) /\ userLock' = Released(s)
      /\ \A t \in Staff \ {s} : staff'[t] = staff[t] /\ draw'[t] = draw[t]
      /\ UNCHANGED bettor
      /\ draw' \in [Staff -> Draw] /\ draw'[s] = NoDraw
  BY <1>1, <1>2, NoDrawTyped DEF Settles, TableTypeOK
<1>6. \A t \in Bettor \cup (Staff \ {s}) :
        /\ \A u \in User : (userLock'[u] = t) <=> (userLock[u] = t)
        /\ \A q \in Round : (rowLock'[q] = t) <=> (rowLock[q] = t)
  BY <1>2, <1>5, Transactions DEF Released, Unlocked, TableTypeOK, TypeOK
<1>7. /\ userLock' \in [User -> Staff \cup Bettor \cup {Null}]
      /\ \A u \in User : userLock'[u] # s
  <2>1. s # Null
    BY RoundsAssumption
  <2> QED BY <1>2, <1>5, <2>1 DEF Released, TableTypeOK
<1>8. /\ \A bet \in bets : order'[bet].bill = "settled" /\ order'[bet].win = Win(bet, result)
      /\ \A bet \in bets : order'[bet] \in Order
      /\ \A bet \in Bet \ bets : order'[bet] = order[bet]
  <2>1. ASSUME NEW bet \in bets
        PROVE  /\ order'[bet].bill = "settled" /\ order'[bet].win = Win(bet, result)
               /\ order'[bet] \in Order
    <3>1. PICK o : o = [bill |-> "settled", win |-> Win(bet, result)]
      OBVIOUS
    <3>2. order'[bet] = o
      BY <1>1, <3>1 DEF Settles
    <3>3. Win(bet, result) \in Nat
      BY <1>4, WinIsNat
    <3> QED BY <3>1, <3>2, <3>3 DEF Order
  <2>2. \A bet \in Bet \ bets : order'[bet] = order[bet]
    BY <1>1 DEF Settles
  <2> QED BY <2>1, <2>2
<1>9. \A bet \in bets : Terms[bet].round = r /\ order[bet].bill = "pending"
  BY <1>4 DEF Pending
<1>10. TableTypeOK'
  <2>1. balance' \in [User -> Nat]
    <3>1. \A u \in User : Paid(u, balance[u], bets, result) \in Nat
      BY <1>2, <1>4, PaidIsTotal DEF TableTypeOK
    <3> QED BY <1>1, <3>1 DEF Settles
  <2>2. order' \in [Bet -> Order]
    <3>1. \A bet \in Bet : order'[bet] \in Order
      BY <1>2, <1>8 DEF TableTypeOK
    <3> QED BY <1>1, <3>1 DEF Settles
  <2>3. ledger' \in [User -> Seq(Line)]
    <3>1. \A u \in User : PayLines(u, bets, result, balance[u]) \in Seq(Line)
      BY <1>2, <1>4, PayLinesBook DEF TableTypeOK, BookPayout
    <3> QED BY <1>1, <1>2, <3>1 DEF Settles, TableTypeOK
  <2>4. mail' \in [Bet -> Seq({"bet_placed", "order_settled"})]
    BY <1>1, <1>2 DEF Settles, TableTypeOK
  <2> QED BY <1>2, <1>3, <1>5, <1>7, <2>1, <2>2, <2>3, <2>4 DEF TableTypeOK
<1>11. ASSUME NEW t \in Bettor \cup (Staff \ {s})
       PROVE  /\ \A u \in User : userLock[u] = t => balance'[u] = balance[u]
              /\ \A q \in Round : rowLock[q] = t =>
                   round'[q].status = round[q].status /\ SameOrders(q)
  <2>1. t # s
    BY Transactions
  <2>2. ASSUME NEW u \in User, userLock[u] = t PROVE balance'[u] = balance[u]
    <3>1. Winning(u, bets, result) = {}
      BY <1>1, <2>1, <2>2 DEF Settles
    <3> QED BY <1>1, <3>1 DEF Settles, Paid
  <2>3. ASSUME NEW q \in Round, rowLock[q] = t
        PROVE  round'[q].status = round[q].status /\ SameOrders(q)
    <3>1. q # r
      BY <1>4, <2>1, <2>3
    <3>2. round'[q] = round[q]
      BY <1>1, <1>2, <3>1 DEF Settles, TypeOK
    <3> QED BY <1>8, <1>9, <3>1, <3>2 DEF SameOrders
  <2> QED BY <2>2, <2>3
<1>12. Betting'
  <2> SUFFICES ASSUME NEW t \in Bettor PROVE BettorOf(t)'
    BY DEF Betting
  <2>1. BettorOf(t) /\ t \in Bettor \cup (Staff \ {s})
    BY <1>2 DEF Betting
  <2> QED BY <1>2, <1>5, <1>6, <1>11, <2>1, BettorKept
<1>13. Drawing'
  <2> SUFFICES ASSUME NEW t \in Staff PROVE DrawOf(t)'
    BY DEF Drawing
  <2>1. CASE t # s
    <3>1. DrawOf(t) /\ LockingOf(t) /\ t \in Bettor \cup (Staff \ {s}) /\ t \in Staff \ {s}
      BY <1>2, <2>1 DEF Drawing, Locking
    <3> QED BY <1>2, <1>5, <1>6, <1>11, <3>1, DrawKept
  <2>2. CASE t = s
    BY <1>5, <1>7, <2>2 DEF DrawOf, NoDraw
  <2> QED BY <2>1, <2>2
<1>14. \A bet \in Bet : /\ (order'[bet] = NoOrder) <=> (order[bet] = NoOrder)
                        /\ (order'[bet].bill = "none") <=> (order[bet].bill = "none")
  <2> SUFFICES ASSUME NEW bet \in Bet
               PROVE  /\ (order'[bet] = NoOrder) <=> (order[bet] = NoOrder)
                      /\ (order'[bet].bill = "none") <=> (order[bet].bill = "none")
    OBVIOUS
  <2>1. CASE bet \in bets
    <3>1. order'[bet].bill = "settled" /\ order[bet].bill = "pending"
      BY <1>8, <1>9, <2>1
    <3> QED BY <3>1 DEF NoOrder
  <2>2. CASE bet \notin bets
    BY <1>8, <2>2
  <2> QED BY <2>1, <2>2
<1>15. OrdersSound'
  <2>1. \A bet \in Bet : order'[bet].bill # "settled" => order'[bet].win = 0
    BY <1>2, <1>8 DEF OrdersSound
  <2>2. {bet \in Bet : order'[bet] # NoOrder} = {bet \in Bet : order[bet] # NoOrder}
    BY <1>14
  <2> QED BY <1>2, <2>1, <2>2 DEF OrdersSound
<1>16. NoConflictingOrders'
  <2>1. \A bet \in Bet : Rivals(bet, order') = Rivals(bet, order)
    BY <1>14 DEF Rivals
  <2> QED BY <1>2, <1>14, <2>1 DEF NoConflictingOrders
<1>17. OrdersFollowTheRound'
  <2>1. AllFollow
    BY <1>2, FollowingIsAllFollow
  <2>2. ASSUME NEW bet \in Bet
        PROVE  Follows(bet, order'[bet], mail'[bet], round'[Terms[bet].round])
    <3>1. Follows(bet, order[bet], mail[bet], round[Terms[bet].round])
      BY <2>1 DEF AllFollow
    <3>2. Terms[bet].round \in Round /\ mail[bet] \in Seq({"bet_placed", "order_settled"})
      BY <1>2, TableAssumption DEF TableTypeOK
    <3>3. CASE bet \in bets
      <4>1. mail[bet] = <<"bet_placed">>
        BY <1>9, <3>1, <3>3 DEF Follows
      <4>2. mail'[bet] = <<"bet_placed", "order_settled">>
        <5>1. mail'[bet] = Append(<<"bet_placed">>, "order_settled")
          BY <1>1, <3>3, <4>1 DEF Settles
        <5> QED BY <5>1, TwoMails
      <4>3. round'[Terms[bet].round].settled /\ round'[Terms[bet].round].result = result
        BY <1>1, <1>2, <1>9, <3>2, <3>3 DEF Settles, TypeOK
      <4>4. order'[bet].bill = "settled" /\ order'[bet].win = Win(bet, result)
        BY <1>8, <3>3
      <4> QED BY <4>2, <4>3, <4>4 DEF Follows
    <3>4. CASE bet \notin bets
      <4>1. order'[bet] = order[bet] /\ mail'[bet] = mail[bet]
        BY <1>1, <1>8, <3>4 DEF Settles
      <4>2. CASE Terms[bet].round # r
        BY <1>1, <1>2, <3>1, <3>2, <4>1, <4>2 DEF Settles, TypeOK
      <4>3. CASE Terms[bet].round = r
        <5>1. ~ round[r].settled /\ order[bet].bill # "pending"
          BY <1>1, <1>4, <3>4, <4>3 DEF Settles, Pending
        <5>2. order[bet].bill # "settled"
          BY <3>1, <4>3, <5>1 DEF Follows
        <5> QED BY <3>1, <4>1, <5>1, <5>2 DEF Follows
      <4> QED BY <4>2, <4>3
    <3> QED BY <3>3, <3>4
  <2>3. AllFollow'
    BY <2>2 DEF AllFollow
  <2>4. OrdersFollowTheRound' <=> AllFollow'
    BY <1>10, FollowingIsAllFollow, PTL
  <2> QED BY <2>3, <2>4
<1> QED BY <1>3, <1>10, <1>12, <1>13, <1>15, <1>16, <1>17 DEF TableIInv

-------------------------------------------------------------------------------
(* The invariant *)

\* The invariant holds of a table without orders.
LEMMA InitTableIInv == TableInit => TableIInv
<1> SUFFICES ASSUME TableInit PROVE TableIInv
  OBVIOUS
<1>1. /\ Init
      /\ balance = Funds
      /\ order = [bet \in Bet |-> NoOrder]
      /\ ledger = [u \in User |-> << >>]
      /\ mail = [bet \in Bet |-> << >>]
      /\ userLock = [u \in User |-> Null]
      /\ bettor = [b \in Bettor |-> NoBet]
      /\ draw = [s \in Staff |-> NoDraw]
  BY DEF TableInit
<1>2. IInv /\ TypeOK
  BY <1>1, InitIInv DEF IInv
<1>3. TableTypeOK
  <2>1. NoOrder \in Order /\ NoBet \in BetCall
    BY DEF NoOrder, Order, NoBet, BetCall
  <2>2. balance \in [User -> Nat] /\ order \in [Bet -> Order] /\ bettor \in [Bettor -> BetCall]
    BY <1>1, <2>1, OrdersAssumption
  <2>3. /\ ledger \in [User -> Seq(Line)]
        /\ mail \in [Bet -> Seq({"bet_placed", "order_settled"})]
        /\ userLock \in [User -> Staff \cup Bettor \cup {Null}]
        /\ draw \in [Staff -> Draw]
    BY <1>1, NoDrawTyped
  <2> QED BY <1>2, <2>2, <2>3 DEF TableTypeOK
<1>4. \A r \in Round : rowLock[r] = Null
  BY <1>1 DEF Init
<1>5. Betting
  <2>1. \A b \in Bettor : b # Null /\ bettor[b].pc = "idle"
    BY <1>1, RoundsAssumption DEF NoBet
  <2> QED BY <1>1, <1>4, <2>1 DEF Betting, BettorOf
<1>6. Drawing
  <2>1. \A s \in Staff : s # Null
    BY RoundsAssumption
  <2> QED BY <1>1, <2>1 DEF Drawing, DrawOf, NoDraw
<1>7. OrdersSound
  <2>1. {bet \in Bet : order[bet] # NoOrder} = {}
    BY <1>1
  <2>2. \A bet \in Bet : order[bet].win = 0
    BY <1>1 DEF NoOrder
  <2> QED BY <2>1, <2>2, FS_EmptySet DEF OrdersSound
<1>8. NoConflictingOrders
  BY <1>1 DEF NoConflictingOrders
<1>9. OrdersFollowTheRound
  <2>1. AllFollow
    BY <1>1 DEF AllFollow, Follows, NoOrder
  <2> QED BY <1>3, <2>1, FollowingIsAllFollow
<1> QED BY <1>2, <1>3, <1>5, <1>6, <1>7, <1>8, <1>9 DEF TableIInv

\* What lies behind every variable of the table being unchanged.
LEMMA StutterKeepsTableIInv == TableIInv /\ UNCHANGED allVars => TableIInv'
<1> SUFFICES ASSUME TableIInv, UNCHANGED allVars PROVE TableIInv'
  OBVIOUS
<1>1. /\ IInv /\ TableTypeOK /\ Betting /\ Drawing /\ OrdersSound
      /\ NoConflictingOrders /\ OrdersFollowTheRound
  BY DEF TableIInv
<1>2. UNCHANGED roundsVars /\ UNCHANGED <<round, rowLock, staff>>
  BY DEF allVars, roundsVars, dbVars
<1>3. UNCHANGED <<balance, order, ledger, mail, userLock, bettor, draw>>
  BY DEF allVars, tableVars, moneyVars
<1>4. IInv'
  BY <1>1, <1>2, NextKeepsIInv
<1>5. TableTypeOK'
  BY <1>1, <1>3, <1>4 DEF TableTypeOK, IInv
<1>6. Betting'
  BY <1>1, <1>2, <1>3 DEF Betting, BettorOf, UserOf, RoundOf
<1>7. Drawing'
  <2> SUFFICES ASSUME NEW s \in Staff PROVE DrawOf(s)'
    BY DEF Drawing
  <2>1. DrawOf(s) /\ LockingOf(s)
    BY <1>1 DEF Drawing, IInv, Locking
  <2>2. \A r \in Round : SameOrders(r)
    BY <1>3 DEF SameOrders
  <2> QED BY <1>1, <1>2, <1>3, <2>1, <2>2, DrawKept
<1>8. OrdersSound' /\ NoConflictingOrders'
  BY <1>1, <1>3 DEF OrdersSound, NoConflictingOrders
<1>9. OrdersFollowTheRound'
  <2>1. AllFollow
    BY <1>1, FollowingIsAllFollow
  <2>2. AllFollow'
    BY <1>2, <1>3, <2>1 DEF AllFollow
  <2>3. OrdersFollowTheRound' <=> AllFollow'
    BY <1>5, FollowingIsAllFollow, PTL
  <2> QED BY <2>2, <2>3
<1> QED BY <1>4, <1>5, <1>6, <1>7, <1>8, <1>9 DEF TableIInv

\* Every step of the table, and a stutter, keeps the invariant.
LEMMA NextKeepsTableIInv == TableIInv /\ [TableNext]_allVars => TableIInv'
<1> SUFFICES ASSUME TableIInv, [TableNext]_allVars PROVE TableIInv'
  OBVIOUS
<1>1. CASE RoundsOnly
  BY <1>1, RoundsOnlyKeepsTableIInv
<1>2. ASSUME NEW b \in Bettor, BetStep(b) PROVE TableIInv'
  BY <1>2, BetKeepsTableIInv
<1>3. ASSUME NEW s \in Staff, SettleStep(s) PROVE TableIInv'
  BY <1>3, ListOrdersKeepsTableIInv, PayUserKeepsTableIInv, SettleKeepsTableIInv,
     FailStaffKeepsTableIInv DEF SettleStep
<1>4. CASE UNCHANGED allVars
  BY <1>4, StutterKeepsTableIInv
<1> QED BY <1>1, <1>2, <1>3, <1>4 DEF TableNext

-------------------------------------------------------------------------------
(* The theorems *)

\* Bets and draws lock before they read and write under what they have locked, so that
\* what each of them knows of orders, balances and rounds stays so until it commits.
THEOREM TableInvariant == TableSpec => []TableIInv
  BY InitTableIInv, NextKeepsTableIInv, PTL DEF TableSpec

\* Every variable of the table keeps its type: above all no balance falls below zero.
THEOREM TableTyped == TableSpec => []TableTypeOK
<1>1. TableIInv => TableTypeOK
  BY DEF TableIInv
<1> QED BY <1>1, TableInvariant, PTL

\* No user ever has both dragon and tiger in one round, though the check reads the
\* orders without locking them.
THEOREM TableNoConflictingOrders == TableSpec => []NoConflictingOrders
<1>1. TableIInv => NoConflictingOrders
  BY DEF TableIInv
<1> QED BY <1>1, TableInvariant, PTL

\* Orders and their messages move with their round: none waits in a settled round, none
\* is settled before it or by another result, and each message is sent once.
THEOREM TableOrdersFollowTheRound == TableSpec => []OrdersFollowTheRound
<1>1. TableIInv => OrdersFollowTheRound
  BY DEF TableIInv
<1> QED BY <1>1, TableInvariant, PTL

\* Seen from the rounds alone, bets and settlements are what Rounds says of them.
LEMMA TableStepsAreRoundsSteps ==
  ASSUME TableIInv, [TableNext]_allVars
  PROVE  [Next]_roundsVars
<1>1. CASE RoundsOnly
  BY <1>1, RoundsOnlyEffect DEF TableIInv
<1>2. CASE UNCHANGED allVars
  BY <1>2 DEF allVars
<1> QED BY <1>1, <1>2, BetIsRoundsStep, SettleIsRoundsStep DEF TableNext

\* The table implements the rounds: what is proved of Rounds holds of the table.
THEOREM TableImplementsRounds == TableSpec => Spec
<1>1. TableInit => Init
  BY DEF TableInit
<1>2. TableIInv /\ [TableNext]_allVars => [Next]_roundsVars
  BY TableStepsAreRoundsSteps
<1> QED BY <1>1, <1>2, TableInvariant, PTL DEF TableSpec, Spec

-------------------------------------------------------------------------------
(* The table implements the book *)

\* What the book sees of the rounds.
Stages == [r \in Round |-> round[r].status]
Outcomes == [r \in Round |-> round[r].result]

\* An event moves its round to the next stage of the book; a draw of the round must lie
\* between drawn and finished, since game_end asks for a result.
LEMMA EventAdvances ==
  ASSUME TableIInv, NEW s \in Staff, CommitEvent(s), UNCHANGED <<order, balance>>
  PROVE  \E r \in Round : B!Advance(r)
<1>1. IInv /\ TypeOK /\ Locking /\ NoInit /\ SettledTogether
  BY DEF TableIInv, IInv, Records
<1>2. PICK next \in State, row \in Row :
        /\ row.status = next /\ row.result = Seen(s).result
        /\ row.settled = Seen(s).settled
        /\ <<Seen(s).status, staff[s].op, next>> \in Transition
        /\ round' = [round EXCEPT ![staff[s].rid] = row]
  BY <1>1, CommitEventStep
<1>3. PICK r \in Round : r = staff[s].rid /\ rowLock[r] = s /\ Allowed(Seen(s), staff[s].op)
  BY <1>1 DEF CommitEvent, Locking, LockingOf
<1>4. Seen(s).result = round[r].result
  BY <1>3 DEF Seen, NewRow, NoRow
<1>5. <<round[r].status, next>> \in
        {<<"absent", "betting">>, <<"betting", "sealed">>, <<"sealed", "dealt">>,
         <<"dealt", "drawn">>, <<"settled", "finished">>}
  <2>1. CASE round[r] = NoRow
    <3>1. Seen(s).status = "init" /\ round[r].status = "absent"
      BY <1>3, <2>1 DEF Seen, NewRow, NoRow
    <3>2. next = "betting"
      BY <1>2, <3>1 DEF Transition
    <3> QED BY <3>1, <3>2
  <2>2. CASE round[r] # NoRow
    <3>1. Seen(s) = round[r]
      BY <1>3, <2>2 DEF Seen
    <3>2. /\ round[r].status # "init"
          /\ round[r].result # "none" => round[r].status \in {"settled", "finished"}
      BY <1>1 DEF NoInit, SettledTogether
    <3>3. staff[s].op = "game_end" => round[r].status \in {"settled", "finished"}
      BY <1>3, <3>1, <3>2 DEF Allowed
    <3>4. <<round[r].status, staff[s].op, next>> \in Transition
      BY <1>2, <3>1
    <3>5. CASE staff[s].op = "game_end"
      BY <3>3, <3>4, <3>5 DEF Transition
    <3>6. CASE staff[s].op # "game_end"
      BY <3>2, <3>4, <3>6 DEF Transition
    <3> QED BY <3>5, <3>6
  <2> QED BY <2>1, <2>2
<1>6. Stages' = [Stages EXCEPT ![r] = next] /\ Stages[r] = round[r].status
  BY <1>1, <1>2, <1>3 DEF Stages, TypeOK
<1>7. Outcomes' = Outcomes
  BY <1>1, <1>2, <1>3, <1>4 DEF Outcomes, TypeOK
<1>8. B!Advance(r)
  <2>1. next \in B!State
    BY <1>2 DEF B!State, State
  <2>2. <<Stages[r], next>> \in
          {<<"absent", "betting">>, <<"betting", "sealed">>, <<"sealed", "dealt">>,
           <<"dealt", "drawn">>, <<"settled", "finished">>}
    BY <1>5, <1>6
  <2> QED BY <1>6, <1>7, <2>1, <2>2, Zenon DEF B!Advance, Stages, Outcomes
<1> QED BY <1>8

\* Every other step of a staff call that is not a draw's commit shows the book nothing.
LEMMA RoundsOnlyInBook ==
  ASSUME TableIInv, RoundsOnly
  PROVE  [B!Next]_B!bookVars
<1>1. IInv /\ TypeOK
  BY DEF TableIInv, IInv
<1>2. UNCHANGED <<order, balance>>
  BY DEF RoundsOnly, tableVars, moneyVars
<1>3. CASE UNCHANGED round
  BY <1>2, <1>3 DEF B!bookVars
<1>4. ASSUME NEW s \in Staff, CommitEvent(s) PROVE [B!Next]_B!bookVars
  BY <1>2, <1>4, EventAdvances DEF B!Next
<1>5. ASSUME NEW r \in Round, WindowPasses(r) PROVE [B!Next]_B!bookVars
  <2>1. \A q \in Round : round'[q].status = round[q].status /\ round'[q].result = round[q].result
    BY <1>1, <1>5 DEF WindowPasses, TypeOK, Row
  <2>2. Stages' = Stages /\ Outcomes' = Outcomes
    BY <2>1 DEF Stages, Outcomes
  <2> QED BY <1>2, <2>2 DEF B!bookVars, Stages, Outcomes
<1>6. \/ UNCHANGED dbVars
      \/ \E s \in Staff : CommitEvent(s) \/ CommitDraw(s)
      \/ \E r \in Round : WindowPasses(r)
  BY <1>1, RoundsOnlyEffect, WhoWrites
<1>7. ASSUME NEW s \in Staff, CommitDraw(s) PROVE FALSE
  <2>1. InDraw(s)
    BY <1>7 DEF CommitDraw, InDraw
  <2>2. staff'[s] = staff[s]
    BY <1>1, <2>1, RoundsOnlyEffect
  <2>3. staff'[s].pc = "cache"
    BY <1>1, <1>7 DEF CommitDraw, Commit, TypeOK
  <2> QED BY <2>1, <2>2, <2>3 DEF InDraw
<1> QED BY <1>3, <1>4, <1>5, <1>6, <1>7 DEF dbVars

\* The commit of a bet places it in the book; its other steps show nothing.
LEMMA BetInBook ==
  ASSUME TableIInv, NEW b \in Bettor, BetStep(b)
  PROVE  [B!Next]_B!bookVars
<1>1. TypeOK /\ TableTypeOK
  BY DEF TableIInv, TableTypeOK
<1>2. CASE ~ CommitBet(b)
  <2>1. UNCHANGED <<round, order, balance>>
    BY <1>2 DEF BetStep, CallBet, LockUser, AcceptBet, RepeatBet, RefuseBet, FailBet, ReturnBet,
         BetLocksRound, BetUnlocksRound, roundsVars, dbVars, moneyVars
  <2> QED BY <2>1 DEF B!bookVars
<1>3. CASE CommitBet(b)
  <2>1. PICK bet, u, r : BetCommits(b, bet, u, r)
    BY <1>3, CommitBetEffect
  <2>2. /\ bet \in Bet /\ u = Terms[bet].user /\ r = Terms[bet].round /\ r \in Round
        /\ UNCHANGED round /\ round[r].status = "betting"
        /\ order[bet] = NoOrder /\ Rivals(bet, order) = {}
        /\ balance[u] >= Terms[bet].amount
        /\ order' = [order EXCEPT ![bet] = [bill |-> "pending", win |-> 0]]
        /\ balance' = [balance EXCEPT ![u] = balance[u] - Terms[bet].amount]
    BY <2>1 DEF BetCommits
  <2>3. [order[bet] EXCEPT !.bill = "pending"] = [bill |-> "pending", win |-> 0]
    BY <2>2 DEF NoOrder
  <2>4. /\ B!Rivals(bet, order) = Rivals(bet, order) /\ B!NoOrder = NoOrder
    BY DEF B!Rivals, Rivals, B!NoOrder, NoOrder, B!Conflicting, Conflicting
  <2>5. Stages[r] = "betting" /\ Stages' = Stages /\ Outcomes' = Outcomes
    BY <2>2 DEF Stages, Outcomes
  <2>6. B!Place(bet)
    BY <2>2, <2>3, <2>4, <2>5 DEF B!Place, Stages, Outcomes
  <2> QED BY <2>2, <2>6 DEF B!Next
<1> QED BY <1>2, <1>3

\* The commit of a draw settles its round in the book; its other steps show nothing.
LEMMA SettleInBook ==
  ASSUME TableIInv, NEW s \in Staff, SettleStep(s)
  PROVE  [B!Next]_B!bookVars
<1>1. TypeOK /\ TableTypeOK
  BY DEF TableIInv, TableTypeOK
<1>2. CASE ~ SettleAndCommit(s)
  <2>1. UNCHANGED <<round, order, balance>>
    BY <1>2 DEF SettleStep, ListOrders, PayUser, FailStaff, Fail, Answer, roundsVars, dbVars,
         moneyVars
  <2> QED BY <2>1 DEF B!bookVars
<1>3. CASE SettleAndCommit(s)
  <2>1. PICK r, result, bets, row : Settles(s, r, result, bets, row)
    BY <1>3, SettleEffect
  <2>2. /\ r \in Round /\ result \in Result /\ bets = Pending(r, order)
        /\ round[r].status = "drawn"
        /\ row.status = "settled" /\ row.result = result
        /\ round' = [round EXCEPT ![r] = row]
        /\ balance' = [u \in User |-> Paid(u, balance[u], bets, result)]
        /\ order' = [bet \in Bet |-> IF bet \in bets
                                     THEN [bill |-> "settled", win |-> Win(bet, result)]
                                     ELSE order[bet]]
    BY <2>1 DEF Settles
  <2>3. B!Pending(r, order) = bets /\ result \in B!Result
    BY <2>2 DEF B!Pending, Pending, B!Result, Result
  <2>4. \A bet \in Bet : B!Win(bet, result) = Win(bet, result)
    BY DEF B!Win, Win, B!Payout, Payout, B!Odds, Odds
  <2>5. \A u \in User : B!Paid(u, balance[u], bets, result) = Paid(u, balance[u], bets, result)
    <3>1. ASSUME NEW u \in User PROVE B!Credit(u, bets, result) = Credit(u, bets, result)
      BY DEF B!Credit, Credit, B!MapThenSumSet, MapThenSumSet, B!MapThenFoldSet, MapThenFoldSet,
             B!Winning, Winning, B!Win, Win, B!Payout, Payout, B!Odds, Odds
    <3>2. \A u \in User : B!Winning(u, bets, result) = Winning(u, bets, result)
      BY DEF B!Winning, Winning, B!Win, Win, B!Payout, Payout, B!Odds, Odds
    <3> QED BY <3>1, <3>2 DEF B!Paid, Paid
  <2>6. /\ Stages[r] = "drawn" /\ Stages' = [Stages EXCEPT ![r] = "settled"]
        /\ Outcomes' = [Outcomes EXCEPT ![r] = result]
    BY <1>1, <2>2 DEF Stages, Outcomes, TypeOK
  <2>7. balance' = [u \in User |-> B!Paid(u, balance[u], bets, result)]
    BY <2>2, <2>5
  <2>8. order' = [bet \in Bet |-> IF bet \in bets
                                  THEN [bill |-> "settled", win |-> B!Win(bet, result)]
                                  ELSE order[bet]]
    BY <2>2, <2>4
  <2>9. B!Settle(r, result)
    BY <2>3, <2>6, <2>7, <2>8 DEF B!Settle, Stages, Outcomes
  <2> QED BY <2>2, <2>3, <2>9 DEF B!Next
<1> QED BY <1>2, <1>3

\* Every step of the table is a step of its book, or none.
LEMMA TableStepsAreBookSteps ==
  ASSUME TableIInv, [TableNext]_allVars
  PROVE  [B!Next]_B!bookVars
<1>1. CASE UNCHANGED allVars
  BY <1>1 DEF allVars, roundsVars, dbVars, tableVars, moneyVars, B!bookVars
<1> QED BY <1>1, RoundsOnlyInBook, BetInBook, SettleInBook DEF TableNext

\* The table implements the book: seen from outside a bet and a settlement are each one
\* step, whatever happens between their locks and wherever they fail.
THEOREM TableImplementsBook == TableSpec => ImplementsBook
<1>1. TableInit => B!Init
  BY DEF TableInit, Init, NoRow, B!Init, NoOrder, B!NoOrder
<1>2. TableIInv /\ [TableNext]_allVars => [B!Next]_B!bookVars
  BY TableStepsAreBookSteps
<1> QED BY <1>1, <1>2, TableInvariant, PTL DEF TableSpec, ImplementsBook, B!Spec

\* No step answers a bet with success whose order is not there.
LEMMA AnswerStepDurable ==
  ASSUME TableIInv, [TableNext]_allVars, NEW b \in Bettor, bettor[b].pc # "idle",
         bettor'[b].reply \in {"ok", "repeat"}
  PROVE  order'[bettor[b].bet] # NoOrder
<1>1. TableTypeOK /\ BettorOf(b)
  BY DEF TableIInv, Betting
<1>2. bettor[b].reply = "none" /\ bettor[b].bet \in Bet
  BY <1>1 DEF BettorOf
<1>3. bettor'[b] # bettor[b]
  BY <1>2
<1>4. CASE BetStep(b)
  <2>1. CASE RepeatBet(b)
    BY <2>1 DEF RepeatBet, ReturnBet, moneyVars
  <2>2. CASE CommitBet(b)
    BY <1>1, <1>2, <2>2 DEF CommitBet, TableTypeOK, Order, NoOrder
  <2>3. CASE ~ RepeatBet(b) /\ ~ CommitBet(b)
    <3>1. bettor[b] \in BetCall
      BY <1>1 DEF TableTypeOK
    <3>2. bettor'[b].reply \notin {"ok", "repeat"}
      <4>1. CASE RefuseBet(b) \/ FailBet(b)
        BY <1>1, <4>1 DEF RefuseBet, FailBet, ReturnBet, NoBet, TableTypeOK
      <4>2. CASE LockUser(b)
        BY <1>1, <1>2, <3>1, <4>2 DEF LockUser, TableTypeOK, BetCall
      <4>3. CASE AcceptBet(b)
        BY <1>1, <1>2, <3>1, <4>3 DEF AcceptBet, TableTypeOK, BetCall
      <4>4. CASE \E bet \in Bet : CallBet(b, bet)
        BY <4>4 DEF CallBet
      <4> QED BY <1>4, <2>3, <4>1, <4>2, <4>3, <4>4 DEF BetStep
    <3> QED BY <3>2
  <2> QED BY <2>1, <2>2, <2>3
<1>5. ASSUME NEW t \in Bettor, BetStep(t), t # b PROVE FALSE
  <2>1. bettor'[b] = bettor[b]
    BY <1>1, <1>5 DEF BetStep, CallBet, LockUser, AcceptBet, RepeatBet, RefuseBet, CommitBet,
         FailBet, ReturnBet, TableTypeOK
  <2> QED BY <1>3, <2>1
<1>6. ASSUME RoundsOnly \/ (\E s \in Staff : SettleStep(s)) \/ UNCHANGED allVars PROVE FALSE
  <2>1. UNCHANGED bettor
    BY <1>6 DEF RoundsOnly, SettleStep, ListOrders, PayUser, SettleAndCommit, FailStaff, allVars,
         tableVars
  <2> QED BY <1>3, <2>1
<1> QED BY <1>4, <1>5, <1>6 DEF TableNext

\* A bet that is answered with success, for the first time or again, has its order.
THEOREM TableBetAnswerIsDurable == TableSpec => BetAnswerIsDurable
<1>1. TableIInv /\ [TableNext]_allVars =>
        [\A b \in Bettor :
           bettor[b].pc # "idle" /\ bettor'[b].reply \in {"ok", "repeat"}
             => order'[bettor[b].bet] # NoOrder]_allVars
  BY AnswerStepDurable
<1> QED BY <1>1, TableInvariant, PTL DEF TableSpec, BetAnswerIsDurable
-------------------------------------------------------------------------------
(* Transactions are strictly two-phase *)

\* The rows a transaction has locked.
HeldUsers(t) == {u \in User : userLock[u] = t}
HeldRounds(t) == {r \in Round : rowLock[r] = t}

\* Transaction t keeps what it has locked, or drops all of it; nobody takes it away.
TwoPhase(t) ==
  /\ \/ HeldUsers(t) \subseteq HeldUsers(t)' /\ HeldRounds(t) \subseteq HeldRounds(t)'
     \/ HeldUsers(t)' = {} /\ HeldRounds(t)' = {}
  /\ \A u \in HeldUsers(t) : userLock'[u] \in {t, Null}
  /\ \A r \in HeldRounds(t) : rowLock'[r] \in {t, Null}

\* No row that bets and events write changes; only a window may have passed.
WritesNothing ==
  /\ UNCHANGED <<moneyVars, slog, audit, outbox>>
  /\ \A r \in Round : round'[r] \in {round[r], [round[r] EXCEPT !.window = "past"]}

\* All that is written lies under locks of transaction t, which end with the step: a
\* balance and a ledger under the user's, an order, its messages and whatever belongs
\* to a round under the round's.
WritesUnderLocks(t) ==
  /\ \A u \in User : balance'[u] # balance[u] \/ ledger'[u] # ledger[u] => u \in HeldUsers(t)
  /\ \A bet \in Bet :
       order'[bet] # order[bet] \/ mail'[bet] # mail[bet] => Terms[bet].round \in HeldRounds(t)
  /\ \A r \in Round :
       \/ round'[r] \notin {round[r], [round[r] EXCEPT !.window = "past"]}
       \/ slog'[r] # slog[r] \/ audit'[r] # audit[r] \/ outbox'[r] # outbox[r]
         => r \in HeldRounds(t)
  /\ HeldUsers(t)' = {} /\ HeldRounds(t)' = {}

LocksAreTwoPhase == [][\A t \in Staff \cup Bettor : TwoPhase(t)]_allVars

CommitsAreUnderLocks ==
  [][WritesNothing \/ \E t \in Staff \cup Bettor : WritesUnderLocks(t)]_allVars

\* What a step of transaction t does to the locks.
Drops(t) == userLock' = Released(t) /\ rowLock' = Unlocked(t)

Takes(t) ==
  /\ \/ UNCHANGED userLock
     \/ \E u \in User : userLock[u] = Null /\ userLock' = [userLock EXCEPT ![u] = t]
  /\ \/ UNCHANGED rowLock
     \/ \E r \in Round : rowLock[r] \in {Null, t} /\ rowLock' = [rowLock EXCEPT ![r] = t]

\* Who drops or takes locks in this way respects everybody's.
LEMMA DropsAndTakes ==
  ASSUME TableTypeOK, NEW x \in Staff \cup Bettor, Drops(x) \/ Takes(x),
         NEW t \in Staff \cup Bettor
  PROVE  TwoPhase(t)
<1>1. t # Null /\ x # Null
  BY RoundsAssumption
<1>2. /\ userLock \in [User -> Staff \cup Bettor \cup {Null}]
      /\ rowLock \in [Round -> Staff \cup Bettor \cup {Null}]
  BY DEF TableTypeOK, TypeOK
<1>3. CASE Drops(x)
  <2>1. /\ \A u \in User : userLock'[u] = IF userLock[u] = x THEN Null ELSE userLock[u]
        /\ \A r \in Round : rowLock'[r] = IF rowLock[r] = x THEN Null ELSE rowLock[r]
    BY <1>3 DEF Drops, Released, Unlocked
  <2> QED BY <1>1, <2>1 DEF TwoPhase, HeldUsers, HeldRounds
<1>4. CASE Takes(x)
  <2>1. \A u \in User : userLock[u] = t => userLock'[u] = t
    BY <1>1, <1>2, <1>4 DEF Takes
  <2>2. \A r \in Round : rowLock[r] = t => rowLock'[r] = t
    BY <1>1, <1>2, <1>4 DEF Takes
  <2> QED BY <2>1, <2>2 DEF TwoPhase, HeldUsers, HeldRounds
<1> QED BY <1>3, <1>4

\* A staff call that is not paying winners holds no user's row.
LEMMA OnlyDrawsHoldUsers ==
  ASSUME TableIInv, NEW s \in Staff, ~ InDraw(s)
  PROVE  Released(s) = userLock
<1>1. DrawOf(s) /\ TableTypeOK
  BY DEF TableIInv, Drawing
<1>2. draw[s] = NoDraw
  BY <1>1 DEF DrawOf
<1>3. \A u \in User : userLock[u] # s
  BY <1>1, <1>2 DEF DrawOf, NoDraw
<1> QED BY <1>1, <1>3 DEF Released, TableTypeOK

\* The steps of a staff call that is not in its draw.
LEMMA RoundsOnlyLocks ==
  ASSUME TableIInv, RoundsOnly
  PROVE  UNCHANGED <<userLock, rowLock>> \/ \E t \in Staff \cup Bettor : Drops(t) \/ Takes(t)
<1>1. UNCHANGED userLock
  BY DEF RoundsOnly, tableVars
<1>2. IInv /\ TypeOK /\ Locking
  BY DEF TableIInv, IInv
<1>3. ASSUME NEW s \in Staff, Answer(s, "ok") \/ Answer(s, "error"), ~ InDraw(s) PROVE Drops(s)
  BY <1>1, <1>3, OnlyDrawsHoldUsers DEF Answer, Drops
<1>4. ASSUME NEW s \in Staff, NEW prev, NEW pc, Hold(s, prev, pc),
             rowLock[staff[s].rid] \in {Null, s}, staff[s].rid \in Round
      PROVE  Takes(s)
  BY <1>1, <1>4 DEF Hold, Takes
<1>5. ASSUME NEW s \in Staff, WantsLock(s) PROVE Drops(s) \/ Takes(s)
  <2>1. ~ InDraw(s) /\ staff[s].rid \in Round
    BY <1>2, <1>5 DEF WantsLock, EnsureInsert, EnsureDuplicate, LockForEvent, RefuseEvent,
         LockForDraw, AnswerDraw, InDraw, Locking, LockingOf
  <2>2. \/ Answer(s, "ok") \/ Answer(s, "error")
        \/ CanLock(s) /\ \E prev, pc : Hold(s, prev, pc)
    BY <1>5 DEF WantsLock, EnsureInsert, EnsureDuplicate, LockForEvent, RefuseEvent,
         LockForDraw, AnswerDraw
  <2> QED BY <1>3, <1>4, <2>1, <2>2 DEF CanLock
<1>6. ASSUME NEW s \in Staff, LogSettlement(s) PROVE Drops(s) \/ Takes(s)
  <2>1. ~ InDraw(s) /\ staff[s].rid \in Round /\ rowLock[staff[s].rid] = s
    BY <1>2, <1>6 DEF LogSettlement, InDraw, Locking, LockingOf
  <2>2. Answer(s, "ok") \/ Hold(s, staff[s].prev, "commit")
    BY <1>6 DEF LogSettlement
  <2> QED BY <1>3, <1>4, <2>1, <2>2
<1>7. ASSUME NEW s \in Staff, CommitEvent(s) PROVE Drops(s)
  <2>1. ~ InDraw(s)
    BY <1>7 DEF CommitEvent, InDraw, Event
  <2>2. rowLock' = Unlocked(s)
    BY <1>7 DEF CommitEvent, Commit
  <2> QED BY <1>1, <2>1, <2>2, OnlyDrawsHoldUsers DEF Drops
<1>8. ASSUME NEW s \in Staff, EnsureCount(s) \/ CacheEvent(s) \/ CacheResult(s)
      PROVE  UNCHANGED rowLock
  BY <1>8 DEF EnsureCount, CacheEvent, CacheResult
<1>9. ASSUME \/ \E s \in Staff, r \in Round, op \in Event : CallEvent(s, op, r)
             \/ \E s \in Staff, r \in Round, card \in Result : CallDraw(s, card, r)
             \/ \E r \in Round : WindowPasses(r) \/ InfoExpires(r) \/ ResultExpires(r)
      PROVE  UNCHANGED rowLock
  BY <1>9 DEF CallEvent, CallDraw, WindowPasses, InfoExpires, ResultExpires
<1> QED BY <1>1, <1>5, <1>6, <1>7, <1>8, <1>9 DEF RoundsOnly

\* The steps of a bet.
LEMMA BetLocks ==
  ASSUME TableIInv, NEW b \in Bettor, BetStep(b)
  PROVE  UNCHANGED <<userLock, rowLock>> \/ Drops(b) \/ Takes(b)
<1>1. TableTypeOK /\ TypeOK /\ BettorOf(b)
  BY DEF TableIInv, TableTypeOK, Betting
<1>2. bettor[b].pc # "idle" => UserOf(b) \in User /\ RoundOf(b) \in Round
  BY <1>1, OrdersAssumption, TableAssumption DEF BettorOf, UserOf, RoundOf
<1>3. (\A r \in Round : rowLock[r] # b) => Unlocked(b) = rowLock
  BY <1>1 DEF Unlocked, TypeOK
<1>4. CASE \E bet \in Bet : CallBet(b, bet)
  BY <1>4 DEF CallBet, roundsVars
<1>5. CASE LockUser(b)
  BY <1>2, <1>5 DEF LockUser, Takes, roundsVars
<1>6. CASE AcceptBet(b)
  BY <1>2, <1>6 DEF AcceptBet, AtRound, BetLocksRound, Takes
<1>7. CASE RepeatBet(b) \/ RefuseBet(b)
  <2>1. bettor[b].pc = "round" /\ userLock' = Released(b) /\ UNCHANGED rowLock
    BY <1>7 DEF RepeatBet, RefuseBet, AtRound, ReturnBet, roundsVars
  <2>2. \A r \in Round : rowLock[r] # b
    BY <1>1, <2>1 DEF BettorOf
  <2> QED BY <1>3, <2>1, <2>2 DEF Drops
<1>8. CASE CommitBet(b)
  <2>1. PICK bet, u, r : BetCommits(b, bet, u, r)
    BY <1>8, CommitBetEffect
  <2> QED BY <2>1 DEF BetCommits, Drops
<1>9. CASE FailBet(b)
  <2>1. userLock' = Released(b) /\ RoundOf(b) \in Round
    BY <1>2, <1>9 DEF FailBet, ReturnBet
  <2>2. CASE rowLock[RoundOf(b)] = b
    BY <1>9, <2>1, <2>2, BetUnlocksAll DEF FailBet, Drops
  <2>3. CASE rowLock[RoundOf(b)] # b
    <3>1. UNCHANGED rowLock
      BY <1>9, <2>3 DEF FailBet, roundsVars
    <3>2. \A r \in Round : rowLock[r] # b
      BY <1>1, <2>3 DEF BettorOf
    <3> QED BY <1>3, <2>1, <3>1, <3>2 DEF Drops
  <2> QED BY <2>2, <2>3
<1> QED BY <1>4, <1>5, <1>6, <1>7, <1>8, <1>9 DEF BetStep

\* The steps of a settlement.
LEMMA SettleLocks ==
  ASSUME TableIInv, NEW s \in Staff, SettleStep(s)
  PROVE  UNCHANGED <<userLock, rowLock>> \/ Drops(s) \/ Takes(s)
<1>1. CASE ListOrders(s)
  BY <1>1 DEF ListOrders, roundsVars
<1>2. CASE PayUser(s)
  <2>1. draw[s] \in Draw /\ draw[s].next # Null
    BY <1>2 DEF PayUser, TableIInv, TableTypeOK
  <2>2. draw[s].next \in User
    BY <2>1 DEF Draw
  <2> QED BY <1>2, <2>2 DEF PayUser, Takes, roundsVars
<1>3. CASE SettleAndCommit(s)
  <2>1. PICK r, result, bets, row : Settles(s, r, result, bets, row)
    BY <1>3, SettleEffect
  <2>2. rowLock' = Unlocked(s) /\ userLock' = Released(s)
    BY <2>1 DEF Settles
  <2> QED BY <2>2 DEF Drops
<1>4. CASE FailStaff(s)
  BY <1>4 DEF FailStaff, Fail, Answer, Drops
<1> QED BY <1>1, <1>2, <1>3, <1>4 DEF SettleStep

\* No step drops some of a transaction's locks, or takes one that is another's.
LEMMA TwoPhaseStep ==
  ASSUME TableIInv, [TableNext]_allVars, NEW t \in Staff \cup Bettor
  PROVE  TwoPhase(t)
<1>1. TableTypeOK
  BY DEF TableIInv
<1>2. CASE UNCHANGED <<userLock, rowLock>>
  BY <1>2 DEF TwoPhase, HeldUsers, HeldRounds
<1>3. CASE UNCHANGED allVars
  BY <1>2, <1>3 DEF allVars, roundsVars, tableVars
<1>4. CASE \E x \in Staff \cup Bettor : Drops(x) \/ Takes(x)
  BY <1>1, <1>4, DropsAndTakes
<1> QED BY <1>2, <1>3, <1>4, RoundsOnlyLocks, BetLocks, SettleLocks DEF TableNext

\* Every transaction is strictly two-phase: it gathers locks, keeps them, and drops all
\* of them in the one step in which it commits or is rolled back; nobody takes a lock
\* that another holds.
THEOREM TableLocksAreTwoPhase == TableSpec => LocksAreTwoPhase
<1>1. TableIInv /\ [TableNext]_allVars =>
        [\A t \in Staff \cup Bettor : TwoPhase(t)]_allVars
  BY TwoPhaseStep
<1> QED BY <1>1, TableInvariant, PTL DEF TableSpec, LocksAreTwoPhase

\* Who drops its locks has none.
LEMMA DroppedAll ==
  ASSUME TableTypeOK, NEW t \in Staff \cup Bettor, Drops(t)
  PROVE  HeldUsers(t)' = {} /\ HeldRounds(t)' = {}
<1>1. t # Null
  BY RoundsAssumption
<1> QED BY <1>1 DEF Drops, Released, Unlocked, HeldUsers, HeldRounds

\* The commit of an event writes the round it has locked, and no money.
LEMMA EventWrites ==
  ASSUME TableIInv, NEW s \in Staff, CommitEvent(s), UNCHANGED tableVars
  PROVE  WritesUnderLocks(s)
<1>1. IInv /\ TypeOK /\ Locking /\ TableTypeOK
  BY DEF TableIInv, IInv
<1>2. PICK r \in Round : r = staff[s].rid /\ rowLock[r] = s
  BY <1>1 DEF CommitEvent, Locking, LockingOf
<1>3. \E row, entry, topics, logged : Commit(s, row, entry, topics, logged)
  BY DEF CommitEvent
<1>4. \A q \in Round \ {r} : /\ round'[q] = round[q] /\ slog'[q] = slog[q]
                             /\ audit'[q] = audit[q] /\ outbox'[q] = outbox[q]
  BY <1>1, <1>2, <1>3 DEF Commit, TypeOK
<1>5. ~ InDraw(s)
  BY DEF CommitEvent, InDraw, Event
<1>6. Drops(s)
  BY <1>3, <1>5, OnlyDrawsHoldUsers DEF Commit, Drops, tableVars
<1>7. UNCHANGED <<balance, ledger, order, mail>>
  BY DEF tableVars, moneyVars
<1> QED BY <1>1, <1>2, <1>4, <1>6, <1>7, DroppedAll DEF WritesUnderLocks, HeldRounds

\* The commit of a bet writes its user's and its round's rows.
LEMMA BetWrites ==
  ASSUME TableIInv, NEW b \in Bettor, CommitBet(b)
  PROVE  WritesUnderLocks(b)
<1>1. TableTypeOK
  BY DEF TableIInv
<1>2. PICK bet, u, r : BetCommits(b, bet, u, r)
  BY CommitBetEffect
<1>3. Drops(b) /\ u \in HeldUsers(b) /\ r \in HeldRounds(b) /\ r = Terms[bet].round
  BY <1>2 DEF BetCommits, Drops, HeldUsers, HeldRounds
<1>4. /\ \A v \in User \ {u} : balance'[v] = balance[v] /\ ledger'[v] = ledger[v]
      /\ \A other \in Bet \ {bet} : order'[other] = order[other] /\ mail'[other] = mail[other]
      /\ UNCHANGED <<round, slog, audit, outbox>>
  BY <1>1, <1>2 DEF BetCommits, TableTypeOK
<1> QED BY <1>1, <1>3, <1>4, DroppedAll DEF WritesUnderLocks

\* The commit of a draw writes its round's rows and those of the users it pays.
LEMMA SettleWrites ==
  ASSUME TableIInv, NEW s \in Staff, SettleAndCommit(s)
  PROVE  WritesUnderLocks(s)
<1>1. TableTypeOK /\ TypeOK
  BY DEF TableIInv, TableTypeOK
<1>2. PICK r, result, bets, row : Settles(s, r, result, bets, row)
  BY SettleEffect
<1>3. Drops(s) /\ r \in HeldRounds(s)
  BY <1>2 DEF Settles, Drops, HeldRounds
<1>4. \A u \in User \ HeldUsers(s) : balance'[u] = balance[u] /\ ledger'[u] = ledger[u]
  <2>1. \A u \in User \ HeldUsers(s) : userLock[u] # s /\ Winning(u, bets, result) = {}
    BY <1>2 DEF Settles, HeldUsers
  <2> QED BY <1>2, <2>1 DEF Settles, Paid
<1>5. \A bet \in Bet : Terms[bet].round # r => order'[bet] = order[bet] /\ mail'[bet] = mail[bet]
  <2>1. \A bet \in bets : Terms[bet].round = r
    BY <1>2 DEF Settles, Pending
  <2> QED BY <1>2, <2>1 DEF Settles
<1>6. \A q \in Round \ {r} : /\ round'[q] = round[q] /\ slog'[q] = slog[q]
                             /\ audit'[q] = audit[q] /\ outbox'[q] = outbox[q]
  <2>1. r = staff[s].rid
    BY <1>2 DEF Settles
  <2> QED BY <1>1, <2>1 DEF SettleAndCommit, CommitDraw, Commit, TypeOK
<1>7. \A bet \in Bet : Terms[bet].round \in Round
  BY TableAssumption
<1> QED BY <1>1, <1>3, <1>4, <1>5, <1>6, DroppedAll DEF WritesUnderLocks

\* Every step writes nothing, or under the locks of one transaction.
LEMMA WritesStep ==
  ASSUME TableIInv, [TableNext]_allVars
  PROVE  WritesNothing \/ \E t \in Staff \cup Bettor : WritesUnderLocks(t)
<1>1. CASE UNCHANGED <<moneyVars, dbVars>>
  BY <1>1 DEF WritesNothing, dbVars
<1>2. CASE UNCHANGED allVars
  BY <1>1, <1>2 DEF allVars, roundsVars, tableVars
<1>3. ASSUME NEW b \in Bettor, BetStep(b), ~ CommitBet(b) PROVE UNCHANGED <<moneyVars, dbVars>>
  BY <1>3 DEF BetStep, CallBet, LockUser, AcceptBet, RepeatBet, RefuseBet, FailBet, ReturnBet,
       BetLocksRound, BetUnlocksRound, roundsVars
<1>4. ASSUME NEW s \in Staff, SettleStep(s), ~ SettleAndCommit(s)
      PROVE  UNCHANGED <<moneyVars, dbVars>>
  BY <1>4 DEF SettleStep, ListOrders, PayUser, FailStaff, Fail, Answer, roundsVars
<1>5. ASSUME RoundsOnly
      PROVE  WritesNothing \/ \E t \in Staff \cup Bettor : WritesUnderLocks(t)
  <2>1. /\ UNCHANGED tableVars /\ UNCHANGED moneyVars /\ IInv
        /\ \A s \in Staff : InDraw(s) => staff'[s] = staff[s]
    BY <1>5, RoundsOnlyEffect DEF TableIInv, tableVars
  <2>2. ASSUME NEW r \in Round, WindowPasses(r) PROVE WritesNothing
    BY <2>1, <2>2 DEF WindowPasses, WritesNothing, TableIInv, IInv, TypeOK
  <2>3. ASSUME NEW s \in Staff, CommitDraw(s) PROVE FALSE
    <3>1. InDraw(s)
      BY <2>3 DEF CommitDraw, InDraw
    <3>2. staff'[s].pc = "cache"
      BY <2>1, <2>3 DEF CommitDraw, Commit, IInv, TypeOK
    <3> QED BY <2>1, <3>1, <3>2 DEF InDraw
  <2>4. \/ UNCHANGED dbVars
        \/ \E s \in Staff : CommitEvent(s) \/ CommitDraw(s)
        \/ \E r \in Round : WindowPasses(r)
    BY <1>5, RoundsOnlyEffect, WhoWrites DEF TableIInv
  <2> QED BY <1>1, <2>1, <2>2, <2>3, <2>4, EventWrites
<1> QED BY <1>1, <1>2, <1>3, <1>4, <1>5, BetWrites, SettleWrites DEF TableNext

\* Nothing is written but in the commit of one transaction, under its locks on what it
\* writes: with the locks two-phase, bets, draws and events have the effect of running
\* one after the other, which is why PlaceBet may take a bet's transaction as one step
\* and why the outbox rows of a round get their ids in the order of its commits.
THEOREM TableCommitsAreUnderLocks == TableSpec => CommitsAreUnderLocks
<1>1. TableIInv /\ [TableNext]_allVars =>
        [WritesNothing \/ \E t \in Staff \cup Bettor : WritesUnderLocks(t)]_allVars
  BY WritesStep
<1> QED BY <1>1, TableInvariant, PTL DEF TableSpec, CommitsAreUnderLocks
===============================================================================
