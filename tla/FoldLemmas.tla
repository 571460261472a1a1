------------------------------ MODULE FoldLemmas ------------------------------
(***************************************************************************)
(* What a fold over a finite set computes.  The operators of the community *)
(* modules that add up stakes or write ledger lines one after the other    *)
(* are folds: each is the value, at the whole set, of a function on its    *)
(* subsets that is defined by recursion.  Here that function is shown to   *)
(* exist and to be the only one, and a sum not to depend on the order in   *)
(* which elements are taken.  Induction goes over the subsets of a finite  *)
(* set, which strict inclusion orders well: what holds of a set whenever   *)
(* it holds of its proper subsets holds of all of them.                    *)
(*                                                                         *)
(* The same for numbers: induction up to a number, least and greatest      *)
(* ones, and functions defined by recursion.                               *)
(***************************************************************************)
EXTENDS FiniteSetsExt, FiniteSetTheorems, TLAPS

\* Induction over the subsets of a finite set S: C holds those of which the fact is true.
LEMMA SubsetInduction ==
  ASSUME NEW S, IsFiniteSet(S), NEW C,
         \A T \in SUBSET S : (\A U \in SUBSET T : U # T => U \in C) => T \in C
  PROVE  \A T \in SUBSET S : T \in C
<1> DEFINE Bad == (SUBSET S) \ C
<1>1. SUFFICES ASSUME Bad # {} PROVE FALSE
  OBVIOUS
<1>2. IsWellFoundedOn(StrictSubsetOrdering(S), SUBSET S)
  BY FS_StrictSubsetOrderingWellFounded, FS_FiniteSubsetsOfFinite
<1>3. PICK T \in Bad : \A U \in Bad : <<U, T>> \notin StrictSubsetOrdering(S)
  <2> HIDE DEF Bad
  <2>1. Bad \subseteq SUBSET S
    BY DEF Bad
  <2> QED BY <1>1, <1>2, <2>1, WFMin
<1>4. ASSUME NEW U \in SUBSET T, U # T PROVE U \in C
  BY <1>3, <1>4 DEF StrictSubsetOrdering
<1> QED BY <1>3, <1>4

\* Max, the choice of a fold from the left, is what its name says.
LEMMA MaxIsGreatest ==
  ASSUME NEW n \in Nat, NEW N \in SUBSET (1..n), N # {}
  PROVE  Max(N) \in N /\ \A m \in N : m <= Max(N)
<1> DEFINE HasMax(T) == \E x \in T : \A y \in T : x >= y
           C == {T \in SUBSET (1..n) : T # {} => HasMax(T)}
<1>1. IsFiniteSet(1..n)
  BY FS_Interval
<1>2. ASSUME NEW T \in SUBSET (1..n), \A U \in SUBSET T : U # T => U \in C, T # {}
      PROVE  HasMax(T)
  <2>1. PICK x \in T : TRUE
    BY <1>2
  <2>2. T \ {x} \in C
    BY <1>2, <2>1
  <2>3. CASE T \ {x} = {}
    BY <2>1, <2>3
  <2>4. CASE T \ {x} # {}
    <3>1. PICK z \in T \ {x} : \A y \in T \ {x} : z >= y
      BY <2>2, <2>4
    <3>2. CASE z >= x
      BY <3>1, <3>2
    <3>3. CASE ~ (z >= x)
      BY <2>1, <3>1, <3>3
    <3> QED BY <3>2, <3>3
  <2> QED BY <2>3, <2>4
<1>3. \A T \in SUBSET (1..n) : T \in C
  <2>1. \A T \in SUBSET (1..n) : (\A U \in SUBSET T : U # T => U \in C) => T \in C
    BY <1>2
  <2> HIDE DEF C
  <2> QED BY ZenonT(60), <1>1, <2>1, SubsetInduction
<1>4. HasMax(N)
  BY <1>3
<1>5. Max(N) \in N /\ \A y \in N : Max(N) >= y
  BY <1>4 DEF Max
<1> QED BY <1>5

\* The greatest number of an interval.
LEMMA MaxOfInterval ==
  ASSUME NEW k \in Nat \ {0}
  PROVE  Max(1..k) = k
<1>1. k \in 1..k /\ \A y \in 1..k : k >= y
  OBVIOUS
<1>2. \A x \in 1..k : (\A y \in 1..k : x >= y) => x = k
  OBVIOUS
<1> QED BY <1>1, <1>2 DEF Max

\* Induction up to a number: C holds those of which the fact is true.
LEMMA IntervalInduction ==
  ASSUME NEW n \in Nat, NEW C, 0 \in C, \A k \in 1..n : k - 1 \in C => k \in C
  PROVE  \A k \in 0..n : k \in C
<1> DEFINE I(k) == 0..(k - 1)
           D == {T \in SUBSET I(n + 1) : \A k \in 0..n : T = I(k) => k \in C}
<1>1. IsFiniteSet(I(n + 1))
  BY FS_Interval
<1>2. ASSUME NEW T \in SUBSET I(n + 1), \A U \in SUBSET T : U # T => U \in D,
             NEW k \in 0..n, T = I(k)
      PROVE  k \in C
  <2>1. CASE k # 0
    <3>1. I(k - 1) \in SUBSET T /\ k - 1 \in I(k) /\ k - 1 \notin I(k - 1)
      BY <1>2, <2>1
    <3>2. I(k - 1) \in D
      BY <1>2, <3>1
    <3>3. k - 1 \in 0..n /\ k \in 1..n
      BY <2>1
    <3>4. k - 1 \in C
      BY <3>2, <3>3
    <3> QED BY <3>3, <3>4
  <2> QED BY <2>1
<1>3. \A T \in SUBSET I(n + 1) : (\A U \in SUBSET T : U # T => U \in D) => T \in D
  BY <1>2
<1>4. \A T \in SUBSET I(n + 1) : T \in D
  <2> HIDE DEF D, I
  <2> QED BY <1>1, <1>3, SubsetInduction
<1>5. ASSUME NEW k \in 0..n PROVE k \in C
  <2>1. I(k) \in SUBSET I(n + 1)
    OBVIOUS
  <2>2. I(k) \in D
    <3> HIDE DEF D, I
    <3> QED BY <1>4, <2>1
  <2> QED BY <2>2
<1> QED BY <1>5

-------------------------------------------------------------------------------
(* Folds *)

\* g is a fold over the subsets of S: it starts from base and takes, from each set, the
\* element that choice names.
IsFold(g, S, base, step, choice) ==
  \A s \in SUBSET S :
    g[s] = IF s = {} THEN base ELSE step[<<choice[s], g[s \ {choice[s]}]>>]

Chooses(choice, S) == \A s \in SUBSET S : s # {} => choice[s] \in s

\* Folds over a set and over a subset of it agree: a fold is determined by its step.
LEMMA FoldsAgree ==
  ASSUME NEW S, IsFiniteSet(S), NEW U \in SUBSET S, NEW base, NEW step, NEW choice,
         Chooses(choice, S), NEW g, NEW h,
         IsFold(g, S, base, step, choice), IsFold(h, U, base, step, choice)
  PROVE  \A s \in SUBSET U : g[s] = h[s]
<1> DEFINE C == {s \in SUBSET U : g[s] = h[s]}
<1>1. IsFiniteSet(U)
  BY FS_Subset
<1>2. ASSUME NEW T \in SUBSET U, \A V \in SUBSET T : V # T => V \in C
      PROVE  g[T] = h[T]
  <2>1. CASE T = {}
    BY <2>1 DEF IsFold
  <2>2. CASE T # {}
    <3>1. choice[T] \in T
      BY <2>2 DEF Chooses
    <3>2. g[T \ {choice[T]}] = h[T \ {choice[T]}]
      BY <1>2, <3>1
    <3> QED BY <2>2, <3>2 DEF IsFold
  <2> QED BY <2>1, <2>2
<1>3. \A T \in SUBSET U : (\A V \in SUBSET T : V # T => V \in C) => T \in C
  BY <1>2
<1>4. \A T \in SUBSET U : T \in C
  <2> HIDE DEF C
  <2> QED BY <1>1, <1>3, SubsetInduction
<1> QED BY <1>4

\* There is a fold over every finite set.
LEMMA FoldExists ==
  ASSUME NEW S, IsFiniteSet(S), NEW D, NEW base \in D, NEW step \in [S \X D -> D],
         NEW choice, Chooses(choice, S)
  PROVE  \E g \in [SUBSET S -> D] : IsFold(g, S, base, step, choice)
<1> DEFINE Folds(T) == {g \in [SUBSET T -> D] : IsFold(g, T, base, step, choice)}
           C == {T \in SUBSET S : Folds(T) # {}}
           The(T) == CHOOSE g \in Folds(T) : TRUE
<1>1. ASSUME NEW T \in SUBSET S, \A V \in SUBSET T : V # T => V \in C
      PROVE  Folds(T) # {}
  <2>1. CASE T = {}
    <3>1. [s \in SUBSET T |-> base] \in Folds(T)
      BY <2>1 DEF IsFold
    <3> QED BY <3>1
  <2>2. CASE T # {}
    <3> DEFINE rest == T \ {choice[T]}
               g == [s \in SUBSET T |-> IF s = T THEN step[<<choice[T], The(rest)[rest]>>]
                                        ELSE The(s)[s]]
    <3>1. choice[T] \in T /\ rest \in SUBSET T /\ rest # T
      BY <2>2 DEF Chooses
    <3>2. ASSUME NEW s \in SUBSET T, s # T
          PROVE  /\ The(s) \in [SUBSET s -> D]
                 /\ IsFold(The(s), s, base, step, choice)
                 /\ g[s] = The(s)[s]
                 /\ g[s] \in D
      <4>1. Folds(s) # {}
        BY <1>1, <3>2
      <4>2. The(s) \in Folds(s)
        BY <4>1
      <4>3. The(s) \in [SUBSET s -> D] /\ IsFold(The(s), s, base, step, choice)
        BY <4>2
      <4> HIDE DEF The
      <4>4. g[s] = The(s)[s]
        BY <3>2
      <4> QED BY <4>3, <4>4
    <3>3. g[T] = step[<<choice[T], g[rest]>>] /\ g[T] \in D
      <4>1. The(rest)[rest] = g[rest] /\ g[rest] \in D
        BY <3>1, <3>2
      <4> HIDE DEF The
      <4>2. g[T] = step[<<choice[T], The(rest)[rest]>>]
        OBVIOUS
      <4>3. choice[T] \in S
        BY <3>1
      <4> QED BY <4>1, <4>2, <4>3
    <3>4. ASSUME NEW s \in SUBSET T, s # T, s # {}
          PROVE  g[s] = step[<<choice[s], g[s \ {choice[s]}]>>]
      <4> DEFINE less == s \ {choice[s]}
      <4>1. choice[s] \in s /\ less \in SUBSET s /\ less # T
        BY <3>4 DEF Chooses
      <4>2. The(s)[s] = step[<<choice[s], The(s)[less]>>]
        <5>1. IsFold(The(s), s, base, step, choice)
          BY <3>2, <3>4
        <5> HIDE DEF The
        <5> QED BY <3>4, <5>1 DEF IsFold
      <4>3. The(s)[less] = The(less)[less]
        <5>1. IsFiniteSet(s) /\ s \in SUBSET S
          BY FS_Subset
        <5>2. Chooses(choice, s)
          BY DEF Chooses
        <5>3. /\ IsFold(The(s), s, base, step, choice)
              /\ IsFold(The(less), less, base, step, choice)
          BY <3>2, <3>4, <4>1
        <5> HIDE DEF The, less
        <5>4. \A t \in SUBSET less : The(s)[t] = The(less)[t]
          BY <4>1, <5>1, <5>2, <5>3, FoldsAgree
        <5> QED BY <5>4
      <4> HIDE DEF The
      <4> QED BY <3>2, <3>4, <4>1, <4>2, <4>3
    <3>5. ASSUME NEW s \in SUBSET T, s = {} PROVE g[s] = base
      <4>1. s # T
        BY <2>2, <3>5
      <4>2. IsFold(The(s), s, base, step, choice) /\ g[s] = The(s)[s]
        BY <3>2, <4>1
      <4> HIDE DEF The
      <4> QED BY <3>5, <4>2 DEF IsFold
    <3>6. g \in [SUBSET T -> D]
      <4>1. \A s \in SUBSET T : g[s] \in D
        BY <3>2, <3>3
      <4> HIDE DEF The
      <4> QED BY <4>1
    <3>7. IsFold(g, T, base, step, choice)
      <4> HIDE DEF g
      <4> QED BY <2>2, <3>3, <3>4, <3>5 DEF IsFold
    <3> HIDE DEF g
    <3> QED BY <3>6, <3>7
  <2> QED BY <2>1, <2>2
<1>2. \A T \in SUBSET S : (\A V \in SUBSET T : V # T => V \in C) => T \in C
  BY <1>1
<1>3. \A T \in SUBSET S : T \in C
  <2> HIDE DEF C
  <2> QED BY <1>2, SubsetInduction
<1>4. Folds(S) # {}
  BY <1>3
<1> QED BY <1>4

-------------------------------------------------------------------------------
(* Sums *)

\* The element of a set that a sum takes first.
First(s) == CHOOSE x \in s : TRUE

\* g adds up f over each subset of S.
IsSum(g, S, f) ==
  /\ g \in [SUBSET S -> Nat]
  /\ \A s \in SUBSET S :
       g[s] = IF s = {} THEN 0 ELSE f[First(s)] + g[s \ {First(s)}]

\* The sum of f over S.
Total(f, S) == (CHOOSE g : IsSum(g, S, f))[S]

\* Sums are folds.
LEMMA SumIsFold ==
  ASSUME NEW S, NEW f, \A x \in S : f[x] \in Nat
  PROVE  LET step == [p \in S \X Nat |-> f[p[1]] + p[2]]
             choice == [s \in SUBSET S |-> First(s)]
         IN /\ step \in [S \X Nat -> Nat]
            /\ Chooses(choice, S)
            /\ \A U \in SUBSET S : \A g \in [SUBSET U -> Nat] :
                 IsSum(g, U, f) <=> IsFold(g, U, 0, step, choice)
<1> DEFINE step == [p \in S \X Nat |-> f[p[1]] + p[2]]
           choice == [s \in SUBSET S |-> First(s)]
<1>1. step \in [S \X Nat -> Nat]
  OBVIOUS
<1>2. \A s \in SUBSET S : s # {} => First(s) \in s
  BY DEF First
<1>3. Chooses(choice, S)
  BY <1>2 DEF Chooses
<1>4. ASSUME NEW U \in SUBSET S, NEW g \in [SUBSET U -> Nat], NEW s \in SUBSET U, s # {}
      PROVE  step[<<choice[s], g[s \ {choice[s]}]>>] = f[First(s)] + g[s \ {First(s)}]
  <2>1. choice[s] = First(s)
    OBVIOUS
  <2>2. choice[s] \in S /\ g[s \ {choice[s]}] \in Nat
    BY <1>2, <1>4, <2>1
  <2> HIDE DEF choice
  <2>3. <<choice[s], g[s \ {choice[s]}]>> \in S \X Nat
    BY <2>2
  <2>4. step[<<choice[s], g[s \ {choice[s]}]>>] = f[choice[s]] + g[s \ {choice[s]}]
    BY <2>3
  <2> QED BY <2>1, <2>4
<1> HIDE DEF step, choice
<1>5. \A U \in SUBSET S : \A g \in [SUBSET U -> Nat] :
        IsSum(g, U, f) <=> IsFold(g, U, 0, step, choice)
  BY <1>4 DEF IsSum, IsFold
<1> QED BY <1>1, <1>3, <1>5 DEF step, choice

\* Two functions that both sum f are equal on the subsets they have in common.
LEMMA SumsAgree ==
  ASSUME NEW S, IsFiniteSet(S), NEW f, \A x \in S : f[x] \in Nat, NEW U \in SUBSET S,
         NEW g, NEW h, IsSum(g, S, f), IsSum(h, U, f)
  PROVE  \A s \in SUBSET U : g[s] = h[s]
<1> DEFINE step == [p \in S \X Nat |-> f[p[1]] + p[2]]
           choice == [s \in SUBSET S |-> First(s)]
<1>1. /\ Chooses(choice, S)
      /\ \A V \in SUBSET S : \A i \in [SUBSET V -> Nat] :
           IsSum(i, V, f) <=> IsFold(i, V, 0, step, choice)
  BY SumIsFold
<1>2. g \in [SUBSET S -> Nat] /\ h \in [SUBSET U -> Nat]
  BY DEF IsSum
<1>3. IsFold(g, S, 0, step, choice) /\ IsFold(h, U, 0, step, choice)
  BY <1>1, <1>2
<1> HIDE DEF step, choice
<1> QED BY <1>1, <1>3, FoldsAgree

\* Natural numbers over a finite set can be summed.
LEMMA SumExists ==
  ASSUME NEW S, IsFiniteSet(S), NEW f, \A x \in S : f[x] \in Nat
  PROVE  \E g : IsSum(g, S, f)
<1> DEFINE step == [p \in S \X Nat |-> f[p[1]] + p[2]]
           choice == [s \in SUBSET S |-> First(s)]
<1>1. /\ step \in [S \X Nat -> Nat]
      /\ Chooses(choice, S)
      /\ \A g \in [SUBSET S -> Nat] : IsSum(g, S, f) <=> IsFold(g, S, 0, step, choice)
  BY SumIsFold
<1> HIDE DEF step, choice
<1>2. \E g \in [SUBSET S -> Nat] : IsFold(g, S, 0, step, choice)
  BY <1>1, FoldExists
<1> QED BY <1>1, <1>2

\* Whatever is taken first, the sum is the same.
LEMMA SumTakes ==
  ASSUME NEW S, IsFiniteSet(S), NEW f, \A x \in S : f[x] \in Nat, NEW g, IsSum(g, S, f)
  PROVE  \A T \in SUBSET S : \A y \in T : g[T] = f[y] + g[T \ {y}]
<1> DEFINE C == {T \in SUBSET S : \A y \in T : g[T] = f[y] + g[T \ {y}]}
<1>1. ASSUME NEW T \in SUBSET S, \A U \in SUBSET T : U # T => U \in C, NEW y \in T
      PROVE  g[T] = f[y] + g[T \ {y}]
  <2>1. PICK x \in T : g[T] = f[x] + g[T \ {x}]
    <3>1. First(T) \in T
      BY DEF First
    <3> QED BY <3>1 DEF IsSum
  <2>2. CASE x = y
    BY <2>1, <2>2
  <2>3. CASE x # y
    <3>1. g[T \ {x}] = f[y] + g[(T \ {x}) \ {y}]
      BY <1>1, <2>3
    <3>2. g[T \ {y}] = f[x] + g[(T \ {y}) \ {x}]
      BY <1>1, <2>3
    <3>3. (T \ {y}) \ {x} = (T \ {x}) \ {y}
      OBVIOUS
    <3>4. f[x] \in Nat /\ f[y] \in Nat /\ g[(T \ {x}) \ {y}] \in Nat
      BY DEF IsSum
    <3> DEFINE rest == g[(T \ {x}) \ {y}]
    <3>5. g[T \ {x}] = f[y] + rest /\ g[T \ {y}] = f[x] + rest /\ rest \in Nat
      BY <3>1, <3>2, <3>3, <3>4
    <3> HIDE DEF rest
    <3> QED BY <2>1, <3>4, <3>5
  <2> QED BY <2>2, <2>3
<1>2. \A T \in SUBSET S : (\A U \in SUBSET T : U # T => U \in C) => T \in C
  BY <1>1
<1>3. \A T \in SUBSET S : T \in C
  <2> HIDE DEF C
  <2> QED BY <1>2, SubsetInduction
<1> QED BY <1>3

\* What there is to know of a total: it is a number, nothing adds up to 0, and one more
\* element adds its own number.
LEMMA TotalOfNone ==
  ASSUME NEW f
  PROVE  Total(f, {}) = 0
<1>1. IsFiniteSet({})
  BY FS_EmptySet
<1>2. IsSum(CHOOSE g : IsSum(g, {}, f), {}, f)
  BY <1>1, SumExists
<1> QED BY <1>2 DEF Total, IsSum

\* Their total is a natural number.
LEMMA TotalIsNat ==
  ASSUME NEW S, IsFiniteSet(S), NEW f, \A x \in S : f[x] \in Nat
  PROVE  Total(f, S) \in Nat
<1>1. IsSum(CHOOSE g : IsSum(g, S, f), S, f)
  BY SumExists
<1> QED BY <1>1 DEF Total, IsSum

\* The total without one element, and that element.
LEMMA TotalTakes ==
  ASSUME NEW S, IsFiniteSet(S), NEW y \in S, NEW f, \A x \in S : f[x] \in Nat
  PROVE  Total(f, S) = f[y] + Total(f, S \ {y})
<1>1. IsFiniteSet(S \ {y})
  BY FS_RemoveElement
<1>2. PICK g : g = CHOOSE i : IsSum(i, S, f)
  OBVIOUS
<1>3. PICK h : h = CHOOSE i : IsSum(i, S \ {y}, f)
  OBVIOUS
<1>4. IsSum(g, S, f)
  BY <1>2, SumExists
<1>5. IsSum(h, S \ {y}, f)
  BY <1>1, <1>3, SumExists
<1>6. g[S] = f[y] + g[S \ {y}]
  BY <1>4, SumTakes
<1>7. g[S \ {y}] = h[S \ {y}]
  BY <1>4, <1>5, SumsAgree
<1> QED BY <1>2, <1>3, <1>6, <1>7 DEF Total

\* The total with one element more.
LEMMA TotalAdds ==
  ASSUME NEW S, IsFiniteSet(S), NEW y, y \notin S, NEW f, \A x \in S \cup {y} : f[x] \in Nat
  PROVE  Total(f, S \cup {y}) = f[y] + Total(f, S)
<1>1. IsFiniteSet(S \cup {y}) /\ (S \cup {y}) \ {y} = S
  BY FS_AddElement
<1> QED BY <1>1, TotalTakes

\* Totals of functions that agree on S are the same.
LEMMA TotalsAgree ==
  ASSUME NEW S, IsFiniteSet(S), NEW f, NEW e,
         \A x \in S : f[x] \in Nat /\ e[x] = f[x]
  PROVE  Total(f, S) = Total(e, S)
<1>1. PICK g : g = CHOOSE i : IsSum(i, S, f)
  OBVIOUS
<1>2. PICK h : h = CHOOSE i : IsSum(i, S, e)
  OBVIOUS
<1>3. IsSum(g, S, f) /\ IsSum(h, S, e)
  BY <1>1, <1>2, SumExists
<1>4. IsSum(h, S, f)
  <2>1. \A s \in SUBSET S : s # {} => First(s) \in S
    BY DEF First
  <2> QED BY <1>3, <2>1 DEF IsSum
<1>5. g[S] = h[S]
  BY <1>3, <1>4, SumsAgree
<1> QED BY <1>1, <1>2, <1>5 DEF Total

\* A function that satisfies the recursion of a sum is that sum.
LEMMA RecursionIsSum ==
  ASSUME NEW S, IsFiniteSet(S), NEW f, \A x \in S : f[x] \in Nat, NEW h,
         h = [s \in SUBSET S |-> IF s = {} THEN 0 ELSE f[First(s)] + h[s \ {First(s)}]]
  PROVE  h[S] = Total(f, S)
<1>1. PICK g : IsSum(g, S, f)
  BY SumExists
<1> DEFINE C == {s \in SUBSET S : g[s] = h[s]}
<1>2. ASSUME NEW T \in SUBSET S, \A U \in SUBSET T : U # T => U \in C
      PROVE  g[T] = h[T]
  <2>1. CASE T = {}
    BY <1>1, <2>1 DEF IsSum
  <2>2. CASE T # {}
    <3>1. First(T) \in T
      BY <2>2 DEF First
    <3>2. g[T \ {First(T)}] = h[T \ {First(T)}]
      BY <1>2, <3>1
    <3> QED BY <1>1, <2>2, <3>2 DEF IsSum
  <2> QED BY <2>1, <2>2
<1>3. \A T \in SUBSET S : (\A U \in SUBSET T : U # T => U \in C) => T \in C
  BY <1>2
<1>4. \A T \in SUBSET S : T \in C
  <2> HIDE DEF C
  <2> QED BY <1>3, SubsetInduction
<1>5. IsSum(CHOOSE i : IsSum(i, S, f), S, f)
  BY SumExists
<1>6. g[S] = Total(f, S)
  BY <1>1, <1>5, SumsAgree DEF Total
<1> QED BY <1>4, <1>6

\* What a total gains when its function changes on a part of the set, where it was 0.
LEMMA TotalGains ==
  ASSUME NEW S, IsFiniteSet(S), NEW W \in SUBSET S, NEW f, NEW g, NEW e,
         \A x \in S : f[x] \in Nat,
         \A x \in S \ W : g[x] = f[x],
         \A x \in W : e[x] \in Nat /\ f[x] = 0 /\ g[x] = e[x]
  PROVE  Total(g, S) = Total(f, S) + Total(e, W)
<1> DEFINE on(T) == [x \in S |-> IF x \in T THEN e[x] ELSE f[x]]
           C == {T \in SUBSET W : Total(on(T), S) = Total(f, S) + Total(e, T)}
<1>1. IsFiniteSet(W) /\ \A T \in SUBSET W : IsFiniteSet(T)
  BY FS_Subset
<1>2. \A T \in SUBSET W : \A x \in S : on(T)[x] \in Nat
  OBVIOUS
<1>3. ASSUME NEW T \in SUBSET W, \A U \in SUBSET T : U # T => U \in C
      PROVE  T \in C
  <2>1. CASE T = {}
    <3>1. \A x \in S : f[x] \in Nat /\ on(T)[x] = f[x]
      BY <2>1
    <3>2. Total(f, S) = Total(on(T), S)
      <4> HIDE DEF on
      <4> QED BY <3>1, TotalsAgree
    <3>3. Total(e, T) = 0 /\ Total(f, S) \in Nat
      BY <2>1, TotalOfNone, TotalIsNat
    <3> QED BY <3>2, <3>3
  <2>2. CASE T # {}
    <3>1. PICK y \in T : TRUE
      BY <2>2
    <3>2. PICK U : U = T \ {y}
      OBVIOUS
    <3>3. U \in C /\ U \in SUBSET W
      BY <1>3, <3>1, <3>2
    <3>4. /\ on(T)[y] = e[y] /\ on(U)[y] = 0
          /\ \A x \in S \ {y} : on(T)[x] = on(U)[x] /\ on(T)[x] \in Nat
      BY <3>1, <3>2
    <3>5. y \in S /\ IsFiniteSet(S \ {y})
      BY <3>1, FS_RemoveElement
    <3> HIDE DEF on
    <3>6. /\ Total(on(T), S) = e[y] + Total(on(T), S \ {y})
          /\ Total(on(U), S) = Total(on(U), S \ {y})
      <4>1. Total(on(T), S) = on(T)[y] + Total(on(T), S \ {y})
        BY <1>2, <3>5, TotalTakes
      <4>2. Total(on(U), S) = on(U)[y] + Total(on(U), S \ {y})
        BY <1>2, <3>3, <3>5, TotalTakes
      <4>3. Total(on(U), S \ {y}) \in Nat
        BY <1>2, <3>3, <3>5, TotalIsNat
      <4> QED BY <3>4, <4>1, <4>2, <4>3
    <3>7. Total(on(T), S \ {y}) = Total(on(U), S \ {y})
      BY <3>4, <3>5, TotalsAgree
    <3>8. Total(e, T) = e[y] + Total(e, U)
      <4>1. IsFiniteSet(T) /\ \A x \in T : e[x] \in Nat
        BY <1>1
      <4> QED BY <3>1, <3>2, <4>1, TotalTakes
    <3>9. Total(on(U), S) = Total(f, S) + Total(e, U)
      BY <3>3
    <3>10. e[y] \in Nat /\ Total(f, S) \in Nat /\ Total(e, U) \in Nat
      <4>1. IsFiniteSet(U) /\ \A x \in U : e[x] \in Nat
        BY <1>1, <3>3
      <4>2. Total(e, U) \in Nat
        BY <4>1, TotalIsNat
      <4>3. Total(f, S) \in Nat
        BY TotalIsNat
      <4> QED BY <3>1, <4>2, <4>3
    <3>11. Total(on(T), S) = Total(f, S) + Total(e, T)
      BY <3>6, <3>7, <3>8, <3>9, <3>10
    <3> QED BY <3>11
  <2> QED BY <2>1, <2>2
<1>4. W \in C
  <2>1. \A T \in SUBSET W : T \in C
    <3> HIDE DEF C
    <3> QED BY <1>1, <1>3, SubsetInduction
  <2> QED BY <2>1
<1>5. \A x \in S : on(W)[x] \in Nat /\ g[x] = on(W)[x]
  OBVIOUS
<1>6. Total(on(W), S) = Total(g, S)
  <2> HIDE DEF on
  <2> QED BY <1>5, TotalsAgree
<1> QED BY <1>4, <1>6

-------------------------------------------------------------------------------
(* Least numbers, and recursion on numbers *)

LEMMA MinIsLeast ==
  ASSUME NEW S \in SUBSET Nat, S # {}
  PROVE  Min(S) \in S /\ \A y \in S : Min(S) <= y
<1>1. \E x \in S : \A y \in S : x <= y
  <2>1. SUFFICES ASSUME \A x \in S : \E y \in S : y < x PROVE FALSE
    OBVIOUS
  <2>2. PICK n \in S : TRUE
    OBVIOUS
  <2> DEFINE C == {k \in Nat : \A j \in 0..k : j \notin S}
  <2>3. 0 \in C
    BY <2>1
  <2>4. ASSUME NEW k \in 1..n, k - 1 \in C PROVE k \in C
    <3>1. \A j \in 0..(k - 1) : j \notin S
      BY <2>4
    <3>2. k \notin S
      <4>1. SUFFICES ASSUME k \in S PROVE FALSE
        OBVIOUS
      <4>2. PICK y \in S : y < k
        BY <2>1, <4>1
      <4> QED BY <3>1, <4>2
    <3>3. \A j \in 0..k : j \in 0..(k - 1) \/ j = k
      OBVIOUS
    <3> QED BY <3>1, <3>2, <3>3
  <2>5. \A k \in 0..n : k \in C
    <3>1. n \in Nat
      BY <2>2
    <3> HIDE DEF C
    <3> QED BY <2>3, <2>4, <3>1, IntervalInduction
  <2> QED BY <2>2, <2>5
<1> QED BY <1>1 DEF Min

\* f[k] is the k-th application of a step.
IsIteration(f, n, base, step) ==
  f = [k \in 0..n |-> IF k = 0 THEN base ELSE step[f[k - 1]]]

LEMMA IterationExists ==
  ASSUME NEW n \in Nat, NEW D, NEW base \in D, NEW step \in [D -> D]
  PROVE  \E f \in [0..n -> D] : IsIteration(f, n, base, step)
<1> DEFINE choice == [s \in SUBSET (1..n) |-> Max(s)]
           next == [p \in (1..n) \X D |-> step[p[2]]]
<1>1. IsFiniteSet(1..n) /\ \A s \in SUBSET (1..n) : s # {} => Max(s) \in s
  <2>1. IsFiniteSet(1..n)
    BY FS_Interval
  <2>2. ASSUME NEW s \in SUBSET (1..n), s # {} PROVE Max(s) \in s
    BY <2>1, <2>2, MaxIsGreatest
  <2> QED BY <2>1, <2>2
<1>2. Chooses(choice, 1..n)
  BY <1>1 DEF Chooses
<1>3. next \in [(1..n) \X D -> D]
  OBVIOUS
<1>4. PICK g \in [SUBSET (1..n) -> D] : IsFold(g, 1..n, base, next, choice)
  <2> HIDE DEF next, choice
  <2> QED BY <1>1, <1>2, <1>3, FoldExists
<1> DEFINE f == [k \in 0..n |-> g[1..k]]
<1>5. \A k \in 0..n : 1..k \in SUBSET (1..n)
  OBVIOUS
<1>6. f \in [0..n -> D]
  BY <1>5
<1>7. ASSUME NEW k \in 0..n PROVE f[k] = IF k = 0 THEN base ELSE step[f[k - 1]]
  <2>1. CASE k = 0
    <3>1. 1..k = {} /\ {} \in SUBSET (1..n)
      BY <2>1
    <3>2. g[{}] = base
      BY <1>4, <3>1 DEF IsFold
    <3> QED BY <2>1, <3>1, <3>2
  <2>2. CASE k # 0
    <3>1. k \in 1..n /\ k - 1 \in 0..n /\ 1..k # {}
      BY <2>2
    <3>2. Max(1..k) = k /\ (1..k) \ {k} = 1..(k - 1)
      BY <3>1, MaxOfInterval
    <3>3. choice[1..k] = k
      BY <1>5, <3>1, <3>2
    <3>4. g[1..k] = next[<<k, g[1..(k - 1)]>>]
      <4> HIDE DEF next, choice
      <4> QED BY <1>4, <1>5, <3>1, <3>2, <3>3 DEF IsFold
    <3>5. g[1..(k - 1)] \in D
      BY <1>5, <3>1
    <3>6. next[<<k, g[1..(k - 1)]>>] = step[g[1..(k - 1)]]
      BY <3>1, <3>5
    <3> HIDE DEF next, choice
    <3> QED BY <2>2, <3>1, <3>4, <3>6
  <2> QED BY <2>1, <2>2
<1>8. IsIteration(f, n, base, step)
  <2> HIDE DEF choice, next
  <2>1. f = [k \in 0..n |-> f[k]]
    BY <1>6
  <2> HIDE DEF f
  <2> QED BY <1>7, <2>1 DEF IsIteration
<1> QED BY <1>6, <1>8
===============================================================================
