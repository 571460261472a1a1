---------------------------- MODULE GatewayProofs ----------------------------
(***************************************************************************)
(* Proofs about Gateway and the limiter it contains, for any configurations*)
(* and clients, any limits, any number of callers and any bounds.  The     *)
(* limiter's invariant counts what its sorted sets were asked to hold      *)
(* against the requests that are still on their way to them; a second one  *)
(* bounds what it lets pass by what they hold.                             *)
(***************************************************************************)
EXTENDS Gateway, FoldLemmas, SequenceTheorems

-------------------------------------------------------------------------------
(* The limiter's invariant *)

\* A check k whose request may yet be added to a key of dimension i, or counted there.
Adds(k, i) ==
  \/ k.pc \in {"next", "trim", "count", "add", "expire"} /\ k.dim < i
  \/ k.pc \in {"trim", "count", "add"} /\ k.dim = i

Admits(k, i) ==
  \/ k.pc \in {"next", "trim", "count", "add", "expire"} /\ k.dim < i
  \/ k.pc \in {"trim", "count", "add", "expire"} /\ k.dim = i

ToAdd(i) == {c \in Caller : Adds(check[c], i)}

ToAdmit(i) == {c \in Caller : Admits(check[c], i)}

\* No key holds more requests than were issued, those on their way included.
RequestsAddUp ==
  \A k \in Key : \A i \in 1..4 :
    k[1] = Dimensions[i] =>
      /\ Cardinality(asked[k]) + Cardinality(ToAdd(i)) <= issued
      /\ Cardinality(admitted[k]) + Cardinality(ToAdmit(i)) <= issued

OfSecond(entries, t) == {e \in entries : e[1] = t}

\* The numbers of a second's entries go up without a gap, so the next one is new.
EntriesAreNumbered ==
  \A k \in Key :
    /\ window[k] \subseteq asked[k]
    /\ \A e \in asked[k] : e[2] <= Cardinality(OfSecond(asked[k], e[1]))

\* A check in a dimension has a key.
HasKey(c) ==
  /\ check[c].pc # "idle" => check[c].client \in Client
  /\ check[c].pc \in {"trim", "count", "add", "expire", "refused"} => check[c].dim \in 1..4

\* What was asked of the check's key from the start of the check's window on.
AskedInWindow(c) == {e \in asked[KeyAt(c)] : e[1] >= WindowStart(c)}

\* A count is of requests that were made, and once the own one is added it is one less.
CountsWhatWasAsked(c) ==
  /\ check[c].pc = "add" => check[c].count <= Cardinality(AskedInWindow(c))
  /\ check[c].pc \in {"expire", "refused"} => check[c].count < Cardinality(AskedInWindow(c))
  /\ check[c].pc = "refused" => check[c].count >= Limit[KeyAt(c)[1]]

LimitIInv ==
  /\ LimitTypeOK
  /\ RequestsAddUp
  /\ EntriesAreNumbered
  /\ \A c \in Caller : HasKey(c) /\ CountsWhatWasAsked(c)

-------------------------------------------------------------------------------
(* Sets and keys *)

\* The dimensions are four and differ.
LEMMA FourDimensions ==
  /\ DOMAIN Dimensions = 1..4 /\ Len(Dimensions) = 4
  /\ \A i \in 1..4 : Dimensions[i] \in Dimension
  /\ \A i, j \in 1..4 : Dimensions[i] = Dimensions[j] => i = j
<1>1. DOMAIN Dimensions = 1..4 /\ Len(Dimensions) = 4
  BY DEF Dimensions
<1>2. \A i \in 1..4 : Dimensions[i] \in Dimension
  BY <1>1 DEF Dimension
<1>3. \A i, j \in 1..4 : Dimensions[i] = Dimensions[j] => i = j
  BY DEF Dimensions
<1> QED BY <1>1, <1>2, <1>3

\* Whatever a key holds is finite, and so are the callers.
LEMMA EntriesAreFinite ==
  /\ \A S \in SUBSET Entry : IsFiniteSet(S) /\ Cardinality(S) \in Nat
  /\ \A C \in SUBSET Caller : IsFiniteSet(C) /\ Cardinality(C) \in Nat
<1>1. IsFiniteSet(0..MaxClock) /\ IsFiniteSet(1..MaxRequests)
  BY FS_Interval, RateLimitAssumption
<1>2. IsFiniteSet(Entry)
  BY <1>1, FS_Product DEF Entry
<1> QED BY <1>2, FS_Subset, FS_CardinalityType, RateLimitAssumption

\* A part of a set has no more elements.
LEMMA PartIsNotLarger ==
  ASSUME NEW T, IsFiniteSet(T), NEW S \in SUBSET T
  PROVE  Cardinality(S) <= Cardinality(T) /\ Cardinality(S) \in Nat /\ Cardinality(T) \in Nat
BY FS_Subset, FS_CardinalityType

\* One element more or less.
LEMMA OneMoreElement ==
  ASSUME NEW S, IsFiniteSet(S), NEW x
  PROVE  /\ IsFiniteSet(S \cup {x}) /\ IsFiniteSet(S \ {x})
         /\ Cardinality(S \cup {x}) <= Cardinality(S) + 1
         /\ x \notin S => Cardinality(S \cup {x}) = Cardinality(S) + 1
         /\ x \in S => Cardinality(S \ {x}) = Cardinality(S) - 1
         /\ Cardinality(S) \in Nat
BY FS_AddElement, FS_RemoveElement, FS_CardinalityType

\* A check that is in a dimension works on a key of it.
LEMMA KeyOfCheck ==
  ASSUME LimitTypeOK, NEW c \in Caller, check[c].client \in Client, check[c].dim \in 1..4
  PROVE  /\ KeyAt(c) \in Key /\ KeyAt(c)[1] = Dimensions[check[c].dim]
         /\ KeyAt(c)[1] \in Dimension
         /\ WindowStart(c) = check[c].now - Period[Dimensions[check[c].dim]]
         /\ check[c].now \in 0..MaxClock
         /\ WindowStart(c) \in Int /\ WindowStart(c) <= check[c].now
         /\ Limit[KeyAt(c)[1]] \in Nat
<1>1. KeyAt(c) = <<Dimensions[check[c].dim], KeyOf(check[c].client, Dimensions[check[c].dim])>>
  BY DEF KeyAt
<1>2. Dimensions[check[c].dim] \in Dimension
  BY FourDimensions
<1>3. KeyAt(c) \in Key
  BY <1>1, <1>2 DEF Key
<1>4. check[c].now \in 0..MaxClock
  BY DEF LimitTypeOK, CheckState
<1> QED BY <1>1, <1>2, <1>3, <1>4, RateLimitAssumption DEF WindowStart
-------------------------------------------------------------------------------
(* Steps of the limiter *)

\* A check that keeps its place keeps its key and its window, and what was asked of it.
LEMMA SameWindow ==
  ASSUME NEW c \in Caller, check'[c].client = check[c].client, check'[c].dim = check[c].dim,
         check'[c].now = check[c].now
  PROVE  /\ KeyAt(c)' = KeyAt(c) /\ WindowStart(c)' = WindowStart(c)
         /\ asked' = asked => AskedInWindow(c)' = AskedInWindow(c)
<1>1. KeyAt(c)' = KeyAt(c)
  BY DEF KeyAt
<1>2. WindowStart(c)' = WindowStart(c)
  BY <1>1 DEF WindowStart
<1> QED BY <1>1, <1>2 DEF AskedInWindow

\* A step that adds nothing: the invariant follows from what it makes of the checks in C.
LEMMA QuietStep ==
  ASSUME LimitIInv, NEW C \in SUBSET Caller,
         check' \in [Caller -> CheckState],
         \A o \in Caller \ C : check'[o] = check[o],
         UNCHANGED <<issued, asked, admitted>>,
         clock' \in 0..MaxClock, failures' \in 0..MaxFailures,
         window' \in [Key -> SUBSET Entry], \A k \in Key : window'[k] \subseteq window[k],
         expireAt' \in [Key -> Nat],
         \A c \in C : HasKey(c)' /\ CountsWhatWasAsked(c)',
         \A c \in C : \A i \in 1..4 : /\ Adds(check'[c], i) => Adds(check[c], i)
                                      /\ Admits(check'[c], i) => Admits(check[c], i)
  PROVE  LimitIInv'
<1>1. LimitTypeOK'
  BY DEF LimitIInv, LimitTypeOK
<1>2. RequestsAddUp'
  <2> SUFFICES ASSUME NEW k \in Key, NEW i \in 1..4, k[1] = Dimensions[i]
               PROVE  /\ Cardinality(asked[k]) + Cardinality(ToAdd(i)') <= issued
                      /\ Cardinality(admitted[k]) + Cardinality(ToAdmit(i)') <= issued
    BY DEF RequestsAddUp
  <2>1. ToAdd(i)' \subseteq ToAdd(i) /\ ToAdmit(i)' \subseteq ToAdmit(i)
    BY DEF ToAdd, ToAdmit
  <2>2. /\ Cardinality(asked[k]) + Cardinality(ToAdd(i)) <= issued
        /\ Cardinality(admitted[k]) + Cardinality(ToAdmit(i)) <= issued
    BY DEF LimitIInv, RequestsAddUp
  <2>3. IsFiniteSet(ToAdd(i)) /\ IsFiniteSet(ToAdmit(i))
    BY EntriesAreFinite DEF ToAdd, ToAdmit
  <2>4. /\ Cardinality(ToAdd(i)') <= Cardinality(ToAdd(i))
        /\ Cardinality(ToAdmit(i)') <= Cardinality(ToAdmit(i))
        /\ Cardinality(ToAdd(i)) \in Nat /\ Cardinality(ToAdmit(i)) \in Nat
        /\ Cardinality(ToAdd(i)') \in Nat /\ Cardinality(ToAdmit(i)') \in Nat
    BY <2>1, <2>3, PartIsNotLarger
  <2>5. Cardinality(asked[k]) \in Nat /\ Cardinality(admitted[k]) \in Nat /\ issued \in Nat
    BY EntriesAreFinite, RateLimitAssumption DEF LimitIInv, LimitTypeOK
  <2> QED BY <2>2, <2>4, <2>5
<1>3. EntriesAreNumbered'
  BY DEF LimitIInv, EntriesAreNumbered
<1>4. ASSUME NEW c \in Caller \ C PROVE HasKey(c)' /\ CountsWhatWasAsked(c)'
  <2>1. /\ check'[c] = check[c] /\ KeyAt(c)' = KeyAt(c) /\ AskedInWindow(c)' = AskedInWindow(c)
    BY SameWindow
  <2> QED BY <2>1 DEF LimitIInv, HasKey, CountsWhatWasAsked
<1> QED BY <1>1, <1>2, <1>3, <1>4 DEF LimitIInv

\* The same of a step of one caller.
LEMMA QuietCheck ==
  ASSUME LimitIInv, NEW c \in Caller,
         check' \in [Caller -> CheckState],
         \A o \in Caller \ {c} : check'[o] = check[o],
         UNCHANGED <<clock, issued, asked, admitted>>, failures' \in 0..MaxFailures,
         window' \in [Key -> SUBSET Entry], \A k \in Key : window'[k] \subseteq window[k],
         expireAt' \in [Key -> Nat],
         HasKey(c)' /\ CountsWhatWasAsked(c)',
         \A i \in 1..4 : /\ Adds(check'[c], i) => Adds(check[c], i)
                         /\ Admits(check'[c], i) => Admits(check[c], i)
  PROVE  LimitIInv'
<1>1. PICK C : C = {c}
  OBVIOUS
<1>2. C \in SUBSET Caller /\ \A o \in Caller \ C : check'[o] = check[o]
  BY <1>1
<1>3. \A o \in C : HasKey(o)' /\ CountsWhatWasAsked(o)'
  BY <1>1
<1>4. \A o \in C : \A i \in 1..4 : /\ Adds(check'[o], i) => Adds(check[o], i)
                                   /\ Admits(check'[o], i) => Admits(check[o], i)
  BY <1>1
<1>5. clock' \in 0..MaxClock
  BY DEF LimitIInv, LimitTypeOK
<1> QED BY <1>2, <1>3, <1>4, <1>5, QuietStep

\* Time passes, and keys expire.
LEMMA TimeStep ==
  ASSUME LimitIInv, Tick \/ \E k \in Key : KeyExpires(k)
  PROVE  LimitIInv'
<1>0. LimitTypeOK /\ MaxClock \in Nat
  BY RateLimitAssumption DEF LimitIInv
<1>1. CASE Tick
  <2>1. clock' \in 0..MaxClock /\ UNCHANGED <<issued, failures, window, expireAt, check, asked, admitted>>
    BY <1>0, <1>1 DEF Tick, LimitTypeOK
  <2>2. /\ check' \in [Caller -> CheckState] /\ failures' \in 0..MaxFailures
        /\ window' \in [Key -> SUBSET Entry] /\ expireAt' \in [Key -> Nat]
        /\ \A k \in Key : window'[k] \subseteq window[k]
    BY <1>0, <2>1 DEF LimitTypeOK
  <2>3. {} \in SUBSET Caller /\ \A o \in Caller \ {} : check'[o] = check[o]
    BY <2>1
  <2> HIDE <1>1
  <2> QED BY <2>1, <2>2, <2>3, QuietStep
<1>2. CASE \E k \in Key : KeyExpires(k)
  <2> PICK k \in Key : KeyExpires(k)
    BY <1>2
  <2>1. /\ window' = [window EXCEPT ![k] = {}] /\ expireAt' = [expireAt EXCEPT ![k] = 0]
        /\ UNCHANGED <<clock, issued, failures, check, asked, admitted>>
    BY DEF KeyExpires
  <2>2. /\ window' \in [Key -> SUBSET Entry] /\ expireAt' \in [Key -> Nat]
        /\ \A q \in Key : window'[q] \subseteq window[q]
    BY <1>0, <2>1 DEF LimitTypeOK
  <2> QED BY SMTT(30), <1>0, <2>1, <2>2, QuietStep DEF LimitTypeOK
<1> QED BY <1>1, <1>2

\* A request enters: one more is issued, and one more may be added anywhere.
LEMMA EnterStep ==
  ASSUME LimitIInv, NEW c \in Caller, NEW u \in Client, Enter(c, u)
  PROVE  LimitIInv'
<1>0. LimitTypeOK /\ check \in [Caller -> CheckState] /\ issued \in 0..MaxRequests
      /\ MaxRequests \in Nat
  BY RateLimitAssumption DEF LimitIInv, LimitTypeOK
<1>1. /\ check' = [check EXCEPT ![c] = [NoCheck EXCEPT !.pc = "next", !.client = u]]
      /\ issued' = issued + 1 /\ issued < MaxRequests
      /\ UNCHANGED <<clock, failures, window, expireAt, asked, admitted>>
  BY DEF Enter
<1>2. /\ check' \in [Caller -> CheckState]
      /\ \A o \in Caller \ {c} : check'[o] = check[o]
      /\ check'[c].pc = "next" /\ check'[c].client = u
  <2> DEFINE new == [NoCheck EXCEPT !.pc = "next", !.client = u]
  <2>1. 0 \in 0..Len(Dimensions) /\ 0 \in 0..MaxClock /\ 0 \in Nat
    BY FourDimensions, RateLimitAssumption
  <2>2. NoCheck \in CheckState
    BY <2>1 DEF NoCheck, CheckState
  <2>3. new \in CheckState /\ new.pc = "next" /\ new.client = u
    BY <2>2 DEF CheckState
  <2> HIDE DEF new
  <2>4. check' = [check EXCEPT ![c] = new]
    BY <1>1 DEF new
  <2> QED BY <1>0, <2>3, <2>4
<1>3. LimitTypeOK'
  BY <1>0, <1>1, <1>2 DEF LimitTypeOK
<1>4. RequestsAddUp'
  <2> SUFFICES ASSUME NEW k \in Key, NEW i \in 1..4, k[1] = Dimensions[i]
               PROVE  /\ Cardinality(asked[k]) + Cardinality(ToAdd(i)') <= issued + 1
                      /\ Cardinality(admitted[k]) + Cardinality(ToAdmit(i)') <= issued + 1
    BY <1>1 DEF RequestsAddUp
  <2>1. ToAdd(i)' \subseteq ToAdd(i) \cup {c} /\ ToAdmit(i)' \subseteq ToAdmit(i) \cup {c}
    BY <1>2 DEF ToAdd, ToAdmit
  <2>2. /\ Cardinality(asked[k]) + Cardinality(ToAdd(i)) <= issued
        /\ Cardinality(admitted[k]) + Cardinality(ToAdmit(i)) <= issued
    BY DEF LimitIInv, RequestsAddUp
  <2>3. IsFiniteSet(ToAdd(i)) /\ IsFiniteSet(ToAdmit(i))
    BY EntriesAreFinite DEF ToAdd, ToAdmit
  <2>4. /\ IsFiniteSet(ToAdd(i) \cup {c}) /\ IsFiniteSet(ToAdmit(i) \cup {c})
        /\ Cardinality(ToAdd(i) \cup {c}) <= Cardinality(ToAdd(i)) + 1
        /\ Cardinality(ToAdmit(i) \cup {c}) <= Cardinality(ToAdmit(i)) + 1
        /\ Cardinality(ToAdd(i)) \in Nat /\ Cardinality(ToAdmit(i)) \in Nat
    BY <2>3, OneMoreElement
  <2>5. /\ Cardinality(ToAdd(i)') <= Cardinality(ToAdd(i) \cup {c})
        /\ Cardinality(ToAdmit(i)') <= Cardinality(ToAdmit(i) \cup {c})
        /\ Cardinality(ToAdd(i) \cup {c}) \in Nat /\ Cardinality(ToAdmit(i) \cup {c}) \in Nat
        /\ Cardinality(ToAdd(i)') \in Nat /\ Cardinality(ToAdmit(i)') \in Nat
    BY <2>1, <2>4, PartIsNotLarger
  <2>6. Cardinality(asked[k]) \in Nat /\ Cardinality(admitted[k]) \in Nat
    BY <1>0, EntriesAreFinite DEF LimitTypeOK
  <2> QED BY <1>0, <2>2, <2>4, <2>5, <2>6
<1>5. EntriesAreNumbered'
  BY <1>1 DEF LimitIInv, EntriesAreNumbered
<1>6. ASSUME NEW o \in Caller PROVE HasKey(o)' /\ CountsWhatWasAsked(o)'
  <2>1. CASE o = c
    BY <1>2, <2>1 DEF HasKey, CountsWhatWasAsked
  <2>2. CASE o # c
    <3>1. /\ check'[o] = check[o] /\ KeyAt(o)' = KeyAt(o) /\ AskedInWindow(o)' = AskedInWindow(o)
      BY <1>1, <1>2, <2>2, SameWindow
    <3> QED BY <3>1 DEF LimitIInv, HasKey, CountsWhatWasAsked
  <2> QED BY <2>1, <2>2
<1> QED BY <1>3, <1>4, <1>5, <1>6 DEF LimitIInv

\* A check that only moves on.
LEMMA CheckMoves ==
  ASSUME check \in [Caller -> CheckState], NEW c \in Caller,
         NEW pc \in {"next", "count", "expire", "passed", "refused"},
         check' = [check EXCEPT ![c].pc = pc]
  PROVE  /\ check' \in [Caller -> CheckState]
         /\ \A o \in Caller \ {c} : check'[o] = check[o]
         /\ check'[c].pc = pc /\ check'[c].client = check[c].client
         /\ check'[c].dim = check[c].dim /\ check'[c].now = check[c].now
         /\ check'[c].count = check[c].count
         /\ c \in Caller /\ {c} \in SUBSET Caller
BY DEF CheckState

\* The steps of a check that neither add nor count anything into a key.
LEMMA CheckStep ==
  ASSUME LimitIInv, NEW c \in Caller,
         Begin(c) \/ Pass(c) \/ Trim(c) \/ Count(c) \/ PipelineFails(c) \/ Leave(c)
  PROVE  LimitIInv'
<1>0. /\ LimitTypeOK /\ check \in [Caller -> CheckState] /\ HasKey(c) /\ CountsWhatWasAsked(c)
      /\ clock \in 0..MaxClock /\ failures \in 0..MaxFailures
      /\ window \in [Key -> SUBSET Entry] /\ expireAt \in [Key -> Nat]
      /\ MaxClock \in Nat /\ MaxFailures \in Nat /\ \A k \in Key : window[k] \subseteq window[k]
  BY RateLimitAssumption DEF LimitIInv, LimitTypeOK
<1>1. CASE Begin(c)
  <2>1. PICK i \in 1..4 : /\ i \in Remaining(c) /\ check[c].pc = "next"
          /\ check' = [check EXCEPT ![c].pc = "trim", ![c].dim = i, ![c].now = clock]
    BY <1>1, FourDimensions DEF Begin, Remaining
  <2>2. i > check[c].dim /\ check[c].dim \in 0..4
    BY <1>0, <2>1, FourDimensions DEF Remaining, CheckState
  <2>3. /\ check' \in [Caller -> CheckState]
        /\ \A o \in Caller \ {c} : check'[o] = check[o]
        /\ check'[c].pc = "trim" /\ check'[c].dim = i /\ check'[c].client = check[c].client
    <3>1. i \in 0..Len(Dimensions)
      BY FourDimensions
    <3> HIDE <1>1
    <3> QED BY ZenonT(60), <1>0, <2>1, <3>1 DEF CheckState
  <2>4. HasKey(c)' /\ CountsWhatWasAsked(c)'
    BY <1>0, <2>1, <2>3 DEF HasKey, CountsWhatWasAsked
  <2>5. \A j \in 1..4 : /\ Adds(check'[c], j) => Adds(check[c], j)
                        /\ Admits(check'[c], j) => Admits(check[c], j)
    BY <2>1, <2>2, <2>3 DEF Adds, Admits
  <2>6. UNCHANGED <<clock, issued, failures, window, expireAt, asked, admitted>>
    BY <1>1 DEF Begin
  <2> QED BY <1>0, <2>3, <2>4, <2>5, <2>6, QuietCheck
<1>2. CASE Pass(c)
  <2>1. /\ check[c].pc = "next" /\ check' = [check EXCEPT ![c].pc = "passed"]
        /\ UNCHANGED <<clock, issued, failures, window, expireAt, asked, admitted>>
    BY <1>2 DEF Pass
  <2>2. /\ check' \in [Caller -> CheckState]
        /\ \A o \in Caller \ {c} : check'[o] = check[o]
        /\ check'[c].pc = "passed" /\ check'[c].client = check[c].client
    BY <1>0, <2>1, CheckMoves
  <2>3. HasKey(c)' /\ CountsWhatWasAsked(c)'
    BY <1>0, <2>1, <2>2 DEF HasKey, CountsWhatWasAsked
  <2>4. \A j \in 1..4 : ~ Adds(check'[c], j) /\ ~ Admits(check'[c], j)
    BY <2>2 DEF Adds, Admits
  <2> QED BY <1>0, <2>1, <2>2, <2>3, <2>4, QuietCheck
<1>3. CASE Trim(c)
  <2> DEFINE kept == {e \in window[KeyAt(c)] : e[1] > WindowStart(c)}
  <2>1. /\ check[c].pc = "trim" /\ check' = [check EXCEPT ![c].pc = "count"]
        /\ window' = [window EXCEPT ![KeyAt(c)] = kept]
        /\ expireAt' = IF kept = {} THEN [expireAt EXCEPT ![KeyAt(c)] = 0] ELSE expireAt
        /\ UNCHANGED <<clock, issued, failures, asked, admitted>>
    BY <1>3 DEF Trim
  <2>2. /\ check' \in [Caller -> CheckState]
        /\ \A o \in Caller \ {c} : check'[o] = check[o]
        /\ check'[c].pc = "count" /\ check'[c].client = check[c].client
        /\ check'[c].dim = check[c].dim
    BY <1>0, <2>1, CheckMoves
  <2>3. HasKey(c)' /\ CountsWhatWasAsked(c)'
    BY <1>0, <2>1, <2>2 DEF HasKey, CountsWhatWasAsked
  <2>4. \A j \in 1..4 : /\ Adds(check'[c], j) => Adds(check[c], j)
                        /\ Admits(check'[c], j) => Admits(check[c], j)
    BY <2>1, <2>2 DEF Adds, Admits
  <2>5. KeyAt(c) \in Key
    BY <1>0, <2>1, KeyOfCheck DEF HasKey
  <2>6. /\ window' \in [Key -> SUBSET Entry] /\ expireAt' \in [Key -> Nat]
        /\ \A k \in Key : window'[k] \subseteq window[k]
    BY <1>0, <2>1, <2>5
  <2> HIDE DEF kept
  <2> QED BY <1>0, <2>1, <2>2, <2>3, <2>4, <2>6, QuietCheck
<1>4. CASE Count(c)
  <2> DEFINE seen == {e \in window[KeyAt(c)] : e[1] >= WindowStart(c)}
  <2>1. /\ check[c].pc = "count"
        /\ check' = [check EXCEPT ![c].pc = "add", ![c].count = Cardinality(seen)]
        /\ UNCHANGED <<clock, issued, failures, window, expireAt, asked, admitted>>
    BY <1>4 DEF Count
  <2>2. KeyAt(c) \in Key
    BY <1>0, <2>1, KeyOfCheck DEF HasKey
  <2>3. /\ seen \subseteq AskedInWindow(c)
        /\ seen \subseteq Entry /\ AskedInWindow(c) \subseteq Entry
    BY <1>0, <2>2 DEF AskedInWindow, LimitIInv, EntriesAreNumbered, LimitTypeOK
  <2>4. Cardinality(seen) \in Nat /\ Cardinality(seen) <= Cardinality(AskedInWindow(c))
    <3> HIDE DEF seen
    <3> QED BY <2>3, EntriesAreFinite, PartIsNotLarger
  <2> HIDE DEF seen
  <2>5. /\ check' \in [Caller -> CheckState]
        /\ \A o \in Caller \ {c} : check'[o] = check[o]
        /\ check'[c].pc = "add" /\ check'[c].client = check[c].client
        /\ check'[c].dim = check[c].dim /\ check'[c].now = check[c].now
        /\ check'[c].count = Cardinality(seen)
    BY <1>0, <2>1, <2>4 DEF CheckState
  <2>6. AskedInWindow(c)' = AskedInWindow(c)
    BY <2>1, <2>5, SameWindow
  <2>7. HasKey(c)' /\ CountsWhatWasAsked(c)'
    BY <1>0, <2>1, <2>4, <2>5, <2>6 DEF HasKey, CountsWhatWasAsked
  <2>8. \A j \in 1..4 : /\ Adds(check'[c], j) => Adds(check[c], j)
                        /\ Admits(check'[c], j) => Admits(check[c], j)
    BY <2>1, <2>5 DEF Adds, Admits
  <2> QED BY <1>0, <2>1, <2>5, <2>7, <2>8, QuietCheck
<1>5. CASE PipelineFails(c)
  <2>1. /\ check[c].pc \in {"trim", "count", "add", "expire"}
        /\ failures < MaxFailures /\ failures' = failures + 1
        /\ check' = [check EXCEPT ![c].pc = "next"]
        /\ UNCHANGED <<clock, issued, window, expireAt, asked, admitted>>
    BY <1>5 DEF PipelineFails
  <2>2. /\ check' \in [Caller -> CheckState]
        /\ \A o \in Caller \ {c} : check'[o] = check[o]
        /\ check'[c].pc = "next" /\ check'[c].client = check[c].client
        /\ check'[c].dim = check[c].dim
    BY <1>0, <2>1, CheckMoves
  <2>3. HasKey(c)' /\ CountsWhatWasAsked(c)'
    BY <1>0, <2>1, <2>2 DEF HasKey, CountsWhatWasAsked
  <2>4. \A j \in 1..4 : /\ Adds(check'[c], j) => Adds(check[c], j)
                        /\ Admits(check'[c], j) => Admits(check[c], j)
    BY <2>1, <2>2 DEF Adds, Admits
  <2>5. failures' \in 0..MaxFailures
    BY <1>0, <2>1
  <2> QED BY <1>0, <2>1, <2>2, <2>3, <2>4, <2>5, QuietCheck
<1>6. CASE Leave(c)
  <2>1. /\ check' = [check EXCEPT ![c] = NoCheck]
        /\ UNCHANGED <<clock, issued, failures, window, expireAt, asked, admitted>>
    BY <1>6 DEF Leave
  <2>2. NoCheck \in CheckState /\ NoCheck.pc = "idle"
    BY <1>0, FourDimensions DEF NoCheck, CheckState
  <2>3. /\ check' \in [Caller -> CheckState]
        /\ \A o \in Caller \ {c} : check'[o] = check[o]
        /\ check'[c].pc = "idle"
    BY <1>0, <2>1, <2>2
  <2>4. HasKey(c)' /\ CountsWhatWasAsked(c)'
    BY <2>3 DEF HasKey, CountsWhatWasAsked
  <2>5. \A j \in 1..4 : ~ Adds(check'[c], j) /\ ~ Admits(check'[c], j)
    BY <2>3 DEF Adds, Admits
  <2> QED BY <1>0, <2>1, <2>3, <2>4, <2>5, QuietCheck
<1> QED BY <1>1, <1>2, <1>3, <1>4, <1>5, <1>6

\* The next entry of a key that has room for one.
LEMMA NextEntry ==
  ASSUME NEW entries \in SUBSET Entry, NEW t \in 0..MaxClock,
         NEW n \in 0..MaxRequests, Cardinality(entries) < n
  PROVE  /\ NextOf(entries, t) \in Entry
         /\ NextOf(entries, t)[1] = t
         /\ NextOf(entries, t)[2] = 1 + Cardinality(OfSecond(entries, t))
         /\ Cardinality(OfSecond(entries, t)) \in Nat
         /\ IsFiniteSet(OfSecond(entries, t)) /\ OfSecond(entries, t) \subseteq entries
<1>1. IsFiniteSet(entries) /\ Cardinality(entries) \in Nat
  BY EntriesAreFinite
<1>2. OfSecond(entries, t) \subseteq entries
  BY DEF OfSecond
<1>3. /\ Cardinality(OfSecond(entries, t)) <= Cardinality(entries)
      /\ Cardinality(OfSecond(entries, t)) \in Nat
  BY <1>1, <1>2, PartIsNotLarger
<1>4. NextOf(entries, t) = <<t, 1 + Cardinality(OfSecond(entries, t))>>
  BY DEF NextOf, OfSecond
<1>5. 1 + Cardinality(OfSecond(entries, t)) \in 1..MaxRequests
  BY <1>1, <1>3, RateLimitAssumption
<1> QED BY <1>1, <1>2, <1>3, <1>4, <1>5, FS_Subset DEF Entry

\* What a check that adds, or is counted, leaves to the others of its dimension.
LEMMA RoomForOne ==
  ASSUME LimitIInv, NEW c \in Caller, check[c].dim \in 1..4, KeyAt(c) \in Key,
         KeyAt(c)[1] = Dimensions[check[c].dim]
  PROVE  /\ Adds(check[c], check[c].dim) => Cardinality(asked[KeyAt(c)]) < issued
         /\ Admits(check[c], check[c].dim) => Cardinality(admitted[KeyAt(c)]) < issued
<1> DEFINE i == check[c].dim
           k == KeyAt(c)
<1>1. /\ Cardinality(asked[k]) + Cardinality(ToAdd(i)) <= issued
      /\ Cardinality(admitted[k]) + Cardinality(ToAdmit(i)) <= issued
  BY DEF LimitIInv, RequestsAddUp
<1>2. /\ IsFiniteSet(ToAdd(i)) /\ IsFiniteSet(ToAdmit(i))
      /\ Cardinality(ToAdd(i)) \in Nat /\ Cardinality(ToAdmit(i)) \in Nat
  BY EntriesAreFinite DEF ToAdd, ToAdmit
<1>3. Adds(check[c], i) => Cardinality(ToAdd(i)) # 0
  <2>1. Adds(check[c], i) => c \in ToAdd(i)
    BY DEF ToAdd
  <2> QED BY <1>2, <2>1, FS_EmptySet
<1>4. Admits(check[c], i) => Cardinality(ToAdmit(i)) # 0
  <2>1. Admits(check[c], i) => c \in ToAdmit(i)
    BY DEF ToAdmit
  <2> QED BY <1>2, <2>1, FS_EmptySet
<1>5. Cardinality(asked[k]) \in Nat /\ Cardinality(admitted[k]) \in Nat /\ issued \in Nat
  BY EntriesAreFinite, RateLimitAssumption DEF LimitIInv, LimitTypeOK
<1> HIDE DEF i, k
<1>6. /\ Adds(check[c], i) => Cardinality(asked[k]) < issued
      /\ Admits(check[c], i) => Cardinality(admitted[k]) < issued
  BY <1>1, <1>2, <1>3, <1>4, <1>5
<1> QED BY <1>6 DEF i, k

\* A request is added: one entry more, one request less on its way.
LEMMA AddStep ==
  ASSUME LimitIInv, NEW c \in Caller, Add(c)
  PROVE  LimitIInv'
<1>a. PICK k : k = KeyAt(c)
  OBVIOUS
<1>b. PICK i : i = check[c].dim
  OBVIOUS
<1>c. PICK new : new = NextOf(asked[k], check[c].now)
  OBVIOUS
<1>0. /\ LimitTypeOK /\ check \in [Caller -> CheckState] /\ HasKey(c) /\ CountsWhatWasAsked(c)
      /\ issued \in 0..MaxRequests /\ check[c].pc = "add"
      /\ asked \in [Key -> SUBSET Entry] /\ window \in [Key -> SUBSET Entry]
  BY DEF LimitIInv, LimitTypeOK, Add
<1>1. /\ window' = [window EXCEPT ![k] = @ \cup {new}]
      /\ asked' = [asked EXCEPT ![k] = @ \cup {new}]
      /\ check' = [check EXCEPT ![c].pc = "expire"]
      /\ UNCHANGED <<clock, issued, failures, expireAt, admitted>>
  BY <1>a, <1>c DEF Add
<1>2. /\ k \in Key /\ i \in 1..4 /\ k[1] = Dimensions[i] /\ check[c].now \in 0..MaxClock
      /\ WindowStart(c) <= check[c].now
  BY <1>0, <1>a, <1>b, KeyOfCheck DEF HasKey
<1>3. Cardinality(asked[k]) < issued
  <2>1. Adds(check[c], i)
    BY <1>0, <1>b DEF Adds
  <2> QED BY <1>2, <1>a, <1>b, <2>1, RoomForOne
<1>4. /\ new \in Entry /\ new[1] = check[c].now
      /\ new[2] = 1 + Cardinality(OfSecond(asked[k], check[c].now))
      /\ Cardinality(OfSecond(asked[k], check[c].now)) \in Nat
      /\ IsFiniteSet(OfSecond(asked[k], check[c].now))
  BY <1>0, <1>2, <1>3, <1>c, NextEntry
<1>5. new \notin asked[k]
  <2>1. \A e \in asked[k] : e[2] <= Cardinality(OfSecond(asked[k], e[1]))
    BY <1>2 DEF LimitIInv, EntriesAreNumbered
  <2> QED BY <1>4, <2>1
<1>6. /\ check' \in [Caller -> CheckState]
      /\ \A o \in Caller \ {c} : check'[o] = check[o]
      /\ check'[c].pc = "expire" /\ check'[c].client = check[c].client
      /\ check'[c].dim = check[c].dim /\ check'[c].now = check[c].now
      /\ check'[c].count = check[c].count
  BY <1>0, <1>1, CheckMoves
<1>7. /\ asked'[k] = asked[k] \cup {new} /\ window'[k] = window[k] \cup {new}
      /\ \A q \in Key \ {k} : asked'[q] = asked[q] /\ window'[q] = window[q]
  BY <1>0, <1>1, <1>2
<1>8. LimitTypeOK'
  <2>1. asked' \in [Key -> SUBSET Entry] /\ window' \in [Key -> SUBSET Entry]
    BY <1>0, <1>1, <1>4
  <2> QED BY <1>0, <1>1, <1>6, <2>1 DEF LimitTypeOK
<1>9. RequestsAddUp'
  <2> SUFFICES ASSUME NEW q \in Key, NEW j \in 1..4, q[1] = Dimensions[j]
               PROVE  /\ Cardinality(asked'[q]) + Cardinality(ToAdd(j)') <= issued
                      /\ Cardinality(admitted[q]) + Cardinality(ToAdmit(j)') <= issued
    BY <1>1 DEF RequestsAddUp
  <2>1. /\ Cardinality(asked[q]) + Cardinality(ToAdd(j)) <= issued
        /\ Cardinality(admitted[q]) + Cardinality(ToAdmit(j)) <= issued
    BY DEF LimitIInv, RequestsAddUp
  <2>2. IsFiniteSet(ToAdd(j)) /\ IsFiniteSet(ToAdmit(j))
    BY EntriesAreFinite DEF ToAdd, ToAdmit
  <2>3. ToAdd(j)' \subseteq ToAdd(j) /\ ToAdmit(j)' \subseteq ToAdmit(j)
    BY <1>0, <1>6 DEF ToAdd, ToAdmit, Adds, Admits
  <2>4. /\ Cardinality(ToAdd(j)') <= Cardinality(ToAdd(j))
        /\ Cardinality(ToAdmit(j)') <= Cardinality(ToAdmit(j))
        /\ Cardinality(ToAdd(j)) \in Nat /\ Cardinality(ToAdmit(j)) \in Nat
        /\ Cardinality(ToAdd(j)') \in Nat /\ Cardinality(ToAdmit(j)') \in Nat
    BY <2>2, <2>3, PartIsNotLarger
  <2>5. /\ Cardinality(asked[q]) \in Nat /\ Cardinality(admitted[q]) \in Nat
        /\ IsFiniteSet(asked[q]) /\ issued \in Nat
    BY <1>0, EntriesAreFinite DEF LimitTypeOK
  <2>6. CASE q = k
    <3>1. j = i
      BY <1>2, <2>6, FourDimensions
    <3>2. c \in ToAdd(j) /\ ToAdd(j)' = ToAdd(j) \ {c}
      BY <1>0, <1>6, <1>b, <3>1 DEF ToAdd, Adds
    <3>3. Cardinality(ToAdd(j)') = Cardinality(ToAdd(j)) - 1
      BY <2>2, <3>2, OneMoreElement
    <3>4. Cardinality(asked'[q]) = Cardinality(asked[q]) + 1
      BY <1>5, <1>7, <2>5, <2>6, OneMoreElement
    <3> QED BY <2>1, <2>4, <2>5, <3>3, <3>4
  <2>7. CASE q # k
    BY <1>7, <2>1, <2>4, <2>5, <2>7
  <2> QED BY <2>6, <2>7
<1>10. EntriesAreNumbered'
  <2>1. ASSUME NEW q \in Key PROVE window'[q] \subseteq asked'[q]
    BY <1>7, <2>1 DEF LimitIInv, EntriesAreNumbered
  <2>2. ASSUME NEW q \in Key \ {k}, NEW e \in asked'[q]
        PROVE  e[2] <= Cardinality(OfSecond(asked'[q], e[1]))
    BY <1>7, <2>2 DEF LimitIInv, EntriesAreNumbered
  <2>3. ASSUME NEW e \in asked[k]
        PROVE  e[2] <= Cardinality(OfSecond(asked'[k], e[1]))
    <3>1. e[2] <= Cardinality(OfSecond(asked[k], e[1])) /\ e[2] \in Int
      BY <1>0, <1>2 DEF LimitIInv, EntriesAreNumbered, Entry
    <3>2. OfSecond(asked[k], e[1]) \subseteq OfSecond(asked'[k], e[1])
      BY <1>7 DEF OfSecond
    <3>3. OfSecond(asked'[k], e[1]) \in SUBSET Entry
      BY <1>0, <1>2, <1>4, <1>7 DEF OfSecond
    <3>4. /\ Cardinality(OfSecond(asked[k], e[1])) <= Cardinality(OfSecond(asked'[k], e[1]))
          /\ Cardinality(OfSecond(asked[k], e[1])) \in Nat
          /\ Cardinality(OfSecond(asked'[k], e[1])) \in Nat
      BY <3>2, <3>3, EntriesAreFinite, PartIsNotLarger
    <3> QED BY <3>1, <3>4
  <2>4. new[2] <= Cardinality(OfSecond(asked'[k], new[1]))
    <3>1. OfSecond(asked'[k], new[1]) = OfSecond(asked[k], check[c].now) \cup {new}
      BY <1>4, <1>7 DEF OfSecond
    <3>2. new \notin OfSecond(asked[k], check[c].now)
      BY <1>5 DEF OfSecond
    <3>3. Cardinality(OfSecond(asked'[k], new[1]))
            = Cardinality(OfSecond(asked[k], check[c].now)) + 1
      BY <1>4, <3>1, <3>2, OneMoreElement
    <3> QED BY <1>4, <3>3
  <2>5. ASSUME NEW q \in Key, NEW e \in asked'[q]
        PROVE  e[2] <= Cardinality(OfSecond(asked'[q], e[1]))
    BY <1>7, <2>2, <2>3, <2>4
  <2> QED BY <2>1, <2>5 DEF EntriesAreNumbered
<1>11. ASSUME NEW o \in Caller \ {c} PROVE HasKey(o)' /\ CountsWhatWasAsked(o)'
  <2>0. HasKey(o) /\ CountsWhatWasAsked(o) /\ check'[o] = check[o]
    BY <1>6 DEF LimitIInv
  <2>1. HasKey(o)'
    BY <2>0 DEF HasKey
  <2>2. KeyAt(o)' = KeyAt(o) /\ WindowStart(o)' = WindowStart(o)
    BY <2>0, SameWindow
  <2>3. CASE check[o].pc \notin {"add", "expire", "refused"}
    BY <2>0, <2>1, <2>3 DEF CountsWhatWasAsked
  <2>4. CASE check[o].pc \in {"add", "expire", "refused"}
    <3>1. KeyAt(o) \in Key
      BY <1>0, <2>0, <2>4, KeyOfCheck DEF HasKey
    <3>2. AskedInWindow(o) \subseteq AskedInWindow(o)' /\ AskedInWindow(o)' \in SUBSET Entry
      <4>1. asked[KeyAt(o)] \subseteq asked'[KeyAt(o)] /\ asked'[KeyAt(o)] \subseteq Entry
        BY <1>0, <1>4, <1>7, <3>1
      <4> QED BY <2>2, <4>1 DEF AskedInWindow
    <3>3. /\ Cardinality(AskedInWindow(o)) <= Cardinality(AskedInWindow(o)')
          /\ Cardinality(AskedInWindow(o)) \in Nat /\ Cardinality(AskedInWindow(o)') \in Nat
      BY <3>2, EntriesAreFinite, PartIsNotLarger
    <3>4. check[o].count \in Nat
      BY <1>0 DEF CheckState
    <3> QED BY <2>0, <2>1, <2>2, <3>3, <3>4 DEF CountsWhatWasAsked
  <2> QED BY <2>3, <2>4
<1>12. HasKey(c)' /\ CountsWhatWasAsked(c)'
  <2>1. HasKey(c)'
    BY <1>0, <1>6 DEF HasKey
  <2>2. KeyAt(c)' = KeyAt(c) /\ WindowStart(c)' = WindowStart(c)
    BY <1>6, SameWindow
  <2>3. AskedInWindow(c)' = AskedInWindow(c) \cup {new} /\ new \notin AskedInWindow(c)
    BY <1>2, <1>4, <1>5, <1>7, <1>a, <2>2 DEF AskedInWindow
  <2>4. AskedInWindow(c) \in SUBSET Entry
    BY <1>0, <1>2, <1>a DEF AskedInWindow
  <2>5. Cardinality(AskedInWindow(c)') = Cardinality(AskedInWindow(c)) + 1
    BY <2>3, <2>4, EntriesAreFinite, OneMoreElement
  <2>6. check[c].count \in Nat /\ Cardinality(AskedInWindow(c)) \in Nat
    BY <1>0, <2>4, EntriesAreFinite DEF CheckState
  <2> QED BY <1>0, <1>6, <2>1, <2>5, <2>6 DEF CountsWhatWasAsked
<1> QED BY <1>8, <1>9, <1>10, <1>11, <1>12 DEF LimitIInv

\* The check decides: the request goes on, counted, or is refused.
LEMMA DecideStep ==
  ASSUME LimitIInv, NEW c \in Caller, Decide(c)
  PROVE  LimitIInv'
<1>a. PICK k : k = KeyAt(c)
  OBVIOUS
<1>b. PICK i : i = check[c].dim
  OBVIOUS
<1>0. /\ LimitTypeOK /\ check \in [Caller -> CheckState] /\ HasKey(c) /\ CountsWhatWasAsked(c)
      /\ issued \in 0..MaxRequests /\ check[c].pc = "expire" /\ clock \in 0..MaxClock
      /\ admitted \in [Key -> SUBSET Entry] /\ check[c].count \in Nat
  BY DEF LimitIInv, LimitTypeOK, Decide, CheckState
<1>1. /\ check' = [check EXCEPT ![c].pc = IF Allows(c) THEN "next" ELSE "refused"]
      /\ admitted' = IF ~ Allows(c) THEN admitted
                     ELSE [admitted EXCEPT ![k] = @ \cup {NextOf(@, check[c].now)}]
      /\ UNCHANGED <<clock, issued, failures, window, asked>>
  BY <1>a DEF Decide
<1>2. /\ k \in Key /\ i \in 1..4 /\ k[1] = Dimensions[i] /\ check[c].now \in 0..MaxClock
      /\ k[1] \in Dimension /\ Limit[k[1]] \in Nat
  BY <1>0, <1>a, <1>b, KeyOfCheck DEF HasKey
<1>3. expireAt' \in [Key -> Nat]
  <2>1. clock + Period[k[1]] + Slack \in Nat
    BY <1>0, <1>2, RateLimitAssumption
  <2>2. expireAt' = expireAt \/ expireAt' = [expireAt EXCEPT ![k] = clock + Period[k[1]] + Slack]
    BY <1>a DEF Decide
  <2> QED BY <1>0, <2>1, <2>2 DEF LimitTypeOK
<1>4. CASE ~ Allows(c)
  <2>1. /\ check' = [check EXCEPT ![c].pc = "refused"]
        /\ UNCHANGED <<clock, issued, failures, window, asked, admitted>>
    BY <1>1, <1>4
  <2>2. /\ check' \in [Caller -> CheckState]
        /\ \A o \in Caller \ {c} : check'[o] = check[o]
        /\ check'[c].pc = "refused" /\ check'[c].client = check[c].client
        /\ check'[c].dim = check[c].dim /\ check'[c].now = check[c].now
        /\ check'[c].count = check[c].count
    BY <1>0, <2>1, CheckMoves
  <2>3. KeyAt(c)' = KeyAt(c) /\ AskedInWindow(c)' = AskedInWindow(c)
    BY <2>1, <2>2, SameWindow
  <2>4. check[c].count >= Limit[KeyAt(c)[1]]
    BY <1>0, <1>2, <1>4, <1>a DEF Allows
  <2>5. HasKey(c)' /\ CountsWhatWasAsked(c)'
    BY <1>0, <2>2, <2>3, <2>4 DEF HasKey, CountsWhatWasAsked
  <2>6. \A j \in 1..4 : ~ Adds(check'[c], j) /\ ~ Admits(check'[c], j)
    BY <2>2 DEF Adds, Admits
  <2>7. /\ failures' \in 0..MaxFailures /\ window' \in [Key -> SUBSET Entry]
        /\ \A q \in Key : window'[q] \subseteq window[q]
    BY <1>0, <2>1 DEF LimitTypeOK
  <2> QED BY <1>3, <2>1, <2>2, <2>5, <2>6, <2>7, QuietCheck
<1>5. CASE Allows(c)
  <2>a. PICK new : new = NextOf(admitted[k], check[c].now)
    OBVIOUS
  <2>1. /\ check' = [check EXCEPT ![c].pc = "next"]
        /\ admitted' = [admitted EXCEPT ![k] = @ \cup {new}]
        /\ UNCHANGED <<clock, issued, failures, window, asked>>
    BY <1>1, <1>5, <2>a
  <2>2. /\ check' \in [Caller -> CheckState]
        /\ \A o \in Caller \ {c} : check'[o] = check[o]
        /\ check'[c].pc = "next" /\ check'[c].client = check[c].client
        /\ check'[c].dim = check[c].dim
    BY <1>0, <2>1, CheckMoves
  <2>3. Cardinality(admitted[k]) < issued
    <3>1. Admits(check[c], i)
      BY <1>0, <1>b DEF Admits
    <3> QED BY <1>2, <1>a, <1>b, <3>1, RoomForOne
  <2>4. new \in Entry
    BY <1>0, <1>2, <2>3, <2>a, NextEntry
  <2>5. /\ admitted'[k] = admitted[k] \cup {new}
        /\ \A q \in Key \ {k} : admitted'[q] = admitted[q]
        /\ admitted' \in [Key -> SUBSET Entry]
    BY <1>0, <1>2, <2>1, <2>4
  <2>6. LimitTypeOK'
    BY <1>0, <1>3, <2>1, <2>2, <2>5 DEF LimitTypeOK
  <2>7. RequestsAddUp'
    <3> SUFFICES ASSUME NEW q \in Key, NEW j \in 1..4, q[1] = Dimensions[j]
                 PROVE  /\ Cardinality(asked[q]) + Cardinality(ToAdd(j)') <= issued
                        /\ Cardinality(admitted'[q]) + Cardinality(ToAdmit(j)') <= issued
      BY <2>1 DEF RequestsAddUp
    <3>1. /\ Cardinality(asked[q]) + Cardinality(ToAdd(j)) <= issued
          /\ Cardinality(admitted[q]) + Cardinality(ToAdmit(j)) <= issued
      BY DEF LimitIInv, RequestsAddUp
    <3>2. IsFiniteSet(ToAdd(j)) /\ IsFiniteSet(ToAdmit(j))
      BY EntriesAreFinite DEF ToAdd, ToAdmit
    <3>3. ToAdd(j)' \subseteq ToAdd(j) /\ ToAdmit(j)' \subseteq ToAdmit(j)
      BY <1>0, <2>2 DEF ToAdd, ToAdmit, Adds, Admits
    <3>4. /\ Cardinality(ToAdd(j)') <= Cardinality(ToAdd(j))
          /\ Cardinality(ToAdmit(j)') <= Cardinality(ToAdmit(j))
          /\ Cardinality(ToAdd(j)) \in Nat /\ Cardinality(ToAdmit(j)) \in Nat
          /\ Cardinality(ToAdd(j)') \in Nat /\ Cardinality(ToAdmit(j)') \in Nat
      BY <3>2, <3>3, PartIsNotLarger
    <3>5. /\ Cardinality(asked[q]) \in Nat /\ Cardinality(admitted[q]) \in Nat
          /\ IsFiniteSet(admitted[q]) /\ issued \in Nat
      BY <1>0, EntriesAreFinite DEF LimitTypeOK
    <3>6. CASE q = k
      <4>1. j = i
        BY <1>2, <3>6, FourDimensions
      <4>2. c \in ToAdmit(j) /\ ToAdmit(j)' = ToAdmit(j) \ {c}
        BY <1>0, <1>b, <2>2, <4>1 DEF ToAdmit, Admits
      <4>3. Cardinality(ToAdmit(j)') = Cardinality(ToAdmit(j)) - 1
        BY <3>2, <4>2, OneMoreElement
      <4>4. /\ Cardinality(admitted'[q]) <= Cardinality(admitted[q]) + 1
            /\ Cardinality(admitted'[q]) \in Nat
        <5>1. admitted'[q] = admitted[q] \cup {new} /\ admitted'[q] \in SUBSET Entry
          BY <2>5, <3>6
        <5> QED BY <3>5, <5>1, EntriesAreFinite, OneMoreElement
      <4> QED BY <3>1, <3>4, <3>5, <4>3, <4>4
    <3>7. CASE q # k
      BY <2>5, <3>1, <3>4, <3>5, <3>7
    <3> QED BY <3>6, <3>7
  <2>8. EntriesAreNumbered'
    BY <2>1 DEF LimitIInv, EntriesAreNumbered
  <2>9. ASSUME NEW o \in Caller \ {c} PROVE HasKey(o)' /\ CountsWhatWasAsked(o)'
    <3>1. /\ check'[o] = check[o] /\ KeyAt(o)' = KeyAt(o)
          /\ AskedInWindow(o)' = AskedInWindow(o)
      BY <2>1, <2>2, SameWindow
    <3> QED BY <3>1 DEF LimitIInv, HasKey, CountsWhatWasAsked
  <2>10. HasKey(c)' /\ CountsWhatWasAsked(c)'
    BY <1>0, <2>2 DEF HasKey, CountsWhatWasAsked
  <2> QED BY <2>6, <2>7, <2>8, <2>9, <2>10 DEF LimitIInv
<1> QED BY <1>4, <1>5

\* The limiter starts with nothing.
LEMMA LimitInitIInv == LimitInit => LimitIInv
<1> SUFFICES ASSUME LimitInit PROVE LimitIInv
  OBVIOUS
<1>1. NoCheck \in CheckState /\ NoCheck.pc = "idle"
  BY FourDimensions, RateLimitAssumption DEF NoCheck, CheckState
<1>2. \A c \in Caller : check[c] = NoCheck
  BY DEF LimitInit
<1>3. LimitTypeOK
  BY <1>1, RateLimitAssumption DEF LimitInit, LimitTypeOK
<1>4. RequestsAddUp
  <2>1. \A i \in 1..4 : ToAdd(i) = {} /\ ToAdmit(i) = {}
    BY <1>1, <1>2 DEF ToAdd, ToAdmit, Adds, Admits
  <2>2. Cardinality({}) = 0
    BY FS_EmptySet
  <2> QED BY <2>1, <2>2 DEF LimitInit, RequestsAddUp
<1>5. EntriesAreNumbered
  BY DEF LimitInit, EntriesAreNumbered
<1>6. \A c \in Caller : HasKey(c) /\ CountsWhatWasAsked(c)
  BY <1>1, <1>2 DEF HasKey, CountsWhatWasAsked
<1> QED BY <1>3, <1>4, <1>5, <1>6 DEF LimitIInv

\* Nothing happens to the limiter.
LEMMA LimitStutter ==
  ASSUME LimitIInv, UNCHANGED limitVars
  PROVE  LimitIInv'
<1>0. UNCHANGED <<clock, issued, failures, window, expireAt, check, asked, admitted>>
  BY DEF limitVars
<1>1. {} \in SUBSET Caller /\ \A o \in Caller \ {} : check'[o] = check[o]
  BY <1>0
<1>2. /\ check' \in [Caller -> CheckState] /\ failures' \in 0..MaxFailures
      /\ window' \in [Key -> SUBSET Entry] /\ expireAt' \in [Key -> Nat]
      /\ clock' \in 0..MaxClock /\ \A k \in Key : window'[k] \subseteq window[k]
  BY <1>0 DEF LimitIInv, LimitTypeOK
<1> QED BY <1>0, <1>1, <1>2, QuietStep

\* A refusal was earned: the count it rests on was of requests that were made.
LEMMA RefusalsEarned == LimitIInv => RefusalsAreEarned
<1> SUFFICES ASSUME LimitIInv, NEW c \in Caller, check[c].pc = "refused"
             PROVE  Cardinality(AskedInWindow(c)) > Limit[KeyAt(c)[1]]
  BY DEF RefusalsAreEarned, AskedInWindow, WindowStart
<1>1. /\ check[c].count < Cardinality(AskedInWindow(c))
      /\ check[c].count >= Limit[KeyAt(c)[1]] /\ check[c].count \in Nat
  BY DEF LimitIInv, CountsWhatWasAsked, LimitTypeOK, CheckState
<1>2. /\ KeyAt(c) \in Key /\ Limit[KeyAt(c)[1]] \in Nat
  BY KeyOfCheck DEF LimitIInv, HasKey
<1>3. Cardinality(AskedInWindow(c)) \in Nat
  <2>1. AskedInWindow(c) \in SUBSET Entry
    BY <1>2 DEF AskedInWindow, LimitIInv, LimitTypeOK
  <2> QED BY <2>1, EntriesAreFinite
<1> QED BY <1>1, <1>2, <1>3

-------------------------------------------------------------------------------
(* Lists of cards *)

OrdersOf(list) ==
  {o \in [DOMAIN list -> DOMAIN list] : \A i, j \in DOMAIN list : o[i] = o[j] => i = j}

Reordered(list, o) == [i \in DOMAIN list |-> list[o[i]]]

OrderIrrelevant(list) ==
  \A o \in OrdersOf(list) : decideResult(Reordered(list, o)) = decideResult(list)

\* A token that gives a side its card.
IsCard(token, side) ==
  token.first = side /\ token.rest \in DOMAIN CardValue /\ CardValue[token.rest] \in 1..13

\* A token that holds no letter but its first.
LEMMA CardsAreNoNames ==
  DOMAIN CardValue \cap DOMAIN RestLetters = {}
BY DEF CardValue, RestLetters

\* A card that is the only one of its side counts, and no card counts as none.
LEMMA CardAlone ==
  ASSUME NEW list, DOMAIN list = 1..3, NEW side
  PROVE  /\ \A j \in 1..3 :
              IsCard(list[j], side) /\ (\A i \in 1..3 : IsCard(list[i], side) => i = j) =>
                Card(list, side) = CardValue[list[j].rest]
         /\ Card(list, side) = 0 <=> \A i \in 1..3 : ~ IsCard(list[i], side)
<1>1. PICK at : at = {i \in 1..3 : IsCard(list[i], side)}
  OBVIOUS
<1>2. Card(list, side) = IF at = {} THEN 0 ELSE CardValue[list[Max(at)].rest]
  BY <1>1 DEF Card, IsCard
<1>3. at # {} => Max(at) \in at
  BY <1>1, MaxIsGreatest
<1>4. Card(list, side) = 0 <=> \A i \in 1..3 : ~ IsCard(list[i], side)
  <2>1. CASE at = {}
    BY <1>1, <1>2, <2>1
  <2>2. CASE at # {}
    <3>1. IsCard(list[Max(at)], side) /\ Max(at) \in 1..3
      BY <1>1, <1>3, <2>2
    <3>2. Card(list, side) \in 1..13
      BY <1>2, <2>2, <3>1 DEF IsCard
    <3> QED BY <3>1, <3>2
  <2> QED BY <2>1, <2>2
<1>5. ASSUME NEW j \in 1..3, IsCard(list[j], side), \A i \in 1..3 : IsCard(list[i], side) => i = j
      PROVE  Card(list, side) = CardValue[list[j].rest]
  <2>1. at # {} /\ \A i \in at : i = j
    BY <1>1, <1>5
  <2>2. Max(at) = j
    BY <1>3, <2>1
  <2> QED BY <1>2, <2>1, <2>2
<1> QED BY <1>4, <1>5

\* The same for the token that names a result.
LEMMA MarkAlone ==
  ASSUME NEW list, DOMAIN list = 1..3
  PROVE  /\ \A j \in 1..3 :
              list[j].first = "r" /\ (\A i \in 1..3 : list[i].first = "r" => i = j) =>
                Mark(list) = parseResultToken(list[j].rest)
         /\ (\A i \in 1..3 : list[i].first # "r") => Mark(list) = ""
<1>1. PICK at : at = {i \in 1..3 : list[i].first = "r"}
  OBVIOUS
<1>2. Mark(list) = IF at = {} THEN "" ELSE parseResultToken(list[Max(at)].rest)
  BY <1>1 DEF Mark
<1>3. at # {} => Max(at) \in at
  BY <1>1, MaxIsGreatest
<1>4. ASSUME NEW j \in 1..3, list[j].first = "r", \A i \in 1..3 : list[i].first = "r" => i = j
      PROVE  Mark(list) = parseResultToken(list[j].rest)
  <2>1. at # {} /\ \A i \in at : i = j
    BY <1>1, <1>4
  <2>2. Max(at) = j
    BY <1>3, <2>1
  <2> QED BY <1>2, <2>1, <2>2
<1>5. (\A i \in 1..3 : list[i].first # "r") => Mark(list) = ""
  BY <1>1, <1>2
<1> QED BY <1>4, <1>5

\* Every place of three is taken by one place of an order of them.
LEMMA OrderOfThree ==
  ASSUME NEW o \in [1..3 -> 1..3], \A i, j \in 1..3 : o[i] = o[j] => i = j, NEW j \in 1..3
  PROVE  \E i \in 1..3 : o[i] = j
<1>1. 1..3 = {1, 2, 3}
  OBVIOUS
<1>2. /\ o[1] \in {1, 2, 3} /\ o[2] \in {1, 2, 3} /\ o[3] \in {1, 2, 3}
      /\ o[1] # o[2] /\ o[1] # o[3] /\ o[2] # o[3] /\ j \in {1, 2, 3}
  BY <1>1
<1>3. o[1] = j \/ o[2] = j \/ o[3] = j
  BY ONLY <1>2
<1> QED BY <1>1, <1>3

\* A list that passes the validator and has a card of each side has no second card of a
\* side and no second result: a third token holds the letter r.
LEMMA OneTokenEach ==
  ASSUME NEW list, DOMAIN list = 1..3, {"d", "t", "r"} \subseteq Letters(list),
         NEW a \in 1..3, IsCard(list[a], "d"), NEW b \in 1..3, IsCard(list[b], "t")
  PROVE  \A i \in 1..3 : /\ IsCard(list[i], "d") => i = a
                         /\ IsCard(list[i], "t") => i = b
                         /\ list[i].first = "r" => i # a /\ i # b
                         /\ i = a \/ i = b \/ \A j \in 1..3 : j = a \/ j = b \/ j = i
<1>1. PICK r \in 1..3 : list[r].first = "r" \/ list[r].rest \in DOMAIN RestLetters
  BY DEF Letters
<1>2. \A i \in 1..3 : IsCard(list[i], "d") => list[i].first = "d" /\ list[i].rest \notin DOMAIN RestLetters
  BY CardsAreNoNames DEF IsCard
<1>3. \A i \in 1..3 : IsCard(list[i], "t") => list[i].first = "t" /\ list[i].rest \notin DOMAIN RestLetters
  BY CardsAreNoNames DEF IsCard
<1>4. a # b /\ r # a /\ r # b /\ ~ IsCard(list[r], "d") /\ ~ IsCard(list[r], "t")
  <2>1. a # b /\ r # a /\ r # b
    BY <1>1, <1>2, <1>3
  <2>2. list[r].first = "r" => list[r].first \notin {"d", "t"}
    OBVIOUS
  <2> QED BY <1>1, <1>2, <1>3, <2>1, <2>2
<1>5. \A i \in 1..3 : i = a \/ i = b \/ i = r
  BY <1>4
<1> QED BY <1>2, <1>3, <1>4, <1>5

\* What passes the validator decides the same in any order.
LEMMA ValidListsDecide ==
  ASSUME NEW S, NEW list \in Seq(S), IsValidCardList(list)
  PROVE  OrderIrrelevant(list)
<1> SUFFICES ASSUME NEW o \in OrdersOf(list)
             PROVE  decideResult(Reordered(list, o)) = decideResult(list)
  BY DEF OrderIrrelevant
<1>1. Len(list) \in Nat /\ DOMAIN list = 1..Len(list)
  BY LenProperties
<1>2. PICK other : other = Reordered(list, o)
  OBVIOUS
<1>3. /\ DOMAIN other = 1..Len(list) /\ other \in Seq(S)
      /\ \A i \in 1..Len(list) : o[i] \in 1..Len(list) /\ other[i] = list[o[i]]
  <2>1. o \in [1..Len(list) -> 1..Len(list)]
    BY <1>1 DEF OrdersOf
  <2>2. \A i \in 1..Len(list) : list[i] \in S
    BY <1>1, ElementOfSeq
  <2>3. other = [i \in 1..Len(list) |-> list[o[i]]]
    BY <1>1, <1>2 DEF Reordered
  <2>4. other \in [1..Len(list) -> S]
    BY <2>1, <2>2, <2>3
  <2>5. other \in Seq(S)
    BY <1>1, <2>4, SeqDef
  <2>6. DOMAIN other = 1..Len(list)
    BY ONLY <2>4
  <2>7. \A i \in 1..Len(list) : o[i] \in 1..Len(list) /\ other[i] = list[o[i]]
    BY ONLY <2>1, <2>3
  <2> QED BY <2>5, <2>6, <2>7
<1>4. Len(other) = Len(list)
  <2>1. Len(other) \in Nat /\ 1..Len(other) = 1..Len(list)
    BY <1>3, LenProperties
  <2> QED BY <1>1, <2>1
<1>5. CASE Len(list) # 3
  BY <1>2, <1>4, <1>5 DEF decideResult
<1>6. CASE Len(list) = 3
  <2>1. /\ DOMAIN list = 1..3 /\ DOMAIN other = 1..3
        /\ o \in [1..3 -> 1..3] /\ \A i, j \in 1..3 : o[i] = o[j] => i = j
        /\ \A i \in 1..3 : other[i] = list[o[i]]
    BY <1>1, <1>3, <1>6 DEF OrdersOf
  <2>2. \A j \in 1..3 : \E i \in 1..3 : o[i] = j
    BY <2>1, OrderOfThree
  <2>3. \A side : Card(other, side) = 0 <=> Card(list, side) = 0
    <3> SUFFICES ASSUME NEW side PROVE Card(other, side) = 0 <=> Card(list, side) = 0
      OBVIOUS
    <3>1. (\A i \in 1..3 : ~ IsCard(other[i], side)) <=> (\A i \in 1..3 : ~ IsCard(list[i], side))
      BY <2>1, <2>2
    <3> QED BY <2>1, <3>1, CardAlone
  <2>4. CASE Card(list, "d") = 0 \/ Card(list, "t") = 0
    BY <1>2, <2>3, <2>4 DEF decideResult
  <2>5. CASE Card(list, "d") # 0 /\ Card(list, "t") # 0
    <3>1. PICK a \in 1..3, b \in 1..3 : IsCard(list[a], "d") /\ IsCard(list[b], "t")
      BY <2>1, <2>5, CardAlone
    <3>2. {"d", "t", "r"} \subseteq Letters(list)
      BY <1>6 DEF IsValidCardList, IsWord
    <3>3. \A i \in 1..3 : /\ IsCard(list[i], "d") => i = a
                          /\ IsCard(list[i], "t") => i = b
                          /\ list[i].first = "r" => i # a /\ i # b
                          /\ i = a \/ i = b \/ \A j \in 1..3 : j = a \/ j = b \/ j = i
      BY <2>1, <3>1, <3>2, OneTokenEach
    <3>4. ASSUME NEW side, NEW j \in 1..3, IsCard(list[j], side),
                 \A i \in 1..3 : IsCard(list[i], side) => i = j
          PROVE  Card(other, side) = Card(list, side)
      <4>1. PICK h \in 1..3 : o[h] = j
        BY <2>2
      <4>2. other[h] = list[j] /\ IsCard(other[h], side)
        BY <2>1, <3>4, <4>1
      <4>3. \A i \in 1..3 : IsCard(other[i], side) => i = h
        BY <2>1, <3>4, <4>1
      <4>4. Card(other, side) = CardValue[other[h].rest]
        BY <2>1, <4>2, <4>3, CardAlone
      <4>5. Card(list, side) = CardValue[list[j].rest]
        BY <2>1, <3>4, CardAlone
      <4> QED BY <4>2, <4>4, <4>5
    <3>5. Card(other, "d") = Card(list, "d") /\ Card(other, "t") = Card(list, "t")
      BY <3>1, <3>3, <3>4
    <3>6. Mark(other) = Mark(list)
      <4>1. CASE \A i \in 1..3 : list[i].first # "r"
        <5>1. \A i \in 1..3 : other[i].first # "r"
          BY <2>1, <4>1
        <5> QED BY <2>1, <4>1, <5>1, MarkAlone
      <4>2. ASSUME NEW j \in 1..3, list[j].first = "r"
            PROVE  Mark(other) = Mark(list)
        <5>1. \A i \in 1..3 : list[i].first = "r" => i = j
          BY <3>3, <4>2
        <5>2. PICK h \in 1..3 : o[h] = j
          BY <2>2
        <5>3. other[h] = list[j] /\ other[h].first = "r"
          BY <2>1, <4>2, <5>2
        <5>4. \A i \in 1..3 : other[i].first = "r" => i = h
          BY <2>1, <5>1, <5>2
        <5>5. Mark(other) = parseResultToken(other[h].rest)
          BY <2>1, <5>3, <5>4, MarkAlone
        <5>6. Mark(list) = parseResultToken(list[j].rest)
          BY <2>1, <4>2, <5>1, MarkAlone
        <5> QED BY <5>3, <5>5, <5>6
      <4> QED BY <4>1, <4>2
    <3> QED BY <1>2, <1>4, <3>5, <3>6 DEF decideResult
  <2> QED BY <2>4, <2>5
<1> QED BY <1>5, <1>6

-------------------------------------------------------------------------------
(* The gateway's invariant *)

\* A request's record, whatever its fields hold.
Http(Any) == [pc : Any, req : Any, left : Any, data : Any, reply : Any]

HttpShape == \E Any : http \in [Caller -> Http(Any)]

\* The customer that request r stands for under configuration cfg, and what its
\* authentication has asked for.
CustomerOf(r, cfg) ==
  IF cfg.demo THEN [ip |-> r.ip, platform |-> cfg.demoPlatform, user |-> DemoUser(r)]
  ELSE [ip |-> r.ip, platform |-> r.platform, user |-> r.header]

Authentic(r, cfg) ==
  ~ cfg.demo =>
    r.proof = "good" /\ r.platform \in cfg.platforms /\ r.header \notin {"", "malformed"}

\* The filters of a configuration that may since have been set, never those of another one:
\* the demo's are only there when the demo is what was set.
RoutesSound(cfg, rt) ==
  rt # Null =>
    \E bet, event, draw :
      /\ rt = [bet |-> bet, event |-> event, draw |-> draw]
      /\ event \in {<<>>, <<"admin_auth">>} /\ draw \in {<<>>, <<"admin_auth">>}
      /\ \/ bet \in {<<"platform_auth">>, <<"platform_auth", "rate_limit">>}
         \/ /\ cfg # Null /\ cfg.demo
            /\ bet \in {<<"demo_auth">>, <<"demo_auth", "rate_limit">>}

\* An answer says what was done, and a service was called with what it relies on.
AnswerSound(r, reply, cfg) ==
  /\ reply.status = 200 => reply.outcome = "ok"
  /\ reply.status = 202 <=> reply.outcome = "in_flight"
  /\ reply.status = 429 <=> reply.outcome = "limit"
  /\ reply.took /\ r.path # "event" => reply.status \in {200, 500}
  /\ reply.input.valid /\ r.path = "bet" =>
       /\ reply.input.play \in 1..3 /\ Amount[reply.input.amount.core] % 10 = 0
       /\ Amount[reply.input.amount.core] >= 0
       /\ Authentic(r, cfg)
       /\ reply.input.user = [platform |-> CustomerOf(r, cfg).platform,
                              user |-> CustomerOf(r, cfg).user]
  /\ reply.input.valid /\ r.path = "event" =>
       reply.input.event \in 1..5 /\ reply.input.round.core # ""
  /\ reply.input.valid /\ r.path = "draw" => OrderIrrelevant(reply.input.cards)

\* A bet has all its filters in front of it, or its customer is found out; any other
\* request has at most the administrator's.
OnItsWay(h, cfg, rt) ==
  /\ h.req.path = "bet" =>
       \/ h.pc = "filters" /\ h.left = rt.bet
       \/ /\ Authentic(h.req, cfg) /\ h.data = CustomerOf(h.req, cfg)
          /\ h.left = <<"rate_limit">> \/ (h.pc = "filters" /\ h.left = <<>>)
  /\ h.req.path # "bet" => h.pc = "filters" /\ h.left \in {<<>>, <<"admin_auth">>}

Statuses == {0, 200, 202, 400, 401, 403, 404, 409, 429, 500}

RequestSound(h, cfg, rt) ==
  /\ h.pc \in {"idle", "filters", "limiting", "answered"}
  /\ h.data \in Client \cup {Null} /\ h.reply.status \in Statuses
  /\ h.pc # "answered" => h.reply = NoReply
  /\ h.pc # "idle" => cfg \in Config /\ rt # Null /\ h.req \in Offered[cfg]
  /\ h.pc \in {"filters", "limiting"} => OnItsWay(h, cfg, rt)
  /\ h.pc = "answered" => AnswerSound(h.req, h.reply, cfg)

GatewayIInv ==
  /\ LimitIInv
  /\ conf \in Config \cup {Null} /\ RoutesSound(conf, routes)
  /\ HttpShape
  /\ \A c \in Caller : RequestSound(http[c], conf, routes)

-------------------------------------------------------------------------------
(* Requests *)

\* Rows of one and of two filters.
LEMMA FilterRows ==
  /\ \A x, y : <<x>> \o <<y>> = <<x, y>> /\ <<x>> \o <<>> = <<x>>
  /\ \A x, y : Tail(<<x, y>>) = <<y>> /\ Head(<<x, y>>) = x
  /\ \A x : Tail(<<x>>) = <<>> /\ Head(<<x>>) = x
<1>1. \A x, y : <<x>> \o <<y>> = <<x, y>>
  <2> TAKE x, y
  <2> DEFINE u == <<x>> \o <<y>>
             t == <<x, y>>
  <2>1. u \in Seq({x, y}) /\ t \in Seq({x, y}) /\ Len(u) = 2 /\ Len(t) = 2
    OBVIOUS
  <2>2. u[1] = x /\ u[2] = y /\ t[1] = x /\ t[2] = y
    OBVIOUS
  <2> HIDE DEF u, t
  <2>3. \A i \in 1..Len(u) : u[i] = t[i]
    BY <2>1, <2>2
  <2>4. u = t
    BY <2>1, <2>3, SeqEqual
  <2> QED BY <2>4 DEF u, t
<1>2. \A x : <<x>> \o <<>> = <<x>>
  OBVIOUS
<1>3. \A x, y : Tail(<<x, y>>) = <<y>>
  OBVIOUS
<1>4. \A x : Tail(<<x>>) = <<>>
  OBVIOUS
<1>5. \A x, y : Head(<<x, y>>) = x /\ Head(<<x>>) = x
  OBVIOUS
<1> QED BY <1>1, <1>2, <1>3, <1>4, <1>5

\* The customer a request stands for is a client.
LEMMA CustomersAreClients ==
  ASSUME NEW cfg \in Config, NEW r \in Offered[cfg], Authentic(r, cfg)
  PROVE  CustomerOf(r, cfg) \in Client
<1>1. CASE cfg.demo
  <2>1. DemoUser(r) \in {r.header, r.query, "demo_user_001"} \ {""}
    BY DEF DemoUser
  <2> QED BY <1>1, <2>1, GatewayAssumption DEF CustomerOf
<1>2. CASE ~ cfg.demo
  BY <1>2, GatewayAssumption DEF CustomerOf, Authentic
<1> QED BY <1>1, <1>2

\* What the parsers leave of a bet, whoever it is then attributed to.
LEMMA BetInput ==
  ASSUME NEW b, NEW w, ParseAndValidateBet(b).valid
  PROVE  LET p == ParseAndValidateBet(b)
             in == [p EXCEPT !.user = w]
         IN /\ in.user = w
            /\ in.play \in 1..3 /\ Amount[in.amount.core] % 10 = 0
            /\ Amount[in.amount.core] >= 0
<1> DEFINE p == ParseAndValidateBet(b)
           in == [p EXCEPT !.user = w]
<1>1. ~ Invalid.valid
  BY DEF Invalid
<1>2. p = ParseBetFromJSON(b) \/ p = ParseBetFromForm(b)
  BY <1>1 DEF ParseAndValidateBet
<1>3. p.valid /\ ValidateBet(p)
  BY <1>1 DEF ParseAndValidateBet
<1>4. \E game, room, round, user, amount, play, key :
        p = [valid |-> TRUE, game |-> game, room |-> room, round |-> round, user |-> user,
             amount |-> amount, play |-> play, key |-> key]
  BY <1>1, <1>2, <1>3 DEF ParseBetFromJSON, ParseBetFromForm
<1>5. in.user = w /\ in.play = p.play /\ in.amount = p.amount
  <2> HIDE DEF p
  <2> QED BY <1>4
<1>6. p.play \in 1..3 /\ IsMoneyFormat(p.amount)
  BY <1>3 DEF ValidateBet
<1>7. Amount[p.amount.core] % 10 = 0 /\ Amount[p.amount.core] >= 0
  <2> HIDE DEF p
  <2>1. p.amount.core \in {"a0", "a0_01", "a1_5", "a1000000", "a1000001"}
    BY <1>6 DEF IsMoneyFormat
  <2> QED BY <2>1 DEF Amount
<1> QED BY <1>5, <1>6, <1>7

\* The service is only asked to decide lists that passed the validator.
LEMMA DrawInput ==
  ASSUME NEW b, b.cards \in Seq(Range(b.cards)), ParseAndValidateDrawResult(b).valid
  PROVE  OrderIrrelevant(ParseAndValidateDrawResult(b).cards)
<1> DEFINE taken == [valid |-> TRUE, round |-> b.round, cards |-> b.cards]
<1>1. ~ Invalid.valid
  BY DEF Invalid
<1>2. ParseAndValidateDrawResult(b) = ParseDrawResult(b) /\ ValidateDrawResult(ParseDrawResult(b))
  BY <1>1, Zenon DEF ParseAndValidateDrawResult
<1>3. ParseDrawResult(b) = taken
  BY <1>1, <1>2, Zenon DEF ParseDrawResult
<1>4. taken.cards = b.cards
  OBVIOUS
<1>5. IsValidCardList(b.cards)
  BY <1>2, <1>3, <1>4 DEF ValidateDrawResult
<1> QED BY <1>2, <1>3, <1>4, <1>5, ValidListsDecide

\* What the parsers leave of an event; the cut to 8 bits changes nothing.
LEMMA EventInput ==
  ASSUME NEW b, ParseAndValidateGameEvent(b).valid
  PROVE  LET p == ParseAndValidateGameEvent(b)
             in == [p EXCEPT !.event = Int8(@)]
         IN in.event \in 1..5 /\ in.round.core # ""
<1> DEFINE p == ParseAndValidateGameEvent(b)
           in == [p EXCEPT !.event = Int8(@)]
<1>1. ~ Invalid.valid
  BY DEF Invalid
<1>2. p = [valid |-> TRUE, round |-> b.round, event |-> EventNumber(b)] /\ ValidateGameEvent(p)
  BY <1>1 DEF ParseAndValidateGameEvent
<1>3. p.event \in 1..5 /\ p.round.core # ""
  BY <1>2 DEF ValidateGameEvent
<1>4. in.event = Int8(p.event) /\ in.round = p.round
  <2> HIDE DEF p
  <2> QED BY <1>2
<1>5. \A n \in 1..5 : Int8(n) = n
  BY DEF Int8
<1> QED BY <1>3, <1>4, <1>5
-------------------------------------------------------------------------------
(* Steps of the gateway *)

\* A step of one request: the invariant follows from what it makes of the request.
LEMMA RequestStep ==
  ASSUME GatewayIInv, NEW c \in Caller, LimitIInv', UNCHANGED <<conf, routes>>,
         HttpShape', \A o \in Caller \ {c} : http'[o] = http[o],
         RequestSound(http'[c], conf, routes)
  PROVE  GatewayIInv'
BY DEF GatewayIInv

\* What the shapes of a step make of a request.
LEMMA RefuseShape ==
  ASSUME HttpShape, NEW c \in Caller, NEW status, Refuse(c, status)
  PROVE  /\ HttpShape' /\ \A o \in Caller \ {c} : http'[o] = http[o]
         /\ http'[c].pc = "answered" /\ http'[c].req = http[c].req
         /\ http'[c].data = http[c].data
         /\ http'[c].reply.status = status /\ http'[c].reply.outcome = "filter"
         /\ http'[c].reply.took = FALSE /\ http'[c].reply.input = Invalid
<1>1. PICK Any : http \in [Caller -> Http(Any)]
  BY DEF HttpShape
<1> DEFINE reply == [NoReply EXCEPT !.status = status, !.outcome = "filter"]
           More == Any \cup {"answered", reply}
<1>2. /\ reply.status = status /\ reply.outcome = "filter" /\ reply.took = FALSE
      /\ reply.input = Invalid
  BY DEF NoReply
<1>3. http' = [http EXCEPT ![c].pc = "answered", ![c].reply = reply]
  BY DEF Refuse
<1> HIDE DEF reply
<1>4. http' \in [Caller -> Http(More)]
  BY <1>1, <1>3 DEF Http
<1>5. HttpShape'
  <2> HIDE DEF More
  <2> QED BY <1>4 DEF HttpShape
<1>6. /\ \A o \in Caller \ {c} : http'[o] = http[o]
      /\ http'[c].pc = "answered" /\ http'[c].req = http[c].req
      /\ http'[c].data = http[c].data /\ http'[c].reply = reply
  BY <1>1, <1>3 DEF Http
<1> QED BY <1>2, <1>5, <1>6

\* The answer that a controller gives.
ReplyOf(status, outcome, took, input) ==
  [status |-> status, outcome |-> outcome, took |-> took, input |-> input]

\* What an answer makes of a request.
LEMMA AnswerShape ==
  ASSUME HttpShape, NEW c \in Caller, NEW status, NEW outcome, NEW took, NEW input,
         Answer(c, status, outcome, took, input)
  PROVE  /\ HttpShape' /\ \A o \in Caller \ {c} : http'[o] = http[o]
         /\ http'[c].pc = "answered" /\ http'[c].req = http[c].req
         /\ http'[c].data = http[c].data /\ http'[c].reply = ReplyOf(status, outcome, took, input)
<1>1. PICK Any : http \in [Caller -> Http(Any)]
  BY DEF HttpShape
<1> DEFINE reply == ReplyOf(status, outcome, took, input)
           More == Any \cup {"answered", reply}
<1>2. http' = [http EXCEPT ![c].pc = "answered", ![c].reply = reply]
  BY DEF Answer, ReplyOf
<1> HIDE DEF reply
<1>3. http' \in [Caller -> Http(More)]
  BY <1>1, <1>2 DEF Http
<1>4. HttpShape'
  <2> HIDE DEF More
  <2> QED BY <1>3 DEF HttpShape
<1>5. /\ \A o \in Caller \ {c} : http'[o] = http[o]
      /\ http'[c].pc = "answered" /\ http'[c].req = http[c].req
      /\ http'[c].data = http[c].data /\ http'[c].reply = reply
  BY <1>1, <1>2 DEF Http
<1> QED BY <1>4, <1>5 DEF reply

\* What a filter that lets a request pass makes of it.
LEMMA PassShape ==
  ASSUME HttpShape, NEW c \in Caller, NEW data, PassFilter(c, data)
  PROVE  /\ HttpShape' /\ \A o \in Caller \ {c} : http'[o] = http[o]
         /\ http'[c].pc = http[c].pc /\ http'[c].req = http[c].req
         /\ http'[c].left = Tail(http[c].left) /\ http'[c].data = data
         /\ http'[c].reply = http[c].reply
<1>1. PICK Any : http \in [Caller -> Http(Any)]
  BY DEF HttpShape
<1> DEFINE More == Any \cup {Tail(http[c].left), data}
<1>2. http' = [http EXCEPT ![c].left = Tail(@), ![c].data = data]
  BY DEF PassFilter
<1>3. http' \in [Caller -> Http(More)]
  BY <1>1, <1>2 DEF Http
<1>4. HttpShape'
  <2> HIDE DEF More
  <2> QED BY <1>3 DEF HttpShape
<1>5. /\ \A o \in Caller \ {c} : http'[o] = http[o]
      /\ http'[c].pc = http[c].pc /\ http'[c].req = http[c].req
      /\ http'[c].left = Tail(http[c].left) /\ http'[c].data = data
      /\ http'[c].reply = http[c].reply
  BY <1>1, <1>2 DEF Http
<1> QED BY <1>4, <1>5

\* A refusal by a filter is sound whatever the request was.
LEMMA RefusalStep ==
  ASSUME GatewayIInv, NEW c \in Caller, http[c].pc = "filters", NEW status \in {400, 401, 403, 500},
         Refuse(c, status)
  PROVE  GatewayIInv'
<1>0. RequestSound(http[c], conf, routes) /\ HttpShape /\ UNCHANGED <<limitVars, conf, routes>>
  BY DEF GatewayIInv, Refuse
<1>1. /\ HttpShape' /\ \A o \in Caller \ {c} : http'[o] = http[o]
      /\ http'[c].pc = "answered" /\ http'[c].req = http[c].req
      /\ http'[c].data = http[c].data
      /\ http'[c].reply.status = status /\ http'[c].reply.outcome = "filter"
      /\ http'[c].reply.took = FALSE /\ http'[c].reply.input = Invalid
  BY ZenonT(60), <1>0, RefuseShape
<1>2. AnswerSound(http'[c].req, http'[c].reply, conf)
  BY <1>1 DEF AnswerSound, Invalid
<1>3. RequestSound(http'[c], conf, routes)
  BY <1>0, <1>1, <1>2 DEF RequestSound, Statuses
<1>4. LimitIInv'
  BY <1>0, LimitStutter DEF GatewayIInv
<1> QED BY <1>0, <1>1, <1>3, <1>4, RequestStep

\* What the next filter of a request says of the request.
LEMMA NextFilter ==
  ASSUME GatewayIInv, NEW c \in Caller, NEW filter, Before(c, filter)
  PROVE  LET h == http[c] IN
         /\ h.pc = "filters" /\ conf \in Config /\ routes # Null /\ h.req \in Offered[conf]
         /\ h.reply = NoReply
         /\ filter \in {"demo_auth", "platform_auth"} =>
              /\ h.req.path = "bet" /\ Tail(h.left) \in {<<>>, <<"rate_limit">>}
              /\ filter = "demo_auth" => conf # Null /\ conf.demo
         /\ filter = "rate_limit" =>
              /\ h.req.path = "bet" /\ h.left = <<"rate_limit">>
              /\ Authentic(h.req, conf) /\ h.data = CustomerOf(h.req, conf)
         /\ filter = "admin_auth" => h.req.path # "bet" /\ Tail(h.left) = <<>>
<1> DEFINE h == http[c]
<1>1. /\ h.pc = "filters" /\ h.left # <<>> /\ Head(h.left) = filter
      /\ RequestSound(h, conf, routes) /\ RoutesSound(conf, routes)
  BY DEF GatewayIInv, Before
<1>2. /\ conf \in Config /\ routes # Null /\ h.req \in Offered[conf] /\ h.reply = NoReply
      /\ OnItsWay(h, conf, routes)
  BY <1>1 DEF RequestSound
<1>3. CASE h.req.path # "bet"
  <2>1. h.left = <<"admin_auth">>
    BY <1>1, <1>2, <1>3 DEF OnItsWay
  <2>2. filter = "admin_auth" /\ Tail(h.left) = <<>>
    BY <1>1, <2>1, FilterRows
  <2> QED BY <1>1, <1>2, <1>3, <2>2
<1>4. CASE h.req.path = "bet" /\ h.left = <<"rate_limit">>
           /\ Authentic(h.req, conf) /\ h.data = CustomerOf(h.req, conf)
  <2>1. filter = "rate_limit"
    BY <1>1, <1>4, FilterRows
  <2> QED BY <1>1, <1>2, <1>4, <2>1
<1>5. CASE h.req.path = "bet" /\ h.left = routes.bet
  <2>1. PICK bet, event, draw :
          /\ routes = [bet |-> bet, event |-> event, draw |-> draw]
          /\ \/ bet \in {<<"platform_auth">>, <<"platform_auth", "rate_limit">>}
             \/ /\ conf # Null /\ conf.demo
                /\ bet \in {<<"demo_auth">>, <<"demo_auth", "rate_limit">>}
    BY <1>1, <1>2 DEF RoutesSound
  <2>2. h.left = bet
    BY <1>5, <2>1
  <2>3. Tail(bet) \in {<<>>, <<"rate_limit">>}
    BY <2>1, FilterRows
  <2>4. CASE bet \in {<<"platform_auth">>, <<"platform_auth", "rate_limit">>}
    <3>1. filter = "platform_auth"
      BY <1>1, <2>2, <2>4, FilterRows
    <3> QED BY <1>1, <1>2, <1>5, <2>2, <2>3, <3>1
  <2>5. CASE conf # Null /\ conf.demo /\ bet \in {<<"demo_auth">>, <<"demo_auth", "rate_limit">>}
    <3>1. filter = "demo_auth"
      BY <1>1, <2>2, <2>5, FilterRows
    <3> QED BY <1>1, <1>2, <1>5, <2>2, <2>3, <2>5, <3>1
  <2> QED BY <2>1, <2>4, <2>5
<1>6. \/ h.req.path # "bet" \/ h.left = routes.bet
      \/ /\ h.left = <<"rate_limit">>
         /\ Authentic(h.req, conf) /\ h.data = CustomerOf(h.req, conf)
  BY <1>1, <1>2 DEF OnItsWay
<1> QED BY <1>3, <1>4, <1>5, <1>6

\* A filter that lets a request through: authentication leaves the customer.
LEMMA PassStep ==
  ASSUME GatewayIInv, NEW c \in Caller, NEW filter \in {"demo_auth", "platform_auth", "admin_auth"},
         Before(c, filter), NEW data, PassFilter(c, data),
         filter = "admin_auth" => data = http[c].data,
         filter # "admin_auth" => /\ Authentic(http[c].req, conf)
                                  /\ data = CustomerOf(http[c].req, conf)
  PROVE  GatewayIInv'
<1>0. RequestSound(http[c], conf, routes) /\ HttpShape /\ UNCHANGED <<limitVars, conf, routes>>
  BY DEF GatewayIInv, PassFilter
<1>1. /\ http[c].pc = "filters" /\ conf \in Config /\ routes # Null
      /\ http[c].req \in Offered[conf] /\ http[c].reply = NoReply
      /\ filter # "admin_auth" =>
           http[c].req.path = "bet" /\ Tail(http[c].left) \in {<<>>, <<"rate_limit">>}
      /\ filter = "admin_auth" => http[c].req.path # "bet" /\ Tail(http[c].left) = <<>>
  BY NextFilter
<1>2. /\ HttpShape' /\ \A o \in Caller \ {c} : http'[o] = http[o]
      /\ http'[c].pc = http[c].pc /\ http'[c].req = http[c].req
      /\ http'[c].left = Tail(http[c].left) /\ http'[c].data = data
      /\ http'[c].reply = http[c].reply
  BY <1>0, PassShape
<1>3. data \in Client \cup {Null}
  BY <1>0, <1>1, CustomersAreClients DEF RequestSound
<1>4. OnItsWay(http'[c], conf, routes)
  BY <1>1, <1>2 DEF OnItsWay
<1>5. RequestSound(http'[c], conf, routes)
  BY <1>0, <1>1, <1>2, <1>3, <1>4 DEF RequestSound
<1>6. LimitIInv'
  BY <1>0, LimitStutter DEF GatewayIInv
<1> QED BY <1>0, <1>2, <1>5, <1>6, RequestStep

\* Authentication and the administrator's filter.
LEMMA AuthStep ==
  ASSUME GatewayIInv, NEW c \in Caller,
         DemoAuthFilter(c) \/ PlatformAuthFilter(c) \/ AdminAuthFilter(c)
  PROVE  GatewayIInv'
<1> DEFINE r == http[c].req
<1>1. CASE DemoAuthFilter(c)
  <2>1. Before(c, "demo_auth")
    BY <1>1 DEF DemoAuthFilter
  <2>2. conf # Null /\ conf.demo
    BY <2>1, NextFilter
  <2>3. PassFilter(c, CustomerOf(r, conf)) /\ Authentic(r, conf)
    BY <1>1, <2>2 DEF DemoAuthFilter, DemoData, CustomerOf, Authentic
  <2> QED BY <2>1, <2>3, PassStep
<1>2. CASE PlatformAuthFilter(c)
  <2>1. Before(c, "platform_auth")
    BY <1>2 DEF PlatformAuthFilter
  <2>2. http[c].pc = "filters"
    BY <2>1, NextFilter
  <2>3. CASE Refuse(c, 400) \/ Refuse(c, 401) \/ Refuse(c, 403) \/ Refuse(c, 500)
    <3>1. PICK status \in {400, 401, 403, 500} : Refuse(c, status)
      BY <2>3
    <3> QED BY <2>2, <3>1, RefusalStep
  <2>4. CASE conf.demo /\ PassFilter(c, DemoData(r))
    <3>1. PassFilter(c, CustomerOf(r, conf)) /\ Authentic(r, conf)
      BY <2>4 DEF DemoData, CustomerOf, Authentic
    <3> QED BY <2>1, <3>1, PassStep
  <2>5. CASE /\ ~ conf.demo /\ VerifyPlatformSignature(r) = "good"
             /\ r.header \notin {"", "malformed"}
             /\ PassFilter(c, [ip |-> r.ip, platform |-> r.platform, user |-> r.header])
    <3>1. Authentic(r, conf)
      BY <2>5 DEF VerifyPlatformSignature, Authentic
    <3>2. PassFilter(c, CustomerOf(r, conf))
      BY <2>5 DEF CustomerOf
    <3> QED BY <2>1, <3>1, <3>2, PassStep
  <2>6. \/ Refuse(c, 400) \/ Refuse(c, 401) \/ Refuse(c, 403) \/ Refuse(c, 500)
        \/ conf.demo /\ PassFilter(c, DemoData(r))
        \/ /\ ~ conf.demo /\ VerifyPlatformSignature(r) = "good"
           /\ r.header \notin {"", "malformed"}
           /\ PassFilter(c, [ip |-> r.ip, platform |-> r.platform, user |-> r.header])
    BY <1>2, Zenon DEF PlatformAuthFilter
  <2> HIDE DEF r
  <2> QED BY <2>3, <2>4, <2>5, <2>6
<1>3. CASE AdminAuthFilter(c)
  <2>1. Before(c, "admin_auth")
    BY <1>3 DEF AdminAuthFilter
  <2>2. http[c].pc = "filters"
    BY <2>1, NextFilter
  <2>3. CASE Refuse(c, 401)
    BY <2>2, <2>3, RefusalStep
  <2>4. CASE PassFilter(c, http[c].data)
    BY <2>1, <2>4, PassStep
  <2> QED BY <1>3, <2>3, <2>4 DEF AdminAuthFilter
<1> QED BY <1>1, <1>2, <1>3

\* Into the limiter, which checks the customer that authentication has found out.
LEMMA EnterLimiterStep ==
  ASSUME GatewayIInv, NEW c \in Caller, EnterLimiter(c)
  PROVE  GatewayIInv'
<1>1. /\ Before(c, "rate_limit") /\ Enter(c, Sender(c))
      /\ http' = [http EXCEPT ![c].pc = "limiting"] /\ UNCHANGED <<conf, routes>>
  BY DEF EnterLimiter
<1>2. /\ conf \in Config /\ http[c].req \in Offered[conf] /\ http[c].req.path = "bet"
      /\ http[c].left = <<"rate_limit">> /\ http[c].reply = NoReply /\ routes # Null
      /\ Authentic(http[c].req, conf) /\ http[c].data = CustomerOf(http[c].req, conf)
  BY <1>1, NextFilter
<1>3. Sender(c) \in Client
  BY ZenonT(60), <1>2, CustomersAreClients, GatewayAssumption DEF Sender
<1>4. LimitIInv'
  BY <1>1, <1>3, EnterStep DEF GatewayIInv
<1>5. PICK Any : http \in [Caller -> Http(Any)]
  BY DEF GatewayIInv, HttpShape
<1> DEFINE More == Any \cup {"limiting"}
<1>6. http' \in [Caller -> Http(More)]
  BY <1>1, <1>5 DEF Http
<1>7. HttpShape'
  <2> HIDE DEF More
  <2> QED BY <1>6 DEF HttpShape
<1>8. /\ \A o \in Caller \ {c} : http'[o] = http[o]
      /\ http'[c].pc = "limiting" /\ http'[c].req = http[c].req
      /\ http'[c].left = http[c].left /\ http'[c].data = http[c].data
      /\ http'[c].reply = http[c].reply
  BY <1>1, <1>5 DEF Http
<1>9. OnItsWay(http'[c], conf, routes)
  BY <1>2, <1>8 DEF OnItsWay
<1>10. RequestSound(http[c], conf, routes)
  BY DEF GatewayIInv
<1>11. RequestSound(http'[c], conf, routes)
  BY <1>2, <1>8, <1>9, <1>10 DEF RequestSound
<1> QED BY <1>1, <1>4, <1>7, <1>8, <1>11, RequestStep

\* Out of it: no filter is left, or the request is answered with 429.
LEMMA LeaveLimiterStep ==
  ASSUME GatewayIInv, NEW c \in Caller, LeaveLimiter(c)
  PROVE  GatewayIInv'
<1>0. RequestSound(http[c], conf, routes) /\ http[c].pc = "limiting" /\ Leave(c)
      /\ UNCHANGED <<conf, routes>>
  BY DEF GatewayIInv, LeaveLimiter
<1>1. /\ http[c].reply = NoReply /\ OnItsWay(http[c], conf, routes) /\ routes # Null
      /\ conf \in Config /\ http[c].req \in Offered[conf]
  BY <1>0 DEF RequestSound
<1>2. /\ http[c].req.path = "bet" /\ http[c].left = <<"rate_limit">>
      /\ Authentic(http[c].req, conf) /\ http[c].data = CustomerOf(http[c].req, conf)
  BY <1>0, <1>1 DEF OnItsWay
<1>3. LimitIInv'
  BY <1>0, CheckStep DEF GatewayIInv
<1>4. PICK Any : http \in [Caller -> Http(Any)]
  BY DEF GatewayIInv, HttpShape
<1> DEFINE reply == [NoReply EXCEPT !.status = 429, !.outcome = "limit"]
           More == Any \cup {"filters", "answered", Tail(http[c].left), reply}
<1>5. /\ reply.status = 429 /\ reply.outcome = "limit" /\ reply.took = FALSE
      /\ reply.input = Invalid
  BY DEF NoReply
<1>6. \/ http' = [http EXCEPT ![c].pc = "filters", ![c].left = Tail(@)]
      \/ http' = [http EXCEPT ![c].pc = "answered", ![c].reply = reply]
  BY DEF LeaveLimiter
<1> HIDE DEF reply
<1>7. http' \in [Caller -> Http(More)] /\ \A o \in Caller \ {c} : http'[o] = http[o]
  BY <1>4, <1>6 DEF Http
<1>8. HttpShape'
  <2> HIDE DEF More
  <2> QED BY <1>7 DEF HttpShape
<1>9. CASE http' = [http EXCEPT ![c].pc = "filters", ![c].left = Tail(@)]
  <2>1. /\ http'[c].pc = "filters" /\ http'[c].req = http[c].req
        /\ http'[c].left = Tail(http[c].left) /\ http'[c].data = http[c].data
        /\ http'[c].reply = http[c].reply
    BY <1>4, <1>9 DEF Http
  <2>2. http'[c].left = <<>>
    BY <1>2, <2>1, FilterRows
  <2>3. OnItsWay(http'[c], conf, routes)
    BY <1>2, <2>1, <2>2 DEF OnItsWay
  <2>4. RequestSound(http'[c], conf, routes)
    BY <1>0, <1>1, <2>1, <2>3 DEF RequestSound
  <2> QED BY <1>0, <1>3, <1>7, <1>8, <2>4, RequestStep
<1>10. CASE http' = [http EXCEPT ![c].pc = "answered", ![c].reply = reply]
  <2>1. /\ http'[c].pc = "answered" /\ http'[c].req = http[c].req
        /\ http'[c].data = http[c].data /\ http'[c].reply = reply
    BY <1>4, <1>10 DEF Http
  <2>2. AnswerSound(http[c].req, reply, conf)
    BY <1>5 DEF AnswerSound, Invalid
  <2>3. RequestSound(http'[c], conf, routes)
    BY <1>0, <1>1, <1>5, <2>1, <2>2 DEF RequestSound, Statuses
  <2> QED BY <1>0, <1>3, <1>7, <1>8, <2>3, RequestStep
<1> QED BY <1>6, <1>9, <1>10

\* A controller's answer.
LEMMA AnswerStep ==
  ASSUME GatewayIInv, NEW c \in Caller, http[c].pc = "filters",
         NEW status \in Statuses, NEW outcome, NEW took, NEW input,
         Answer(c, status, outcome, took, input),
         AnswerSound(http[c].req, ReplyOf(status, outcome, took, input), conf)
  PROVE  GatewayIInv'
<1>0. RequestSound(http[c], conf, routes) /\ HttpShape /\ UNCHANGED <<limitVars, conf, routes>>
  BY DEF GatewayIInv, Answer
<1>1. /\ HttpShape' /\ \A o \in Caller \ {c} : http'[o] = http[o]
      /\ http'[c].pc = "answered" /\ http'[c].req = http[c].req
      /\ http'[c].data = http[c].data /\ http'[c].reply = ReplyOf(status, outcome, took, input)
  BY <1>0, AnswerShape
<1>2. ReplyOf(status, outcome, took, input).status = status
  BY DEF ReplyOf
<1>3. RequestSound(http'[c], conf, routes)
  BY <1>0, <1>1, <1>2 DEF RequestSound
<1>4. LimitIInv'
  BY <1>0, LimitStutter DEF GatewayIInv
<1> QED BY <1>0, <1>1, <1>3, <1>4, RequestStep

\* A body that does not pass is answered with 400.
LEMMA BadBodyStep ==
  ASSUME GatewayIInv, NEW c \in Caller, http[c].pc = "filters", BadBody(c)
  PROVE  GatewayIInv'
<1>1. PICK reply : reply = ReplyOf(400, "body", FALSE, Invalid)
  OBVIOUS
<1>2. /\ reply.status = 400 /\ reply.outcome = "body" /\ reply.took = FALSE
      /\ reply.input = Invalid
  BY <1>1 DEF ReplyOf
<1>3. AnswerSound(http[c].req, reply, conf)
  BY <1>2 DEF AnswerSound, Invalid
<1>4. Answer(c, 400, "body", FALSE, Invalid)
  BY Zenon DEF BadBody
<1>5. 400 \in Statuses
  BY DEF Statuses
<1> QED BY ZenonT(60), <1>1, <1>3, <1>4, <1>5, AnswerStep

\* A controller runs when no filter is left; a bet's customer is found out by then.
LEMMA Controlled ==
  ASSUME GatewayIInv, NEW c \in Caller, NEW path, AtController(c, path)
  PROVE  /\ http[c].pc = "filters" /\ http[c].req.path = path
         /\ conf \in Config /\ http[c].req \in Offered[conf]
         /\ path = "bet" =>
              /\ Authentic(http[c].req, conf) /\ http[c].data = CustomerOf(http[c].req, conf)
              /\ http[c].data # Null
<1>1. /\ http[c].pc = "filters" /\ http[c].req.path = path /\ http[c].left = <<>>
      /\ RequestSound(http[c], conf, routes) /\ RoutesSound(conf, routes)
  BY DEF GatewayIInv, AtController
<1>2. /\ conf \in Config /\ http[c].req \in Offered[conf] /\ routes # Null
      /\ OnItsWay(http[c], conf, routes)
  BY <1>1 DEF RequestSound
<1>3. routes.bet # <<>>
  <2>1. PICK bet, event, draw :
          /\ routes = [bet |-> bet, event |-> event, draw |-> draw]
          /\ bet \in {<<"platform_auth">>, <<"platform_auth", "rate_limit">>,
                      <<"demo_auth">>, <<"demo_auth", "rate_limit">>}
    BY <1>1, <1>2 DEF RoutesSound
  <2>2. bet # <<>>
    BY <2>1
  <2> QED BY <2>1, <2>2
<1>4. path = "bet" =>
        Authentic(http[c].req, conf) /\ http[c].data = CustomerOf(http[c].req, conf)
  BY <1>1, <1>2, <1>3 DEF OnItsWay
<1> QED BY ZenonT(60), <1>1, <1>2, <1>4, CustomersAreClients, GatewayAssumption

\* What the services may answer, and the statuses that follow.
LEMMA BetAnswers ==
  ASSUME NEW p, NEW answer \in PlaceBet(p)
  PROVE  /\ BetStatus(answer[1]) \in Statuses
         /\ BetStatus(answer[1]) = 200 => answer[1] = "ok"
         /\ BetStatus(answer[1]) = 202 <=> answer[1] = "in_flight"
         /\ BetStatus(answer[1]) # 429 /\ answer[1] # "limit"
         /\ answer[2] \in BOOLEAN
         /\ answer[2] = TRUE => BetStatus(answer[1]) \in {200, 500}
<1> DEFINE Open == {"ok", "failed"} \X BOOLEAN
           Refused == {"in_flight", "duplicate", "state", "refused"} \X {FALSE}
<1>1. answer = <<"amount", FALSE>> \/ answer \in Open \/ answer \in Refused
  BY Zenon DEF PlaceBet
<1>2. \/ answer[1] \in {"ok", "failed"} /\ answer[2] \in BOOLEAN
      \/ answer[1] \in {"amount", "in_flight", "duplicate", "state", "refused"} /\ answer[2] = FALSE
  <2>1. CASE answer = <<"amount", FALSE>>
    BY <2>1
  <2>2. CASE answer \in Open
    <3>1. answer[1] \in {"ok", "failed"} /\ answer[2] \in BOOLEAN
      BY <2>2
    <3> QED BY <3>1
  <2>3. CASE answer \in Refused
    <3>1. answer[1] \in {"in_flight", "duplicate", "state", "refused"} /\ answer[2] \in {FALSE}
      BY <2>3
    <3> QED BY <3>1
  <2> QED BY <1>1, <2>1, <2>2, <2>3
<1>3. /\ BetStatus(answer[1]) \in Statuses
      /\ BetStatus(answer[1]) = 200 => answer[1] = "ok"
      /\ BetStatus(answer[1]) = 202 <=> answer[1] = "in_flight"
      /\ BetStatus(answer[1]) # 429 /\ answer[1] # "limit"
      /\ answer[1] \in {"ok", "failed"} => BetStatus(answer[1]) \in {200, 500}
  <2>1. PICK outcome : outcome = answer[1]
    OBVIOUS
  <2> QED BY <1>2, <2>1 DEF BetStatus, Statuses
<1>4. answer[2] \in BOOLEAN
  BY <1>2
<1>5. answer[2] = TRUE => answer[1] \in {"ok", "failed"}
  BY <1>2
<1> QED BY <1>3, <1>4, <1>5

\* The same for an event, whose every failure is answered as an illegal state.
LEMMA EventAnswers ==
  ASSUME NEW answer \in ({"ok", "failed"} \X BOOLEAN) \cup {<<"state", FALSE>>}
  PROVE  /\ EventStatus(answer[1]) \in Statuses
         /\ EventStatus(answer[1]) = 200 => answer[1] = "ok"
         /\ EventStatus(answer[1]) # 202 /\ answer[1] # "in_flight"
         /\ EventStatus(answer[1]) # 429 /\ answer[1] # "limit"
<1>1. answer[1] \in {"ok", "failed", "state"}
  <2>1. CASE answer \in {"ok", "failed"} \X BOOLEAN
    <3>1. answer[1] \in {"ok", "failed"}
      BY <2>1
    <3> QED BY <3>1
  <2>2. CASE answer = <<"state", FALSE>>
    BY <2>2
  <2>3. answer \in {"ok", "failed"} \X BOOLEAN \/ answer = <<"state", FALSE>>
    BY Zenon
  <2> QED BY <2>1, <2>2, <2>3
<1> QED BY <1>1 DEF EventStatus, Statuses

DrawAnswerSound(answer) ==
  /\ DrawStatus(answer[1]) \in Statuses
  /\ DrawStatus(answer[1]) = 200 => answer[1] = "ok"
  /\ DrawStatus(answer[1]) # 202 /\ answer[1] # "in_flight"
  /\ DrawStatus(answer[1]) # 429 /\ answer[1] # "limit"
  /\ answer[2] \in BOOLEAN
  /\ answer[2] = TRUE => DrawStatus(answer[1]) \in {200, 500}

\* The draw result service gives no answer but those.
LEMMA DrawAnswers ==
  ASSUME NEW p, NEW answer \in SubmitDrawResult(p)
  PROVE  DrawAnswerSound(answer)
<1> DEFINE Open == {"ok", "failed"} \X BOOLEAN
           Refused == {"state", "no_round"} \X {FALSE}
<1>1. answer = <<"cards", FALSE>> \/ answer \in Open \/ answer \in Refused
  BY Zenon DEF SubmitDrawResult
<1>2. \/ answer[1] \in {"ok", "failed"} /\ answer[2] \in BOOLEAN
      \/ answer[1] \in {"cards", "state", "no_round"} /\ answer[2] = FALSE
  <2>1. CASE answer = <<"cards", FALSE>>
    BY <2>1
  <2>2. CASE answer \in Open
    <3>1. answer[1] \in {"ok", "failed"} /\ answer[2] \in BOOLEAN
      BY <2>2
    <3> QED BY <3>1
  <2>3. CASE answer \in Refused
    <3>1. answer[1] \in {"state", "no_round"} /\ answer[2] \in {FALSE}
      BY <2>3
    <3> QED BY <3>1
  <2> QED BY <1>1, <2>1, <2>2, <2>3
<1>3. /\ DrawStatus(answer[1]) \in Statuses
      /\ DrawStatus(answer[1]) = 200 => answer[1] = "ok"
      /\ DrawStatus(answer[1]) # 202 /\ answer[1] # "in_flight"
      /\ DrawStatus(answer[1]) # 429 /\ answer[1] # "limit"
      /\ answer[1] \in {"ok", "failed"} => DrawStatus(answer[1]) \in {200, 500}
  <2>1. PICK outcome : outcome = answer[1]
    OBVIOUS
  <2> QED BY <1>2, <2>1 DEF DrawStatus, Statuses
<1>4. answer[2] \in BOOLEAN
  BY <1>2
<1>5. answer[2] = TRUE => answer[1] \in {"ok", "failed"}
  BY <1>2
<1> QED BY <1>3, <1>4, <1>5 DEF DrawAnswerSound

\* A bet gets to its service.
LEMMA BetStep ==
  ASSUME GatewayIInv, NEW c \in Caller, Bet(c)
  PROVE  GatewayIInv'
<1>1. AtController(c, "bet")
  BY DEF Bet
<1>2. /\ http[c].pc = "filters" /\ http[c].req.path = "bet"
      /\ Authentic(http[c].req, conf) /\ http[c].data = CustomerOf(http[c].req, conf)
      /\ http[c].data # Null
  BY <1>1, Controlled
<1>3. CASE BadBody(c)
  BY <1>2, <1>3, BadBodyStep
<1>4. ASSUME NEW b, ParseAndValidateBet(b).valid, NEW answer \in PlaceBet(ParseAndValidateBet(b)),
             Answer(c, BetStatus(answer[1]), answer[1], answer[2],
                    [ParseAndValidateBet(b) EXCEPT !.user =
                       Attributed(ParseAndValidateBet(b), http[c].data)])
      PROVE  GatewayIInv'
  <2> DEFINE w == Attributed(ParseAndValidateBet(b), http[c].data)
             in == [ParseAndValidateBet(b) EXCEPT !.user = w]
             reply == ReplyOf(BetStatus(answer[1]), answer[1], answer[2], in)
  <2>1. w = [platform |-> CustomerOf(http[c].req, conf).platform,
             user |-> CustomerOf(http[c].req, conf).user]
    BY <1>2 DEF Attributed
  <2>2. /\ in.user = w /\ in.play \in 1..3
        /\ Amount[in.amount.core] % 10 = 0 /\ Amount[in.amount.core] >= 0
    <3> HIDE DEF w
    <3> QED BY <1>4, BetInput
  <2>3. /\ BetStatus(answer[1]) \in Statuses
        /\ BetStatus(answer[1]) = 200 => answer[1] = "ok"
        /\ BetStatus(answer[1]) = 202 <=> answer[1] = "in_flight"
        /\ BetStatus(answer[1]) # 429 /\ answer[1] # "limit"
        /\ answer[2] \in BOOLEAN
        /\ answer[2] = TRUE => BetStatus(answer[1]) \in {200, 500}
    BY ZenonT(60), <1>4, BetAnswers
  <2>4. /\ reply.status = BetStatus(answer[1]) /\ reply.outcome = answer[1]
        /\ reply.took = answer[2] /\ reply.input = in
    BY DEF ReplyOf
  <2>5. Answer(c, BetStatus(answer[1]), answer[1], answer[2], in)
    BY <1>4
  <2> HIDE DEF w, in, reply
  <2>6. AnswerSound(http[c].req, reply, conf)
    BY <1>2, <2>1, <2>2, <2>3, <2>4 DEF AnswerSound
  <2> QED BY <1>2, <2>3, <2>5, <2>6, AnswerStep DEF reply
<1>5. \/ BadBody(c)
      \/ \E b : /\ ParseAndValidateBet(b).valid
                /\ \E answer \in PlaceBet(ParseAndValidateBet(b)) :
                     Answer(c, BetStatus(answer[1]), answer[1], answer[2],
                            [ParseAndValidateBet(b) EXCEPT !.user =
                               Attributed(ParseAndValidateBet(b), http[c].data)])
  BY DEF Bet
<1> QED BY <1>3, <1>4, <1>5

\* An event gets to its service.
LEMMA EventStep ==
  ASSUME GatewayIInv, NEW c \in Caller, GameEvent(c)
  PROVE  GatewayIInv'
<1> DEFINE Answers == ({"ok", "failed"} \X BOOLEAN) \cup {<<"state", FALSE>>}
<1>1. AtController(c, "event")
  BY DEF GameEvent
<1>2. http[c].pc = "filters" /\ http[c].req.path = "event"
  BY <1>1, Controlled
<1>3. CASE BadBody(c)
  BY <1>2, <1>3, BadBodyStep
<1>4. ASSUME NEW b, ParseAndValidateGameEvent(b).valid, NEW answer \in Answers,
             Answer(c, EventStatus(answer[1]), answer[1], answer[2],
                    [ParseAndValidateGameEvent(b) EXCEPT !.event = Int8(@)])
      PROVE  GatewayIInv'
  <2> DEFINE in == [ParseAndValidateGameEvent(b) EXCEPT !.event = Int8(@)]
             reply == ReplyOf(EventStatus(answer[1]), answer[1], answer[2], in)
  <2>1. in.event \in 1..5 /\ in.round.core # ""
    BY <1>4, EventInput
  <2>2. /\ EventStatus(answer[1]) \in Statuses
        /\ EventStatus(answer[1]) = 200 => answer[1] = "ok"
        /\ EventStatus(answer[1]) # 202 /\ answer[1] # "in_flight"
        /\ EventStatus(answer[1]) # 429 /\ answer[1] # "limit"
    BY <1>4, EventAnswers
  <2>3. /\ reply.status = EventStatus(answer[1]) /\ reply.outcome = answer[1]
        /\ reply.took = answer[2] /\ reply.input = in
    BY DEF ReplyOf
  <2>4. Answer(c, EventStatus(answer[1]), answer[1], answer[2], in)
    BY <1>4
  <2> HIDE DEF in, reply
  <2>5. AnswerSound(http[c].req, reply, conf)
    <3>1. ~ (http[c].req.path # "event") /\ ~ (http[c].req.path = "bet")
      BY <1>2
    <3>2. /\ reply.status = 200 => reply.outcome = "ok"
          /\ reply.status = 202 <=> reply.outcome = "in_flight"
          /\ reply.status = 429 <=> reply.outcome = "limit"
      BY <2>2, <2>3
    <3>3. reply.input.event \in 1..5 /\ reply.input.round.core # ""
      BY <2>1, <2>3
    <3> QED BY <3>1, <3>2, <3>3, Zenon DEF AnswerSound
  <2> QED BY <1>2, <2>2, <2>4, <2>5, AnswerStep DEF reply
<1>5. \/ BadBody(c)
      \/ \E b : /\ ParseAndValidateGameEvent(b).valid
                /\ \E answer \in Answers :
                     Answer(c, EventStatus(answer[1]), answer[1], answer[2],
                            [ParseAndValidateGameEvent(b) EXCEPT !.event = Int8(@)])
  BY DEF GameEvent
<1> QED BY <1>3, <1>4, <1>5

\* A draw gets to its service.
LEMMA DrawStep ==
  ASSUME GatewayIInv, NEW c \in Caller, Drawresult(c)
  PROVE  GatewayIInv'
<1>1. AtController(c, "draw")
  BY DEF Drawresult
<1>2. http[c].pc = "filters" /\ http[c].req.path = "draw"
  BY <1>1, Controlled
<1>3. CASE BadBody(c)
  BY <1>2, <1>3, BadBodyStep
<1>4. ASSUME NEW p, p.valid => OrderIrrelevant(p.cards), NEW answer \in SubmitDrawResult(p),
             Answer(c, DrawStatus(answer[1]), answer[1], answer[2], p)
      PROVE  GatewayIInv'
  <2> DEFINE reply == ReplyOf(DrawStatus(answer[1]), answer[1], answer[2], p)
  <2>1. DrawAnswerSound(answer)
    BY <1>4, DrawAnswers
  <2>2. /\ reply.status = DrawStatus(answer[1]) /\ reply.outcome = answer[1]
        /\ reply.took = answer[2] /\ reply.input = p
    BY DEF ReplyOf
  <2> HIDE DEF reply
  <2>3. AnswerSound(http[c].req, reply, conf)
    BY <1>2, <1>4, <2>1, <2>2 DEF AnswerSound, DrawAnswerSound
  <2> QED BY <1>2, <1>4, <2>1, <2>3, AnswerStep DEF reply, DrawAnswerSound
<1>5. \/ BadBody(c)
      \/ \E b \in Bodies[conf].draw : \E answer \in SubmitDrawResult(ParseAndValidateDrawResult(b)) :
           Answer(c, DrawStatus(answer[1]), answer[1], answer[2], ParseAndValidateDrawResult(b))
  BY DEF Drawresult
<1>6. conf \in Config
  BY <1>1, Controlled
<1>7. ASSUME NEW b \in Bodies[conf].draw
      PROVE  LET p == ParseAndValidateDrawResult(b) IN p.valid => OrderIrrelevant(p.cards)
  <2>1. b.cards \in Seq(Range(b.cards))
    BY <1>6, <1>7, GatewayAssumption
  <2> QED BY <2>1, DrawInput
<1> QED BY <1>3, <1>4, <1>5, <1>7

\* A request arrives, with its path's filters in front of it.
LEMMA ArriveStep ==
  ASSUME GatewayIInv, NEW c \in Caller, conf \in Config, NEW r \in Offered[conf], Arrive(c, r)
  PROVE  GatewayIInv'
<1>0. /\ routes # Null /\ RoutesSound(conf, routes) /\ UNCHANGED <<limitVars, conf, routes>>
      /\ HttpShape
  BY DEF GatewayIInv, Arrive
<1>1. PICK h : h = [Idle EXCEPT !.pc = "filters", !.req = r, !.left = routes[r.path]]
  OBVIOUS
<1>2. /\ h = [pc |-> "filters", req |-> r, left |-> routes[r.path], data |-> Null,
              reply |-> NoReply]
      /\ NoReply.status = 0
  BY <1>1 DEF Idle, NoReply
<1>3. http' = [http EXCEPT ![c] = h]
  BY <1>1 DEF Arrive
<1>4. PICK Any : http \in [Caller -> Http(Any)]
  BY <1>0 DEF HttpShape
<1>5. PICK More : More = Any \cup {h.pc, h.req, h.left, h.data, h.reply}
  OBVIOUS
<1>6. http' \in [Caller -> Http(More)]
  BY <1>2, <1>3, <1>4, <1>5 DEF Http
<1>7. HttpShape' /\ http'[c] = h /\ \A o \in Caller \ {c} : http'[o] = http[o]
  BY <1>3, <1>4, <1>6 DEF HttpShape
<1>8. PICK bet, event, draw :
        /\ routes = [bet |-> bet, event |-> event, draw |-> draw]
        /\ event \in {<<>>, <<"admin_auth">>} /\ draw \in {<<>>, <<"admin_auth">>}
  BY <1>0 DEF RoutesSound
<1>9. r.path \in {"bet", "event", "draw"}
  BY GatewayAssumption
<1>10. OnItsWay(h, conf, routes)
  <2>1. CASE r.path = "bet"
    BY <1>2, <1>8, <2>1 DEF OnItsWay
  <2>2. CASE r.path = "event"
    BY <1>2, <1>8, <2>2 DEF OnItsWay
  <2>3. CASE r.path = "draw"
    BY <1>2, <1>8, <2>3 DEF OnItsWay
  <2> QED BY <1>9, <2>1, <2>2, <2>3
<1>11. RequestSound(h, conf, routes)
  BY <1>0, <1>2, <1>10 DEF RequestSound, Statuses
<1>12. LimitIInv'
  BY <1>0, LimitStutter DEF GatewayIInv
<1> QED BY <1>0, <1>7, <1>11, <1>12, RequestStep

\* A connection that carries no request is sound whatever the configuration.
LEMMA IdleSound ==
  ASSUME NEW cfg, NEW rt
  PROVE  RequestSound(Idle, cfg, rt)
BY DEF RequestSound, Idle, NoReply, Statuses

\* The answer is sent.
LEMMA ReturnStep ==
  ASSUME GatewayIInv, NEW c \in Caller, Return(c)
  PROVE  GatewayIInv'
<1>0. UNCHANGED <<limitVars, conf, routes>> /\ HttpShape
  BY DEF GatewayIInv, Return
<1>1. PICK h : h = Idle
  OBVIOUS
<1>2. http' = [http EXCEPT ![c] = h]
  BY <1>1 DEF Return
<1>3. PICK Any : http \in [Caller -> Http(Any)]
  BY <1>0 DEF HttpShape
<1>4. PICK More : More = Any \cup {h.pc, h.req, h.left, h.data, h.reply}
  OBVIOUS
<1>5. h \in Http(More)
  BY <1>1, <1>4 DEF Http, Idle
<1>6. http' \in [Caller -> Http(More)]
  BY <1>2, <1>3, <1>4, <1>5 DEF Http
<1>7. HttpShape' /\ http'[c] = h /\ \A o \in Caller \ {c} : http'[o] = http[o]
  BY <1>2, <1>3, <1>6 DEF HttpShape
<1>8. RequestSound(h, conf, routes)
  BY <1>1, IdleSound
<1>9. LimitIInv'
  BY <1>0, LimitStutter DEF GatewayIInv
<1> QED BY <1>0, <1>7, <1>8, <1>9, RequestStep

\* The limiter takes a step for a caller, or its time passes.
LEMMA LimiterStep ==
  ASSUME GatewayIInv, Limiter
  PROVE  GatewayIInv'
<1>0. LimitIInv /\ UNCHANGED <<conf, routes, http>>
  BY DEF GatewayIInv, Limiter, gatewayVars
<1>1. CASE \E c \in Caller : Checking(c)
  <2>1. PICK c \in Caller : Checking(c)
    BY <1>1
  <2>2. CASE Add(c)
    BY <1>0, <2>2, AddStep DEF GatewayIInv, HttpShape
  <2>3. CASE Decide(c)
    BY <1>0, <2>3, DecideStep DEF GatewayIInv, HttpShape
  <2>4. CASE Begin(c) \/ Pass(c) \/ Trim(c) \/ Count(c) \/ PipelineFails(c)
    BY <1>0, <2>4, CheckStep DEF GatewayIInv, HttpShape
  <2> QED BY <2>1, <2>2, <2>3, <2>4 DEF Checking
<1>2. CASE Tick \/ \E k \in Key : KeyExpires(k)
  BY <1>0, <1>2, TimeStep DEF GatewayIInv, HttpShape
<1> QED BY <1>1, <1>2 DEF Limiter

\* The configuration is set: no request has come before it, and the demo's filters are not
\* there yet.
LEMMA SetStep ==
  ASSUME GatewayIInv, Set
  PROVE  GatewayIInv'
<1>0. /\ conf = Null /\ conf' \in Load /\ UNCHANGED <<limitVars, routes, http>>
      /\ RoutesSound(conf, routes) /\ \A c \in Caller : RequestSound(http[c], conf, routes)
  BY DEF GatewayIInv, Set
<1>1. conf' \in Config
  BY <1>0 DEF Load, Config
<1>2. LimitIInv' /\ HttpShape'
  BY <1>0, LimitStutter DEF GatewayIInv, HttpShape
<1>3. RoutesSound(conf', routes)
  BY <1>0 DEF RoutesSound
<1>4. \A c \in Caller : RequestSound(http[c], conf', routes)
  BY <1>0 DEF RequestSound, Config
<1> QED BY <1>0, <1>1, <1>2, <1>3, <1>4 DEF GatewayIInv

\* The filters are inserted: those of the configuration, if there is one.
LEMMA InsertFiltersStep ==
  ASSUME GatewayIInv, InsertFilters
  PROVE  GatewayIInv'
<1>0. /\ routes = Null /\ routes' = Routes /\ UNCHANGED <<limitVars, conf, http>>
      /\ \A c \in Caller : RequestSound(http[c], conf, routes)
  BY DEF GatewayIInv, InsertFilters
<1>1. PICK auth : auth = IF conf # Null /\ conf.demo THEN "demo_auth" ELSE "platform_auth"
  OBVIOUS
<1>2. PICK limit : limit = IF conf # Null /\ conf.limiter THEN <<"rate_limit">> ELSE <<>>
  OBVIOUS
<1>3. PICK admin : admin = IF conf # Null /\ conf.admin THEN <<"admin_auth">> ELSE <<>>
  OBVIOUS
<1>4. PICK bet : bet = <<auth>> \o limit
  OBVIOUS
<1>5. Routes = [bet |-> bet, event |-> admin, draw |-> admin]
  BY <1>1, <1>2, <1>3, <1>4 DEF Routes
<1>6. bet \in {<<auth>>, <<auth, "rate_limit">>}
  BY <1>2, <1>4, FilterRows
<1>7. RoutesSound(conf, Routes)
  BY <1>1, <1>3, <1>5, <1>6 DEF RoutesSound
<1>8. LimitIInv' /\ HttpShape'
  BY <1>0, LimitStutter DEF GatewayIInv, HttpShape
<1>9. \A c \in Caller : RequestSound(http[c], conf, Routes)
  BY <1>0 DEF RequestSound
<1> QED BY <1>0, <1>7, <1>8, <1>9 DEF GatewayIInv
-------------------------------------------------------------------------------
(* How many requests pass *)

\* The key that a check h works on.
KeyIn(h) == LET d == Dimensions[h.dim] IN <<d, KeyOf(h.client, d)>>

\* A check h works on key k, with a reading of the clock in the period up to t.
Times(h, k, t) ==
  /\ KeyIn(h) = k
  /\ t - Period[k[1]] < h.now /\ h.now <= t

\* It may yet pass; it will pass, unless its pipeline fails; and its entry is there.
Flies(h, k, t) == h.pc \in {"trim", "count", "add", "expire"} /\ Times(h, k, t)

Takes(h, k, t) ==
  h.pc \in {"add", "expire"} /\ Times(h, k, t) /\ h.count < Limit[k[1]]

HasAdded(h, k, t) == h.pc = "expire" /\ Times(h, k, t) /\ h.count < Limit[k[1]]

Flying(k, t) == {c \in Caller : Flies(check[c], k, t)}
Taking(k, t) == {c \in Caller : Takes(check[c], k, t)}
Added(k, t) == {c \in Caller : HasAdded(check[c], k, t)}

Passed(k, t) == InPeriod(admitted[k], k, t)

\* How many entries of a period may have expired before its end, for each connection.
Lost(k) == IF Period[k[1]] = 1 THEN 0 ELSE Cardinality(Caller)

\* Up to the end of a period, each request that passed, or will, has an entry that is
\* counted or has expired with others in flight; after it, nobody new comes in.
Within(k, t) ==
  /\ clock <= t =>
       /\ Cardinality(Passed(k, t)) + Cardinality(Added(k, t))
            <= Cardinality(InPeriod(window[k], k, t)) + Lost(k)
       /\ Cardinality(Passed(k, t)) + Cardinality(Taking(k, t))
            <= Limit[k[1]] - 1 + Lost(k) + Cardinality(Caller)
  /\ clock > t =>
       Cardinality(Passed(k, t)) + Cardinality(Flying(k, t))
         <= Limit[k[1]] - 1 + Lost(k) + 2 * Cardinality(Caller)

\* A check's reading of the clock is past, and that of every entry.
ClockReadings ==
  /\ \A c \in Caller : check[c].pc \in {"trim", "count", "add", "expire"} => check[c].now <= clock
  /\ \A k \in Key : \A e \in window[k] \cup admitted[k] : e[1] <= clock

\* A key that holds nothing has no expiry, and no key expires before the window of a
\* request that it let pass is over, nor, for windows of a second, while a request that
\* has trimmed it is in its second.
Expiries ==
  \A k \in Key :
    /\ window[k] = {} => expireAt[k] = 0
    /\ \A e \in admitted[k] : expireAt[k] = 0 \/ expireAt[k] >= e[1] + Period[k[1]]
    /\ Period[k[1]] = 1 =>
         /\ \A e \in window[k] : expireAt[k] = 0 \/ expireAt[k] > e[1]
         /\ \A c \in Caller :
              check[c].pc \in {"count", "add", "expire"} /\ KeyAt(c) = k =>
                expireAt[k] = 0 \/ expireAt[k] > check[c].now

WithinIInv ==
  /\ ClockReadings
  /\ Expiries
  /\ \A k \in Key, t \in 0..MaxClock : Limit[k[1]] > 0 => Within(k, t)

\* What is counted is finite, and no more checks are under way than there are callers.
LEMMA WithinSizes ==
  /\ Cardinality(Caller) \in Nat
  /\ \A C \in SUBSET Caller : Cardinality(C) <= Cardinality(Caller) /\ Cardinality(C) \in Nat
  /\ \A S \in SUBSET Entry : \A k, t :
       /\ IsFiniteSet(InPeriod(S, k, t)) /\ Cardinality(InPeriod(S, k, t)) \in Nat
       /\ IsFiniteSet(S) /\ Cardinality(S) \in Nat /\ InPeriod(S, k, t) \subseteq S
  /\ \A k \in Key : /\ Limit[k[1]] \in Nat /\ Period[k[1]] \in Nat \ {0}
                    /\ Lost(k) \in Nat /\ (Period[k[1]] # 1 => Lost(k) = Cardinality(Caller))
<1>1. IsFiniteSet(Caller) /\ Cardinality(Caller) \in Nat
  BY EntriesAreFinite, RateLimitAssumption
<1>2. \A C \in SUBSET Caller : Cardinality(C) <= Cardinality(Caller) /\ Cardinality(C) \in Nat
  BY <1>1, PartIsNotLarger
<1>3. ASSUME NEW S \in SUBSET Entry, NEW k, NEW t
      PROVE  /\ IsFiniteSet(InPeriod(S, k, t)) /\ Cardinality(InPeriod(S, k, t)) \in Nat
             /\ IsFiniteSet(S) /\ Cardinality(S) \in Nat /\ InPeriod(S, k, t) \subseteq S
  <2>1. InPeriod(S, k, t) \subseteq S
    BY DEF InPeriod
  <2>2. InPeriod(S, k, t) \in SUBSET Entry
    BY <2>1
  <2> QED BY <2>1, <2>2, EntriesAreFinite
<1>4. ASSUME NEW k \in Key
      PROVE  /\ Limit[k[1]] \in Nat /\ Period[k[1]] \in Nat \ {0}
             /\ Lost(k) \in Nat /\ (Period[k[1]] # 1 => Lost(k) = Cardinality(Caller))
  <2>1. k[1] \in Dimension
    BY DEF Key
  <2> QED BY <1>1, <2>1, RateLimitAssumption DEF Lost
<1> QED BY <1>1, <1>2, <1>3, <1>4

\* A step that lets nobody pass or come nearer to it.
LEMMA WithinKept ==
  ASSUME LimitTypeOK, LimitTypeOK', NEW k \in Key, NEW t \in 0..MaxClock, Within(k, t),
         clock' = clock, NEW c \in Caller, \A o \in Caller \ {c} : check'[o] = check[o],
         InPeriod(admitted'[k], k, t) = InPeriod(admitted[k], k, t),
         clock <= t => InPeriod(window[k], k, t) \subseteq InPeriod(window'[k], k, t),
         HasAdded(check'[c], k, t) => HasAdded(check[c], k, t),
         Takes(check'[c], k, t) => Takes(check[c], k, t),
         clock > t => (Flies(check'[c], k, t) => Flies(check[c], k, t))
  PROVE  Within(k, t)'
<1>1. /\ Added(k, t)' \subseteq Added(k, t) /\ Taking(k, t)' \subseteq Taking(k, t)
      /\ clock > t => Flying(k, t)' \subseteq Flying(k, t)
  BY DEF Added, Taking, Flying
<1>2. /\ Cardinality(Added(k, t)') <= Cardinality(Added(k, t))
      /\ Cardinality(Taking(k, t)') <= Cardinality(Taking(k, t))
      /\ clock > t => Cardinality(Flying(k, t)') <= Cardinality(Flying(k, t))
      /\ Cardinality(Added(k, t)') \in Nat /\ Cardinality(Added(k, t)) \in Nat
      /\ Cardinality(Taking(k, t)') \in Nat /\ Cardinality(Taking(k, t)) \in Nat
      /\ Cardinality(Flying(k, t)') \in Nat /\ Cardinality(Flying(k, t)) \in Nat
  <2>1. /\ IsFiniteSet(Added(k, t)) /\ IsFiniteSet(Taking(k, t)) /\ IsFiniteSet(Flying(k, t))
        /\ Added(k, t)' \in SUBSET Caller /\ Added(k, t) \in SUBSET Caller
        /\ Taking(k, t)' \in SUBSET Caller /\ Taking(k, t) \in SUBSET Caller
        /\ Flying(k, t)' \in SUBSET Caller /\ Flying(k, t) \in SUBSET Caller
    BY EntriesAreFinite DEF Added, Taking, Flying
  <2> QED BY <1>1, <2>1, PartIsNotLarger, WithinSizes
<1>3. Passed(k, t)' = Passed(k, t)
  BY DEF Passed
<1>4. /\ window[k] \in SUBSET Entry /\ window'[k] \in SUBSET Entry /\ admitted[k] \in SUBSET Entry
      /\ clock \in Nat /\ t \in Nat
  BY RateLimitAssumption DEF LimitTypeOK
<1>5. clock <= t => Cardinality(InPeriod(window[k], k, t)) <= Cardinality(InPeriod(window'[k], k, t))
  <2>1. IsFiniteSet(InPeriod(window'[k], k, t))
    BY <1>4, WithinSizes
  <2> QED BY <2>1, PartIsNotLarger
<1>6. /\ Cardinality(Passed(k, t)) \in Nat /\ Cardinality(InPeriod(window[k], k, t)) \in Nat
      /\ Cardinality(InPeriod(window'[k], k, t)) \in Nat
      /\ Limit[k[1]] \in Nat /\ Lost(k) \in Nat /\ Cardinality(Caller) \in Nat
  BY <1>4, WithinSizes DEF Passed
<1>7. Lost(k)' = Lost(k)
  BY DEF Lost
<1> QED BY <1>2, <1>3, <1>4, <1>5, <1>6, <1>7 DEF Within

\* The limit holds for whoever counts: what has passed has an entry that is counted.
LEMMA WithinCounts ==
  ASSUME LimitTypeOK, LimitTypeOK', NEW k \in Key, NEW t \in 0..MaxClock, Within(k, t),
         UNCHANGED <<clock, window, admitted>>,
         NEW c \in Caller, \A o \in Caller \ {c} : check'[o] = check[o],
         Times(check'[c], k, t), check'[c].pc = "add", Flies(check[c], k, t),
         check'[c].count < Limit[k[1]], check'[c].count \in Nat,
         clock <= t => Cardinality(InPeriod(window[k], k, t)) <= check'[c].count
  PROVE  Within(k, t)'
<1>1. Added(k, t)' \subseteq Added(k, t) /\ Flying(k, t)' \subseteq Flying(k, t)
  BY DEF Added, Flying, HasAdded, Flies
<1>2. /\ Cardinality(Added(k, t)') <= Cardinality(Added(k, t))
      /\ Cardinality(Taking(k, t)') <= Cardinality(Caller)
      /\ Cardinality(Flying(k, t)') <= Cardinality(Flying(k, t))
      /\ Cardinality(Added(k, t)') \in Nat /\ Cardinality(Added(k, t)) \in Nat
      /\ Cardinality(Taking(k, t)') \in Nat
      /\ Cardinality(Flying(k, t)') \in Nat /\ Cardinality(Flying(k, t)) \in Nat
  <2>1. /\ IsFiniteSet(Added(k, t)) /\ IsFiniteSet(Flying(k, t))
        /\ Added(k, t)' \in SUBSET Caller /\ Added(k, t) \in SUBSET Caller
        /\ Taking(k, t)' \in SUBSET Caller
        /\ Flying(k, t)' \in SUBSET Caller /\ Flying(k, t) \in SUBSET Caller
    BY EntriesAreFinite DEF Added, Taking, Flying
  <2> QED BY <1>1, <2>1, PartIsNotLarger, WithinSizes
<1>3. Passed(k, t)' = Passed(k, t) /\ Lost(k)' = Lost(k)
  BY DEF Passed, Lost
<1>4. /\ window[k] \in SUBSET Entry /\ admitted[k] \in SUBSET Entry
      /\ clock \in Nat /\ t \in Nat
  BY RateLimitAssumption DEF LimitTypeOK
<1>5. /\ Cardinality(Passed(k, t)) \in Nat /\ Cardinality(InPeriod(window[k], k, t)) \in Nat
      /\ Limit[k[1]] \in Nat /\ Lost(k) \in Nat /\ Cardinality(Caller) \in Nat
  BY <1>4, WithinSizes DEF Passed
<1> QED BY <1>2, <1>3, <1>4, <1>5 DEF Within

\* A request that was allowed to is added: there is an entry more for it.
LEMMA WithinAdds ==
  ASSUME LimitTypeOK, LimitTypeOK', NEW k \in Key, NEW t \in 0..MaxClock, Within(k, t),
         clock' = clock, admitted' = admitted,
         NEW c \in Caller, \A o \in Caller \ {c} : check'[o] = check[o],
         Takes(check[c], k, t),
         NEW new, new \notin window[k], window'[k] = window[k] \cup {new},
         t - Period[k[1]] < new[1] /\ new[1] <= t
  PROVE  Within(k, t)'
<1>1. /\ Added(k, t)' \subseteq Added(k, t) \cup {c}
      /\ Taking(k, t)' \subseteq Taking(k, t) /\ Flying(k, t)' \subseteq Flying(k, t)
  <2>1. Takes(check[c], k, t) /\ Flies(check[c], k, t)
    BY DEF Takes, Flies
  <2> QED BY <2>1 DEF Added, Taking, Flying
<1>2. /\ Cardinality(Added(k, t)') <= Cardinality(Added(k, t)) + 1
      /\ Cardinality(Taking(k, t)') <= Cardinality(Taking(k, t))
      /\ Cardinality(Flying(k, t)') <= Cardinality(Flying(k, t))
      /\ Cardinality(Added(k, t)') \in Nat /\ Cardinality(Added(k, t)) \in Nat
      /\ Cardinality(Taking(k, t)') \in Nat /\ Cardinality(Taking(k, t)) \in Nat
      /\ Cardinality(Flying(k, t)') \in Nat /\ Cardinality(Flying(k, t)) \in Nat
  <2>1. /\ IsFiniteSet(Added(k, t)) /\ IsFiniteSet(Taking(k, t)) /\ IsFiniteSet(Flying(k, t))
        /\ Added(k, t)' \in SUBSET Caller /\ Added(k, t) \in SUBSET Caller
        /\ Taking(k, t)' \in SUBSET Caller /\ Taking(k, t) \in SUBSET Caller
        /\ Flying(k, t)' \in SUBSET Caller /\ Flying(k, t) \in SUBSET Caller
    BY EntriesAreFinite DEF Added, Taking, Flying
  <2>2. /\ IsFiniteSet(Added(k, t) \cup {c}) /\ Cardinality(Added(k, t) \cup {c}) \in Nat
        /\ Cardinality(Added(k, t) \cup {c}) <= Cardinality(Added(k, t)) + 1
    BY <2>1, OneMoreElement, FS_CardinalityType
  <2>3. Cardinality(Added(k, t)') <= Cardinality(Added(k, t) \cup {c})
    BY <1>1, <2>2, PartIsNotLarger
  <2> QED BY <1>1, <2>1, <2>2, <2>3, PartIsNotLarger, WithinSizes
<1>3. Passed(k, t)' = Passed(k, t) /\ Lost(k)' = Lost(k)
  BY DEF Passed, Lost
<1>4. /\ window[k] \in SUBSET Entry /\ window'[k] \in SUBSET Entry /\ admitted[k] \in SUBSET Entry
      /\ clock \in Nat /\ t \in Nat
  BY RateLimitAssumption DEF LimitTypeOK
<1>5. Cardinality(InPeriod(window'[k], k, t)) = Cardinality(InPeriod(window[k], k, t)) + 1
  <2>1. InPeriod(window'[k], k, t) = InPeriod(window[k], k, t) \cup {new}
    BY DEF InPeriod
  <2>2. IsFiniteSet(InPeriod(window[k], k, t)) /\ new \notin InPeriod(window[k], k, t)
    BY <1>4, WithinSizes
  <2> QED BY <2>1, <2>2, OneMoreElement
<1>6. /\ Cardinality(Passed(k, t)) \in Nat /\ Cardinality(InPeriod(window[k], k, t)) \in Nat
      /\ Limit[k[1]] \in Nat /\ Lost(k) \in Nat /\ Cardinality(Caller) \in Nat
  BY <1>4, WithinSizes DEF Passed
<1> QED BY <1>2, <1>3, <1>4, <1>5, <1>6 DEF Within

\* A request passes: it is no longer in flight.
LEMMA WithinDecides ==
  ASSUME LimitTypeOK, LimitTypeOK', NEW k \in Key, NEW t \in 0..MaxClock, Within(k, t),
         clock' = clock, window' = window,
         NEW c \in Caller, \A o \in Caller \ {c} : check'[o] = check[o],
         HasAdded(check[c], k, t), check'[c].pc \in {"next", "refused"},
         NEW new, admitted'[k] = admitted[k] \cup {new}
  PROVE  Within(k, t)'
<1>1. /\ Added(k, t)' \subseteq Added(k, t) \ {c} /\ c \in Added(k, t)
      /\ Taking(k, t)' \subseteq Taking(k, t) \ {c} /\ c \in Taking(k, t)
      /\ Flying(k, t)' \subseteq Flying(k, t) \ {c} /\ c \in Flying(k, t)
  <2>1. HasAdded(check[c], k, t) /\ Takes(check[c], k, t) /\ Flies(check[c], k, t)
    BY DEF HasAdded, Takes, Flies
  <2>2. ~ HasAdded(check'[c], k, t) /\ ~ Takes(check'[c], k, t) /\ ~ Flies(check'[c], k, t)
    BY DEF HasAdded, Takes, Flies
  <2> QED BY <2>1, <2>2 DEF Added, Taking, Flying
<1>2. /\ Cardinality(Added(k, t)') <= Cardinality(Added(k, t)) - 1
      /\ Cardinality(Taking(k, t)') <= Cardinality(Taking(k, t)) - 1
      /\ Cardinality(Flying(k, t)') <= Cardinality(Flying(k, t)) - 1
      /\ Cardinality(Added(k, t)') \in Nat /\ Cardinality(Added(k, t)) \in Nat
      /\ Cardinality(Taking(k, t)') \in Nat /\ Cardinality(Taking(k, t)) \in Nat
      /\ Cardinality(Flying(k, t)') \in Nat /\ Cardinality(Flying(k, t)) \in Nat
  <2>1. /\ IsFiniteSet(Added(k, t)) /\ IsFiniteSet(Taking(k, t)) /\ IsFiniteSet(Flying(k, t))
    BY EntriesAreFinite DEF Added, Taking, Flying
  <2>2. ASSUME NEW S, NEW T, IsFiniteSet(S), c \in S, T \subseteq S \ {c}
        PROVE  /\ Cardinality(T) <= Cardinality(S) - 1
               /\ Cardinality(T) \in Nat /\ Cardinality(S) \in Nat
    <3>1. IsFiniteSet(S \ {c}) /\ Cardinality(S \ {c}) = Cardinality(S) - 1 /\ Cardinality(S) \in Nat
      BY <2>2, OneMoreElement
    <3> QED BY <2>2, <3>1, PartIsNotLarger
  <2> QED BY <1>1, <2>1, <2>2
<1>3. Lost(k)' = Lost(k)
  BY DEF Lost
<1>4. /\ window[k] \in SUBSET Entry /\ admitted[k] \in SUBSET Entry /\ admitted'[k] \in SUBSET Entry
      /\ clock \in Nat /\ t \in Nat
  BY RateLimitAssumption DEF LimitTypeOK
<1>5. /\ Cardinality(Passed(k, t)') <= Cardinality(Passed(k, t)) + 1
      /\ Cardinality(Passed(k, t)') \in Nat /\ Cardinality(Passed(k, t)) \in Nat
  <2>1. Passed(k, t)' \subseteq Passed(k, t) \cup {new}
    BY DEF Passed, InPeriod
  <2>2. IsFiniteSet(Passed(k, t)) /\ Cardinality(Passed(k, t)) \in Nat
    BY <1>4, WithinSizes DEF Passed
  <2>3. /\ IsFiniteSet(Passed(k, t) \cup {new})
        /\ Cardinality(Passed(k, t) \cup {new}) <= Cardinality(Passed(k, t)) + 1
    BY <2>2, OneMoreElement
  <2>4. /\ Cardinality(Passed(k, t)') <= Cardinality(Passed(k, t) \cup {new})
        /\ Cardinality(Passed(k, t)') \in Nat /\ Cardinality(Passed(k, t) \cup {new}) \in Nat
    BY <2>1, <2>3, PartIsNotLarger
  <2> QED BY <2>2, <2>3, <2>4
<1>6. /\ Cardinality(InPeriod(window[k], k, t)) \in Nat
      /\ Limit[k[1]] \in Nat /\ Lost(k) \in Nat /\ Cardinality(Caller) \in Nat
  BY <1>4, WithinSizes
<1> QED BY <1>2, <1>3, <1>4, <1>5, <1>6 DEF Within

\* A key expires: nothing that passed is still in its window, for windows of a second not
\* even what is in flight.
LEMMA WithinExpires ==
  ASSUME LimitTypeOK, LimitTypeOK', WithinIInv, NEW k \in Key, NEW t \in 0..MaxClock,
         Limit[k[1]] > 0, KeyExpires(k)
  PROVE  Within(k, t)'
<1>1. /\ expireAt[k] # 0 /\ clock >= expireAt[k]
      /\ UNCHANGED <<clock, check, admitted>> /\ Within(k, t)
  BY DEF KeyExpires, WithinIInv
<1>2. /\ window'[k] \in SUBSET Entry /\ admitted[k] \in SUBSET Entry
      /\ clock \in Nat /\ t \in Nat /\ expireAt[k] \in Nat
  BY RateLimitAssumption DEF LimitTypeOK
<1>3. /\ Passed(k, t)' = Passed(k, t) /\ Added(k, t)' = Added(k, t)
      /\ Taking(k, t)' = Taking(k, t) /\ Flying(k, t)' = Flying(k, t) /\ Lost(k)' = Lost(k)
  BY <1>1 DEF Passed, Added, Taking, Flying, Lost
<1>4. CASE clock > t
  BY <1>1, <1>2, <1>3, <1>4 DEF Within
<1>5. CASE clock <= t
  <2>1. Passed(k, t) = {}
    <3> SUFFICES ASSUME NEW e \in admitted[k], t - Period[k[1]] < e[1], e[1] <= t PROVE FALSE
      BY DEF Passed, InPeriod
    <3>1. e[1] \in Nat /\ Period[k[1]] \in Nat
      BY <1>2, WithinSizes DEF Entry
    <3>2. expireAt[k] >= e[1] + Period[k[1]]
      BY <1>1 DEF WithinIInv, Expiries
    <3> QED BY <1>1, <1>2, <1>5, <3>1, <3>2
  <2>2. Cardinality(Added(k, t)) <= Lost(k) /\ Cardinality(Added(k, t)) \in Nat
    <3>1. CASE Period[k[1]] = 1
      <4>1. Added(k, t) = {}
        <5> SUFFICES ASSUME NEW c \in Caller, HasAdded(check[c], k, t) PROVE FALSE
          BY DEF Added
        <5>1. /\ check[c].pc = "expire" /\ KeyAt(c) = k
              /\ t - Period[k[1]] < check[c].now /\ check[c].now <= t
          BY DEF HasAdded, Times, KeyIn, KeyAt
        <5>2. expireAt[k] > check[c].now
          BY <1>1, <3>1, <5>1 DEF WithinIInv, Expiries
        <5>3. check[c].now \in Nat
          BY DEF LimitTypeOK, CheckState
        <5> QED BY <1>1, <1>2, <1>5, <3>1, <5>1, <5>2, <5>3
      <4>2. Lost(k) = 0
        BY <3>1 DEF Lost
      <4> QED BY <4>1, <4>2, FS_EmptySet
    <3>2. CASE Period[k[1]] # 1
      <4>1. Added(k, t) \in SUBSET Caller
        BY DEF Added
      <4> QED BY <3>2, <4>1, WithinSizes
    <3> QED BY <3>1, <3>2
  <2>3. Cardinality(Taking(k, t)) <= Cardinality(Caller) /\ Cardinality(Taking(k, t)) \in Nat
    <3>1. Taking(k, t) \in SUBSET Caller
      BY DEF Taking
    <3> QED BY <3>1, WithinSizes
  <2>4. /\ Cardinality(InPeriod(window'[k], k, t)) \in Nat /\ Cardinality(Caller) \in Nat
        /\ Limit[k[1]] \in Nat /\ Lost(k) \in Nat
    BY <1>2, WithinSizes
  <2>5. Cardinality(Passed(k, t)) = 0
    BY <2>1, FS_EmptySet
  <2> QED BY <1>1, <1>2, <1>3, <1>5, <2>2, <2>3, <2>4, <2>5 DEF Within
<1> QED BY <1>2, <1>4, <1>5

\* Time passes: what was in flight at the end of the period is all that may still pass.
LEMMA WithinTicks ==
  ASSUME LimitTypeOK, LimitTypeOK', NEW k \in Key, NEW t \in 0..MaxClock, Within(k, t), Tick
  PROVE  Within(k, t)'
<1>1. clock' = clock + 1 /\ UNCHANGED <<window, check, admitted>>
  BY DEF Tick
<1>2. /\ Passed(k, t)' = Passed(k, t) /\ Added(k, t)' = Added(k, t)
      /\ Taking(k, t)' = Taking(k, t) /\ Flying(k, t)' = Flying(k, t) /\ Lost(k)' = Lost(k)
  BY <1>1 DEF Passed, Added, Taking, Flying, Lost
<1>3. /\ Cardinality(Flying(k, t)) <= Cardinality(Caller) /\ Cardinality(Flying(k, t)) \in Nat
      /\ Cardinality(Taking(k, t)) \in Nat /\ Cardinality(Caller) \in Nat
      /\ Limit[k[1]] \in Nat /\ Lost(k) \in Nat
  <2>1. Flying(k, t) \in SUBSET Caller /\ Taking(k, t) \in SUBSET Caller
    BY DEF Flying, Taking
  <2> QED BY <2>1, WithinSizes
<1>4. Cardinality(Passed(k, t)) \in Nat /\ clock \in Nat /\ t \in Nat
  <2>1. admitted[k] \in SUBSET Entry /\ clock \in Nat /\ t \in Nat
    BY RateLimitAssumption DEF LimitTypeOK
  <2>2. Cardinality(InPeriod(admitted[k], k, t)) \in Nat
    BY <2>1, WithinSizes
  <2> QED BY <2>1, <2>2 DEF Passed
<1> QED BY <1>1, <1>2, <1>3, <1>4 DEF Within

\* A check that goes on in its dimension works on the same key with the same time.
LEMMA SameTimes ==
  ASSUME NEW g, NEW h, g.client = h.client, g.dim = h.dim, g.now = h.now, NEW k, NEW t
  PROVE  Times(g, k, t) <=> Times(h, k, t)
<1>1. KeyIn(g) = KeyIn(h)
  BY DEF KeyIn
<1> QED BY <1>1 DEF Times

\* The steps of a check that is not, or no longer, in a pipeline.
LEMMA QuietWithin ==
  ASSUME LimitTypeOK, LimitTypeOK', WithinIInv, NEW c \in Caller,
         UNCHANGED <<clock, window, expireAt, admitted>>,
         \A o \in Caller \ {c} : check'[o] = check[o],
         check'[c].pc \in {"idle", "next", "passed", "refused"}
  PROVE  WithinIInv'
<1>1. ClockReadings'
  BY DEF WithinIInv, ClockReadings
<1>2. Expiries'
  <2>1. \A o \in Caller \ {c} : KeyAt(o)' = KeyAt(o)
    BY DEF KeyAt
  <2> QED BY <2>1 DEF WithinIInv, Expiries
<1>3. ASSUME NEW k \in Key, NEW t \in 0..MaxClock, Limit[k[1]] > 0
      PROVE  Within(k, t)'
  <2>1. ~ HasAdded(check'[c], k, t) /\ ~ Takes(check'[c], k, t) /\ ~ Flies(check'[c], k, t)
    BY DEF HasAdded, Takes, Flies
  <2>2. Within(k, t)
    BY <1>3 DEF WithinIInv
  <2> QED BY <2>1, <2>2, WithinKept
<1> QED BY <1>1, <1>2, <1>3 DEF WithinIInv

\* A check begins: its reading of the clock is new.
LEMMA BeginWithin ==
  ASSUME LimitIInv, LimitTypeOK', WithinIInv, NEW c \in Caller, Begin(c)
  PROVE  WithinIInv'
<1>0. /\ LimitTypeOK /\ check \in [Caller -> CheckState] /\ clock \in 0..MaxClock
      /\ MaxClock \in Nat /\ clock \in Nat
  BY RateLimitAssumption DEF LimitIInv, LimitTypeOK
<1>1. PICK i \in 1..4 : check' = [check EXCEPT ![c].pc = "trim", ![c].dim = i, ![c].now = clock]
  BY FourDimensions DEF Begin, Remaining
<1>2. UNCHANGED <<clock, window, expireAt, admitted>>
  BY DEF Begin
<1>3. /\ \A o \in Caller \ {c} : check'[o] = check[o]
      /\ check'[c].pc = "trim" /\ check'[c].now = clock
  BY ZenonT(60), <1>0, <1>1 DEF CheckState
<1>4. ClockReadings'
  <2>1. \A o \in Caller : check'[o].pc \in {"trim", "count", "add", "expire"} => check'[o].now <= clock
    BY <1>0, <1>3 DEF WithinIInv, ClockReadings
  <2> QED BY <1>2, <2>1 DEF WithinIInv, ClockReadings
<1>5. Expiries'
  <2>1. \A o \in Caller \ {c} : KeyAt(o)' = KeyAt(o)
    BY <1>3 DEF KeyAt
  <2> QED BY <1>2, <1>3, <2>1 DEF WithinIInv, Expiries
<1>6. ASSUME NEW k \in Key, NEW t \in 0..MaxClock, Limit[k[1]] > 0
      PROVE  Within(k, t)'
  <2>1. ~ HasAdded(check'[c], k, t) /\ ~ Takes(check'[c], k, t)
    BY <1>3 DEF HasAdded, Takes
  <2>2. clock > t => ~ Flies(check'[c], k, t)
    BY <1>0, <1>3 DEF Flies, Times
  <2>3. Within(k, t)
    BY <1>6 DEF WithinIInv
  <2> QED BY <1>0, <1>2, <1>3, <2>1, <2>2, <2>3, WithinKept
<1> QED BY <1>4, <1>5, <1>6 DEF WithinIInv

\* The window is trimmed: what goes is out of every period that is not over.
LEMMA TrimWithin ==
  ASSUME LimitIInv, LimitTypeOK', WithinIInv, NEW c \in Caller, Trim(c)
  PROVE  WithinIInv'
<1>a. PICK key : key = KeyAt(c)
  OBVIOUS
<1>b. PICK kept : kept = {e \in window[KeyAt(c)] : e[1] > WindowStart(c)}
  OBVIOUS
<1>0. /\ LimitTypeOK /\ check \in [Caller -> CheckState] /\ HasKey(c)
      /\ clock \in Nat /\ MaxClock \in Nat /\ check[c].pc = "trim"
      /\ window \in [Key -> SUBSET Entry] /\ expireAt \in [Key -> Nat]
  BY RateLimitAssumption DEF LimitIInv, LimitTypeOK, Trim
<1>1. /\ window' = [window EXCEPT ![key] = kept]
      /\ expireAt' = IF kept = {} THEN [expireAt EXCEPT ![key] = 0] ELSE expireAt
      /\ check' = [check EXCEPT ![c].pc = "count"]
      /\ UNCHANGED <<clock, admitted>>
  BY <1>a, <1>b DEF Trim
<1>2. /\ key \in Key /\ WindowStart(c) = check[c].now - Period[key[1]]
      /\ check[c].now \in Nat /\ check[c].now <= clock /\ Period[key[1]] \in Nat \ {0}
  <2>1. KeyAt(c) \in Key /\ check[c].now \in 0..MaxClock
    BY <1>0, KeyOfCheck DEF HasKey
  <2>2. WindowStart(c) = check[c].now - Period[KeyAt(c)[1]]
    BY DEF WindowStart
  <2>3. check[c].now <= clock
    BY <1>0 DEF WithinIInv, ClockReadings
  <2> QED BY <1>a, <2>1, <2>2, <2>3, WithinSizes
<1>3. /\ \A o \in Caller \ {c} : check'[o] = check[o]
      /\ check'[c].pc = "count" /\ check'[c].client = check[c].client
      /\ check'[c].dim = check[c].dim /\ check'[c].now = check[c].now
  BY <1>0, <1>1, CheckMoves
<1>4. /\ window'[key] = kept /\ kept \subseteq window[key]
      /\ \A e \in kept : e[1] > check[c].now - Period[key[1]]
      /\ \A e \in window[key] : e[1] > check[c].now - Period[key[1]] => e \in kept
      /\ \A k \in Key \ {key} : window'[k] = window[k] /\ expireAt'[k] = expireAt[k]
      /\ expireAt'[key] = 0 \/ (kept # {} /\ expireAt'[key] = expireAt[key])
  BY <1>0, <1>1, <1>2, <1>a, <1>b
<1>5. ClockReadings'
  <2>1. \A o \in Caller : check'[o].pc \in {"trim", "count", "add", "expire"} => check'[o].now <= clock
    BY <1>2, <1>3 DEF WithinIInv, ClockReadings
  <2>2. \A k \in Key : window'[k] \subseteq window[k]
    BY <1>4
  <2> QED BY <1>1, <2>1, <2>2 DEF WithinIInv, ClockReadings
<1>6. Expiries'
  <2>1. \A o \in Caller : KeyAt(o)' = KeyAt(o)
    BY <1>3 DEF KeyAt
  <2>2. ASSUME NEW k \in Key, Period[k[1]] = 1, NEW o \in Caller,
               check'[o].pc \in {"count", "add", "expire"}, KeyAt(o) = k
        PROVE  expireAt'[k] = 0 \/ expireAt'[k] > check'[o].now
    <3>1. CASE o # c
      BY <1>3, <1>4, <2>2, <3>1 DEF WithinIInv, Expiries
    <3>2. CASE o = c /\ kept # {} /\ expireAt'[key] = expireAt[key]
      <4>1. PICK e \in kept : TRUE
        BY <3>2
      <4>2. e \in Entry /\ e \in window[key] /\ e[1] > check[c].now - 1
        BY <1>0, <1>2, <1>4, <2>2, <3>2, <4>1, <1>a
      <4>3. e[1] \in Nat
        BY <1>0, <4>2 DEF Entry
      <4>4. expireAt[key] = 0 \/ expireAt[key] > e[1]
        BY <1>2, <1>a, <2>2, <3>2, <4>2 DEF WithinIInv, Expiries
      <4>5. expireAt[key] \in Nat
        BY <1>0, <1>2
      <4> QED BY <1>2, <1>3, <1>a, <2>2, <3>2, <4>2, <4>3, <4>4, <4>5
    <3> QED BY <1>4, <1>a, <2>2, <3>1, <3>2
  <2>3. \A k \in Key :
          /\ window'[k] = {} => expireAt'[k] = 0
          /\ \A e \in admitted[k] : expireAt'[k] = 0 \/ expireAt'[k] >= e[1] + Period[k[1]]
          /\ Period[k[1]] = 1 => \A e \in window'[k] : expireAt'[k] = 0 \/ expireAt'[k] > e[1]
    BY <1>4 DEF WithinIInv, Expiries
  <2> QED BY <1>1, <2>1, <2>2, <2>3 DEF Expiries
<1>7. ASSUME NEW k \in Key, NEW t \in 0..MaxClock, Limit[k[1]] > 0
      PROVE  Within(k, t)'
  <2>1. Within(k, t) /\ t \in Nat
    BY <1>7 DEF WithinIInv
  <2>2. ~ HasAdded(check'[c], k, t) /\ ~ Takes(check'[c], k, t)
    BY <1>3 DEF HasAdded, Takes
  <2>3. Flies(check'[c], k, t) => Flies(check[c], k, t)
    BY <1>0, <1>3, SameTimes DEF Flies
  <2>4. clock <= t => InPeriod(window[k], k, t) \subseteq InPeriod(window'[k], k, t)
    <3>1. CASE k = key
      <4> SUFFICES ASSUME clock <= t, NEW e \in window[k], t - Period[k[1]] < e[1]
                   PROVE  e \in window'[k]
        BY DEF InPeriod
      <4>1. e[1] \in Nat
        BY <1>0, <3>1 DEF Entry
      <4>2. e[1] > check[c].now - Period[key[1]]
        BY <1>0, <1>2, <2>1, <3>1, <4>1
      <4> QED BY <1>4, <3>1, <4>2
    <3>2. CASE k # key
      BY <1>4, <3>2
    <3> QED BY <3>1, <3>2
  <2>5. InPeriod(admitted'[k], k, t) = InPeriod(admitted[k], k, t) /\ clock' = clock
    BY <1>1
  <2> QED BY <1>0, <1>3, <2>1, <2>2, <2>3, <2>4, <2>5, WithinKept
<1> QED BY <1>5, <1>6, <1>7 DEF WithinIInv

\* The window is counted.
LEMMA CountWithin ==
  ASSUME LimitIInv, LimitTypeOK', WithinIInv, NEW c \in Caller, Count(c)
  PROVE  WithinIInv'
<1>a. PICK seen : seen = {e \in window[KeyAt(c)] : e[1] >= WindowStart(c)}
  OBVIOUS
<1>0. /\ LimitTypeOK /\ check \in [Caller -> CheckState] /\ HasKey(c)
      /\ clock \in Nat /\ MaxClock \in Nat /\ check[c].pc = "count"
      /\ window \in [Key -> SUBSET Entry]
  BY RateLimitAssumption DEF LimitIInv, LimitTypeOK, Count
<1>1. /\ check' = [check EXCEPT ![c].pc = "add", ![c].count = Cardinality(seen)]
      /\ UNCHANGED <<clock, window, expireAt, admitted>>
  BY <1>a DEF Count
<1>2. /\ KeyAt(c) \in Key /\ check[c].now \in Nat /\ check[c].now <= clock
      /\ WindowStart(c) = check[c].now - Period[KeyAt(c)[1]]
  <2>1. KeyAt(c) \in Key /\ check[c].now \in 0..MaxClock
    BY <1>0, KeyOfCheck DEF HasKey
  <2>2. check[c].now <= clock
    BY <1>0 DEF WithinIInv, ClockReadings
  <2> QED BY <2>1, <2>2 DEF WindowStart
<1>3. seen \in SUBSET Entry /\ IsFiniteSet(seen) /\ Cardinality(seen) \in Nat
  <2>1. seen \in SUBSET Entry
    BY <1>0, <1>2, <1>a
  <2> QED BY <2>1, EntriesAreFinite
<1>4. /\ \A o \in Caller \ {c} : check'[o] = check[o]
      /\ check'[c].pc = "add" /\ check'[c].client = check[c].client
      /\ check'[c].dim = check[c].dim /\ check'[c].now = check[c].now
      /\ check'[c].count = Cardinality(seen)
  BY <1>0, <1>1, <1>3 DEF CheckState
<1>5. ClockReadings'
  <2>1. \A o \in Caller : check'[o].pc \in {"trim", "count", "add", "expire"} => check'[o].now <= clock
    BY <1>2, <1>4 DEF WithinIInv, ClockReadings
  <2> QED BY <1>1, <2>1 DEF WithinIInv, ClockReadings
<1>6. Expiries'
  <2>1. \A o \in Caller : KeyAt(o)' = KeyAt(o)
    BY <1>4 DEF KeyAt
  <2>2. \A o \in Caller : check'[o].now = check[o].now /\
          (check'[o].pc \in {"count", "add", "expire"} => check[o].pc \in {"count", "add", "expire"})
    BY <1>0, <1>4
  <2> QED BY <1>1, <2>1, <2>2 DEF WithinIInv, Expiries
<1>7. ASSUME NEW k \in Key, NEW t \in 0..MaxClock, Limit[k[1]] > 0
      PROVE  Within(k, t)'
  <2>1. Within(k, t) /\ t \in Nat /\ Period[k[1]] \in Nat
    BY <1>7, WithinSizes DEF WithinIInv
  <2>2. ~ HasAdded(check'[c], k, t)
    BY <1>4 DEF HasAdded
  <2>3. Times(check'[c], k, t) => Flies(check[c], k, t) /\ KeyAt(c) = k
    <3>1. Times(check'[c], k, t) => Times(check[c], k, t)
      BY <1>4, SameTimes
    <3>2. Times(check[c], k, t) => KeyAt(c) = k
      BY DEF Times, KeyIn, KeyAt
    <3> QED BY <1>0, <3>1, <3>2 DEF Flies
  <2>4. CASE Times(check'[c], k, t) /\ Cardinality(seen) < Limit[k[1]]
    <3>1. check[c].now <= t
      BY <2>3, <2>4 DEF Flies, Times
    <3>2. InPeriod(window[k], k, t) \subseteq seen
      <4> SUFFICES ASSUME NEW e \in window[k], t - Period[k[1]] < e[1]
                   PROVE  e \in seen
        BY DEF InPeriod
      <4>1. e[1] \in Nat
        BY <1>0 DEF Entry
      <4>2. e[1] >= WindowStart(c)
        BY <1>2, <2>1, <2>3, <2>4, <3>1, <4>1
      <4> QED BY <1>a, <2>3, <2>4, <4>2
    <3>3. Cardinality(InPeriod(window[k], k, t)) <= Cardinality(seen)
      BY <1>3, <3>2, PartIsNotLarger
    <3>4. Flies(check[c], k, t)
      BY <2>3, <2>4
    <3> QED BY <1>0, <1>1, <1>3, <1>4, <2>1, <2>4, <3>3, <3>4, WithinCounts
  <2>5. CASE ~ (Times(check'[c], k, t) /\ Cardinality(seen) < Limit[k[1]])
    <3>1. ~ Takes(check'[c], k, t)
      BY <1>4, <2>5 DEF Takes
    <3>2. Flies(check'[c], k, t) => Flies(check[c], k, t)
      BY <2>3 DEF Flies
    <3>3. /\ InPeriod(admitted'[k], k, t) = InPeriod(admitted[k], k, t) /\ clock' = clock
          /\ InPeriod(window[k], k, t) \subseteq InPeriod(window'[k], k, t)
      BY <1>1
    <3> QED BY <1>0, <1>4, <2>1, <2>2, <3>1, <3>2, <3>3, WithinKept
  <2> QED BY <2>4, <2>5
<1> QED BY <1>5, <1>6, <1>7 DEF WithinIInv

\* A request is added.
LEMMA AddWithin ==
  ASSUME LimitIInv, LimitIInv', WithinIInv, NEW c \in Caller, Add(c)
  PROVE  WithinIInv'
<1>a. PICK key : key = KeyAt(c)
  OBVIOUS
<1>b. PICK new : new = NextOf(asked[key], check[c].now)
  OBVIOUS
<1>0. /\ LimitTypeOK /\ LimitTypeOK' /\ check \in [Caller -> CheckState] /\ HasKey(c)
      /\ clock \in Nat /\ MaxClock \in Nat /\ check[c].pc = "add" /\ issued \in 0..MaxRequests
      /\ window \in [Key -> SUBSET Entry] /\ asked \in [Key -> SUBSET Entry]
  BY RateLimitAssumption DEF LimitIInv, LimitTypeOK, Add
<1>1. /\ window' = [window EXCEPT ![key] = @ \cup {new}]
      /\ check' = [check EXCEPT ![c].pc = "expire"]
      /\ UNCHANGED <<clock, expireAt, admitted>>
  BY <1>a, <1>b DEF Add
<1>2. /\ key \in Key /\ check[c].now \in 0..MaxClock /\ check[c].now <= clock
      /\ check[c].dim \in 1..4 /\ key[1] = Dimensions[check[c].dim]
  <2>1. check[c].now <= clock
    BY <1>0 DEF WithinIInv, ClockReadings
  <2> QED BY <1>0, <1>a, <2>1, KeyOfCheck DEF HasKey
<1>3. Cardinality(asked[key]) < issued
  <2>1. Adds(check[c], check[c].dim)
    BY <1>0 DEF Adds
  <2> QED BY <1>2, <1>a, <2>1, RoomForOne
<1>4. new[1] = check[c].now /\ new \notin window[key]
  <2>1. /\ new \in Entry /\ new[1] = check[c].now
        /\ new[2] = 1 + Cardinality(OfSecond(asked[key], check[c].now))
        /\ Cardinality(OfSecond(asked[key], check[c].now)) \in Nat
    BY <1>0, <1>2, <1>3, <1>b, NextEntry
  <2>2. /\ window[key] \subseteq asked[key]
        /\ \A e \in asked[key] : e[2] <= Cardinality(OfSecond(asked[key], e[1]))
    BY <1>2 DEF LimitIInv, EntriesAreNumbered
  <2> QED BY <2>1, <2>2
<1>5. /\ \A o \in Caller \ {c} : check'[o] = check[o]
      /\ check'[c].pc = "expire" /\ check'[c].client = check[c].client
      /\ check'[c].dim = check[c].dim /\ check'[c].now = check[c].now
      /\ check'[c].count = check[c].count
  BY <1>0, <1>1, CheckMoves
<1>6. /\ window'[key] = window[key] \cup {new}
      /\ \A k \in Key \ {key} : window'[k] = window[k]
  BY <1>0, <1>1, <1>2
<1>7. ClockReadings'
  <2>1. \A o \in Caller : check'[o].pc \in {"trim", "count", "add", "expire"} => check'[o].now <= clock
    BY <1>2, <1>5 DEF WithinIInv, ClockReadings
  <2>2. \A k \in Key : \A e \in window'[k] : e[1] <= clock
    BY <1>2, <1>4, <1>6 DEF WithinIInv, ClockReadings
  <2> QED BY <1>1, <2>1, <2>2 DEF WithinIInv, ClockReadings
<1>8. Expiries'
  <2>1. \A o \in Caller : KeyAt(o)' = KeyAt(o)
    BY <1>5 DEF KeyAt
  <2>2. \A o \in Caller : check'[o].now = check[o].now /\
          (check'[o].pc \in {"count", "add", "expire"} => check[o].pc \in {"count", "add", "expire"})
    BY <1>0, <1>5
  <2>3. \A k \in Key : /\ window'[k] = {} => window[k] = {}
                       /\ \A e \in window'[k] : e \in window[k] \/ (k = key /\ e = new)
    BY <1>6
  <2>4. Period[key[1]] = 1 => expireAt[key] = 0 \/ expireAt[key] > new[1]
    BY <1>0, <1>2, <1>4, <1>a DEF WithinIInv, Expiries
  <2>5. \A k \in Key :
          /\ window'[k] = {} => expireAt[k] = 0
          /\ Period[k[1]] = 1 => \A e \in window'[k] : expireAt[k] = 0 \/ expireAt[k] > e[1]
    BY <2>3, <2>4 DEF WithinIInv, Expiries
  <2> QED BY <1>1, <2>1, <2>2, <2>5 DEF WithinIInv, Expiries
<1>9. ASSUME NEW k \in Key, NEW t \in 0..MaxClock, Limit[k[1]] > 0
      PROVE  Within(k, t)'
  <2>1. Within(k, t)
    BY <1>9 DEF WithinIInv
  <2>2. /\ Times(check'[c], k, t) <=> Times(check[c], k, t)
        /\ Times(check[c], k, t) => key = k /\ t - Period[k[1]] < check[c].now /\ check[c].now <= t
    <3>1. Times(check'[c], k, t) <=> Times(check[c], k, t)
      BY <1>5, SameTimes
    <3> QED BY <1>a, <3>1 DEF Times, KeyIn, KeyAt
  <2>3. CASE Takes(check[c], k, t)
    <3>1. /\ key = k /\ t - Period[k[1]] < new[1] /\ new[1] <= t
      BY <1>4, <2>2, <2>3 DEF Takes
    <3> QED BY <1>0, <1>1, <1>4, <1>5, <1>6, <2>1, <2>3, <3>1, WithinAdds
  <2>4. CASE ~ Takes(check[c], k, t)
    <3>1. ~ Takes(check'[c], k, t) /\ ~ HasAdded(check'[c], k, t)
      BY <1>0, <1>5, <2>2, <2>4 DEF Takes, HasAdded
    <3>2. Flies(check'[c], k, t) => Flies(check[c], k, t)
      BY <1>0, <2>2 DEF Flies
    <3>3. /\ InPeriod(admitted'[k], k, t) = InPeriod(admitted[k], k, t) /\ clock' = clock
          /\ InPeriod(window[k], k, t) \subseteq InPeriod(window'[k], k, t)
      BY <1>1, <1>6 DEF InPeriod
    <3> QED BY <1>0, <1>5, <2>1, <3>1, <3>2, <3>3, WithinKept
  <2> QED BY <2>3, <2>4
<1> QED BY <1>7, <1>8, <1>9 DEF WithinIInv

\* EXPIRE ends the pipeline: the key will outlive all that passed, and what is in flight
\* in windows of a second.
LEMMA DecideWithin ==
  ASSUME LimitIInv, LimitTypeOK', WithinIInv, NEW c \in Caller, Decide(c)
  PROVE  WithinIInv'
<1>a. PICK key : key = KeyAt(c)
  OBVIOUS
<1>b. PICK new : new = NextOf(admitted[key], check[c].now)
  OBVIOUS
<1>c. PICK pc \in {"next", "refused"} : pc = IF Allows(c) THEN "next" ELSE "refused"
  OBVIOUS
<1>0. /\ LimitTypeOK /\ check \in [Caller -> CheckState] /\ HasKey(c)
      /\ clock \in Nat /\ MaxClock \in Nat /\ check[c].pc = "expire" /\ Slack \in Nat
      /\ window \in [Key -> SUBSET Entry] /\ expireAt \in [Key -> Nat]
      /\ admitted \in [Key -> SUBSET Entry]
  BY RateLimitAssumption DEF LimitIInv, LimitTypeOK, Decide
<1>1. /\ expireAt' = IF window[key] = {} THEN expireAt
                     ELSE [expireAt EXCEPT ![key] = clock + Period[key[1]] + Slack]
      /\ admitted' = IF ~ Allows(c) THEN admitted
                     ELSE [admitted EXCEPT ![key] = @ \cup {new}]
      /\ check' = [check EXCEPT ![c].pc = pc]
      /\ UNCHANGED <<clock, window>>
  BY <1>a, <1>b, <1>c DEF Decide
<1>2. /\ key \in Key /\ check[c].now \in Nat /\ check[c].now <= clock
      /\ Period[key[1]] \in Nat \ {0}
  <2>1. check[c].now <= clock
    BY <1>0 DEF WithinIInv, ClockReadings
  <2>2. KeyAt(c) \in Key /\ check[c].now \in 0..MaxClock
    BY <1>0, KeyOfCheck DEF HasKey
  <2> QED BY <1>a, <2>1, <2>2, WithinSizes
<1>3. /\ \A o \in Caller \ {c} : check'[o] = check[o]
      /\ check'[c].pc = pc
  BY <1>0, <1>1, CheckMoves
<1>4. /\ \A k \in Key \ {key} : expireAt'[k] = expireAt[k] /\ admitted'[k] = admitted[k]
      /\ ~ Allows(c) => admitted' = admitted
      /\ Allows(c) => admitted'[key] = admitted[key] \cup {new}
      /\ \/ window[key] = {} /\ expireAt'[key] = expireAt[key]
         \/ expireAt'[key] = clock + Period[key[1]] + Slack
  BY <1>0, <1>1, <1>2
<1>5. new[1] = check[c].now
  BY <1>b DEF NextOf
<1>6. ClockReadings'
  <2>1. \A o \in Caller : check'[o].pc \in {"trim", "count", "add", "expire"} => check'[o].now <= clock
    BY <1>3 DEF WithinIInv, ClockReadings
  <2>2. \A k \in Key : \A e \in admitted'[k] : e[1] <= clock
    <3>1. \A k \in Key : \A e \in admitted'[k] : e \in admitted[k] \/ e = new
      BY <1>4
    <3> QED BY <1>2, <1>5, <3>1 DEF WithinIInv, ClockReadings
  <2> QED BY <1>1, <2>1, <2>2 DEF WithinIInv, ClockReadings
<1>7. Expiries'
  <2>1. \A o \in Caller \ {c} : KeyAt(o)' = KeyAt(o)
    BY <1>3 DEF KeyAt
  <2>2. ASSUME NEW k \in Key
        PROVE  /\ window[k] = {} => expireAt'[k] = 0
               /\ \A e \in admitted'[k] : expireAt'[k] = 0 \/ expireAt'[k] >= e[1] + Period[k[1]]
               /\ Period[k[1]] = 1 =>
                    /\ \A e \in window[k] : expireAt'[k] = 0 \/ expireAt'[k] > e[1]
                    /\ \A o \in Caller \ {c} :
                         check[o].pc \in {"count", "add", "expire"} /\ KeyAt(o) = k =>
                           expireAt'[k] = 0 \/ expireAt'[k] > check[o].now
    <3>1. CASE k # key
      BY <1>4, <3>1 DEF WithinIInv, Expiries
    <3>2. CASE k = key /\ window[key] = {} /\ expireAt'[key] = expireAt[key]
      <4>1. expireAt'[k] = 0 /\ window[k] = {}
        BY <3>2 DEF WithinIInv, Expiries
      <4> QED BY <4>1
    <3>3. CASE k = key /\ window[key] # {} /\ expireAt'[key] = clock + Period[key[1]] + Slack
      <4>1. ASSUME NEW e \in Entry, e[1] <= clock
            PROVE  expireAt'[k] >= e[1] + Period[k[1]] /\ expireAt'[k] > e[1]
        BY <1>0, <1>2, <3>3, <4>1 DEF Entry
      <4>2. \A e \in admitted'[k] : e \in Entry /\ e[1] <= clock
        BY <1>1, <1>6 DEF ClockReadings, LimitTypeOK
      <4>3. \A e \in window[k] : e \in Entry /\ e[1] <= clock
        BY <1>0 DEF WithinIInv, ClockReadings
      <4>4. \A o \in Caller : check[o].pc \in {"count", "add", "expire"} => expireAt'[k] > check[o].now
        <5> SUFFICES ASSUME NEW o \in Caller, check[o].pc \in {"count", "add", "expire"}
                     PROVE  expireAt'[k] > check[o].now
          OBVIOUS
        <5>1. check[o].now \in Nat /\ check[o].now <= clock
          BY <1>0 DEF WithinIInv, ClockReadings, CheckState
        <5> QED BY <1>0, <1>2, <3>3, <5>1
      <4> QED BY <3>3, <4>1, <4>2, <4>3, <4>4
    <3> QED BY <1>1, <1>2, <1>4, <3>1, <3>2, <3>3
  <2> QED BY <1>1, <1>3, <2>1, <2>2 DEF Expiries
<1>8. ASSUME NEW k \in Key, NEW t \in 0..MaxClock, Limit[k[1]] > 0
      PROVE  Within(k, t)'
  <2>1. Within(k, t)
    BY <1>8 DEF WithinIInv
  <2>2. CASE HasAdded(check[c], k, t)
    <3>1. key = k /\ Allows(c)
      BY <1>a, <2>2 DEF HasAdded, Times, KeyIn, KeyAt, Allows
    <3> QED BY <1>0, <1>1, <1>3, <1>4, <2>1, <2>2, <3>1, WithinDecides
  <2>3. CASE ~ HasAdded(check[c], k, t)
    <3>1. ~ HasAdded(check'[c], k, t) /\ ~ Takes(check'[c], k, t) /\ ~ Flies(check'[c], k, t)
      BY <1>3 DEF HasAdded, Takes, Flies
    <3>2. InPeriod(admitted'[k], k, t) = InPeriod(admitted[k], k, t)
      <4>1. CASE k # key \/ ~ Allows(c)
        BY <1>4, <4>1
      <4>2. CASE k = key /\ Allows(c)
        <5>1. ~ Times(check[c], k, t)
          BY <1>0, <1>a, <2>3, <4>2 DEF HasAdded, Allows
        <5>2. ~ (t - Period[k[1]] < new[1] /\ new[1] <= t)
          BY <1>5, <1>a, <4>2, <5>1 DEF Times, KeyIn, KeyAt
        <5> QED BY <1>4, <4>2, <5>2 DEF InPeriod
      <4> QED BY <4>1, <4>2
    <3>3. clock' = clock /\ InPeriod(window[k], k, t) \subseteq InPeriod(window'[k], k, t)
      BY <1>1
    <3> QED BY <1>0, <1>3, <2>1, <3>1, <3>2, <3>3, WithinKept
  <2> QED BY <2>2, <2>3
<1> QED BY <1>6, <1>7, <1>8 DEF WithinIInv

\* The steps of time.
LEMMA TimeWithin ==
  ASSUME LimitTypeOK, LimitTypeOK', WithinIInv, Tick \/ \E k \in Key : KeyExpires(k)
  PROVE  WithinIInv'
<1>0. clock \in Nat /\ check \in [Caller -> CheckState] /\ MaxClock \in Nat
      /\ window \in [Key -> SUBSET Entry] /\ expireAt \in [Key -> Nat]
      /\ admitted \in [Key -> SUBSET Entry]
  BY RateLimitAssumption DEF LimitTypeOK
<1>1. CASE Tick
  <2>1. clock' = clock + 1 /\ UNCHANGED <<window, expireAt, check, admitted>>
    BY <1>1 DEF Tick
  <2>2. ClockReadings'
    <3>1. \A o \in Caller : check[o].pc \in {"trim", "count", "add", "expire"} => check[o].now <= clock + 1
      BY <1>0 DEF WithinIInv, ClockReadings, CheckState
    <3>2. \A k \in Key : \A e \in window[k] \cup admitted[k] : e[1] <= clock + 1
      BY <1>0 DEF WithinIInv, ClockReadings, Entry
    <3> QED BY <2>1, <3>1, <3>2 DEF ClockReadings
  <2>3. Expiries'
    <3>1. \A o \in Caller : KeyAt(o)' = KeyAt(o)
      BY <2>1 DEF KeyAt
    <3> QED BY <2>1, <3>1 DEF WithinIInv, Expiries
  <2>4. \A k \in Key, t \in 0..MaxClock : Limit[k[1]] > 0 => Within(k, t)'
    BY <1>1, WithinTicks DEF WithinIInv
  <2> QED BY <2>2, <2>3, <2>4 DEF WithinIInv
<1>2. ASSUME NEW key \in Key, KeyExpires(key) PROVE WithinIInv'
  <2>1. /\ window' = [window EXCEPT ![key] = {}] /\ expireAt' = [expireAt EXCEPT ![key] = 0]
        /\ UNCHANGED <<clock, check, admitted>>
    BY <1>2 DEF KeyExpires
  <2>2. /\ window'[key] = {} /\ expireAt'[key] = 0
        /\ \A k \in Key \ {key} : window'[k] = window[k] /\ expireAt'[k] = expireAt[k]
    BY <1>0, <2>1
  <2>3. ClockReadings'
    <3>1. \A k \in Key : window'[k] \subseteq window[k]
      BY <2>2
    <3> QED BY <2>1, <3>1 DEF WithinIInv, ClockReadings
  <2>4. Expiries'
    <3>1. \A o \in Caller : KeyAt(o)' = KeyAt(o)
      BY <2>1 DEF KeyAt
    <3> QED BY <2>1, <2>2, <3>1 DEF WithinIInv, Expiries
  <2>5. ASSUME NEW k \in Key, NEW t \in 0..MaxClock, Limit[k[1]] > 0
        PROVE  Within(k, t)'
    <3>1. CASE k = key
      BY <1>2, <2>5, <3>1, WithinExpires
    <3>2. CASE k # key
      <4>1. /\ Within(k, t) /\ window'[k] = window[k]
        BY <2>2, <2>5, <3>2 DEF WithinIInv
      <4>2. /\ Passed(k, t)' = Passed(k, t) /\ Added(k, t)' = Added(k, t)
            /\ Taking(k, t)' = Taking(k, t) /\ Flying(k, t)' = Flying(k, t) /\ Lost(k)' = Lost(k)
        BY <2>1 DEF Passed, Added, Taking, Flying, Lost
      <4> QED BY <2>1, <4>1, <4>2 DEF Within
    <3> QED BY <3>1, <3>2
  <2> QED BY <2>3, <2>4, <2>5 DEF WithinIInv
<1> QED BY <1>1, <1>2

\* Initially nothing has passed.
LEMMA WithinInit == LimitInit => WithinIInv
<1> SUFFICES ASSUME LimitInit PROVE WithinIInv
  OBVIOUS
<1>1. \A c \in Caller : check[c].pc = "idle"
  BY DEF LimitInit, NoCheck
<1>2. /\ \A k \in Key : window[k] = {} /\ admitted[k] = {} /\ expireAt[k] = 0
      /\ clock = 0
  BY DEF LimitInit
<1>3. ClockReadings /\ Expiries
  BY <1>1, <1>2 DEF ClockReadings, Expiries
<1>4. ASSUME NEW k \in Key, NEW t \in 0..MaxClock, Limit[k[1]] > 0
      PROVE  Within(k, t)
  <2>1. Added(k, t) = {} /\ Taking(k, t) = {} /\ Passed(k, t) = {} /\ InPeriod(window[k], k, t) = {}
    BY <1>1, <1>2 DEF Added, Taking, HasAdded, Takes, Passed, InPeriod
  <2>2. clock <= t
    BY <1>2, RateLimitAssumption
  <2>3. Limit[k[1]] \in Nat /\ Lost(k) \in Nat /\ Cardinality(Caller) \in Nat
    BY WithinSizes
  <2>4. Cardinality({}) = 0
    BY FS_EmptySet
  <2>5. clock \in Nat /\ t \in Nat
    BY <1>2, RateLimitAssumption
  <2>6. Cardinality(Added(k, t)) = 0 /\ Cardinality(Taking(k, t)) = 0
        /\ Cardinality(Passed(k, t)) = 0 /\ Cardinality(InPeriod(window[k], k, t)) = 0
    BY <2>1, <2>4
  <2> QED BY <1>4, <2>2, <2>3, <2>5, <2>6 DEF Within
<1> QED BY <1>3, <1>4 DEF WithinIInv

\* What the rest of the gateway does leaves the limiter alone.
LEMMA WithinStutter ==
  ASSUME WithinIInv, UNCHANGED limitVars
  PROVE  WithinIInv'
<1>1. UNCHANGED <<clock, window, expireAt, check, admitted>>
  BY DEF limitVars
<1>2. ClockReadings'
  BY <1>1 DEF WithinIInv, ClockReadings
<1>3. Expiries'
  <2>1. \A o \in Caller : KeyAt(o)' = KeyAt(o)
    BY <1>1 DEF KeyAt
  <2> QED BY <1>1, <2>1 DEF WithinIInv, Expiries
<1>4. ASSUME NEW k \in Key, NEW t \in 0..MaxClock, Limit[k[1]] > 0
      PROVE  Within(k, t)'
  <2>1. /\ Passed(k, t)' = Passed(k, t) /\ Added(k, t)' = Added(k, t)
        /\ Taking(k, t)' = Taking(k, t) /\ Flying(k, t)' = Flying(k, t) /\ Lost(k)' = Lost(k)
    BY <1>1 DEF Passed, Added, Taking, Flying, Lost
  <2> QED BY <1>1, <1>4, <2>1 DEF WithinIInv, Within
<1> QED BY <1>2, <1>3, <1>4 DEF WithinIInv

\* Every step of the gateway, and a stutter, leaves the limiter alone or is one of its
\* steps.
LEMMA LimiterMoves ==
  ASSUME [Next]_allVars
  PROVE  \/ UNCHANGED limitVars
         \/ \E c \in Caller : \/ \E u : Enter(c, u)
                              \/ Checking(c) \/ Leave(c)
         \/ Tick
         \/ \E k \in Key : KeyExpires(k)
<1> DEFINE Moves == \/ UNCHANGED limitVars
                    \/ \E c \in Caller : \/ \E u : Enter(c, u)
                                         \/ Checking(c) \/ Leave(c)
                    \/ Tick
                    \/ \E k \in Key : KeyExpires(k)
<1>1. CASE Set \/ InsertFilters \/ UNCHANGED allVars
  BY <1>1 DEF Set, InsertFilters, allVars
<1>2. CASE Limiter
  BY <1>2 DEF Limiter
<1>3. ASSUME NEW c \in Caller, NEW r, Arrive(c, r) PROVE Moves
  BY <1>3 DEF Arrive
<1>4. ASSUME NEW c \in Caller, Filtering(c) PROVE Moves
  <2>1. CASE DemoAuthFilter(c)
    BY <2>1 DEF DemoAuthFilter, PassFilter
  <2>2. CASE PlatformAuthFilter(c)
    <3>1. PICK r : r = http[c].req
      OBVIOUS
    <3>2. \/ \E status \in {400, 401, 403, 500} : Refuse(c, status)
          \/ PassFilter(c, DemoData(r))
          \/ PassFilter(c, [ip |-> r.ip, platform |-> r.platform, user |-> r.header])
      BY <2>2, <3>1, ZenonT(60) DEF PlatformAuthFilter
    <3> QED BY <3>2 DEF Refuse, PassFilter
  <2>3. CASE AdminAuthFilter(c)
    <3>1. Refuse(c, 401) \/ PassFilter(c, http[c].data)
      BY <2>3 DEF AdminAuthFilter
    <3> QED BY <3>1 DEF Refuse, PassFilter
  <2>4. CASE EnterLimiter(c)
    <3>1. Enter(c, Sender(c))
      BY <2>4 DEF EnterLimiter
    <3> QED BY <3>1
  <2>5. CASE LeaveLimiter(c)
    BY <2>5 DEF LeaveLimiter
  <2> QED BY <1>4, <2>1, <2>2, <2>3, <2>4, <2>5 DEF Filtering
<1>5. ASSUME NEW c \in Caller, Bet(c) \/ GameEvent(c) \/ Drawresult(c) \/ Return(c) PROVE Moves
  <2>1. CASE Return(c)
    BY <2>1 DEF Return
  <2>2. CASE Bet(c)
    <3>1. BadBody(c) \/ \E s, o, took, in : Answer(c, s, o, took, in)
      BY <2>2, Zenon DEF Bet
    <3> QED BY <3>1 DEF BadBody, Answer
  <2>3. CASE GameEvent(c)
    <3>1. BadBody(c) \/ \E s, o, took, in : Answer(c, s, o, took, in)
      BY <2>3, Zenon DEF GameEvent
    <3> QED BY <3>1 DEF BadBody, Answer
  <2>4. CASE Drawresult(c)
    <3>1. BadBody(c) \/ \E s, o, took, in : Answer(c, s, o, took, in)
      BY <2>4, Zenon DEF Drawresult
    <3> QED BY <3>1 DEF BadBody, Answer
  <2> QED BY <1>5, <2>1, <2>2, <2>3, <2>4
<1> QED
  <2> HIDE DEF Moves
  <2>1. Moves
    BY <1>1, <1>2, <1>3, <1>4, <1>5 DEF Next, Moves
  <2> QED BY <2>1 DEF Moves

\* Every step of the gateway keeps the count.
LEMMA NextKeepsWithin ==
  ASSUME GatewayIInv, GatewayIInv', WithinIInv, [Next]_allVars
  PROVE  WithinIInv'
<1>0. LimitIInv /\ LimitIInv' /\ LimitTypeOK /\ LimitTypeOK'
  BY DEF GatewayIInv, LimitIInv
<1>1. CASE UNCHANGED limitVars
  BY <1>1, WithinStutter
<1>2. CASE Tick \/ \E k \in Key : KeyExpires(k)
  BY <1>0, <1>2, TimeWithin
<1>3. ASSUME NEW c \in Caller, NEW u, Enter(c, u) PROVE WithinIInv'
  <2>1. /\ check' = [check EXCEPT ![c] = [NoCheck EXCEPT !.pc = "next", !.client = u]]
        /\ UNCHANGED <<clock, window, expireAt, admitted>>
    BY <1>3 DEF Enter
  <2>2. \A o \in Caller \ {c} : check'[o] = check[o]
    BY <1>0, <2>1 DEF LimitTypeOK
  <2>3. check'[c].pc = "next"
    BY <1>0, <2>1 DEF LimitTypeOK, NoCheck
  <2> QED BY <1>0, <2>1, <2>2, <2>3, QuietWithin
<1>4. ASSUME NEW c \in Caller, Pass(c) \/ PipelineFails(c) \/ Leave(c) PROVE WithinIInv'
  <2>1. check \in [Caller -> CheckState]
    BY <1>0 DEF LimitTypeOK
  <2>2. UNCHANGED <<clock, window, expireAt, admitted>>
    BY <1>4 DEF Pass, PipelineFails, Leave
  <2>3. CASE Pass(c) \/ PipelineFails(c)
    <3>1. PICK pc \in {"next", "passed"} : check' = [check EXCEPT ![c].pc = pc]
      BY <2>3 DEF Pass, PipelineFails
    <3>2. check'[c].pc = pc /\ \A o \in Caller \ {c} : check'[o] = check[o]
      BY <2>1, <3>1, CheckMoves
    <3> QED BY <1>0, <2>2, <3>2, QuietWithin
  <2>4. CASE Leave(c)
    <3>1. check'[c].pc = "idle" /\ \A o \in Caller \ {c} : check'[o] = check[o]
      BY <2>1, <2>4 DEF Leave, NoCheck
    <3> QED BY <1>0, <2>2, <3>1, QuietWithin
  <2> QED BY <1>4, <2>3, <2>4
<1>5. ASSUME NEW c \in Caller, Checking(c) PROVE WithinIInv'
  BY <1>0, <1>4, <1>5, BeginWithin, TrimWithin, CountWithin, AddWithin, DecideWithin DEF Checking
<1> QED BY <1>1, <1>2, <1>3, <1>4, <1>5, LimiterMoves

-------------------------------------------------------------------------------
(* Theorems *)

\* The invariant holds before anything was configured.
LEMMA GatewayInit == Init => GatewayIInv
<1> SUFFICES ASSUME Init PROVE GatewayIInv
  OBVIOUS
<1>1. LimitIInv
  BY LimitInitIInv DEF Init
<1>2. conf = Null /\ routes = Null /\ http = [c \in Caller |-> Idle]
  BY DEF Init
<1>3. PICK Any : Any = {"idle", Null, <<>>, NoReply}
  OBVIOUS
<1>4. http \in [Caller -> Http(Any)]
  BY <1>2, <1>3 DEF Http, Idle
<1>5. HttpShape
  BY <1>4 DEF HttpShape
<1>6. \A c \in Caller : RequestSound(http[c], conf, routes)
  BY <1>2, IdleSound
<1> QED BY <1>1, <1>2, <1>5, <1>6 DEF GatewayIInv, RoutesSound

\* Every step of the gateway, and a stutter, keeps the invariant.
LEMMA NextKeepsGatewayIInv == GatewayIInv /\ [Next]_allVars => GatewayIInv'
<1> SUFFICES ASSUME GatewayIInv, [Next]_allVars PROVE GatewayIInv'
  OBVIOUS
<1>1. CASE Set
  BY <1>1, SetStep
<1>2. CASE InsertFilters
  BY <1>2, InsertFiltersStep
<1>3. CASE Limiter
  BY <1>3, LimiterStep
<1>4. ASSUME NEW c \in Caller, conf # Null, NEW r \in Offered[conf], Arrive(c, r)
      PROVE  GatewayIInv'
  <2>1. conf \in Config
    BY <1>4 DEF GatewayIInv
  <2> QED BY <1>4, <2>1, ArriveStep
<1>5. ASSUME NEW c \in Caller, Filtering(c)
      PROVE  GatewayIInv'
  <2>1. CASE DemoAuthFilter(c) \/ PlatformAuthFilter(c) \/ AdminAuthFilter(c)
    BY <2>1, AuthStep
  <2>2. CASE EnterLimiter(c)
    BY <2>2, EnterLimiterStep
  <2>3. CASE LeaveLimiter(c)
    BY <2>3, LeaveLimiterStep
  <2> QED BY <1>5, <2>1, <2>2, <2>3 DEF Filtering
<1>6. ASSUME NEW c \in Caller, Bet(c) \/ GameEvent(c) \/ Drawresult(c) \/ Return(c)
      PROVE  GatewayIInv'
  BY <1>6, BetStep, EventStep, DrawStep, ReturnStep
<1>7. CASE UNCHANGED allVars
  <2>1. UNCHANGED <<limitVars, conf, routes, http>>
    BY <1>7 DEF allVars
  <2> QED BY <2>1, LimitStutter DEF GatewayIInv, HttpShape
<1> QED BY <1>1, <1>2, <1>3, <1>4, <1>5, <1>6, <1>7 DEF Next

\* The gateway's invariant holds in every state.
THEOREM GatewayInvariant == Spec => []GatewayIInv
BY GatewayInit, NextKeepsGatewayIInv, PTL DEF Spec

\* Every variable of the gateway and of the limiter has its type in every state.
THEOREM GatewayTyped == Spec => []GatewayTypeOK
<1>1. GatewayIInv => GatewayTypeOK
  <2> SUFFICES ASSUME GatewayIInv PROVE GatewayTypeOK
    OBVIOUS
  <2>1. ASSUME routes # Null, NEW p \in DOMAIN routes, NEW i \in DOMAIN routes[p]
        PROVE  routes[p][i] \in Filter
    <3>1. PICK bet, event, draw :
            /\ routes = [bet |-> bet, event |-> event, draw |-> draw]
            /\ event \in {<<>>, <<"admin_auth">>} /\ draw \in {<<>>, <<"admin_auth">>}
            /\ bet \in {<<"platform_auth">>, <<"platform_auth", "rate_limit">>,
                        <<"demo_auth">>, <<"demo_auth", "rate_limit">>}
      BY <2>1 DEF GatewayIInv, RoutesSound
    <3>2. \A row \in {bet, event, draw} : row \in Seq(Filter)
      <4>1. <<>> \in Seq(Filter)
        OBVIOUS
      <4>2. \A x \in Filter : <<x>> \in Seq(Filter)
        OBVIOUS
      <4>3. \A x, y \in Filter : <<x, y>> \in Seq(Filter)
        OBVIOUS
      <4>4. {"demo_auth", "platform_auth", "rate_limit", "admin_auth"} \subseteq Filter
        BY DEF Filter
      <4> QED BY <3>1, <4>1, <4>2, <4>3, <4>4
    <3>3. routes[p] \in {bet, event, draw}
      BY <2>1, <3>1
    <3>4. routes[p] \in Seq(Filter)
      BY <3>2, <3>3
    <3> QED BY <2>1, <3>4
  <2>2. \A c \in Caller : RequestSound(http[c], conf, routes)
    BY DEF GatewayIInv
  <2>3. \A c \in Caller :
          /\ http[c].pc \in {"idle", "filters", "limiting", "answered"}
          /\ http[c].data \in Client \cup {Null}
          /\ http[c].reply.status \in {0, 200, 202, 400, 401, 403, 404, 409, 429, 500}
    BY <2>2 DEF RequestSound, Statuses
  <2> QED BY <2>1, <2>3 DEF GatewayTypeOK, GatewayIInv, LimitIInv
<1> QED BY <1>1, GatewayInvariant, PTL

\* Nobody is refused by the limiter for requests of another key or for old ones, whatever
\* the interleaving of the pipelines, their failures and the expiry of keys.
THEOREM GatewayRefusalsAreEarned == Spec => []RefusalsAreEarned
<1>1. GatewayIInv => RefusalsAreEarned
  BY RefusalsEarned DEF GatewayIInv
<1> QED BY <1>1, GatewayInvariant, PTL

\* In no window does a key get more past the limiter than its limit and what the requests
\* in flight take beyond it: two for each connection in windows of a second, three in
\* longer ones, where an older expiry may take the entries of those in flight with it.
THEOREM GatewayAdmittedWithinLimit == Spec => []AdmittedWithinLimit
<1>1. Init => WithinIInv
  BY WithinInit DEF Init
<1>2. GatewayIInv /\ GatewayIInv' /\ WithinIInv /\ [Next]_allVars => WithinIInv'
  BY NextKeepsWithin
<1>3. GatewayIInv /\ WithinIInv => AdmittedWithinLimit
  <2> SUFFICES ASSUME GatewayIInv, WithinIInv, NEW k \in Key, NEW t \in 0..MaxClock, Limit[k[1]] > 0
               PROVE  Cardinality(Passed(k, t))
                        <= Limit[k[1]] - 1 + Excess(k[1]) * Cardinality(Caller)
    BY DEF AdmittedWithinLimit, Passed
  <2>1. Within(k, t)
    BY DEF WithinIInv
  <2>2. /\ Limit[k[1]] \in Nat /\ Lost(k) \in Nat /\ Cardinality(Caller) \in Nat
    BY WithinSizes
  <2>3. Cardinality(Taking(k, t)) \in Nat /\ Cardinality(Flying(k, t)) \in Nat
    <3>1. Taking(k, t) \in SUBSET Caller /\ Flying(k, t) \in SUBSET Caller
      BY DEF Taking, Flying
    <3> QED BY <3>1, WithinSizes
  <2>4. Cardinality(Passed(k, t)) \in Nat /\ clock \in Nat /\ t \in Nat
    <3>1. admitted[k] \in SUBSET Entry /\ clock \in Nat /\ t \in Nat
      BY RateLimitAssumption DEF GatewayIInv, LimitIInv, LimitTypeOK
    <3>2. Cardinality(InPeriod(admitted[k], k, t)) \in Nat
      BY <3>1, WithinSizes
    <3> QED BY <3>1, <3>2 DEF Passed
  <2>5. Cardinality(Passed(k, t)) <= Limit[k[1]] - 1 + Lost(k) + 2 * Cardinality(Caller)
    BY <2>1, <2>2, <2>3, <2>4 DEF Within
  <2>6. CASE Period[k[1]] = 1
    <3>1. Lost(k) = 0 /\ Excess(k[1]) = 2
      BY <2>6 DEF Lost, Excess
    <3> QED BY <2>2, <2>4, <2>5, <3>1
  <2>7. CASE Period[k[1]] # 1
    <3>1. Lost(k) = Cardinality(Caller) /\ Excess(k[1]) = 3
      BY <2>7 DEF Lost, Excess
    <3> QED BY <2>2, <2>4, <2>5, <3>1
  <2> QED BY <2>6, <2>7
<1> QED BY <1>1, <1>2, <1>3, GatewayInvariant, PTL DEF Spec

\* Whichever parser a body goes through, the service only sees what it relies on.
THEOREM GatewayServiceInputsAreSound == Spec => []ServiceInputsAreSound
<1>1. GatewayIInv => ServiceInputsAreSound
  <2> SUFFICES ASSUME GatewayIInv, NEW c \in Caller, http[c].reply.input.valid
               PROVE  /\ http[c].req.path = "bet" =>
                           /\ http[c].reply.input.play \in 1..3
                           /\ Amount[http[c].reply.input.amount.core] % 10 = 0
                           /\ Amount[http[c].reply.input.amount.core] >= 0
                      /\ http[c].req.path = "event" =>
                           /\ http[c].reply.input.event \in 1..5
                           /\ http[c].reply.input.round.core # ""
    BY DEF ServiceInputsAreSound, Served
  <2>1. RequestSound(http[c], conf, routes)
    BY DEF GatewayIInv
  <2>2. http[c].reply # NoReply
    <3>1. ~ NoReply.input.valid
      BY DEF NoReply, Invalid
    <3> QED BY <3>1, Zenon
  <2>3. AnswerSound(http[c].req, http[c].reply, conf)
    BY <2>1, <2>2 DEF RequestSound
  <2> QED BY <2>3 DEF AnswerSound
<1> QED BY <1>1, GatewayInvariant, PTL

\* The status that a client is answered with tells what was done.
THEOREM GatewayAnswersTellTheOutcome == Spec => []AnswersTellTheOutcome
<1>1. GatewayIInv => AnswersTellTheOutcome
  <2> SUFFICES ASSUME GatewayIInv, NEW c \in Caller, http[c].pc = "answered"
               PROVE  LET reply == http[c].reply IN
                      /\ reply.status = 200 => reply.outcome = "ok"
                      /\ reply.status = 202 <=> reply.outcome = "in_flight"
                      /\ reply.status = 429 <=> reply.outcome = "limit"
                      /\ reply.took /\ http[c].req.path # "event" => reply.status \in {200, 500}
    BY DEF AnswersTellTheOutcome
  <2>1. AnswerSound(http[c].req, http[c].reply, conf)
    BY DEF GatewayIInv, RequestSound
  <2> QED BY <2>1 DEF AnswerSound
<1> QED BY <1>1, GatewayInvariant, PTL

\* A bet that gets to the service is the bet of the customer its request stands for, though
\* the filter that says so was chosen before the configuration was set.
THEOREM GatewayBetsAreAttributed == Spec => []BetsAreAttributed
<1>1. GatewayIInv => BetsAreAttributed
  <2> SUFFICES ASSUME GatewayIInv, NEW c \in Caller, http[c].reply.input.valid,
                      http[c].req.path = "bet"
               PROVE  LET r == http[c].req
                          customer == http[c].reply.input.user
                      IN IF conf.demo
                         THEN customer = [platform |-> conf.demoPlatform, user |-> DemoUser(r)]
                         ELSE /\ r.proof = "good" /\ r.platform \in conf.platforms
                              /\ customer = [platform |-> r.platform, user |-> r.header]
    BY DEF BetsAreAttributed, Served
  <2>1. RequestSound(http[c], conf, routes)
    BY DEF GatewayIInv
  <2>2. http[c].reply # NoReply
    <3>1. ~ NoReply.input.valid
      BY DEF NoReply, Invalid
    <3> QED BY <3>1, Zenon
  <2>3. AnswerSound(http[c].req, http[c].reply, conf)
    BY <2>1, <2>2 DEF RequestSound
  <2>4. /\ Authentic(http[c].req, conf)
        /\ http[c].reply.input.user = [platform |-> CustomerOf(http[c].req, conf).platform,
                                       user |-> CustomerOf(http[c].req, conf).user]
    BY <2>3 DEF AnswerSound
  <2>5. CASE conf.demo
    BY <2>4, <2>5 DEF CustomerOf
  <2>6. CASE ~ conf.demo
    BY <2>4, <2>6 DEF CustomerOf, Authentic
  <2> QED BY <2>5, <2>6
<1> QED BY <1>1, GatewayInvariant, PTL

\* The order of a list's tokens never decides a draw: what passes the validator with a
\* card of each side has no second card of a side and no second result.
THEOREM GatewayDrawOrderIrrelevant == Spec => []DrawOrderIrrelevant
<1>1. GatewayIInv => DrawOrderIrrelevant
  <2> SUFFICES ASSUME GatewayIInv, NEW c \in Caller, http[c].reply.input.valid,
                      http[c].req.path = "draw"
               PROVE  OrderIrrelevant(http[c].reply.input.cards)
    BY Zenon DEF DrawOrderIrrelevant, Served, OrderIrrelevant, OrdersOf, Reordered
  <2>1. RequestSound(http[c], conf, routes)
    BY DEF GatewayIInv
  <2>2. http[c].reply # NoReply
    <3>1. ~ NoReply.input.valid
      BY DEF NoReply, Invalid
    <3> QED BY <3>1, Zenon
  <2>3. AnswerSound(http[c].req, http[c].reply, conf)
    BY <2>1, <2>2 DEF RequestSound
  <2> QED BY <2>3 DEF AnswerSound
<1> QED BY <1>1, GatewayInvariant, PTL
===============================================================================
