------------------------------- MODULE JsonProofs -------------------------------
(***************************************************************************)
(* The cursor of the JSON library is a position in a text.  However a      *)
(* reader splits the text into chunks, the routines that every other one   *)
(* is built from return the bytes of the text one after the other, find    *)
(* the next token across any number of refills, and capture the text       *)
(* between two positions.  And a reader of integers gets every number      *)
(* that fits its type; of the others it refuses some.                      *)
(***************************************************************************)
EXTENDS JsonCursor, FoldLemmas, SequenceTheorems

\* Iterators, whatever the routine before may have returned.
Iterator(Byte, Answer) ==
  [buf : Seq(Byte), head : Nat, reader : BOOLEAN, rest : Seq(Seq(Byte)), end : {"eof", "bad"},
   err : {"none", "eof", "bad"}, from : Nat \cup {-1}, captured : Seq(Byte), depth : Int, ret : Answer]

\* A part is what the text says after position q.
Copies(part, text, q) == \A j \in 1..Len(part) : part[j] = text[q + j]

\* A part is what the text says between two positions.
Between(part, text, s, p) == s + Len(part) = p /\ Copies(part, text, s)

\* The chunks are the text from position q on, none of them empty; cut[i] is the position
\* where chunk i ends.
Cuts(cut, chunks, text, q) ==
  /\ cut[0] = q
  /\ cut[Len(chunks)] = Len(text)
  /\ \A i \in 1..Len(chunks) :
       /\ Len(chunks[i]) > 0
       /\ cut[i] = cut[i - 1] + Len(chunks[i])
       /\ Copies(chunks[i], text, cut[i - 1])

Makes(chunks, text, q) ==
  \E cut \in [0..Len(chunks) -> 0..Len(text)] : Cuts(cut, chunks, text, q)

\* An iterator is at position p of a text: its buffer and what its reader will deliver are
\* the text around p and after it.
IsAt(it, text, p) ==
  /\ p \in Nat /\ it.head \in 0..Len(it.buf) /\ it.head <= p
  /\ Copies(it.buf, text, p - it.head)
  /\ Makes(it.rest, text, p - it.head + Len(it.buf))
  /\ it.reader \/ it.rest = <<>>

\* Position s is where a capture that is under way began; the text from there to where the
\* buffer's part begins is kept.
CapturesFrom(it, text, s, p) ==
  /\ s \in Nat /\ it.from \in 0..it.head
  /\ Between(it.captured, text, s, p - it.head + it.from)

\* An iterator that was at position p is at q, and its capture goes on.
Moved(after, it, text, p, q) ==
  /\ IsAt(after, text, q)
  /\ after.err = it.err /\ after.end = it.end /\ after.reader = it.reader
  /\ it.from = -1 => after.from = -1
  /\ \A s : CapturesFrom(it, text, s, p) => CapturesFrom(after, text, s, q)

\* The error of an iterator that finds no more.
ErrAtEnd(it) ==
  IF it.err # "none" THEN it.err ELSE IF it.reader THEN it.end ELSE "eof"

\* The first chunk, and the others, of what is left.
LEMMA MakesHead ==
  ASSUME NEW Byte, NEW text \in Seq(Byte), NEW chunks \in Seq(Seq(Byte)), NEW q,
         Makes(chunks, text, q)
  PROVE  /\ q \in 0..Len(text)
         /\ chunks = <<>> => q = Len(text)
         /\ chunks # <<>> =>
              /\ Head(chunks) \in Seq(Byte) /\ Len(Head(chunks)) > 0
              /\ Copies(Head(chunks), text, q)
              /\ Makes(Tail(chunks), text, q + Len(Head(chunks)))
<1>1. PICK cut \in [0..Len(chunks) -> 0..Len(text)] : Cuts(cut, chunks, text, q)
  BY DEF Makes
<1>2. Len(chunks) \in Nat /\ Len(text) \in Nat
  OBVIOUS
<1>3. q \in 0..Len(text) /\ (chunks = <<>> => q = Len(text))
  BY <1>1, <1>2 DEF Cuts
<1>4. ASSUME chunks # <<>>
      PROVE  /\ Head(chunks) \in Seq(Byte) /\ Len(Head(chunks)) > 0
             /\ Copies(Head(chunks), text, q)
             /\ Makes(Tail(chunks), text, q + Len(Head(chunks)))
  <2>1. PICK n : n = Len(chunks)
    OBVIOUS
  <2>2. PICK tail : tail = Tail(chunks)
    OBVIOUS
  <2>3. n \in Nat /\ n > 0 /\ 1 \in 1..n
    BY <1>4, <2>1
  <2>4. /\ tail \in Seq(Seq(Byte)) /\ Len(tail) = n - 1
        /\ \A i \in 1..(n - 1) : tail[i] = chunks[i + 1]
    BY <1>4, <2>1, <2>2
  <2>5. Head(chunks) = chunks[1] /\ chunks[1] \in Seq(Byte)
    BY <1>4, <2>1, <2>3
  <2>6. /\ Len(chunks[1]) > 0
        /\ cut[1] = q + Len(chunks[1])
        /\ Copies(chunks[1], text, q)
    <3>1. /\ Len(chunks[1]) > 0
          /\ cut[1] = cut[1 - 1] + Len(chunks[1])
          /\ Copies(chunks[1], text, cut[1 - 1])
      BY <1>1, <2>1, <2>3 DEF Cuts
    <3>2. cut[1 - 1] = q
      BY <1>1 DEF Cuts
    <3> QED BY <3>1, <3>2
  <2> DEFINE later == [i \in 0..(n - 1) |-> cut[i + 1]]
  <2>7. later \in [0..(n - 1) -> 0..Len(text)]
    <3>1. \A i \in 0..(n - 1) : i + 1 \in 0..n
      BY <2>3
    <3> QED BY <1>1, <2>1, <3>1
  <2>8. Cuts(later, tail, text, q + Len(chunks[1]))
    <3>1. later[0] = q + Len(chunks[1])
      BY <2>3, <2>6
    <3>2. later[n - 1] = Len(text)
      BY <1>1, <2>1, <2>3 DEF Cuts
    <3>3. ASSUME NEW i \in 1..(n - 1)
          PROVE  /\ Len(tail[i]) > 0
                 /\ later[i] = later[i - 1] + Len(tail[i])
                 /\ Copies(tail[i], text, later[i - 1])
      <4>1. PICK k : k = i + 1
        OBVIOUS
      <4>2. k \in 1..n /\ k - 1 = i /\ i \in 0..(n - 1) /\ i - 1 \in 0..(n - 1) /\ (i - 1) + 1 = i
        BY <2>3, <4>1
      <4>3. later[i] = cut[k] /\ later[i - 1] = cut[k - 1] /\ tail[i] = chunks[k]
        BY <2>4, <4>1, <4>2
      <4>4. /\ Len(chunks[k]) > 0
            /\ cut[k] = cut[k - 1] + Len(chunks[k])
            /\ Copies(chunks[k], text, cut[k - 1])
        BY <1>1, <2>1, <4>2 DEF Cuts
      <4> HIDE DEF later
      <4> QED BY <4>3, <4>4
    <3> HIDE DEF later
    <3> QED BY <2>4, <3>1, <3>2, <3>3 DEF Cuts
  <2>9. Makes(tail, text, q + Len(chunks[1]))
    <3> HIDE DEF later
    <3> QED BY <2>4, <2>7, <2>8 DEF Makes
  <2> QED BY <2>2, <2>5, <2>6, <2>9
<1> QED BY <1>3, <1>4

-------------------------------------------------------------------------------
(* Refills *)

\* A text and a part of a buffer behind it.
Join(old, buf, from, to) == old \o SubSeq(buf, from + 1, to)

\* What it consists of.
Joins(new, old, buf, from, to) ==
  /\ Len(new) = Len(old) + (to - from)
  /\ \A j \in 1..Len(old) : new[j] = old[j]
  /\ \A i \in 1..(to - from) : new[Len(old) + i] = buf[from + i]

LEMMA JoinedParts ==
  ASSUME NEW Byte, NEW old \in Seq(Byte), NEW buf \in Seq(Byte), NEW from \in Nat, NEW to \in Nat,
         from <= to, to <= Len(buf)
  PROVE  /\ Join(old, buf, from, to) \in Seq(Byte)
         /\ Joins(Join(old, buf, from, to), old, buf, from, to)
<1>1. PICK part : part = SubSeq(buf, from + 1, to)
  OBVIOUS
<1>2. part \in Seq(Byte) /\ Len(part) = to - from
  BY <1>1
<1>3. \A i \in 1..(to - from) : part[i] = buf[from + i]
  BY <1>1, <1>2
<1>4. PICK new : new = old \o part
  OBVIOUS
<1>5. /\ new \in Seq(Byte) /\ Len(new) = Len(old) + Len(part)
      /\ \A i \in 1..Len(old) + Len(part) : new[i] = IF i <= Len(old) THEN old[i] ELSE part[i - Len(old)]
  BY <1>2, <1>4, ConcatProperties, Zenon
<1>6. Len(old) \in Nat /\ Len(part) \in Nat
  BY <1>2
<1>7. \A j \in 1..Len(old) : new[j] = old[j]
  BY <1>5, <1>6
<1>8. ASSUME NEW i \in 1..Len(part) PROVE new[Len(old) + i] = part[i]
  BY <1>5, <1>6
<1>9. new = Join(old, buf, from, to)
  BY <1>1, <1>4, Zenon DEF Join
<1>10. Joins(new, old, buf, from, to)
  BY <1>2, <1>3, <1>5, <1>7, <1>8 DEF Joins
<1> QED BY <1>5, <1>9, <1>10

\* What is kept of a text from s on, and a part of a buffer that holds what follows.
LEMMA PartsJoin ==
  ASSUME NEW Byte, NEW text, NEW old \in Seq(Byte), NEW buf \in Seq(Byte),
         NEW from \in Nat, NEW to \in Nat, from <= to, to <= Len(buf),
         NEW s \in Nat, NEW base \in Nat, Between(old, text, s, base + from),
         Copies(buf, text, base)
  PROVE  /\ Join(old, buf, from, to) \in Seq(Byte)
         /\ Between(Join(old, buf, from, to), text, s, base + to)
<1>1. PICK new : new = Join(old, buf, from, to)
  OBVIOUS
<1>2. new \in Seq(Byte) /\ Joins(new, old, buf, from, to)
  BY <1>1, JoinedParts
<1>3. PICK n, m : n = Len(old) /\ m = Len(buf)
  OBVIOUS
<1>4. n \in Nat /\ m \in Nat /\ s + n = base + from /\ to <= m
  BY <1>3 DEF Between
<1>5. /\ Len(new) = n + (to - from)
      /\ \A j \in 1..n : new[j] = old[j]
      /\ \A i \in 1..(to - from) : new[n + i] = buf[from + i]
  BY <1>2, <1>3, Zenon DEF Joins
<1>6. s + Len(new) = base + to
  BY <1>4, <1>5
<1>7. ASSUME NEW j \in 1..Len(new) PROVE new[j] = text[s + j]
  <2>1. CASE j <= n
    BY <1>3, <1>4, <1>5, <2>1 DEF Between, Copies
  <2>2. CASE j > n
    <3>1. PICK i : i = j - n
      OBVIOUS
    <3>2. i \in 1..(to - from) /\ j = n + i /\ from + i \in 1..m
      BY <1>4, <1>5, <2>2, <3>1
    <3>3. new[j] = buf[from + i]
      BY <1>5, <3>2
    <3>4. buf[from + i] = text[base + (from + i)]
      BY <1>3, <3>2 DEF Copies
    <3>5. base + (from + i) = s + j
      BY <1>4, <3>2
    <3> QED BY <3>3, <3>4, <3>5
  <2> QED BY <1>4, <1>5, <2>1, <2>2
<1>8. Between(new, text, s, base + to)
  BY <1>6, <1>7 DEF Between, Copies
<1> QED BY <1>1, <1>2, <1>8

\* An iterator with another capture, and otherwise the same.
Recaptured(kept, it, new, from) ==
  /\ kept.buf = it.buf /\ kept.head = it.head /\ kept.reader = it.reader
  /\ kept.rest = it.rest /\ kept.end = it.end /\ kept.err = it.err
  /\ kept.from = from /\ kept.captured = new

LEMMA CaptureSet ==
  ASSUME NEW Byte, NEW Answer, NEW it \in Iterator(Byte, Answer), NEW new \in Seq(Byte),
         NEW from \in Nat \cup {-1}
  PROVE  /\ [it EXCEPT !.captured = new, !.from = from] \in Iterator(Byte, Answer)
         /\ Recaptured([it EXCEPT !.captured = new, !.from = from], it, new, from)
  BY DEF Iterator, Recaptured

\* An iterator whose buffer is the next chunk.
Refreshed(more, it, b, t, yes) ==
  /\ more.ret = yes /\ more.head = 0 /\ more.buf = b /\ more.rest = t
  /\ more.reader = it.reader /\ more.end = it.end /\ more.err = it.err
  /\ more.from = it.from /\ more.captured = it.captured

LEMMA BufferSet ==
  ASSUME NEW Byte, NEW Answer, NEW it \in Iterator(Byte, Answer), NEW b \in Seq(Byte),
         NEW t \in Seq(Seq(Byte)), NEW yes \in Answer,
         NEW more, more = [it EXCEPT !.buf = b, !.rest = t, !.head = 0, !.ret = yes]
  PROVE  more \in Iterator(Byte, Answer) /\ Refreshed(more, it, b, t, yes)
  BY DEF Iterator, Refreshed

\* What the buffer holds is kept, and nothing else changes.
LEMMA KeptIsIterator ==
  ASSUME NEW Byte, NEW Answer, NEW it \in Iterator(Byte, Answer), NEW kept, kept = KeepCaptured(it)
  PROVE  /\ kept \in Iterator(Byte, Answer)
         /\ it.from = -1 => kept = it
         /\ it.from # -1 =>
              Recaptured(kept, it, Join(it.captured, it.buf, it.from, Len(it.buf)), 0)
<1>1. CASE it.from = -1
  BY <1>1 DEF KeepCaptured
<1>2. CASE it.from # -1
  <2>1. PICK buf, from, old : buf = it.buf /\ from = it.from /\ old = it.captured
    OBVIOUS
  <2>2. buf \in Seq(Byte) /\ from \in Nat /\ old \in Seq(Byte)
    BY <1>2, <2>1 DEF Iterator
  <2>3. PICK new : new = Join(old, buf, from, Len(buf))
    OBVIOUS
  <2>4. new \in Seq(Byte)
    <3>1. SubSeq(buf, from + 1, Len(buf)) \in Seq(Byte)
      BY <2>2
    <3> QED BY <2>2, <2>3, <3>1 DEF Join
  <2>5. PICK zero \in Nat \cup {-1} : zero = 0
    OBVIOUS
  <2>6. kept = [it EXCEPT !.captured = new, !.from = zero]
    <3>1. kept = [it EXCEPT !.captured = it.captured \o SubSeq(it.buf, it.from + 1, Len(it.buf)),
                            !.from = 0]
      BY <1>2 DEF KeepCaptured, Text
    <3> QED BY <2>1, <2>3, <2>5, <3>1 DEF Join
  <2>7. kept \in Iterator(Byte, Answer) /\ Recaptured(kept, it, new, zero)
    <3>1. PICK k : k = [it EXCEPT !.captured = new, !.from = zero]
      OBVIOUS
    <3>2. k \in Iterator(Byte, Answer) /\ Recaptured(k, it, new, zero)
      BY <2>4, <3>1, CaptureSet
    <3> QED BY <2>6, <3>1, <3>2, Zenon
  <2> QED BY <1>2, <2>1, <2>3, <2>5, <2>7, Zenon
<1> QED BY <1>1, <1>2

\* The first chunk of many, and the others.
LEMMA FirstChunk ==
  ASSUME NEW Byte, NEW rest \in Seq(Seq(Byte)), rest # <<>>
  PROVE  Head(rest) \in Seq(Byte) /\ Tail(rest) \in Seq(Seq(Byte))
  OBVIOUS

\* The next chunk takes the buffer's place.
LEMMA RefilledIsIterator ==
  ASSUME NEW Byte, NEW Answer, BOOLEAN \subseteq Answer, NEW kept \in Iterator(Byte, Answer),
         kept.rest # <<>>, NEW more, more = Refill(kept)
  PROVE  /\ more \in Iterator(Byte, Answer)
         /\ Refreshed(more, kept, Head(kept.rest), Tail(kept.rest), TRUE)
<1>1. kept.rest \in Seq(Seq(Byte))
  BY DEF Iterator
<1>2. PICK b, t : b = Head(kept.rest) /\ t = Tail(kept.rest)
  OBVIOUS
<1>3. b \in Seq(Byte) /\ t \in Seq(Seq(Byte))
  BY <1>1, <1>2, FirstChunk, Zenon
<1>4. PICK yes \in Answer : yes = TRUE
  BY Zenon
<1>5. more = [kept EXCEPT !.buf = b, !.rest = t, !.head = 0, !.ret = yes]
  BY <1>2, <1>4, Zenon DEF Refill
<1>6. more \in Iterator(Byte, Answer) /\ Refreshed(more, kept, b, t, yes)
  BY <1>3, <1>5, BufferSet
<1> QED BY <1>2, <1>4, <1>6, Zenon

\* An iterator that was at p of a text and got the next chunk, at q.
Loaded(more, it, text, p, q) ==
  /\ more.ret = TRUE /\ more.head = 0 /\ Len(more.buf) > 0
  /\ more.rest = Tail(it.rest) /\ more.buf = Head(it.rest)
  /\ Moved(more, it, text, p, q)

\* A reader that has more fills the buffer with it: the iterator is where its old buffer
\* ended, and nothing of what is captured is lost.
LEMMA LoadMoreMoves ==
  ASSUME NEW Byte, NEW Answer, BOOLEAN \subseteq Answer, NEW it \in Iterator(Byte, Answer), it.rest # <<>>,
         NEW text \in Seq(Byte), NEW p, IsAt(it, text, p),
         NEW more, more = LoadMore(it), NEW q, q = p - it.head + Len(it.buf)
  PROVE  more \in Iterator(Byte, Answer) /\ Loaded(more, it, text, p, q)
<1>1. /\ it.buf \in Seq(Byte) /\ it.head \in Nat /\ it.rest \in Seq(Seq(Byte))
      /\ it.captured \in Seq(Byte) /\ it.from \in Nat \cup {-1} /\ it.reader
  BY DEF Iterator, IsAt
<1>2. PICK kept : kept = KeepCaptured(it)
  OBVIOUS
<1>3. more = Refill(kept)
  BY <1>1, <1>2 DEF LoadMore
<1>4. /\ kept \in Iterator(Byte, Answer)
      /\ it.from = -1 => kept = it
      /\ it.from # -1 => Recaptured(kept, it, Join(it.captured, it.buf, it.from, Len(it.buf)), 0)
  BY <1>2, KeptIsIterator
<1>a. /\ kept.reader = it.reader /\ kept.rest = it.rest /\ kept.end = it.end /\ kept.err = it.err
      /\ kept.from = IF it.from = -1 THEN -1 ELSE 0
      /\ it.from # -1 => kept.captured = Join(it.captured, it.buf, it.from, Len(it.buf))
  BY <1>4 DEF Recaptured
<1>b. more \in Iterator(Byte, Answer) /\ Refreshed(more, kept, Head(it.rest), Tail(it.rest), TRUE)
  BY <1>3, <1>4, <1>a, RefilledIsIterator
<1>5. /\ more.ret = TRUE /\ more.head = 0
      /\ more.buf = Head(it.rest) /\ more.rest = Tail(it.rest)
      /\ more.reader = it.reader /\ more.end = it.end /\ more.err = it.err
      /\ more.from = kept.from /\ more.captured = kept.captured
  BY <1>a, <1>b, Zenon DEF Refreshed
<1>6. /\ p \in Nat /\ it.head \in 0..Len(it.buf) /\ it.head <= p
      /\ Copies(it.buf, text, p - it.head)
      /\ Makes(it.rest, text, q)
  BY DEF IsAt
<1>7. /\ more.buf \in Seq(Byte) /\ Len(more.buf) > 0
      /\ Copies(more.buf, text, q)
      /\ Makes(more.rest, text, q + Len(more.buf))
  BY <1>1, <1>5, <1>6, MakesHead
<1>8. q \in Nat
  <2>1. PICK g, n : g = it.head /\ n = Len(it.buf)
    OBVIOUS
  <2>2. g \in Nat /\ n \in Nat /\ g <= p /\ p \in Nat /\ q = p - g + n
    BY <1>1, <1>6, <2>1
  <2> QED BY <2>2
<1>9. IsAt(more, text, q)
  <2>1. q - 0 = q /\ more.head \in 0..Len(more.buf) /\ more.head <= q
    BY <1>5, <1>7, <1>8
  <2> QED BY <1>1, <1>5, <1>7, <1>8, <2>1 DEF IsAt
<1>10. ASSUME NEW s, CapturesFrom(it, text, s, p) PROVE CapturesFrom(more, text, s, q)
  <2>1. s \in Nat /\ it.from \in 0..it.head /\ Between(it.captured, text, s, p - it.head + it.from)
    BY <1>10 DEF CapturesFrom
  <2>2. PICK buf, base, from : buf = it.buf /\ base = p - it.head /\ from = it.from
    OBVIOUS
  <2>3. /\ buf \in Seq(Byte) /\ base \in Nat /\ from \in Nat /\ from <= Len(buf)
        /\ q = base + Len(buf) /\ from # -1 /\ Len(buf) \in Nat
    <3>1. buf \in Seq(Byte) /\ Len(buf) \in Nat
      BY <1>1, <2>2
    <3>2. PICK h, n : h = it.head /\ n = Len(buf)
      OBVIOUS
    <3>3. h \in Nat /\ n \in Nat /\ h \in 0..n /\ from \in 0..h
      BY <1>1, <1>6, <2>1, <2>2, <3>1, <3>2
    <3>4. base = p - h /\ q = p - h + n /\ h <= p /\ p \in Nat
      BY <1>6, <2>2, <3>2
    <3>5. base \in Nat /\ from \in Nat /\ from <= n /\ q = base + n /\ from # -1
      BY <3>3, <3>4
    <3> QED BY <3>1, <3>2, <3>5
  <2>4. more.captured = Join(it.captured, buf, from, Len(buf)) /\ more.from = 0
    BY <1>a, <1>5, <2>2, <2>3
  <2>5. Between(it.captured, text, s, base + from)
    BY <2>1, <2>2
  <2>6. Copies(buf, text, base)
    BY <1>6, <2>2
  <2>7. Between(more.captured, text, s, q)
    <3>1. PICK m : m = Len(buf) /\ m \in Nat /\ from <= m /\ m <= Len(buf)
      BY <2>3
    <3>2. PICK old : old = it.captured
      OBVIOUS
    <3>3. old \in Seq(Byte) /\ Between(old, text, s, base + from) /\ s \in Nat
      BY <1>1, <2>1, <2>5, <3>2
    <3>4. Between(Join(old, buf, from, m), text, s, base + m)
      BY <2>3, <2>6, <3>1, <3>3, PartsJoin
    <3> QED BY <2>3, <2>4, <3>1, <3>2, <3>4
  <2>8. q = q - more.head + more.from /\ more.from \in 0..more.head
    BY <1>5, <1>8, <2>4
  <2> QED BY <2>1, <2>7, <2>8 DEF CapturesFrom
<1>11. it.from = -1 => more.from = -1
  BY <1>a, <1>5
<1>12. Moved(more, it, text, p, q)
  BY <1>5, <1>9, <1>10, <1>11, Zenon DEF Moved
<1> QED BY <1>b, <1>5, <1>7, <1>12 DEF Loaded

\* An iterator that found no more.
Ended(more, it) ==
  /\ more.ret = FALSE /\ more.err = ErrAtEnd(it)
  /\ more.buf = it.buf /\ more.rest = it.rest /\ more.reader = it.reader
  /\ more.head \in {it.head, Len(it.buf)}

\* A reader that has no more, or text that is all there: only the error tells.
LEMMA LoadMoreEnds ==
  ASSUME NEW Byte, NEW Answer, BOOLEAN \subseteq Answer, NEW it \in Iterator(Byte, Answer),
         it.rest = <<>> \/ ~ it.reader, NEW more, more = LoadMore(it)
  PROVE  more \in Iterator(Byte, Answer) /\ Ended(more, it)
<1>1. PICK no \in Answer : no = FALSE
  BY Zenon
<1>2. CASE it.reader
  <2>1. PICK kept : kept = KeepCaptured(it)
    OBVIOUS
  <2>2. /\ kept \in Iterator(Byte, Answer)
        /\ it.from = -1 => kept = it
        /\ it.from # -1 => Recaptured(kept, it, Join(it.captured, it.buf, it.from, Len(it.buf)), 0)
    BY <2>1, KeptIsIterator
  <2>3. /\ kept.buf = it.buf /\ kept.head = it.head /\ kept.reader = it.reader
        /\ kept.rest = it.rest /\ kept.end = it.end /\ kept.err = it.err
    BY <2>2, Zenon DEF Recaptured
  <2>4. PICK e : e = IF kept.err = "none" THEN kept.end ELSE kept.err
    OBVIOUS
  <2>5. more = [kept EXCEPT !.err = e, !.ret = no]
    BY <1>1, <1>2, <2>1, <2>3, <2>4 DEF LoadMore, Refill
  <2>6. e \in {"none", "eof", "bad"}
    BY <2>2, <2>4 DEF Iterator
  <2>7. /\ more \in Iterator(Byte, Answer)
        /\ more.ret = no /\ more.err = e /\ more.buf = kept.buf /\ more.rest = kept.rest
        /\ more.reader = kept.reader /\ more.head = kept.head
    <3>1. \A i \in Iterator(Byte, Answer) :
            [i EXCEPT !.err = e, !.ret = no] \in Iterator(Byte, Answer)
      BY <2>6 DEF Iterator
    <3>2. more \in Iterator(Byte, Answer)
      BY <2>2, <2>5, <3>1
    <3> QED BY <2>2, <2>5, <3>2 DEF Iterator
  <2>8. e = ErrAtEnd(it)
    BY <1>2, <2>3, <2>4 DEF ErrAtEnd
  <2> QED BY <1>1, <2>3, <2>7, <2>8 DEF Ended
<1>3. CASE ~ it.reader
  <2>1. PICK n : n = Len(it.buf)
    OBVIOUS
  <2>2. n \in Nat
    BY <2>1 DEF Iterator
  <2>3. CASE it.err = "none"
    <3>1. more = [it EXCEPT !.head = n, !.err = "eof", !.ret = no]
      BY <1>1, <1>3, <2>1, <2>3 DEF LoadMore
    <3>2. more \in Iterator(Byte, Answer)
      BY <2>2, <3>1 DEF Iterator
    <3>3. /\ more.ret = no /\ more.err = "eof" /\ more.buf = it.buf /\ more.rest = it.rest
          /\ more.reader = it.reader /\ more.head = n
      BY <3>1 DEF Iterator
    <3>4. ErrAtEnd(it) = "eof"
      BY <1>3, <2>3 DEF ErrAtEnd
    <3> QED BY <1>1, <2>1, <3>2, <3>3, <3>4 DEF Ended
  <2>4. CASE it.err # "none"
    <3>1. more = [it EXCEPT !.ret = no]
      BY <1>1, <1>3, <2>4 DEF LoadMore
    <3>2. more \in Iterator(Byte, Answer)
      BY <3>1 DEF Iterator
    <3>3. /\ more.ret = no /\ more.err = it.err /\ more.buf = it.buf /\ more.rest = it.rest
          /\ more.reader = it.reader /\ more.head = it.head
      BY <3>1 DEF Iterator
    <3>4. ErrAtEnd(it) = it.err
      BY <2>4 DEF ErrAtEnd
    <3> QED BY <1>1, <3>2, <3>3, <3>4 DEF Ended
  <2> QED BY <2>3, <2>4
<1> QED BY <1>2, <1>3

-------------------------------------------------------------------------------
(* The head *)

\* An iterator with another head.
Headed(after, it, h, x) ==
  /\ after.ret = x /\ after.head = h
  /\ after.buf = it.buf /\ after.rest = it.rest /\ after.reader = it.reader
  /\ after.end = it.end /\ after.err = it.err
  /\ after.from = it.from /\ after.captured = it.captured

LEMMA HeadSet ==
  ASSUME NEW Byte, NEW Answer, NEW it \in Iterator(Byte, Answer), NEW h \in Nat, NEW x \in Answer,
         NEW after, after = [it EXCEPT !.head = h, !.ret = x]
  PROVE  after \in Iterator(Byte, Answer) /\ Headed(after, it, h, x)
  BY DEF Iterator, Headed

\* What becomes of an iterator at p whose head is moved to h.
Placed(after, it, text, p, h, x) ==
  /\ after.ret = x /\ after.head = h /\ after.buf = it.buf
  /\ Moved(after, it, text, p, p - it.head + h)

\* The head goes forward in the buffer.
LEMMA HeadMoves ==
  ASSUME NEW Byte, NEW Answer, NEW it \in Iterator(Byte, Answer), NEW x \in Answer,
         NEW text, NEW p, IsAt(it, text, p), NEW h \in it.head..Len(it.buf),
         NEW after, after = [it EXCEPT !.head = h, !.ret = x]
  PROVE  after \in Iterator(Byte, Answer) /\ Placed(after, it, text, p, h, x)
<1>1. PICK g, n : g = it.head /\ n = Len(it.buf)
  OBVIOUS
<1>2. g \in Nat /\ n \in Nat /\ h \in Nat /\ g <= h /\ h <= n
  BY <1>1 DEF Iterator
<1>a. after \in Iterator(Byte, Answer) /\ Headed(after, it, h, x)
  BY <1>2, HeadSet
<1>3. /\ after \in Iterator(Byte, Answer)
      /\ after.ret = x /\ after.head = h
      /\ after.buf = it.buf /\ after.rest = it.rest /\ after.reader = it.reader
      /\ after.end = it.end /\ after.err = it.err
      /\ after.from = it.from /\ after.captured = it.captured
  BY <1>a, Zenon DEF Headed
<1>4. PICK q : q = p - it.head + h
  OBVIOUS
<1>5. /\ p \in Nat /\ g <= p /\ Copies(it.buf, text, p - g) /\ Makes(it.rest, text, p - g + n)
      /\ it.reader \/ it.rest = <<>>
  BY <1>1 DEF IsAt
<1>6. q \in Nat /\ h <= q /\ q - h = p - g /\ h \in 0..n
  BY <1>1, <1>2, <1>4, <1>5
<1>7. IsAt(after, text, q)
  BY <1>1, <1>3, <1>5, <1>6 DEF IsAt
<1>8. ASSUME NEW s, CapturesFrom(it, text, s, p) PROVE CapturesFrom(after, text, s, q)
  <2>1. s \in Nat /\ it.from \in 0..g /\ Between(it.captured, text, s, p - g + it.from)
    BY <1>1, <1>8 DEF CapturesFrom
  <2>2. it.from \in 0..h
    BY <1>2, <2>1
  <2> QED BY <1>3, <1>6, <2>1, <2>2 DEF CapturesFrom
<1>9. Moved(after, it, text, p, q)
  BY <1>3, <1>7, <1>8, Zenon DEF Moved
<1> QED BY <1>3, <1>4, <1>9, Zenon DEF Placed

\* One move after another.
LEMMA MovesOn ==
  ASSUME NEW a, NEW b, NEW c, NEW text, NEW p, NEW q, NEW r,
         Moved(b, a, text, p, q), Moved(c, b, text, q, r)
  PROVE  Moved(c, a, text, p, r)
  BY Zenon DEF Moved

\* A position is one of the text, and nothing is ahead of the last one.
LEMMA PositionOfText ==
  ASSUME NEW Byte, NEW Answer, NEW it \in Iterator(Byte, Answer), NEW text \in Seq(Byte), NEW p,
         IsAt(it, text, p)
  PROVE  /\ p \in Nat /\ Len(text) \in Nat /\ it.head \in Nat /\ Len(it.buf) \in Nat
         /\ it.head <= p /\ it.head <= Len(it.buf)
         /\ p - it.head + Len(it.buf) <= Len(text)
         /\ it.rest = <<>> => p - it.head + Len(it.buf) = Len(text)
         /\ Ahead(it) = it.head + 1..Len(it.buf)
<1>1. it.buf \in Seq(Byte) /\ it.head \in Nat /\ it.rest \in Seq(Seq(Byte)) /\ Len(it.buf) \in Nat
  BY DEF Iterator
<1>2. PICK q : q = p - it.head + Len(it.buf)
  OBVIOUS
<1>3. Makes(it.rest, text, q)
  BY <1>2 DEF IsAt
<1>4. q \in 0..Len(text) /\ (it.rest = <<>> => q = Len(text))
  BY <1>1, <1>3, MakesHead
<1> QED BY <1>1, <1>2, <1>4 DEF IsAt, Ahead

-------------------------------------------------------------------------------
(* Bytes *)

\* An iterator at p that took a byte.
Taken(after, it, text, p) ==
  /\ p < Len(text)
  /\ after.ret = text[p + 1] /\ after.head > 0
  /\ Moved(after, it, text, p, p + 1)
  /\ it.err = "none" => Moved(UnreadByte(after), it, text, p, p)

\* The byte at the head is the next one of the text, and can be given back.
LEMMA ByteTaken ==
  ASSUME NEW Byte, NEW Answer, Byte \subseteq Answer, NEW it \in Iterator(Byte, Answer),
         NEW text \in Seq(Byte), NEW p, IsAt(it, text, p), it.ret = TRUE, it.head < Len(it.buf),
         NEW after, after = TakeByte(it)
  PROVE  after \in Iterator(Byte, Answer) /\ Taken(after, it, text, p)
<1>1. PICK g, n : g = it.head /\ n = Len(it.buf)
  OBVIOUS
<1>2. /\ p \in Nat /\ g \in Nat /\ n \in Nat /\ g <= p /\ g < n /\ p - g + n <= Len(text)
      /\ Len(text) \in Nat
  BY <1>1, PositionOfText
<1>3. PICK x : x = it.buf[g + 1]
  OBVIOUS
<1>4. x \in Byte /\ x = text[p + 1]
  <2>1. g + 1 \in 1..n /\ (p - g) + (g + 1) = p + 1
    BY <1>2
  <2>2. it.buf \in Seq(Byte) /\ Copies(it.buf, text, p - g)
    BY <1>1 DEF Iterator, IsAt
  <2>3. x \in Byte
    BY <1>1, <1>3, <2>1, <2>2
  <2>4. x = text[(p - g) + (g + 1)]
    BY <1>1, <1>3, <2>1, <2>2, Zenon DEF Copies
  <2> QED BY <2>1, <2>3, <2>4
<1>5. after = [it EXCEPT !.head = g + 1, !.ret = x]
  BY <1>1, <1>3 DEF TakeByte
<1>6. PICK h : h = g + 1
  OBVIOUS
<1>7. h \in it.head..Len(it.buf) /\ x \in Answer /\ after = [it EXCEPT !.head = h, !.ret = x]
  BY <1>1, <1>2, <1>4, <1>5, <1>6
<1>a. after \in Iterator(Byte, Answer) /\ Placed(after, it, text, p, h, x)
  BY <1>7, HeadMoves
<1>8. /\ after.ret = x /\ after.head = h
      /\ Moved(after, it, text, p, p - it.head + h)
  BY <1>a, Zenon DEF Placed
<1>9. p - it.head + h = p + 1 /\ h > 0
  BY <1>1, <1>2, <1>6
<1>10. ASSUME it.err = "none" PROVE Moved(UnreadByte(after), it, text, p, p)
  <2>1. PICK back : back = UnreadByte(after)
    OBVIOUS
  <2>2. after.err = "none"
    BY <1>8, <1>10 DEF Moved
  <2>3. back = [after EXCEPT !.head = after.head - 1]
    BY <2>1, <2>2 DEF UnreadByte
  <2>4. after.head - 1 = g
    BY <1>2, <1>6, <1>8
  <2>5. back = [it EXCEPT !.head = g, !.ret = x]
    <3>1. back = [[it EXCEPT !.head = h, !.ret = x] EXCEPT !.head = g]
      BY <1>7, <2>3, <2>4
    <3> QED BY <3>1 DEF Iterator
  <2>6. g \in it.head..Len(it.buf)
    BY <1>1, <1>2
  <2>a. Placed(back, it, text, p, g, x)
    BY <1>7, <2>5, <2>6, HeadMoves
  <2>7. Moved(back, it, text, p, p - it.head + g)
    BY <2>a, Zenon DEF Placed
  <2>8. p - it.head + g = p
    BY <1>1, <1>2
  <2> QED BY <2>1, <2>7, <2>8
<1>11. p < Len(text)
  BY <1>2
<1>12. Taken(after, it, text, p)
  BY <1>4, <1>8, <1>9, <1>10, <1>11 DEF Taken
<1> QED BY <1>a, <1>12

\* What readByte does at a position: the next byte, or the end.
Reads(after, it, text, p) ==
  /\ p < Len(text) =>
       /\ after.ret = text[p + 1] /\ after.head > 0
       /\ Moved(after, it, text, p, p + 1)
       /\ it.err = "none" => Moved(UnreadByte(after), it, text, p, p)
  /\ p = Len(text) =>
       after.ret = Zero /\ after.err = ErrAtEnd(it) /\ IsAt(after, text, p)

\* readByte returns the bytes of the text one after the other, whatever chunks the reader
\* delivers, and leaves a capture complete; at the end, and only there, it says so and
\* stays.  unreadByte undoes it, also right after a refill.
THEOREM ReadByteReadsTheText ==
  ASSUME NEW Byte, NEW Answer, BOOLEAN \subseteq Answer, Byte \cup {Zero} \subseteq Answer,
         NEW it \in Iterator(Byte, Answer), NEW text \in Seq(Byte), NEW p, IsAt(it, text, p)
  PROVE  /\ ReadByte(it) \in Iterator(Byte, Answer)
         /\ p \in 0..Len(text)
         /\ Reads(ReadByte(it), it, text, p)
<1>1. /\ p \in Nat /\ Len(text) \in Nat /\ it.head \in Nat /\ Len(it.buf) \in Nat
      /\ it.head <= p /\ it.head <= Len(it.buf)
      /\ p - it.head + Len(it.buf) <= Len(text)
      /\ it.rest = <<>> => p - it.head + Len(it.buf) = Len(text)
      /\ Ahead(it) = it.head + 1..Len(it.buf)
  BY PositionOfText
<1>2. p \in 0..Len(text)
  BY <1>1
<1>b. Byte \subseteq Answer /\ Zero \in Answer
  BY Zenon
<1>3. PICK after : after = ReadByte(it)
  OBVIOUS
<1>4. CASE it.head < Len(it.buf)
  <2>1. PICK m, yes : yes = TRUE /\ m = [it EXCEPT !.ret = yes]
    OBVIOUS
  <2>a. Ahead(it) # {}
    <3>1. it.head + 1 \in Ahead(it)
      BY <1>1, <1>4
    <3> QED BY <3>1
  <2>2. after = TakeByte(m)
    BY <1>3, <2>1, <2>a, Zenon DEF ReadByte
  <2>3. PICK g : g = it.head
    OBVIOUS
  <2>4. m = [it EXCEPT !.head = g, !.ret = yes] /\ g \in it.head..Len(it.buf) /\ yes \in Answer
    <3>1. m = [it EXCEPT !.head = g, !.ret = yes]
      BY <2>1, <2>3 DEF Iterator
    <3>2. g \in it.head..Len(it.buf)
      BY <1>1, <2>3
    <3>3. yes \in Answer
      BY <2>1, Zenon
    <3> QED BY <3>1, <3>2, <3>3
  <2>b. m \in Iterator(Byte, Answer) /\ Placed(m, it, text, p, g, yes)
    BY <2>4, HeadMoves
  <2>5. /\ m.ret = yes /\ m.head = g /\ m.buf = it.buf
        /\ Moved(m, it, text, p, p - it.head + g)
    BY <2>b, Zenon DEF Placed
  <2>6. p - it.head + g = p
    BY <1>1, <2>3
  <2>7. Moved(m, it, text, p, p)
    BY <2>5, <2>6
  <2>8. IsAt(m, text, p) /\ m.err = it.err /\ m.ret = TRUE /\ m.head < Len(m.buf)
    BY <1>4, <2>1, <2>3, <2>5, <2>7 DEF Moved
  <2>c. after \in Iterator(Byte, Answer) /\ Taken(after, m, text, p)
    BY <1>b, <2>2, <2>b, <2>8, ByteTaken
  <2>9. /\ p < Len(text)
        /\ after.ret = text[p + 1] /\ after.head > 0
        /\ Moved(after, m, text, p, p + 1)
        /\ m.err = "none" => Moved(UnreadByte(after), m, text, p, p)
    BY <2>c, Zenon DEF Taken
  <2>10. /\ Moved(after, it, text, p, p + 1)
         /\ it.err = "none" => Moved(UnreadByte(after), it, text, p, p)
    BY <2>7, <2>8, <2>9, MovesOn, Zenon
  <2>11. p # Len(text)
    BY <1>1, <2>9
  <2>12. Reads(after, it, text, p)
    BY <2>9, <2>10, <2>11, Zenon DEF Reads
  <2> QED BY <1>2, <1>3, <2>c, <2>12
<1>5. CASE it.head = Len(it.buf)
  <2>1. PICK m : m = LoadMore(it)
    OBVIOUS
  <2>2. after = TakeByte(m)
    BY <1>1, <1>3, <1>5, <2>1 DEF ReadByte
  <2>3. CASE it.rest # <<>>
    <3>1. PICK q : q = p - it.head + Len(it.buf)
      OBVIOUS
    <3>2. q = p
      BY <1>1, <1>5, <3>1
    <3>b. m \in Iterator(Byte, Answer) /\ Loaded(m, it, text, p, q)
      BY <2>1, <2>3, <3>1, LoadMoreMoves
    <3>3. /\ m \in Iterator(Byte, Answer) /\ m.ret = TRUE /\ m.head = 0 /\ Len(m.buf) > 0
          /\ Moved(m, it, text, p, q)
      BY <3>b, Zenon DEF Loaded
    <3>4. Moved(m, it, text, p, p)
      BY <3>2, <3>3
    <3>5. IsAt(m, text, p) /\ m.err = it.err /\ m.head < Len(m.buf)
      BY <3>3, <3>4 DEF Moved
    <3>a. after \in Iterator(Byte, Answer) /\ Taken(after, m, text, p)
      BY <1>b, <2>2, <3>3, <3>5, ByteTaken
    <3>6. /\ p < Len(text)
          /\ after.ret = text[p + 1] /\ after.head > 0
          /\ Moved(after, m, text, p, p + 1)
          /\ m.err = "none" => Moved(UnreadByte(after), m, text, p, p)
      BY <3>a, Zenon DEF Taken
    <3>7. /\ Moved(after, it, text, p, p + 1)
          /\ it.err = "none" => Moved(UnreadByte(after), it, text, p, p)
      BY <3>4, <3>5, <3>6, MovesOn, Zenon
    <3>8. p # Len(text)
      BY <1>1, <3>6
    <3>9. Reads(after, it, text, p)
      BY <3>6, <3>7, <3>8, Zenon DEF Reads
    <3> QED BY <1>2, <1>3, <3>a, <3>9
  <2>4. CASE it.rest = <<>>
    <3>a. m \in Iterator(Byte, Answer) /\ Ended(m, it)
      BY <2>1, <2>4, LoadMoreEnds
    <3>1. /\ m.ret = FALSE /\ m.err = ErrAtEnd(it)
          /\ m.buf = it.buf /\ m.rest = it.rest /\ m.reader = it.reader
          /\ m.head \in {it.head, Len(it.buf)}
      BY <3>a, Zenon DEF Ended
    <3>2. p = Len(text) /\ m.head = it.head
      BY <1>1, <1>5, <2>4, <3>1
    <3>3. IsAt(m, text, p)
      BY <3>1, <3>2 DEF IsAt
    <3>4. PICK g, x : g = m.head /\ x = Zero
      OBVIOUS
    <3>5. after = [m EXCEPT !.head = g, !.ret = x]
      <4>1. after = [m EXCEPT !.ret = x]
        BY <2>2, <3>1, <3>4 DEF TakeByte
      <4> QED BY <3>a, <3>4, <4>1 DEF Iterator
    <3>6. g \in m.head..Len(m.buf) /\ x \in Answer
      BY <1>1, <1>b, <3>1, <3>2, <3>4
    <3>b. after \in Iterator(Byte, Answer) /\ Placed(after, m, text, p, g, x)
      BY <3>a, <3>3, <3>5, <3>6, HeadMoves
    <3>7. after.ret = x /\ Moved(after, m, text, p, p - m.head + g)
      BY <3>b, Zenon DEF Placed
    <3>8. p - m.head + g = p
      BY <1>1, <3>2, <3>4
    <3>9. IsAt(after, text, p) /\ after.err = ErrAtEnd(it)
      BY <3>1, <3>7, <3>8 DEF Moved
    <3>10. Reads(after, it, text, p)
      <4>1. ~ (p < Len(text))
        BY <1>1, <3>2
      <4> QED BY <3>4, <3>7, <3>9, <4>1, Zenon DEF Reads
    <3> QED BY <1>2, <1>3, <3>b, <3>10
  <2> QED BY <2>3, <2>4
<1> QED BY <1>1, <1>4, <1>5

-------------------------------------------------------------------------------
(* Tokens *)

LEMMA LoadMoreIsIterator ==
  ASSUME NEW Byte, NEW Answer, BOOLEAN \subseteq Answer, NEW it \in Iterator(Byte, Answer)
  PROVE  LoadMore(it) \in Iterator(Byte, Answer)
<1>1. PICK m : m = LoadMore(it)
  OBVIOUS
<1>2. CASE it.rest = <<>> \/ ~ it.reader
  BY <1>1, <1>2, LoadMoreEnds
<1>3. CASE it.rest # <<>> /\ it.reader
  <2>1. PICK kept : kept = KeepCaptured(it)
    OBVIOUS
  <2>2. /\ kept \in Iterator(Byte, Answer)
        /\ it.from = -1 => kept = it
        /\ it.from # -1 => Recaptured(kept, it, Join(it.captured, it.buf, it.from, Len(it.buf)), 0)
    BY <2>1, KeptIsIterator
  <2>3. kept.rest # <<>>
    BY <1>3, <2>2, Zenon DEF Recaptured
  <2>4. m = Refill(kept)
    BY <1>1, <1>3, <2>1, Zenon DEF LoadMore
  <2>5. m \in Iterator(Byte, Answer)
    BY <2>2, <2>3, <2>4, RefilledIsIterator
  <2> QED BY <1>1, <2>5
<1> QED BY <1>2, <1>3

\* What an iterator is after the refills.
Loads(more, it, n) == more[0] = it /\ \A k \in 1..n : more[k] = LoadMore(more[k - 1])

LEMMA RefilledLoads ==
  ASSUME NEW Byte, NEW Answer, BOOLEAN \subseteq Answer, NEW it \in Iterator(Byte, Answer),
         NEW n \in Nat
  PROVE  \E more \in [0..n -> Iterator(Byte, Answer)] :
           Refilled(it, n) = more[n] /\ Loads(more, it, n)
<1> DEFINE h == CHOOSE more : more = [k \in 0..n |-> IF k = 0 THEN it ELSE LoadMore(more[k - 1])]
<1>1. PICK D : D = Iterator(Byte, Answer)
  OBVIOUS
<1>2. PICK step : step = [i \in D |-> LoadMore(i)]
  OBVIOUS
<1>3. step \in [D -> D]
  <2>1. ASSUME NEW i \in D PROVE LoadMore(i) \in D
    BY <1>1, <2>1, LoadMoreIsIterator
  <2> QED BY <1>2, <2>1
<1>4. PICK f \in [0..n -> D] : IsIteration(f, n, it, step)
  BY <1>1, <1>3, IterationExists
<1>5. \A k \in 0..n : f[k] = IF k = 0 THEN it ELSE LoadMore(f[k - 1])
  <2>1. ASSUME NEW k \in 0..n, k # 0 PROVE f[k] = LoadMore(f[k - 1])
    <3>1. k - 1 \in 0..n
      BY <2>1
    <3>2. f[k - 1] \in D
      BY <3>1
    <3>3. f[k] = step[f[k - 1]]
      BY <1>4, <2>1 DEF IsIteration
    <3> QED BY <1>2, <3>2, <3>3
  <2>2. f[0] = it
    BY <1>4 DEF IsIteration
  <2> QED BY <2>1, <2>2
<1>6. f = [k \in 0..n |-> IF k = 0 THEN it ELSE LoadMore(f[k - 1])]
  BY <1>5
<1>7. h = [k \in 0..n |-> IF k = 0 THEN it ELSE LoadMore(h[k - 1])]
  BY <1>6
<1>8. Refilled(it, n) = h[n]
  BY DEF Refilled
<1> HIDE DEF h
<1>9. \A k \in 1..n : k \in 0..n /\ k - 1 \in 0..n /\ k # 0
  OBVIOUS
<1>10. h[0] = it /\ \A k \in 1..n : h[k] = LoadMore(h[k - 1])
  <2>1. 0 \in 0..n
    OBVIOUS
  <2> QED BY <1>7, <1>9, <2>1
<1>11. \A k \in 0..n : h[k] \in D
  <2> DEFINE C == {k \in 0..n : h[k] \in D}
  <2>1. 0 \in C
    BY <1>1, <1>10
  <2>2. ASSUME NEW k \in 1..n, k - 1 \in C PROVE k \in C
    <3>1. h[k - 1] \in D /\ h[k] = LoadMore(h[k - 1])
      BY <1>10, <2>2
    <3>2. h[k] \in D
      BY <1>1, <3>1, LoadMoreIsIterator
    <3> QED BY <1>9, <3>2
  <2>3. \A k \in 0..n : k \in C
    <3> HIDE DEF C
    <3> QED BY <2>1, <2>2, IntervalInduction
  <2> QED BY <2>3
<1>12. h \in [0..n -> D]
  BY <1>7, <1>11
<1> QED BY <1>1, <1>8, <1>10, <1>12 DEF Loads

\* The text is blank between two positions.
Blanks(text, p, q) == \A j \in p + 1..q : text[j] \in Blank

\* What tokenAt says of a buffer.
LEMMA TokenIsFirst ==
  ASSUME NEW Byte, NEW Answer, NEW it \in Iterator(Byte, Answer)
  PROVE  /\ TokenAt(it) = 0 => \A j \in it.head + 1..Len(it.buf) : it.buf[j] \in Blank
         /\ TokenAt(it) # 0 =>
              /\ TokenAt(it) \in it.head + 1..Len(it.buf)
              /\ it.buf[TokenAt(it)] \notin Blank
              /\ \A j \in it.head + 1..TokenAt(it) - 1 : it.buf[j] \in Blank
<1>1. PICK g, n, b : g = it.head /\ n = Len(it.buf) /\ b = it.buf
  OBVIOUS
<1>2. g \in Nat /\ n \in Nat
  BY <1>1 DEF Iterator
<1>3. PICK S : S = {j \in g + 1..n : b[j] \notin Blank}
  OBVIOUS
<1>4. TokenAt(it) = IF S = {} THEN 0 ELSE Min(S)
  BY <1>1, <1>3, Zenon DEF TokenAt, Nearest, Ahead
<1>5. S \in SUBSET Nat /\ S \subseteq g + 1..n
  BY <1>2, <1>3
<1>6. CASE S = {}
  <2>1. \A j \in g + 1..n : b[j] \in Blank
    BY <1>3, <1>6, Zenon
  <2> QED BY <1>1, <1>4, <1>6, <2>1
<1>7. CASE S # {}
  <2>1. PICK t : t = Min(S)
    OBVIOUS
  <2>2. t \in S /\ \A y \in S : t <= y
    BY <1>5, <1>7, <2>1, MinIsLeast
  <2>3. t \in g + 1..n /\ b[t] \notin Blank
    BY <1>3, <2>2
  <2>4. ASSUME NEW j \in g + 1..t - 1 PROVE b[j] \in Blank
    <3>1. j \in g + 1..n /\ ~ (t <= j)
      BY <1>2, <2>3
    <3> QED BY <1>3, <2>2, <3>1
  <2>5. t # 0 /\ TokenAt(it) = t
    BY <1>2, <1>4, <1>7, <2>1, <2>3
  <2> QED BY <1>1, <2>3, <2>4, <2>5
<1> QED BY <1>6, <1>7

\* A buffer without a token is blank text.
LEMMA BlankBuffer ==
  ASSUME NEW Byte, NEW Answer, NEW it \in Iterator(Byte, Answer), NEW text \in Seq(Byte), NEW p,
         IsAt(it, text, p), NEW t \in it.head + 1..Len(it.buf) + 1,
         \A j \in it.head + 1..t - 1 : it.buf[j] \in Blank
  PROVE  Blanks(text, p, p - it.head + t - 1)
<1>1. PICK g, n, b : g = it.head /\ n = Len(it.buf) /\ b = it.buf
  OBVIOUS
<1>2. p \in Nat /\ g \in Nat /\ n \in Nat /\ g <= p /\ t \in g + 1..n + 1
  BY <1>1, PositionOfText
<1>3. \A j \in 1..n : b[j] = text[p - g + j]
  BY <1>1 DEF IsAt, Copies
<1>4. ASSUME NEW i \in p + 1..p - g + t - 1 PROVE text[i] \in Blank
  <2>1. PICK j : j = i - (p - g)
    OBVIOUS
  <2>2. j \in g + 1..t - 1 /\ j \in 1..n /\ p - g + j = i
    BY <1>2, <2>1
  <2>3. b[j] \in Blank /\ b[j] = text[p - g + j]
    BY <1>1, <1>3, <2>2
  <2> QED BY <2>2, <2>3
<1> QED BY <1>1, <1>4 DEF Blanks

\* An iterator at p that took the token at q.
TokenTaken(after, it, text, p, q) ==
  /\ Blanks(text, p, q - 1) /\ text[q] \notin Blank
  /\ after.ret = text[q] /\ after.head > 0
  /\ Moved(after, it, text, p, q)
  /\ it.err = "none" => Moved(UnreadByte(after), it, text, p, q - 1)

LEMMA TokenOfBuffer ==
  ASSUME NEW Byte, NEW Answer, Byte \subseteq Answer, NEW it \in Iterator(Byte, Answer),
         NEW text \in Seq(Byte), NEW p, IsAt(it, text, p), TokenAt(it) # 0,
         NEW after, after = TokenOf(it)
  PROVE  after \in Iterator(Byte, Answer) /\ \E q \in p + 1..Len(text) : TokenTaken(after, it, text, p, q)
<1>1. PICK g, n, t : g = it.head /\ n = Len(it.buf) /\ t = TokenAt(it)
  OBVIOUS
<1>2. /\ p \in Nat /\ g \in Nat /\ n \in Nat /\ g <= p /\ g <= n /\ p - g + n <= Len(text)
      /\ Len(text) \in Nat
  BY <1>1, PositionOfText
<1>3. /\ t \in g + 1..n /\ it.buf[t] \notin Blank
      /\ \A j \in g + 1..t - 1 : it.buf[j] \in Blank
  BY <1>1, TokenIsFirst
<1>4. PICK q : q = p - g + t
  OBVIOUS
<1>5. q \in p + 1..Len(text) /\ t \in 1..n /\ q - 1 = p - g + t - 1 /\ t \in g + 1..n + 1 /\ t > 0
  BY <1>2, <1>3, <1>4
<1>6. Blanks(text, p, q - 1)
  <2>1. Blanks(text, p, p - it.head + t - 1)
    BY <1>1, <1>3, <1>5, BlankBuffer
  <2> QED BY <1>1, <1>5, <2>1
<1>7. PICK x : x = it.buf[t]
  OBVIOUS
<1>8. x \in Byte /\ x = text[q]
  <2>1. it.buf \in Seq(Byte) /\ Copies(it.buf, text, p - g)
    BY <1>1 DEF Iterator, IsAt
  <2>2. x \in Byte
    BY <1>1, <1>5, <1>7, <2>1
  <2>3. x = text[p - g + t]
    BY <1>1, <1>5, <1>7, <2>1, Zenon DEF Copies
  <2> QED BY <1>4, <2>2, <2>3
<1>9. after = [it EXCEPT !.head = t, !.ret = x]
  BY <1>1, <1>7, Zenon DEF TokenOf
<1>10. t \in it.head..Len(it.buf) /\ x \in Answer
  BY <1>1, <1>2, <1>3, <1>8
<1>11. after \in Iterator(Byte, Answer) /\ Placed(after, it, text, p, t, x)
  BY <1>9, <1>10, HeadMoves
<1>12. after.ret = x /\ after.head = t /\ Moved(after, it, text, p, q)
  BY <1>1, <1>4, <1>11 DEF Placed
<1>13. ASSUME it.err = "none" PROVE Moved(UnreadByte(after), it, text, p, q - 1)
  <2>1. PICK back, h : back = UnreadByte(after) /\ h = t - 1
    OBVIOUS
  <2>2. after.err = "none"
    BY <1>12, <1>13 DEF Moved
  <2>3. back = [after EXCEPT !.head = h]
    BY <1>12, <2>1, <2>2 DEF UnreadByte
  <2>4. back = [it EXCEPT !.head = h, !.ret = x]
    <3>1. back = [[it EXCEPT !.head = t, !.ret = x] EXCEPT !.head = h]
      BY <1>9, <2>3
    <3> QED BY <3>1 DEF Iterator
  <2>5. h \in it.head..Len(it.buf)
    BY <1>1, <1>2, <1>3, <2>1
  <2>6. Placed(back, it, text, p, h, x)
    BY <1>10, <2>4, <2>5, HeadMoves
  <2>7. p - it.head + h = q - 1
    <3>1. t \in Nat
      BY <1>2, <1>3
    <3>2. p - g + h = q - 1
      BY <1>2, <1>4, <2>1, <3>1
    <3> QED BY <1>1, <3>2
  <2> QED BY <2>1, <2>6, <2>7, Zenon DEF Placed
<1>14. TokenTaken(after, it, text, p, q)
  BY <1>3, <1>5, <1>6, <1>7, <1>8, <1>12, <1>13 DEF TokenTaken
<1> QED BY <1>5, <1>11, <1>14

\* How often nextToken asks for more.
LEMMA RefillsOf ==
  ASSUME NEW Byte, NEW Answer, NEW it \in Iterator(Byte, Answer), TokenAt(it) = 0
  PROVE  /\ Refills(it) \in 1..Len(it.rest) + 1
         /\ \A i \in 1..Refills(it) - 1 : \A j \in DOMAIN it.rest[i] : it.rest[i][j] \in Blank
         /\ Refills(it) <= Len(it.rest) =>
              \E j \in DOMAIN it.rest[Refills(it)] : it.rest[Refills(it)][j] \notin Blank
<1>1. PICK c, n : c = it.rest /\ n = Len(it.rest)
  OBVIOUS
<1>2. n \in Nat /\ DOMAIN c = 1..n
  BY <1>1 DEF Iterator
<1>3. PICK S : S = {i \in DOMAIN c : \E j \in DOMAIN c[i] : c[i][j] \notin Blank} \cup {n + 1}
  OBVIOUS
<1>4. PICK r : r = Min(S)
  OBVIOUS
<1>5. Refills(it) = r
  BY <1>1, <1>3, <1>4, Zenon DEF Refills
<1>6. S \in SUBSET Nat /\ S # {} /\ S \subseteq 1..n + 1
  BY <1>2, <1>3
<1>7. r \in S /\ \A y \in S : r <= y
  BY <1>4, <1>6, MinIsLeast
<1>8. ASSUME NEW i \in 1..r - 1, NEW j \in DOMAIN c[i] PROVE c[i][j] \in Blank
  <2>1. i \in DOMAIN c /\ ~ (r <= i)
    BY <1>2, <1>6, <1>7
  <2> QED BY <1>3, <1>7, <2>1
<1>9. ASSUME r <= n PROVE \E j \in DOMAIN c[r] : c[r][j] \notin Blank
  <2>1. r # n + 1
    BY <1>2, <1>6, <1>7, <1>9
  <2> QED BY <1>3, <1>7, <2>1
<1> QED BY <1>1, <1>5, <1>6, <1>7, <1>8, <1>9

\* Where an iterator is after k refills that found only blanks.
Later(m, it, text, p, k) ==
  /\ Len(m.rest) = Len(it.rest) - k
  /\ \A i \in 1..Len(it.rest) - k : m.rest[i] = it.rest[k + i]
  /\ k > 0 => m.buf = it.rest[k] /\ m.head = 0
  /\ \E r \in Nat : p <= r /\ Moved(m, it, text, p, r) /\ Blanks(text, p, r)

AllBlank(m) == \A j \in m.head + 1..Len(m.buf) : m.buf[j] \in Blank

LEMMA BlanksJoin ==
  ASSUME NEW text, NEW p \in Nat, NEW q \in Nat, NEW r \in Nat, Blanks(text, p, q), Blanks(text, q, r)
  PROVE  Blanks(text, p, r)
<1>1. \A j \in p + 1..r : j \in p + 1..q \/ j \in q + 1..r
  OBVIOUS
<1> QED BY <1>1 DEF Blanks

\* A buffer that is blank to its end.
LEMMA BlankToTheEnd ==
  ASSUME NEW Byte, NEW Answer, NEW it \in Iterator(Byte, Answer), NEW text \in Seq(Byte), NEW p,
         IsAt(it, text, p), AllBlank(it)
  PROVE  /\ p - it.head + Len(it.buf) \in Nat /\ p <= p - it.head + Len(it.buf)
         /\ Blanks(text, p, p - it.head + Len(it.buf))
<1>1. PICK g, n : g = it.head /\ n = Len(it.buf)
  OBVIOUS
<1>2. p \in Nat /\ g \in Nat /\ n \in Nat /\ g <= p /\ g <= n
  BY <1>1, PositionOfText
<1>3. PICK t : t = n + 1
  OBVIOUS
<1>4. t \in it.head + 1..Len(it.buf) + 1 /\ t - 1 = n /\ p - g + t - 1 = p - g + n
  BY <1>1, <1>2, <1>3
<1>5. \A j \in it.head + 1..t - 1 : it.buf[j] \in Blank
  BY <1>1, <1>4 DEF AllBlank
<1>6. Blanks(text, p, p - it.head + t - 1)
  BY <1>4, <1>5, BlankBuffer
<1> QED BY <1>1, <1>2, <1>4, <1>6

LEMMA OneMoreRefill ==
  ASSUME NEW Byte, NEW Answer, BOOLEAN \subseteq Answer, NEW it \in Iterator(Byte, Answer),
         NEW text \in Seq(Byte), NEW p \in Nat, NEW m \in Iterator(Byte, Answer),
         NEW k \in 0..Len(it.rest) - 1, Later(m, it, text, p, k), AllBlank(m),
         NEW after, after = LoadMore(m)
  PROVE  Later(after, it, text, p, k + 1)
<1>1. PICK r \in Nat : p <= r /\ Moved(m, it, text, p, r) /\ Blanks(text, p, r)
  BY DEF Later
<1>2. IsAt(m, text, r)
  BY <1>1 DEF Moved
<1>3. PICK q : q = r - m.head + Len(m.buf)
  OBVIOUS
<1>4. q \in Nat /\ r <= q /\ Blanks(text, r, q)
  BY <1>2, <1>3, BlankToTheEnd
<1>5. PICK n : n = Len(it.rest)
  OBVIOUS
<1>6. n \in Nat /\ k \in Nat /\ k < n
  <2>1. n \in Nat
    BY <1>5 DEF Iterator
  <2> QED BY <1>5, <2>1
<1>7. PICK c : c = m.rest
  OBVIOUS
<1>8. /\ c \in Seq(Seq(Byte)) /\ Len(c) = n - k
      /\ \A i \in 1..n - k : c[i] = it.rest[k + i]
  BY <1>5, <1>7 DEF Iterator, Later
<1>9. c # <<>> /\ 1 \in 1..n - k
  BY <1>6, <1>8
<1>10. /\ after.head = 0 /\ after.rest = Tail(c) /\ after.buf = Head(c)
       /\ Moved(after, m, text, r, q)
  <2>1. m.rest # <<>>
    BY <1>7, <1>9
  <2>2. Loaded(after, m, text, r, q)
    BY <1>2, <1>3, <2>1, LoadMoreMoves
  <2> QED BY <1>7, <2>2, Zenon DEF Loaded
<1>11. Moved(after, it, text, p, q)
  BY <1>1, <1>10, MovesOn, Zenon
<1>12. Blanks(text, p, q) /\ p <= q
  BY <1>1, <1>4, BlanksJoin
<1>13. after.buf = it.rest[k + 1]
  BY <1>8, <1>9, <1>10
<1>14. /\ Len(after.rest) = n - (k + 1)
       /\ \A i \in 1..n - (k + 1) : after.rest[i] = it.rest[(k + 1) + i]
  <2>1. PICK d : d = Tail(c)
    OBVIOUS
  <2>2. Len(d) = n - (k + 1) /\ \A i \in 1..n - (k + 1) : d[i] = c[i + 1]
    BY <1>6, <1>8, <1>9, <2>1
  <2>3. \A i \in 1..n - (k + 1) : i + 1 \in 1..n - k /\ k + (i + 1) = (k + 1) + i
    BY <1>6
  <2>4. ASSUME NEW i \in 1..n - (k + 1) PROVE d[i] = it.rest[(k + 1) + i]
    <3>1. d[i] = c[i + 1] /\ c[i + 1] = it.rest[k + (i + 1)]
      BY <1>8, <2>2, <2>3
    <3> QED BY <2>3, <3>1
  <2>5. after.rest = d
    BY <1>10, <2>1
  <2> QED BY <2>2, <2>4, <2>5
<1> QED BY <1>4, <1>5, <1>10, <1>11, <1>12, <1>13, <1>14 DEF Later

\* What nextToken does at a position: it takes the first byte that is no blank, or says that
\* there is none.
FindsToken(after, it, text, p) ==
  \/ \E q \in p + 1..Len(text) : TokenTaken(after, it, text, p, q)
  \/ Blanks(text, p, Len(text)) /\ after.ret = Zero /\ after.err = ErrAtEnd(it)

\* nextToken finds the next byte of the text that is no blank, in the buffer or any number
\* of refills later, and a capture does not lose the blanks; unreadByte then leaves the
\* iterator right before it.  Only if all that is left is blank does it say that the text
\* has ended, with what the reader says of that, be it an end or an error.
THEOREM NextTokenFindsTheToken ==
  ASSUME NEW Byte, NEW Answer, BOOLEAN \subseteq Answer, Byte \cup {Zero} \subseteq Answer,
         NEW it \in Iterator(Byte, Answer), NEW text \in Seq(Byte), NEW p, IsAt(it, text, p)
  PROVE  NextToken(it) \in Iterator(Byte, Answer) /\ FindsToken(NextToken(it), it, text, p)
<1>a. Byte \subseteq Answer /\ Zero \in Answer
  BY Zenon
<1>b. p \in Nat /\ Len(text) \in Nat
  BY PositionOfText
<1>c. PICK after : after = NextToken(it)
  OBVIOUS
<1>1. PICK n, len : n = Refills(it) /\ len = Len(it.rest)
  OBVIOUS
<1>2. len \in Nat
  BY <1>1 DEF Iterator
<1>3. after = TokenOf(Refilled(it, n))
  BY <1>1, <1>c, Zenon DEF NextToken
<1>4. CASE TokenAt(it) # 0
  <2>1. n = 0
    BY <1>1, <1>4, Zenon DEF Refills
  <2>2. PICK more \in [0..n -> Iterator(Byte, Answer)] :
          Refilled(it, n) = more[n] /\ Loads(more, it, n)
    BY <2>1, RefilledLoads
  <2>3. after = TokenOf(it)
    BY <1>3, <2>1, <2>2, Zenon DEF Loads
  <2>4. after \in Iterator(Byte, Answer) /\ \E q \in p + 1..Len(text) : TokenTaken(after, it, text, p, q)
    BY <1>a, <1>4, <2>3, TokenOfBuffer
  <2> QED BY <1>c, <2>4, Zenon DEF FindsToken
<1>5. CASE TokenAt(it) = 0
  <2>1. /\ n \in 1..len + 1
        /\ \A i \in 1..n - 1 : \A j \in DOMAIN it.rest[i] : it.rest[i][j] \in Blank
        /\ n <= len => \E j \in DOMAIN it.rest[n] : it.rest[n][j] \notin Blank
    BY <1>1, <1>5, RefillsOf
  <2>2. n \in Nat
    BY <1>2, <2>1
  <2>3. PICK more \in [0..n -> Iterator(Byte, Answer)] :
          Refilled(it, n) = more[n] /\ Loads(more, it, n)
    BY <2>2, RefilledLoads
  <2>4. more[0] = it /\ \A k \in 1..n : more[k] = LoadMore(more[k - 1])
    BY <2>3 DEF Loads
  <2>5. \A i \in 1..len : it.rest[i] \in Seq(Byte)
    BY <1>1 DEF Iterator
  <2>6. ASSUME NEW k \in 0..n - 1, k <= len, Later(more[k], it, text, p, k) PROVE AllBlank(more[k])
    <3>1. CASE k = 0
      <4>1. \A j \in it.head + 1..Len(it.buf) : it.buf[j] \in Blank
        BY <1>5, TokenIsFirst
      <4> QED BY <2>4, <3>1, <4>1 DEF AllBlank
    <3>2. CASE k # 0
      <4>1. k \in 1..n - 1 /\ k > 0 /\ k \in 1..len
        BY <2>2, <3>2, <2>6
      <4>2. PICK m, b : m = more[k] /\ b = it.rest[k]
        OBVIOUS
      <4>3. m.buf = b /\ m.head = 0
        BY <2>6, <4>1, <4>2 DEF Later
      <4>4. b \in Seq(Byte) /\ \A j \in DOMAIN b : b[j] \in Blank
        BY <2>1, <2>5, <4>1, <4>2
      <4>5. \A j \in 0 + 1..Len(b) : j \in DOMAIN b
        BY <4>4
      <4> QED BY <4>2, <4>3, <4>4, <4>5 DEF AllBlank
    <3> QED BY <3>1, <3>2
  <2>7. ASSUME NEW last \in 0..n, last <= len
        PROVE  \A k \in 0..last : Later(more[k], it, text, p, k)
    <3> DEFINE C == {k \in 0..last : Later(more[k], it, text, p, k)}
    <3>1. 0 \in C
      <4>1. Moved(it, it, text, p, p)
        BY DEF Moved
      <4>2. Blanks(text, p, p)
        BY <1>b DEF Blanks
      <4>3. Len(it.rest) = Len(it.rest) - 0 /\ \A i \in 1..Len(it.rest) - 0 : it.rest[i] = it.rest[0 + i]
        BY <1>1, <1>2
      <4>4. Later(it, it, text, p, 0)
        BY <1>b, <4>1, <4>2, <4>3 DEF Later
      <4>5. 0 \in 0..last
        BY <2>2, <2>7
      <4> QED BY <2>4, <4>4, <4>5
    <3>2. ASSUME NEW k \in 1..last, k - 1 \in C PROVE k \in C
      <4>1. PICK i : i = k - 1
        OBVIOUS
      <4>2. /\ i \in 0..n - 1 /\ i <= len /\ i \in 0..len - 1 /\ k = i + 1 /\ k \in 1..n
            /\ i \in 0..n /\ k \in 0..last
        BY <1>2, <2>2, <2>7, <4>1
      <4>3. Later(more[i], it, text, p, i) /\ more[k] = LoadMore(more[i])
        BY <2>4, <3>2, <4>1, <4>2
      <4>4. AllBlank(more[i])
        BY <2>6, <4>2, <4>3
      <4>5. more[i] \in Iterator(Byte, Answer)
        BY <4>2
      <4>6. Later(more[k], it, text, p, i + 1)
        BY <1>b, <1>1, <4>2, <4>3, <4>4, <4>5, OneMoreRefill
      <4> QED BY <4>2, <4>6
    <3>3. last \in Nat
      BY <2>2, <2>7
    <3>4. \A k \in 0..last : k \in C
      <4> HIDE DEF C
      <4> QED BY <3>1, <3>2, <3>3, IntervalInduction
    <3> QED BY <3>4
  <2>8. CASE n <= len
    <3>1. PICK m : m = more[n]
      OBVIOUS
    <3>2. m \in Iterator(Byte, Answer) /\ Later(m, it, text, p, n)
      BY <2>2, <2>7, <2>8, <3>1
    <3>3. m.buf = it.rest[n] /\ m.head = 0
      BY <2>1, <3>2 DEF Later
    <3>4. TokenAt(m) # 0
      <4>1. PICK j \in DOMAIN m.buf : m.buf[j] \notin Blank
        BY <2>1, <2>8, <3>3
      <4>2. m.buf \in Seq(Byte)
        BY <3>2 DEF Iterator
      <4>3. j \in m.head + 1..Len(m.buf)
        BY <3>3, <4>1, <4>2
      <4> QED BY <3>2, <4>1, <4>3, TokenIsFirst
    <3>5. PICK r \in Nat : p <= r /\ Moved(m, it, text, p, r) /\ Blanks(text, p, r)
      BY <3>2 DEF Later
    <3>6. IsAt(m, text, r) /\ m.err = it.err
      BY <3>5 DEF Moved
    <3>7. after = TokenOf(m)
      BY <1>3, <2>3, <3>1
    <3>8. after \in Iterator(Byte, Answer) /\ \E q \in r + 1..Len(text) : TokenTaken(after, m, text, r, q)
      BY <1>a, <3>2, <3>4, <3>6, <3>7, TokenOfBuffer
    <3>9. PICK q \in r + 1..Len(text) : TokenTaken(after, m, text, r, q)
      BY <3>8
    <3>10. q \in p + 1..Len(text) /\ q - 1 \in Nat
      BY <1>b, <3>5
    <3>11. TokenTaken(after, it, text, p, q)
      <4>1. /\ Blanks(text, r, q - 1) /\ text[q] \notin Blank
            /\ after.ret = text[q] /\ after.head > 0
            /\ Moved(after, m, text, r, q)
            /\ m.err = "none" => Moved(UnreadByte(after), m, text, r, q - 1)
        BY <3>9, Zenon DEF TokenTaken
      <4>2. Blanks(text, p, q - 1)
        BY <1>b, <3>5, <3>10, <4>1, BlanksJoin
      <4>3. Moved(after, it, text, p, q)
        BY <3>5, <4>1, MovesOn, Zenon
      <4>4. ASSUME it.err = "none" PROVE Moved(UnreadByte(after), it, text, p, q - 1)
        <5>1. Moved(UnreadByte(after), m, text, r, q - 1) /\ Moved(m, it, text, p, r)
          BY <3>5, <3>6, <4>1, <4>4
        <5>2. PICK back, z : back = UnreadByte(after) /\ z = q - 1
          OBVIOUS
        <5>3. Moved(back, m, text, r, z)
          BY <5>1, <5>2
        <5>4. Moved(back, it, text, p, z)
          BY <5>1, <5>3, MovesOn, Zenon
        <5> QED BY <5>2, <5>4
      <4> QED BY <4>1, <4>2, <4>3, <4>4, Zenon DEF TokenTaken
    <3> QED BY <1>c, <3>8, <3>10, <3>11, Zenon DEF FindsToken
  <2>9. CASE ~ (n <= len)
    <3>1. n = len + 1 /\ len \in 0..n /\ len \in 0..n - 1 /\ n \in 1..n /\ n - 1 = len
      BY <1>2, <2>1, <2>9
    <3>2. PICK m, e : m = more[len] /\ e = more[n]
      OBVIOUS
    <3>3. m \in Iterator(Byte, Answer) /\ Later(m, it, text, p, len) /\ e = LoadMore(m)
      <4>1. m \in Iterator(Byte, Answer)
        BY <2>3, <3>1, <3>2
      <4>2. len \in 0..len /\ len <= len
        BY <1>2
      <4>3. Later(m, it, text, p, len)
        BY <2>7, <3>1, <3>2, <4>2
      <4>4. e = LoadMore(m)
        <5>1. more[n] = LoadMore(more[n - 1])
          BY <2>4, <3>1
        <5> QED BY <3>1, <3>2, <5>1
      <4> QED BY <4>1, <4>3, <4>4
    <3>4. AllBlank(m)
      BY <1>2, <2>6, <3>1, <3>2, <3>3
    <3>5. m.rest = <<>>
      <4>1. Len(m.rest) = len - len /\ m.rest \in Seq(Seq(Byte))
        BY <1>1, <3>3 DEF Later, Iterator
      <4> QED BY <1>2, <4>1
    <3>6. PICK r \in Nat : p <= r /\ Moved(m, it, text, p, r) /\ Blanks(text, p, r)
      BY <3>3 DEF Later
    <3>7. /\ IsAt(m, text, r) /\ ErrAtEnd(m) = ErrAtEnd(it)
      BY <3>6 DEF Moved, ErrAtEnd
    <3>8. Blanks(text, p, Len(text))
      <4>1. r - m.head + Len(m.buf) = Len(text)
        BY <3>3, <3>5, <3>7, PositionOfText
      <4>2. Blanks(text, r, Len(text))
        BY <3>3, <3>4, <3>7, <4>1, BlankToTheEnd
      <4> QED BY <1>b, <3>6, <4>2, BlanksJoin
    <3>9. e \in Iterator(Byte, Answer) /\ Ended(e, m)
      BY <3>3, <3>5, LoadMoreEnds
    <3>10. e.err = ErrAtEnd(it) /\ e.buf = m.buf /\ e.head \in {m.head, Len(m.buf)}
      BY <3>7, <3>9, Zenon DEF Ended
    <3>11. TokenAt(e) = 0
      <4>1. SUFFICES ASSUME TokenAt(e) # 0 PROVE FALSE
        OBVIOUS
      <4>2. PICK t : t = TokenAt(e)
        OBVIOUS
      <4>3. t \in e.head + 1..Len(e.buf) /\ e.buf[t] \notin Blank
        BY <3>9, <4>1, <4>2, TokenIsFirst
      <4>4. PICK g, z : g = m.head /\ z = Len(m.buf)
        OBVIOUS
      <4>5. g \in Nat /\ z \in Nat /\ g <= z
        BY <3>3, <3>7, <4>4, PositionOfText
      <4>6. t \in m.head + 1..Len(m.buf)
        BY <3>10, <4>3, <4>4, <4>5
      <4> QED BY <3>4, <3>10, <4>3, <4>6 DEF AllBlank
    <3>12. PICK g, x : g = e.head /\ x = Zero
      OBVIOUS
    <3>13. after = [e EXCEPT !.head = g, !.ret = x]
      <4>1. after = [e EXCEPT !.ret = x]
        BY <1>3, <2>3, <3>2, <3>11, <3>12, Zenon DEF TokenOf
      <4> QED BY <3>9, <3>12, <4>1 DEF Iterator
    <3>14. g \in Nat /\ x \in Answer
      BY <1>a, <3>9, <3>12 DEF Iterator
    <3>15. after \in Iterator(Byte, Answer) /\ Headed(after, e, g, x)
      BY <3>9, <3>13, <3>14, HeadSet
    <3>16. after.ret = Zero /\ after.err = ErrAtEnd(it)
      BY <3>10, <3>12, <3>15 DEF Headed
    <3> QED BY <1>c, <3>8, <3>15, <3>16, Zenon DEF FindsToken
  <2> QED BY <2>8, <2>9
<1> QED BY <1>4, <1>5

-------------------------------------------------------------------------------
(* Captures, and where an iterator starts *)

\* What stopCapture returns is the text from where startCapture was called, position s, to
\* where the iterator is, however many refills there were in between.
THEOREM CapturedIsTheText ==
  ASSUME NEW Byte, NEW Answer, NEW it \in Iterator(Byte, Answer), NEW text \in Seq(Byte), NEW p,
         NEW s, IsAt(it, text, p), CapturesFrom(it, text, s, p)
  PROVE  /\ StopCapture(it).ret \in Seq(Byte)
         /\ Between(StopCapture(it).ret, text, s, p)
         /\ StopCapture(it).from = -1 /\ IsAt(StopCapture(it), text, p)
<1>1. PICK buf, from, to, old, base :
        buf = it.buf /\ from = it.from /\ to = it.head /\ old = it.captured /\ base = p - it.head
  OBVIOUS
<1>2. PICK x : x = Join(old, buf, from, to)
  OBVIOUS
<1>3. PICK after : after = StopCapture(it)
  OBVIOUS
<1>4. after = [it EXCEPT !.from = -1, !.captured = <<>>, !.ret = x]
  BY <1>1, <1>2, <1>3, Zenon DEF StopCapture, Text, Join
<1>5. /\ after.ret = x /\ after.from = -1 /\ after.head = it.head /\ after.buf = it.buf
      /\ after.rest = it.rest /\ after.reader = it.reader
  BY <1>4 DEF Iterator
<1>6. IsAt(after, text, p)
  BY <1>5 DEF IsAt
<1>7. /\ buf \in Seq(Byte) /\ old \in Seq(Byte) /\ to \in Nat /\ to <= Len(buf)
      /\ base \in Nat /\ base + to = p
  <2>1. buf \in Seq(Byte) /\ old \in Seq(Byte) /\ to \in Nat
    BY <1>1 DEF Iterator
  <2>2. p \in Nat /\ to \in 0..Len(buf) /\ to <= p /\ base = p - to
    BY <1>1 DEF IsAt
  <2>3. PICK n : n = Len(buf) /\ n \in Nat
    BY <2>1
  <2> QED BY <2>1, <2>2, <2>3
<1>8. s \in Nat /\ from \in Nat /\ from <= to /\ Between(old, text, s, base + from)
  BY <1>1, <1>7 DEF CapturesFrom
<1>9. Copies(buf, text, base)
  BY <1>1 DEF IsAt
<1>10. x \in Seq(Byte) /\ Between(x, text, s, base + to)
  BY <1>2, <1>7, <1>8, <1>9, PartsJoin
<1> QED BY <1>3, <1>5, <1>6, <1>7, <1>10

\* startCapture begins a capture at the position, and leaves everything else alone.
THEOREM StartCaptureCaptures ==
  ASSUME NEW Byte, NEW Answer, NEW it \in Iterator(Byte, Answer), NEW text \in Seq(Byte), NEW p,
         IsAt(it, text, p)
  PROVE  /\ StartCapture(it) \in Iterator(Byte, Answer)
         /\ IsAt(StartCapture(it), text, p)
         /\ CapturesFrom(StartCapture(it), text, p, p)
<1>1. PICK after : after = StartCapture(it)
  OBVIOUS
<1>a. PICK none \in Seq(Byte) : none = <<>>
  <2>1. <<>> \in Seq(Byte)
    OBVIOUS
  <2> QED BY <2>1, Zenon
<1>b. PICK g : g = it.head /\ g \in Nat
  BY DEF Iterator
<1>2. none = <<>> /\ none \in Seq(Byte) /\ g = it.head /\ g \in Nat
  BY <1>a, <1>b
<1>3. after = [it EXCEPT !.captured = none, !.from = g]
  BY <1>1, <1>2 DEF StartCapture
<1>4. after \in Iterator(Byte, Answer) /\ Recaptured(after, it, none, g)
  BY <1>2, <1>3, CaptureSet
<1>5. /\ after.buf = it.buf /\ after.head = it.head /\ after.reader = it.reader
      /\ after.rest = it.rest /\ after.from = g /\ after.captured = none
  BY <1>4, Zenon DEF Recaptured
<1>6. IsAt(after, text, p)
  BY <1>5 DEF IsAt
<1>7. p \in Nat /\ g <= p /\ Len(none) = 0
  BY <1>2 DEF IsAt
<1>8. Between(none, text, p, p - g + g)
  BY <1>2, <1>7 DEF Between, Copies
<1>9. g \in 0..g
  BY <1>2
<1>10. CapturesFrom(after, text, p, p)
  BY <1>2, <1>5, <1>7, <1>8, <1>9 DEF CapturesFrom
<1> QED BY <1>1, <1>4, <1>6, <1>10

\* An iterator that is given text, or a reader of it, is at its beginning.
THEOREM IteratorsStartAtTheText ==
  ASSUME NEW Byte, NEW Answer, NEW it \in Iterator(Byte, Answer), NEW text \in Seq(Byte)
  PROVE  /\ IsAt(ResetBytes(it, text), text, 0)
         /\ \A chunks \in Seq(Seq(Byte)), end \in {"eof", "bad"} :
              Makes(chunks, text, 0) => IsAt(Reset(it, chunks, end), text, 0)
<1>1. IsAt(ResetBytes(it, text), text, 0)
  <2>1. PICK after : after = ResetBytes(it, text)
    OBVIOUS
  <2>2. after.buf = text /\ after.head = 0 /\ after.rest = <<>> /\ after.reader = FALSE
    BY <2>1 DEF ResetBytes, Iterator
  <2>3. Copies(text, text, 0)
    BY DEF Copies
  <2>4. Makes(<<>>, text, Len(text))
    <3>1. PICK n : n = Len(text) /\ n \in Nat
      OBVIOUS
    <3> DEFINE cut == [i \in 0..Len(<<>>) |-> n]
    <3>2. cut \in [0..Len(<<>>) -> 0..n] /\ cut[0] = n /\ cut[Len(<<>>)] = n /\ 1..Len(<<>>) = {}
      BY <3>1
    <3> HIDE DEF cut
    <3> QED BY <3>1, <3>2 DEF Makes, Cuts
  <2>5. 0 - 0 = 0 /\ 0 + Len(text) = Len(text) /\ 0 \in 0..Len(text)
    OBVIOUS
  <2> QED BY <2>1, <2>2, <2>3, <2>4, <2>5 DEF IsAt
<1>2. ASSUME NEW chunks \in Seq(Seq(Byte)), NEW end \in {"eof", "bad"}, Makes(chunks, text, 0)
      PROVE  IsAt(Reset(it, chunks, end), text, 0)
  <2>1. PICK after : after = Reset(it, chunks, end)
    OBVIOUS
  <2>2. after.buf = <<>> /\ after.head = 0 /\ after.rest = chunks /\ after.reader = TRUE
    BY <2>1 DEF Reset, Iterator
  <2>3. Copies(<<>>, text, 0)
    BY DEF Copies
  <2>4. 0 - 0 + Len(<<>>) = 0 /\ 0 \in 0..Len(<<>>)
    OBVIOUS
  <2> QED BY <1>2, <2>1, <2>2, <2>3, <2>4 DEF IsAt
<1> QED BY <1>1, <1>2

-------------------------------------------------------------------------------
(* Integers *)

LEMMA SmallRemainder ==
  ASSUME NEW m \in Nat, NEW x \in 0..m
  PROVE  x % (m + 1) = x
  OBVIOUS

LEMMA LargeRemainder ==
  ASSUME NEW m \in Nat, NEW x \in (m + 1)..(2 * m + 1)
  PROVE  x % (m + 1) = x - (m + 1)
  OBVIOUS

\* The reader of integers gets every number that fits its type, and refuses none of them:
\* digit by digit, the value it holds is the number, and no overflow is seen.
THEOREM FittingIntegersAreExact ==
  ASSUME NEW n \in Nat, NEW digit \in [1..n -> 0..9],
         NEW number \in [0..n -> Nat], NEW value \in [0..n -> Nat],
         number[0] = 0, \A i \in 1..n : number[i] = 10 * number[i - 1] + digit[i],
         value[0] = 0, \A i \in 1..n : value[i] = NextDigit(value[i - 1], digit[i]),
         number[n] <= MaxUint
  PROVE  /\ value[n] = number[n]
         /\ \A i \in 1..n : ~ Overflows(value[i - 1], digit[i])
<1>1. MaxUint \in Nat
  BY CursorAssumption
<1>2. \A k \in 1..n : k \in 0..n /\ k - 1 \in 0..n /\ number[k] \in Nat /\ number[k - 1] \in Nat
  OBVIOUS
<1>3. \A k \in 0..n : number[n - k] <= MaxUint
  <2> DEFINE C == {k \in 0..n : number[n - k] <= MaxUint}
  <2>1. 0 \in C
    OBVIOUS
  <2>2. ASSUME NEW k \in 1..n, k - 1 \in C PROVE k \in C
    <3>1. PICK i : i = n - (k - 1)
      OBVIOUS
    <3>2. i \in 1..n /\ i - 1 = n - k /\ number[i] <= MaxUint
      BY <2>2, <3>1
    <3>3. number[i] = 10 * number[i - 1] + digit[i] /\ digit[i] \in 0..9
      BY <3>2
    <3>4. number[i - 1] <= MaxUint
      <4>1. PICK x, y, d : x = number[i - 1] /\ y = number[i] /\ d = digit[i]
        OBVIOUS
      <4>2. x \in Nat /\ y \in Nat
        BY <1>2, <3>2, <4>1
      <4>3. y = 10 * x + d /\ d \in 0..9 /\ y <= MaxUint
        BY <3>2, <3>3, <4>1
      <4>4. x <= MaxUint
        BY <1>1, <4>2, <4>3
      <4> QED BY <4>1, <4>4
    <3>5. number[n - k] <= MaxUint
      BY <3>2, <3>4
    <3>6. k \in 0..n
      OBVIOUS
    <3> QED BY <3>5, <3>6
  <2>3. \A k \in 0..n : k \in C
    <3> HIDE DEF C
    <3> QED BY <2>1, <2>2, IntervalInduction
  <2> QED BY <2>3
<1>4. ASSUME NEW k \in 0..n PROVE number[k] <= MaxUint
  <2>1. PICK i : i = n - k
    OBVIOUS
  <2>2. i \in 0..n /\ n - i = k
    BY <2>1
  <2> QED BY <1>3, <2>2
<1>5. ASSUME NEW k \in 1..n, value[k - 1] = number[k - 1]
      PROVE  value[k] = number[k] /\ ~ Overflows(value[k - 1], digit[k])
  <2>1. PICK v, d, w : v = number[k - 1] /\ d = digit[k] /\ w = number[k]
    OBVIOUS
  <2>2. v \in Nat /\ d \in 0..9 /\ w = 10 * v + d /\ w <= MaxUint
    BY <1>2, <1>4, <2>1
  <2>3. NextDigit(v, d) = w
    <3>1. PICK x : x = 10 * v + d
      OBVIOUS
    <3>2. x \in 0..MaxUint /\ x = w
      BY <1>1, <2>2, <3>1
    <3>3. x % (MaxUint + 1) = x
      BY <1>1, <3>2, SmallRemainder
    <3> QED BY <3>1, <3>2, <3>3, Zenon DEF NextDigit
  <2>4. w >= v
    BY <2>2
  <2>5. ~ (NextDigit(v, d) < v)
    BY <2>2, <2>3, <2>4
  <2> QED BY <1>5, <2>1, <2>3, <2>5 DEF Overflows
<1>6. \A k \in 0..n : value[k] = number[k]
  <2> DEFINE C == {k \in 0..n : value[k] = number[k]}
  <2>1. 0 \in C
    OBVIOUS
  <2>2. \A k \in 1..n : k - 1 \in C => k \in C
    BY <1>5
  <2>3. \A k \in 0..n : k \in C
    <3> HIDE DEF C
    <3> QED BY <2>1, <2>2, IntervalInduction
  <2> QED BY <2>3
<1> QED BY <1>2, <1>5, <1>6

\* It does not refuse every other number: whatever the width, one more digit can exceed the
\* type and leave a value that is not smaller, so that what is read is another number.
THEOREM SomeOverflowsPass ==
  \E value \in 0..MaxUint, digit \in 0..9 :
    /\ 10 * value + digit > MaxUint
    /\ ~ Overflows(value, digit)
<1>1. MaxUint \in Nat /\ MaxUint > 10
  BY CursorAssumption
<1>2. PICK v : v = (MaxUint + 9) \div 9
  OBVIOUS
<1>3. v \in Nat /\ 9 * v <= MaxUint + 9 /\ 9 * v > MaxUint
  BY <1>1, <1>2
<1>4. v \in 0..MaxUint /\ 10 * v + 0 > MaxUint
  BY <1>1, <1>3
<1>5. 10 * v + 0 \in (MaxUint + 1)..(2 * MaxUint + 1)
  BY <1>1, <1>3
<1>6. NextDigit(v, 0) = 10 * v + 0 - (MaxUint + 1)
  <2>1. PICK x : x = 10 * v + 0
    OBVIOUS
  <2>2. x \in (MaxUint + 1)..(2 * MaxUint + 1)
    BY <1>5, <2>1
  <2>3. x % (MaxUint + 1) = x - (MaxUint + 1)
    BY <1>1, <2>2, LargeRemainder
  <2>4. NextDigit(v, 0) = x % (MaxUint + 1)
    BY <2>1 DEF NextDigit
  <2>5. NextDigit(v, 0) = x - (MaxUint + 1)
    BY <2>3, <2>4, Zenon
  <2> QED BY <1>1, <1>3, <2>1, <2>5
<1>7. ~ (NextDigit(v, 0) < v)
  BY <1>1, <1>3, <1>6
<1>8. ~ Overflows(v, 0)
  BY <1>7 DEF Overflows
<1> QED BY <1>4, <1>8
===============================================================================
