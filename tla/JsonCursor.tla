------------------------------- MODULE JsonCursor -------------------------------
(***************************************************************************)
(* The cursor of the JSON library (common/jsoniter): a place in a buffer   *)
(* that a reader fills again and again, or that holds all there is, a      *)
(* capture that may run across refills, and the step of the readers of     *)
(* integers, which compute modulo the width of the type.                   *)
(*                                                                         *)
(* Bytes are strings of one character.  An operator takes an iterator and  *)
(* returns the one it leaves, with what the routine returns in the field   *)
(* ret.                                                                    *)
(***************************************************************************)
EXTENDS Integers, Sequences, FiniteSetsExt

CONSTANT MaxUint      \* the largest unsigned integer, 2^32 - 1 in the code

ASSUME CursorAssumption == MaxUint \in Nat /\ MaxUint > 10

Blank == {" ", "\t", "\n", "\r"}

\* What readByte and nextToken return when there is nothing left.
Zero == "zero"

\* err is "none", "eof" or "bad"; end is what the reader says when it has no more; from
\* is -1 and captured empty when nothing is captured.
Fresh ==
  [buf |-> <<>>, head |-> 0, reader |-> FALSE, rest |-> <<>>, end |-> "eof", err |-> "none",
   from |-> -1, captured |-> <<>>, depth |-> 0, ret |-> FALSE]

\* Reset and Parse: a reader that will deliver these chunks and then end.
Reset(it, chunks, end) ==
  [it EXCEPT !.reader = TRUE, !.buf = <<>>, !.head = 0, !.rest = chunks, !.end = end, !.depth = 0]

ResetBytes(it, bytes) ==
  [it EXCEPT !.reader = FALSE, !.buf = bytes, !.head = 0, !.rest = <<>>, !.depth = 0]

\* The positions of what is left in the buffer, as TLA+ counts.
Ahead(it) == it.head + 1..Len(it.buf)

\* The first of these positions, 0 if there is none.
Nearest(at) == IF at = {} THEN 0 ELSE Min(at)

Text(it, from, to) == SubSeq(it.buf, from, to)

ReportError(it) == [it EXCEPT !.err = "bad"]

\* What routines return: a value in place of what they computed on the way.
Return(it, value) == [it EXCEPT !.ret = value]

-------------------------------------------------------------------------------
(* Refills and captures *)

\* Mutant: the text captured in a buffer is lost with it.
CaptureForgotten(it) == IF it.from = -1 THEN it ELSE [it EXCEPT !.from = 0]

\* The buffer's text is kept if it is captured, before the buffer is overwritten.
KeepCaptured(it) ==
  IF it.from = -1 THEN it
  ELSE [it EXCEPT !.captured = @ \o Text(it, it.from + 1, Len(it.buf)), !.from = 0]

\* What the reader gives next, or how it ends.
Refill(it) ==
  IF it.rest = <<>> THEN [it EXCEPT !.err = IF @ = "none" THEN it.end ELSE @, !.ret = FALSE]
  ELSE [it EXCEPT !.buf = Head(it.rest), !.rest = Tail(@), !.head = 0, !.ret = TRUE]

LoadMore(it) ==
  IF it.reader THEN Refill(KeepCaptured(it))
  ELSE IF it.err = "none" THEN [it EXCEPT !.head = Len(it.buf), !.err = "eof", !.ret = FALSE]
  ELSE [it EXCEPT !.ret = FALSE]

\* startCapture and stopCapture: the text between the heads, buffer by buffer.
StartCapture(it) == [it EXCEPT !.from = it.head, !.captured = <<>>]

\* Mutant: the capture goes on.
CaptureLeftOn(it) == Return(it, it.captured \o Text(it, it.from + 1, it.head))

StopCapture(it) ==
  [it EXCEPT !.from = -1, !.captured = <<>>,
             !.ret = it.captured \o Text(it, it.from + 1, it.head)]

-------------------------------------------------------------------------------
(* Bytes and tokens *)

\* The byte at the head, if there is one.
TakeByte(it) ==
  IF it.ret THEN [it EXCEPT !.head = @ + 1, !.ret = it.buf[it.head + 1]] ELSE [it EXCEPT !.ret = Zero]

ReadByte(it) == TakeByte(IF Ahead(it) # {} THEN [it EXCEPT !.ret = TRUE] ELSE LoadMore(it))

UnreadByte(it) == IF it.err = "none" THEN [it EXCEPT !.head = @ - 1] ELSE it

\* Where the first byte ahead is that is no blank, 0 if there is none.
TokenAt(it) == Nearest({j \in Ahead(it) : it.buf[j] \notin Blank})

\* How often nextToken asks for more: up to the first chunk that holds more than blanks,
\* or once more than there are chunks.
Refills(it) ==
  IF TokenAt(it) # 0 THEN 0
  ELSE Min({i \in DOMAIN it.rest : \E j \in DOMAIN it.rest[i] : it.rest[i][j] \notin Blank}
             \cup {Len(it.rest) + 1})

Refilled(it, n) ==
  LET more[k \in 0..n] == IF k = 0 THEN it ELSE LoadMore(more[k - 1]) IN more[n]

TokenOf(it) ==
  IF TokenAt(it) = 0 THEN [it EXCEPT !.ret = Zero]
  ELSE [it EXCEPT !.head = TokenAt(it), !.ret = it.buf[TokenAt(it)]]

NextToken(it) == TokenOf(Refilled(it, Refills(it)))

-------------------------------------------------------------------------------
(* One more digit of an integer *)

\* What the width keeps of it.
NextDigit(value, digit) == (10 * value + digit) % (MaxUint + 1)

\* An overflow is looked for above uint32SafeToMultiply10, and shows if the value got
\* smaller.
Overflows(value, digit) == value > MaxUint \div 10 - 1 /\ NextDigit(value, digit) < value
===============================================================================
