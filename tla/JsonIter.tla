-------------------------------- MODULE JsonIter --------------------------------
(***************************************************************************)
(* The readers of the JSON library (common/jsoniter), on the cursor of     *)
(* JsonCursor.  Every routine has a fast path inside the buffer and        *)
(* another one for what continues in the next; errors are a field that     *)
(* routines look at, or do not.                                            *)
(*                                                                         *)
(* Texts of numbers stand for their values, but in the readers of          *)
(* integers, which compute them.                                           *)
(***************************************************************************)
EXTENDS JsonCursor, FiniteSets

CONSTANTS MaxDepth,     \* how deep elements may be nested, 10000 in the code
          MaxInt8,      \* the largest integer of a narrow type, 127 in the code
          Unrolled,     \* digits read without a check for overflow, 8 in the code
          Utf8          \* the bytes of code points

ASSUME IterAssumption ==
  /\ MaxDepth \in Nat /\ MaxInt8 \in Nat /\ Unrolled \in Nat \ {0}
  /\ MaxInt8 + 1 < MaxUint \div 10 - 1
  /\ 65533 \in DOMAIN Utf8

-------------------------------------------------------------------------------
(* Bytes *)

Decimal == <<"0", "1", "2", "3", "4", "5", "6", "7", "8", "9">>

Digit == {Decimal[i] : i \in DOMAIN Decimal}

DigitOf == [c \in Digit |-> (CHOOSE i \in DOMAIN Decimal : Decimal[i] = c) - 1]

HexDigit == <<"0", "1", "2", "3", "4", "5", "6", "7", "8", "9", "a", "b", "c", "d", "e", "f">>

HexUpper == <<"A", "B", "C", "D", "E", "F">>

\* The values of hexadecimal digits, in letters of either case.
HexOf ==
  LET At(digits, c) == CHOOSE i \in DOMAIN digits : digits[i] = c
      small == {HexDigit[i] : i \in DOMAIN HexDigit}
  IN [c \in small \cup {HexUpper[i] : i \in DOMAIN HexUpper} |->
        IF c \in small THEN At(HexDigit, c) - 1 ELSE At(HexUpper, c) + 9]

\* The bytes below a blank; one of them is written by its name.
Control == {"\t", "\n", "\r", "\f", "bs"}

Quote == "\""

Backslash == "\\"

Null4 == <<"n", "u", "l", "l">>

-------------------------------------------------------------------------------
(* Tokens *)

\* valueTypes.
ValueType(c) ==
  CASE c = Quote -> "string" [] c \in Digit \cup {"-"} -> "number" [] c = "n" -> "nil"
    [] c \in {"t", "f"} -> "bool" [] c = "[" -> "array" [] c = "{" -> "object"
    [] OTHER -> "invalid"

\* What a token begins, which stays.
TypeOf(t) == [UnreadByte(t) EXCEPT !.ret = ValueType(t.ret)]

WhatIsNext(it) == TypeOf(NextToken(it))

\* The error is reported and the depth stays where it is.
IncrementDepth(it) ==
  [it EXCEPT !.depth = @ + 1, !.ret = it.depth < MaxDepth,
             !.err = IF it.depth < MaxDepth THEN @ ELSE "bad"]

DecrementDepth(it) ==
  [it EXCEPT !.depth = @ - 1, !.err = IF it.depth > 0 THEN @ ELSE "bad"]

\* skipThreeBytes, skipFourBytes: the bytes of a literal.
RECURSIVE SkipBytes(_, _)

Expected(b, bytes) ==
  IF b.ret = Head(bytes) THEN SkipBytes(b, Tail(bytes)) ELSE ReportError(b)

SkipBytes(it, bytes) == IF bytes = <<>> THEN it ELSE Expected(ReadByte(it), bytes)

\* No text.
Failed(it) == Return(it, <<>>)

\* The rest of the literal whose first character, a token, was read.
Literal(t) ==
  SkipBytes(t, CASE t.ret = "n" -> <<"u", "l", "l">> [] t.ret = "t" -> <<"r", "u", "e">>
                 [] t.ret = "f" -> <<"a", "l", "s", "e">>)

NilOf(t) == IF t.ret = "n" THEN Return(Literal(t), TRUE) ELSE Return(UnreadByte(t), FALSE)

ReadNil(it) == NilOf(NextToken(it))

BoolOf(t) ==
  Return(IF t.ret \in {"t", "f"} THEN Literal(t) ELSE ReportError(t), t.ret = "t")

ReadBool(it) == BoolOf(NextToken(it))

-------------------------------------------------------------------------------
(* Numbers *)

NumberChar == Digit \cup {"+", "-", ".", "e", "E"}

\* The run of characters of a number, across buffers.
RECURSIVE NumberRun(_, _)

MoreNumber(more, text) == IF more.ret THEN NumberRun(more, text) ELSE Return(more, text)

NumberRun(it, text) ==
  LET i == Nearest({j \in Ahead(it) : it.buf[j] \notin NumberChar})
      whole == text \o Text(it, it.head + 1, IF i = 0 THEN Len(it.buf) ELSE i - 1)
  IN IF i = 0 THEN MoreNumber(LoadMore(it), whole) ELSE [it EXCEPT !.head = i - 1, !.ret = whole]

\* A number needs a character.
NotEmpty(run) ==
  CASE run.err = "bad" -> Return(run, <<>>)
    [] run.err # "bad" /\ run.ret = <<>> -> ReportError(run)
    [] OTHER -> run

ReadNumberAsString(it) == NotEmpty(NumberRun(it, <<>>))

\* No sign in front, and a digit after a dot.
ValidateFloat(text) ==
  /\ text # <<>> /\ text[1] # "-"
  /\ \A i \in DOMAIN text : (text[i] = "." /\ \A j \in 1..i - 1 : text[j] # ".")
                              => i < Len(text) /\ text[i + 1] \in Digit

\* strconv.ParseFloat: digits with at most one dot, and an exponent, which is out of
\* range when it has more than two digits.
ParseFloat(text) ==
  LET Unsigned(t) == IF t # <<>> /\ t[1] \in {"+", "-"} THEN Tail(t) ELSE t
      e == Nearest({i \in DOMAIN text : text[i] \in {"e", "E"}})
      mantissa == Unsigned(IF e = 0 THEN text ELSE SubSeq(text, 1, e - 1))
      exponent == Unsigned(SubSeq(text, e + 1, Len(text)))
  IN /\ \A i \in DOMAIN mantissa : mantissa[i] \in Digit \cup {"."}
     /\ Cardinality({i \in DOMAIN mantissa : mantissa[i] = "."}) <= 1
     /\ \E i \in DOMAIN mantissa : mantissa[i] \in Digit
     /\ e # 0 => /\ Len(exponent) \in 1..2
                 /\ \A i \in DOMAIN exponent : exponent[i] \in Digit

\* A number, if it is a float.
FloatOf(n) ==
  IF n.err = "bad" \/ (ValidateFloat(n.ret) /\ ParseFloat(n.ret)) THEN n ELSE ReportError(n)

ReadFloatSlowPath(it) == FloatOf(ReadNumberAsString(it))

\* endOfNumber of floatDigits: a carriage return is not among them.
FloatEnd == {",", "]", "}", " ", "\t", "\n"}

\* Digits, and digits after a dot, that end inside the buffer are read on the fast path.
\* A value above what a float holds exactly takes the slow path, from the same place.
ReadPositiveFloat(it) ==
  LET At(i) == it.buf[i]
      i == it.head + 1
      stop == Nearest({j \in Ahead(it) : At(j) \notin Digit})
      dotted == Nearest({j \in Ahead(it) : j > stop /\ At(j) \notin Digit})
      Fast(end) == [it EXCEPT !.head = end - 1, !.ret = Text(it, i, end - 1)]
      wrong == \/ At(i) \in FloatEnd \cup {"."}
               \/ At(i) = "0" /\ i < Len(it.buf) /\ At(i + 1) \in Digit
  IN IF Ahead(it) # {} /\ wrong THEN ReportError(it)
     ELSE IF stop > i /\ At(stop) \in FloatEnd THEN Fast(stop)
     ELSE IF stop > i /\ At(stop) = "." /\ dotted > stop + 1 /\ At(dotted) \in FloatEnd
          THEN Fast(dotted)
     ELSE ReadFloatSlowPath(it)

Negated(number, negative) ==
  CASE number.err = "bad" -> Return(number, <<>>)
    [] number.err # "bad" /\ negative -> Return(number, <<"-">> \o number.ret)
    [] OTHER -> number

FloatAfter(t) ==
  Negated(ReadPositiveFloat(IF t.ret = "-" THEN t ELSE UnreadByte(t)), t.ret = "-")

\* ReadFloat64; ReadFloat32 is the same with another width.
ReadFloat(it) == FloatAfter(NextToken(it))

BigFloat(n) == IF n.err = "bad" \/ ParseFloat(n.ret) THEN n ELSE ReportError(n)

ReadBigFloat(it) == BigFloat(ReadNumberAsString(it))

\* A dot behind the digits is noticed when it is in the buffer.
AssertInteger(it) ==
  IF Ahead(it) # {} /\ it.buf[it.head + 1] = "." THEN ReportError(it) ELSE it

NoInteger(it) == Return(ReportError(it), 0)

Integer(it, value) == Return(AssertInteger(it), value)

\* Digit after digit, in this buffer and the next.
RECURSIVE UintLoop(_, _, _)

MoreDigits(more, value) == IF more.ret THEN UintLoop(more, 1, value) ELSE Integer(more, value)

UintLoop(it, i, value) ==
  LET digit == DigitOf[it.buf[i]]
  IN IF i > Len(it.buf) THEN MoreDigits(LoadMore(it), value)
     ELSE IF it.buf[i] \notin Digit THEN Integer([it EXCEPT !.head = i - 1], value)
     ELSE IF Overflows(value, digit) THEN NoInteger(it)
     ELSE UintLoop(it, i + 1, NextDigit(value, digit))

\* The value of a text of digits.
DecimalValue(text) ==
  LET value[i \in 0..Len(text)] == IF i = 0 THEN 0 ELSE 10 * value[i - 1] + DigitOf[text[i]]
  IN value[Len(text)]

\* readUint32, readUint64: it.ret is the first character.  With enough text in the buffer
\* some digits are read without a look at the end.
ReadUnsigned(it) ==
  LET c == it.ret
      last == it.head + Unrolled
      p == Min({j \in Ahead(it) : j < last /\ it.buf[j] \notin Digit} \cup {last})
      value == DecimalValue(<<c>> \o Text(it, it.head + 1, p - 1))
  IN IF c \notin Digit THEN NoInteger(it)
     ELSE IF c = "0" THEN Integer(it, 0)
     ELSE IF Len(it.buf) - it.head <= Unrolled + 2 THEN UintLoop(it, it.head + 1, DigitOf[c])
     ELSE IF it.buf[p] \notin Digit THEN Integer([it EXCEPT !.head = p - 1], value)
     ELSE UintLoop([it EXCEPT !.head = p - 1], p, value)

\* The magnitude must be one of integers up to max.
Signed(number, negative, max) ==
  IF number.ret > (IF negative THEN max + 1 ELSE max) THEN NoInteger(number)
  ELSE Return(number, IF negative THEN - number.ret ELSE number.ret)

IntAfter(t, max) ==
  Signed(ReadUnsigned(IF t.ret = "-" THEN ReadByte(t) ELSE t), t.ret = "-", max)

\* ReadInt8, ReadInt16, ReadInt32 and ReadInt64, for integers up to max.
ReadInt(it, max) == IntAfter(NextToken(it), max)

-------------------------------------------------------------------------------
(* Strings *)

Surrogates == 55296..57343

\* appendRune: a surrogate alone, or what is no code point, becomes U+FFFD.  Code points
\* without bytes in Utf8 are not told apart.
AppendRune(text, rune) ==
  LET point == IF rune \in Surrogates \/ rune > 1114111 THEN 65533 ELSE rune
  IN text \o (IF point \in DOMAIN Utf8 THEN Utf8[point] ELSE <<"some code point">>)

\* utf16.DecodeRune.
DecodeRune(high, low) ==
  IF high \in 55296..56319 /\ low \in 56320..57343
  THEN (high - 55296) * 1024 + (low - 56320) + 65536 ELSE 65533

RECURSIVE HexRun(_, _, _)

HexFrom(b, left, value) ==
  IF b.err # "none" THEN Return(b, value)
  ELSE IF b.ret \notin DOMAIN HexOf THEN Return(ReportError(b), value)
  ELSE HexRun(b, left - 1, 16 * value + HexOf[b.ret])

HexRun(it, left, value) ==
  IF left = 0 THEN Return(it, value) ELSE HexFrom(ReadByte(it), left, value)

ReadU4(it) == HexRun(it, 4, 0)

EscapeChar == {Quote, Backslash, "/", "b", "f", "n", "r", "t"}

Unescaped(c) ==
  CASE c = "b" -> "bs" [] c = "f" -> "\f" [] c = "n" -> "\n" [] c = "r" -> "\r" [] c = "t" -> "\t"
    [] OTHER -> c

RECURSIVE ReadEscapedChar(_, _)

SecondRune(low, high, text) ==
  LET rune == DecodeRune(high, low.ret)
  IN IF low.err # "none" THEN Failed(low)
     ELSE Return(low, IF rune = 65533 THEN AppendRune(AppendRune(text, high), low.ret)
                      ELSE AppendRune(text, rune))

SecondEscape(b, high, text) ==
  IF b.err # "none" THEN Failed(b)
  ELSE IF b.ret # "u" THEN ReadEscapedChar(b, AppendRune(text, high))
  ELSE SecondRune(ReadU4(b), high, text)

AfterSurrogate(b, high, text) ==
  IF b.err # "none" THEN Failed(b)
  ELSE IF b.ret # Backslash THEN Return(UnreadByte(b), AppendRune(text, high))
  ELSE SecondEscape(ReadByte(b), high, text)

FirstRune(first, text) ==
  IF first.ret \notin Surrogates THEN Return(first, AppendRune(text, first.ret))
  ELSE AfterSurrogate(ReadByte(first), first.ret, text)

\* it.ret is the character after the backslash.  A surrogate asks for a second escape,
\* and is replaced if that is none, or no surrogate.
ReadEscapedChar(it, text) ==
  IF it.ret = "u" THEN FirstRune(ReadU4(it), text)
  ELSE IF it.ret \in EscapeChar THEN Return(it, Append(text, Unescaped(it.ret)))
  ELSE Failed(ReportError(it))

\* readStringSlowPath, byte by byte as long as there is no error.
RECURSIVE ReadStringSlowPath(_, _)

AfterEscape(escaped) == ReadStringSlowPath(escaped, escaped.ret)

AfterByte(b, text) ==
  CASE b.ret = Quote -> Return(b, text)
    [] b.ret = Backslash -> AfterEscape(ReadEscapedChar(ReadByte(b), text))
    [] OTHER -> ReadStringSlowPath(b, Append(text, b.ret))

ReadStringSlowPath(it, text) ==
  IF it.err = "none" THEN AfterByte(ReadByte(it), text) ELSE Failed(ReportError(it))

\* The first byte ahead that the fast paths for strings do not pass over.
StringStop(it) == Nearest({i \in Ahead(it) : it.buf[i] \in {Quote, Backslash} \cup Control})

StringAfter(t) ==
  LET i == StringStop(t)
  IN CASE t.ret = "n" -> Failed(Literal(t))
       [] t.ret \notin {Quote, "n"} -> Failed(ReportError(t))
       [] t.ret = Quote ->
            IF i = 0 \/ t.buf[i] = Backslash THEN ReadStringSlowPath(t, <<>>)
            ELSE IF t.buf[i] = Quote
                 THEN [t EXCEPT !.head = i, !.ret = Text(t, t.head + 1, i - 1)]
                 ELSE Failed(ReportError(t))

ReadString(it) == StringAfter(NextToken(it))

Upper == <<"A", "B", "C", "D", "E", "F", "G", "H", "I", "J", "K", "L", "M",
           "N", "O", "P", "Q", "R", "S", "T", "U", "V", "W", "X", "Y", "Z">>

LowerCase == <<"a", "b", "c", "d", "e", "f", "g", "h", "i", "j", "k", "l", "m",
               "n", "o", "p", "q", "r", "s", "t", "u", "v", "w", "x", "y", "z">>

LowerOf ==
  [c \in {Upper[i] : i \in DOMAIN Upper} |-> LowerCase[CHOOSE i \in DOMAIN Upper : Upper[i] = c]]

Lower(text) ==
  [i \in DOMAIN text |-> IF text[i] \in DOMAIN LowerOf THEN LowerOf[text[i]] ELSE text[i]]

\* After the name of a field: its colon.  A name without one is no known field's: it is empty.
Colon(c, name) == IF c.ret = ":" THEN Return(c, Lower(name)) ELSE Failed(ReportError(c))

\* The name up to its quote; from the first backslash on, as readStringSlowPath has it.
RECURSIVE NameRun(_, _)

MoreName(more, text) == IF more.ret THEN NameRun(more, text) ELSE Failed(ReportError(more))

NameEnd(slow, text) == Colon(NextToken(slow), text \o slow.ret)

NameRun(it, text) ==
  LET i == Nearest({j \in Ahead(it) : it.buf[j] \in {Quote, Backslash}})
      name == text \o Text(it, it.head + 1, IF i = 0 THEN Len(it.buf) ELSE i - 1)
  IN IF i = 0 THEN MoreName(LoadMore(it), name)
     ELSE NameEnd(IF it.buf[i] = Quote THEN [it EXCEPT !.head = i, !.ret = <<>>]
                  ELSE ReadStringSlowPath([it EXCEPT !.head = i - 1], <<>>), name)

NameAfter(t) == IF t.ret = Quote THEN NameRun(t, <<>>) ELSE Failed(ReportError(t))

\* readFieldHash: the hash of the name in small letters, for which the name stands.
FieldName(it) == NameAfter(NextToken(it))
===============================================================================
