------------------------------- MODULE JsonStream -------------------------------
(***************************************************************************)
(* The writer of the JSON library: a stream with the bytes written so far  *)
(* and the indention, for one configuration conf [step, html, safe, sort]: *)
(* how far containers are indented, whether strings are safe in HTML,      *)
(* whether integers become strings and nil slices empty arrays, and        *)
(* whether the keys of maps are sorted.                                    *)
(*                                                                         *)
(* Besides the generic values of JsonDecode there are int, nilslice, and   *)
(* struct, with the fields it leaves out when they are empty.              *)
(***************************************************************************)
EXTENDS JsonDecode, SequencesExt

CONSTANT Separators    \* the code points U+2028 and U+2029, with their last digit

NewStream == [buf |-> <<>>, indention |-> 0]

\* Write, WriteRaw and writeByte to writeFiveBytes.
Write(s, bytes) == [s EXCEPT !.buf = @ \o bytes]

\* Nothing without indention.
WriteIndention(s, delta) ==
  IF s.indention = 0 THEN s
  ELSE Write(s, <<"\n">> \o [i \in 1..s.indention - delta |-> " "])

-------------------------------------------------------------------------------
(* Integers, three digits at a time *)

Groups == 1000

\* digits[v], all three of them.
WriteBuf(s, v) ==
  Write(s, [i \in 1..3 |-> Decimal[((v \div <<100, 10, 1>>[i]) % 10) + 1]])

\* digits[v] without the zeros in front.
WriteFirstBuf(s, v) ==
  LET three == WriteBuf(NewStream, v).buf
  IN Write(s, SubSeq(three, IF v >= 100 THEN 1 ELSE IF v >= 10 THEN 2 ELSE 3, 3))

\* WriteUint64: the remainders after the quotient that is left.
RECURSIVE WriteUint(_, _)
WriteUint(s, v) ==
  IF v < Groups THEN WriteFirstBuf(s, v) ELSE WriteBuf(WriteUint(s, v \div Groups), v % Groups)

WriteInt(s, n) == IF n < 0 THEN WriteUint(Write(s, <<"-">>), -n) ELSE WriteUint(s, n)

-------------------------------------------------------------------------------
(* Strings *)

HtmlUnsafe == {"<", ">", "&"}

\* The code points whose bytes stand at position i of a text, beyond ASCII.
RunesAt(text, i) ==
  {r \in DOMAIN Utf8 : r >= 128 /\ IsPrefix(Utf8[r], SubSeq(text, i, Len(text)))}

NonAscii == UNION {{Utf8[r][i] : i \in DOMAIN Utf8[r]} : r \in {r \in DOMAIN Utf8 : r >= 128}}

\* The escape of a byte of ASCII that is not safe: by a letter, or by its two hexadecimal
\* digits.
EscapeOf(c) ==
  LET letter == [b \in {"\n", "\r", "\t"} |-> CASE b = "\n" -> "n" [] b = "\r" -> "r" [] b = "\t" -> "t"]
      code == CHOOSE r \in DOMAIN Utf8 : Utf8[r] = <<c>>
  IN CASE c \in {Quote, Backslash} -> <<Backslash, c>>
       [] c \in DOMAIN letter -> <<Backslash, letter[c]>>
       [] OTHER -> <<Backslash, "u", "0", "0", HexDigit[(code \div 16) + 1],
                    HexDigit[(code % 16) + 1]>>

Unsafe(html) == Control \cup {Quote, Backslash} \cup (IF html THEN HtmlUnsafe ELSE {})

\* What is written for the text from position i on.  With html, bytes that are no code
\* point become the escape of U+FFFD, and the separators of lines are escaped.
RECURSIVE StringFrom(_, _, _)
StringFrom(text, i, html) ==
  LET runes == RunesAt(text, i)
      r == CHOOSE p \in runes : TRUE
      size == IF runes = {} THEN 1 ELSE Len(Utf8[r])
      bytes ==
        IF text[i] \in Unsafe(html) THEN EscapeOf(text[i])
        ELSE IF ~ html \/ text[i] \notin NonAscii THEN <<text[i]>>
        ELSE IF runes = {} THEN <<Backslash, "u", "f", "f", "f", "d">>
        ELSE IF r \in DOMAIN Separators
             THEN <<Backslash, "u", "2", "0", "2", HexDigit[Separators[r] + 1]>>
        ELSE Utf8[r]
  IN IF i > Len(text) THEN <<>>
     ELSE bytes \o StringFrom(text, i + (IF html THEN size ELSE 1), html)

\* WriteString and WriteStringWithHTMLEscaped: what needs no escape is written as it is.
WriteString(s, text, html) == Write(s, <<Quote>> \o StringFrom(text, 1, html) \o <<Quote>>)

-------------------------------------------------------------------------------
(* Containers *)

\* WriteObjectStart and WriteArrayStart, and their ends.
Opened(s, bracket, conf) ==
  WriteIndention([Write(s, <<bracket>>) EXCEPT !.indention = @ + conf.step], 0)

Closed(s, bracket, conf) ==
  Write([WriteIndention(s, conf.step) EXCEPT !.indention = @ - conf.step], <<bracket>>)

WriteMore(s) == WriteIndention(Write(s, <<",">>), 0)

WriteColon(s) == Write(s, IF s.indention > 0 THEN <<":", " ">> ELSE <<":">>)

\* The keys in the order in which they are written, some order.
InOrder(names) == SetToSeq(names)

RECURSIVE WriteVal(_, _, _), WriteElements(_, _, _), WriteEntries(_, _, _, _), WriteFields(_, _, _, _)

WriteElements(s, elements, conf) ==
  LET first == WriteVal(s, Head(elements), conf)
  IN IF Tail(elements) = <<>> THEN first
     ELSE WriteElements(WriteMore(first), Tail(elements), conf)

\* An entry is written to the stream itself, or, if keys are sorted, to one of its own
\* that knows nothing of the indention.
WriteEntries(s, keys, map, conf) ==
  LET At(stream) == WriteString(stream, Head(keys), conf.html)
      own == WriteVal(WriteColon(At(s)), map[Head(keys)], conf)
      key == At(NewStream)
      colon == [WriteColon([key EXCEPT !.indention = s.indention]) EXCEPT !.indention = 0]
      entry == IF conf.sort THEN Write(s, WriteVal(colon, map[Head(keys)], conf).buf) ELSE own
  IN IF keys = <<>> THEN s
     ELSE IF Tail(keys) = <<>> THEN entry
     ELSE WriteEntries(WriteMore(entry), Tail(keys), map, conf)

\* IsEmpty of the encoders of fields.
IsEmpty(v) ==
  CASE v.is = "int" -> v.int = 0
    [] v.is = "string" -> v.string = <<>>
    [] v.is = "array" -> v.array = <<>>
    [] v.is = "object" -> DOMAIN v.object = {}
    [] v.is = "bool" -> ~ v.bool
    [] v.is = "struct" -> FALSE
    [] v.is = "number" -> v.number = <<"0">>
    [] OTHER -> TRUE

\* The fields of a structure that are written.
Present(v) == {f \in DOMAIN v.struct : ~ (f \in v.omit /\ IsEmpty(v.struct[f]))}

WriteFields(s, names, fields, conf) ==
  LET field == WriteVal(WriteColon(WriteString(s, Head(names), FALSE)), fields[Head(names)], conf)
  IN IF names = <<>> THEN s
     ELSE IF Tail(names) = <<>> THEN field
     ELSE WriteFields(WriteMore(field), Tail(names), fields, conf)

\* The encoder of integers of 64 bits: a string, if numbers must be safe for JavaScript.
WriteSafeInt(s, n, conf) ==
  IF conf.safe THEN WriteString(s, WriteInt(NewStream, n).buf, FALSE) ELSE WriteInt(s, n)

\* The encoder of slices.
WriteSlice(s, elements, conf) ==
  IF elements = <<>> THEN Write(s, <<"[", "]">>)
  ELSE Closed(WriteElements(Opened(s, "[", conf), elements, conf), "]", conf)

WriteNilSlice(s, conf) == Write(s, IF conf.safe THEN <<"[", "]">> ELSE Null4)

WriteMap(s, map, conf) ==
  Closed(WriteEntries(Opened(s, "{", conf), InOrder(DOMAIN map), map, conf), "}", conf)

WriteStruct(s, v, conf) ==
  IF DOMAIN v.struct = {} THEN Write(s, <<"{", "}">>)
  ELSE Closed(WriteFields(Opened(s, "{", conf), InOrder(Present(v)), v.struct, conf), "}", conf)

WriteBool(s, bool) ==
  Write(s, IF bool THEN <<"t", "r", "u", "e">> ELSE <<"f", "a", "l", "s", "e">>)

\* WriteVal, with the encoder of the value's type.
WriteVal(s, v, conf) ==
  CASE v.is = "null" -> Write(s, Null4)
    [] v.is = "bool" -> WriteBool(s, v.bool)
    [] v.is = "number" -> Write(s, v.number)
    [] v.is = "int" -> WriteSafeInt(s, v.int, conf)
    [] v.is = "string" -> WriteString(s, v.string, conf.html)
    [] v.is = "nilslice" -> WriteNilSlice(s, conf)
    [] v.is = "array" -> WriteSlice(s, v.array, conf)
    [] v.is = "object" -> WriteMap(s, v.object, conf)
    [] v.is = "struct" -> WriteStruct(s, v, conf)

\* Marshal.
Marshal(v, conf) == WriteVal(NewStream, v, conf).buf

\* Encode: every value is followed by a line feed.
Encode(s, v, conf) == Write(WriteVal(s, v, conf), <<"\n">>)
===============================================================================
