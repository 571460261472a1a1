------------------------------- MODULE JsonDecode -------------------------------
(***************************************************************************)
(* What the JSON library builds from the iterator's routines: elements are *)
(* skipped, in either of two builds, read as generic values, or decoded    *)
(* into a type known beforehand.  As in JsonIter an operator returns the   *)
(* iterator it leaves, its result in ret.                                  *)
(*                                                                         *)
(* A generic value is a record with the field is and a field for what it   *)
(* is.  A type is a record with the field kind: any, int, string, raw,     *)
(* slice, map or optional, with the type of what they hold, or struct.     *)
(***************************************************************************)
EXTENDS JsonIter, TLC

CONSTANT HashedFields    \* names of fields a decoder compares by hash, 10 in the code

-------------------------------------------------------------------------------
(* The build that checks what it skips (iter_skip_strict.go) *)

\* trySkipNumber: ret says whether the number was dealt with.
TrySkipNumber(it) ==
  LET At(i) == it.buf[i]
      Dotted(i) == \E j \in Ahead(it) : j < i /\ At(j) = "."
      i == Nearest({j \in Ahead(it) : \/ At(j) \notin Digit \cup {"."}
                                      \/ At(j) = "." /\ (\/ Dotted(j) \/ j = Len(it.buf)
                                                         \/ At(j + 1) \notin Digit)})
  IN IF i = 0 THEN [it EXCEPT !.ret = FALSE]
     ELSE IF At(i) = "." /\ (Dotted(i) \/ i < Len(it.buf))
          THEN [ReportError(it) EXCEPT !.ret = TRUE]
     ELSE IF At(i) \in {",", "]", "}"} \cup Blank /\ i # it.head + 1
          THEN [it EXCEPT !.head = i - 1, !.ret = TRUE]
     ELSE [it EXCEPT !.ret = FALSE]

\* What cannot be read as a float is read as a big one.
ReadAgain(read) == IF read.err = "bad" THEN ReadBigFloat([read EXCEPT !.err = "none"]) ELSE read

ReadIfNot(try) ==
  CASE try.ret -> try
    [] ~ try.ret /\ try.err = "bad" -> try
    [] OTHER -> ReadAgain(ReadFloat(UnreadByte(try)))

\* What cannot be skipped is read.
SkipNumberStrict(it) == ReadIfNot(TrySkipNumber(it))

\* trySkipString, or the string is read.
SkipStringStrict(it) ==
  LET i == StringStop(it)
  IN IF i = 0 \/ it.buf[i] = Backslash THEN ReadString(UnreadByte(it))
     ELSE IF it.buf[i] = Quote THEN [it EXCEPT !.head = i] ELSE ReportError(it)

-------------------------------------------------------------------------------
(* The build that does not (iter_skip_sloppy.go) *)

RECURSIVE SkipNumberSloppy(_)

MoreToSkip(more) == IF more.ret THEN SkipNumberSloppy(more) ELSE more

SkipNumberSloppy(it) ==
  LET i == Nearest({j \in Ahead(it) : it.buf[j] \in {",", "]", "}"} \cup Blank})
  IN IF i = 0 THEN MoreToSkip(LoadMore(it)) ELSE [it EXCEPT !.head = i - 1]

\* Mutant: a backslash that is escaped itself counts.
EscapedByOne(it, i) == i - 1 > it.head /\ it.buf[i - 1] = Backslash

\* Backslashes before position i, no further back than the head, are odd in number.
Escaped(it, i) ==
  LET k == Max({j \in {it.head} \cup Ahead(it) : j < i /\ (j = it.head \/ it.buf[j] # Backslash)})
  IN (i - 1 - k) % 2 = 1

\* findStringEnd and the loop around it: a backslash that ends a buffer escapes the first
\* byte of the next.
RECURSIVE SkipStringSloppy(_)

MoreString(more, escaped) ==
  IF more.ret THEN SkipStringSloppy(IF escaped THEN [more EXCEPT !.head = 1] ELSE more)
  ELSE ReportError(more)

SkipStringSloppy(it) ==
  LET end == Nearest({i \in Ahead(it) : it.buf[i] = Quote /\ ~ Escaped(it, i)})
  IN IF end = 0 THEN MoreString(LoadMore(it), Escaped(it, Len(it.buf) + 1))
     ELSE [it EXCEPT !.head = end]

\* From position i on to the bracket that closes the level; brackets of the other kind are
\* not counted, and the head stays until the end, or until a string is skipped.
RECURSIVE SkipLevels(_, _, _, _, _)

MoreLevels(more, level, open, close) ==
  IF more.ret THEN SkipLevels(more, 1, level, open, close) ELSE ReportError(more)

LevelsAfter(text, level, open, close) == SkipLevels(text, text.head + 1, level, open, close)

Deeper(in, j, level, open, close) ==
  IF in.ret THEN SkipLevels(in, j + 1, level + 1, open, close) ELSE in

Higher(out, j, level, open, close) ==
  IF out.depth < 0 THEN out
  ELSE IF level = 1 THEN [out EXCEPT !.head = j]
  ELSE SkipLevels(out, j + 1, level - 1, open, close)

SkipLevels(it, i, level, open, close) ==
  LET j == Nearest({k \in i..Len(it.buf) : it.buf[k] \in {Quote, open, close}})
  IN IF j = 0 THEN MoreLevels(LoadMore(it), level, open, close)
     ELSE CASE it.buf[j] = Quote ->
                 LevelsAfter(SkipStringSloppy([it EXCEPT !.head = j]), level, open, close)
            [] it.buf[j] = open -> Deeper(IncrementDepth(it), j, level, open, close)
            [] it.buf[j] = close -> Higher(DecrementDepth(it), j, level, open, close)

\* skipArray and skipObject.
SkipContainerSloppy(it, open, close) == Deeper(IncrementDepth(it), it.head, 0, open, close)

-------------------------------------------------------------------------------
(* Skipping and reading, with the callbacks of containers *)

RECURSIVE Skip(_, _), Read(_), ReadVal(_)

\* What the callbacks do with an element: skip it, or read it.
Element(it, how) == IF how = "read" THEN ReadVal(it) ELSE Skip(it, how)

\* The end of a container, where its bracket may be missing.
EndOf(c, bracket) == DecrementDepth(IF c.ret = bracket THEN c ELSE ReportError(c))

\* Elements up to the bracket; ret has them all.
RECURSIVE Elements(_, _, _)

AfterElement(c, how, all) ==
  IF c.ret = "," THEN Elements(c, how, all) ELSE Return(EndOf(c, "]"), all)

WithElement(e, how, done) == AfterElement(NextToken(e), how, Append(done, e.ret))

Elements(it, how, done) == WithElement(Element(it, how), how, done)

FirstElement(c, how) ==
  IF c.ret = "]" THEN Failed(DecrementDepth(c)) ELSE Elements(UnreadByte(c), how, <<>>)

\* The elements of what begins with token t, if they are not too deep.
EnterArray(in, how) == IF in.ret THEN FirstElement(NextToken(in), how) ELSE Failed(in)

ArrayAfter(t, how) ==
  CASE t.ret = "n" -> Failed(Literal(t))
    [] t.ret = "[" -> EnterArray(IncrementDepth(t), how)
    [] OTHER -> Failed(ReportError(t))

ReadArrayCB(it, how) == ArrayAfter(NextToken(it), how)

\* Fields up to the bracket.  Where fields are read (ReadMapCB) a missing colon ends the
\* object; where they are skipped (ReadObjectCB) it is reported and passed over.
RECURSIVE Fields(_, _, _)

AfterField(c, how, all) ==
  IF c.ret = "," THEN Fields(c, how, all) ELSE Return(EndOf(c, "}"), all)

WithField(e, name, how, done) == AfterField(NextToken(e), how, (name :> e.ret) @@ done)

Field(colon, name, how, done) ==
  IF colon.ret # ":" /\ how = "read" THEN Return(DecrementDepth(ReportError(colon)), done)
  ELSE WithField(Element(IF colon.ret = ":" THEN colon ELSE ReportError(colon), how),
                 name, how, done)

FieldNamed(name, how, done) == Field(NextToken(name), name.ret, how, done)

Fields(it, how, done) == FieldNamed(ReadString(it), how, done)

FirstField(c, how) ==
  IF c.ret = Quote THEN Fields(UnreadByte(c), how, <<>>) ELSE Failed(EndOf(c, "}"))

EnterObject(in, how) == IF in.ret THEN FirstField(NextToken(in), how) ELSE Failed(in)

ObjectAfter(t, how) ==
  CASE t.ret = "n" -> Failed(Literal(t))
    [] t.ret = "{" -> EnterObject(IncrementDepth(t), how)
    [] OTHER -> Failed(ReportError(t))

ReadObjectCB(it, how) == ObjectAfter(NextToken(it), how)

SkipString(t, build) == IF build = "strict" THEN SkipStringStrict(t) ELSE SkipStringSloppy(t)

SkipNumber(t, build) == IF build = "strict" THEN SkipNumberStrict(t) ELSE SkipNumberSloppy(t)

SkipArray(t, build) ==
  IF build = "strict" THEN ReadArrayCB(UnreadByte(t), build) ELSE SkipContainerSloppy(t, "[", "]")

SkipObject(t, build) ==
  IF build = "strict" THEN ReadObjectCB(UnreadByte(t), build) ELSE SkipContainerSloppy(t, "{", "}")

\* The rest of the element that begins with token t.
SkipAfter(t, build) ==
  CASE t.ret = Quote -> SkipString(t, build)
    [] t.ret \in {"n", "t", "f"} -> Literal(t)
    [] t.ret = "0" -> ReadFloat(UnreadByte(t))
    [] t.ret \in (Digit \ {"0"}) \cup {"-"} -> SkipNumber(t, build)
    [] t.ret = "[" -> SkipArray(t, build)
    [] t.ret = "{" -> SkipObject(t, build)
    [] OTHER -> ReportError(t)

\* Skip, in the build "strict" or "sloppy".
Skip(it, build) == Return(SkipAfter(NextToken(it), build), TRUE)

SkipAndReturnBytes(it, build) == StopCapture(Skip(StartCapture(it), build))

NullValue == [is |-> "null"]

\* The value a routine returned, as a generic value of this kind.
As(is, it) == Return(it, [x \in {"is", is} |-> IF x = "is" THEN is ELSE it.ret])

ReadType(t) ==
  CASE t.ret = "string" -> As("string", ReadString(t))
    [] t.ret = "number" -> As("number", ReadFloat(t))
    [] t.ret = "nil" -> Return(SkipBytes(t, Null4), NullValue)
    [] t.ret = "bool" -> As("bool", ReadBool(t))
    [] t.ret = "array" -> As("array", ReadArrayCB(t, "read"))
    [] t.ret = "object" -> As("object", ReadObjectCB(t, "read"))
    [] t.ret = "invalid" -> Return(ReportError(t), NullValue)

Read(it) == ReadType(WhatIsNext(it))

\* ReadVal makes sure that a decoder left the depth as it was.
Balanced(before, after) == IF after.depth = before.depth THEN after ELSE ReportError(after)

\* ReadVal into an empty interface{}, what the callbacks do.
ReadVal(it) == Balanced(it, Read(it))

-------------------------------------------------------------------------------
(* Callers that take the elements of a container one by one *)

No(it) == Return(it, FALSE)

\* After a bracket: an element, if it is not the other bracket.
Nonempty(c, close) == IF c.ret = close THEN No(c) ELSE Return(UnreadByte(c), TRUE)

NextElement(t) ==
  CASE t.ret = "n" -> No(Literal(t))
    [] t.ret = "[" -> Nonempty(NextToken(t), "]")
    [] t.ret = "," -> Return(t, TRUE)
    [] t.ret = "]" -> No(t)
    [] OTHER -> No(ReportError(t))

\* ReadArray: is there one more?
ReadArray(it) == NextElement(NextToken(it))

\* A colon, and the name that was read before it.
Colonized(c, name) == Return(IF c.ret = ":" THEN c ELSE ReportError(c), name)

Named(name) == Colonized(NextToken(name), name.ret)

\* A name that begins with a quote, or the end.
FirstName(c) ==
  IF c.ret = Quote THEN Named(ReadString(UnreadByte(c)))
  ELSE Failed(IF c.ret = "}" THEN c ELSE ReportError(c))

NextName(t) ==
  CASE t.ret = "n" -> Failed(Literal(t))
    [] t.ret = "{" -> FirstName(NextToken(t))
    [] t.ret = "," -> Named(ReadString(t))
    [] t.ret = "}" -> Failed(t)
    [] OTHER -> Failed(ReportError(t))

\* ReadObject: the name of the next field, empty at the end.
ReadObject(it) == NextName(NextToken(it))

ElementFollows(t) ==
  IF t.ret = Zero THEN No(t) ELSE Return(UnreadByte(t), t.ret \notin {"]", "}"})

\* Decoder.More: an element follows.
DecoderMore(it) == IF it.err = "none" THEN ElementFollows(NextToken(it)) ELSE No(it)

-------------------------------------------------------------------------------
(* Decoders of types (reflect_*.go), into variables that hold nothing yet *)

RECURSIVE DecodeAs(_, _, _)

\* strconv.ParseInt, for integers up to max.
ParseInt(text, max) ==
  LET sign == text[1] \in {"+", "-"}
      digits == IF sign THEN Tail(text) ELSE text
      value == IF text[1] = "-" THEN - DecimalValue(digits) ELSE DecimalValue(digits)
  IN IF digits # <<>> /\ (\A i \in DOMAIN digits : digits[i] \in Digit)
     THEN {n \in {value} : n \in - max - 1..max} ELSE {}

\* The integers the text stands for: one, or none.
Converted(string, ints) ==
  IF ints = {} THEN NoInteger(string) ELSE Return(string, CHOOSE n \in ints : TRUE)

IntOfString(string, max) ==
  IF string.ret = <<>> THEN Return(string, 0) ELSE Converted(string, ParseInt(string.ret, max))

MixedInt(t, max) ==
  CASE t.ret = "number" -> ReadInt(t, max)
    [] t.ret = "string" -> IntOfString(ReadString(t), max)
    [] OTHER -> NoInteger(t)

\* readMixedInt64: an integer, or a string that holds one or nothing.
ReadMixedInt(it, max) == MixedInt(WhatIsNext(it), max)

\* The codecs of integers; n is after the null, if there is one.
IntUnlessNil(n, type) ==
  CASE n.ret -> Return(n, 0)
    [] ~ n.ret /\ type.mixed -> ReadMixedInt(n, type.max)
    [] OTHER -> ReadInt(n, type.max)

DecodeInt(it, type) == As("int", IntUnlessNil(ReadNil(it), type))

RawUnlessNil(n, build) ==
  IF n.ret THEN Return(n, NullValue) ELSE As("raw", SkipAndReturnBytes(n, build))

\* The codec of raw messages.
DecodeRaw(it, build) == RawUnlessNil(ReadNil(it), build)

UnlessNil(n, of, build) == IF n.ret THEN Return(n, NullValue) ELSE DecodeAs(n, of, build)

\* The decoder of pointers.
DecodeOptional(it, of, build) == UnlessNil(ReadNil(it), of, build)

\* The end of a container whose depth is not counted.
Ended(c, bracket, value) == Return(IF c.ret = bracket THEN c ELSE ReportError(c), value)

RECURSIVE SliceElements(_, _, _, _)

AfterItem(c, of, build, all) ==
  IF c.ret = "," THEN SliceElements(c, of, build, all) ELSE Ended(c, "]", all)

WithItem(e, of, build, done) == AfterItem(NextToken(e), of, build, Append(done, e.ret))

SliceElements(it, of, build, done) == WithItem(DecodeAs(it, of, build), of, build, done)

FirstItem(c, of, build) ==
  As("array", IF c.ret = "]" THEN Failed(c) ELSE SliceElements(UnreadByte(c), of, build, <<>>))

SliceAfter(t, of, build) ==
  CASE t.ret = "n" -> Return(Literal(t), NullValue)
    [] t.ret = "[" -> FirstItem(NextToken(t), of, build)
    [] OTHER -> Return(ReportError(t), NullValue)

\* sliceDecoder.doDecode, which does not count the depth.
DecodeSlice(it, of, build) == SliceAfter(NextToken(it), of, build)

RECURSIVE MapEntries(_, _, _, _)

AfterEntry(c, of, build, all) ==
  IF c.ret = "," THEN MapEntries(c, of, build, all) ELSE Ended(c, "}", all)

WithEntry(e, key, of, build, done) == AfterEntry(NextToken(e), of, build, (key :> e.ret) @@ done)

Entry(colon, key, of, build, done) ==
  IF colon.ret = ":" THEN WithEntry(DecodeAs(colon, of, build), key, of, build, done)
  ELSE Return(ReportError(colon), done)

EntryOf(key, of, build, done) == Entry(NextToken(key), key.ret, of, build, done)

MapEntries(it, of, build, done) == EntryOf(ReadString(it), of, build, done)

FirstEntry(c, of, build) ==
  As("object", IF c.ret = "}" THEN Failed(c) ELSE MapEntries(UnreadByte(c), of, build, <<>>))

MapAfter(t, of, build) ==
  CASE t.ret = "n" -> Return(Literal(t), NullValue)
    [] t.ret = "{" -> FirstEntry(NextToken(t), of, build)
    [] OTHER -> Return(ReportError(t), NullValue)

\* mapDecoder.Decode for keys that are strings; it does not count the depth either.
DecodeMap(it, of, build) == MapAfter(NextToken(it), of, build)

ObjectStart(t) ==
  CASE t.ret = "n" -> No(Literal(t))
    [] t.ret = "{" -> Nonempty(NextToken(t), "}")
    [] OTHER -> No(ReportError(t))

\* readObjectStart: is there a field?
ReadObjectStart(it) == ObjectStart(NextToken(it))

\* The field a name is for: it has that name, or that name but for the case of letters.
FieldOf(fields, name) ==
  IF name \in DOMAIN fields THEN {name} ELSE {f \in DOMAIN fields : Lower(f) = Lower(name)}

\* decoderOfStruct and createStructDecoder: names are known in small letters too; unless
\* that gives two names one hash, or too many, fields are found by their hash.
FoundByHash(type) ==
  LET names == DOMAIN type.fields \cup {Lower(f) : f \in DOMAIN type.fields}
  IN /\ ~ type.closed
     /\ Cardinality(names) <= HashedFields
     /\ \A f, g \in names : Lower(f) = Lower(g) => f = g

\* What variables hold that nothing was decoded into.
RECURSIVE ZeroOf(_)
ZeroOf(type) ==
  CASE type.kind = "int" -> [is |-> "int", int |-> 0]
    [] type.kind = "string" -> [is |-> "string", string |-> <<>>]
    [] type.kind = "struct" ->
         [is |-> "struct", struct |-> [f \in DOMAIN type.fields |-> ZeroOf(type.fields[f])]]
    [] OTHER -> NullValue

\* What follows a name, for the field it is for if there is one.
FieldValue(it, field, type, build, done) ==
  LET f == CHOOSE g \in field : TRUE
      Set(v) == Return(v, [done EXCEPT ![f] = v.ret])
  IN IF field = {} THEN Return(Skip(it, build), done)
     ELSE Set(DecodeAs(it, type.fields[f], build))

\* The field of a known name; a closed type reports the others.
Known(name, field, type) == IF type.closed /\ field = {} THEN ReportError(name) ELSE name

HashedValue(name, type, build, done) ==
  FieldValue(name, FieldOf(type.fields, name.ret), type, build, done)

GeneralValue(name, field, type, build, done) ==
  FieldValue(Named(Known(name, field, type)), field, type, build, done)

GeneralNamed(name, type, build, done) ==
  GeneralValue(name, FieldOf(type.fields, name.ret), type, build, done)

\* One field: in oneFieldStructDecoder to tenFieldsStructDecoder, or in
\* generalStructDecoder, where a missing colon is reported and passed over.
StructField(it, type, build, done) ==
  IF FoundByHash(type) THEN HashedValue(FieldName(it), type, build, done)
  ELSE GeneralNamed(ReadString(it), type, build, done)

\* The fields of a structure, one after the other.
RECURSIVE StructFields(_, _, _, _)

AfterValue(c, type, build, done) ==
  IF c.ret = "," THEN StructFields(c, type, build, done) ELSE Return(EndOf(c, "}"), done)

WithValue(v, type, build) == AfterValue(NextToken(v), type, build, v.ret)

StructFields(it, type, build, done) ==
  WithValue(StructField(it, type, build, done), type, build)

EmptyAfter(t, build) == IF t.ret \in {"object", "nil"} THEN Skip(t, build) ELSE ReportError(t)

\* skipObjectDecoder: a structure without fields.
DecodeEmptyStruct(it, build) == EmptyAfter(WhatIsNext(it), build)

EnterStruct(in, type, build, zero) ==
  IF in.ret THEN StructFields(in, type, build, zero) ELSE Return(in, zero)

StructAfter(start, type, build, zero) ==
  IF start.ret THEN EnterStruct(IncrementDepth(start), type, build, zero) ELSE Return(start, zero)

DecodeStruct(it, type, build) ==
  LET zero == ZeroOf(type).struct
  IN As("struct", IF DOMAIN type.fields = {} /\ ~ type.closed
                  THEN Return(DecodeEmptyStruct(it, build), zero)
                  ELSE StructAfter(ReadObjectStart(it), type, build, zero))

DecodeAs(it, type, build) ==
  CASE type.kind = "any" -> Read(it)
    [] type.kind = "int" -> DecodeInt(it, type)
    [] type.kind = "string" -> As("string", ReadString(it))
    [] type.kind = "raw" -> DecodeRaw(it, build)
    [] type.kind = "optional" -> DecodeOptional(it, type.of, build)
    [] type.kind = "slice" -> DecodeSlice(it, type.of, build)
    [] type.kind = "map" -> DecodeMap(it, type.of, build)
    [] type.kind = "struct" -> DecodeStruct(it, type, build)

\* ReadVal for a type.
Decode(it, type, build) == Balanced(it, DecodeAs(it, type, build))

DecodeIfMore(more, type, build) == IF more.ret THEN Decode(more, type, build) ELSE more

\* Decoder.Decode: with a reader and nothing in the buffer, the end is looked for first.
DecoderDecode(it, type, build) ==
  DecodeIfMore(IF it.head = Len(it.buf) /\ it.reader THEN LoadMore(it) ELSE Return(it, TRUE),
               type, build)

\* What is left after a value is reported.
AllOf(c, value) == Return(IF c.ret = Zero THEN c ELSE ReportError(c), value)

WholeText(v) == AllOf(NextToken(v), v.ret)

\* Unmarshal, with an iterator reset to the text: nothing may be left but blanks.
Unmarshal(it, type, build) == WholeText(Decode(it, type, build))
===============================================================================
