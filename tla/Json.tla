---------------------------------- MODULE Json ----------------------------------
(***************************************************************************)
(* The JSON library at work: an iterator over a stream of elements, which  *)
(* a reader delivers in chunks of its own making and may break off, or     *)
(* over a text that is all there, with an iterator from the pool.  The     *)
(* caller reads, decodes or skips element after element, or enters arrays  *)
(* and objects and takes theirs, in any order.                             *)
(*                                                                         *)
(* The streams are what the library itself writes for some values, in some *)
(* configurations, and some texts that others write.                       *)
(***************************************************************************)
EXTENDS JsonStream

CONSTANTS Streams,     \* sequences of values that are written one after the other
          Texts,       \* values that are written alone
          Configs,     \* configurations of the writer
          Foreign,     \* inputs of other writers: [text, values]
          Types,       \* types to decode into
          BufSizes     \* sizes of the buffer a reader fills

VARIABLES it,      \* the iterator
          build,   \* "strict" or "sloppy": how this program was built
          use,     \* "idle", or the iterator in use: "stream" or "text"
          todo     \* what the caller has not been given, the next first

vars == <<it, build, use, todo>>

-------------------------------------------------------------------------------
(* What callers are promised *)

\* The text of an integer.
DecimalText(n) ==
  LET digits[m \in Nat] ==
        IF m < 10 THEN <<Decimal[m + 1]>> ELSE Append(digits[m \div 10], Decimal[(m % 10) + 1])
  IN IF n < 0 THEN <<"-">> \o digits[-n] ELSE digits[n]

\* The generic value of a value once it is written.
RECURSIVE Generic(_, _)
Generic(v, conf) ==
  CASE v.is = "int" -> IF conf.safe THEN [is |-> "string", string |-> DecimalText(v.int)]
                       ELSE [is |-> "number", number |-> DecimalText(v.int)]
    [] v.is = "nilslice" -> IF conf.safe THEN [is |-> "array", array |-> <<>>] ELSE NullValue
    [] v.is = "array" ->
         [is |-> "array", array |-> [i \in DOMAIN v.array |-> Generic(v.array[i], conf)]]
    [] v.is = "object" ->
         [is |-> "object", object |-> [f \in DOMAIN v.object |-> Generic(v.object[f], conf)]]
    [] v.is = "struct" ->
         [is |-> "object", object |-> [f \in Present(v) |-> Generic(v.struct[f], conf)]]
    [] OTHER -> v

\* How deep arrays and objects are nested in it.
RECURSIVE Depth(_)
Depth(g) ==
  CASE g.is = "array" -> 1 + Max({0} \cup {Depth(g.array[i]) : i \in DOMAIN g.array})
    [] g.is = "object" -> 1 + Max({0} \cup {Depth(g.object[f]) : f \in DOMAIN g.object})
    [] OTHER -> 0

\* Somewhere in it is a number that is no integer.
RECURSIVE Fraction(_)
Fraction(g) ==
  CASE g.is = "number" -> \E i \in DOMAIN g.number : g.number[i] \notin Digit \cup {"-"}
    [] g.is = "array" -> \E i \in DOMAIN g.array : Fraction(g.array[i])
    [] g.is = "object" -> \E f \in DOMAIN g.object : Fraction(g.object[f])
    [] OTHER -> FALSE

The(set) == CHOOSE x \in set : TRUE

\* What a generic value is as a value of the type; no value if it does not fit.
RECURSIVE Fit(_, _)
Fit(g, type) ==
  LET kind == type.kind
      all == IF g.is = "array" THEN [i \in DOMAIN g.array |-> Fit(g.array[i], type.of)]
             ELSE [f \in DOMAIN g.object |-> Fit(g.object[f], type.of)]
      fits == [x \in DOMAIN all |-> The(all[x])]
      int == IF g.is = "number" THEN ParseInt(g.number, type.max)
             ELSE IF g.is = "string" /\ type.mixed
                  THEN IF g.string = <<>> THEN {0} ELSE ParseInt(g.string, type.max)
             ELSE {n \in {0} : g.is = "null"}
      Sources(f) == {h \in DOMAIN g.object : FieldOf(type.fields, h) = {f}}
      field == [f \in DOMAIN type.fields |->
                  IF Sources(f) = {} THEN {ZeroOf(type.fields[f])}
                  ELSE Fit(g.object[The(Sources(f))], type.fields[f])]
  IN CASE kind = "any" -> {g}
       [] kind = "int" -> {[is |-> "int", int |-> n] : n \in int}
       [] kind = "string" ->
            IF g.is = "null" THEN {ZeroOf(type)} ELSE {s \in {g} : g.is = "string"}
       [] kind \in {"raw", "optional", "slice", "map"} /\ g.is = "null" -> {NullValue}
       [] kind = "raw" /\ g.is # "null" -> {[is |-> "raw", raw |-> g]}
       [] kind = "optional" /\ g.is # "null" -> Fit(g, type.of)
       [] kind = "slice" /\ g.is # "null" ->
            IF g.is # "array" \/ \E x \in DOMAIN all : all[x] = {} THEN {}
            ELSE {[is |-> "array", array |-> fits]}
       [] kind = "map" /\ g.is # "null" ->
            IF g.is # "object" \/ \E x \in DOMAIN all : all[x] = {} THEN {}
            ELSE {[is |-> "object", object |-> fits]}
       [] kind = "struct" ->
            IF g.is = "null" THEN {ZeroOf(type)}
            ELSE IF \/ g.is # "object"
                    \/ \E f \in DOMAIN field : field[f] = {}
                    \/ type.closed /\ \E h \in DOMAIN g.object : FieldOf(type.fields, h) = {}
                 THEN {}
            ELSE {[is |-> "struct", struct |-> [f \in DOMAIN field |-> The(field[f])]]}

\* A raw message is compared by what it says.
RECURSIVE Said(_)
Said(x) ==
  CASE x.is = "raw" -> [x EXCEPT !.raw = Read(ResetBytes(Fresh, @)).ret]
    [] x.is = "array" -> [x EXCEPT !.array = [i \in DOMAIN @ |-> Said(@[i])]]
    [] x.is = "object" -> [x EXCEPT !.object = [f \in DOMAIN @ |-> Said(@[f])]]
    [] x.is = "struct" -> [x EXCEPT !.struct = [f \in DOMAIN @ |-> Said(@[f])]]
    [] OTHER -> x

-------------------------------------------------------------------------------
(* Inputs *)

\* What Encode writes for the values.
Encoded(values, conf) ==
  LET stream[i \in 0..Len(values)] ==
        IF i = 0 THEN NewStream ELSE Encode(stream[i - 1], values[i], conf)
  IN stream[Len(values)].buf

Inputs ==
  {[text |-> Encoded(s, conf), values |-> [i \in DOMAIN s |-> Generic(s[i], conf)]] :
     s \in Streams, conf \in Configs} \cup Foreign

\* What Marshal writes for a value.
Documents ==
  {[text |-> Marshal(v, conf), values |-> <<Generic(v, conf)>>] : v \in Texts, conf \in Configs}

\* A first chunk of this length, and full buffers.
Chunks(text, first, size) ==
  LET more == Len(text) - first
      number == 1 + (more + size - 1) \div size
  IN [i \in 1..number |->
        IF i = 1 THEN SubSeq(text, 1, first)
        ELSE SubSeq(text, first + (i - 2) * size + 1, Min({first + (i - 1) * size, Len(text)}))]

Value(g) == [item |-> "value", value |-> g]

Values(s) == [i \in DOMAIN s |-> Value(s[i])]

-------------------------------------------------------------------------------

Init ==
  /\ build \in {"strict", "sloppy"}
  /\ use = "idle"
  /\ it = Fresh
  /\ todo = <<>>

\* What a call returned is given to the caller.
Left(i) == [i EXCEPT !.ret = FALSE]

\* NewDecoder, for a reader with any splitting of the text.
Open(input) ==
  /\ use = "idle"
  /\ \E size \in BufSizes : \E first \in 1..Min({size, Len(input.text)}) :
       it' = Reset(Fresh, Chunks(input.text, first, size), "eof")
  /\ use' = "stream"
  /\ todo' = Values(input.values)
  /\ UNCHANGED build

\* The same for a reader that breaks off.
OpenBroken(input) ==
  /\ use = "idle"
  /\ \E n \in 1..Len(input.text) - 1 :
       it' = Reset(Fresh, <<SubSeq(input.text, 1, n)>>, "bad")
  /\ use' = "stream"
  /\ todo' = Values(input.values)
  /\ UNCHANGED build

\* BorrowIterator.
Borrow(document) ==
  /\ use = "idle"
  /\ it' = ResetBytes(it, document.text)
  /\ use' = "text"
  /\ todo' = Values(document.values)
  /\ UNCHANGED build

\* ReturnIterator; its buffer, which is never looked at again, is left out.
Returned(i) == [Left(i) EXCEPT !.err = "none", !.buf = <<>>, !.head = 0]

\* The iterator goes back to the pool, or is dropped with its decoder, whenever the caller
\* likes.
Close ==
  /\ use # "idle"
  /\ it' = IF use = "text" THEN Returned(it) ELSE Fresh
  /\ use' = "idle"
  /\ todo' = <<>>
  /\ UNCHANGED build

\* Unmarshal, from the pool and back.
UnmarshalDocument(document, type) ==
  /\ use = "idle"
  /\ it' = Returned(Unmarshal(ResetBytes(it, document.text), type, build))
  /\ UNCHANGED <<build, use, todo>>

\* The caller goes on as long as nothing failed, and something is next.
Upcoming(kind) == use # "idle" /\ it.err = "none" /\ todo # <<>> /\ Head(todo).item = kind

\* A call that took the element; after a failure what is left is not looked at.
Took(call, rest) ==
  /\ it' = Left(call)
  /\ todo' = rest
  /\ UNCHANGED <<build, use>>

ReadOne == Upcoming("value") /\ Took(ReadVal(it), Tail(todo))

SkipOne == Upcoming("value") /\ Took(Skip(it, build), Tail(todo))

SkipBytesOne == Upcoming("value") /\ Took(SkipAndReturnBytes(it, build), Tail(todo))

\* Fractions are not decoded as integers: see the README.
Offered(g) == {type \in Types : type.kind \in {"any", "raw"} \/ ~ Fraction(g)}

DecodeOne ==
  /\ Upcoming("value")
  /\ \E type \in Offered(Head(todo).value) :
       Took(DecoderDecode(it, type, build), Tail(todo))

\* WhatIsNext and More leave everything in its place.
Look ==
  /\ todo # <<>> /\ Upcoming(Head(todo).item)
  /\ \/ Took(WhatIsNext(it), todo)
     \/ Took(DecoderMore(it), todo)

\* After the call that found one more element, or none.
EnterElements(elements, rest) ==
  IF elements = <<>> THEN rest
  ELSE <<Value(Head(elements)), [item |-> "elements", elements |-> Tail(elements)]>> \o rest

ReadArrayOne ==
  \/ /\ Upcoming("value")
     /\ Head(todo).value.is = "array"
     /\ Took(ReadArray(it), EnterElements(Head(todo).value.array, Tail(todo)))
  \/ /\ Upcoming("elements")
     /\ Took(ReadArray(it), EnterElements(Head(todo).elements, Tail(todo)))

\* The names of fields are left in the order in which they are written.
EnterFields(names, object, rest) ==
  IF names = <<>> THEN rest
  ELSE <<Value(object[Head(names)]),
         [item |-> "fields", names |-> Tail(names), object |-> object]>> \o rest

ReadObjectOne ==
  \/ /\ Upcoming("value")
     /\ Head(todo).value.is = "object"
     /\ Took(ReadObject(it), EnterFields(InOrder(DOMAIN Head(todo).value.object),
                                         Head(todo).value.object, Tail(todo)))
  \/ /\ Upcoming("fields")
     /\ Took(ReadObject(it), EnterFields(Head(todo).names, Head(todo).object, Tail(todo)))

Next ==
  \/ \E input \in Inputs : Open(input) \/ OpenBroken(input)
  \/ \E document \in Documents :
       Borrow(document) \/ \E type \in Offered(document.values[1]) : UnmarshalDocument(document, type)
  \/ Close
  \/ ReadOne \/ SkipOne \/ SkipBytesOne \/ DecodeOne \/ Look \/ ReadArrayOne \/ ReadObjectOne

Spec == Init /\ [][Next]_vars

-------------------------------------------------------------------------------
(* Properties *)

\* The iterator is one: its head is inside the buffer, nothing is captured between two
\* calls, and between uses the pool's iterator has no error.
JsonTypeOK ==
  /\ build \in {"strict", "sloppy"} /\ use \in {"idle", "stream", "text"}
  /\ it.head \in 0..Len(it.buf) /\ it.depth \in Nat /\ it.err \in {"none", "eof", "bad"}
  /\ it.from = -1 /\ it.captured = <<>>
  /\ \A i \in DOMAIN todo : todo[i].item \in {"value", "elements", "fields"}
  /\ use = "idle" => it.err = "none" /\ todo = <<>>

\* A call that gives the caller g as one of these: it fails only if nothing fits, or if the
\* reader broke off or g is nested too deeply.
Given(call, g, fits) ==
  IF call.err = "bad" THEN fits = {} \/ call.end = "bad" \/ Depth(g) > MaxDepth
  ELSE call.ret \in fits

\* A decoder's call, where raw messages are compared by what they say, if that is not too
\* deep to be read.
Decoded(call, g, type) ==
  \/ type.kind = "raw" /\ Depth(g) > MaxDepth
  \/ Given(IF call.err = "bad" THEN call ELSE [call EXCEPT !.ret = Said(@)], g, Fit(g, type))

ValueGiven(g) ==
  /\ Given(ReadVal(it), g, {g})
  /\ Depth(g) > MaxDepth => ReadVal(it).err = "bad"
  /\ \A type \in Offered(g) : Decoded(DecoderDecode(it, type, build), g, type)
  /\ Given(Skip(it, build), g, {TRUE})
  /\ LET bytes == SkipAndReturnBytes(it, build)
     IN bytes.err # "bad" /\ Depth(g) <= MaxDepth => Read(ResetBytes(Fresh, bytes.ret)).ret = g
  /\ g.is = "array" => Given(ReadArray(it), g, {g.array # <<>>})
  /\ g.is = "object" =>
       Given(ReadObject(it), g, IF DOMAIN g.object = {} THEN {<<>>}
                                ELSE {Head(InOrder(DOMAIN g.object))})
  /\ Given(DecoderMore(it), g, {TRUE})

\* Whatever the caller did before, whatever chunks the text comes in, and whoever used the
\* pool's iterator: every call gives the element that is next, or what it is in the type
\* asked for, and the end is seen at the end only (jsoniter/iter.go:291, 252).
CallsGetTheirElement ==
  /\ it.err = "eof" => todo = <<>>
  /\ Upcoming("value") => ValueGiven(Head(todo).value)
  /\ Upcoming("elements") => Given(ReadArray(it), NullValue, {Head(todo).elements # <<>>})
  /\ Upcoming("fields") =>
       Given(ReadObject(it), NullValue,
             IF Head(todo).names = <<>> THEN {<<>>} ELSE {Head(Head(todo).names)})
  /\ use = "idle" =>
       \A document \in Documents : \A type \in Offered(document.values[1]) :
         Decoded(Unmarshal(ResetBytes(it, document.text), type, build), document.values[1], type)

\* What has not been read yet.
Unread(i) == SubSeq(i.buf, i.head + 1, Len(i.buf)) \o FlattenSeq(i.rest)

\* Both builds skip the same: where one fails so does the other, and they leave the same
\* text (iter_skip_strict.go, iter_skip_sloppy.go).
SkippersAgree ==
  Upcoming("value") /\ Depth(Head(todo).value) <= MaxDepth =>
    LET strict == Skip(it, "strict")
        sloppy == Skip(it, "sloppy")
    IN /\ strict.err = "bad" <=> sloppy.err = "bad"
       /\ strict.err # "bad" => /\ Unread(strict) = Unread(sloppy)
                                /\ strict.depth = sloppy.depth
===============================================================================
