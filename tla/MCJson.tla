--------------------------------- MODULE MCJson ---------------------------------
(***************************************************************************)
(* An instance of Json: texts that hold brackets, quotes, backslashes and  *)
(* what HTML or JavaScript must not see, integers on both sides of what    *)
(* the types hold, and arrays and objects up to one level too deep.        *)
(***************************************************************************)
EXTENDS Json

\* A letter with an accent, the separator of lines, the replacement of what is no code
\* point, and a code point beyond the first plane; their bytes have names.
MCUtf8 ==
  (12 :> <<"\f">> @@ 38 :> <<"&">> @@ 60 :> <<"<">> @@ 62 :> <<">">> @@ 8 :> <<"bs">>
   @@ 233 :> <<"c3", "a9">> @@ 8232 :> <<"e2", "80", "a8">>
   @@ 65533 :> <<"ef", "bf", "bd">> @@ 128512 :> <<"f0", "9f", "98", "80">>)

MCSeparators == 8232 :> 8

String(text) == [is |-> "string", string |-> text]
Array(elements) == [is |-> "array", array |-> elements]
Object(fields) == [is |-> "object", object |-> fields]
Number(text) == [is |-> "number", number |-> text]
Integer64(n) == [is |-> "int", int |-> n]
Bool(b) == [is |-> "bool", bool |-> b]
NilSlice == [is |-> "nilslice"]
Struct(fields, omit) == [is |-> "struct", struct |-> fields, omit |-> omit]

Id == <<"i", "d">>
Key == <<"K", Quote>>

Tricky == String(<<"]", Quote, "}", Backslash>>)
Wide == String(<<"<", "c3", "a9", "bs", "e2", "80", "a8", "f0", "9f", "98", "80">>)

Nested == Object(Id :> Integer64(12) @@ Key :> Array(<<Tricky, NilSlice, Object(<<>>)>>))
TooDeep == Array(<<Object(<<"k">> :> Array(<<Object(<<"k">> :> Integer64(1))>>))>>)
Order == Struct(Id :> Integer64(-128) @@ <<"o">> :> String(<<>>) @@ <<"n">> :> Array(<<>>), {<<"o">>})
Orders == Array(<<Order, Object(<<"I", "d">> :> Integer64(1024))>>)
Float == Array(<<Number(<<"-", "0", ".", "5">>), Number(<<"1", "5", "e", "+", "2">>)>>)

MCStreams == {<<Nested, Integer64(-7)>>, <<Wide, TooDeep, Bool(TRUE)>>, <<Orders, NullValue>>, <<Float, Integer64(0)>>}

MCTexts == {Nested, TooDeep, Orders, Wide, Integer64(100), Float}

MCConfigs ==
  {[step |-> 0, html |-> TRUE, safe |-> FALSE, sort |-> TRUE],
   [step |-> 1, html |-> FALSE, safe |-> FALSE, sort |-> FALSE],
   [step |-> 1, html |-> TRUE, safe |-> TRUE, sort |-> TRUE]}

\* A pair of surrogates and one alone, and blanks wherever they may be.
MCForeign ==
  {[text |-> <<" ", "[", "\r", Quote, Backslash, "u", "d", "8", "3", "D",
               Backslash, "u", "d", "e", "0", "0", Backslash, "/", Quote, "\t", ",",
               Quote, Backslash, "u", "D", "E", "0", "0", "x", Quote, "]", "\n">>,
    values |-> <<Array(<<String(<<"f0", "9f", "98", "80", "/">>),
                         String(<<"ef", "bf", "bd", "x">>)>>)>>]}

IntType(mixed) == [kind |-> "int", max |-> MaxInt8, mixed |-> mixed]
AnyType == [kind |-> "any"]
RawType == [kind |-> "raw"]
Of(kind, type) == [kind |-> kind, of |-> type]
StructType(fields, closed) == [kind |-> "struct", fields |-> fields, closed |-> closed]

OrderType ==
  StructType(Id :> IntType(TRUE) @@ <<"n">> :> Of("slice", IntType(FALSE)), FALSE)

MCTypes ==
  {AnyType, RawType, IntType(FALSE), IntType(TRUE), Of("map", RawType),
   Of("slice", Of("optional", OrderType)),
   StructType(<<"I", "D">> :> AnyType, FALSE),
   StructType(Id :> RawType @@ <<"k", Quote>> :> Of("slice", AnyType), FALSE),
   StructType(<<>>, FALSE), StructType(Id :> AnyType, TRUE)}
===============================================================================
