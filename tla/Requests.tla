------------------------------- MODULE Requests -------------------------------
(***************************************************************************)
(* What the controllers make of a request before they call a service, and  *)
(* of the service's answer: parsing and validation of the three bodies     *)
(* (common/helper/requtil.go), the parser of card lists (service/draw.go)  *)
(* and the HTTP statuses (controller/api, common/response).                *)
(*                                                                         *)
(* Texts are kept as far as these functions tell them apart: [core,        *)
(* padded] is a core with or without blanks around it, and "long" a core   *)
(* above every length limit.  A number in a body is [is, n]: "none" when   *)
(* the field is missing, "word" when it is no number, "frac" when it is n  *)
(* and a fraction.                                                         *)
(***************************************************************************)
EXTENDS Integers, Sequences, FiniteSets, FiniteSetsExt

Invalid == [valid |-> FALSE]

IsEmpty(t) == t.core = "" /\ ~ t.padded

TrimSpace(t) == [t EXCEPT !.padded = FALSE]

TooLong(t) == t.core = "long"

\* A JSON number that a field of an integer type takes; a missing one leaves it at 0.
JsonInteger(num) == num.is \in {"none", "int"}

\* strconv.Atoi and ParseInt take an integer and nothing else.
FormInteger(num) == num.is = "int"

ValueOf(num) == IF num.is = "int" THEN num.n ELSE 0

-------------------------------------------------------------------------------
(* Bets *)

\* The cores of amounts, each with what decimal.NewFromString makes of it, in thousandths.
Amount == [a0 |-> 0, a0_01 |-> 10, a1_5 |-> 1500, a1000000 |-> 1000000000,
           a1000001 |-> 1000001000, a0_005 |-> 5, minus1 |-> -1000, a007 |-> 7000]

\* moneyRe: no sign, no leading zero, at most two decimals; blanks around it are cut.
IsMoneyFormat(t) == t.core \in {"a0", "a0_01", "a1_5", "a1000000", "a1000001"}

\* A body whose JSON decodes is taken as it is, blanks included.
ParseBetFromJSON(b) ==
  IF b.broken \/ ~ JsonInteger(b.user) \/ ~ JsonInteger(b.play) THEN Invalid
  ELSE [valid |-> TRUE, game |-> b.game, room |-> b.room, round |-> b.round,
        user |-> ValueOf(b.user), amount |-> b.amount, play |-> ValueOf(b.play),
        key |-> b.key]

\* A form is trimmed and checked field by field.
ParseBetFromForm(b) ==
  LET missing == \E t \in {b.game, b.room, b.round, b.key} : t.core = ""
  IN IF \/ missing \/ ~ FormInteger(b.user) \/ ~ IsMoneyFormat(b.amount)
        \/ ~ FormInteger(b.play) \/ b.play.n \notin 1..3
     THEN Invalid
     ELSE [valid |-> TRUE, game |-> TrimSpace(b.game), room |-> TrimSpace(b.room),
           round |-> TrimSpace(b.round), user |-> b.user.n,
           amount |-> TrimSpace(b.amount), play |-> b.play.n, key |-> TrimSpace(b.key)]

\* Mutant: the amount of a JSON body is not checked, as that of a form was.
ValidateBetOncePerForm(p) ==
  /\ \A t \in {p.game, p.room, p.round, p.key} : ~ IsEmpty(t) /\ ~ TooLong(t)
  /\ p.amount.core # "" /\ ~ TooLong(p.amount)
  /\ p.play \in 1..3

ValidateBet(p) ==
  /\ \A t \in {p.game, p.room, p.round, p.key} : ~ IsEmpty(t) /\ ~ TooLong(t)
  /\ p.amount.core # "" /\ ~ TooLong(p.amount)
  /\ p.play \in 1..3
  /\ IsMoneyFormat(p.amount)

ParseAndValidateBet(b) ==
  LET p == IF b.json THEN ParseBetFromJSON(b) ELSE ParseBetFromForm(b)
  IN IF p.valid /\ ValidateBet(p) THEN p ELSE Invalid

\* What PlaceBet asks of the amount before it does anything: positive, one cent to a
\* million.  It does not ask for whole cents.
AmountAccepted(t) ==
  t.core \in DOMAIN Amount /\ Amount[t.core] >= 10 /\ Amount[t.core] <= 1000000000

-------------------------------------------------------------------------------
(* Draw results *)

\* A card list is split at its commas into tokens [first, rest]: the first letter and
\* what follows, without case and without the blanks that are cut.
CardValue == [c0 |-> 0, c1 |-> 1, c2 |-> 2, c13 |-> 13, c14 |-> 14]

\* The rest of a token that names a result, as parseResultToken reads it.
ResultName == [d |-> "dragon", dragon |-> "dragon", minus_dragon |-> "dragon",
               t |-> "tiger", tiger |-> "tiger", minus_tiger |-> "tiger", tie |-> "tie"]

parseResultToken(rest) == IF rest \in DOMAIN ResultName THEN ResultName[rest] ELSE ""

calculateResult(dragon, tiger) ==
  CASE dragon > tiger -> "dragon" [] dragon < tiger -> "tiger" [] OTHER -> "tie"

\* The last token of a side with a value from 1 to 13; 0 if there is none.
Card(list, side) ==
  LET at == {i \in DOMAIN list : /\ list[i].first = side
                                 /\ list[i].rest \in DOMAIN CardValue
                                 /\ CardValue[list[i].rest] \in 1..13}
  IN IF at = {} THEN 0 ELSE CardValue[list[Max(at)].rest]

\* The last result token, also when it names no result.
Mark(list) ==
  LET at == {i \in DOMAIN list : list[i].first = "r"}
  IN IF at = {} THEN "" ELSE parseResultToken(list[Max(at)].rest)

\* Three tokens with a card of each side; a named result overrules the cards.
decideResult(list) ==
  IF Len(list) # 3 \/ Card(list, "d") = 0 \/ Card(list, "t") = 0 THEN ""
  ELSE IF Mark(list) # "" THEN Mark(list)
       ELSE calculateResult(Card(list, "d"), Card(list, "t"))

\* Those of the letters d, t and r that the rest of a token holds.
RestLetters == [d |-> {"d"}, t |-> {"t"}, dragon |-> {"d", "r"}, minus_dragon |-> {"d", "r"},
                tiger |-> {"t", "r"}, minus_tiger |-> {"t", "r"}, tie |-> {"t"},
                ragon |-> {"r"}, iger |-> {"r"}]

Letters(list) ==
  UNION {{list[i].first} \cup IF list[i].rest \in DOMAIN RestLetters
                              THEN RestLetters[list[i].rest] ELSE {} : i \in DOMAIN list}

\* The bare words dragon, tiger and tie.
IsWord(list) ==
  Len(list) = 1 /\ <<list[1].first, list[1].rest>> \in
    {<<"d", "ragon">>, <<"t", "iger">>, <<"t", "ie">>}

\* Mutant: the letter r is not asked for.
IsValidCardListSides(list) == IsWord(list) \/ {"d", "t"} \subseteq Letters(list)

IsValidCardList(list) == IsWord(list) \/ {"d", "t", "r"} \subseteq Letters(list)

ValidateDrawResult(p) ==
  /\ ~ IsEmpty(p.round) /\ ~ TooLong(p.round)
  /\ Len(p.cards) > 0 /\ IsValidCardList(p.cards)

\* Neither parser trims; a form's draw_time that is no number is passed over.
ParseDrawResult(b) ==
  IF b.json /\ (b.broken \/ ~ JsonInteger(b.time)) THEN Invalid
  ELSE [valid |-> TRUE, round |-> b.round, cards |-> b.cards]

ParseAndValidateDrawResult(b) ==
  LET p == ParseDrawResult(b)
  IN IF p.valid /\ ValidateDrawResult(p) THEN p ELSE Invalid

-------------------------------------------------------------------------------
(* Game events *)

\* JSON goes through a map of any type: a fraction is cut off, a word is passed over.
EventNumber(b) ==
  IF b.event.is = "int" \/ (b.json /\ b.event.is = "frac") THEN b.event.n ELSE 0

ValidateGameEvent(p) ==
  p.round.core # "" /\ ~ TooLong(p.round) /\ p.event \in 1..5

ParseAndValidateGameEvent(b) ==
  LET p == [valid |-> TRUE, round |-> b.round, event |-> EventNumber(b)]
  IN IF (b.json /\ b.broken) \/ ~ ValidateGameEvent(p) THEN Invalid
     ELSE p

-------------------------------------------------------------------------------
(* Answers *)

\* Mutant: a bet still in flight is answered like one that was placed.
BetStatusInFlight(outcome) ==
  CASE outcome \in {"ok", "in_flight"} -> 200
    [] outcome \in {"duplicate", "state"} -> 409
    [] outcome \in {"amount", "refused"} -> 400
    [] OTHER -> 500

\* BetController.Bet: only an unwrapped error 1062 counts as a duplicate.
BetStatus(outcome) ==
  CASE outcome = "ok" -> 200
    [] outcome = "in_flight" -> 202
    [] outcome \in {"duplicate", "state"} -> 409
    [] outcome \in {"amount", "refused"} -> 400
    [] OTHER -> 500

\* DrawResultController.Drawresult.
DrawStatus(outcome) ==
  CASE outcome = "ok" -> 200
    [] outcome = "state" -> 409
    [] outcome = "no_round" -> 404
    [] outcome = "cards" -> 400
    [] OTHER -> 500

\* GameEventController.GameEvent: whatever fails is answered as an illegal state.
EventStatus(outcome) == IF outcome = "ok" THEN 200 ELSE 409
===============================================================================
