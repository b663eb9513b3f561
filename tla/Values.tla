------------------------------- MODULE Values -------------------------------
(***************************************************************************)
(* The values of arguments and outputs, internal/clermwire/value.go: JSON  *)
(* text with the type its schema gives it, checked when a message is built *)
(* and again when one is received, and decoded later.  The checks do not   *)
(* parse JSON: strings are looked at by their quotes, arrays by their      *)
(* brackets, and numbers are left to strconv.                              *)
(***************************************************************************)
EXTENDS Words

CONSTANT Lexeme   \* what the text is that a word stands for

(* "string", "uuid" and "time" are JSON strings; "escape" is one that       *)
(* strconv.Unquote refuses, as it does "\/" and surrogates; "big" is an     *)
(* integer and "huge" a number out of the range of an int64 and a float64;  *)
(* "plus" is +5 or 007 and "nan" NaN or Inf, numbers for strconv only;      *)
(* "broken" is an array's brackets around anything else; "null" is null or  *)
(* an object; "junk" is nothing anyone reads.                               *)
InJSON == {"string", "escape", "uuid", "time", "integer", "big", "fraction", "huge",
           "true", "false", "array", "null"}

\* The types: STRING, DECIMAL, UUID, ARRAY, TIMESTAMP, INT, BOOL.
Type == 1 .. 7

ASSUME ValuesAssumption ==
  /\ Lexeme \in [Word -> InJSON \cup {"blank", "plus", "nan", "broken", "junk"}]
  /\ Type \subseteq Word

\* Text of several words is nothing, or at best a pair of brackets.
ClassOf(text) ==
  LET raw == Trim(text)
      framed(w) == Lexeme[w] \in {"array", "broken"}
  IN CASE raw = <<>> -> "blank"
       [] Len(raw) = 1 -> Lexeme[raw[1]]
       [] OTHER -> IF framed(raw[1]) /\ framed(raw[Len(raw)]) THEN "broken" ELSE "junk"

-----------------------------------------------------------------------------
(* What is read as which type *)

Strings == {"string", "uuid", "time"}           \* parseJSONString
Floats == {"integer", "big", "plus", "fraction", "nan"}  \* strconv.ParseFloat
Ints == {"integer", "plus"}                     \* strconv.ParseInt
Arrays == {"array", "broken"}                   \* hasJSONArrayEnvelope
Bools == {"true", "false"}

\* A faulty variant: a time is any string.
ValidateAnyTime(type, raw) ==
  /\ type \in Type
  /\ ClassOf(raw) \in << Strings, Floats, {"uuid"}, Arrays, Strings, Ints, Bools >>[type]

ValidateValue(type, raw) ==
  /\ type \in Type
  /\ ClassOf(raw) \in << Strings, Floats, {"uuid"}, Arrays, {"time"}, Ints, Bools >>[type]

\* A value is decoded to what its trimmed text says.
DecodeValue(type, raw) ==
  [ok |-> /\ type \in Type
          /\ ClassOf(raw) \in << Strings, Floats, Strings, Arrays, Strings, Ints, Bools >>[type],
   val |-> Trim(raw)]

\* What json.Encoder writes of a decoded value: no NaN, no array that is none.  The
\* numbers that only strconv reads are written as JSON writes them.
Encodes(raw) == ClassOf(raw) \notin {"nan", "broken"}

-----------------------------------------------------------------------------
(* Lists of values, for parameters with names and types *)

Names(list) == {list[i].name : i \in DOMAIN list}

\* A payload is the texts that its object has under its keys, those of the parameters
\* and no others.  All of it has to be JSON; for a map of Go values, all that
\* json.Marshal can write.  A value for each parameter, in their order.
Taken(params, payload) ==
  /\ DOMAIN payload = Names(params)
  /\ \A n \in DOMAIN payload : ClassOf(payload[n]) \in InJSON
  /\ \A i \in DOMAIN params : ValidateValue(params[i].type, payload[params[i].name])

\* A faulty variant: the values share the buffer in which each was compacted.
ValuesInOneBuffer(params, payload) ==
  [i \in DOMAIN params |->
    [name |-> params[i].name, type |-> params[i].type,
     raw |-> Trim(payload[params[Len(params)].name])]]

ValuesOf(params, payload) ==
  [i \in DOMAIN params |->
    [name |-> params[i].name, type |-> params[i].type, raw |-> Trim(payload[params[i].name])]]

BuildValues(params, payload) ==
  LET ok == Taken(params, payload)
  IN [ok |-> ok, val |-> IF ok THEN ValuesOf(params, payload) ELSE <<>>]

ValidateValues(values, params) ==
  /\ DOMAIN values = DOMAIN params
  /\ \A i \in DOMAIN values :
       /\ values[i].name = params[i].name /\ values[i].type = params[i].type
       /\ ValidateValue(values[i].type, values[i].raw)

\* Names to decoded values, or nothing when one of them is not decoded.
ValuesAsMap(values) ==
  IF \A i \in DOMAIN values : DecodeValue(values[i].type, values[i].raw).ok
    THEN [n \in Names(values) |->
           LET last == CHOOSE i \in DOMAIN values :
                         values[i].name = n /\ \A j \in DOMAIN values : values[j].name = n => j <= i
           IN DecodeValue(values[last].type, values[last].raw).val]
    ELSE <<>>

\* inputJSONSchema: what the tool's schema says of a payload.
Conforms(params, payload) ==
  /\ DOMAIN payload = Names(params)
  /\ \A i \in DOMAIN params :
       LET class == ClassOf(payload[params[i].name])
           number == {"integer", "big", "fraction", "huge"}
       IN class \in << Strings \cup {"escape"}, number, {"uuid"}, {"array"}, {"time"},
                       {"integer", "big", "huge"}, Bools >>[params[i].type]
=============================================================================
