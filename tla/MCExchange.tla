----------------------------- MODULE MCExchange -----------------------------
\* Words of four bits, two versions of a schema with three methods, and tokens that fit
\* the one, the other or neither.
EXTENDS Exchange, TLC

MCW == 16
MCMagic == 13
MCResponseMagic == 14
MCTokenMagic == 15
MCInternal == 6
MCColon == 7
MCMaxTokens == 1
MCSkew == 1
MCNow == {3, 8}
MCTarget == { <<>>, <<0, 4>> }
MCPaths == { <<"cap", "refresh">> }
MCCutAt == {20, 28}
MCInlineLimit == 14

MCLexeme ==
  0 :> "blank" @@ 1 :> "string" @@ 2 :> "escape" @@ 3 :> "uuid" @@ 4 :> "time" @@
  5 :> "integer" @@ 6 :> "big" @@ 7 :> "plus" @@ 8 :> "fraction" @@ 9 :> "huge" @@
  10 :> "nan" @@ 11 :> "true" @@ 12 :> "false" @@ 13 :> "array" @@ 14 :> "broken" @@
  15 :> "null"

Param(name, type) == [name |-> name, type |-> type]

A == <<8>>   \* open to all
B == <<9>>   \* needs a token, has no outputs
C == <<10>>  \* open to all

Methods ==
  A :> [inputs |-> << Param(<<2>>, 2), Param(<<1>>, 1), Param(<<3>>, 4) >>,
        outputs |-> << Param(<<1>>, 2) >>, relation |-> <<1>>] @@
  B :> [inputs |-> << Param(<<2>>, 6), Param(<<1>>, 3), Param(<<3>>, 7) >>, outputs |-> <<>>,
        relation |-> <<2>>] @@
  C :> [inputs |-> << Param(<<2>>, 1), Param(<<1>>, 5) >>, outputs |-> <<>>, relation |-> <<1>>]

MCUnguarded == { <<1>> }

Schema(hash, condition) ==
  [name |-> <<5>>, hash |-> hash, methods |-> Methods,
   conditions |-> <<1>> :> <<1, 0>> @@ <<2>> :> condition]

MCDocument == { Schema(5, <<2>>), Schema(6, <<3>>) }

MCRing == { <<3>> :> "key" }

Usual ==
  [key |-> "key", keyID |-> <<0, 3>>, issuer |-> <<1>>, subject |-> <<2>>, tokenID |-> <<0>>,
   schema |-> <<5>>, hash |-> 5, relation |-> <<2>>, condition |-> <<2>>,
   methods |-> << <<10>>, <<0>>, <<9, 0>>, <<9>> >>, targets |-> <<>>,
   now |-> 3, issuedAt |-> 0, notBefore |-> 0, expiresAt |-> 6]

MCOptions ==
  { Usual, [Usual EXCEPT !.key = "other"], [Usual EXCEPT !.hash = 6],
    [Usual EXCEPT !.methods = << A >>], [Usual EXCEPT !.methods = << <<0>> >>, !.targets = << <<4>> >>],
    [Usual EXCEPT !.subject = [i \in 1 .. 17 |-> 1]], [Usual EXCEPT !.expiresAt = 3] }

\* Every lexeme in the place of one argument.
Varied(payload, name) == { [payload EXCEPT ![name] = <<w>>] : w \in Word \ {3, 12} }

OfA == <<1>> :> <<0, 1>> @@ <<2>> :> <<8>> @@ <<3>> :> <<13>>
OfB == <<1>> :> <<3>> @@ <<2>> :> <<5>> @@ <<3>> :> <<11>>
OfC == <<1>> :> <<4>> @@ <<2>> :> <<1>>

MCPayloads ==
  A :> UNION {Varied(OfA, n) : n \in DOMAIN OfA} @@
  B :> { OfB, OfC, <<>> } @@
  C :> UNION {Varied(OfC, n) : n \in DOMAIN OfC}

Sent(ref, params, payload) ==
  [method |-> ref,
   args |-> [i \in DOMAIN params |->
              [name |-> params[i].name, type |-> params[i].type, raw |-> payload[params[i].name]]]]

\* What no JSON has, arguments in another order or of another type, another method.
MCForeign ==
  {Sent(A, Methods[A].inputs, [OfA EXCEPT ![<<2>>] = <<w>>]) : w \in {7, 10, 9}} \cup
  {Sent(A, Methods[A].inputs, [OfA EXCEPT ![<<3>>] = raw]) : raw \in { <<14>>, <<13, 1, 13>>, <<>> }} \cup
  { Sent(C, << Param(<<1>>, 5), Param(<<2>>, 1) >>, OfC),
    Sent(C, << Param(<<2>>, 5), Param(<<1>>, 5) >>, OfC),
    Sent(<<11>>, <<>>, <<>>), Sent(B, Methods[B].inputs, OfB) }

MCOutcome ==
  { [kind |-> "outputs", outputs |-> <<1>> :> raw] : raw \in { <<8>>, <<1>> } } \cup
  { [kind |-> "outputs", outputs |-> <<>>] } \cup
  { [kind |-> "failure", code |-> c, message |-> m] : c \in { <<>>, <<5>> }, m \in { <<0>>, <<1, 1>> } } \cup
  { [kind |-> "goerror", code |-> <<4>>, message |-> [i \in 1 .. n |-> 1]] : n \in {1, 16} } \cup
  { [kind |-> "response", response |-> r] :
      r \in { SuccessOf(A, << [name |-> <<1>>, type |-> 2, raw |-> <<10>>] >>),
              SuccessOf(A, <<>>), SuccessOf(B, <<>>),
              [SuccessOf(C, <<>>) EXCEPT !.message = <<1>>],
              [SuccessOf(A, << [name |-> <<1>>, type |-> 2, raw |-> <<8>>] >>)
                 EXCEPT !.message = <<1>>] } }
=============================================================================
