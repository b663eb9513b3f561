---------------------------- MODULE MCConfigCodec ----------------------------
\* Words of two bits, so that a string of four characters, a list of four elements
\* and the count 3 are the boundary cases that 65536 and 65535 are in the code.
EXTENDS ConfigCodec, TLC

MCW == 4
MCConfigMagic == 3
MCMaxDecodes == 2

A == <<1>>
B == <<2, 1>>
SpacedA == <<0, 1>>    \* A, with a blank before it
MCRefOf == (A :> A) @@ (B :> B) @@ (SpacedA :> A)

NoText == [f \in TextField |-> <<>>]
P(name) == [name |-> name, type |-> 1]
M(ref, in, inArgs, out, outArgs) ==
  [ref |-> ref, exec |-> 1, inputCount |-> in, inputArgs |-> inArgs,
   outputCount |-> out, outputArgs |-> outArgs, format |-> 2]
R(name) == [name |-> name, condition |-> <<2>>]

\* One of everything.
Small ==
  [text |-> [NoText EXCEPT !.name = <<1>>, !.route = <<2>>], tags |-> <<>>, services |-> <<A>>,
   methods |-> << M(A, -1, <<>>, 1, <<P(<<1>>)>>) >>, relations |-> << R(<<1>>) >>]

\* More of everything, and metadata.
Large ==
  [text |-> [NoText EXCEPT !.name = <<1, 2>>, !.relationsName = <<0>>, !.description = <<3>>,
                            !.displayName = <<1>>, !.route = <<2>>],
   tags |-> << <<1>>, <<2>> >>,
   services |-> <<B, A>>,
   methods |-> << M(B, 2, <<P(<<1>>), P(<<2>>)>>, -1, <<>>), M(A, 0, <<>>, -1, <<P(<<3, 3, 3>>)>>) >>,
   relations |-> << R(<<2>>), R(<<1>>) >>]

\* Nothing in it, as Document.Validate would not have it and the codec does.
None ==
  [text |-> NoText, tags |-> <<>>, services |-> <<>>, methods |-> <<>>,
   relations |-> <<>>]

\* A string and a list whose lengths do not fit, counts that are refused, and a
\* reference with a blank.
LongName == [Small EXCEPT !.text.name = <<1, 0, 1, 0>>]
LongRoute == [None EXCEPT !.text.route = <<0, 0, 0, 0>>]
ManyTags == [None EXCEPT !.tags = << <<>>, <<>>, <<>>, <<>> >>]
Reserved == [Small EXCEPT !.methods[1].inputCount = 3]
Negative == [Small EXCEPT !.methods[1].outputCount = -2]
Padded == [Small EXCEPT !.services = <<SpacedA>>]

MCDocument ==
  {Small, Large, None, LongName, LongRoute, ManyTags, Reserved, Negative, Padded}

Truncated(w) == { SubSeq(w, 1, n) : n \in 0 .. (Len(w) - 1) }
Damaged(w) == { [w EXCEPT ![i] = x] : i \in DOMAIN w, x \in {0, 3} }

MCForeign ==
  {Legacy(Small), Legacy(Large), Append(Encode(Small), 0)}
    \cup Truncated(Encode(Small)) \cup Truncated(Encode(Large))
    \cup Damaged(Encode(Small))
=============================================================================
