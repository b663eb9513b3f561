--------------------------- MODULE MCRequestCodec ---------------------------
\* Words of two bits, tokens of one and two of them, and the owner's buffer.
EXTENDS RequestCodec, TLC

MCW == 4
MCMagic == 3
MCMaxSteps == 6
MCRoom == 2

MCToken == { <<1, 2>>, <<3>> }
MCBytes == { <<1, 2>>, <<3>>, <<0, 1>>, <<>> }

Arg(name, raw) == [name |-> name, type |-> 1, raw |-> raw]
Plain == [method |-> <<1>>, args |-> << Arg(<<1>>, <<2>>), Arg(<<>>, <<1, 1>>) >>]
Long == [method |-> <<2, 1, 0, 0>>, args |-> <<>>]

MCMessage == {Plain, Long}

\* Frames of version 1, with a marker for no bytes, with a marker that is none, with a
\* word too many, and all the beginnings of a frame.
MCForeign ==
  { LegacyFrame(Plain), PutMessage(2, Plain) \o <<1, 0, 0>>,
    PutMessage(2, Plain) \o <<2, 0, 1, 3>>, Append(Frame(Plain, <<3>>), 0) }
    \cup { SubSeq(Frame(Plain, <<3>>), 1, n) : n \in 0 .. Len(Frame(Plain, <<3>>)) }
=============================================================================
