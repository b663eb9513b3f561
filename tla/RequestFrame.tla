---------------------------- MODULE RequestFrame ----------------------------
(***************************************************************************)
(* The frame of a request, written by Encode and read by Decode of         *)
(* internal/clermreq/codec.go: the method, the arguments and, since        *)
(* version 2, the bytes of a capability token.                             *)
(***************************************************************************)
EXTENDS Words

CONSTANT Magic   \* the word of the four magic bytes

ASSUME FrameAssumption == Magic \in Word

Argument == [name : Str, type : Word, raw : Str]
Content == [method : Str, args : Seq(Argument)]

-----------------------------------------------------------------------------
\* appendBytes: the length has four bytes, two words.
PutBytes(s) == <<(Len(s) \div W) % W, Len(s) % W>> \o s

PutArgument(a) == PutString(a.name) \o <<a.type>> \o PutBytes(a.raw)

PutMessage(v, m) ==
  <<Magic, v>> \o PutString(m.method) \o PutMany([i \in DOMAIN m.args |-> PutArgument(m.args[i])])

Frame(m, token) ==
  PutMessage(2, m) \o IF token = <<>> THEN <<0>> ELSE <<1>> \o PutBytes(token)

\* Frames of version 1 end with the arguments; nothing writes them any more.
LegacyFrame(m) == PutMessage(1, m)

\* A faulty variant: it refuses bytes that the input ends with.
ReadBytesInside(data, o) ==
  LET high == ReadWord(data, o)
      low == ReadWord(data, high.off)
      end == low.off + high.val * W + low.val
  IN IF low.ok /\ end <= Len(data)
       THEN [ok |-> TRUE, val |-> SubSeq(data, low.off, end - 1), off |-> end]
       ELSE [ok |-> FALSE, val |-> <<>>, off |-> Len(data) + 1]

ReadBytes(data, o) ==
  LET high == ReadWord(data, o)
      low == ReadWord(data, high.off)
      end == low.off + high.val * W + low.val
  IN IF low.ok /\ end <= Len(data) + 1
       THEN [ok |-> TRUE, val |-> SubSeq(data, low.off, end - 1), off |-> end]
       ELSE [ok |-> FALSE, val |-> <<>>, off |-> Len(data) + 1]

ReadArgument(data, o) ==
  LET name == ReadString(data, o)
      type == ReadWord(data, name.off)
      raw == ReadBytes(data, type.off)
  IN [ok |-> raw.ok, val |-> [name |-> name.val, type |-> type.val, raw |-> raw.val],
      off |-> raw.off]

\* A faulty variant: any marker but 0 stands for a token.
ReadCapabilityOfAnyMarker(v, data, o) ==
  LET marker == ReadWord(data, o)
  IN CASE v = 1 -> [ok |-> TRUE, val |-> <<>>, off |-> o]
       [] v = 2 /\ marker.val = 0 -> [marker EXCEPT !.val = <<>>]
       [] OTHER -> ReadBytes(data, marker.off)

\* The capability of a frame: none in version 1, then none or one, as its marker says.
ReadCapability(v, data, o) ==
  LET marker == ReadWord(data, o)
  IN CASE v = 1 -> [ok |-> TRUE, val |-> <<>>, off |-> o]
       [] v = 2 /\ marker.val = 0 -> [marker EXCEPT !.val = <<>>]
       [] v = 2 /\ marker.val = 1 -> ReadBytes(data, marker.off)
       [] OTHER -> [marker EXCEPT !.ok = FALSE, !.val = <<>>]

Decoded(data) ==
  LET magic == ReadWord(data, 1)
      v == ReadWord(data, magic.off)
      method == ReadString(data, v.off)
      args == ReadMany([p \in Offset(data) |-> ReadArgument(data, p)], data, method.off)
      token == ReadCapability(v.val, data, args.off)
  IN [ok |-> /\ magic.val = Magic /\ v.val \in {1, 2} /\ magic.ok /\ args.ok /\ token.ok
             /\ token.off = Len(data) + 1,
      version |-> v.val,
      message |-> [method |-> method.val, args |-> args.val],
      token |-> token.val]

\* The lengths that are written without losing bits of them, where nothing refuses them.
ShortBytes(s) == Len(s) < W * W

ShortValues(args) == Short(args) /\ \A i \in DOMAIN args : ShortBytes(args[i].raw)

ShortArguments(args) == ShortValues(args) /\ \A i \in DOMAIN args : Short(args[i].name)
=============================================================================
