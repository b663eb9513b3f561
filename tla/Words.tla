-------------------------------- MODULE Words --------------------------------
(***************************************************************************)
(* The primitives with which the codecs write and read, those at the end   *)
(* of internal/clermcfg/codec.go and, alike, of internal/clermreq and      *)
(* internal/clermresp.  A byte and a two-byte number are a word each, a    *)
(* string is its length and its characters, a list its length and its      *)
(* elements; nothing on the wire tells one from another.                   *)
(***************************************************************************)
EXTENDS Integers, SequencesExt

CONSTANT W   \* the number of values of a word, 2^16

ASSUME WordsAssumption == W \in Nat /\ W > 2

Word == 0 .. (W - 1)
Str == Seq(Word)

\* The word of white space.
Blank == 0

\* The length of s fits a word.
Short(s) == Len(s) < W

\* strings.TrimSpace and trimJSONSpace.
Trim(s) ==
  LET ink == {i \in DOMAIN s : s[i] # Blank}
  IN IF ink = {} THEN <<>> ELSE SubSeq(s, Min(ink), Max(ink))

-----------------------------------------------------------------------------
(* Writing.  The uint16 of a length keeps its low bits; what follows is     *)
(* written whole.                                                           *)

PutString(s) == <<Len(s) % W>> \o s

\* A list whose elements are written already.
PutMany(written) == <<Len(written) % W>> \o FlattenSeq(written)

-----------------------------------------------------------------------------
(* Reading at an offset: whether there was enough to read, what was read    *)
(* and the offset after it.  After a failure there is nothing more to read. *)

ReadWord(data, o) ==
  IF o \in DOMAIN data THEN [ok |-> TRUE, val |-> data[o], off |-> o + 1]
                       ELSE [ok |-> FALSE, val |-> 0, off |-> Len(data) + 1]

\* A faulty variant: it refuses a string that the input ends with.
ReadStringInside(data, o) ==
  LET length == ReadWord(data, o)
      end == length.off + length.val
  IN IF length.ok /\ end <= Len(data)
       THEN [ok |-> TRUE, val |-> SubSeq(data, length.off, end - 1), off |-> end]
       ELSE [ok |-> FALSE, val |-> <<>>, off |-> Len(data) + 1]

ReadString(data, o) ==
  LET length == ReadWord(data, o)
      end == length.off + length.val
  IN IF length.ok /\ end <= Len(data) + 1
       THEN [ok |-> TRUE, val |-> SubSeq(data, length.off, end - 1), off |-> end]
       ELSE [ok |-> FALSE, val |-> <<>>, off |-> Len(data) + 1]

Offset(data) == 1 .. (Len(data) + 1)

\* A list; read says of every offset what an element read there is.
ReadMany(read, data, o) ==
  LET count == ReadWord(data, o)
      upTo[k \in 0 .. count.val] ==
        IF k = 0 THEN [ok |-> count.ok, val |-> <<>>, off |-> count.off]
        ELSE LET before == upTo[k - 1]
                 one == read[before.off]
             IN [ok |-> before.ok /\ one.ok, val |-> Append(before.val, one.val),
                 off |-> one.off]
      all == upTo[count.val]
  IN IF all.ok THEN all ELSE [ok |-> FALSE, val |-> <<>>, off |-> Len(data) + 1]
=============================================================================
