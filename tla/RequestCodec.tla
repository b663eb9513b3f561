---------------------------- MODULE RequestCodec ----------------------------
(***************************************************************************)
(* Requests of internal/clermreq/codec.go: Encode, Decode, and the         *)
(* capability token of a request, kept with a copy of the bytes that were  *)
(* last found to be a token, so that Encode need not decode them again.    *)
(* CapabilityRaw is an exported field: its owner may assign a slice of its *)
(* own to it or write its bytes, before or after SetCapabilityRaw.  Byte   *)
(* slices are modelled with the arrays under them.                         *)
(***************************************************************************)
EXTENDS RequestFrame, FiniteSets

CONSTANTS
  Message,     \* the methods and arguments that requests are built of
  Token,       \* the strings that capability.Decode takes
  Bytes,       \* the strings that the owner writes into its buffer
  Foreign,     \* frames from elsewhere: legacy, damaged
  Room,        \* the capacity of the owner's buffer
  MaxSteps     \* the bound on the number of calls

ASSUME RequestAssumption ==
  /\ Room \in Nat /\ MaxSteps \in Nat
  /\ \A m \in Message : m \in Content
  /\ \A t \in Token : t \in Str /\ t # <<>>
  /\ \A b \in Bytes : b \in Str /\ Len(b) <= Room
  /\ \A f \in Foreign : f \in Str

VARIABLES
  message,     \* Method and Arguments of the request
  capability,  \* CapabilityRaw, a slice
  validated,   \* validatedCapabilityRaw, a slice
  buffer,      \* a slice of the request's owner
  arrays,      \* the arrays under the slices: that of nil, the owner's, the others
  sent,        \* the last request encoded, its token and its frame
  received,    \* the frame that the last call decoded, <<>> when it did something
               \* else or failed
  result,      \* how the last call ended
  attached,    \* the token that SetCapabilityRaw was last given, <<>> when the
               \* owner has since done something to the field
  assigned,    \* whether CapabilityRaw is, or was made from, a slice of the owner's
  steps

vars == <<message, capability, validated, buffer, arrays, sent, received, result,
          attached, assigned, steps>>

Nil == [array |-> 1, len |-> 0]
Elements(slice) == SubSeq(arrays[slice.array], 1, slice.len)

-----------------------------------------------------------------------------
(* Faulty variants of the code, one plausible slip each.  Nothing below    *)
(* uses them: each shows that the properties notice the slip.              *)

\* The token is kept without copying it.
StoreAsGiven(a, s, spare) == [slice |-> buffer, arrays |-> a]

\* A token is taken for the validated one when it is as long.
SameLength(s) == s = <<>> \/ Len(s) = validated.len

-----------------------------------------------------------------------------
(* Slices *)

HasRoom(slice, s, a) == Len(s) <= Len(a[slice.array])

\* append(slice[:0], s...) over the arrays a: into the array there is when it has
\* room, into a new one otherwise, which the runtime may make larger than need be.
Appended(a, slice, s, spare) ==
  IF HasRoom(slice, s, a)
    THEN [slice |-> [slice EXCEPT !.len = Len(s)],
          arrays |-> [a EXCEPT ![slice.array] = s \o SubSeq(@, Len(s) + 1, Len(@))]]
    ELSE [slice |-> [array |-> Len(a) + 1, len |-> Len(s)],
          arrays |-> Append(a, s \o [i \in 1 .. spare |-> 0])]

Spare == {0, 1}

\* r.CapabilityRaw = append(r.CapabilityRaw[:0], token...)
Store(a, s, spare) == Appended(a, capability, s, spare)

\* r.validatedCapabilityRaw = append(r.validatedCapabilityRaw[:0], r.CapabilityRaw...)
Remember(a, field, spare) ==
  Appended(a, validated, SubSeq(a[field.array], 1, field.len), spare)

-----------------------------------------------------------------------------
(* The calls *)

Count == steps < MaxSteps /\ steps' = steps + 1

Call == Count /\ received' = <<>>

\* Build: a request without a token.
Build(m) ==
  /\ Call
  /\ message' = m /\ capability' = Nil /\ validated' = Nil
  /\ attached' = <<>> /\ assigned' = FALSE /\ result' = "ok"
  /\ UNCHANGED <<buffer, arrays, sent>>

\* The owner fills its buffer again.
FillBuffer(b) ==
  /\ Call
  /\ buffer' = [buffer EXCEPT !.len = Len(b)]
  /\ arrays' = [arrays EXCEPT ![buffer.array] = b \o SubSeq(@, Len(b) + 1, Len(@))]
  /\ UNCHANGED <<message, capability, validated, sent, result, attached,
                 assigned>>

\* The owner assigns its buffer to the field.
Assign ==
  /\ Call
  /\ capability' = buffer /\ assigned' = TRUE /\ attached' = <<>>
  /\ UNCHANGED <<message, validated, buffer, arrays, sent, result>>

\* The owner writes a byte through the field.
WriteField(i, x) ==
  /\ Call
  /\ i <= capability.len
  /\ arrays' = [arrays EXCEPT ![capability.array][i] = x]
  /\ attached' = <<>>
  /\ UNCHANGED <<message, capability, validated, buffer, sent, result,
                 assigned>>

\* SetCapabilityRaw of what the buffer holds.
SetCapabilityRaw(spare) ==
  LET token == Elements(buffer)
      stored == Store(arrays, token, spare)
      kept == Remember(stored.arrays, stored.slice, spare)
  IN /\ Call
     /\ \/ /\ token = <<>>
           /\ capability' = Nil /\ validated' = Nil /\ attached' = <<>>
           /\ assigned' = FALSE /\ result' = "ok"
           /\ UNCHANGED arrays
        \/ /\ token # <<>> /\ token \notin Token
           /\ result' = "error"
           /\ UNCHANGED <<capability, validated, attached, assigned, arrays>>
        \/ /\ token \in Token
           /\ capability' = stored.slice /\ validated' = kept.slice
           /\ arrays' = kept.arrays /\ attached' = token /\ result' = "ok"
           /\ UNCHANGED assigned
     /\ UNCHANGED <<message, buffer, sent>>

\* validateCapabilityRaw need not decode an empty token or the one it knows.
Known(s) == s = <<>> \/ s = Elements(validated)

Encode(spare) ==
  LET token == Elements(capability)
      kept == Remember(arrays, capability, spare)
  IN /\ Call
     /\ \/ /\ Known(token)
           /\ validated' = IF token = <<>> THEN Nil ELSE validated
           /\ UNCHANGED arrays
        \/ /\ ~Known(token) /\ token \in Token
           /\ validated' = kept.slice /\ arrays' = kept.arrays
        \/ /\ ~Known(token) /\ token \notin Token
           /\ UNCHANGED <<validated, arrays>>
     /\ IF Known(token) \/ token \in Token
          THEN /\ sent' = [message |-> message, token |-> token, frame |-> Frame(message, token)]
               /\ result' = "ok"
          ELSE sent' = sent /\ result' = "error"
     /\ UNCHANGED <<message, capability, buffer, attached, assigned>>

\* Decode makes a request of its own, with a copy of the token.
Decode(frame, spare) ==
  LET d == Decoded(frame)
      copy == Appended(arrays, Nil, d.token, spare)
  IN /\ Count
     /\ received' = IF d.ok THEN frame ELSE <<>>
     /\ IF d.ok
          THEN /\ message' = d.message /\ capability' = copy.slice /\ arrays' = copy.arrays
               /\ validated' = Nil /\ attached' = <<>> /\ assigned' = FALSE
               /\ result' = "ok"
          ELSE /\ result' = "error"
               /\ UNCHANGED <<message, capability, validated, arrays, attached, assigned>>
     /\ UNCHANGED <<buffer, sent>>

-----------------------------------------------------------------------------

NoFrame == [message |-> [method |-> <<>>, args |-> <<>>], token |-> <<>>, frame |-> <<>>]

Init ==
  /\ message \in Message /\ capability = Nil /\ validated = Nil
  /\ buffer = [array |-> 2, len |-> 0]
  /\ arrays = << <<>>, [i \in 1 .. Room |-> 0] >>
  /\ sent = NoFrame /\ received = <<>> /\ result = "ok"
  /\ attached = <<>> /\ assigned = FALSE /\ steps = 0

Next ==
  \/ \E m \in Message : Build(m)
  \/ \E b \in Bytes : FillBuffer(b)
  \/ Assign
  \/ \E i \in 1 .. Room, x \in Word : WriteField(i, x)
  \/ \E spare \in Spare : SetCapabilityRaw(spare) \/ Encode(spare)
  \/ \E frame \in Foreign \cup {sent.frame}, spare \in Spare : Decode(frame, spare)

Spec == Init /\ [][Next]_vars

-----------------------------------------------------------------------------
(* Properties *)

\* No request goes out with bytes for a token that are none, whatever was assigned to
\* the field or written into it since they were last validated.
SentTokenIsAToken ==
  sent.token # <<>> => sent.token \in Token

\* "SetCapabilityRaw validates and stores an owned copy of the attached token": the
\* field holds that token until something is done to the field, whatever the owner
\* does with the slice it passed.
AttachedTokenIsOwned ==
  attached # <<>> => Elements(capability) = attached

\* The copy is the request's own unless the owner once assigned a buffer to the field.
AttachedTokenStays ==
  ~assigned => AttachedTokenIsOwned

Fits(m, token) == Short(m.method) /\ ShortArguments(m.args) /\ ShortBytes(token)

\* A frame that was sent is decoded to the request it was made of; its lengths fit.
SentIsDecoded ==
  sent.frame # <<>> /\ Fits(sent.message, sent.token) =>
    LET d == Decoded(sent.frame)
    IN d.ok /\ d.message = sent.message /\ d.token = sent.token

\* A frame that is decoded spells out the request, word for word, in version 1 without
\* a token; a token of no bytes counts as none.
ReceivedIsSpelledOut ==
  LET d == Decoded(received)
  IN d.ok => \/ d.version = 1 /\ d.token = <<>> /\ received = LegacyFrame(d.message)
             \/ d.version = 2 /\ received = Frame(d.message, d.token)
             \/ d.version = 2 /\ d.token = <<>>
                /\ received = PutMessage(2, d.message) \o <<1, 0, 0>>
=============================================================================
