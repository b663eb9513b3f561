---------------------------- MODULE ResponseCodec ----------------------------
(***************************************************************************)
(* Responses, internal/clermresp/codec.go: a method's outputs, or the code *)
(* and the message of an error.  Outputs are laid out as the arguments of  *)
(* a request are.                                                          *)
(***************************************************************************)
EXTENDS RequestFrame, Values

CONSTANTS
  ResponseMagic,  \* the word of the four magic bytes
  Internal        \* the word for the code internal_error

ASSUME ResponseAssumption == ResponseMagic \in Word \ {Magic} /\ Internal \in Word

SuccessOf(ref, outputs) == [method |-> ref, outputs |-> outputs, code |-> <<>>, message |-> <<>>]

\* BuildError
ErrorOf(ref, code, message) ==
  [method |-> ref, outputs |-> <<>>, code |-> IF code = <<>> THEN <<Internal>> ELSE code,
   message |-> message]

IsError(r) == r.code # <<>> \/ r.message # <<>>

\* ValidateAgainst: of an error only the method is looked at.
ResponseMatches(r, ref, params) ==
  r.method = ref /\ (IsError(r) \/ ValidateValues(r.outputs, params))

-----------------------------------------------------------------------------

\* A faulty variant: a message is written whatever its length.
EncodableMessage(r) == Short(r.method)

\* appendString refuses what a length cannot say; the number of outputs is cut instead.
Encodable(r) ==
  /\ Short(r.method)
  /\ IF IsError(r) THEN Short(r.code) /\ Short(r.message)
                   ELSE \A i \in DOMAIN r.outputs : Short(r.outputs[i].name)

\* What is said of a response: of an error, no outputs.
Said(r) == IF IsError(r) THEN [r EXCEPT !.outputs = <<>>] ELSE r

EncodeResponse(r) ==
  <<ResponseMagic, 1>> \o PutString(r.method) \o
    IF IsError(r) THEN <<1>> \o PutString(r.code) \o PutString(r.message)
    ELSE <<0>> \o PutMany([i \in DOMAIN r.outputs |-> PutArgument(r.outputs[i])])

DecodeResponse(data) ==
  LET magic == ReadWord(data, 1)
      version == ReadWord(data, magic.off)
      method == ReadString(data, version.off)
      marker == ReadWord(data, method.off)
      code == ReadString(data, marker.off)
      message == ReadString(data, code.off)
      outputs == ReadMany([p \in Offset(data) |-> ReadArgument(data, p)], data, marker.off)
      failed == marker.val = 1
      last == IF failed THEN message ELSE outputs
  IN [ok |-> /\ magic.ok /\ magic.val = ResponseMagic /\ version.val = 1
             /\ marker.ok /\ marker.val \in {0, 1} /\ last.ok /\ last.off = Len(data) + 1,
      val |-> [method |-> method.val,
               outputs |-> IF failed THEN <<>> ELSE outputs.val,
               code |-> IF failed THEN code.val ELSE <<>>,
               message |-> IF failed THEN message.val ELSE <<>>]]
=============================================================================
