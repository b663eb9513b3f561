----------------------------- MODULE TokenCodec -----------------------------
(***************************************************************************)
(* Capability tokens, internal/capability/token.go: how they are issued,   *)
(* written, read back and verified, and what they allow.  The digest and   *)
(* the times are a word each.  A signature is a word, the place of what it *)
(* was made of in the sequence of all that was ever signed.                *)
(***************************************************************************)
EXTENDS Words

CONSTANT TokenMagic   \* the word of the four magic bytes

ASSUME TokenAssumption == TokenMagic \in Word

StringFields == {"keyID", "issuer", "subject", "tokenID", "schema", "relation", "condition"}
ListFields == {"methods", "targets"}

\* The fields of a payload in their order.
Layout == << "keyID", "issuer", "subject", "tokenID", "schema", "hash", "relation",
             "condition", "methods", "targets", "issuedAt", "notBefore", "expiresAt" >>

-----------------------------------------------------------------------------
(* What makes a token *)

\* Lexical order, and the list in it without blanks and repetitions.
Before(s, t) ==
  \/ IsStrictPrefix(s, t)
  \/ \E k \in DOMAIN s \cap DOMAIN t : s[k] < t[k] /\ SubSeq(s, 1, k - 1) = SubSeq(t, 1, k - 1)

Inserted(list, s) ==
  IF s = <<>> \/ \E i \in DOMAIN list : list[i] = s THEN list
  ELSE InsertAt(list, 1 + Cardinality({i \in DOMAIN list : Before(list[i], s)}), s)

CompactList(values) ==
  LET upTo[k \in 0 .. Len(values)] ==
        IF k = 0 THEN <<>> ELSE Inserted(upTo[k - 1], Trim(values[k]))
  IN upTo[Len(values)]

ValidateUnsigned(t) ==
  /\ \A f \in StringFields : Trim(t[f]) # <<>>
  /\ t.hash # 0
  /\ t.issuedAt <= t.notBefore /\ t.notBefore < t.expiresAt
  /\ IsInjective(t.methods) /\ IsInjective(t.targets)

Validate(t) == ValidateUnsigned(t) /\ Len(t.signature) = 1

\* The token that Issue signs for the options o: a time of 0 stands for one that is not
\* given, the identifier generated for one that is blank.
Unsigned(o, now, generated) ==
  LET issuedAt == IF o.issuedAt = 0 THEN now ELSE o.issuedAt
      notBefore == IF o.notBefore = 0 THEN issuedAt ELSE o.notBefore
  IN [f \in {Layout[i] : i \in DOMAIN Layout} |->
       CASE f = "tokenID" -> IF Trim(o.tokenID) = <<>> THEN generated ELSE Trim(o.tokenID)
         [] f \in StringFields \ {"tokenID"} -> Trim(o[f])
         [] f \in ListFields -> CompactList(o[f])
         [] f = "issuedAt" -> issuedAt
         [] f = "notBefore" -> notBefore
         [] OTHER -> o[f]]

-----------------------------------------------------------------------------
(* Writing and reading.  Here a string that is too long is written with the *)
(* low bits of its length, as Words does it.                                *)

PutField(f, v) ==
  CASE f \in StringFields -> PutString(v)
    [] f \in ListFields -> PutMany([i \in DOMAIN v |-> PutString(v[i])])
    [] OTHER -> <<v>>

Payload(t) ==
  <<TokenMagic, 1>> \o FlattenSeq([i \in DOMAIN Layout |-> PutField(Layout[i], t[Layout[i]])])

Encode(t) == Payload(t) \o PutString(t.signature)

ReadField(f, data, o) ==
  CASE f \in StringFields -> ReadString(data, o)
    [] f \in ListFields -> ReadMany([p \in Offset(data) |-> ReadString(data, p)], data, o)
    [] OTHER -> ReadWord(data, o)

\* decodePayload: the fields in their order, and the offset after them.
DecodePayload(data) ==
  LET magic == ReadWord(data, 1)
      version == ReadWord(data, magic.off)
      upTo[k \in 0 .. Len(Layout)] ==
        IF k = 0 THEN [ok |-> magic.val = TokenMagic /\ version.val = 1, val |-> <<>>,
                       off |-> version.off]
        ELSE LET before == upTo[k - 1]
                 one == ReadField(Layout[k], data, before.off)
             IN [ok |-> before.ok /\ one.ok, val |-> Append(before.val, one.val), off |-> one.off]
  IN upTo[Len(Layout)]

TokenOf(fields, signature) ==
  [f \in {Layout[i] : i \in DOMAIN Layout} \cup {"signature"} |->
    IF f = "signature" THEN signature ELSE fields[CHOOSE i \in DOMAIN Layout : Layout[i] = f]]

\* A faulty variant: the signature is left for Verify to look at.
DecodeUnsigned(data) ==
  LET payload == DecodePayload(data)
      signature == ReadString(data, payload.off)
      t == TokenOf(payload.val, signature.val)
  IN [ok |-> payload.ok /\ ValidateUnsigned(t), val |-> t]

Decode(data) ==
  LET payload == DecodePayload(data)
      signature == ReadString(data, payload.off)
      t == TokenOf(payload.val, signature.val)
  IN [ok |-> payload.ok /\ signature.ok /\ signature.off = Len(data) + 1 /\ Validate(t),
      val |-> t]

\* Base64: text has a character of its own for what a byte may be, and white space is
\* none of them.  The beginning of a text stands for the beginning of the bytes.
Text(data) == [i \in DOMAIN data |-> data[i] + 1]

EncodeText(t) == Text(Encode(t))

DecodeText(text) ==
  LET value == Trim(text)
      token == Decode([i \in DOMAIN value |-> value[i] - 1])
  IN [token EXCEPT !.ok = @ /\ value # <<>> /\ \A i \in DOMAIN value : value[i] # Blank]

-----------------------------------------------------------------------------
(* What a token is good for *)

\* A faulty variant: the signature is looked at, not what was signed.
VerifySignatureOnly(ring, signed, t) ==
  /\ t.keyID \in DOMAIN ring
  /\ t.signature[1] \in DOMAIN signed /\ signed[t.signature[1]].key = ring[t.keyID]

\* Keyring.Verify: the key the ring has under the token's name signed these very fields.
Verify(ring, signed, t) ==
  /\ Validate(t)
  /\ t.keyID \in DOMAIN ring
  /\ t.signature[1] \in DOMAIN signed
  /\ signed[t.signature[1]] = [key |-> ring[t.keyID], payload |-> Payload(t)]

\* AssertTimeWindow
InWindow(t, now, skew) == t.notBefore <= now + skew /\ now - skew <= t.expiresAt

AllowsMethod(t, method, relation) ==
  /\ Trim(relation) = t.relation
  /\ t.methods = <<>> \/ \E i \in DOMAIN t.methods : t.methods[i] = method

AllowsTarget(t, target) ==
  t.targets = <<>> \/ \E i \in DOMAIN t.targets : t.targets[i] = target

\* Nothing in a token is longer than its length says.
TokenFits(t) ==
  /\ \A f \in StringFields : Len(t[f]) < W
  /\ \A f \in ListFields : Len(t[f]) < W /\ \A i \in DOMAIN t[f] : Len(t[f][i]) < W
=============================================================================
