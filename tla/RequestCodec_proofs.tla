------------------------- MODULE RequestCodec_proofs -------------------------
(***************************************************************************)
(* Proofs about RequestCodec: that a request goes out with a token or with *)
(* none, that the token it was given is its own, and that every frame is   *)
(* read as what it was made of.                                            *)
(***************************************************************************)
EXTENDS RequestCodec, RequestFrame_proofs

-----------------------------------------------------------------------------
(* The token of a request, under all the calls.  The arrays of the two      *)
(* slices of the request are apart from each other, and from the owner's    *)
(* unless the owner assigned it: that is why a call that writes one of them *)
(* leaves alone what the others hold.                                       *)

Slice == [array : Nat \ {0}, len : Nat]

\* A slice of one of the arrays.
Within(a, slice) == slice \in Slice /\ slice.array \in DOMAIN a /\ slice.len <= Len(a[slice.array])

\* What a slice of the arrays a holds.
Holds(a, slice) == SubSeq(a[slice.array], 1, slice.len)

Typed ==
  /\ message \in Content /\ received \in Str /\ attached \in Str /\ assigned \in BOOLEAN
  /\ arrays \in Seq(Str) /\ Len(arrays) >= 2 /\ arrays[1] = <<>>
  /\ Within(arrays, capability) /\ Within(arrays, validated) /\ Within(arrays, buffer)
  /\ sent \in [message : Content, token : Str, frame : Str]

\* The arrays are not shared.
Apart ==
  /\ buffer.array = 2 /\ validated.array # 2 /\ Len(arrays[2]) = Room
  /\ validated.array = capability.array => validated.array = 1
  /\ capability.array = 2 => assigned

\* What was validated is a token and stays one.
ValidatedIsAToken == Holds(arrays, validated) # <<>> => Holds(arrays, validated) \in Token

\* The frame that was sent is the one of the request.
SentIsAFrame == sent.frame # <<>> => sent.frame = Frame(sent.message, sent.token)

Inv == Typed /\ Apart /\ ValidatedIsAToken /\ SentIsAFrame /\ SentTokenIsAToken /\ AttachedTokenStays

\* What append(slice[:0], s...) makes: a slice that holds s, of the array there was or of
\* a new one; no other array is written, and none changes its length.
LEMMA AppendedIs ==
  ASSUME NEW a \in Seq(Str), NEW slice, Within(a, slice), NEW s \in Str, NEW spare \in Nat
  PROVE  LET r == Appended(a, slice, s, spare)
         IN /\ r.arrays \in Seq(Str) /\ Within(r.arrays, r.slice) /\ Holds(r.arrays, r.slice) = s
            /\ Len(r.arrays) >= Len(a)
            /\ \A j \in DOMAIN a : /\ j \in DOMAIN r.arrays /\ Len(r.arrays[j]) = Len(a[j])
                                   /\ j # r.slice.array => r.arrays[j] = a[j]
            /\ \/ r.slice.array = slice.array /\ Len(s) <= Len(a[slice.array])
               \/ r.slice.array = Len(a) + 1
<1>1. PICK n \in Nat : n = Len(a) /\ DOMAIN a = 1 .. n /\ \A j \in 1 .. n : a[j] \in Str /\ Len(a[j]) \in Nat
  <2>1. \A j \in 1 .. Len(a) : a[j] \in Str
    BY ElementOfSeq
  <2> QED
    BY <2>1, LenProperties, StrFacts
<1>2. PICK r : r = Appended(a, slice, s, spare)
  OBVIOUS
<1>3. PICK c \in 1 .. n : c = slice.array
  BY <1>1 DEF Within
<1>4. Len(s) \in Nat
  BY StrFacts
<1>5. CASE HasRoom(slice, s, a)
  <2>1. Len(s) <= Len(a[c])
    BY <1>3, <1>5 DEF HasRoom
  <2>2. PICK u \in Str : /\ u = s \o SubSeq(a[c], Len(s) + 1, Len(a[c]))
                         /\ Len(u) = Len(a[c]) /\ SubSeq(u, 1, Len(s)) = s
    BY <1>1, <2>1, Overwritten
  <2>3. r = [slice |-> [slice EXCEPT !.len = Len(s)], arrays |-> [a EXCEPT ![c] = u]]
    BY <1>2, <1>3, <1>5, <2>2 DEF Appended
  <2>4. r.arrays = [a EXCEPT ![c] = u] /\ r.slice.array = c /\ r.slice.len = Len(s) /\ r.slice \in Slice
    BY <1>3, <1>4, <2>3 DEF Within, Slice
  <2>5. r.arrays \in Seq(Str) /\ Len(r.arrays) = n
    BY <1>1, <2>4, ExceptSeq
  <2>6. DOMAIN r.arrays = 1 .. n /\ r.arrays[c] = u /\ \A j \in 1 .. n : j # c => r.arrays[j] = a[j]
    BY <1>1, <2>4
  <2>7. Within(r.arrays, r.slice) /\ Holds(r.arrays, r.slice) = s
    BY <2>1, <2>2, <2>4, <2>6 DEF Within, Holds
  <2>8. Len(r.arrays) >= Len(a)
    BY <1>1, <2>5
  <2>9. \A j \in DOMAIN a : /\ j \in DOMAIN r.arrays /\ Len(r.arrays[j]) = Len(a[j])
                            /\ j # r.slice.array => r.arrays[j] = a[j]
    BY <1>1, <2>2, <2>4, <2>6
  <2>10. r.slice.array = slice.array /\ Len(s) <= Len(a[slice.array])
    BY <1>3, <2>1, <2>4
  <2> QED
    BY <1>2, <2>5, <2>7, <2>8, <2>9, <2>10
<1>6. CASE ~HasRoom(slice, s, a)
  <2>1. PICK zeros \in Str : zeros = [i \in 1 .. spare |-> 0]
    <3>1. \A i \in 1 .. spare : 0 \in Word
      BY SmallWords
    <3>2. [i \in 1 .. spare |-> 0] \in Seq(Word)
      BY <3>1, IsASeq
    <3> QED
      BY <3>2 DEF Str
  <2>2. PICK u \in Str : u = s \o zeros /\ Len(u) = Len(s) + Len(zeros)
    BY StrOf
  <2>3. Len(zeros) \in Nat
    BY StrFacts
  <2>4. SubSeq(u, 1, Len(s)) = s
    <3>1. At(u, 1, s)
      <4>1. At(u, 1, s \o zeros)
        BY <2>2, AtWhole
      <4> QED
        BY <4>1, AtConcat
    <3>2. PICK e : e = (1 + Len(s)) - 1
      OBVIOUS
    <3>3. e = Len(s) /\ 1 + Len(s) <= Len(u) + 1
      BY <1>4, <2>2, <2>3, <3>2
    <3>4. SubSeq(u, 1, e) = s
      BY SMTT(30), <1>4, <3>1, <3>2, <3>3, PieceIs
    <3> QED
      BY <3>3, <3>4
  <2>5. r = [slice |-> [array |-> n + 1, len |-> Len(s)], arrays |-> Append(a, u)]
    BY <1>1, <1>2, <1>6, <2>1, <2>2 DEF Appended
  <2>6. r.slice.array = n + 1 /\ r.slice.len = Len(s) /\ r.slice \in Slice /\ r.arrays = Append(a, u)
    BY <1>4, <2>5 DEF Slice
  <2>7. r.arrays \in Seq(Str) /\ Len(r.arrays) = n + 1 /\ r.arrays[n + 1] = u
        /\ \A j \in 1 .. n : r.arrays[j] = a[j]
    BY <1>1, <2>6, AppendProperties
  <2>8. DOMAIN r.arrays = 1 .. n + 1
    BY <2>7, LenProperties
  <2>9. Within(r.arrays, r.slice) /\ Holds(r.arrays, r.slice) = s
    BY <1>4, <2>2, <2>3, <2>4, <2>6, <2>7, <2>8 DEF Within, Holds
  <2> QED
    BY <1>1, <1>2, <2>6, <2>7, <2>8, <2>9
<1> QED
  BY <1>5, <1>6

\* The arrays b have those of a, each as long.
SameLengths(a, b) == \A j \in DOMAIN a : j \in DOMAIN b /\ Len(b[j]) = Len(a[j])

\* A slice of arrays stays one of them, and holds what it held when its array is kept.
LEMMA StillWithin ==
  ASSUME NEW a, NEW b, SameLengths(a, b), NEW slice, Within(a, slice)
  PROVE  /\ Within(b, slice)
         /\ b[slice.array] = a[slice.array] => Holds(b, slice) = Holds(a, slice)
BY DEF Within, SameLengths, Holds

\* The first array stays empty and the second stays as long.
LEMMA BaseKept ==
  ASSUME NEW a \in Seq(Str), NEW b \in Seq(Str), SameLengths(a, b), Len(a) >= 2, a[1] = <<>>
  PROVE  Len(b) >= 2 /\ b[1] = <<>> /\ Len(b[2]) = Len(a[2])
<1>1. Len(a) \in Nat /\ DOMAIN a = 1 .. Len(a) /\ Len(b) \in Nat /\ DOMAIN b = 1 .. Len(b)
  BY LenProperties
<1>2. 1 \in DOMAIN a /\ 2 \in DOMAIN a
  BY <1>1
<1>3. 1 \in DOMAIN b /\ 2 \in DOMAIN b /\ Len(b[1]) = Len(a[1]) /\ Len(b[2]) = Len(a[2])
  BY <1>2 DEF SameLengths
<1>4. b[1] \in Seq(Word) /\ Len(b[1]) = 0
  BY <1>1, <1>3, ElementOfSeq DEF Str
<1>5. b[1] = <<>>
  BY <1>4, EmptySeq
<1> QED
  BY <1>1, <1>3, <1>5

\* What a slice holds is a string.
LEMMA HoldsIs ==
  ASSUME NEW a \in Seq(Str), NEW slice, Within(a, slice)
  PROVE  Holds(a, slice) \in Str /\ Len(Holds(a, slice)) = slice.len
<1>1. PICK t \in Str : t = a[slice.array]
  <2>1. slice.array \in 1 .. Len(a)
    BY LenProperties DEF Within
  <2> QED
    BY <2>1, ElementOfSeq
<1>2. PICK n \in Nat : n = slice.len /\ n <= Len(t)
  BY <1>1 DEF Within, Slice
<1>3. PICK one \in Nat \ {0} : one = 1
  OBVIOUS
<1>4. one <= n + 1 /\ (n + 1) - one = n
  BY <1>3
<1>5. SubSeq(t, one, n) \in Str /\ Len(SubSeq(t, one, n)) = (n + 1) - one
  BY <1>2, <1>4, CutOf
<1> QED
  BY <1>1, <1>2, <1>3, <1>4, <1>5 DEF Holds

\* Nil holds nothing.
LEMMA NilHolds ==
  ASSUME NEW a \in Seq(Str), Len(a) >= 2, a[1] = <<>>
  PROVE  Within(a, Nil) /\ Holds(a, Nil) = <<>>
<1>1. DOMAIN a = 1 .. Len(a) /\ Len(a) \in Nat
  BY LenProperties
<1>2. Within(a, Nil)
  BY <1>1 DEF Within, Slice, Nil
<1>3. Holds(a, Nil) \in Seq(Word) /\ Len(Holds(a, Nil)) = 0
  BY <1>2, HoldsIs DEF Nil, Str
<1> QED
  BY <1>2, <1>3, EmptySeq

\* Of an append, what the calls need.
LEMMA AppendedKeeps ==
  ASSUME NEW a \in Seq(Str), NEW slice, Within(a, slice), NEW s \in Str, NEW spare \in Spare
  PROVE  LET r == Appended(a, slice, s, spare)
         IN /\ r.arrays \in Seq(Str) /\ Within(r.arrays, r.slice) /\ Holds(r.arrays, r.slice) = s
            /\ SameLengths(a, r.arrays)
            /\ \A j \in DOMAIN a : j # r.slice.array => r.arrays[j] = a[j]
            /\ \/ r.slice.array = slice.array /\ Len(s) <= Len(a[slice.array])
               \/ r.slice.array = Len(a) + 1
<1>1. spare \in Nat
  BY DEF Spare
<1> QED
  BY <1>1, AppendedIs DEF SameLengths

-----------------------------------------------------------------------------
(* The calls, one by one *)

\* What Inv says, with the two properties in the words of Holds.
LEMMA InvSays ==
  /\ SentTokenIsAToken <=> (sent.token # <<>> => sent.token \in Token)
  /\ AttachedTokenStays <=>
       (~assigned => (attached # <<>> => Holds(arrays, capability) = attached))
BY DEF SentTokenIsAToken, AttachedTokenStays, AttachedTokenIsOwned, Holds, Elements

\* The same of the state after a step.
LEMMA InvSaysNext ==
  /\ SentTokenIsAToken' <=> (sent'.token # <<>> => sent'.token \in Token)
  /\ AttachedTokenStays' <=>
       (~assigned' => (attached' # <<>> => Holds(arrays', capability') = attached'))
BY DEF SentTokenIsAToken, AttachedTokenStays, AttachedTokenIsOwned, Holds, Elements

\* The invariant holds at the start.
LEMMA InvInit == Init => Inv
<1> SUFFICES ASSUME Init PROVE Inv
  OBVIOUS
<1>1. PICK zeros \in Str : zeros = [i \in 1 .. Room |-> 0] /\ Len(zeros) = Room
  <2>1. \A i \in 1 .. Room : 0 \in Word
    BY SmallWords
  <2>2. [i \in 1 .. Room |-> 0] \in Seq(Word) /\ Len([i \in 1 .. Room |-> 0]) = Room
    BY <2>1, IsASeq, RequestAssumption
  <2> QED
    BY <2>2 DEF Str
<1>2. arrays = << <<>>, zeros >> /\ <<>> \in Str
  BY <1>1, StrOf DEF Init
<1>3. /\ arrays \in Seq(Str) /\ Len(arrays) = 2 /\ DOMAIN arrays = 1 .. 2
      /\ arrays[1] = <<>> /\ arrays[2] = zeros
  BY <1>2
<1>4. Within(arrays, Nil) /\ Holds(arrays, Nil) = <<>>
  BY <1>3, NilHolds
<1>5. Within(arrays, buffer)
  BY <1>1, <1>3, RequestAssumption DEF Init, Within, Slice
<1>6. message \in Content /\ sent \in [message : Content, token : Str, frame : Str]
  <2>1. [method |-> <<>>, args |-> <<>>] \in Content
    BY <1>2 DEF Content
  <2> QED
    BY <1>2, <2>1, RequestAssumption DEF Init, NoFrame
<1>7. Typed
  <2>1. received \in Str /\ attached \in Str /\ assigned \in BOOLEAN
    BY <1>2 DEF Init
  <2>2. Within(arrays, capability) /\ Within(arrays, validated)
    BY <1>4 DEF Init
  <2> QED
    BY <1>3, <1>5, <1>6, <2>1, <2>2 DEF Typed
<1>8. Apart
  <2>1. buffer.array = 2 /\ validated.array = 1 /\ capability.array = 1
    BY DEF Init, Nil
  <2>2. Len(arrays[2]) = Room
    BY <1>1, <1>3
  <2> QED
    BY <2>1, <2>2 DEF Apart
<1>9. ValidatedIsAToken
  BY <1>4 DEF Init, ValidatedIsAToken
<1>10. SentIsAFrame /\ SentTokenIsAToken
  BY DEF Init, SentIsAFrame, SentTokenIsAToken, NoFrame
<1>11. AttachedTokenStays
  BY InvSays DEF Init
<1> QED
  BY <1>7, <1>8, <1>9, <1>10, <1>11 DEF Inv

\* Build makes a request without a token.
LEMMA BuildKeeps ==
  ASSUME Inv, NEW m \in Message, Build(m) PROVE Inv'
<1>1. /\ message' = m /\ capability' = Nil /\ validated' = Nil /\ attached' = <<>>
      /\ assigned' = FALSE /\ buffer' = buffer /\ arrays' = arrays /\ sent' = sent
      /\ received' = <<>>
  BY DEF Build, Call
<1>2. Within(arrays, Nil) /\ Holds(arrays, Nil) = <<>>
  BY NilHolds DEF Inv, Typed
<1>3. Typed'
  BY <1>1, <1>2, StrOf, RequestAssumption DEF Inv, Typed
<1>4. Apart'
  BY <1>1 DEF Inv, Apart, Nil
<1>5. ValidatedIsAToken' /\ SentIsAFrame' /\ SentTokenIsAToken'
  BY <1>1, <1>2, InvSays, InvSaysNext DEF Inv, ValidatedIsAToken, SentIsAFrame
<1>6. AttachedTokenStays'
  BY <1>1, InvSaysNext
<1> QED
  BY <1>3, <1>4, <1>5, <1>6 DEF Inv

\* What the owner writes into its buffer shows in the field only if it assigned it.
LEMMA FillBufferKeeps ==
  ASSUME Inv, NEW b \in Bytes, FillBuffer(b) PROVE Inv'
<1>1. /\ message' = message /\ capability' = capability /\ validated' = validated
      /\ attached' = attached /\ assigned' = assigned /\ sent' = sent /\ received' = <<>>
  BY DEF FillBuffer, Call
<1>2. b \in Str /\ Within(arrays, buffer) /\ arrays \in Seq(Str) /\ buffer.array = 2
      /\ Len(b) <= Len(arrays[2]) /\ 0 \in Spare
  BY RequestAssumption DEF Inv, Typed, Apart, Spare
<1>3. PICK r : r = Appended(arrays, buffer, b, 0)
  OBVIOUS
<1>4. buffer' = r.slice /\ arrays' = r.arrays
  BY <1>2, <1>3 DEF FillBuffer, Appended, HasRoom
<1>5. /\ arrays' \in Seq(Str) /\ Within(arrays', buffer') /\ SameLengths(arrays, arrays')
      /\ \A j \in DOMAIN arrays : j # buffer'.array => arrays'[j] = arrays[j]
  BY <1>2, <1>3, <1>4, AppendedKeeps
<1>6. buffer'.array = 2
  BY <1>2, <1>3, <1>4 DEF Appended, HasRoom, Within, Slice
<1>7. Len(arrays') >= 2 /\ arrays'[1] = <<>> /\ Len(arrays'[2]) = Len(arrays[2])
  BY <1>2, <1>5, BaseKept DEF Inv, Typed
<1>8. Within(arrays', capability) /\ Within(arrays', validated)
  BY <1>5, StillWithin DEF Inv, Typed
<1>9. Holds(arrays', validated) = Holds(arrays, validated)
  <2>1. validated.array \in DOMAIN arrays /\ validated.array # 2
    BY DEF Inv, Typed, Within, Apart
  <2> QED
    BY <1>5, <1>6, <2>1, StillWithin DEF Inv, Typed
<1>10. ~assigned => Holds(arrays', capability) = Holds(arrays, capability)
  <2>1. capability.array \in DOMAIN arrays /\ (~assigned => capability.array # 2)
    BY DEF Inv, Typed, Within, Apart
  <2> QED
    BY <1>5, <1>6, <2>1, StillWithin DEF Inv, Typed
<1>11. Typed'
  BY <1>1, <1>5, <1>7, <1>8, StrOf DEF Inv, Typed
<1>12. Apart'
  BY <1>1, <1>6, <1>7 DEF Inv, Apart
<1>13. ValidatedIsAToken' /\ SentIsAFrame' /\ SentTokenIsAToken'
  BY <1>1, <1>9, InvSays, InvSaysNext DEF Inv, ValidatedIsAToken, SentIsAFrame
<1>14. AttachedTokenStays'
  BY <1>1, <1>10, InvSays, InvSaysNext DEF Inv
<1> QED
  BY <1>11, <1>12, <1>13, <1>14 DEF Inv

\* Assigning the buffer to the field gives up what was attached.
LEMMA AssignKeeps ==
  ASSUME Inv, Assign PROVE Inv'
<1>1. /\ message' = message /\ capability' = buffer /\ validated' = validated /\ arrays' = arrays
      /\ buffer' = buffer /\ attached' = <<>> /\ assigned' = TRUE /\ sent' = sent
      /\ received' = <<>>
  BY DEF Assign, Call
<1>2. Typed'
  BY <1>1, StrOf DEF Inv, Typed
<1>3. Apart'
  BY <1>1 DEF Inv, Apart
<1>4. ValidatedIsAToken' /\ SentIsAFrame' /\ SentTokenIsAToken'
  BY <1>1, InvSays, InvSaysNext DEF Inv, ValidatedIsAToken, SentIsAFrame
<1>5. AttachedTokenStays'
  BY <1>1, InvSaysNext
<1> QED
  BY <1>2, <1>3, <1>4, <1>5 DEF Inv

\* A byte written through the field is written to no array but the field's.
LEMMA WriteFieldKeeps ==
  ASSUME Inv, NEW i \in 1 .. Room, NEW x \in Word, WriteField(i, x) PROVE Inv'
<1>1. /\ message' = message /\ capability' = capability /\ validated' = validated
      /\ buffer' = buffer /\ attached' = <<>> /\ assigned' = assigned /\ sent' = sent
      /\ received' = <<>>
  BY DEF WriteField, Call
<1>2. PICK n \in Nat : n = Len(arrays) /\ DOMAIN arrays = 1 .. n /\ \A j \in 1 .. n : arrays[j] \in Str
  BY LenProperties, ElementOfSeq DEF Inv, Typed
<1>3. PICK c \in 1 .. n : c = capability.array /\ capability.len <= Len(arrays[c])
  BY <1>2 DEF Inv, Typed, Within
<1>4. PICK t \in Seq(Word) : t = arrays[c]
  BY <1>2 DEF Str
<1>5. i \in 1 .. Len(t)
  BY <1>3, <1>4, RequestAssumption, LenProperties DEF WriteField, Inv, Typed, Within, Slice
<1>6. PICK u \in Seq(Word) : u = [t EXCEPT ![i] = x] /\ Len(u) = Len(t)
  <2>1. x \in Word
    OBVIOUS
  <2>2. [t EXCEPT ![i] = x] \in Seq(Word)
    BY <1>5, <2>1, ExceptSeq, Zenon
  <2>3. Len([t EXCEPT ![i] = x]) = Len(t)
    <3>1. PICK u \in Seq(Word) : u = [t EXCEPT ![i] = x] /\ DOMAIN u = DOMAIN t
      BY <2>2
    <3>2. Len(u) \in Nat /\ DOMAIN u = 1 .. Len(u) /\ Len(t) \in Nat /\ DOMAIN t = 1 .. Len(t)
      BY LenProperties
    <3>3. Len(u) = Len(t)
      BY <3>1, <3>2
    <3> QED
      BY <3>1, <3>3
  <2> QED
    BY <2>2, <2>3
<1>7. arrays' = [arrays EXCEPT ![c] = u]
  BY <1>3, <1>4, <1>6 DEF WriteField
<1>8. arrays' \in Seq(Str) /\ Len(arrays') = n /\ DOMAIN arrays' = 1 .. n
      /\ arrays'[c] = u /\ \A j \in 1 .. n : j # c => arrays'[j] = arrays[j]
  BY <1>2, <1>6, <1>7, ExceptSeq DEF Inv, Typed, Str
<1>9. SameLengths(arrays, arrays')
  BY <1>2, <1>4, <1>6, <1>8 DEF SameLengths
<1>10. c # 1
  BY <1>4, <1>5 DEF Inv, Typed
<1>11. Len(arrays') >= 2 /\ arrays'[1] = <<>> /\ Len(arrays'[2]) = Len(arrays[2])
  BY <1>8, <1>9, BaseKept DEF Inv, Typed
<1>12. Within(arrays', capability) /\ Within(arrays', validated) /\ Within(arrays', buffer)
  BY <1>9, StillWithin DEF Inv, Typed
<1>13. Holds(arrays', validated) = Holds(arrays, validated)
  <2>1. validated.array \in 1 .. n /\ validated.array # c
    BY <1>2, <1>3, <1>10 DEF Inv, Typed, Within, Apart
  <2> QED
    BY <1>8, <1>9, <2>1, StillWithin DEF Inv, Typed
<1>14. Typed'
  BY <1>1, <1>8, <1>11, <1>12, StrOf DEF Inv, Typed
<1>15. Apart'
  BY <1>1, <1>11 DEF Inv, Apart
<1>16. ValidatedIsAToken' /\ SentIsAFrame' /\ SentTokenIsAToken'
  BY <1>1, <1>13, InvSays, InvSaysNext DEF Inv, ValidatedIsAToken, SentIsAFrame
<1>17. AttachedTokenStays'
  BY <1>1, InvSaysNext
<1> QED
  BY <1>14, <1>15, <1>16, <1>17 DEF Inv

\* SetCapabilityRaw stores one copy of the token and remembers another: none of the two
\* arrays is the buffer's, unless the owner assigned it, and none is the other.
LEMMA StoredKeeps ==
  ASSUME Inv, NEW token \in Token, NEW spare \in Spare, SetCapabilityRaw(spare),
         token = Elements(buffer), capability' = Store(arrays, token, spare).slice,
         LET stored == Store(arrays, token, spare)
             kept == Remember(stored.arrays, stored.slice, spare)
         IN validated' = kept.slice /\ arrays' = kept.arrays,
         attached' = token
  PROVE  Inv'
<1>1. /\ message' = message /\ buffer' = buffer /\ assigned' = assigned /\ sent' = sent
      /\ received' = <<>>
  <2>1. token # <<>>
    BY RequestAssumption
  <2> QED
    BY <2>1 DEF SetCapabilityRaw, Call
<1>2. token \in Str /\ token # <<>> /\ Len(token) # 0
  BY RequestAssumption, EmptySeq DEF Str
<1>3. PICK n \in Nat : n = Len(arrays) /\ DOMAIN arrays = 1 .. n /\ n >= 2
  BY LenProperties DEF Inv, Typed
<1>4. /\ capability.array \in 1 .. n /\ validated.array \in 1 .. n /\ arrays[1] = <<>>
      /\ Len(arrays[1]) = 0 /\ Len(token) \in Nat
  BY <1>2, <1>3, StrOf, StrFacts DEF Inv, Typed, Within
<1>5. PICK a : a = Store(arrays, token, spare).arrays
  OBVIOUS
<1>6. PICK slice : slice = Store(arrays, token, spare).slice
  OBVIOUS
<1>7. /\ a \in Seq(Str) /\ Within(a, slice) /\ Holds(a, slice) = token /\ SameLengths(arrays, a)
      /\ \A j \in 1 .. n : j # slice.array => a[j] = arrays[j]
      /\ \/ slice.array = capability.array /\ Len(token) <= Len(arrays[capability.array])
         \/ slice.array = n + 1
  BY <1>2, <1>3, <1>5, <1>6, AppendedKeeps DEF Store, Inv, Typed
<1>8. slice.array # 1 /\ (slice.array = 2 => assigned) /\ slice.array # validated.array
  BY <1>2, <1>3, <1>4, <1>7 DEF Inv, Apart
<1>9. PICK b : b = Appended(a, validated, token, spare).arrays
  OBVIOUS
<1>10. PICK kept : kept = Appended(a, validated, token, spare).slice
  OBVIOUS
<1>11. capability' = slice /\ validated' = kept /\ arrays' = b
  BY <1>5, <1>6, <1>7, <1>9, <1>10 DEF Remember, Holds
<1>12. PICK m \in Nat : m = Len(a) /\ DOMAIN a = 1 .. m /\ m >= n /\ slice.array \in 1 .. m
  <2>1. PICK m \in Nat : m = Len(a) /\ DOMAIN a = 1 .. m
    BY <1>7, LenProperties
  <2>2. 1 .. n \subseteq 1 .. m
    BY <1>3, <1>7, <2>1 DEF SameLengths
  <2>3. n \in 1 .. n
    BY <1>3
  <2> QED
    BY <1>7, <2>1, <2>2, <2>3 DEF Within
<1>13. Within(a, validated)
  BY <1>7, StillWithin DEF Inv, Typed
<1>14. /\ b \in Seq(Str) /\ Within(b, kept) /\ Holds(b, kept) = token /\ SameLengths(a, b)
       /\ \A j \in 1 .. m : j # kept.array => b[j] = a[j]
       /\ \/ kept.array = validated.array /\ Len(token) <= Len(a[validated.array])
          \/ kept.array = m + 1
  BY <1>2, <1>7, <1>9, <1>10, <1>12, <1>13, AppendedKeeps
<1>15. kept.array # slice.array /\ kept.array # 2
  BY <1>3, <1>8, <1>12, <1>14 DEF Inv, Apart
<1>16. Holds(b, slice) = token /\ Within(b, slice)
  BY <1>7, <1>12, <1>14, <1>15, StillWithin
<1>17. SameLengths(arrays, b)
  BY <1>7, <1>14 DEF SameLengths
<1>18. Len(b) >= 2 /\ b[1] = <<>> /\ Len(b[2]) = Len(arrays[2])
  BY <1>14, <1>17, BaseKept DEF Inv, Typed
<1>19. Within(b, buffer)
  BY <1>17, StillWithin DEF Inv, Typed
<1>20. Typed'
  BY <1>1, <1>2, <1>11, <1>14, <1>16, <1>18, <1>19, StrOf DEF Inv, Typed
<1>21. Apart'
  BY <1>1, <1>8, <1>11, <1>15, <1>18 DEF Inv, Apart
<1>22. ValidatedIsAToken' /\ SentIsAFrame' /\ SentTokenIsAToken'
  BY <1>1, <1>11, <1>14, InvSays, InvSaysNext DEF Inv, ValidatedIsAToken, SentIsAFrame
<1>23. AttachedTokenStays'
  BY <1>11, <1>16, InvSaysNext
<1> QED
  BY <1>20, <1>21, <1>22, <1>23 DEF Inv

\* SetCapabilityRaw, whatever the buffer holds.
LEMMA SetCapabilityRawKeeps ==
  ASSUME Inv, NEW spare \in Spare, SetCapabilityRaw(spare) PROVE Inv'
<1>1. /\ message' = message /\ buffer' = buffer /\ sent' = sent /\ received' = <<>>
  BY DEF SetCapabilityRaw, Call
<1>2. CASE capability' = Nil /\ validated' = Nil /\ attached' = <<>> /\ assigned' = FALSE
           /\ arrays' = arrays
  <2>1. Within(arrays, Nil) /\ Holds(arrays, Nil) = <<>>
    BY NilHolds DEF Inv, Typed
  <2>2. Typed'
    BY <1>1, <1>2, <2>1, StrOf DEF Inv, Typed
  <2>3. Apart'
    BY <1>1, <1>2 DEF Inv, Apart, Nil
  <2>4. ValidatedIsAToken' /\ SentIsAFrame' /\ SentTokenIsAToken'
    BY <1>1, <1>2, <2>1, InvSays, InvSaysNext DEF Inv, ValidatedIsAToken, SentIsAFrame
  <2>5. AttachedTokenStays'
    BY <1>2, InvSaysNext
  <2> QED
    BY <2>2, <2>3, <2>4, <2>5 DEF Inv
<1>3. CASE UNCHANGED <<capability, validated, attached, assigned, arrays>>
  <2>1. Typed' /\ Apart'
    BY <1>1, <1>3, StrOf DEF Inv, Typed, Apart
  <2>2. ValidatedIsAToken' /\ SentIsAFrame' /\ SentTokenIsAToken' /\ AttachedTokenStays'
    BY <1>1, <1>3, InvSays, InvSaysNext DEF Inv, ValidatedIsAToken, SentIsAFrame
  <2> QED
    BY <2>1, <2>2 DEF Inv
<1>4. CASE /\ Elements(buffer) \in Token
           /\ capability' = Store(arrays, Elements(buffer), spare).slice
           /\ LET stored == Store(arrays, Elements(buffer), spare)
                  kept == Remember(stored.arrays, stored.slice, spare)
              IN validated' = kept.slice /\ arrays' = kept.arrays
           /\ attached' = Elements(buffer)
  BY <1>4, StoredKeeps
<1> QED
  BY <1>2, <1>3, <1>4 DEF SetCapabilityRaw

\* A token that Encode sends was validated, and is what the field holds.
LEMMA EncodeKeeps ==
  ASSUME Inv, NEW spare \in Spare, Encode(spare) PROVE Inv'
<1>1. /\ message' = message /\ capability' = capability /\ buffer' = buffer
      /\ attached' = attached /\ assigned' = assigned /\ received' = <<>>
  BY DEF Encode, Call
<1>2. PICK token : token = Elements(capability) /\ token = Holds(arrays, capability)
  BY DEF Elements, Holds
<1>3. token \in Str
  BY <1>2, HoldsIs DEF Inv, Typed
<1>4. Known(token) <=> token = <<>> \/ token = Holds(arrays, validated)
  BY DEF Known, Elements, Holds
<1>5. sent' = sent \/ sent' = [message |-> message, token |-> token, frame |-> Frame(message, token)]
  BY <1>2 DEF Encode
<1>6. sent' # sent => token = <<>> \/ token \in Token
  BY <1>2, <1>4 DEF Encode, Inv, ValidatedIsAToken
<1>7. /\ sent' \in [message : Content, token : Str, frame : Str] /\ SentIsAFrame'
      /\ SentTokenIsAToken'
  <2>1. CASE sent' = sent
    BY <2>1, InvSays, InvSaysNext DEF Inv, Typed, SentIsAFrame
  <2>2. CASE sent' # sent
    <3>1. Frame(message, token) \in Str /\ message \in Content
      BY <1>3, FrameIsStr DEF Inv, Typed
    <3>2. sent'.token = token /\ sent'.message = message /\ sent'.frame = Frame(message, token)
          /\ sent' \in [message : Content, token : Str, frame : Str]
      BY <1>3, <1>5, <2>2, <3>1
    <3> QED
      BY <1>6, <2>2, <3>2, InvSaysNext DEF SentIsAFrame
  <2> QED
    BY <2>1, <2>2
<1>8. CASE validated' = Nil /\ arrays' = arrays
  <2>1. Within(arrays, Nil) /\ Holds(arrays, Nil) = <<>>
    BY NilHolds DEF Inv, Typed
  <2>2. Typed' /\ Apart'
    BY <1>1, <1>7, <1>8, <2>1, StrOf DEF Inv, Typed, Apart, Nil
  <2>3. ValidatedIsAToken' /\ AttachedTokenStays'
    BY <1>1, <1>8, <2>1, InvSays, InvSaysNext DEF Inv, ValidatedIsAToken
  <2> QED
    BY <1>7, <2>2, <2>3 DEF Inv
<1>9. CASE validated' = validated /\ arrays' = arrays
  <2>1. Typed' /\ Apart'
    BY <1>1, <1>7, <1>9, StrOf DEF Inv, Typed, Apart
  <2>2. ValidatedIsAToken' /\ AttachedTokenStays'
    BY <1>1, <1>9, InvSays, InvSaysNext DEF Inv, ValidatedIsAToken
  <2> QED
    BY <1>7, <2>1, <2>2 DEF Inv
<1>10. CASE /\ token \in Token /\ validated' = Remember(arrays, capability, spare).slice
            /\ arrays' = Remember(arrays, capability, spare).arrays
  <2>1. token # <<>> /\ Len(token) # 0 /\ Len(token) \in Nat
    BY <1>3, <1>10, RequestAssumption, EmptySeq, StrFacts DEF Str
  <2>2. PICK n \in Nat : n = Len(arrays) /\ DOMAIN arrays = 1 .. n /\ n >= 2
    BY LenProperties DEF Inv, Typed
  <2>3. capability.array \in 1 .. n /\ validated.array \in 1 .. n /\ Len(arrays[1]) = 0
    BY <2>2, StrOf DEF Inv, Typed, Within
  <2>4. PICK b : b = Appended(arrays, validated, token, spare).arrays
    OBVIOUS
  <2>5. PICK kept : kept = Appended(arrays, validated, token, spare).slice
    OBVIOUS
  <2>6. validated' = kept /\ arrays' = b
    BY <1>2, <1>10, <2>4, <2>5 DEF Remember, Holds
  <2>7. /\ b \in Seq(Str) /\ Within(b, kept) /\ Holds(b, kept) = token /\ SameLengths(arrays, b)
        /\ \A j \in 1 .. n : j # kept.array => b[j] = arrays[j]
        /\ \/ kept.array = validated.array /\ Len(token) <= Len(arrays[validated.array])
           \/ kept.array = n + 1
    BY <1>3, <2>2, <2>4, <2>5, AppendedKeeps DEF Inv, Typed
  <2>8. kept.array # 2 /\ kept.array # capability.array
    BY <2>1, <2>2, <2>3, <2>7 DEF Inv, Apart
  <2>9. Within(b, capability) /\ Holds(b, capability) = Holds(arrays, capability) /\ Within(b, buffer)
    BY <2>3, <2>7, <2>8, StillWithin DEF Inv, Typed
  <2>10. Len(b) >= 2 /\ b[1] = <<>> /\ Len(b[2]) = Len(arrays[2])
    BY <2>7, BaseKept DEF Inv, Typed
  <2>11. Typed'
    BY <1>1, <1>7, <2>6, <2>7, <2>9, <2>10, StrOf DEF Inv, Typed
  <2>12. Apart'
    BY <1>1, <2>6, <2>8, <2>10 DEF Inv, Apart
  <2>13. ValidatedIsAToken' /\ AttachedTokenStays'
    BY <1>1, <1>10, <2>6, <2>7, <2>9, InvSays, InvSaysNext DEF Inv, ValidatedIsAToken
  <2> QED
    BY <1>7, <2>11, <2>12, <2>13 DEF Inv
<1> QED
  BY <1>2, <1>8, <1>9, <1>10 DEF Encode

\* Decode makes a request of what it reads, with a copy of the token.
LEMMA DecodeKeeps ==
  ASSUME Inv, NEW frame \in Foreign \cup {sent.frame}, NEW spare \in Spare, Decode(frame, spare)
  PROVE  Inv'
<1>1. buffer' = buffer /\ sent' = sent
  BY DEF Decode
<1>2. frame \in Str
  BY RequestAssumption DEF Inv, Typed
<1>3. CASE ~Decoded(frame).ok
  <2>1. received' = <<>> /\ UNCHANGED <<message, capability, validated, arrays, attached, assigned>>
    BY <1>3 DEF Decode
  <2>2. Typed' /\ Apart'
    BY <1>1, <2>1, StrOf DEF Inv, Typed, Apart
  <2>3. ValidatedIsAToken' /\ SentIsAFrame' /\ SentTokenIsAToken' /\ AttachedTokenStays'
    BY <1>1, <2>1, InvSays, InvSaysNext DEF Inv, ValidatedIsAToken, SentIsAFrame
  <2> QED
    BY <2>2, <2>3 DEF Inv
<1>4. CASE Decoded(frame).ok
  <2>1. PICK m \in Content : m = Decoded(frame).message
    BY <1>2, <1>4, DecodedSpellsOut DEF FitContent
  <2>2. PICK token \in Str : token = Decoded(frame).token
    BY <1>2, <1>4, DecodedSpellsOut
  <2>3. PICK b : b = Appended(arrays, Nil, token, spare).arrays
    OBVIOUS
  <2>4. PICK slice : slice = Appended(arrays, Nil, token, spare).slice
    OBVIOUS
  <2>5. /\ received' = frame /\ message' = m /\ capability' = slice /\ arrays' = b
        /\ validated' = Nil /\ attached' = <<>> /\ assigned' = FALSE
    BY <1>4, <2>1, <2>2, <2>3, <2>4 DEF Decode
  <2>6. PICK n \in Nat : n = Len(arrays) /\ DOMAIN arrays = 1 .. n /\ n >= 2
    BY LenProperties DEF Inv, Typed
  <2>7. Within(arrays, Nil)
    BY NilHolds DEF Inv, Typed
  <2>8. /\ b \in Seq(Str) /\ Within(b, slice) /\ SameLengths(arrays, b)
        /\ slice.array = 1 \/ slice.array = n + 1
    BY <2>3, <2>4, <2>6, <2>7, AppendedKeeps DEF Inv, Typed, Nil
  <2>9. Len(b) >= 2 /\ b[1] = <<>> /\ Len(b[2]) = Len(arrays[2])
    BY <2>8, BaseKept DEF Inv, Typed
  <2>10. Within(b, buffer) /\ Within(b, Nil) /\ Holds(b, Nil) = <<>>
    BY <2>8, <2>9, StillWithin, NilHolds DEF Inv, Typed
  <2>11. Typed'
    BY <1>1, <1>2, <2>5, <2>8, <2>9, <2>10, StrOf DEF Inv, Typed
  <2>12. Apart'
    BY <1>1, <2>5, <2>6, <2>8, <2>9 DEF Inv, Apart, Nil
  <2>13. ValidatedIsAToken' /\ SentIsAFrame' /\ SentTokenIsAToken' /\ AttachedTokenStays'
    BY <1>1, <2>5, <2>10, InvSays, InvSaysNext DEF Inv, ValidatedIsAToken, SentIsAFrame
  <2> QED
    BY <2>11, <2>12, <2>13 DEF Inv
<1> QED
  BY <1>3, <1>4

\* The invariant holds in every state.
THEOREM RequestInvariant == Spec => []Inv
<1>1. Inv /\ [Next]_vars => Inv'
  <2> SUFFICES ASSUME Inv, [Next]_vars PROVE Inv'
    OBVIOUS
  <2>1. ASSUME NEW m \in Message, Build(m) PROVE Inv'
    BY <2>1, BuildKeeps
  <2>2. ASSUME NEW b \in Bytes, FillBuffer(b) PROVE Inv'
    BY <2>2, FillBufferKeeps
  <2>3. ASSUME Assign PROVE Inv'
    BY <2>3, AssignKeeps
  <2>4. ASSUME NEW i \in 1 .. Room, NEW x \in Word, WriteField(i, x) PROVE Inv'
    BY <2>4, WriteFieldKeeps
  <2>5. ASSUME NEW spare \in Spare, SetCapabilityRaw(spare) PROVE Inv'
    BY <2>5, SetCapabilityRawKeeps
  <2>6. ASSUME NEW spare \in Spare, Encode(spare) PROVE Inv'
    BY <2>6, EncodeKeeps
  <2>7. ASSUME NEW frame \in Foreign \cup {sent.frame}, NEW spare \in Spare, Decode(frame, spare)
        PROVE  Inv'
    BY <2>7, DecodeKeeps
  <2>8. CASE UNCHANGED vars
    <3>1. Typed' /\ Apart'
      BY <2>8 DEF vars, Inv, Typed, Apart
    <3>2. ValidatedIsAToken' /\ SentIsAFrame' /\ SentTokenIsAToken' /\ AttachedTokenStays'
      BY <2>8, InvSays, InvSaysNext DEF vars, Inv, ValidatedIsAToken, SentIsAFrame
    <3> QED
      BY <3>1, <3>2 DEF Inv
  <2> QED
    BY <2>1, <2>2, <2>3, <2>4, <2>5, <2>6, <2>7, <2>8 DEF Next
<1> QED
  BY <1>1, InvInit, PTL DEF Spec

\* Whatever the owner does to the field, no request goes out with bytes that are no token.
THEOREM SentTokenIsATokenHolds == Spec => []SentTokenIsAToken
<1>1. Inv => SentTokenIsAToken
  BY DEF Inv
<1> QED
  BY <1>1, RequestInvariant, PTL

\* An attached token is a copy that the owner's buffer does not reach.
THEOREM AttachedTokenStaysHolds == Spec => []AttachedTokenStays
<1>1. Inv => AttachedTokenStays
  BY DEF Inv
<1> QED
  BY <1>1, RequestInvariant, PTL

\* A request that is sent is decoded to what it was, when its lengths fit.
THEOREM SentIsDecodedHolds == Spec => []SentIsDecoded
<1>1. Inv => SentIsDecoded
  <2> SUFFICES ASSUME Inv, sent.frame # <<>>, Fits(sent.message, sent.token)
               PROVE  LET d == Decoded(sent.frame)
                      IN d.ok /\ d.message = sent.message /\ d.token = sent.token
    BY DEF SentIsDecoded
  <2>1. PICK m \in Content : m = sent.message
    BY DEF Inv, Typed
  <2>2. PICK token \in Str : token = sent.token
    BY DEF Inv, Typed
  <2>3. Short(m.method) /\ ShortArguments(m.args) /\ ShortBytes(token) /\ m.args \in Seq(Argument)
    BY <2>1, <2>2 DEF Fits, Content
  <2>4. m \in FitContent
    BY <2>3, FitArgumentsAre DEF FitContent
  <2>5. sent.frame = Frame(m, token)
    BY <2>1, <2>2 DEF Inv, SentIsAFrame
  <2> QED
    BY <2>1, <2>2, <2>3, <2>4, <2>5, FrameIsDecoded
<1> QED
  BY <1>1, RequestInvariant, PTL

\* Nothing that is decoded loses or adds a word.
THEOREM ReceivedIsSpelledOutHolds == Spec => []ReceivedIsSpelledOut
<1>1. Inv => ReceivedIsSpelledOut
  <2> SUFFICES ASSUME Inv, Decoded(received).ok
               PROVE  LET d == Decoded(received)
                      IN \/ d.version = 1 /\ d.token = <<>> /\ received = LegacyFrame(d.message)
                         \/ d.version = 2 /\ received = Frame(d.message, d.token)
                         \/ d.version = 2 /\ d.token = <<>>
                            /\ received = PutMessage(2, d.message) \o <<1, 0, 0>>
    BY DEF ReceivedIsSpelledOut
  <2>1. received \in Str
    BY DEF Inv, Typed
  <2> QED
    BY <2>1, DecodedSpellsOut
<1> QED
  BY <1>1, RequestInvariant, PTL
=============================================================================
