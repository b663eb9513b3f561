--------------------------- MODULE Exchange_proofs ---------------------------
(***************************************************************************)
(* The theorems about Exchange: what the token commands leave on the disk, *)
(* what a request carries of it, what the service makes of the request and *)
(* what the client reads of the answer.                                    *)
(***************************************************************************)
EXTENDS Exchange, RequestFrame_proofs

FS == INSTANCE FiniteSetTheorems

-----------------------------------------------------------------------------
(* Text without the blanks around it *)

\* A set of numbers up to n has a least one and a greatest one.
LEMMA Extremes ==
  ASSUME NEW n \in Nat, NEW S, S \subseteq 1 .. n, S # {}
  PROVE  /\ Min(S) \in S /\ \A y \in S : Min(S) <= y
         /\ Max(S) \in S /\ \A y \in S : y <= Max(S)
<1>1. \A T : T \subseteq Nat /\ T # {} => \E x \in T : \A y \in T : x <= y
  <2> TAKE T
  <2> HAVE T \subseteq Nat /\ T # {}
  <2>1. PICK x \in T : \A y \in T : ~ (<<y, x>> \in Less)
    BY LessIsWellFounded, WF!WFMin
  <2>2. \A y \in T : ~ (y < x)
    BY <2>1 DEF Less
  <2> QED
    BY <2>2
<1>2. \E x \in S : \A y \in S : x <= y
  <2>1. S \subseteq Nat
    OBVIOUS
  <2> QED
    BY <1>1, <2>1
<1>3. \E x \in S : \A y \in S : y <= x
  <2> DEFINE T == {n - x : x \in S}
  <2>1. T \subseteq Nat /\ T # {}
    <3>1. \A x \in S : n - x \in Nat
      OBVIOUS
    <3>2. PICK x : x \in S
      OBVIOUS
    <3> QED
      BY <3>1, <3>2
  <2>2. PICK d \in T : \A e \in T : d <= e
    <3> HIDE DEF T
    <3> QED
      BY <1>1, <2>1
  <2>3. PICK x \in S : d = n - x
    BY <2>2
  <2>4. \A y \in S : d <= n - y
    BY <2>2
  <2> QED
    BY <2>3, <2>4
<1>4. Min(S) \in S /\ \A y \in S : Min(S) <= y
  BY <1>2 DEF Min
<1>5. Max(S) \in S /\ \A y \in S : y <= Max(S)
  <2>1. \E x \in S : \A y \in S : x >= y
    BY <1>3
  <2>2. Max(S) \in S /\ \A y \in S : Max(S) >= y
    BY <2>1 DEF Max
  <2> QED
    BY <2>2
<1> QED
  BY <1>4, <1>5

\* What Trim leaves is a text of the same characters, and nothing, or without a blank at
\* either end.
LEMMA TrimIs ==
  ASSUME NEW T, NEW s \in Seq(T)
  PROVE  /\ Trim(s) \in Seq(T) /\ Len(Trim(s)) <= Len(s)
         /\ \/ Trim(s) = <<>> /\ \A i \in 1 .. Len(s) : s[i] = Blank
            \/ /\ Len(Trim(s)) > 0
               /\ Trim(s)[1] # Blank /\ Trim(s)[Len(Trim(s))] # Blank
<1>1. PICK n \in Nat : n = Len(s) /\ DOMAIN s = 1 .. n /\ \A i \in 1 .. n : s[i] \in T
  BY LenProperties, ElementOfSeq
<1>2. PICK ink : ink = {i \in DOMAIN s : s[i] # Blank}
  OBVIOUS
<1>3. Trim(s) = IF ink = {} THEN <<>> ELSE SubSeq(s, Min(ink), Max(ink))
  BY <1>2 DEF Trim
<1>4. CASE ink = {}
  <2>1. Trim(s) = <<>>
    BY <1>3, <1>4
  <2>2. <<>> \in Seq(T) /\ Len(<<>>) = 0
    OBVIOUS
  <2>3. \A i \in 1 .. Len(s) : s[i] = Blank
    BY <1>1, <1>2, <1>4
  <2> QED
    BY <1>1, <2>1, <2>2, <2>3
<1>5. CASE ink # {}
  <2>1. PICK a, b : a = Min(ink) /\ b = Max(ink)
    OBVIOUS
  <2>2. a \in ink /\ b \in ink /\ a <= b
    <3>1. ink \subseteq 1 .. n
      BY <1>1, <1>2
    <3> QED
      BY <1>5, <2>1, <3>1, Extremes
  <2>3. a \in 1 .. n /\ b \in 1 .. n /\ s[a] # Blank /\ s[b] # Blank
    BY <1>1, <1>2, <2>2
  <2>4. Trim(s) = SubSeq(s, a, b)
    BY <1>3, <1>5, <2>1
  <2>5. /\ SubSeq(s, a, b) \in Seq(T)
        /\ Len(SubSeq(s, a, b)) = IF a <= b THEN b - a + 1 ELSE 0
        /\ \A i \in 1 .. b - a + 1 : SubSeq(s, a, b)[i] = s[a + i - 1]
    <3>1. \A i \in a .. b : s[i] \in T
      BY <1>1, <2>3
    <3> QED
      BY <2>3, <3>1, SubSeqProperties
  <2>6. PICK u \in Seq(T) : u = Trim(s) /\ Len(u) = (b - a) + 1
                            /\ \A i \in 1 .. (b - a) + 1 : u[i] = s[a + i - 1]
    BY <2>2, <2>3, <2>4, <2>5
  <2>7. u[1] = s[a] /\ u[(b - a) + 1] = s[b] /\ Len(u) > 0 /\ Len(u) <= n
    BY <2>2, <2>3, <2>6
  <2> QED
    BY <1>1, <2>3, <2>6, <2>7
<1> QED
  BY <1>4, <1>5

\* Trim leaves a text alone that neither begins nor ends with a blank.
LEMMA TrimKeeps ==
  ASSUME NEW T, NEW s \in Seq(T), s = <<>> \/ (Len(s) > 0 /\ s[1] # Blank /\ s[Len(s)] # Blank)
  PROVE  Trim(s) = s
<1>1. PICK n \in Nat : n = Len(s) /\ DOMAIN s = 1 .. n /\ \A i \in 1 .. n : s[i] \in T
  BY LenProperties, ElementOfSeq
<1>2. PICK ink : ink = {i \in DOMAIN s : s[i] # Blank}
  OBVIOUS
<1>3. Trim(s) = IF ink = {} THEN <<>> ELSE SubSeq(s, Min(ink), Max(ink))
  BY <1>2 DEF Trim
<1>4. CASE s = <<>>
  <2>1. n = 0 /\ ink = {}
    BY <1>1, <1>2, <1>4
  <2> QED
    BY <1>3, <1>4, <2>1
<1>5. CASE s # <<>>
  <2>1. n > 0 /\ 1 \in ink /\ n \in ink /\ ink \subseteq 1 .. n
    BY <1>1, <1>2, <1>5
  <2>2. Min(ink) = 1 /\ Max(ink) = n
    <3>1. /\ Min(ink) \in ink /\ \A y \in ink : Min(ink) <= y
          /\ Max(ink) \in ink /\ \A y \in ink : y <= Max(ink)
      BY <2>1, Extremes
    <3>2. PICK a, b : a = Min(ink) /\ b = Max(ink)
      OBVIOUS
    <3>3. a \in 1 .. n /\ b \in 1 .. n /\ a <= 1 /\ n <= b
      BY <2>1, <3>1, <3>2
    <3> QED
      BY <3>2, <3>3
  <2>3. SubSeq(s, 1, n) = s
    <3>1. /\ SubSeq(s, 1, n) \in Seq(T)
          /\ Len(SubSeq(s, 1, n)) = IF 1 <= n THEN n - 1 + 1 ELSE 0
          /\ \A i \in 1 .. n - 1 + 1 : SubSeq(s, 1, n)[i] = s[1 + i - 1]
      BY <1>1, SubSeqProperties
    <3>2. PICK u \in Seq(T) : u = SubSeq(s, 1, n)
      BY <3>1
    <3>3. (n - 1) + 1 = n /\ \A i \in 1 .. n : (1 + i) - 1 = i
      OBVIOUS
    <3>4. Len(u) = n /\ \A i \in 1 .. n : u[i] = s[i]
      BY <2>1, <3>1, <3>2, <3>3
    <3> QED
      BY <1>1, <3>2, <3>4, SeqEqual
  <2> QED
    BY <1>3, <2>1, <2>2, <2>3
<1> QED
  BY <1>4, <1>5

\* What was trimmed stays as it is.
LEMMA TrimTwice ==
  ASSUME NEW T, NEW s \in Seq(T)
  PROVE  Trim(Trim(s)) = Trim(s)
<1>1. PICK u \in Seq(T) : u = Trim(s)
  BY TrimIs
<1>2. u = <<>> \/ (Len(u) > 0 /\ u[1] # Blank /\ u[Len(u)] # Blank)
  BY <1>1, TrimIs
<1> QED
  BY <1>1, <1>2, TrimKeeps

-----------------------------------------------------------------------------
(* Tokens, as they are issued *)

Fields == {Layout[i] : i \in DOMAIN Layout}

\* What may be in a field of a token.
Typed(f, v) ==
  /\ f \in StringFields => v \in Str
  /\ f \in ListFields => v \in Seq(Str)
  /\ f \in Fields \ (StringFields \cup ListFields) => v \in Word

IsToken(t) ==
  /\ t = [f \in Fields \cup {"signature"} |-> t[f]] /\ t.signature \in Str
  /\ \A f \in Fields : Typed(f, t[f])

\* The fields of a token and their names.
LEMMA FieldsAre ==
  /\ Fields = {"keyID", "issuer", "subject", "tokenID", "schema", "hash", "relation",
               "condition", "methods", "targets", "issuedAt", "notBefore", "expiresAt"}
  /\ Len(Layout) = 13 /\ DOMAIN Layout = 1 .. 13
  /\ \A i, j \in 1 .. 13 : Layout[i] = Layout[j] => i = j
  /\ \A i \in 1 .. 13 : Layout[i] \in Fields /\ Layout[i] # "signature"
<1>1. DOMAIN Layout = 1 .. 13 /\ Len(Layout) = 13
  BY DEF Layout
<1>2. \A i \in 1 .. 13 : i \in {1, 2, 3, 4, 5, 6, 7, 8, 9, 10, 11, 12, 13}
  OBVIOUS
<1>3. /\ Layout[1] = "keyID" /\ Layout[2] = "issuer" /\ Layout[3] = "subject"
      /\ Layout[4] = "tokenID" /\ Layout[5] = "schema" /\ Layout[6] = "hash"
      /\ Layout[7] = "relation" /\ Layout[8] = "condition" /\ Layout[9] = "methods"
      /\ Layout[10] = "targets" /\ Layout[11] = "issuedAt" /\ Layout[12] = "notBefore"
      /\ Layout[13] = "expiresAt"
  BY DEF Layout
<1>4. Fields = {"keyID", "issuer", "subject", "tokenID", "schema", "hash", "relation",
                "condition", "methods", "targets", "issuedAt", "notBefore", "expiresAt"}
  BY <1>1, <1>2, <1>3 DEF Fields
<1>5. \A i, j \in 1 .. 13 : Layout[i] = Layout[j] => i = j
  BY <1>2, <1>3
<1>6. \A i \in 1 .. 13 : Layout[i] \in Fields /\ Layout[i] # "signature"
  BY <1>2, <1>3, <1>4
<1> QED
  BY <1>1, <1>4, <1>5, <1>6

\* A string is put into a list of strings.
LEMMA InsertedIs ==
  ASSUME NEW list \in Seq(Str), NEW s \in Str
  PROVE  Inserted(list, s) \in Seq(Str)
<1>1. PICK n \in Nat : n = Len(list) /\ DOMAIN list = 1 .. n /\ \A i \in 1 .. n : list[i] \in Str
  BY LenProperties, ElementOfSeq
<1>2. PICK less : less = {i \in DOMAIN list : Before(list[i], s)}
  OBVIOUS
<1>3. PICK k \in 0 .. n : k = Cardinality(less)
  <2>1. FS!IsFiniteSet(1 .. n) /\ FS!Cardinality(1 .. n) <= n
    BY FS!FS_Interval
  <2>2. less \in SUBSET (1 .. n)
    BY <1>1, <1>2
  <2>3. FS!IsFiniteSet(less) /\ FS!Cardinality(less) <= FS!Cardinality(1 .. n)
    BY <2>1, <2>2, FS!FS_Subset
  <2>4. FS!Cardinality(less) \in Nat /\ FS!Cardinality(1 .. n) \in Nat
    BY <2>1, <2>3, FS!FS_CardinalityType
  <2>5. FS!Cardinality(less) = Cardinality(less)
    BY DEF FS!Cardinality, Cardinality, FS!ExistsBijection
  <2> QED
    BY <2>1, <2>3, <2>4, <2>5
<1>4. /\ SubSeq(list, 1, k) \in Seq(Str) /\ SubSeq(list, k + 1, n) \in Seq(Str)
      /\ <<s>> \in Seq(Str)
  <2>1. \A i \in 1 .. k : list[i] \in Str
    BY <1>1, <1>3
  <2>2. \A i \in k + 1 .. n : list[i] \in Str
    BY <1>1, <1>3
  <2>3. SubSeq(list, 1, k) \in Seq(Str)
    BY <2>1, SubSeqProperties
  <2>4. SubSeq(list, k + 1, n) \in Seq(Str)
    BY <2>2, SubSeqProperties
  <2> QED
    BY <2>3, <2>4
<1>5. InsertAt(list, 1 + k, s) \in Seq(Str)
  <2>1. PICK a, b \in Seq(Str) : a = SubSeq(list, 1, k) /\ b = SubSeq(list, k + 1, n)
    BY <1>4
  <2>2. (1 + k) - 1 = k /\ 1 + k = k + 1
    BY <1>3
  <2>3. InsertAt(list, 1 + k, s) = (a \o <<s>>) \o b
    BY <1>1, <2>1, <2>2 DEF InsertAt
  <2>4. a \o <<s>> \in Seq(Str)
    BY <1>4, ConcatProperties
  <2> QED
    BY <2>3, <2>4, ConcatProperties
<1> QED
  BY <1>2, <1>3, <1>5 DEF Inserted

\* A list of strings stays one when it is compacted.
LEMMA CompactListIs ==
  ASSUME NEW values \in Seq(Str)
  PROVE  CompactList(values) \in Seq(Str)
<1>1. PICK n \in Nat : n = Len(values) /\ \A i \in 1 .. n : values[i] \in Str
  BY LenProperties, ElementOfSeq
<1>2. PICK V : V = Seq(Str)
  OBVIOUS
<1>3. <<>> \in V
  BY <1>2
<1>4. \A k \in 1 .. n, v \in V : Inserted(v, Trim(values[k])) \in V
  <2> TAKE k \in 1 .. n, v \in V
  <2>1. Trim(values[k]) \in Str
    BY <1>1, TrimIs DEF Str
  <2> QED
    BY <1>2, <2>1, InsertedIs
<1>5. PICK next \in [(1 .. n) \X V -> V] :
             \A k \in 1 .. n, v \in V : next[<<k, v>>] = Inserted(v, Trim(values[k]))
  <2> DEFINE next == [p \in (1 .. n) \X V |-> Inserted(p[2], Trim(values[p[1]]))]
  <2>1. next \in [(1 .. n) \X V -> V]
        /\ \A k \in 1 .. n, v \in V : next[<<k, v>>] = Inserted(v, Trim(values[k]))
    BY <1>4
  <2> HIDE DEF next
  <2> QED
    BY <2>1
<1>6. PICK h \in [0 .. n -> V] : h[0] = <<>> /\ \A k \in 1 .. n : h[k] = Inserted(h[k - 1], Trim(values[k]))
  <2>1. PICK h : Follows(h, n, V, <<>>, next)
    BY <1>3, Recursion
  <2>2. h \in [0 .. n -> V] /\ h[0] = <<>>
    BY <2>1 DEF Follows
  <2>3. \A k \in 1 .. n : h[k] = Inserted(h[k - 1], Trim(values[k]))
    <3> TAKE k \in 1 .. n
    <3>1. h[k - 1] \in V /\ h[k] = next[<<k, h[k - 1]>>]
      BY <2>1, <2>2 DEF Follows
    <3> QED
      BY <1>5, <3>1
  <2> QED
    BY <2>2, <2>3
<1> DEFINE Stepped(g) ==
             [k \in 0 .. Len(values) |->
                IF k = 0 THEN <<>> ELSE Inserted(g[k - 1], Trim(values[k]))]
           g == CHOOSE g : g = Stepped(g)
<1>7. h = Stepped(h)
  <2>1. \A k \in 0 .. n : h[k] = IF k = 0 THEN <<>> ELSE Inserted(h[k - 1], Trim(values[k]))
    BY <1>6
  <2> QED
    BY <1>1, <2>1
<1>8. g = Stepped(g)
  BY <1>7
<1>9. CompactList(values) = g[Len(values)]
  BY DEF CompactList
<1> HIDE DEF g
<1>10. \A k \in 0 .. n : g[k] = IF k = 0 THEN <<>> ELSE Inserted(g[k - 1], Trim(values[k]))
  BY <1>1, <1>8
<1>11. \A k \in 0 .. n : k \in {j \in 0 .. n : g[j] \in V}
  <2> DEFINE S == {j \in 0 .. n : g[j] \in V}
  <2>1. 0 \in S
    BY <1>3, <1>10
  <2>2. ASSUME NEW k \in Nat, k \in S, k < n PROVE k + 1 \in S
    <3>1. k + 1 \in 1 .. n /\ k + 1 \in 0 .. n /\ k + 1 # 0 /\ (k + 1) - 1 = k /\ g[k] \in V
      BY <2>2
    <3>2. g[k + 1] = Inserted(g[k], Trim(values[k + 1]))
      BY <1>10, <3>1
    <3> QED
      BY <1>4, <3>1, <3>2
  <2> HIDE DEF S
  <2>3. \A k \in 0 .. n : k \in S
    BY <2>1, <2>2, BoundedInduction
  <2> QED
    BY <2>3 DEF S
<1> QED
  BY <1>1, <1>2, <1>9, <1>11

\* The token that the registry issues for the options o, signed for the n-th time.
IssuedToken(o, n) ==
  LET t == Unsigned(o, o.now, <<W - 1, n>>)
  IN [f \in DOMAIN t \cup {"signature"} |-> IF f = "signature" THEN <<n>> ELSE t[f]]

\* What is issued is a token.
LEMMA IssuedIsToken ==
  ASSUME NEW o \in Options, NEW n \in Word
  PROVE  /\ IsToken(IssuedToken(o, n)) /\ IssuedToken(o, n).signature = <<n>>
         /\ \A f \in Fields : IssuedToken(o, n)[f] = Unsigned(o, o.now, <<W - 1, n>>)[f]
<1>1. PICK t : t = Unsigned(o, o.now, <<W - 1, n>>)
  OBVIOUS
<1>2. IsOption(o)
  BY ExchangeAssumption
<1>3. <<W - 1, n>> \in Str /\ <<n>> \in Str
  <2>1. W - 1 \in Word
    BY WordsAssumption DEF Word
  <2> QED
    BY <2>1, TwoOf, StrOf
<1>4. DOMAIN t = Fields
  BY <1>1 DEF Unsigned, Fields
<1>5. \A f \in Fields : Typed(f, t[f])
  <2> TAKE f \in Fields
  <2>1. CASE f = "tokenID"
    <3>1. t[f] = IF Trim(o.tokenID) = <<>> THEN <<W - 1, n>> ELSE Trim(o.tokenID)
      BY <1>1, <2>1 DEF Unsigned, Fields, StringFields, ListFields
    <3>2. o.tokenID \in Str
      BY <1>2 DEF IsOption, StringFields
    <3>3. Trim(o.tokenID) \in Str
      BY <3>2, TrimIs DEF Str
    <3> QED
      BY <1>3, <2>1, <3>1, <3>3 DEF Typed, StringFields, ListFields
  <2>2. CASE f \in StringFields \ {"tokenID"}
    <3>1. t[f] = Trim(o[f])
      BY <1>1, <2>2 DEF Unsigned, Fields, StringFields, ListFields
    <3>2. o[f] \in Str
      BY <1>2, <2>2 DEF IsOption
    <3>3. Trim(o[f]) \in Str
      BY <3>2, TrimIs DEF Str
    <3> QED
      BY <2>2, <3>1, <3>3 DEF Typed, StringFields, ListFields
  <2>3. CASE f \in ListFields
    <3>1. t[f] = CompactList(o[f])
      BY <1>1, <2>3 DEF Unsigned, Fields, ListFields, StringFields
    <3>2. o[f] \in Seq(Str)
      BY <1>2, <2>3 DEF IsOption
    <3>3. CompactList(o[f]) \in Seq(Str)
      BY <3>2, CompactListIs
    <3> QED
      BY <2>3, <3>1, <3>3 DEF Typed, StringFields, ListFields
  <2>4. CASE f \in {"hash", "issuedAt", "notBefore", "expiresAt"}
    <3>1. {o.hash, o.now, o.issuedAt, o.notBefore, o.expiresAt} \subseteq Word
      BY <1>2 DEF IsOption
    <3>2. PICK issuedAt \in Word : issuedAt = IF o.issuedAt = 0 THEN o.now ELSE o.issuedAt
      BY <3>1
    <3>3. PICK notBefore \in Word : notBefore = IF o.notBefore = 0 THEN issuedAt ELSE o.notBefore
      BY <3>1
    <3>4. t[f] = CASE f = "issuedAt" -> issuedAt [] f = "notBefore" -> notBefore [] OTHER -> o[f]
      BY <1>1, <2>4, <3>2, <3>3 DEF Unsigned, Fields, StringFields, ListFields
    <3>5. t[f] \in Word
      BY <2>4, <3>1, <3>4
    <3> QED
      BY <2>4, <3>5 DEF Typed, StringFields, ListFields
  <2> QED
    BY <2>1, <2>2, <2>3, <2>4, FieldsAre DEF StringFields, ListFields
<1>6. PICK u : u = IssuedToken(o, n)
  OBVIOUS
<1>7. u = [f \in Fields \cup {"signature"} |-> IF f = "signature" THEN <<n>> ELSE t[f]]
  BY <1>1, <1>4, <1>6 DEF IssuedToken
<1>8. "signature" \notin Fields
  BY FieldsAre
<1>9. u.signature = <<n>> /\ \A f \in Fields : u[f] = t[f]
  BY <1>7, <1>8
<1>10. u = [f \in Fields \cup {"signature"} |-> u[f]]
  BY <1>7
<1> QED
  BY <1>1, <1>3, <1>5, <1>6, <1>9, <1>10 DEF IsToken

-----------------------------------------------------------------------------
(* Lists of strings, written and read *)

\* The strings whose lengths are written whole, and the lists of them.
FitString == {s \in Str : Short(s)}
FitStrings == {v \in Seq(FitString) : Short(v)}

PutFitString == [s \in FitString |-> PutString(s)]

PutStrings(v) == PutMany([i \in DOMAIN v |-> PutString(v[i])])

StringsOf(data) == [p \in Offset(data) |-> ReadString(data, p)]

\* PutFitString writes a string.
LEMMA PutFitStringIs ==
  /\ PutFitString \in [FitString -> Str]
  /\ \A s \in FitString : PutFitString[s] = PutString(s) /\ Len(PutFitString[s]) > 0
<1>1. \A s \in FitString : PutString(s) \in Str /\ Len(PutString(s)) > 0
  <2> TAKE s \in FitString
  <2>1. s \in Str /\ Len(s) \in Nat
    BY StrFacts DEF FitString
  <2> QED
    BY <2>1, PutStringOf
<1> QED
  BY <1>1 DEF PutFitString

\* A list of strings is written as a string, also when lengths lose bits.
LEMMA PutStringsOf ==
  ASSUME NEW v \in Seq(Str)
  PROVE  PutStrings(v) \in Str /\ Len(PutStrings(v)) > 0
<1>1. PICK n \in Nat : DOMAIN v = 1 .. n /\ \A i \in 1 .. n : v[i] \in Str
  BY LenProperties, ElementOfSeq
<1>2. PICK w : w = [i \in DOMAIN v |-> PutString(v[i])]
  OBVIOUS
<1>3. w \in Seq(Str)
  <2>1. \A i \in 1 .. n : PutString(v[i]) \in Str
    BY <1>1, PutStringOf
  <2> QED
    BY <1>1, <1>2, <2>1, IsASeq
<1>4. PICK flat \in Str : flat = FlattenSeq(w)
  <2>1. <<>> \in Str
    BY StrOf
  <2> QED
    BY <1>3, <2>1, FlattenAppend
<1>5. PICK count \in Str : count = <<Len(w) % W>> /\ Len(count) = 1
  <2>1. Len(w) % W \in Word
    BY <1>3, LenProperties, WordsAssumption DEF Word
  <2> QED
    BY <2>1, StrOf
<1>6. count \o flat \in Str /\ Len(count \o flat) = 1 + Len(flat) /\ Len(flat) \in Nat
  BY <1>5, StrOf, StrFacts
<1>7. PutStrings(v) = count \o flat
  BY <1>2, <1>4, <1>5 DEF PutStrings, PutMany
<1> QED
  BY <1>6, <1>7

\* A list whose lengths fit is written as PutFitString writes it.
LEMMA PutStringsIs ==
  ASSUME NEW v \in FitStrings
  PROVE  v \in Seq(Str) /\ PutStrings(v) = PutAll(v, PutFitString)
<1>1. PICK n \in Nat : /\ v \in Seq(FitString) /\ n = Len(v)
                       /\ DOMAIN v = 1 .. n /\ \A i \in 1 .. n : v[i] \in FitString
  BY LenProperties, ElementOfSeq DEF FitStrings
<1>2. v \in Seq(Str)
  <2>1. v = [i \in 1 .. n |-> v[i]] /\ \A i \in 1 .. n : v[i] \in Str
    BY <1>1 DEF FitString
  <2>2. [i \in 1 .. n |-> v[i]] \in Seq(Str)
    BY <2>1, IsASeq
  <2> QED
    BY <2>1, <2>2
<1>3. Mapped(v, PutFitString) = [i \in DOMAIN v |-> PutString(v[i])]
  BY <1>1, PutFitStringIs DEF Mapped
<1> QED
  BY <1>2, <1>3 DEF PutStrings, PutAll

\* What the reader of strings is.
LEMMA StringsOfIs ==
  ASSUME NEW data \in Str
  PROVE  /\ StringsOf(data) \in [Offset(data) -> Says(data, FitString)]
         /\ \A p \in Offset(data) :
              /\ StringsOf(data)[p] = ReadString(data, p)
              /\ Honest(data, p, StringsOf(data)[p], PutFitString[StringsOf(data)[p].val])
<1>1. \A p \in Offset(data) :
        /\ ReadString(data, p).val \in FitString
        /\ Honest(data, p, ReadString(data, p), PutString(ReadString(data, p).val))
  BY ReadStringIs DEF FitString
<1>2. \A p \in Offset(data) : ReadString(data, p) \in Says(data, FitString)
  <2> TAKE p \in Offset(data)
  <2>1. PICK r : r = ReadString(data, p)
    OBVIOUS
  <2>2. r.val \in FitString /\ r.ok \in BOOLEAN /\ r.off \in Offset(data)
    BY <1>1, <2>1 DEF Honest
  <2>3. r = [ok |-> r.ok, val |-> r.val, off |-> r.off]
    BY <2>1 DEF ReadString
  <2> QED
    BY <2>1, <2>2, <2>3 DEF Says
<1> QED
  BY <1>1, <1>2, PutFitStringIs DEF StringsOf

\* A list of strings that stands at an offset is read there when its lengths fit.
LEMMA StringsAt ==
  ASSUME NEW data \in Str, NEW o, NEW v \in FitStrings, At(data, o, PutStrings(v))
  PROVE  ReadMany(StringsOf(data), data, o) = Found(PutStrings(v), v, o)
<1>1. v \in Seq(FitString) /\ Short(v)
  BY DEF FitStrings
<1>2. PICK n \in Nat : DOMAIN v = 1 .. n /\ \A i \in 1 .. n : v[i] \in FitString
  BY <1>1, LenProperties, ElementOfSeq
<1>3. ASSUME NEW i \in DOMAIN v, NEW p \in Offset(data), At(data, p, PutFitString[v[i]])
      PROVE  StringsOf(data)[p] = Found(PutFitString[v[i]], v[i], p)
  <2>1. PICK s \in Str : s = v[i] /\ s \in FitString /\ Short(s)
    BY <1>2 DEF FitString
  <2>2. At(data, p, PutString(s)) /\ PutFitString[v[i]] = PutString(s)
    BY <1>3, <2>1, PutFitStringIs
  <2>3. ReadString(data, p) = Found(PutString(s), s, p)
    BY <2>1, <2>2, ReadStringAt
  <2> QED
    BY <2>1, <2>2, <2>3, StringsOfIs
<1>4. PutStrings(v) = PutAll(v, PutFitString)
  BY PutStringsIs
<1>5. PICK read \in [Offset(data) -> Says(data, FitString)] : read = StringsOf(data)
  BY StringsOfIs
<1>6. PICK put \in [FitString -> Str] : put = PutFitString
  BY PutFitStringIs
<1>7. \A i \in DOMAIN v, p \in Offset(data) :
        At(data, p, put[v[i]]) => read[p] = Found(put[v[i]], v[i], p)
  BY <1>3, <1>5, <1>6
<1>8. At(data, o, PutAll(v, put))
  BY <1>4, <1>6
<1>9. ReadMany(read, data, o) = Found(PutAll(v, put), v, o)
  BY <1>1, <1>7, <1>8, ReadManyAt
<1> QED
  BY <1>4, <1>5, <1>6, <1>9

\* A list of strings that is read stands there.
LEMMA StringsAre ==
  ASSUME NEW data \in Str, NEW o \in Offset(data)
  PROVE  LET r == ReadMany(StringsOf(data), data, o)
         IN r.val \in FitStrings /\ Honest(data, o, r, PutStrings(r.val))
<1>1. PICK r : r = ReadMany(StringsOf(data), data, o)
  OBVIOUS
<1>2. PICK read \in [Offset(data) -> Says(data, FitString)] :
         read = StringsOf(data) /\ \A p \in Offset(data) : Honest(data, p, read[p], PutFitString[read[p].val])
  BY StringsOfIs
<1>3. r.val \in Seq(FitString) /\ Short(r.val) /\ Honest(data, o, r, PutAll(r.val, PutFitString))
  <2>1. PICK put \in [FitString -> Str] : put = PutFitString /\ \A s \in FitString : Len(put[s]) > 0
    BY PutFitStringIs
  <2>2. \A p \in Offset(data) : Honest(data, p, read[p], put[read[p].val])
    BY <1>2, <2>1
  <2>3. LET q == ReadMany(read, data, o)
        IN q.val \in Seq(FitString) /\ Short(q.val) /\ Honest(data, o, q, PutAll(q.val, put))
    BY <2>1, <2>2, ReadManyIs
  <2> QED
    BY <1>1, <1>2, <2>1, <2>3
<1>4. r.val \in FitStrings
  BY <1>3 DEF FitStrings
<1>5. PutStrings(r.val) = PutAll(r.val, PutFitString)
  BY <1>4, PutStringsIs
<1> QED
  BY <1>1, <1>3, <1>4, <1>5

-----------------------------------------------------------------------------
(* The fields of a token, written and read *)

\* What may be in a field, its lengths written whole.
FitField(f, v) ==
  /\ Typed(f, v)
  /\ f \in StringFields => v \in FitString
  /\ f \in ListFields => v \in FitStrings

FieldValue == Str \cup Seq(Str) \cup Word

\* Every field is a string, a list or a word.
LEMMA KindsOfFields ==
  ASSUME NEW f \in Fields
  PROVE  /\ f \in StringFields \/ f \in ListFields \/ f \notin StringFields \cup ListFields
         /\ f \in StringFields => f \notin ListFields
BY DEF StringFields, ListFields

\* A field is written as a string.
LEMMA PutFieldOf ==
  ASSUME NEW f \in Fields, NEW v, Typed(f, v)
  PROVE  PutField(f, v) \in Str /\ Len(PutField(f, v)) > 0 /\ v \in FieldValue
<1>1. CASE f \in StringFields
  <2>1. v \in Str /\ Len(v) \in Nat
    BY <1>1, StrFacts DEF Typed
  <2>2. PutField(f, v) = PutString(v)
    BY <1>1 DEF PutField, StringFields, ListFields
  <2> QED
    BY <2>1, <2>2, PutStringOf DEF FieldValue
<1>2. CASE f \in ListFields
  <2>1. v \in Seq(Str)
    BY <1>2 DEF Typed
  <2>2. PutField(f, v) = PutStrings(v)
    BY <1>2 DEF PutField, PutStrings, StringFields, ListFields
  <2> QED
    BY <2>1, <2>2, PutStringsOf DEF FieldValue
<1>3. CASE f \notin StringFields \cup ListFields
  <2>1. v \in Word
    BY <1>3 DEF Typed
  <2>2. PutField(f, v) = <<v>>
    BY <1>3 DEF PutField
  <2> QED
    BY <2>1, <2>2, StrOf DEF FieldValue
<1> QED
  BY <1>1, <1>2, <1>3

\* A field that stands at an offset is read there when its lengths fit.
LEMMA ReadFieldAt ==
  ASSUME NEW data \in Str, NEW o, NEW f \in Fields, NEW v, FitField(f, v), At(data, o, PutField(f, v))
  PROVE  ReadField(f, data, o) = Found(PutField(f, v), v, o)
<1>1. CASE f \in StringFields
  <2>1. v \in Str /\ Short(v)
    BY <1>1 DEF FitField, FitString
  <2>2. PutField(f, v) = PutString(v) /\ ReadField(f, data, o) = ReadString(data, o)
    BY <1>1 DEF PutField, ReadField, StringFields, ListFields
  <2> QED
    BY <2>1, <2>2, ReadStringAt
<1>2. CASE f \in ListFields
  <2>1. v \in FitStrings
    BY <1>2 DEF FitField
  <2>2. PutField(f, v) = PutStrings(v) /\ ReadField(f, data, o) = ReadMany(StringsOf(data), data, o)
    BY <1>2 DEF PutField, PutStrings, ReadField, StringsOf, StringFields, ListFields
  <2> QED
    BY <2>1, <2>2, StringsAt
<1>3. CASE f \notin StringFields \cup ListFields
  <2>1. v \in Word
    BY <1>3 DEF FitField, Typed
  <2>2. PutField(f, v) = <<v>> /\ ReadField(f, data, o) = ReadWord(data, o)
    BY <1>3 DEF PutField, ReadField
  <2>3. Len(<<v>>) = 1
    OBVIOUS
  <2> QED
    BY <2>1, <2>2, <2>3, ReadWordAt DEF Found
<1> QED
  BY <1>1, <1>2, <1>3

\* A field that is read stands there.
LEMMA ReadFieldIs ==
  ASSUME NEW data \in Str, NEW o \in Offset(data), NEW f \in Fields
  PROVE  LET r == ReadField(f, data, o)
         IN /\ FitField(f, r.val) /\ Honest(data, o, r, PutField(f, r.val))
            /\ r.ok \in BOOLEAN /\ r.off \in Offset(data) /\ r.val \in FieldValue
<1>1. PICK r : r = ReadField(f, data, o)
  OBVIOUS
<1>2. FitField(f, r.val) /\ Honest(data, o, r, PutField(f, r.val))
  <2>1. CASE f \in StringFields
    <3>1. r = ReadString(data, o)
      BY <1>1, <2>1 DEF ReadField, StringFields, ListFields
    <3>2. r.val \in FitString /\ Honest(data, o, r, PutString(r.val))
      BY <3>1, ReadStringIs DEF FitString
    <3>3. PutField(f, r.val) = PutString(r.val)
      BY <2>1 DEF PutField, StringFields, ListFields
    <3>4. FitField(f, r.val)
      BY <2>1, <3>2 DEF FitField, FitString, Typed, StringFields, ListFields
    <3> QED
      BY <3>2, <3>3, <3>4
  <2>2. CASE f \in ListFields
    <3>1. r = ReadMany(StringsOf(data), data, o)
      BY <1>1, <2>2 DEF ReadField, StringsOf, StringFields, ListFields
    <3>2. r.val \in FitStrings /\ Honest(data, o, r, PutStrings(r.val))
      BY <3>1, StringsAre
    <3>3. PutField(f, r.val) = PutStrings(r.val)
      BY <2>2 DEF PutField, PutStrings, StringFields, ListFields
    <3>4. r.val \in Seq(Str)
      BY <3>2, PutStringsIs
    <3>5. FitField(f, r.val)
      BY <2>2, <3>2, <3>4 DEF FitField, Typed, StringFields, ListFields
    <3> QED
      BY <3>2, <3>3, <3>5
  <2>3. CASE f \notin StringFields \cup ListFields
    <3>1. r = ReadWord(data, o)
      BY <1>1, <2>3 DEF ReadField
    <3>2. r.val \in Word /\ Honest(data, o, r, <<r.val>>)
      BY <3>1, ReadWordIs
    <3>3. PutField(f, r.val) = <<r.val>>
      BY <2>3 DEF PutField
    <3>4. FitField(f, r.val)
      BY <2>3, <3>2 DEF FitField, Typed
    <3> QED
      BY <3>2, <3>3, <3>4
  <2> QED
    BY <2>1, <2>2, <2>3
<1>3. r.val \in FieldValue
  BY <1>2, PutFieldOf DEF FitField
<1> QED
  BY <1>1, <1>2, <1>3 DEF Honest

\* The offset at which the fields begin.
BodyOf(data) == ReadWord(data, ReadWord(data, 1).off)

\* Every field of a payload is read where the one before ended.
Steps(data, offs, vals) ==
  /\ offs[0] = BodyOf(data).off
  /\ \A k \in 1 .. 13 : LET r == ReadField(Layout[k], data, offs[k - 1])
                        IN offs[k] = r.off /\ vals[k] = r.val

\* The payload is read in thirteen steps.
LEMMA PayloadSteps ==
  ASSUME NEW data \in Str
  PROVE  \E offs \in [0 .. 13 -> Offset(data)], vals \in [1 .. 13 -> FieldValue] :
           /\ Steps(data, offs, vals)
           /\ DecodePayload(data).val = vals /\ DecodePayload(data).off = offs[13]
           /\ DecodePayload(data).ok <=>
                /\ ReadWord(data, 1).val = TokenMagic /\ BodyOf(data).val = 1
                /\ \A k \in 1 .. 13 : ReadField(Layout[k], data, offs[k - 1]).ok
<1>1. PICK magic, version : magic = ReadWord(data, 1) /\ version = ReadWord(data, magic.off)
                            /\ version = BodyOf(data)
  BY DEF BodyOf
<1>2. PICK V : V = Says(data, Seq(FieldValue))
  OBVIOUS
<1>3. PICK a \in V : a = [ok |-> magic.val = TokenMagic /\ version.val = 1, val |-> <<>>, off |-> version.off]
  <2>1. version.off \in Offset(data)
    <3>1. 1 \in Offset(data)
      BY StrFacts DEF Offset
    <3>2. magic.off \in Offset(data)
      BY <1>1, <3>1, ReadWordIs DEF Honest
    <3> QED
      BY <1>1, <3>2, ReadWordIs DEF Honest
  <2>2. <<>> \in Seq(FieldValue)
    OBVIOUS
  <2>3. (magic.val = TokenMagic /\ version.val = 1) \in BOOLEAN
    OBVIOUS
  <2> QED
    BY <1>2, <2>1, <2>2, <2>3 DEF Says
<1>4. ASSUME NEW k \in 1 .. 13, NEW v \in V
      PROVE  More(v, ReadField(Layout[k], data, v.off)) \in V
  <2>1. v.off \in Offset(data) /\ v.ok \in BOOLEAN /\ v.val \in Seq(FieldValue)
    BY <1>2 DEF Says
  <2>2. PICK one : one = ReadField(Layout[k], data, v.off)
    OBVIOUS
  <2>3. one.ok \in BOOLEAN /\ one.val \in FieldValue /\ one.off \in Offset(data)
    BY <2>1, <2>2, FieldsAre, ReadFieldIs
  <2>4. Append(v.val, one.val) \in Seq(FieldValue) /\ (v.ok /\ one.ok) \in BOOLEAN
    BY <2>1, <2>3
  <2> QED
    BY <1>2, <2>2, <2>3, <2>4 DEF More, Says
<1>5. PICK next \in [(1 .. 13) \X V -> V] :
             \A k \in 1 .. 13, v \in V : next[<<k, v>>] = More(v, ReadField(Layout[k], data, v.off))
  <2> DEFINE next == [p \in (1 .. 13) \X V |-> More(p[2], ReadField(Layout[p[1]], data, p[2].off))]
  <2>1. next \in [(1 .. 13) \X V -> V]
        /\ \A k \in 1 .. 13, v \in V : next[<<k, v>>] = More(v, ReadField(Layout[k], data, v.off))
    BY <1>4
  <2> HIDE DEF next
  <2> QED
    BY <2>1
<1>6. PICK h \in [0 .. 13 -> V] :
        h[0] = a /\ \A k \in 1 .. 13 : h[k] = More(h[k - 1], ReadField(Layout[k], data, h[k - 1].off))
  <2>1. PICK h : Follows(h, 13, V, a, next)
    BY Recursion
  <2>2. h \in [0 .. 13 -> V] /\ h[0] = a
    BY <2>1 DEF Follows
  <2>3. \A k \in 1 .. 13 : h[k] = More(h[k - 1], ReadField(Layout[k], data, h[k - 1].off))
    <3> TAKE k \in 1 .. 13
    <3>1. k - 1 \in 0 .. 13
      OBVIOUS
    <3>2. h[k - 1] \in V
      BY <2>2, <3>1
    <3>3. h[k] = next[<<k, h[k - 1]>>]
      BY <2>1 DEF Follows
    <3> QED
      BY <1>5, <3>2, <3>3
  <2> QED
    BY <2>2, <2>3
<1> DEFINE Stepped(g) ==
             [k \in 0 .. Len(Layout) |->
                IF k = 0 THEN [ok |-> magic.val = TokenMagic /\ version.val = 1, val |-> <<>>,
                               off |-> version.off]
                ELSE LET before == g[k - 1]
                         one == ReadField(Layout[k], data, before.off)
                     IN [ok |-> before.ok /\ one.ok, val |-> Append(before.val, one.val),
                         off |-> one.off]]
           g == CHOOSE g : g = Stepped(g)
<1>7. h = Stepped(h)
  <2>1. \A k \in 0 .. 13 : h[k] = IF k = 0 THEN a
                                  ELSE More(h[k - 1], ReadField(Layout[k], data, h[k - 1].off))
    BY <1>6
  <2> QED
    BY ZenonT(30), <1>3, <2>1, FieldsAre DEF More
<1>8. g = Stepped(g)
  BY <1>7
<1>9. DecodePayload(data) = g[Len(Layout)]
  BY <1>1 DEF DecodePayload
<1> HIDE DEF g
<1>10. \A k \in 0 .. 13 : g[k] = IF k = 0 THEN a
                                 ELSE More(g[k - 1], ReadField(Layout[k], data, g[k - 1].off))
  BY <1>3, <1>8, FieldsAre DEF More
<1> DEFINE S == {k \in 0 .. 13 :
                   /\ g[k] = h[k] /\ Len(h[k].val) = k
                   /\ \A i \in 1 .. k : h[k].val[i] = ReadField(Layout[i], data, h[i - 1].off).val
                   /\ h[k].ok <=> a.ok /\ \A i \in 1 .. k : ReadField(Layout[i], data, h[i - 1].off).ok}
<1>11. 0 \in S
  <2>1. g[0] = a /\ h[0] = a /\ a.val = <<>> /\ Len(<<>>) = 0
    BY <1>3, <1>6, <1>10
  <2> QED
    BY <2>1
<1>12. ASSUME NEW k \in Nat, k \in S, k < 13 PROVE k + 1 \in S
  <2>1. k + 1 \in 1 .. 13 /\ k + 1 \in 0 .. 13 /\ k + 1 # 0 /\ (k + 1) - 1 = k /\ k \in 0 .. 13
    BY <1>12
  <2>2. PICK v \in V : v = h[k] /\ v = g[k]
    BY <1>6, <1>12, <2>1
  <2>3. PICK one : one = ReadField(Layout[k + 1], data, v.off)
    OBVIOUS
  <2>4. v.off \in Offset(data) /\ v.val \in Seq(FieldValue) /\ Len(v.val) = k
    BY <1>2, <1>12, <2>2 DEF Says
  <2>5. one.val \in FieldValue
    BY <2>1, <2>3, <2>4, FieldsAre, ReadFieldIs
  <2>6. h[k + 1] = More(v, one) /\ g[k + 1] = More(v, one)
    <3>1. h[k + 1] = More(h[(k + 1) - 1], ReadField(Layout[k + 1], data, h[(k + 1) - 1].off))
      BY <1>6, <2>1
    <3>2. g[k + 1] = More(g[(k + 1) - 1], ReadField(Layout[k + 1], data, g[(k + 1) - 1].off))
      BY <1>10, <2>1
    <3> QED
      BY <2>1, <2>2, <2>3, <3>1, <3>2
  <2>7. PICK longer : longer = Append(v.val, one.val)
    OBVIOUS
  <2>8. Len(longer) = k + 1 /\ longer[k + 1] = one.val /\ \A i \in 1 .. k : longer[i] = v.val[i]
    BY <2>4, <2>5, <2>7, AppendProperties
  <2>9. h[k + 1].val = longer /\ h[k + 1].ok = (v.ok /\ one.ok)
    BY <2>6, <2>7 DEF More
  <2>10. one = ReadField(Layout[k + 1], data, h[(k + 1) - 1].off)
    BY <2>1, <2>2, <2>3
  <2>11. \A i \in 1 .. k + 1 : longer[i] = ReadField(Layout[i], data, h[i - 1].off).val
    <3> TAKE i \in 1 .. k + 1
    <3>1. CASE i = k + 1
      BY <2>8, <2>10, <3>1
    <3>2. CASE i \in 1 .. k
      BY <1>12, <2>2, <2>8, <3>2
    <3> QED
      BY <3>1, <3>2
  <2>12. (v.ok /\ one.ok) <=> a.ok /\ \A i \in 1 .. k + 1 : ReadField(Layout[i], data, h[i - 1].off).ok
    <3>1. v.ok <=> a.ok /\ \A i \in 1 .. k : ReadField(Layout[i], data, h[i - 1].off).ok
      BY <1>12, <2>2
    <3>2. \A i \in 1 .. k + 1 : i \in 1 .. k \/ i = k + 1
      OBVIOUS
    <3>3. k + 1 \in 1 .. k + 1 /\ \A i \in 1 .. k : i \in 1 .. k + 1
      BY <2>1
    <3> QED
      BY <2>10, <3>1, <3>2, <3>3
  <2> QED
    BY <2>1, <2>6, <2>8, <2>9, <2>11, <2>12
<1>13. 13 \in S
  <2> HIDE DEF S
  <2>1. \A k \in 0 .. 13 : k \in S
    BY <1>11, <1>12, BoundedInduction
  <2> QED
    BY <2>1
<1>14. PICK offs \in [0 .. 13 -> Offset(data)] : \A k \in 0 .. 13 : offs[k] = h[k].off
  <2>1. \A k \in 0 .. 13 : h[k].off \in Offset(data)
    BY <1>2, <1>6 DEF Says
  <2>2. [k \in 0 .. 13 |-> h[k].off] \in [0 .. 13 -> Offset(data)]
    BY <2>1
  <2> QED
    BY <2>2
<1>15. PICK vals : vals = h[13].val
  OBVIOUS
<1>16. vals \in [1 .. 13 -> FieldValue]
  <2>1. h[13] \in V
    BY <1>6
  <2>2. vals \in Seq(FieldValue) /\ Len(vals) = 13
    BY <1>2, <1>13, <1>15, <2>1 DEF Says
  <2>3. DOMAIN vals = 1 .. 13 /\ \A i \in 1 .. 13 : vals[i] \in FieldValue
    BY <2>2, LenProperties, ElementOfSeq
  <2>4. vals = [i \in 1 .. 13 |-> vals[i]]
    BY <2>2, <2>3
  <2> QED
    BY <2>3, <2>4
<1>17. DecodePayload(data) = h[13]
  BY <1>9, <1>13, FieldsAre
<1>18. \A k \in 1 .. 13 : k - 1 \in 0 .. 13 /\ k \in 0 .. 13
  OBVIOUS
<1>19. \A k \in 1 .. 13 : /\ ReadField(Layout[k], data, offs[k - 1]) = ReadField(Layout[k], data, h[k - 1].off)
                          /\ offs[k] = ReadField(Layout[k], data, h[k - 1].off).off
                          /\ vals[k] = ReadField(Layout[k], data, h[k - 1].off).val
  <2> TAKE k \in 1 .. 13
  <2>1. offs[k - 1] = h[k - 1].off /\ offs[k] = h[k].off
    BY <1>14, <1>18
  <2>2. h[k] = More(h[k - 1], ReadField(Layout[k], data, h[k - 1].off))
    BY <1>6
  <2>3. h[k].off = ReadField(Layout[k], data, h[k - 1].off).off
    BY <2>2 DEF More
  <2> QED
    BY <1>13, <1>15, <2>1, <2>3
<1>20. Steps(data, offs, vals)
  <2>1. offs[0] = BodyOf(data).off
    BY <1>1, <1>3, <1>6, <1>14
  <2> QED
    BY <1>19, <2>1 DEF Steps
<1>21. DecodePayload(data).ok <=> /\ ReadWord(data, 1).val = TokenMagic /\ BodyOf(data).val = 1
                                  /\ \A k \in 1 .. 13 : ReadField(Layout[k], data, offs[k - 1]).ok
  <2>1. h[13].ok <=> a.ok /\ \A i \in 1 .. 13 : ReadField(Layout[i], data, h[i - 1].off).ok
    BY <1>13
  <2>2. a.ok <=> magic.val = TokenMagic /\ version.val = 1
    BY <1>3
  <2> QED
    BY <1>1, <1>17, <1>19, <2>1, <2>2
<1>22. DecodePayload(data).val = vals /\ DecodePayload(data).off = offs[13]
  BY <1>14, <1>15, <1>17
<1> QED
  BY <1>14, <1>16, <1>20, <1>21, <1>22

-----------------------------------------------------------------------------
(* Tokens, written and read *)

\* The tokens whose lengths are written whole.
FitToken(t) ==
  IsToken(t) /\ Short(t.signature) /\ \A f \in Fields : FitField(f, t[f])

\* The fields of a token, as they are written.
FieldsOf(t) == [i \in 1 .. 13 |-> PutField(Layout[i], t[Layout[i]])]

\* What is written of a token.
LEMMA PayloadOf ==
  ASSUME NEW t, IsToken(t)
  PROVE  /\ FieldsOf(t) \in Seq(Str) /\ Len(FieldsOf(t)) = 13 /\ FlattenSeq(FieldsOf(t)) \in Str
         /\ \A k \in 1 .. 13 : FieldsOf(t)[k] = PutField(Layout[k], t[Layout[k]])
         /\ <<TokenMagic, 1>> \in Str /\ Len(<<TokenMagic, 1>>) = 2
         /\ Payload(t) = <<TokenMagic, 1>> \o FlattenSeq(FieldsOf(t)) /\ Payload(t) \in Str
         /\ PutString(t.signature) \in Str
         /\ Encode(t) = Payload(t) \o PutString(t.signature) /\ Encode(t) \in Str
<1>1. \A k \in 1 .. 13 : PutField(Layout[k], t[Layout[k]]) \in Str
  BY FieldsAre, PutFieldOf DEF IsToken
<1>2. PICK w \in Seq(Str) : w = FieldsOf(t) /\ Len(w) = 13
  <2>1. PICK n \in Nat : n = 13
    OBVIOUS
  <2>2. [k \in 1 .. n |-> PutField(Layout[k], t[Layout[k]])] \in Seq(Str)
    BY <1>1, <2>1, IsASeq
  <2>3. PICK w \in Seq(Str) : w = [k \in 1 .. n |-> PutField(Layout[k], t[Layout[k]])]
    BY <2>2
  <2>4. Len(w) = n
    BY <2>3, LenProperties
  <2> QED
    BY <2>1, <2>3, <2>4 DEF FieldsOf
<1>3. PICK flat \in Str : flat = FlattenSeq(w)
  <2>1. <<>> \in Str
    BY StrOf
  <2> QED
    BY <2>1, FlattenAppend
<1>4. PICK s \in Str : s = <<TokenMagic, 1>> /\ Len(s) = 2
  BY TokenAssumption, SmallWords, TwoOf
<1>5. Payload(t) = s \o flat
  BY <1>2, <1>3, <1>4, FieldsAre DEF Payload, FieldsOf
<1>6. s \o flat \in Str
  BY StrOf
<1>7. PutString(t.signature) \in Str
  BY PutStringOf DEF IsToken
<1>8. Encode(t) = Payload(t) \o PutString(t.signature)
  BY DEF Encode
<1>9. Payload(t) \o PutString(t.signature) \in Str
  BY <1>5, <1>6, <1>7, StrOf
<1>10. \A k \in 1 .. 13 : FieldsOf(t)[k] = PutField(Layout[k], t[Layout[k]])
  BY DEF FieldsOf
<1> QED
  BY <1>2, <1>3, <1>4, <1>5, <1>6, <1>7, <1>8, <1>9, <1>10

\* The fields of a token that stands at the beginning are read there.
LEMMA PayloadAt ==
  ASSUME NEW data \in Str, NEW t, FitToken(t), At(data, 1, Payload(t))
  PROVE  /\ DecodePayload(data).ok /\ DecodePayload(data).off = 1 + Len(Payload(t))
         /\ \A k \in 1 .. 13 : DecodePayload(data).val[k] = t[Layout[k]]
<1>1. PICK w \in Seq(Str) : /\ w = FieldsOf(t) /\ Len(w) = 13
                            /\ \A k \in 1 .. 13 : w[k] = PutField(Layout[k], t[Layout[k]])
  BY PayloadOf DEF FitToken
<1>2. PICK flat \in Str : flat = FlattenSeq(w)
  BY <1>1, PayloadOf DEF FitToken
<1>3. PICK s \in Str : s = <<TokenMagic, 1>> /\ Len(s) = 2 /\ Payload(t) = s \o flat
  BY <1>1, <1>2, PayloadOf DEF FitToken
<1>4. At(data, 1, s) /\ At(data, 1 + 2, flat)
  <2>1. At(data, 1, s \o flat)
    BY <1>3
  <2>2. At(data, 1, s) /\ At(data, 1 + Len(s), flat)
    BY <2>1, AtConcat
  <2> QED
    BY <1>3, <2>2
<1>5. At(data, 1, <<TokenMagic>>) /\ At(data, 1 + 1, <<1>>)
  BY <1>3, <1>4, TokenAssumption, SmallWords, TwoAt
<1>6. ReadWord(data, 1).val = TokenMagic /\ BodyOf(data).val = 1 /\ BodyOf(data).off = 3
  <2>1. ReadWord(data, 1).val = TokenMagic /\ ReadWord(data, 1).off = 2
    BY <1>5, ReadWordAt
  <2>2. BodyOf(data) = ReadWord(data, 2)
    BY <2>1 DEF BodyOf
  <2> QED
    BY <1>5, <2>1, <2>2, ReadWordAt
<1>7. PICK laid : Laid(data, laid, w) /\ laid[0] = 3
  BY <1>2, <1>4, FlatAt
<1>8. /\ laid \in [0 .. 13 -> Offset(data)]
      /\ \A k \in 1 .. 13 : At(data, laid[k - 1], w[k]) /\ laid[k] = laid[k - 1] + Len(w[k])
  BY <1>1, <1>7 DEF Laid
<1>9. \A k \in 1 .. 13 : /\ ReadField(Layout[k], data, laid[k - 1]).ok
                         /\ ReadField(Layout[k], data, laid[k - 1]).val = t[Layout[k]]
                         /\ ReadField(Layout[k], data, laid[k - 1]).off = laid[k]
  <2> TAKE k \in 1 .. 13
  <2>1. PICK f \in Fields : f = Layout[k] /\ FitField(f, t[f])
    BY FieldsAre DEF FitToken
  <2>2. At(data, laid[k - 1], PutField(f, t[f])) /\ laid[k] = laid[k - 1] + Len(PutField(f, t[f]))
    BY <1>1, <1>8, <2>1
  <2>3. PICK v, p : v = t[f] /\ p = laid[k - 1]
    OBVIOUS
  <2>4. ReadField(f, data, p) = Found(PutField(f, v), v, p)
    BY <2>1, <2>2, <2>3, ReadFieldAt
  <2> QED
    BY <2>1, <2>2, <2>3, <2>4 DEF Found
<1>10. PICK offs \in [0 .. 13 -> Offset(data)], vals \in [1 .. 13 -> FieldValue] :
         /\ Steps(data, offs, vals)
         /\ DecodePayload(data).val = vals /\ DecodePayload(data).off = offs[13]
         /\ DecodePayload(data).ok <=>
              /\ ReadWord(data, 1).val = TokenMagic /\ BodyOf(data).val = 1
              /\ \A k \in 1 .. 13 : ReadField(Layout[k], data, offs[k - 1]).ok
  BY PayloadSteps
<1>11. \A k \in 0 .. 13 : offs[k] = laid[k]
  <2> DEFINE S == {k \in 0 .. 13 : offs[k] = laid[k]}
  <2>1. 0 \in S
    BY <1>6, <1>7, <1>10 DEF Steps
  <2>2. ASSUME NEW k \in Nat, k \in S, k < 13 PROVE k + 1 \in S
    <3>1. k + 1 \in 1 .. 13 /\ (k + 1) - 1 = k /\ k + 1 \in 0 .. 13 /\ offs[k] = laid[k]
      BY <2>2
    <3>2. offs[k + 1] = ReadField(Layout[k + 1], data, offs[(k + 1) - 1]).off
      BY <1>10, <3>1 DEF Steps
    <3>3. laid[k + 1] = ReadField(Layout[k + 1], data, laid[(k + 1) - 1]).off
      BY <1>9, <3>1
    <3> QED
      BY <3>1, <3>2, <3>3
  <2> HIDE DEF S
  <2>3. \A k \in 0 .. 13 : k \in S
    BY <2>1, <2>2, BoundedInduction
  <2> QED
    BY <2>3 DEF S
<1>12. \A k \in 1 .. 13 : offs[k - 1] = laid[k - 1]
  BY <1>11
<1>13. \A k \in 1 .. 13 : vals[k] = t[Layout[k]] /\ ReadField(Layout[k], data, offs[k - 1]).ok
  <2> TAKE k \in 1 .. 13
  <2>1. vals[k] = ReadField(Layout[k], data, offs[k - 1]).val
    BY <1>10 DEF Steps
  <2>2. offs[k - 1] = laid[k - 1]
    BY <1>12
  <2>3. ReadField(Layout[k], data, laid[k - 1]).ok /\ ReadField(Layout[k], data, laid[k - 1]).val = t[Layout[k]]
    BY <1>9
  <2> QED
    BY <2>1, <2>2, <2>3
<1>14. laid[13] = 3 + Len(flat)
  <2>1. laid[Len(w)] = laid[0] + Len(FlattenSeq(w))
    BY <1>7, AtFlat
  <2> QED
    BY <1>1, <1>2, <1>7, <2>1
<1>15. Len(Payload(t)) = 2 + Len(flat) /\ Len(flat) \in Nat
  BY <1>3, StrOf, StrFacts
<1> QED
  BY <1>6, <1>10, <1>11, <1>13, <1>14, <1>15

\* The token that is made of thirteen values and a signature.
LEMMA TokenOfIs ==
  ASSUME NEW vals, NEW signature
  PROVE  LET t == TokenOf(vals, signature)
         IN /\ t = [f \in Fields \cup {"signature"} |-> t[f]] /\ t.signature = signature
            /\ \A k \in 1 .. 13 : t[Layout[k]] = vals[k]
<1> DEFINE t == TokenOf(vals, signature)
<1>2. t = [f \in Fields \cup {"signature"} |->
            IF f = "signature" THEN signature ELSE vals[CHOOSE i \in DOMAIN Layout : Layout[i] = f]]
  BY DEF TokenOf, Fields
<1> HIDE DEF t
<1>3. t.signature = signature
  BY <1>2
<1>4. \A k \in 1 .. 13 : t[Layout[k]] = vals[k]
  <2> TAKE k \in 1 .. 13
  <2>1. Layout[k] \in Fields /\ Layout[k] # "signature" /\ k \in DOMAIN Layout
    BY FieldsAre
  <2>2. (CHOOSE i \in DOMAIN Layout : Layout[i] = Layout[k]) = k
    BY <2>1, FieldsAre
  <2> QED
    BY <1>2, <2>1, <2>2
<1>5. t = [f \in Fields \cup {"signature"} |-> t[f]]
  BY <1>2
<1> QED
  BY <1>3, <1>4, <1>5 DEF t

\* It is the only one with these values.
LEMMA TokenOfOnly ==
  ASSUME NEW u, IsToken(u), NEW vals, \A k \in 1 .. 13 : u[Layout[k]] = vals[k]
  PROVE  u = TokenOf(vals, u.signature)
<1>1. PICK t : t = TokenOf(vals, u.signature)
  OBVIOUS
<1>2. /\ t = [f \in Fields \cup {"signature"} |-> t[f]] /\ t.signature = u.signature
      /\ \A k \in 1 .. 13 : t[Layout[k]] = vals[k]
  BY <1>1, TokenOfIs
<1>3. u = [f \in Fields \cup {"signature"} |-> u[f]]
  BY DEF IsToken
<1>4. \A f \in Fields : u[f] = t[f]
  <2> TAKE f \in Fields
  <2>1. PICK k \in 1 .. 13 : f = Layout[k]
    BY FieldsAre DEF Fields
  <2> QED
    BY <1>2, <2>1
<1>5. \A f \in Fields \cup {"signature"} : u[f] = t[f]
  BY <1>2, <1>4
<1>6. u = t
  BY <1>2, <1>3, <1>5
<1> QED
  BY <1>1, <1>6

\* The fields that are read stand at the beginning.
LEMMA PayloadIs ==
  ASSUME NEW data \in Str, DecodePayload(data).ok, NEW signature \in Str, Short(signature)
  PROVE  LET t == TokenOf(DecodePayload(data).val, signature)
         IN /\ FitToken(t) /\ At(data, 1, Payload(t))
            /\ DecodePayload(data).off = 1 + Len(Payload(t)) /\ DecodePayload(data).off \in Offset(data)
<1>1. PICK offs \in [0 .. 13 -> Offset(data)], vals \in [1 .. 13 -> FieldValue] :
         /\ Steps(data, offs, vals)
         /\ DecodePayload(data).val = vals /\ DecodePayload(data).off = offs[13]
         /\ DecodePayload(data).ok <=>
              /\ ReadWord(data, 1).val = TokenMagic /\ BodyOf(data).val = 1
              /\ \A k \in 1 .. 13 : ReadField(Layout[k], data, offs[k - 1]).ok
  BY PayloadSteps
<1>2. PICK t : t = TokenOf(vals, signature)
  OBVIOUS
<1>3. /\ t = [f \in Fields \cup {"signature"} |-> t[f]] /\ t.signature = signature
      /\ \A k \in 1 .. 13 : t[Layout[k]] = vals[k]
  BY <1>2, TokenOfIs
<1>4. ASSUME NEW k \in 1 .. 13
      PROVE  /\ FitField(Layout[k], t[Layout[k]])
             /\ At(data, offs[k - 1], PutField(Layout[k], t[Layout[k]]))
             /\ offs[k] = offs[k - 1] + Len(PutField(Layout[k], t[Layout[k]]))
  <2>1. PICK f \in Fields : f = Layout[k]
    BY FieldsAre
  <2>2. PICK p \in Offset(data) : p = offs[k - 1]
    OBVIOUS
  <2>3. PICK r : r = ReadField(f, data, p)
    OBVIOUS
  <2>4. FitField(f, r.val) /\ Honest(data, p, r, PutField(f, r.val))
    BY <2>3, ReadFieldIs
  <2>5. r.ok /\ vals[k] = r.val /\ offs[k] = r.off
    BY <1>1, <2>1, <2>2, <2>3 DEF Steps
  <2> QED
    BY <1>3, <2>1, <2>2, <2>4, <2>5 DEF Honest
<1>5. FitToken(t)
  <2>1. \A f \in Fields : FitField(f, t[f])
    <3> TAKE f \in Fields
    <3>1. PICK k \in 1 .. 13 : f = Layout[k]
      BY FieldsAre DEF Fields
    <3> QED
      BY <1>4, <3>1
  <2> QED
    BY <1>3, <2>1 DEF FitToken, IsToken, FitField
<1>6. PICK w \in Seq(Str) : /\ w = FieldsOf(t) /\ Len(w) = 13
                            /\ \A k \in 1 .. 13 : w[k] = PutField(Layout[k], t[Layout[k]])
  BY <1>5, PayloadOf DEF FitToken
<1>7. PICK flat \in Str : flat = FlattenSeq(w)
  BY <1>5, <1>6, PayloadOf DEF FitToken
<1>8. PICK s \in Str : s = <<TokenMagic, 1>> /\ Len(s) = 2 /\ Payload(t) = s \o flat
  BY <1>5, <1>6, <1>7, PayloadOf DEF FitToken
<1>9. Laid(data, offs, w)
  BY <1>4, <1>6 DEF Laid
<1>10. At(data, offs[0], flat) /\ offs[13] = offs[0] + Len(flat)
  BY SMTT(30), <1>6, <1>7, <1>9, AtFlat
<1>11. offs[0] = 3 /\ At(data, 1, s)
  <2>1. PICK magic, version : magic = ReadWord(data, 1) /\ version = ReadWord(data, magic.off)
                              /\ version = BodyOf(data)
    BY DEF BodyOf
  <2>2. magic.val = TokenMagic /\ version.val = 1 /\ offs[0] = version.off
    BY <1>1, <2>1 DEF Steps
  <2>3. magic.off \in DOMAIN data /\ data[magic.off] = 1 /\ version.off = magic.off + 1
    BY <2>1, <2>2 DEF ReadWord
  <2>4. 1 \in DOMAIN data /\ data[1] = TokenMagic /\ magic.off = 2
    <3>1. PICK n \in Nat : n = Len(data) /\ DOMAIN data = 1 .. n
      BY StrFacts
    <3>2. Len(data) + 1 \notin DOMAIN data
      BY <3>1
    <3> QED
      BY <2>1, <2>2, <2>3, <3>2 DEF ReadWord
  <2>5. At(data, 1, <<TokenMagic>>)
    <3>1. 1 \in 1 .. Len(data) /\ Len(data) \in Nat
      BY <2>4, StrFacts
    <3> QED
      BY <2>4, <3>1, AtWord
  <2>6. At(data, 2, <<1>>)
    <3>1. 2 \in 1 .. Len(data) /\ data[2] = 1
      BY <2>3, <2>4, StrFacts
    <3> QED
      BY <3>1, AtWord
  <2>7. At(data, 1 + 1, <<1>>)
    BY <2>6
  <2>8. At(data, 1, s)
    BY <1>8, <2>5, <2>7, TokenAssumption, SmallWords, TwoAt
  <2> QED
    BY <2>2, <2>3, <2>4, <2>8
<1>12. At(data, 1, s \o flat)
  <2>1. At(data, 1 + Len(s), flat)
    BY <1>8, <1>10, <1>11
  <2> QED
    BY <1>11, <2>1, AtConcat
<1>13. Len(Payload(t)) = 2 + Len(flat) /\ Len(flat) \in Nat
  BY <1>8, StrOf, StrFacts
<1>14. offs[13] \in Offset(data)
  OBVIOUS
<1>15. TokenOf(DecodePayload(data).val, signature) = t
  BY <1>1, <1>2
<1>16. DecodePayload(data).off = 1 + Len(Payload(t)) /\ DecodePayload(data).off \in Offset(data)
  BY <1>1, <1>10, <1>11, <1>13, <1>14
<1>17. At(data, 1, Payload(t))
  BY <1>8, <1>12
<1> QED
  BY <1>5, <1>15, <1>16, <1>17

\* A token with all of its fields and a signature is one whose lengths fit.
LEMMA FitTokenIs ==
  ASSUME NEW t, IsToken(t), Len(t.signature) = 1, TokenFits(t)
  PROVE  FitToken(t)
<1>1. Short(t.signature)
  BY WordsAssumption DEF Short
<1>2. \A f \in Fields : FitField(f, t[f])
  <2> TAKE f \in Fields
  <2>1. Typed(f, t[f])
    BY DEF IsToken
  <2>2. ASSUME f \in StringFields PROVE t[f] \in FitString
    BY <2>1, <2>2 DEF Typed, TokenFits, FitString, Short
  <2>3. ASSUME f \in ListFields PROVE t[f] \in FitStrings
    <3>1. PICK v \in Seq(Str) : v = t[f]
      BY <2>1, <2>3 DEF Typed
    <3>2. PICK n \in Nat : n = Len(v) /\ DOMAIN v = 1 .. n /\ \A i \in 1 .. n : v[i] \in Str
      BY LenProperties, ElementOfSeq
    <3>3. Short(v) /\ \A i \in 1 .. n : v[i] \in FitString
      BY <2>3, <3>1, <3>2 DEF TokenFits, FitString, Short
    <3>4. v = [i \in 1 .. n |-> v[i]]
      BY <3>2
    <3>5. [i \in 1 .. n |-> v[i]] \in Seq(FitString)
      BY <3>3, IsASeq
    <3> QED
      BY <3>1, <3>3, <3>4, <3>5 DEF FitStrings
  <2> QED
    BY <2>1, <2>2, <2>3 DEF FitField
<1> QED
  BY <1>1, <1>2 DEF FitToken

\* A token that stands at the beginning is read there, and no other token stands there.
LEMMA TokenAtBeginning ==
  ASSUME NEW data \in Str, NEW t, FitToken(t), At(data, 1, Encode(t))
  PROVE  /\ DecodePayload(data).ok
         /\ LET signature == ReadString(data, DecodePayload(data).off)
            IN /\ signature.ok = TRUE /\ signature.off = 1 + Len(Encode(t))
               /\ TokenOf(DecodePayload(data).val, signature.val) = t
<1>1. PICK s \in Str : s = Payload(t)
  BY PayloadOf DEF FitToken
<1>2. PICK u \in Str : u = PutString(t.signature) /\ Encode(t) = s \o u
  BY <1>1, PayloadOf DEF FitToken
<1>3. At(data, 1, s) /\ At(data, 1 + Len(s), u)
  <2>1. At(data, 1, s \o u)
    BY <1>2
  <2> QED
    BY <2>1, AtConcat
<1>4. PICK p : p = DecodePayload(data)
  OBVIOUS
<1>5. p.ok /\ p.off = 1 + Len(s) /\ \A k \in 1 .. 13 : p.val[k] = t[Layout[k]]
  BY <1>1, <1>3, <1>4, PayloadAt
<1>6. PICK r : r = ReadString(data, p.off)
  OBVIOUS
<1>7. t.signature \in Str /\ Short(t.signature)
  BY DEF FitToken, IsToken
<1>8. r = Found(u, t.signature, p.off)
  BY <1>2, <1>3, <1>5, <1>6, <1>7, ReadStringAt
<1>9. r.ok = TRUE /\ r.val = t.signature /\ r.off = p.off + Len(u)
  BY <1>8 DEF Found
<1>10. Len(Encode(t)) = Len(s) + Len(u) /\ Len(s) \in Nat /\ Len(u) \in Nat
  BY <1>2, StrOf, StrFacts
<1>11. TokenOf(p.val, t.signature) = t
  <2>1. \A k \in 1 .. 13 : t[Layout[k]] = p.val[k]
    BY <1>5
  <2> QED
    BY <2>1, TokenOfOnly DEF FitToken
<1>12. r.off = 1 + Len(Encode(t))
  BY <1>5, <1>9, <1>10
<1> QED
  BY <1>4, <1>5, <1>6, <1>9, <1>11, <1>12

\* A token whose lengths fit is decoded from what is written of it.
LEMMA EncodedTokenIsDecoded ==
  ASSUME NEW t, FitToken(t), Validate(t)
  PROVE  Encode(t) \in Str /\ Decode(Encode(t)).ok /\ Decode(Encode(t)).val = t
<1>1. PICK data \in Str : data = Encode(t)
  BY PayloadOf DEF FitToken
<1>2. At(data, 1, data)
  BY AtWhole
<1>3. PICK p, r : p = DecodePayload(data) /\ r = ReadString(data, p.off)
  OBVIOUS
<1>4. p.ok /\ r.ok /\ r.off = Len(data) + 1 /\ TokenOf(p.val, r.val) = t
  <2>1. p.ok /\ r.ok /\ r.off = 1 + Len(data) /\ TokenOf(p.val, r.val) = t
    BY <1>1, <1>2, <1>3, TokenAtBeginning
  <2> QED
    BY <2>1, StrFacts
<1>5. Decode(data) = [ok |-> /\ p.ok /\ r.ok /\ r.off = Len(data) + 1
                             /\ Validate(TokenOf(p.val, r.val)),
                      val |-> TokenOf(p.val, r.val)]
  BY <1>3 DEF Decode
<1> QED
  BY <1>1, <1>4, <1>5

\* What is decoded to a token is what is written of it.
LEMMA DecodedTokenIsEncoded ==
  ASSUME NEW data \in Str, Decode(data).ok
  PROVE  LET t == Decode(data).val
         IN FitToken(t) /\ Validate(t) /\ data = Encode(t)
<1>1. PICK p, r : p = DecodePayload(data) /\ r = ReadString(data, p.off)
  OBVIOUS
<1>2. PICK t : t = TokenOf(p.val, r.val)
  OBVIOUS
<1>3. Decode(data).ok = (p.ok /\ r.ok /\ r.off = Len(data) + 1 /\ Validate(t)) /\ Decode(data).val = t
  BY <1>1, <1>2 DEF Decode
<1>4. p.ok /\ r.ok /\ r.off = Len(data) + 1 /\ Validate(t) /\ Decode(data).val = t
  BY <1>3
<1>5. p.off \in Offset(data)
  <2>1. <<>> \in Str /\ Short(<<>>)
    BY StrOf, WordsAssumption DEF Short
  <2> QED
    BY <1>1, <1>4, <2>1, PayloadIs
<1>6. r.val \in Str /\ Short(r.val) /\ Honest(data, p.off, r, PutString(r.val))
  BY <1>1, <1>5, ReadStringIs
<1>7. FitToken(t) /\ At(data, 1, Payload(t)) /\ p.off = 1 + Len(Payload(t))
  BY <1>1, <1>2, <1>4, <1>6, PayloadIs
<1>8. t.signature = r.val
  BY <1>2, TokenOfIs
<1>9. PICK s \in Str : s = Payload(t)
  BY <1>7, PayloadOf DEF FitToken
<1>10. PICK u \in Str : u = PutString(r.val) /\ Encode(t) = s \o u /\ Encode(t) \in Str
  BY <1>7, <1>8, <1>9, PayloadOf DEF FitToken
<1>11. At(data, 1 + Len(s), u) /\ r.off = (1 + Len(s)) + Len(u)
  BY <1>4, <1>6, <1>7, <1>9, <1>10 DEF Honest
<1>12. At(data, 1, s \o u)
  BY <1>7, <1>9, <1>11, AtConcat
<1>13. Len(s \o u) = Len(data)
  <2>1. Len(s) \in Nat /\ Len(u) \in Nat /\ Len(data) \in Nat /\ Len(s \o u) = Len(s) + Len(u)
    BY StrOf, StrFacts
  <2> QED
    BY <1>4, <1>11, <2>1
<1>14. data = Encode(t)
  BY <1>10, <1>12, <1>13, AtWhole
<1> QED
  BY <1>4, <1>7, <1>14

\* Two tokens whose lengths fit and that stand at the beginning are one.
LEMMA OneTokenAtBeginning ==
  ASSUME NEW data \in Str, NEW t, FitToken(t), At(data, 1, Encode(t)),
         NEW u, FitToken(u), At(data, 1, Encode(u))
  PROVE  t = u
<1>1. PICK p, r : p = DecodePayload(data) /\ r = ReadString(data, p.off)
  OBVIOUS
<1>2. TokenOf(p.val, r.val) = t
  BY <1>1, TokenAtBeginning
<1>3. TokenOf(p.val, r.val) = u
  BY <1>1, TokenAtBeginning
<1> QED
  BY <1>2, <1>3

\* Two tokens whose lengths fit and that have one payload and one signature are one.
LEMMA PayloadsDiffer ==
  ASSUME NEW t, FitToken(t), NEW u, FitToken(u), Payload(t) = Payload(u), t.signature = u.signature
  PROVE  t = u
<1>1. Encode(t) = Encode(u)
  BY DEF Encode
<1>2. PICK data \in Str : data = Encode(t)
  BY PayloadOf DEF FitToken
<1>3. At(data, 1, Encode(t)) /\ At(data, 1, Encode(u))
  BY <1>1, <1>2, AtWhole
<1> QED
  BY <1>3, OneTokenAtBeginning

-----------------------------------------------------------------------------
(* Tokens as text *)

\* A text that ends with blanks, and has none before them.
LEMMA TrimEnd ==
  ASSUME NEW T, NEW s \in Seq(T), NEW m \in 0 .. Len(s),
         \A i \in 1 .. m : s[i] # Blank, \A i \in 1 .. Len(s) : i > m => s[i] = Blank
  PROVE  /\ Trim(s) \in Seq(T) /\ Len(Trim(s)) = m /\ \A i \in 1 .. m : Trim(s)[i] = s[i]
<1>1. PICK n \in Nat : n = Len(s) /\ DOMAIN s = 1 .. n /\ \A i \in 1 .. n : s[i] \in T
  BY LenProperties, ElementOfSeq
<1>2. PICK ink : ink = {i \in DOMAIN s : s[i] # Blank}
  OBVIOUS
<1>3. ink = 1 .. m
  BY <1>1, <1>2
<1>4. Trim(s) = IF ink = {} THEN <<>> ELSE SubSeq(s, Min(ink), Max(ink))
  BY <1>2 DEF Trim
<1>5. CASE m = 0
  <2>1. Trim(s) = <<>>
    BY <1>3, <1>4, <1>5
  <2>2. <<>> \in Seq(T) /\ Len(<<>>) = 0
    OBVIOUS
  <2> QED
    BY <1>5, <2>1, <2>2
<1>6. CASE m # 0
  <2>1. m \in 1 .. n /\ ink \subseteq 1 .. n /\ 1 \in ink /\ m \in ink
    BY <1>1, <1>3, <1>6
  <2>2. /\ Min(ink) \in ink /\ \A y \in ink : Min(ink) <= y
        /\ Max(ink) \in ink /\ \A y \in ink : y <= Max(ink)
    BY <2>1, Extremes
  <2>3. PICK a, b : a = Min(ink) /\ b = Max(ink)
    OBVIOUS
  <2>4. a = 1 /\ b = m
    <3>1. a \in 1 .. m /\ b \in 1 .. m /\ a <= 1 /\ m <= b
      BY <1>3, <2>1, <2>2, <2>3
    <3> QED
      BY <3>1
  <2>5. Trim(s) = SubSeq(s, 1, m)
    BY <1>4, <2>1, <2>3, <2>4
  <2>6. \A i \in 1 .. m : s[i] \in T
    BY <1>1
  <2>7. /\ SubSeq(s, 1, m) \in Seq(T)
        /\ Len(SubSeq(s, 1, m)) = IF 1 <= m THEN m - 1 + 1 ELSE 0
        /\ \A i \in 1 .. m - 1 + 1 : SubSeq(s, 1, m)[i] = s[1 + i - 1]
    BY <2>6, SubSeqProperties
  <2>8. PICK u \in Seq(T) : u = SubSeq(s, 1, m)
    BY <2>7
  <2>9. (m - 1) + 1 = m /\ \A i \in 1 .. m : (1 + i) - 1 = i
    OBVIOUS
  <2> QED
    BY <2>1, <2>5, <2>7, <2>8, <2>9
<1> QED
  BY <1>5, <1>6

\* The characters of a text: those of base64 and the blank.
Character == 0 .. W

\* What a text that is decoded stands for.
LEMMA DecodedTextIs ==
  ASSUME NEW text \in Seq(Character), DecodeText(text).ok
  PROVE  LET t == DecodeText(text).val
         IN /\ FitToken(t) /\ Validate(t) /\ Len(Encode(t)) = Len(Trim(text)) /\ Trim(text) # <<>>
            /\ \A i \in 1 .. Len(Trim(text)) : Encode(t)[i] = Trim(text)[i] - 1
<1>1. PICK value \in Seq(Character) : value = Trim(text)
  BY TrimIs
<1>2. PICK n \in Nat : n = Len(value) /\ DOMAIN value = 1 .. n /\ \A i \in 1 .. n : value[i] \in Character
  BY LenProperties, ElementOfSeq
<1>3. PICK data : data = [i \in DOMAIN value |-> value[i] - 1]
  OBVIOUS
<1>4. PICK token : token = Decode(data)
  OBVIOUS
<1>5. DecodeText(text) = [token EXCEPT !.ok = @ /\ value # <<>> /\ \A i \in DOMAIN value : value[i] # Blank]
  BY <1>1, <1>3, <1>4 DEF DecodeText
<1>6. PICK ok, val : token = [ok |-> ok, val |-> val]
  BY <1>4 DEF Decode
<1>7. DecodeText(text).ok = (ok /\ value # <<>> /\ \A i \in DOMAIN value : value[i] # Blank)
      /\ DecodeText(text).val = val
  BY <1>5, <1>6
<1>8. ok /\ value # <<>> /\ \A i \in 1 .. n : value[i] # Blank
  BY <1>2, <1>7
<1>9. data \in Str /\ Len(data) = n /\ \A i \in 1 .. n : data[i] = value[i] - 1
  <2>1. \A i \in 1 .. n : value[i] - 1 \in Word
    BY <1>2, <1>8, WordsAssumption DEF Character, Word, Blank
  <2>2. [i \in 1 .. n |-> value[i] - 1] \in Seq(Word)
    BY <2>1, IsASeq
  <2>3. data = [i \in 1 .. n |-> value[i] - 1]
    BY <1>2, <1>3
  <2>4. data \in Str
    BY <2>2, <2>3 DEF Str
  <2>5. Len(data) = n
    BY <2>3, <2>4, StrFacts
  <2> QED
    BY <2>3, <2>4, <2>5
<1>10. Decode(data).ok /\ Decode(data).val = val
  BY <1>4, <1>6, <1>8
<1>11. FitToken(val) /\ Validate(val) /\ data = Encode(val)
  BY <1>9, <1>10, DecodedTokenIsEncoded
<1> QED
  BY <1>1, <1>2, <1>7, <1>8, <1>9, <1>11

\* The line that a token command writes.
Whole(text) == text \o <<Blank>>

\* The text of a token and the line that is written of it.
LEMMA EncodedTextIs ==
  ASSUME NEW t, IsToken(t)
  PROVE  LET line == Whole(EncodeText(t))
         IN /\ EncodeText(t) \in Seq(Character)
            /\ line \in Seq(Character) /\ Len(line) = Len(Encode(t)) + 1 /\ line[Len(line)] = Blank
            /\ \A i \in 1 .. Len(Encode(t)) : line[i] = Encode(t)[i] + 1 /\ line[i] # Blank
<1>1. PICK s \in Str : s = Encode(t)
  BY PayloadOf
<1>2. PICK n \in Nat : n = Len(s) /\ DOMAIN s = 1 .. n /\ \A i \in 1 .. n : s[i] \in Word
  BY StrFacts
<1>3. \A i \in 1 .. n : s[i] + 1 \in Character /\ s[i] + 1 # 0
  BY <1>2, WordsAssumption DEF Word, Character
<1>4. [i \in 1 .. n |-> s[i] + 1] \in Seq(Character)
  BY <1>3, IsASeq
<1>5. PICK text \in Seq(Character) : text = EncodeText(t) /\ text = [i \in 1 .. n |-> s[i] + 1]
  BY <1>1, <1>2, <1>4 DEF EncodeText, Text
<1>6. Len(text) = n
  BY <1>5, LenProperties
<1>7. 0 \in Character
  BY WordsAssumption DEF Character
<1>8. PICK blank \in Seq(Character) : blank = <<0>> /\ Len(blank) = 1 /\ blank[1] = 0
  <2>1. <<0>> \in Seq(Character)
    BY <1>7
  <2>2. Len(<<0>>) = 1 /\ <<0>>[1] = 0
    OBVIOUS
  <2> QED
    BY <2>1, <2>2
<1>9. PICK line \in Seq(Character) : line = text \o blank
  BY ConcatProperties
<1>10. /\ Len(line) = n + 1
       /\ \A i \in 1 .. Len(text) + Len(blank) :
            line[i] = IF i <= Len(text) THEN text[i] ELSE blank[i - Len(text)]
  BY <1>6, <1>8, <1>9, ConcatProperties
<1>11. line[n + 1] = 0 /\ \A i \in 1 .. n : line[i] = s[i] + 1
  <2>1. n + 1 \in 1 .. n + 1 /\ ~(n + 1 <= n) /\ (n + 1) - n = 1
    OBVIOUS
  <2>2. line[n + 1] = blank[1]
    BY <1>6, <1>8, <1>10, <2>1
  <2>3. \A i \in 1 .. n : line[i] = text[i]
    BY <1>6, <1>8, <1>10
  <2> QED
    BY <1>5, <1>8, <2>2, <2>3
<1>12. line = Whole(EncodeText(t))
  BY <1>5, <1>8, <1>9 DEF Whole, Blank
<1> QED
  BY <1>1, <1>2, <1>3, <1>5, <1>10, <1>11, <1>12 DEF Blank

\* A token that is read of the beginning of the line that was written of a token is that
\* token: a text that breaks off is none.
LEMMA ReadTextIsWritten ==
  ASSUME NEW t, FitToken(t), NEW text \in Seq(Character), DecodeText(text).ok,
         NEW n \in 0 .. Len(Whole(EncodeText(t))), Len(text) = n,
         \A i \in 1 .. n : text[i] = Whole(EncodeText(t))[i]
  PROVE  DecodeText(text).val = t
<1>1. PICK s \in Str : s = Encode(t)
  BY PayloadOf DEF FitToken
<1>2. PICK line \in Seq(Character) :
        /\ line = Whole(EncodeText(t)) /\ Len(line) = Len(s) + 1 /\ line[Len(line)] = Blank
        /\ \A i \in 1 .. Len(s) : line[i] = s[i] + 1 /\ line[i] # Blank
  BY <1>1, EncodedTextIs DEF FitToken
<1>3. Len(s) \in Nat /\ n \in 0 .. Len(s) + 1 /\ \A i \in 1 .. Len(s) : s[i] \in Word
  BY <1>2, StrFacts
<1>4. PICK m \in 0 .. Len(s) : m = IF n <= Len(s) THEN n ELSE Len(s)
  BY <1>3
<1>5. m \in 0 .. Len(text) /\ (\A i \in 1 .. m : text[i] # Blank)
      /\ \A i \in 1 .. Len(text) : i > m => text[i] = Blank
  <2>1. m \in 0 .. n
    BY <1>3, <1>4
  <2>2. \A i \in 1 .. m : i \in 1 .. n /\ i \in 1 .. Len(s)
    BY <1>3, <1>4
  <2>3. \A i \in 1 .. m : text[i] # Blank
    BY <1>2, <2>2
  <2>4. \A i \in 1 .. n : i > m => i = Len(s) + 1
    BY <1>3, <1>4
  <2>5. \A i \in 1 .. n : i > m => text[i] = Blank
    BY <1>2, <2>4
  <2> QED
    BY <2>1, <2>3, <2>5
<1>6. Len(Trim(text)) = m /\ \A i \in 1 .. m : Trim(text)[i] = text[i]
  BY <1>5, TrimEnd
<1>7. PICK u : u = DecodeText(text).val
  OBVIOUS
<1>8. FitToken(u) /\ Len(Encode(u)) = m /\ \A i \in 1 .. m : Encode(u)[i] = Trim(text)[i] - 1
  BY <1>6, <1>7, DecodedTextIs
<1>9. PICK r \in Str : r = Encode(u)
  BY <1>8, PayloadOf DEF FitToken
<1>10. \A i \in 1 .. m : r[i] = s[i]
  <2> TAKE i \in 1 .. m
  <2>1. i \in 1 .. n /\ i \in 1 .. Len(s)
    BY <1>3, <1>4
  <2>2. text[i] = s[i] + 1 /\ s[i] \in Int
    BY <1>2, <1>3, <2>1, WordsAssumption DEF Word
  <2> QED
    BY <1>6, <1>8, <1>9, <2>2
<1>11. At(s, 1, r)
  BY SMTT(30), <1>3, <1>4, <1>8, <1>9, <1>10 DEF At
<1>12. At(s, 1, s)
  BY AtWhole
<1> QED
  BY <1>1, <1>7, <1>8, <1>9, <1>11, <1>12, OneTokenAtBeginning

-----------------------------------------------------------------------------
(* The inductive invariant *)

Fit(tokens) == \A t \in tokens : TokenFits(t)

\* The tokens issued and the signatures: each signature is of one of them.
Pool(sgn, iss) ==
  /\ sgn \in Seq([key : {o.key : o \in Options}, payload : Str]) /\ Len(sgn) <= MaxTokens
  /\ \A t \in iss : IsToken(t) /\ Validate(t)
  /\ \A i \in 1 .. Len(sgn) : \E t \in iss : t.signature = <<i>> /\ Payload(t) = sgn[i].payload

FileNames == {"cap", "refresh"}
FileLists == {<<>>, <<"cap">>, <<"refresh">>, <<"cap", "refresh">>}
Texts == [FileNames -> Seq(Character)]

\* The text is the line as far as it goes.
Begins(text, line) == Len(text) <= Len(line) /\ \A i \in 1 .. Len(text) : text[i] = line[i]

\* The files and the command that writes them: the capability file has the beginning of
\* the line of a token that was issued, and what was reported is there.
Kept(iss, fls, wrt, rep) ==
  /\ fls \in Texts /\ wrt \in [paths : FileLists, todo : FileLists, open : BOOLEAN, text : Texts]
  /\ fls["cap"] = <<>> \/ \E t \in iss : Begins(fls["cap"], Whole(EncodeText(t)))
  /\ wrt.todo # <<>> => \E t \in iss : wrt.text["cap"] = EncodeText(t)
  /\ \/ wrt.todo \in {<<>>, wrt.paths}
     \/ wrt.paths = <<"cap", "refresh">> /\ wrt.todo = <<"refresh">> /\ fls["cap"] = Whole(wrt.text["cap"])
  /\ rep # {} => /\ wrt.todo = <<>> /\ rep \subseteq FileNames
                 /\ \A f \in rep : fls[f] = Whole(wrt.text[f])

\* A request that `clerm request` built of a payload that its method takes.
Built(req, iss) ==
  /\ req.doc \in Document /\ req.message.method \in DOMAIN req.doc.methods
  /\ LET method == req.doc.methods[req.message.method]
         condition == req.doc.conditions[method.relation]
     IN /\ method.relation \in DOMAIN req.doc.conditions
        /\ IsObject(req.payload) /\ Taken(method.inputs, req.payload)
        /\ req.message = [method |-> req.message.method, args |-> ValuesOf(method.inputs, req.payload)]
        /\ \/ req.tokens = {} /\ ~RequiresCapability(condition) /\ req.frame = Frame(req.message, <<>>)
           \/ \E t \in req.tokens : /\ req.tokens = {t} /\ req.frame = Frame(req.message, Encode(t))
                                    /\ FitToken(t) /\ Validate(t)
                                    /\ InScope(req.doc, req.message.method, condition, t)
  /\ Fit(iss) => req.tokens \subseteq iss

Asked(req, iss) ==
  \/ req = NoRequest
  \/ req.from = "cli" /\ Built(req, iss) /\ req.frame \in Str
  \/ req.from \in {"elsewhere", "damaged"} /\ req.frame \in Str

FitsOf(req) ==
  /\ Short(req.message.method) /\ ShortArguments(req.message.args)
  /\ \A t \in req.tokens : ShortBytes(Encode(t))

\* What a request may be refused for.
CheckNames == {"frame", "method", "arguments", "capability", "keyring", "token", "signature",
               "window", "schema", "fingerprint", "condition", "scope", "target", "replay"}

\* A request that the service has refused.
Refused(srv, req, inv) ==
  /\ \E c \in CheckNames : inv = [refusal |-> c]
  /\ req.from = "cli" /\ req.doc = srv /\ FitsOf(req) =>
       inv.refusal \in {"keyring", "signature", "window", "target", "replay"}

\* A request that the service has taken.
Taking(srv, iss, req, inv) ==
  /\ inv.refusal = None /\ inv.endpoint \in {"serve", "decode"}
  /\ inv.method \in DOMAIN srv.methods /\ DOMAIN inv.args = inv.names
  /\ req.from = "cli" /\ FitsOf(req) =>
       inv.args = [n \in DOMAIN req.payload |-> Trim(req.payload[n])]
  /\ Fit(iss) => inv.tokens \subseteq iss

Resolved(srv, iss, req, inv) ==
  \/ inv = NoInvocation
  \/ req # NoRequest /\ Refused(srv, req, inv)
  \/ req # NoRequest /\ Taking(srv, iss, req, inv)

RefusalWith(c) ==
  [status |-> HttpStatus(c), from |-> "refusal", code |-> c, body |-> ErrorText(c, <<>>)]

OutcomeOf(srv, inv, o) ==
  LET r == ResponseTo(o, inv.method, srv.methods[inv.method].outputs, inv.endpoint)
  IN [status |-> 200, from |-> "outcome", outcome |-> o, response |-> r,
      body |-> IF Encodable(r) THEN EncodeResponse(r) ELSE <<>>]

Answered(srv, req, inv, ans) ==
  \/ ans = NoAnswer
  \/ req # NoRequest /\ \E c \in Code : ans = RefusalWith(c)
  \/ /\ req # NoRequest /\ inv.refusal = None
     /\ ans.from = "command" /\ ans.status = 200
     /\ req.from = "cli" /\ FitsOf(req) => ans.body # <<>>
  \/ /\ req # NoRequest /\ inv.refusal = None
     /\ \E o \in Outcome : ans = OutcomeOf(srv, inv, o)

\* What the client makes of an answer.
ViewOf(ans, toFile, relayed) ==
  IF ans.status >= 400 /\ ~relayed
    THEN [kind |-> "error", code |-> ResponseError(ans.status, ans.body).code]
  ELSE IF ~toFile /\ InlineLimit > 0 /\ Len(ans.body) > InlineLimit THEN [kind |-> "toolong"]
  ELSE Inspected(ans.body)

Viewed(ans, vw) ==
  \/ vw = NoView
  \/ /\ ans.from \in {"refusal", "outcome"}
     /\ \E toFile, relayed \in BOOLEAN : vw = ViewOf(ans, toFile, relayed)

PoolInv == Pool(signed, issued)
KeptInv == Kept(issued, files, writing, reported)
AskedInv == Asked(request, issued)
ResolvedInv == Resolved(served, issued, request, invocation)
AnsweredInv == Answered(served, request, invocation, answer)
ViewedInv == Viewed(answer, view)

Inv ==
  /\ served \in Document
  /\ PoolInv /\ KeptInv /\ AskedInv /\ ResolvedInv /\ AnsweredInv /\ ViewedInv

-----------------------------------------------------------------------------
(* Values *)

\* Trimming the text of a value does not change what it is.
LEMMA ClassOfTrimmed ==
  ASSUME NEW s \in Str
  PROVE  ClassOf(Trim(s)) = ClassOf(s)
BY TrimTwice DEF ClassOf, Str

\* What is taken has a value for each parameter, of its name and its type.
LEMMA ValuesAre ==
  ASSUME NEW params \in Seq(Parameter), NEW payload, IsObject(payload), Taken(params, payload)
  PROVE  /\ ValuesOf(params, payload) \in Seq(Argument)
         /\ DOMAIN ValuesOf(params, payload) = DOMAIN params
         /\ \A i \in DOMAIN params :
              /\ params[i].name \in DOMAIN payload /\ payload[params[i].name] \in Str
              /\ ValuesOf(params, payload)[i] =
                   [name |-> params[i].name, type |-> params[i].type, raw |-> Trim(payload[params[i].name])]
<1> DEFINE v == ValuesOf(params, payload)
<1> PICK n \in Nat : n = Len(params)
  OBVIOUS
<1>1. DOMAIN params = 1 .. n /\ \A i \in 1 .. n : params[i] \in Parameter
  OBVIOUS
<1>2. \A i \in 1 .. n : params[i].name \in DOMAIN payload /\ payload[params[i].name] \in Str
  BY <1>1 DEF Taken, Names, IsObject
<1>3. \A i \in 1 .. n : Trim(payload[params[i].name]) \in Str
  BY <1>2, TrimIs DEF Str
<1>4. DOMAIN v = 1 .. n /\ \A i \in 1 .. n :
        v[i] = [name |-> params[i].name, type |-> params[i].type, raw |-> Trim(payload[params[i].name])]
  BY <1>1 DEF ValuesOf
<1>5. \A i \in 1 .. n : params[i].name \in Str /\ params[i].type \in Word
  BY <1>1, ValuesAssumption DEF Parameter
<1>6. \A i \in 1 .. n : v[i] \in Argument
  BY <1>3, <1>4, <1>5 DEF Argument
<1>7. v = [i \in 1 .. n |-> v[i]]
  BY <1>1 DEF ValuesOf
<1> HIDE DEF v
<1>8. v \in Seq(Argument)
  BY <1>6, <1>7, IsASeq
<1> QED
  BY <1>1, <1>2, <1>4, <1>8 DEF v

\* The service checks the values of what is taken alike.
LEMMA TakenIsValid ==
  ASSUME NEW params \in Seq(Parameter), NEW payload, IsObject(payload), Taken(params, payload)
  PROVE  ValidateValues(ValuesOf(params, payload), params)
<1>1. ASSUME NEW i \in DOMAIN params
      PROVE  ValidateValue(params[i].type, Trim(payload[params[i].name]))
  <2>1. payload[params[i].name] \in Str /\ ValidateValue(params[i].type, payload[params[i].name])
    BY ValuesAre DEF Taken
  <2>2. ClassOf(Trim(payload[params[i].name])) = ClassOf(payload[params[i].name])
    BY <2>1, ClassOfTrimmed
  <2> QED
    BY <2>1, <2>2 DEF ValidateValue
<1>2. PICK v : v = ValuesOf(params, payload)
  OBVIOUS
<1>3. DOMAIN v = DOMAIN params /\ \A i \in DOMAIN params :
        v[i] = [name |-> params[i].name, type |-> params[i].type, raw |-> Trim(payload[params[i].name])]
  BY <1>2, ValuesAre
<1> QED
  BY <1>1, <1>2, <1>3 DEF ValidateValues

\* What is checked is decoded.
LEMMA ValidIsDecoded ==
  ASSUME NEW type, NEW raw, ValidateValue(type, raw)
  PROVE  DecodeValue(type, raw).ok
BY DEF ValidateValue, DecodeValue, Strings, Floats, Arrays, Ints, Bools, Type

\* So are the values that are checked, all of them.
LEMMA ValidAreDecoded ==
  ASSUME NEW values, NEW params, ValidateValues(values, params)
  PROVE  DOMAIN ValuesAsMap(values) = Names(values)
BY ValidIsDecoded DEF ValidateValues, ValuesAsMap

\* The values of what is taken are decoded to it, each under its name.
LEMMA TakenIsDecoded ==
  ASSUME NEW params \in Seq(Parameter), NEW payload, IsObject(payload), Taken(params, payload)
  PROVE  ValuesAsMap(ValuesOf(params, payload)) = [n \in DOMAIN payload |-> Trim(payload[n])]
<1> PICK v : v = ValuesOf(params, payload)
  OBVIOUS
<1>0. DOMAIN v = DOMAIN params /\ \A i \in DOMAIN params :
        /\ payload[params[i].name] \in Str
        /\ v[i] = [name |-> params[i].name, type |-> params[i].type, raw |-> Trim(payload[params[i].name])]
  BY ValuesAre
<1>1. DOMAIN v = DOMAIN params /\ \A i \in DOMAIN v :
        /\ payload[params[i].name] \in Str /\ v[i].name = params[i].name
        /\ v[i].raw = Trim(payload[v[i].name]) /\ payload[v[i].name] \in Str
  BY <1>0
<1>2. \A i \in DOMAIN v : DecodeValue(v[i].type, v[i].raw).ok
  BY TakenIsValid, ValidIsDecoded DEF ValidateValues
<1>3. Names(v) = DOMAIN payload
  BY <1>1 DEF Names, Taken
<1>4. ASSUME NEW i \in DOMAIN v
      PROVE  DecodeValue(v[i].type, v[i].raw).val = Trim(payload[v[i].name])
  BY <1>1, TrimTwice DEF DecodeValue, Str
<1>5. ASSUME NEW n \in Names(v)
      PROVE  LET last == CHOOSE i \in DOMAIN v :
                           v[i].name = n /\ \A j \in DOMAIN v : v[j].name = n => j <= i
             IN last \in DOMAIN v /\ v[last].name = n
  <2> PICK m \in Nat : m = Len(params) /\ DOMAIN v = 1 .. m
    BY <1>1
  <2> PICK S : S = {i \in 1 .. m : v[i].name = n}
    OBVIOUS
  <2>1. S \subseteq 1 .. m /\ S # {}
    BY DEF Names
  <2>2. Max(S) \in S /\ \A y \in S : y <= Max(S)
    BY <2>1, Extremes
  <2> QED
    BY <2>2
<1>6. ValuesAsMap(v) =
        [n \in Names(v) |->
           LET last == CHOOSE i \in DOMAIN v :
                         v[i].name = n /\ \A j \in DOMAIN v : v[j].name = n => j <= i
           IN DecodeValue(v[last].type, v[last].raw).val]
  BY <1>2 DEF ValuesAsMap
<1>7. \A n \in Names(v) :
        LET last == CHOOSE i \in DOMAIN v :
                      v[i].name = n /\ \A j \in DOMAIN v : v[j].name = n => j <= i
        IN DecodeValue(v[last].type, v[last].raw).val = Trim(payload[n])
  BY ZenonT(30), <1>4, <1>5
<1> QED
  BY <1>3, <1>6, <1>7, Zenon

\* What is taken is what the tool's schema asks for.
LEMMA TakenConforms ==
  ASSUME NEW params \in Seq(Parameter), NEW payload, Taken(params, payload)
  PROVE  Conforms(params, payload)
<1>1. ASSUME NEW i \in DOMAIN params
      PROVE  LET class == ClassOf(payload[params[i].name])
                 number == {"integer", "big", "fraction", "huge"}
             IN class \in << Strings \cup {"escape"}, number, {"uuid"}, {"array"}, {"time"},
                             {"integer", "big", "huge"}, Bools >>[params[i].type]
  <2> PICK class, type : class = ClassOf(payload[params[i].name]) /\ type = params[i].type
    OBVIOUS
  <2>1. class \in InJSON /\ ValidateValue(type, payload[params[i].name])
    BY DEF Taken, Names
  <2> QED
    BY <2>1 DEF ValidateValue, InJSON, Strings, Floats, Arrays, Ints, Bools, Type
<1> QED
  BY <1>1 DEF Conforms, Taken

-----------------------------------------------------------------------------
(* The checks of the service *)

ChecksOf(d) == Checks \o IF d.token = <<>> THEN <<>> ELSE TokenChecks

\* The checks one by one, those of a token only for a request with one.
LEMMA ChecksAre ==
  ASSUME NEW d
  PROVE  /\ ChecksOf(d) \in Seq(CheckNames) /\ Len(ChecksOf(d)) = IF d.token = <<>> THEN 4 ELSE 14
         /\ ChecksOf(d)[1] = "frame" /\ ChecksOf(d)[2] = "method" /\ ChecksOf(d)[3] = "arguments"
         /\ ChecksOf(d)[4] = "capability"
         /\ d.token # <<>> =>
              /\ ChecksOf(d)[5] = "keyring" /\ ChecksOf(d)[6] = "token" /\ ChecksOf(d)[7] = "signature"
              /\ ChecksOf(d)[8] = "window" /\ ChecksOf(d)[9] = "schema"
              /\ ChecksOf(d)[10] = "fingerprint" /\ ChecksOf(d)[11] = "condition"
              /\ ChecksOf(d)[12] = "scope" /\ ChecksOf(d)[13] = "target" /\ ChecksOf(d)[14] = "replay"
<1>1. /\ Len(Checks) = 4 /\ Checks[1] = "frame" /\ Checks[2] = "method" /\ Checks[3] = "arguments"
      /\ Checks[4] = "capability"
  BY DEF Checks
<1>2. /\ Len(TokenChecks) = 10 /\ TokenChecks[1] = "keyring" /\ TokenChecks[2] = "token"
      /\ TokenChecks[3] = "signature" /\ TokenChecks[4] = "window" /\ TokenChecks[5] = "schema"
      /\ TokenChecks[6] = "fingerprint" /\ TokenChecks[7] = "condition" /\ TokenChecks[8] = "scope"
      /\ TokenChecks[9] = "target" /\ TokenChecks[10] = "replay"
  BY DEF TokenChecks
<1>3. Checks \in Seq(CheckNames)
  <2> DEFINE names == CheckNames
  <2>1. "frame" \in names /\ "method" \in names /\ "arguments" \in names /\ "capability" \in names
    BY DEF CheckNames
  <2> HIDE DEF names
  <2>2. << "frame", "method", "arguments", "capability" >> \in Seq(names)
    BY <2>1
  <2> QED
    BY <2>2 DEF Checks, names
<1>4. TokenChecks \in Seq(CheckNames)
  <2> DEFINE names == CheckNames
  <2>1. /\ "keyring" \in names /\ "token" \in names /\ "signature" \in names /\ "window" \in names
        /\ "schema" \in names /\ "fingerprint" \in names /\ "condition" \in names
        /\ "scope" \in names /\ "target" \in names /\ "replay" \in names
    BY DEF CheckNames
  <2> HIDE DEF names
  <2>2. << "keyring", "token", "signature", "window", "schema", "fingerprint",
           "condition", "scope", "target", "replay" >> \in Seq(names)
    BY <2>1
  <2> QED
    BY <2>2 DEF TokenChecks, names
<1>5. CASE d.token = <<>>
  <2>1. ChecksOf(d) = Checks \o <<>>
    BY <1>5 DEF ChecksOf
  <2>2. <<>> \in Seq(CheckNames) /\ Len(<<>>) = 0
    OBVIOUS
  <2>3. /\ Checks \o <<>> \in Seq(CheckNames) /\ Len(Checks \o <<>>) = 4
        /\ \A i \in 1 .. 4 : (Checks \o <<>>)[i] = Checks[i]
    BY <1>1, <1>3, <2>2, ConcatProperties
  <2> QED
    BY <1>1, <1>5, <2>1, <2>3
<1>6. CASE d.token # <<>>
  <2>1. ChecksOf(d) = Checks \o TokenChecks
    BY <1>6 DEF ChecksOf
  <2>2. PICK all : all = Checks \o TokenChecks
    OBVIOUS
  <2>3. /\ all \in Seq(CheckNames) /\ Len(all) = 14
        /\ \A i \in 1 .. 14 : all[i] = IF i <= 4 THEN Checks[i] ELSE TokenChecks[i - 4]
    <3> PICK a \in Seq(CheckNames), b \in Seq(CheckNames) : a = Checks /\ b = TokenChecks
      BY <1>3, <1>4
    <3>1. /\ a \o b \in Seq(CheckNames) /\ Len(a \o b) = Len(a) + Len(b)
          /\ \A i \in 1 .. Len(a) + Len(b) : (a \o b)[i] = IF i <= Len(a) THEN a[i] ELSE b[i - Len(a)]
      BY ConcatProperties
    <3>2. Len(a) = 4 /\ Len(b) = 10 /\ 4 + 10 = 14
      BY <1>1, <1>2
    <3> QED
      BY <2>2, <3>1, <3>2
  <2>4. all[1] = Checks[1] /\ all[2] = Checks[2] /\ all[3] = Checks[3] /\ all[4] = Checks[4]
    BY <2>3
  <2>5. /\ all[5] = TokenChecks[1] /\ all[6] = TokenChecks[2] /\ all[7] = TokenChecks[3]
        /\ all[8] = TokenChecks[4] /\ all[9] = TokenChecks[5] /\ all[10] = TokenChecks[6]
        /\ all[11] = TokenChecks[7] /\ all[12] = TokenChecks[8] /\ all[13] = TokenChecks[9]
        /\ all[14] = TokenChecks[10]
    BY <2>3
  <2> QED
    BY <1>1, <1>2, <1>6, <2>1, <2>2, <2>3, <2>4, <2>5
<1> QED
  BY <1>5, <1>6

\* A request is refused for a check that it does not pass, and taken when it passes all.
LEMMA RefusalIs ==
  ASSUME NEW d, NEW t, NEW target, NEW now
  PROVE  \/ /\ Refusal(d, t, target, now) = None
            /\ \A i \in 1 .. Len(ChecksOf(d)) : Passes(ChecksOf(d)[i], d, t, target, now)
         \/ \E i \in 1 .. Len(ChecksOf(d)) :
              /\ Refusal(d, t, target, now) = ChecksOf(d)[i]
              /\ ~Passes(ChecksOf(d)[i], d, t, target, now)
<1>1. PICK checks : checks = ChecksOf(d)
  OBVIOUS
<1>2. PICK n \in Nat : n = Len(checks)
  <2>1. checks \in Seq(CheckNames)
    BY <1>1, ChecksAre
  <2> QED
    BY <2>1, LenProperties
<1> DEFINE P(k) == Passes(checks[k], d, t, target, now)
           After(k, v) == IF v # None \/ P(k) THEN v ELSE checks[k]
           Stepped(g) == [k \in 0 .. Len(checks) |->
                            IF k = 0 THEN None
                            ELSE IF g[k - 1] # None \/ P(k) THEN g[k - 1] ELSE checks[k]]
           g == CHOOSE g : g = Stepped(g)
           V == {checks[k] : k \in 1 .. n} \cup {None}
<1>3. Refusal(d, t, target, now) = g[Len(checks)]
  BY <1>1 DEF Refusal, ChecksOf
<1> HIDE DEF P
<1>4. \A k \in 1 .. n, v \in V : After(k, v) \in V
  OBVIOUS
<1>5. PICK next \in [(1 .. n) \X V -> V] : \A k \in 1 .. n, v \in V : next[<<k, v>>] = After(k, v)
  <2> DEFINE next == [p \in (1 .. n) \X V |-> After(p[1], p[2])]
  <2> HIDE DEF After, V
  <2>1. next \in [(1 .. n) \X V -> V] /\ \A k \in 1 .. n, v \in V : next[<<k, v>>] = After(k, v)
    BY <1>4
  <2> HIDE DEF next
  <2> QED
    BY <2>1
<1>6. PICK h \in [0 .. n -> V] : h[0] = None /\ \A k \in 1 .. n : h[k] = After(k, h[k - 1])
  <2>1. None \in V
    OBVIOUS
  <2> HIDE DEF V, After
  <2>2. PICK h : Follows(h, n, V, None, next)
    BY <2>1, Recursion
  <2>3. h \in [0 .. n -> V] /\ h[0] = None
    BY <2>2 DEF Follows
  <2>4. \A k \in 1 .. n : h[k] = After(k, h[k - 1])
    <3> TAKE k \in 1 .. n
    <3>1. h[k - 1] \in V /\ h[k] = next[<<k, h[k - 1]>>]
      BY <2>2, <2>3 DEF Follows
    <3> QED
      BY <1>5, <3>1
  <2> QED
    BY <2>3, <2>4
<1> HIDE DEF V
<1>7. h = Stepped(h)
  <2>1. \A k \in 0 .. n : h[k] = IF k = 0 THEN None
                                 ELSE IF h[k - 1] # None \/ P(k) THEN h[k - 1] ELSE checks[k]
    BY <1>6
  <2> QED
    BY <1>2, <2>1
<1>8. g = Stepped(g)
  BY <1>7
<1> HIDE DEF g
<1>9. \A k \in 0 .. n : g[k] = IF k = 0 THEN None
                               ELSE IF g[k - 1] # None \/ P(k) THEN g[k - 1] ELSE checks[k]
  BY <1>2, <1>8
<1> DEFINE Right(k) == \/ g[k] = None /\ \A i \in 1 .. k : P(i)
                       \/ \E i \in 1 .. k : g[k] = checks[i] /\ ~P(i)
           S == {k \in 0 .. n : Right(k)}
<1>10. 0 \in S
  BY <1>9
<1>11. ASSUME NEW k \in Nat, k \in S, k < n PROVE k + 1 \in S
  <2>1. k + 1 \in 0 .. n /\ k + 1 # 0 /\ (k + 1) - 1 = k /\ Right(k) /\ 1 .. k + 1 = (1 .. k) \cup {k + 1}
    BY <1>11
  <2>2. g[k + 1] = IF g[k] # None \/ P(k + 1) THEN g[k] ELSE checks[k + 1]
    BY <1>9, <2>1
  <2>3. Right(k + 1)
    BY <2>1, <2>2
  <2> QED
    BY <2>1, <2>3
<1>12. \A k \in 0 .. n : k \in S
  <2> HIDE DEF S
  <2> QED
    BY <1>10, <1>11, BoundedInduction
<1>13. n \in 0 .. n /\ Right(n)
  BY <1>12
<1> QED
  BY <1>1, <1>2, <1>3, <1>13 DEF P

-----------------------------------------------------------------------------
(* The registry and the token commands *)

\* The token that is issued for valid options is valid, and its payload is what is signed.
LEMMA IssuedIsValid ==
  ASSUME NEW o \in Options, NEW n \in Word, NEW t, t = Unsigned(o, o.now, <<W - 1, n>>),
         ValidateUnsigned(t)
  PROVE  Validate(IssuedToken(o, n)) /\ Payload(IssuedToken(o, n)) = Payload(t)
<1> PICK u : u = IssuedToken(o, n)
  OBVIOUS
<1>1. u.signature = <<n>> /\ \A f \in Fields : u[f] = t[f]
  BY IssuedIsToken
<1>2. ValidateUnsigned(u)
  <2>1. StringFields \subseteq Fields
    BY FieldsAre DEF StringFields
  <2>2. /\ u.hash = t.hash /\ u.issuedAt = t.issuedAt /\ u.notBefore = t.notBefore
        /\ u.expiresAt = t.expiresAt /\ u.methods = t.methods /\ u.targets = t.targets
    BY <1>1, FieldsAre
  <2> QED
    BY <1>1, <2>1, <2>2 DEF ValidateUnsigned
<1>3. Len(u.signature) = 1
  BY <1>1
<1>4. [i \in DOMAIN Layout |-> PutField(Layout[i], u[Layout[i]])]
        = [i \in DOMAIN Layout |-> PutField(Layout[i], t[Layout[i]])]
  <2>1. \A i \in DOMAIN Layout : u[Layout[i]] = t[Layout[i]]
    BY <1>1 DEF Fields
  <2> QED
    BY <2>1, Zenon
<1> QED
  BY <1>2, <1>3, <1>4 DEF Validate, Payload

\* One more token, signed next.
LEMMA PoolGrows ==
  ASSUME NEW sgn, NEW iss, Pool(sgn, iss), Len(sgn) < MaxTokens,
         NEW t, IsToken(t), Validate(t), t.signature = <<Len(sgn) + 1>>,
         NEW o \in Options
  PROVE  Pool(Append(sgn, [key |-> o.key, payload |-> Payload(t)]), iss \cup {t})
<1> PICK T : T = [key : {p.key : p \in Options}, payload : Str]
  OBVIOUS
<1> PICK e : e = [key |-> o.key, payload |-> Payload(t)]
  OBVIOUS
<1>1. e \in T /\ e.payload = Payload(t)
  BY PayloadOf
<1>2. PICK n \in Nat : n = Len(sgn)
  BY LenProperties DEF Pool
<1>3. /\ Append(sgn, e) \in Seq(T) /\ Len(Append(sgn, e)) = n + 1 /\ Append(sgn, e)[n + 1] = e
      /\ \A i \in 1 .. n : Append(sgn, e)[i] = sgn[i]
  BY <1>1, <1>2, AppendProperties DEF Pool
<1>4. n + 1 <= MaxTokens
  BY <1>2, ExchangeAssumption DEF Word
<1>5. \A i \in 1 .. n + 1 : \E u \in iss \cup {t} :
        u.signature = <<i>> /\ Payload(u) = Append(sgn, e)[i].payload
  <2> TAKE i \in 1 .. n + 1
  <2>1. CASE i = n + 1
    <3>1. t \in iss \cup {t} /\ t.signature = <<i>> /\ Payload(t) = Append(sgn, e)[i].payload
      BY <1>1, <1>2, <1>3, <2>1
    <3> QED
      BY <3>1
  <2>2. CASE i \in 1 .. n
    <3>1. PICK u \in iss : u.signature = <<i>> /\ Payload(u) = sgn[i].payload
      BY <1>2, <2>2 DEF Pool
    <3>2. Append(sgn, e)[i] = sgn[i]
      BY <1>3, <2>2
    <3>3. u \in iss \cup {t} /\ u.signature = <<i>> /\ Payload(u) = Append(sgn, e)[i].payload
      BY <3>1, <3>2
    <3> QED
      BY <3>3, Zenon
  <2>3. i = n + 1 \/ i \in 1 .. n
    OBVIOUS
  <2> QED
    BY <2>1, <2>2, <2>3, Zenon
<1>6. \A u \in iss \cup {t} : IsToken(u) /\ Validate(u)
  BY DEF Pool
<1> QED
  BY <1>3, <1>4, <1>5, <1>6 DEF Pool

\* A text for either file.
LEMMA TextsOf ==
  ASSUME NEW a \in Seq(Character), NEW b \in Seq(Character), NEW f, f = [cap |-> a, refresh |-> b]
  PROVE  f \in Texts
BY DEF Texts, FileNames

\* The texts for the two files of a token that was issued.
LEMMA TextsAre ==
  ASSUME NEW t, IsToken(t), NEW n \in Word
  PROVE  /\ EncodeText(t) \in Seq(Character) /\ <<n>> \in Seq(Character)
         /\ [cap |-> EncodeText(t), refresh |-> <<n>>] \in Texts
<1>1. EncodeText(t) \in Seq(Character)
  BY EncodedTextIs
<1>2. n \in Character
  BY WordsAssumption DEF Character, Word
<1>3. <<n>> \in Seq(Character)
  BY <1>2
<1>4. PICK a \in Seq(Character), b \in Seq(Character) : a = EncodeText(t) /\ b = <<n>>
  BY <1>1, <1>3
<1>5. PICK f : f = [cap |-> a, refresh |-> b]
  OBVIOUS
<1>6. f \in Texts
  BY <1>5, TextsOf
<1> QED
  BY <1>1, <1>3, <1>4, <1>5, <1>6

\* With no request there is nothing of one.
LEMMA NothingWithoutRequest ==
  ASSUME Inv, request = NoRequest
  PROVE  invocation = NoInvocation /\ answer = NoAnswer /\ view = NoView
<1>1. invocation = NoInvocation
  BY DEF Inv, ResolvedInv, Resolved
<1>2. answer = NoAnswer
  BY DEF Inv, AnsweredInv, Answered
<1>3. view = NoView
  BY <1>2 DEF Inv, ViewedInv, Viewed, NoAnswer, None
<1> QED
  BY <1>1, <1>2, <1>3

\* The service and the client do not depend on the tokens issued as long as there is no request.
LEMMA IdleKeeps ==
  ASSUME Inv, request = NoRequest, UNCHANGED <<serviceVars, request, invocation, answer, view>>
  PROVE  served' \in Document /\ AskedInv' /\ ResolvedInv' /\ AnsweredInv' /\ ViewedInv'
BY NothingWithoutRequest
   DEF Inv, serviceVars, AskedInv, Asked, ResolvedInv, Resolved, AnsweredInv, Answered, ViewedInv, Viewed

\* Issuing a token keeps the invariant.
LEMMA IssueTokenKeeps ==
  ASSUME Inv, NEW o \in Options, NEW paths \in Paths, IssueToken(o, paths)
  PROVE  Inv'
<1> PICK n : n = Len(signed) + 1
  OBVIOUS
<1> PICK t : t = Unsigned(o, o.now, <<W - 1, n>>)
  OBVIOUS
<1> PICK token : token = IssuedToken(o, n)
  OBVIOUS
<1>1. /\ request = NoRequest /\ Len(signed) < MaxTokens /\ ValidateUnsigned(t)
      /\ signed' = Append(signed, [key |-> o.key, payload |-> Payload(t)])
      /\ issued' = issued \cup {token}
      /\ writing' = [paths |-> paths, todo |-> paths, open |-> FALSE,
                     text |-> [cap |-> EncodeText(token), refresh |-> <<n>>]]
      /\ reported' = {} /\ files' = files
      /\ UNCHANGED <<serviceVars, request, invocation, answer, view>>
  BY DEF IssueToken, IssuedToken
<1>2. n \in Word
  <2>1. Len(signed) \in Nat
    BY LenProperties DEF Inv, PoolInv, Pool
  <2> QED
    BY <1>1, <2>1, ExchangeAssumption, WordsAssumption DEF Word
<1>3. IsToken(token) /\ token.signature = <<n>> /\ Validate(token) /\ Payload(token) = Payload(t)
  BY <1>1, <1>2, IssuedIsToken, IssuedIsValid
<1>4. PoolInv'
  <2>1. Pool(Append(signed, [key |-> o.key, payload |-> Payload(token)]), issued \cup {token})
    BY <1>1, <1>3, PoolGrows DEF Inv, PoolInv
  <2> QED
    BY <1>1, <1>3, <2>1 DEF PoolInv
<1>5. KeptInv'
  <2> PICK text : text = [cap |-> EncodeText(token), refresh |-> <<n>>]
    OBVIOUS
  <2>1. text \in Texts /\ text["cap"] = EncodeText(token)
    BY <1>2, <1>3, TextsAre
  <2>2. paths \in FileLists
    BY ExchangeAssumption DEF FileLists
  <2>3. writing' \in [paths : FileLists, todo : FileLists, open : BOOLEAN, text : Texts]
    BY <1>1, <2>1, <2>2
  <2>4. writing'.todo = paths /\ writing'.paths = paths /\ writing'.text = text
    BY <1>1
  <2>5. files \in Texts /\ (files["cap"] = <<>> \/ \E u \in issued : Begins(files["cap"], Whole(EncodeText(u))))
    BY DEF Inv, KeptInv, Kept
  <2> QED
    BY <1>1, <2>1, <2>3, <2>4, <2>5 DEF KeptInv, Kept
<1> QED
  BY <1>1, <1>4, <1>5, IdleKeeps DEF Inv

\* What is in the way of a write: the file, its line and what is left to write.
LEMMA WritingIs ==
  ASSUME Inv, writing.todo # <<>>
  PROVE  /\ File \in FileNames /\ Line = Whole(writing.text[File]) /\ Line \in Seq(Character)
         /\ Len(Line) \in Nat /\ files \in Texts /\ writing.text \in Texts
         /\ writing.paths \in FileLists /\ writing.open \in BOOLEAN
         /\ reported = {}
         /\ \/ writing.todo = <<"cap">> /\ writing.paths = <<"cap">> /\ File = "cap"
            \/ writing.todo = <<"refresh">> /\ File = "refresh"
               /\ \/ writing.paths = <<"refresh">>
                  \/ writing.paths = <<"cap", "refresh">> /\ files["cap"] = Whole(writing.text["cap"])
            \/ writing.todo = <<"cap", "refresh">> /\ writing.paths = <<"cap", "refresh">> /\ File = "cap"
         /\ \E t \in issued : writing.text["cap"] = EncodeText(t)
<1>1. /\ writing \in [paths : FileLists, todo : FileLists, open : BOOLEAN, text : Texts]
      /\ files \in Texts /\ \E t \in issued : writing.text["cap"] = EncodeText(t)
      /\ \/ writing.todo = writing.paths
         \/ writing.paths = <<"cap", "refresh">> /\ writing.todo = <<"refresh">>
            /\ files["cap"] = Whole(writing.text["cap"])
      /\ reported = {}
  BY DEF Inv, KeptInv, Kept
<1>2. writing.todo \in FileLists /\ writing.paths \in FileLists /\ writing.open \in BOOLEAN
      /\ writing.text \in Texts
  BY <1>1
<1>3. \/ writing.todo = <<"cap">> /\ writing.paths = <<"cap">>
      \/ writing.todo = <<"refresh">> /\ writing.paths = <<"refresh">>
      \/ writing.todo = <<"refresh">> /\ writing.paths = <<"cap", "refresh">>
         /\ files["cap"] = Whole(writing.text["cap"])
      \/ writing.todo = <<"cap", "refresh">> /\ writing.paths = <<"cap", "refresh">>
  BY <1>1, <1>2 DEF FileLists
<1>4. /\ writing.todo = <<"cap">> => File = "cap"
      /\ writing.todo = <<"refresh">> => File = "refresh"
      /\ writing.todo = <<"cap", "refresh">> => File = "cap"
  BY DEF File
<1>5. File \in FileNames
  BY <1>3, <1>4 DEF FileNames
<1>6. Line = Whole(writing.text[File])
  BY DEF Line, Whole
<1>7. Line \in Seq(Character)
  <2>1. writing.text[File] \in Seq(Character)
    BY <1>2, <1>5 DEF Texts
  <2>2. <<Blank>> \in Seq(Character)
    BY WordsAssumption DEF Character, Blank
  <2> QED
    BY <1>6, <2>1, <2>2, ConcatProperties DEF Whole
<1>8. Len(Line) \in Nat
  BY <1>7, LenProperties
<1> QED
  BY <1>1, <1>2, <1>3, <1>4, <1>5, <1>6, <1>7, <1>8

\* The beginning of the line that is written.
LEMMA BeginningIs ==
  ASSUME NEW line \in Seq(Character), NEW n \in 0 .. Len(line), NEW text, text = SubSeq(line, 1, n)
  PROVE  /\ text \in Seq(Character) /\ Len(text) = n /\ \A i \in 1 .. n : text[i] = line[i]
         /\ Begins(text, line) /\ (n = Len(line) => text = line)
<1> PICK m \in Nat : m = Len(line) /\ n \in 0 .. m /\ \A i \in 1 .. m : line[i] \in Character
  BY LenProperties, ElementOfSeq
<1>1. \A i \in 1 .. n : line[i] \in Character
  OBVIOUS
<1>2. /\ SubSeq(line, 1, n) \in Seq(Character)
      /\ Len(SubSeq(line, 1, n)) = IF 1 <= n THEN n - 1 + 1 ELSE 0
      /\ \A i \in 1 .. n - 1 + 1 : SubSeq(line, 1, n)[i] = line[1 + i - 1]
  BY <1>1, SubSeqProperties
<1> PICK u \in Seq(Character) : u = SubSeq(line, 1, n)
  BY <1>2
<1>3. (n - 1) + 1 = n /\ \A i \in 1 .. n : (1 + i) - 1 = i
  OBVIOUS
<1>4. Len(u) = n /\ \A i \in 1 .. n : u[i] = line[i]
  BY <1>2, <1>3
<1>5. n = m => u = line
  BY <1>4, SeqEqual
<1> QED
  BY <1>4, <1>5 DEF Begins

\* What a token command does to the files concerns nobody else yet.
LEMMA RestKeeps ==
  ASSUME Inv, UNCHANGED <<signed, issued, serviceVars, request, invocation, answer, view>>
  PROVE  served' \in Document /\ PoolInv' /\ AskedInv' /\ ResolvedInv' /\ AnsweredInv' /\ ViewedInv'
BY DEF Inv, serviceVars, PoolInv, AskedInv, ResolvedInv, AnsweredInv, ViewedInv

\* Emptying a file keeps the invariant.
LEMMA OpenFileKeeps ==
  ASSUME Inv, OpenFile
  PROVE  Inv'
<1>1. /\ writing.todo # <<>> /\ files' = [files EXCEPT ![File] = <<>>]
      /\ writing' = [writing EXCEPT !.open = TRUE] /\ reported' = reported /\ issued' = issued
      /\ UNCHANGED <<signed, issued, serviceVars, request, invocation, answer, view>>
  BY DEF OpenFile
<1>2. /\ writing \in [paths : FileLists, todo : FileLists, open : BOOLEAN, text : Texts]
      /\ files \in Texts /\ \E t \in issued : writing.text["cap"] = EncodeText(t)
      /\ files["cap"] = <<>> \/ \E t \in issued : Begins(files["cap"], Whole(EncodeText(t)))
  BY <1>1 DEF Inv, KeptInv, Kept
<1>3. /\ writing' \in [paths : FileLists, todo : FileLists, open : BOOLEAN, text : Texts]
      /\ writing'.todo = writing.todo /\ writing'.paths = writing.paths /\ writing'.text = writing.text
  BY <1>1, <1>2
<1>4. /\ files' \in Texts
      /\ files'["cap"] = IF File = "cap" THEN <<>> ELSE files["cap"]
  <2>1. <<>> \in Seq(Character) /\ "cap" \in FileNames
    BY DEF FileNames
  <2>2. File \in FileNames /\ files \in Texts
    BY <1>1, WritingIs
  <2> PICK fls \in Texts, f \in FileNames, text \in Seq(Character) : fls = files /\ f = File /\ text = <<>>
    BY <2>1, <2>2
  <2> PICK new : new = [fls EXCEPT ![f] = text]
    OBVIOUS
  <2>3. new \in Texts /\ \A g \in FileNames : new[g] = IF g = f THEN text ELSE fls[g]
    <3> PICK T : T = Seq(Character)
      OBVIOUS
    <3>1. fls \in [FileNames -> T] /\ text \in T
      BY DEF Texts
    <3>2. new \in [FileNames -> T] /\ \A g \in FileNames : new[g] = IF g = f THEN text ELSE fls[g]
      BY <3>1
    <3> QED
      BY <3>2 DEF Texts
  <2>4. files' = new
    BY <1>1
  <2> QED
    BY <2>1, <2>3, <2>4
<1>5. reported = {} /\ "cap" # "refresh"
  BY <1>1, WritingIs
<1>6. \/ writing'.todo \in {<<>>, writing'.paths}
      \/ /\ writing'.paths = <<"cap", "refresh">> /\ writing'.todo = <<"refresh">>
         /\ files'["cap"] = Whole(writing'.text["cap"])
  BY <1>1, <1>3, <1>4, <1>5, WritingIs
<1>7. KeptInv'
  BY <1>1, <1>2, <1>3, <1>4, <1>5, <1>6 DEF KeptInv, Kept
<1> QED
  BY <1>1, <1>7, RestKeeps DEF Inv

\* Ending a token command keeps the invariant.
LEMMA GiveUpKeeps ==
  ASSUME Inv, GiveUp
  PROVE  Inv'
<1>1. /\ writing.todo # <<>> /\ files' = files
      /\ writing' = [writing EXCEPT !.todo = <<>>, !.open = FALSE] /\ reported' = reported /\ issued' = issued
      /\ UNCHANGED <<signed, issued, serviceVars, request, invocation, answer, view>>
  BY DEF GiveUp
<1>2. /\ writing \in [paths : FileLists, todo : FileLists, open : BOOLEAN, text : Texts]
      /\ files \in Texts
      /\ files["cap"] = <<>> \/ \E t \in issued : Begins(files["cap"], Whole(EncodeText(t)))
      /\ reported = {}
  BY <1>1 DEF Inv, KeptInv, Kept
<1>3. /\ writing' \in [paths : FileLists, todo : FileLists, open : BOOLEAN, text : Texts]
      /\ writing'.todo = <<>>
  <2>1. <<>> \in FileLists
    BY DEF FileLists
  <2> QED
    BY <1>1, <1>2, <2>1
<1>4. KeptInv'
  BY <1>1, <1>2, <1>3 DEF KeptInv, Kept
<1> QED
  BY <1>1, <1>4, RestKeeps DEF Inv

\* Writing a file, or its beginning, keeps the invariant.
LEMMA WriteFileKeeps ==
  ASSUME Inv, NEW n \in Nat, WriteFile(n)
  PROVE  Inv'
<1> PICK part : part = SubSeq(Line, 1, n)
  OBVIOUS
<1>1. /\ writing.todo # <<>> /\ n <= Len(Line) /\ files' = [files EXCEPT ![File] = part]
      /\ UNCHANGED <<signed, issued, serviceVars, request, invocation, answer, view>>
      /\ IF n = Len(Line)
           THEN /\ writing' = [writing EXCEPT !.todo = Tail(@), !.open = FALSE]
                /\ reported' = IF Len(writing.todo) = 1 THEN ToSet(writing.paths) ELSE {}
           ELSE writing' = [writing EXCEPT !.todo = <<>>, !.open = FALSE] /\ reported' = {}
  BY DEF WriteFile, Written
<1>2. /\ writing \in [paths : FileLists, todo : FileLists, open : BOOLEAN, text : Texts]
      /\ files \in Texts
      /\ files["cap"] = <<>> \/ \E t \in issued : Begins(files["cap"], Whole(EncodeText(t)))
  BY <1>1 DEF Inv, KeptInv, Kept
<1>3. /\ File \in FileNames /\ Line = Whole(writing.text[File]) /\ Line \in Seq(Character)
      /\ Len(Line) \in Nat /\ n \in 0 .. Len(Line)
      /\ \E t \in issued : writing.text["cap"] = EncodeText(t)
  BY <1>1, WritingIs
<1>4. part \in Seq(Character) /\ Begins(part, Line) /\ (n = Len(Line) => part = Line)
  <2> PICK line, m : line = Line /\ m = n
    OBVIOUS
  <2>1. line \in Seq(Character) /\ m \in 0 .. Len(line)
    BY <1>3
  <2>2. part = SubSeq(line, 1, m)
    OBVIOUS
  <2>3. part \in Seq(Character) /\ Begins(part, line) /\ (m = Len(line) => part = line)
    BY <2>1, <2>2, BeginningIs
  <2> QED
    BY <2>3
<1>5. /\ files' \in Texts /\ files'["cap"] = IF File = "cap" THEN part ELSE files["cap"]
      /\ files'["refresh"] = IF File = "refresh" THEN part ELSE files["refresh"]
  <2>1. "cap" \in FileNames /\ "refresh" \in FileNames
    BY DEF FileNames
  <2> PICK fls \in Texts, f \in FileNames, text \in Seq(Character) : fls = files /\ f = File /\ text = part
    BY <1>2, <1>3, <1>4
  <2> PICK new : new = [fls EXCEPT ![f] = text]
    OBVIOUS
  <2>2. new \in Texts /\ \A g \in FileNames : new[g] = IF g = f THEN text ELSE fls[g]
    <3> PICK T : T = Seq(Character)
      OBVIOUS
    <3>1. fls \in [FileNames -> T] /\ text \in T
      BY DEF Texts
    <3>2. new \in [FileNames -> T] /\ \A g \in FileNames : new[g] = IF g = f THEN text ELSE fls[g]
      BY <3>1
    <3> QED
      BY <3>2 DEF Texts
  <2>3. files' = new
    BY <1>1
  <2> QED
    BY <2>1, <2>2, <2>3
<1>6. files'["cap"] = <<>> \/ \E t \in issued : Begins(files'["cap"], Whole(EncodeText(t)))
  <2>1. CASE File = "cap"
    BY <1>3, <1>4, <1>5, <2>1
  <2>2. CASE File # "cap"
    BY <1>2, <1>5, <2>2
  <2> QED
    BY <2>1, <2>2
<1>7. ASSUME n # Len(Line) PROVE KeptInv'
  <2>1. /\ writing' = [writing EXCEPT !.todo = <<>>, !.open = FALSE] /\ reported' = {}
    BY <1>1, <1>7
  <2>2. /\ writing' \in [paths : FileLists, todo : FileLists, open : BOOLEAN, text : Texts]
        /\ writing'.todo = <<>>
    <3>1. <<>> \in FileLists
      BY DEF FileLists
    <3> QED
      BY <1>2, <2>1, <3>1
  <2> QED
    BY <1>1, <1>5, <1>6, <2>1, <2>2 DEF KeptInv, Kept
<1>8. ASSUME n = Len(Line) PROVE KeptInv'
  <2> PICK todo : todo = Tail(writing.todo)
    OBVIOUS
  <2>1. /\ writing' = [writing EXCEPT !.todo = todo, !.open = FALSE] /\ part = Line
        /\ reported' = IF Len(writing.todo) = 1 THEN ToSet(writing.paths) ELSE {}
    BY <1>1, <1>4, <1>8
  <2>2. /\ writing'.todo = todo /\ writing'.paths = writing.paths /\ writing'.text = writing.text
        /\ todo \in FileLists =>
             writing' \in [paths : FileLists, todo : FileLists, open : BOOLEAN, text : Texts]
    BY <1>2, <2>1
  <2>3. /\ Tail(<<"cap">>) = <<>> /\ Tail(<<"refresh">>) = <<>> /\ Tail(<<"cap", "refresh">>) = <<"refresh">>
        /\ Len(<<"cap">>) = 1 /\ Len(<<"refresh">>) = 1 /\ Len(<<"cap", "refresh">>) = 2
        /\ "cap" # "refresh" /\ <<>> # <<"refresh">> /\ <<>> \in FileLists /\ <<"refresh">> \in FileLists
    BY DEF FileLists
  <2>4. /\ ToSet(<<"cap">>) = {"cap"} /\ ToSet(<<"refresh">>) = {"refresh"}
        /\ ToSet(<<"cap", "refresh">>) = {"cap", "refresh"}
    BY DEF ToSet
  <2>5. CASE writing.todo = <<"cap">> /\ writing.paths = <<"cap">> /\ File = "cap"
    <3>1. todo = <<>> /\ reported' = {"cap"} /\ files'["cap"] = Whole(writing'.text["cap"])
      BY <1>3, <1>5, <2>1, <2>2, <2>3, <2>4, <2>5
    <3> QED
      BY <1>1, <1>5, <1>6, <2>2, <2>3, <3>1 DEF KeptInv, Kept, FileNames
  <2>6. CASE writing.todo = <<"refresh">> /\ File = "refresh" /\ writing.paths = <<"refresh">>
    <3>1. todo = <<>> /\ reported' = {"refresh"} /\ files'["refresh"] = Whole(writing'.text["refresh"])
      BY <1>3, <1>5, <2>1, <2>2, <2>3, <2>4, <2>6
    <3> QED
      BY <1>1, <1>5, <1>6, <2>2, <2>3, <3>1 DEF KeptInv, Kept, FileNames
  <2>7. CASE /\ writing.todo = <<"refresh">> /\ File = "refresh" /\ writing.paths = <<"cap", "refresh">>
             /\ files["cap"] = Whole(writing.text["cap"])
    <3>1. /\ todo = <<>> /\ reported' = {"cap", "refresh"}
          /\ files'["refresh"] = Whole(writing'.text["refresh"])
          /\ files'["cap"] = Whole(writing'.text["cap"])
      BY <1>3, <1>5, <2>1, <2>2, <2>3, <2>4, <2>7
    <3> QED
      BY <1>1, <1>5, <1>6, <2>2, <2>3, <3>1 DEF KeptInv, Kept, FileNames
  <2>8. CASE writing.todo = <<"cap", "refresh">> /\ writing.paths = <<"cap", "refresh">> /\ File = "cap"
    <3>1. todo = <<"refresh">> /\ reported' = {} /\ files'["cap"] = Whole(writing'.text["cap"])
      BY <1>3, <1>5, <2>1, <2>2, <2>3, <2>8
    <3> QED
      BY <1>1, <1>3, <1>5, <1>6, <2>2, <2>3, <2>8, <3>1 DEF KeptInv, Kept
  <2> QED
    BY <1>1, <2>5, <2>6, <2>7, <2>8, WritingIs
<1> QED
  BY <1>1, <1>7, <1>8, RestKeeps DEF Inv

-----------------------------------------------------------------------------
(* Requests *)

\* A request that was not resolved yet is all there is of it.
LEMMA RequestKeeps ==
  ASSUME Inv, AskedInv', invocation = NoInvocation, answer = NoAnswer,
         UNCHANGED <<tokenVars, serviceVars, invocation, answer, view>>
  PROVE  Inv'
<1>1. served' \in Document /\ PoolInv' /\ KeptInv'
  BY DEF Inv, serviceVars, tokenVars, PoolInv, KeptInv
<1>2. ResolvedInv' /\ AnsweredInv' /\ ViewedInv'
  BY DEF Inv, ResolvedInv, Resolved, AnsweredInv, Answered, ViewedInv
<1> QED
  BY <1>1, <1>2 DEF Inv

\* A text that `clerm request` takes a token from has one of those that were issued, if
\* nothing in these is longer than its length says.
LEMMA TokenReadIsIssued ==
  ASSUME Inv, Fit(issued), CapabilityToken.ok
  PROVE  CapabilityToken.val \in issued
<1> PICK text : text = files["cap"]
  OBVIOUS
<1>1. /\ text \in Seq(Character) /\ DecodeText(text).ok
      /\ text = <<>> \/ \E t \in issued : Begins(text, Whole(EncodeText(t)))
  BY DEF Inv, KeptInv, Kept, Texts, FileNames, CapabilityToken
<1>2. Trim(text) # <<>>
  BY <1>1, DecodedTextIs
<1>3. text # <<>>
  BY <1>1, <1>2, TrimKeeps
<1>4. PICK t \in issued : Begins(text, Whole(EncodeText(t)))
  BY <1>1, <1>3
<1>5. FitToken(t)
  <2>1. IsToken(t) /\ Validate(t) /\ TokenFits(t)
    BY DEF Inv, PoolInv, Pool, Fit
  <2> QED
    BY <2>1, FitTokenIs DEF Validate
<1>6. PICK n \in Nat : n = Len(text)
  BY <1>1, LenProperties
<1>7. n \in 0 .. Len(Whole(EncodeText(t))) /\ \A i \in 1 .. n : text[i] = Whole(EncodeText(t))[i]
  <2>1. Len(Whole(EncodeText(t))) \in Nat
    <3>1. Whole(EncodeText(t)) \in Seq(Character)
      BY <1>5, EncodedTextIs DEF FitToken
    <3> QED
      BY <3>1, LenProperties
  <2> QED
    BY <1>4, <1>6, <2>1 DEF Begins
<1>8. DecodeText(text).val = t
  BY <1>1, <1>5, <1>6, <1>7, ReadTextIsWritten
<1> QED
  BY <1>8 DEF CapabilityToken

\* Building a request keeps the invariant.
LEMMA BuildRequestKeeps ==
  ASSUME Inv, NEW doc \in Document, NEW payload, IsObject(payload), NEW ref, NEW capability \in BOOLEAN,
         BuildRequest(doc, ref, payload, capability)
  PROVE  Inv'
<1> PICK method : method = doc.methods[ref]
  OBVIOUS
<1> PICK condition : condition = doc.conditions[method.relation]
  OBVIOUS
<1> PICK token : token = CapabilityToken
  OBVIOUS
<1> PICK args : args = ValuesOf(method.inputs, payload)
  OBVIOUS
<1> PICK message : message = [method |-> ref, args |-> args]
  OBVIOUS
<1>1. /\ request = NoRequest /\ ref \in DOMAIN doc.methods /\ method.relation \in DOMAIN doc.conditions
      /\ Taken(method.inputs, payload)
      /\ capability => token.ok /\ InScope(doc, ref, condition, token.val)
      /\ RequiresCapability(condition) => capability
      /\ request' = [from |-> "cli", doc |-> doc, message |-> message, payload |-> payload,
                     tokens |-> IF capability THEN {token.val} ELSE {},
                     frame |-> Frame(message, IF capability THEN Encode(token.val) ELSE <<>>)]
      /\ UNCHANGED <<tokenVars, serviceVars, invocation, answer, view>>
  BY DEF BuildRequest, BuildValues
<1>2. message \in Content
  <2>1. ref \in Str /\ method.inputs \in Seq(Parameter)
    BY <1>1, ExchangeAssumption DEF IsDocument
  <2>2. args \in Seq(Argument)
    BY <1>1, <2>1, ValuesAre
  <2> QED
    BY <2>1, <2>2 DEF Content
<1>3. capability => FitToken(token.val) /\ Validate(token.val) /\ Encode(token.val) \in Str
  <2>1. files["cap"] \in Seq(Character)
    BY DEF Inv, KeptInv, Kept, Texts, FileNames
  <2>2. ASSUME capability PROVE FitToken(token.val) /\ Validate(token.val)
    BY <1>1, <2>1, <2>2, DecodedTextIs DEF CapabilityToken
  <2>3. FitToken(token.val) => Encode(token.val) \in Str
    BY PayloadOf DEF FitToken
  <2> QED
    BY <2>2, <2>3
<1>4. <<>> \in Str
  BY StrOf
<1>5. Frame(message, IF capability THEN Encode(token.val) ELSE <<>>) \in Str
  BY <1>2, <1>3, <1>4, FrameIsStr
<1>6. /\ request'.from = "cli" /\ request'.doc = doc /\ request'.message = message
      /\ request'.payload = payload /\ request'.tokens = IF capability THEN {token.val} ELSE {}
      /\ request'.frame = Frame(message, IF capability THEN Encode(token.val) ELSE <<>>)
      /\ message.method = ref
  BY <1>1
<1>7. Fit(issued) => request'.tokens \subseteq issued
  BY <1>1, <1>6, TokenReadIsIssued
<1>8. \/ request'.tokens = {} /\ ~RequiresCapability(condition) /\ request'.frame = Frame(message, <<>>)
      \/ \E t \in request'.tokens :
           /\ request'.tokens = {t} /\ request'.frame = Frame(message, Encode(t))
           /\ FitToken(t) /\ Validate(t) /\ InScope(doc, ref, condition, t)
  <2>1. CASE capability
    <3>1. PICK t : t = token.val
      OBVIOUS
    <3>2. /\ t \in request'.tokens /\ request'.tokens = {t} /\ request'.frame = Frame(message, Encode(t))
          /\ FitToken(t) /\ Validate(t) /\ InScope(doc, ref, condition, t)
      BY <1>1, <1>3, <1>6, <2>1, <3>1
    <3> QED
      BY <3>2
  <2>2. CASE ~capability
    BY <1>1, <1>6, <2>2
  <2> QED
    BY <2>1, <2>2
<1>9. Built(request', issued)
  BY <1>1, <1>6, <1>7, <1>8 DEF Built
<1>10. AskedInv'
  <2>1. issued' = issued /\ request'.frame \in Str
    BY <1>1, <1>5, <1>6 DEF tokenVars
  <2> QED
    BY <1>6, <1>9, <2>1 DEF AskedInv, Asked
<1> QED
  BY <1>1, <1>10, NothingWithoutRequest, RequestKeeps

\* A request from elsewhere keeps the invariant.
LEMMA OtherRequestKeeps ==
  ASSUME Inv, NEW m \in Foreign, NEW tokens \in {{}} \cup {{t} : t \in issued}, OtherRequest(m, tokens)
  PROVE  Inv'
<1> PICK token : token = IF tokens = {} THEN <<>> ELSE Encode(CHOOSE t \in tokens : TRUE)
  OBVIOUS
<1>1. /\ request = NoRequest /\ request' = [from |-> "elsewhere", frame |-> Frame(m, token)]
      /\ UNCHANGED <<tokenVars, serviceVars, invocation, answer, view>>
  BY DEF OtherRequest
<1>2. token \in Str
  <2>1. CASE tokens = {}
    BY <2>1, StrOf
  <2>2. CASE tokens # {}
    <3>1. PICK t : t = CHOOSE u \in tokens : TRUE
      OBVIOUS
    <3>2. t \in issued
      BY <2>2, <3>1
    <3>3. IsToken(t)
      BY <3>2 DEF Inv, PoolInv, Pool
    <3> QED
      BY <2>2, <3>1, <3>3, PayloadOf
  <2> QED
    BY <2>1, <2>2
<1>3. Frame(m, token) \in Str
  BY <1>2, ExchangeAssumption, FrameIsStr
<1>4. AskedInv'
  BY <1>1, <1>3 DEF AskedInv, Asked
<1> QED
  BY <1>1, <1>4, NothingWithoutRequest, RequestKeeps

\* A word that changed keeps the invariant.
LEMMA DamageKeeps ==
  ASSUME Inv, NEW i, Damage(i)
  PROVE  Inv'
<1>1. /\ i \in DOMAIN request.frame /\ answer = NoAnswer /\ invocation = NoInvocation
      /\ request' = [from |-> "damaged", frame |-> [request.frame EXCEPT ![i] = (@ + 1) % W]]
      /\ request.from = "cli"
      /\ UNCHANGED <<tokenVars, serviceVars, invocation, answer, view>>
  BY DEF Damage
<1>2. request.frame \in Str
  BY <1>1 DEF Inv, AskedInv, Asked, NoRequest, None
<1>3. [request.frame EXCEPT ![i] = (@ + 1) % W] \in Str
  <2> PICK data \in Str : data = request.frame
    BY <1>2
  <2> PICK w : w = (data[i] + 1) % W
    OBVIOUS
  <2>1. i \in 1 .. Len(data) /\ DOMAIN data = 1 .. Len(data) /\ Len(data) \in Nat
        /\ \A j \in 1 .. Len(data) : data[j] \in Word
    BY <1>1, StrFacts
  <2>2. data[i] + 1 \in Nat
    BY <2>1, WordsAssumption DEF Word
  <2>3. w \in Word
    BY <2>2, Division
  <2>4. [data EXCEPT ![i] = w] \in [1 .. Len(data) -> Word]
    BY <2>1, <2>3
  <2>5. [data EXCEPT ![i] = w] \in Seq(Word)
    BY <2>1, <2>4
  <2> QED
    BY <2>5 DEF Str
<1>4. AskedInv'
  BY <1>1, <1>3 DEF AskedInv, Asked
<1> QED
  BY <1>1, <1>4, RequestKeeps

-----------------------------------------------------------------------------
(* The service *)

\* What each check looks at.
LEMMA PassesIs ==
  ASSUME NEW d, NEW t, NEW target, NEW now
  PROVE  /\ Passes("frame", d, t, target, now) <=> d.ok
         /\ Passes("method", d, t, target, now) <=> (d.message.method \in DOMAIN served.methods)
         /\ Passes("arguments", d, t, target, now)
              <=> ValidateValues(d.message.args, served.methods[d.message.method].inputs)
         /\ Passes("token", d, t, target, now) <=> t.ok
         /\ Passes("signature", d, t, target, now) <=> \E ring \in rings : Verify(ring, signed, t.val)
         /\ Passes("schema", d, t, target, now) <=> (t.val.schema = served.name)
         /\ Passes("fingerprint", d, t, target, now) <=> (t.val.hash = served.hash)
         /\ Passes("scope", d, t, target, now)
              <=> AllowsMethod(t.val, d.message.method, served.methods[d.message.method].relation)
BY DEF Passes

\* The two checks that look at the condition of the method.
LEMMA PassesOfCondition ==
  ASSUME NEW d, NEW t, NEW target, NEW now, NEW relation, NEW condition,
         relation = served.methods[d.message.method].relation,
         relation \in DOMAIN served.conditions, condition = served.conditions[relation]
  PROVE  /\ Passes("capability", d, t, target, now) <=> (d.token # <<>> \/ ~RequiresCapability(condition))
         /\ Passes("condition", d, t, target, now) <=> (t.val.condition = condition)
BY DEF Passes

\* A request of `clerm request` is decoded to what it was built of, and so is its token.
LEMMA BuiltIsDecoded ==
  ASSUME NEW iss, NEW req, Built(req, iss), FitsOf(req)
  PROVE  LET d == Decoded(req.frame)
             method == req.doc.methods[req.message.method]
             condition == req.doc.conditions[method.relation]
         IN /\ d.ok /\ d.message = req.message
            /\ \/ req.tokens = {} /\ ~RequiresCapability(condition) /\ d.token = <<>>
               \/ \E t \in req.tokens : /\ req.tokens = {t} /\ d.token = Encode(t) /\ d.token # <<>>
                                        /\ Decode(d.token).ok /\ Decode(d.token).val = t
                                        /\ InScope(req.doc, req.message.method, condition, t)
<1> PICK method : method = req.doc.methods[req.message.method]
  OBVIOUS
<1> PICK condition : condition = req.doc.conditions[method.relation]
  OBVIOUS
<1> PICK m : m = req.message
  OBVIOUS
<1> PICK d : d = Decoded(req.frame)
  OBVIOUS
<1>1. /\ m = [method |-> m.method, args |-> ValuesOf(method.inputs, req.payload)]
      /\ m.method \in Str /\ method.inputs \in Seq(Parameter)
      /\ IsObject(req.payload) /\ Taken(method.inputs, req.payload)
  BY ExchangeAssumption DEF Built, IsDocument
<1>2. m \in FitContent
  <2>1. ValuesOf(method.inputs, req.payload) \in Seq(Argument)
    BY <1>1, ValuesAre
  <2> PICK args \in Seq(Argument) : args = ValuesOf(method.inputs, req.payload)
    BY <2>1
  <2>2. m.args = args /\ m = [method |-> m.method, args |-> args]
    <3>1. m = [method |-> m.method, args |-> args]
      BY <1>1
    <3>2. [method |-> m.method, args |-> args].args = args
      OBVIOUS
    <3> QED
      BY <3>1, <3>2
  <2>3. Short(m.method) /\ ShortArguments(args)
    BY <2>2 DEF FitsOf
  <2>4. args \in FitArguments
    BY <2>3, FitArgumentsAre
  <2>5. m \in Content
    BY <1>1, <2>2 DEF Content
  <2> QED
    BY <2>2, <2>3, <2>4, <2>5 DEF FitContent
<1>3. CASE req.tokens = {} /\ ~RequiresCapability(condition) /\ req.frame = Frame(m, <<>>)
  <2>1. <<>> \in Str /\ ShortBytes(<<>>)
    <3>1. <<>> \in Str /\ Len(<<>>) = 0 /\ 0 < W * W
      BY StrOf, WordsAssumption
    <3> QED
      BY <3>1 DEF ShortBytes
  <2>2. d.ok /\ d.message = m /\ d.token = <<>>
    BY <1>2, <1>3, <2>1, FrameIsDecoded
  <2> QED
    BY <1>3, <2>2
<1>4. ASSUME NEW t \in req.tokens, req.tokens = {t}, req.frame = Frame(m, Encode(t)),
             FitToken(t), Validate(t), InScope(req.doc, m.method, condition, t)
      PROVE  /\ d.ok /\ d.message = m /\ d.token = Encode(t) /\ d.token # <<>>
             /\ Decode(d.token).ok /\ Decode(d.token).val = t
  <2>1. Encode(t) \in Str /\ Decode(Encode(t)).ok /\ Decode(Encode(t)).val = t
    BY <1>4, EncodedTokenIsDecoded
  <2>2. ShortBytes(Encode(t))
    BY DEF FitsOf
  <2>3. d.ok /\ d.message = m /\ d.token = Encode(t)
    <3> PICK b \in Str : b = Encode(t)
      BY <2>1
    <3>1. ShortBytes(b) /\ d = Decoded(Frame(m, b))
      BY <1>4, <2>2
    <3>2. Decoded(Frame(m, b)).ok /\ Decoded(Frame(m, b)).message = m /\ Decoded(Frame(m, b)).token = b
      BY <1>2, <3>1, FrameIsDecoded
    <3> QED
      BY <3>1, <3>2
  <2>4. Encode(t) # <<>>
    <3>1. <<TokenMagic, 1>> \in Str /\ Len(<<TokenMagic, 1>>) = 2 /\ FlattenSeq(FieldsOf(t)) \in Str
          /\ PutString(t.signature) \in Str /\ Payload(t) = <<TokenMagic, 1>> \o FlattenSeq(FieldsOf(t))
          /\ Encode(t) = Payload(t) \o PutString(t.signature)
      BY <1>4, PayloadOf DEF FitToken
    <3> PICK a \in Str, b \in Str, c \in Str : a = <<TokenMagic, 1>> /\ b = FlattenSeq(FieldsOf(t))
                                               /\ c = PutString(t.signature)
      BY <3>1
    <3>2. a \o b \in Str /\ Len(a \o b) = 2 + Len(b) /\ Len((a \o b) \o c) = (2 + Len(b)) + Len(c)
      BY <3>1, StrOf
    <3>3. Len(b) \in Nat /\ Len(c) \in Nat /\ Len(<<>>) = 0
      BY StrFacts
    <3> QED
      BY <3>1, <3>2, <3>3
  <2> QED
    BY <2>1, <2>3, <2>4
<1>5. \/ req.tokens = {} /\ ~RequiresCapability(condition) /\ req.frame = Frame(m, <<>>)
      \/ \E t \in req.tokens : /\ req.tokens = {t} /\ req.frame = Frame(m, Encode(t))
                               /\ FitToken(t) /\ Validate(t) /\ InScope(req.doc, m.method, condition, t)
  BY DEF Built
<1> QED
  BY <1>3, <1>4, <1>5

\* A request that was built for the document served is refused only for what the client
\* cannot know.
LEMMA BuiltIsRefused ==
  ASSUME NEW iss, NEW req, Built(req, iss), FitsOf(req), req.doc = served,
         NEW d, d = Decoded(req.frame), NEW t, t = Decode(d.token), NEW target, NEW now
  PROVE  /\ Passes("frame", d, t, target, now) /\ Passes("method", d, t, target, now)
         /\ Passes("arguments", d, t, target, now) /\ Passes("capability", d, t, target, now)
         /\ d.token # <<>> => /\ Passes("token", d, t, target, now) /\ Passes("schema", d, t, target, now)
                              /\ Passes("fingerprint", d, t, target, now)
                              /\ Passes("condition", d, t, target, now)
                              /\ Passes("scope", d, t, target, now)
<1> PICK m : m = req.message
  OBVIOUS
<1> PICK method : method = served.methods[m.method]
  OBVIOUS
<1> PICK condition : condition = served.conditions[method.relation]
  OBVIOUS
<1>1. /\ d.ok /\ d.message = m
      /\ \/ ~RequiresCapability(condition) /\ d.token = <<>>
         \/ /\ d.token # <<>> /\ t.ok
            /\ InScope(served, m.method, condition, t.val)
  BY BuiltIsDecoded
<1>2. /\ m.method \in DOMAIN served.methods /\ method.relation \in DOMAIN served.conditions
      /\ method.inputs \in Seq(Parameter) /\ IsObject(req.payload) /\ Taken(method.inputs, req.payload)
      /\ m = [method |-> m.method, args |-> ValuesOf(method.inputs, req.payload)]
  BY ExchangeAssumption DEF Built, IsDocument
<1>3. ValidateValues(m.args, method.inputs)
  <2>1. ValidateValues(ValuesOf(method.inputs, req.payload), method.inputs)
    BY <1>2, TakenIsValid
  <2>2. m.args = ValuesOf(method.inputs, req.payload)
    BY <1>2
  <2> QED
    BY <2>1, <2>2
<1>4. /\ Passes("frame", d, t, target, now) /\ Passes("method", d, t, target, now)
      /\ Passes("arguments", d, t, target, now)
  BY <1>1, <1>2, <1>3, PassesIs
<1>5. /\ Passes("capability", d, t, target, now)
      /\ d.token # <<>> => Passes("condition", d, t, target, now)
  <2> PICK relation : relation = method.relation
    OBVIOUS
  <2>1. /\ relation = served.methods[d.message.method].relation
        /\ relation \in DOMAIN served.conditions /\ condition = served.conditions[relation]
    BY <1>1, <1>2
  <2>2. /\ Passes("capability", d, t, target, now) <=> (d.token # <<>> \/ ~RequiresCapability(condition))
        /\ Passes("condition", d, t, target, now) <=> (t.val.condition = condition)
    BY <2>1 DEF Passes
  <2>3. d.token # <<>> => t.val.condition = condition
    BY <1>1 DEF InScope
  <2>4. d.token # <<>> \/ ~RequiresCapability(condition)
    BY <1>1
  <2> QED
    BY <2>2, <2>3, <2>4, Zenon
<1>6. d.token # <<>> => /\ Passes("token", d, t, target, now) /\ Passes("schema", d, t, target, now)
                        /\ Passes("fingerprint", d, t, target, now)
                        /\ Passes("scope", d, t, target, now)
  BY <1>1, PassesIs DEF InScope
<1> QED
  BY <1>4, <1>5, <1>6

\* What a token of a request has to be when it is verified: one that was issued, if
\* nothing in these is longer than its length says.
LEMMA VerifiedIsIssued ==
  ASSUME NEW sgn, NEW iss, Pool(sgn, iss), Fit(iss),
         NEW data \in Str, Decode(data).ok, NEW ring, Verify(ring, sgn, Decode(data).val)
  PROVE  Decode(data).val \in iss
<1> PICK t : t = Decode(data).val
  OBVIOUS
<1>1. FitToken(t) /\ Validate(t)
  BY DecodedTokenIsEncoded
<1> PICK i : i = t.signature[1]
  OBVIOUS
<1>2. i \in DOMAIN sgn /\ sgn[i] = [key |-> ring[t.keyID], payload |-> Payload(t)]
  BY DEF Verify
<1>3. DOMAIN sgn = 1 .. Len(sgn)
  BY LenProperties DEF Pool
<1>4. PICK u \in iss : u.signature = <<i>> /\ Payload(u) = sgn[i].payload
  BY <1>2, <1>3 DEF Pool
<1>5. Payload(u) = Payload(t)
  BY <1>2, <1>4
<1>6. FitToken(u)
  <2>1. IsToken(u) /\ Validate(u) /\ TokenFits(u)
    BY DEF Pool, Fit
  <2> QED
    BY <2>1, FitTokenIs DEF Validate
<1>7. t.signature = u.signature
  <2>1. t.signature \in Seq(Word) /\ Len(t.signature) = 1
    BY <1>1 DEF FitToken, IsToken, Validate, Str
  <2> QED
    BY <1>4, <2>1
<1>8. t = u
  BY <1>1, <1>5, <1>6, <1>7, PayloadsDiffer
<1> QED
  BY <1>8

\* The codes of refusals and the answer with one.
LEMMA RefusedWith ==
  ASSUME NEW refusal, refusal # None, NEW endpoint, NEW args, NEW ans \in AnswerTo(refusal, endpoint, args)
  PROVE  \E c \in Code : ans = RefusalWith(c)
<1>1. RefusalCode(refusal) \subseteq Code
  BY DEF RefusalCode, Code, InvalidArgument, ParseError, ValidationError, IOError, NotFound, InternalError
<1> QED
  BY <1>1 DEF AnswerTo, RefusalWith

\* All the checks that a request passes, or the one that it is refused for.
LEMMA Verdict ==
  ASSUME NEW d, NEW t, NEW target, NEW now, NEW refusal, refusal = Refusal(d, t, target, now)
  PROVE  \/ /\ refusal = None
            /\ Passes("frame", d, t, target, now) /\ Passes("method", d, t, target, now)
            /\ Passes("arguments", d, t, target, now)
            /\ d.token # <<>> => Passes("token", d, t, target, now) /\ Passes("signature", d, t, target, now)
         \/ /\ refusal \in CheckNames /\ refusal # None /\ ~Passes(refusal, d, t, target, now)
            /\ d.token = <<>> => refusal \in {"frame", "method", "arguments", "capability"}
<1> PICK checks : checks = ChecksOf(d)
  OBVIOUS
<1> PICK n : n = IF d.token = <<>> THEN 4 ELSE 14
  OBVIOUS
<1>0. n \in Nat /\ n = Len(checks) /\ checks \in Seq(CheckNames)
  BY ChecksAre
<1>1. /\ \A i \in 1 .. n : checks[i] \in CheckNames
      /\ checks[1] = "frame" /\ checks[2] = "method" /\ checks[3] = "arguments" /\ checks[4] = "capability"
      /\ d.token # <<>> => checks[6] = "token" /\ checks[7] = "signature"
  BY <1>0, ChecksAre, ElementOfSeq
<1>2. \/ refusal = None /\ \A i \in 1 .. n : Passes(checks[i], d, t, target, now)
      \/ \E i \in 1 .. n : refusal = checks[i] /\ ~Passes(checks[i], d, t, target, now)
  BY <1>0, RefusalIs
<1>3. CASE refusal = None /\ \A i \in 1 .. n : Passes(checks[i], d, t, target, now)
  <2>1. Passes(checks[1], d, t, target, now) /\ Passes(checks[2], d, t, target, now)
        /\ Passes(checks[3], d, t, target, now)
    BY <1>3
  <2>2. d.token # <<>> => Passes(checks[6], d, t, target, now) /\ Passes(checks[7], d, t, target, now)
    BY <1>3
  <2> QED
    BY <1>1, <1>3, <2>1, <2>2
<1>4. ASSUME NEW i \in 1 .. n, refusal = checks[i], ~Passes(checks[i], d, t, target, now)
      PROVE  /\ refusal \in CheckNames /\ refusal # None /\ ~Passes(refusal, d, t, target, now)
             /\ d.token = <<>> => refusal \in {"frame", "method", "arguments", "capability"}
  <2>1. refusal \in CheckNames
    BY <1>1, <1>4
  <2>2. refusal # None
    BY <2>1 DEF CheckNames, None
  <2>3. ASSUME d.token = <<>> PROVE refusal \in {"frame", "method", "arguments", "capability"}
    <3>1. i = 1 \/ i = 2 \/ i = 3 \/ i = 4
      BY <2>3
    <3> QED
      BY <1>1, <1>4, <3>1
  <2> QED
    BY <1>4, <2>1, <2>2, <2>3
<1> QED
  BY <1>2, <1>3, <1>4

\* What was passed is what a handler has under the names of its arguments.
LEMMA PassedIsDecoded ==
  ASSUME NEW iss, NEW req, Built(req, iss)
  PROVE  /\ ValuesAsMap(req.message.args) = [n \in DOMAIN req.payload |-> Trim(req.payload[n])]
         /\ \A n \in DOMAIN req.payload : Encodes(Trim(req.payload[n]))
<1> PICK params, payload : params = req.doc.methods[req.message.method].inputs /\ payload = req.payload
  OBVIOUS
<1>1. /\ params \in Seq(Parameter) /\ IsObject(payload) /\ Taken(params, payload)
      /\ req.message = [method |-> req.message.method, args |-> ValuesOf(params, payload)]
  BY ExchangeAssumption DEF Built, IsDocument
<1>2. req.message.args = ValuesOf(params, payload)
  BY <1>1
<1>3. \A n \in DOMAIN payload : ClassOf(Trim(payload[n])) \in InJSON
  BY <1>1, ClassOfTrimmed DEF Taken, IsObject
<1>4. \A n \in DOMAIN payload : Encodes(Trim(payload[n]))
  BY <1>3 DEF Encodes, InJSON
<1>5. ValuesAsMap(ValuesOf(params, payload)) = [n \in DOMAIN payload |-> Trim(payload[n])]
  BY <1>1, TakenIsDecoded
<1> QED
  BY <1>2, <1>4, <1>5

\* Resolving a request keeps the invariant.
LEMMA ResolveKeeps ==
  ASSUME Inv, Resolve
  PROVE  Inv'
<1> PICK d : d = Decoded(request.frame)
  OBVIOUS
<1> PICK t : t = Decode(d.token)
  OBVIOUS
<1> PICK args : args = ValuesAsMap(d.message.args)
  OBVIOUS
<1> PICK tokens : tokens = IF d.token = <<>> THEN {} ELSE {t.val}
  OBVIOUS
<1>1. PICK endpoint \in {"serve", "decode"}, target \in Target, now \in Now :
        \E refusal \in {Refusal(d, t, target, now)} :
          /\ invocation' = IF refusal # None THEN [refusal |-> refusal]
               ELSE [refusal |-> None, endpoint |-> endpoint, method |-> d.message.method,
                     names |-> Names(d.message.args), args |-> args, tokens |-> tokens]
          /\ answer' \in AnswerTo(refusal, endpoint, args)
  BY DEF Resolve, DecodedArguments
<1> PICK refusal :
      /\ refusal = Refusal(d, t, target, now)
      /\ invocation' = IF refusal # None THEN [refusal |-> refusal]
           ELSE [refusal |-> None, endpoint |-> endpoint, method |-> d.message.method,
                 names |-> Names(d.message.args), args |-> args, tokens |-> tokens]
      /\ answer' \in AnswerTo(refusal, endpoint, args)
  BY <1>1
<1>2. /\ request # NoRequest /\ invocation = NoInvocation /\ answer = NoAnswer
      /\ UNCHANGED <<tokenVars, served, rings, request, view>>
  BY DEF Resolve
<1>3. /\ request' = request /\ served' = served /\ issued' = issued /\ view = NoView
      /\ request.frame \in Str /\ (request.from = "cli" => Built(request, issued))
  BY <1>2 DEF Inv, AskedInv, Asked, ViewedInv, Viewed, NoAnswer, None, tokenVars
<1> PICK req, srv, iss : req = request /\ srv = served /\ iss = issued
  OBVIOUS
<1> PICK inv, ans : inv = invocation' /\ ans = answer'
  OBVIOUS
<1>4. \/ /\ refusal = None
         /\ Passes("frame", d, t, target, now) /\ Passes("method", d, t, target, now)
         /\ Passes("arguments", d, t, target, now)
         /\ d.token # <<>> => Passes("token", d, t, target, now) /\ Passes("signature", d, t, target, now)
      \/ /\ refusal \in CheckNames /\ refusal # None /\ ~Passes(refusal, d, t, target, now)
         /\ d.token = <<>> => refusal \in {"frame", "method", "arguments", "capability"}
  BY Verdict
<1>5. ASSUME refusal # None PROVE ResolvedInv' /\ AnsweredInv'
  <2>1. invocation' = [refusal |-> refusal] /\ refusal \in CheckNames
    BY <1>1, <1>4, <1>5
  <2>2. ASSUME req.from = "cli", req.doc = srv, FitsOf(req)
        PROVE  refusal \in {"keyring", "signature", "window", "target", "replay"}
    <3>1. /\ Passes("frame", d, t, target, now) /\ Passes("method", d, t, target, now)
          /\ Passes("arguments", d, t, target, now) /\ Passes("capability", d, t, target, now)
          /\ d.token # <<>> => /\ Passes("token", d, t, target, now) /\ Passes("schema", d, t, target, now)
                               /\ Passes("fingerprint", d, t, target, now)
                               /\ Passes("condition", d, t, target, now)
                               /\ Passes("scope", d, t, target, now)
      <4>1. Built(req, iss) /\ req.doc = served /\ d = Decoded(req.frame)
        BY <1>3, <2>2
      <4> QED
        BY <2>2, <4>1, BuiltIsRefused
    <3> QED
      BY <1>4, <1>5, <3>1 DEF CheckNames
  <2>3. inv = [refusal |-> refusal] /\ inv.refusal = refusal
    BY <2>1
  <2>4. Refused(srv, req, inv)
    BY <2>1, <2>2, <2>3 DEF Refused
  <2>5. \E c \in Code : ans = RefusalWith(c)
    BY <1>1, <1>5, RefusedWith
  <2> QED
    BY <1>2, <1>3, <2>4, <2>5 DEF ResolvedInv, Resolved, AnsweredInv, Answered
<1>6. ASSUME refusal = None PROVE ResolvedInv' /\ AnsweredInv'
  <2>1. /\ invocation' = [refusal |-> None, endpoint |-> endpoint, method |-> d.message.method,
                          names |-> Names(d.message.args), args |-> args, tokens |-> tokens]
        /\ d.ok /\ d.message.method \in DOMAIN served.methods
        /\ ValidateValues(d.message.args, served.methods[d.message.method].inputs)
        /\ d.token # <<>> => t.ok /\ \E ring \in rings : Verify(ring, signed, t.val)
    <3>1. None \notin CheckNames
      BY DEF None, CheckNames
    <3> QED
      BY <1>1, <1>4, <1>6, <3>1, PassesIs
  <2>2. /\ inv.refusal = None /\ inv.endpoint = endpoint
        /\ inv.method = d.message.method /\ inv.names = Names(d.message.args)
        /\ inv.args = args /\ inv.tokens = tokens
    <3>1. PICK x : x = [refusal |-> None, endpoint |-> endpoint, method |-> d.message.method,
                        names |-> Names(d.message.args), args |-> args, tokens |-> tokens]
      OBVIOUS
    <3>2. /\ x.refusal = None /\ x.endpoint = endpoint
          /\ x.method = d.message.method /\ x.names = Names(d.message.args)
          /\ x.args = args /\ x.tokens = tokens
      BY <3>1, Zenon
    <3>3. inv = x
      BY <2>1, <3>1, Zenon
    <3> QED
      BY <3>2, <3>3, Zenon
  <2>3. DOMAIN args = Names(d.message.args)
    BY <2>1, ValidAreDecoded
  <2>4. ASSUME req.from = "cli", FitsOf(req)
        PROVE  /\ args = [n \in DOMAIN req.payload |-> Trim(req.payload[n])]
               /\ \A n \in DOMAIN args : Encodes(args[n])
    <3>1. Built(req, iss) /\ d = Decoded(req.frame)
      BY <1>3, <2>4
    <3>2. d.message = req.message
      BY <2>4, <3>1, BuiltIsDecoded
    <3>3. /\ ValuesAsMap(req.message.args) = [n \in DOMAIN req.payload |-> Trim(req.payload[n])]
          /\ \A n \in DOMAIN req.payload : Encodes(Trim(req.payload[n]))
      BY <3>1, PassedIsDecoded
    <3>4. args = [n \in DOMAIN req.payload |-> Trim(req.payload[n])]
      BY <3>2, <3>3
    <3> QED
      BY <3>3, <3>4
  <2>5. ASSUME Fit(iss) PROVE tokens \subseteq iss
    <3>1. CASE d.token = <<>>
      BY <3>1
    <3>2. CASE d.token # <<>>
      <4>1. PICK ring \in rings : Verify(ring, signed, t.val)
        BY <2>1, <3>2
      <4>2. t.ok
        BY <2>1, <3>2
      <4>3. d.token \in Str
        <5>1. PICK frame \in Str : frame = request.frame
          BY <1>3
        <5>2. Decoded(frame).ok /\ Decoded(frame).token = d.token
          BY <2>1, <5>1
        <5> QED
          BY <5>2, DecodedSpellsOut
      <4>4. PICK data \in Str : data = d.token
        BY <4>3
      <4>5. Decode(data).ok /\ Verify(ring, signed, Decode(data).val) /\ Pool(signed, iss)
        BY <4>1, <4>2, <4>4 DEF Inv, PoolInv
      <4>6. Decode(data).val \in iss
        BY <2>5, <4>5, VerifiedIsIssued
      <4> QED
        BY <3>2, <4>4, <4>6
    <3> QED
      BY <3>1, <3>2
  <2>6. Taking(srv, iss, req, inv)
    BY <2>1, <2>2, <2>3, <2>4, <2>5 DEF Taking
  <2>7. \/ ans = NoAnswer
        \/ ans = [status |-> 200, from |-> "command",
                      body |-> IF \A n \in DOMAIN args : Encodes(args[n]) THEN <<args>> ELSE <<>>]
    BY <1>1, <1>6 DEF AnswerTo
  <2>8. CASE ans = NoAnswer
    BY <1>2, <1>3, <2>6, <2>8 DEF ResolvedInv, Resolved, AnsweredInv, Answered
  <2>9. CASE ans = [status |-> 200, from |-> "command",
                        body |-> IF \A n \in DOMAIN args : Encodes(args[n]) THEN <<args>> ELSE <<>>]
    <3>1. ans.from = "command" /\ ans.status = 200
          /\ ans.body = IF \A n \in DOMAIN args : Encodes(args[n]) THEN <<args>> ELSE <<>>
      BY <2>9
    <3>2. req.from = "cli" /\ FitsOf(req) => ans.body # <<>>
      BY <2>4, <3>1
    <3> QED
      BY <1>2, <1>3, <2>2, <2>6, <3>1, <3>2 DEF ResolvedInv, Resolved, AnsweredInv, Answered
  <2> QED
    BY <2>7, <2>8, <2>9
<1>7. served' \in Document /\ PoolInv' /\ KeptInv' /\ AskedInv' /\ ViewedInv'
  BY <1>2, <1>3 DEF Inv, PoolInv, KeptInv, AskedInv, ViewedInv, Viewed, tokenVars, NoView
<1> QED
  BY <1>5, <1>6, <1>7 DEF Inv

-----------------------------------------------------------------------------
(* The answer *)

\* An outcome of a handler or a host keeps the invariant.
LEMMA RespondKeeps ==
  ASSUME Inv, NEW o \in Outcome, Respond(o)
  PROVE  Inv'
<1> PICK srv, req, inv, ans : srv = served /\ req = request /\ inv = invocation /\ ans = answer'
  OBVIOUS
<1>1. /\ inv.refusal = None
      /\ inv.endpoint = "decode" => answer.from = "command"
      /\ inv.endpoint # "decode" => answer = NoAnswer
      /\ \/ ans = [status |-> 400, from |-> "refusal", code |-> ValidationError,
                   body |-> ErrorText(ValidationError, <<>>)]
         \/ ans = OutcomeOf(srv, inv, o)
      /\ UNCHANGED <<tokenVars, serviceVars, request, invocation, view>>
  BY DEF Respond, OutcomeOf
<1>2. view = NoView
  BY <1>1 DEF Inv, ViewedInv, Viewed, NoAnswer, None
<1>3. req # NoRequest
  <2>1. inv # NoInvocation
    BY <1>1 DEF NoInvocation, None
  <2> QED
    BY <2>1 DEF Inv, ResolvedInv, Resolved
<1>4. Answered(srv, req, inv, ans)
  <2>1. RefusalWith(ValidationError) = [status |-> 400, from |-> "refusal", code |-> ValidationError,
                                        body |-> ErrorText(ValidationError, <<>>)]
        /\ ValidationError \in Code
    BY DEF RefusalWith, HttpStatus, Code, InvalidArgument, ValidationError, NotFound, InternalError
  <2> QED
    BY <1>1, <1>3, <2>1 DEF Answered
<1>5. AnsweredInv' /\ ViewedInv' /\ ResolvedInv'
  BY <1>1, <1>2, <1>4 DEF Inv, AnsweredInv, ViewedInv, Viewed, ResolvedInv, serviceVars, tokenVars
<1> QED
  BY <1>1, <1>5 DEF Inv, PoolInv, KeptInv, AskedInv, serviceVars, tokenVars

\* A refusal of the registry keeps the invariant.
LEMMA RegistryRefusesKeeps ==
  ASSUME Inv, NEW code \in Code, RegistryRefuses(code)
  PROVE  Inv'
<1> PICK srv, req, inv, ans : srv = served /\ req = request /\ inv = invocation /\ ans = answer'
  OBVIOUS
<1>1. /\ req.from = "cli" /\ inv = NoInvocation /\ answer = NoAnswer /\ ans = RefusalWith(code)
      /\ UNCHANGED <<tokenVars, serviceVars, request, invocation, view>>
  BY DEF RegistryRefuses, RefusalWith
<1>2. view = NoView
  BY <1>1 DEF Inv, ViewedInv, Viewed, NoAnswer, None
<1>3. req # NoRequest
  BY <1>1 DEF NoRequest, None
<1>4. Answered(srv, req, inv, ans)
  BY <1>1, <1>3 DEF Answered
<1>5. AnsweredInv' /\ ViewedInv' /\ ResolvedInv'
  BY <1>1, <1>2, <1>4 DEF Inv, AnsweredInv, ViewedInv, Viewed, ResolvedInv, serviceVars, tokenVars
<1> QED
  BY <1>1, <1>5 DEF Inv, PoolInv, KeptInv, AskedInv, serviceVars, tokenVars

\* Where an answer that is read may come from.
LEMMA AnswersAre ==
  ASSUME NEW srv, NEW req, NEW inv, NEW ans, Answered(srv, req, inv, ans)
  PROVE  ans = NoAnswer \/ ans.from \in {"refusal", "command", "outcome"}
BY DEF Answered, RefusalWith, OutcomeOf

\* Reading an answer keeps the invariant.
LEMMA ReadKeeps ==
  ASSUME Inv, NEW toFile \in BOOLEAN, NEW relayed \in BOOLEAN, Read(toFile, relayed)
  PROVE  Inv'
<1> PICK ans, vw : ans = answer /\ vw = view'
  OBVIOUS
<1>1. /\ ans # NoAnswer /\ ans.from # "command" /\ vw = ViewOf(ans, toFile, relayed)
      /\ UNCHANGED <<tokenVars, serviceVars, request, invocation, answer>>
  BY DEF Read, ViewOf, InvokeFails, TooLongToPrint
<1>2. ans.from \in {"refusal", "outcome"}
  BY <1>1, AnswersAre DEF Inv, AnsweredInv
<1>3. Viewed(ans, vw)
  BY <1>1, <1>2 DEF Viewed
<1> QED
  BY <1>1, <1>3
     DEF Inv, PoolInv, KeptInv, AskedInv, ResolvedInv, AnsweredInv, ViewedInv, serviceVars, tokenVars

\* Sending a request again, or being done with it, keeps the invariant.
LEMMA AgainKeeps ==
  ASSUME Inv, Again
  PROVE  Inv'
<1>1. /\ invocation' = NoInvocation /\ answer' = NoAnswer /\ view' = NoView
      /\ request' = request \/ request' = NoRequest
      /\ UNCHANGED <<tokenVars, serviceVars>>
  BY DEF Again
<1>2. AskedInv'
  BY <1>1 DEF Inv, AskedInv, Asked, tokenVars
<1>3. ResolvedInv' /\ AnsweredInv' /\ ViewedInv'
  BY <1>1 DEF ResolvedInv, Resolved, AnsweredInv, Answered, ViewedInv, Viewed
<1> QED
  BY <1>1, <1>2, <1>3 DEF Inv, PoolInv, KeptInv, serviceVars, tokenVars

-----------------------------------------------------------------------------
(* The invariant *)

\* It holds where the system starts.
LEMMA InitIsInv == Init => Inv
<1> SUFFICES ASSUME Init PROVE Inv
  OBVIOUS
<1> PICK f : f = [cap |-> <<>>, refresh |-> <<>>]
  OBVIOUS
<1>1. f \in Texts
  <2>1. <<>> \in Seq(Character)
    OBVIOUS
  <2> PICK e \in Seq(Character) : e = <<>>
    BY <2>1
  <2>2. f = [cap |-> e, refresh |-> e]
    OBVIOUS
  <2> QED
    BY <2>2, TextsOf
<1>2. files = f /\ writing = [paths |-> <<>>, todo |-> <<>>, open |-> FALSE, text |-> f]
  BY DEF Init
<1>3. f["cap"] = <<>> /\ <<>> \in FileLists
  BY DEF FileLists
<1>4. KeptInv
  BY <1>1, <1>2, <1>3 DEF Init, KeptInv, Kept
<1>5. PoolInv
  <2> PICK T : T = [key : {o.key : o \in Options}, payload : Str]
    OBVIOUS
  <2>1. <<>> \in Seq(T) /\ Len(<<>>) = 0
    OBVIOUS
  <2>2. 0 <= MaxTokens
    BY ExchangeAssumption DEF Word
  <2> QED
    BY <2>1, <2>2 DEF Init, PoolInv, Pool
<1> QED
  BY <1>4, <1>5
     DEF Init, Inv, AskedInv, Asked, ResolvedInv, Resolved, AnsweredInv, Answered, ViewedInv, Viewed

\* Every step keeps it, each by its lemma.
LEMMA NextKeepsInv == Inv /\ [Next]_vars => Inv'
<1> SUFFICES ASSUME Inv, [Next]_vars PROVE Inv'
  OBVIOUS
<1>1. ASSUME NEW o \in Options, NEW paths \in Paths, IssueToken(o, paths) PROVE Inv'
  BY <1>1, IssueTokenKeeps
<1>2. ASSUME OpenFile PROVE Inv'
  BY <1>2, OpenFileKeeps
<1>3. ASSUME GiveUp PROVE Inv'
  BY <1>3, GiveUpKeeps
<1>4. ASSUME NEW n \in CutAt \cup {IF writing.todo = <<>> THEN 0 ELSE Len(Line)}, WriteFile(n) PROVE Inv'
  <2>1. writing.todo # <<>>
    BY <1>4 DEF WriteFile
  <2>2. n \in Nat
    BY <2>1, WritingIs, ExchangeAssumption
  <2> QED
    BY <1>4, <2>2, WriteFileKeeps
<1>5. ASSUME NEW doc \in Document, NEW ref \in DOMAIN Payloads, NEW payload \in Payloads[ref],
             NEW capability \in BOOLEAN, BuildRequest(doc, ref, payload, capability)
      PROVE  Inv'
  <2>1. IsObject(payload)
    BY ExchangeAssumption
  <2> QED
    BY <1>5, <2>1, BuildRequestKeeps
<1>6. ASSUME NEW m \in Foreign, NEW tokens \in {{}} \cup {{t} : t \in issued}, OtherRequest(m, tokens)
      PROVE  Inv'
  BY <1>6, OtherRequestKeeps
<1>7. ASSUME NEW i, Damage(i) PROVE Inv'
  BY <1>7, DamageKeeps
<1>8. ASSUME Resolve PROVE Inv'
  BY <1>8, ResolveKeeps
<1>9. ASSUME NEW o \in Outcome, Respond(o) PROVE Inv'
  BY <1>9, RespondKeeps
<1>10. ASSUME NEW code \in Code, RegistryRefuses(code) PROVE Inv'
  BY <1>10, RegistryRefusesKeeps
<1>11. ASSUME NEW toFile \in BOOLEAN, NEW relayed \in BOOLEAN, Read(toFile, relayed) PROVE Inv'
  BY <1>11, ReadKeeps
<1>12. ASSUME Again PROVE Inv'
  BY <1>12, AgainKeeps
<1>13. ASSUME UNCHANGED vars PROVE Inv'
  BY <1>13 DEF vars, tokenVars, serviceVars, Inv, PoolInv, KeptInv, AskedInv, ResolvedInv, AnsweredInv, ViewedInv
<1> QED
  BY <1>1, <1>2, <1>3, <1>4, <1>5, <1>6, <1>7, <1>8, <1>9, <1>10, <1>11, <1>12, <1>13 DEF Next

\* Inv holds in every state of the system of one consumer and one service.
THEOREM ExchangeInvariant == Spec => []Inv
BY InitIsInv, NextKeepsInv, PTL DEF Spec

-----------------------------------------------------------------------------
(* Responses *)

\* The text of a refusal, which nothing trims.
LEMMA ErrorTextIs ==
  ASSUME NEW c \in Code
  PROVE  LET text == ErrorText(c, <<>>)
         IN /\ text \in Str /\ Len(text) = 2 /\ text[1] = c /\ text[2] = Colon /\ Trim(text) = text
            /\ Colon # 1
<1>1. c \in Word /\ Colon \in Word /\ c # Blank /\ Colon # Blank /\ Colon # 1 /\ Colon \notin Code
  BY TextAssumption DEF Code, InvalidArgument, InternalError, Blank
<1>2. ErrorText(c, <<>>) = <<c, Colon>>
  BY DEF ErrorText
<1> PICK text : text = <<c, Colon>>
  OBVIOUS
<1>3. text \in Seq(Word) /\ Len(text) = 2 /\ text[1] = c /\ text[2] = Colon
  BY <1>1
<1>4. Trim(text) = text
  <2>1. Len(text) > 0 /\ text[1] # Blank /\ text[Len(text)] # Blank
    BY <1>1, <1>3
  <2> QED
    BY <1>3, <2>1, TrimKeeps
<1> QED
  BY <1>1, <1>2, <1>3, <1>4 DEF Str

\* The client's error has the code of the refusal.
LEMMA CodeIsRead ==
  ASSUME NEW c \in Code
  PROVE  ResponseError(HttpStatus(c), ErrorText(c, <<>>)).code = c
<1> PICK text : text = ErrorText(c, <<>>)
  OBVIOUS
<1>1. Trim(text) = text /\ Len(text) = 2 /\ text[1] = c /\ text[2] = Colon
  BY ErrorTextIs
<1>2. ResponseError(HttpStatus(c), text).code = CodeFromStatus(HttpStatus(c), text)
  BY <1>1 DEF ResponseError
<1>3. \A d \in Code : HasPrefix(text, d) <=> d = c
  BY <1>1 DEF HasPrefix
<1>4. CASE c = InvalidArgument
  <2>1. ~ \E d \in Code \ {InvalidArgument} : HasPrefix(text, d)
    BY <1>3, <1>4
  <2>2. HttpStatus(c) = 400
    BY <1>4 DEF HttpStatus, InvalidArgument, NotFound, InternalError
  <2>3. CodeFromStatus(400, text) = InvalidArgument
    BY <2>1 DEF CodeFromStatus
  <2> QED
    BY <1>2, <1>4, <2>2, <2>3
<1>5. CASE c # InvalidArgument
  <2>1. \E d \in Code \ {InvalidArgument} : HasPrefix(text, d)
    BY <1>3, <1>5
  <2> QED
    BY <1>1, <1>2, <2>1 DEF CodeFromStatus
<1> QED
  BY <1>4, <1>5

\* The parts of a response, each where the one before it ends.
RMagicOf(data) == ReadWord(data, 1)
RVersionOf(data) == ReadWord(data, RMagicOf(data).off)
RMethodOf(data) == ReadString(data, RVersionOf(data).off)
MarkerOf(data) == ReadWord(data, RMethodOf(data).off)
CodeOf(data) == ReadString(data, MarkerOf(data).off)
SayingOf(data) == ReadString(data, CodeOf(data).off)
OutputsOf(data) == ReadMany(ReaderOf(data), data, MarkerOf(data).off)

\* How a response is decoded, part by part.
LEMMA DecodeResponseOf ==
  ASSUME NEW data
  PROVE  /\ MarkerOf(data).val = 1 =>
              /\ DecodeResponse(data).ok <=>
                   /\ RMagicOf(data).ok /\ RMagicOf(data).val = ResponseMagic /\ RVersionOf(data).val = 1
                   /\ MarkerOf(data).ok /\ SayingOf(data).ok /\ SayingOf(data).off = Len(data) + 1
              /\ DecodeResponse(data).val =
                   [method |-> RMethodOf(data).val, outputs |-> <<>>,
                    code |-> CodeOf(data).val, message |-> SayingOf(data).val]
         /\ MarkerOf(data).val = 0 =>
              /\ DecodeResponse(data).ok <=>
                   /\ RMagicOf(data).ok /\ RMagicOf(data).val = ResponseMagic /\ RVersionOf(data).val = 1
                   /\ MarkerOf(data).ok /\ OutputsOf(data).ok /\ OutputsOf(data).off = Len(data) + 1
              /\ DecodeResponse(data).val =
                   [method |-> RMethodOf(data).val, outputs |-> OutputsOf(data).val,
                    code |-> <<>>, message |-> <<>>]
         /\ DecodeResponse(data).ok => RMagicOf(data).ok /\ RVersionOf(data).val = 1
<1> DEFINE last == IF MarkerOf(data).val = 1 THEN SayingOf(data) ELSE OutputsOf(data)
           ok == /\ RMagicOf(data).ok /\ RMagicOf(data).val = ResponseMagic /\ RVersionOf(data).val = 1
                 /\ MarkerOf(data).ok /\ MarkerOf(data).val \in {0, 1} /\ last.ok /\ last.off = Len(data) + 1
           val == [method |-> RMethodOf(data).val,
                   outputs |-> IF MarkerOf(data).val = 1 THEN <<>> ELSE OutputsOf(data).val,
                   code |-> IF MarkerOf(data).val = 1 THEN CodeOf(data).val ELSE <<>>,
                   message |-> IF MarkerOf(data).val = 1 THEN SayingOf(data).val ELSE <<>>]
<1>1. DecodeResponse(data) = [ok |-> ok, val |-> val]
  BY Zenon
     DEF DecodeResponse, RMagicOf, RVersionOf, RMethodOf, MarkerOf, CodeOf, SayingOf, OutputsOf, ReaderOf
<1>2. (DecodeResponse(data).ok <=> ok) /\ DecodeResponse(data).val = val
  <2> HIDE DEF ok, val
  <2> QED
    BY <1>1
<1>3. CASE MarkerOf(data).val = 1
  BY <1>2, <1>3
<1>4. CASE MarkerOf(data).val # 1
  BY <1>2, <1>4
<1> QED
  BY <1>3, <1>4

\* No refusal, and no empty body, is read as a response.
LEMMA NoResponse ==
  /\ ~DecodeResponse(<<>>).ok
  /\ \A c \in Code : ~DecodeResponse(ErrorText(c, <<>>)).ok
<1>1. ~DecodeResponse(<<>>).ok
  <2>1. ~RMagicOf(<<>>).ok
    BY DEF RMagicOf, ReadWord
  <2> QED
    BY <2>1, DecodeResponseOf
<1>2. ASSUME NEW c \in Code PROVE ~DecodeResponse(ErrorText(c, <<>>)).ok
  <2> PICK text : text = ErrorText(c, <<>>)
    OBVIOUS
  <2>1. text \in Str /\ Len(text) = 2 /\ text[2] = Colon /\ Colon # 1
    BY ErrorTextIs
  <2>2. DOMAIN text = 1 .. 2
    BY <2>1, StrFacts
  <2>3. RMagicOf(text).off = 2
    BY <2>2 DEF RMagicOf, ReadWord
  <2>4. RVersionOf(text).val = Colon
    BY <2>1, <2>2, <2>3 DEF RVersionOf, ReadWord
  <2> QED
    BY <2>1, <2>4, DecodeResponseOf
<1> QED
  BY <1>1, <1>2

\* The beginning of a response: its method, and whether it is an error.
LEMMA ResponseBegins ==
  ASSUME NEW data \in Str, NEW ref \in Str, Short(ref), NEW w \in Word, NEW head \in Str,
         head = <<ResponseMagic, 1>> \o PutString(ref), At(data, 1, head), At(data, 1 + Len(head), <<w>>)
  PROVE  /\ RMagicOf(data).ok /\ RMagicOf(data).val = ResponseMagic /\ RVersionOf(data).val = 1
         /\ RMethodOf(data).val = ref
         /\ MarkerOf(data).ok /\ MarkerOf(data).val = w /\ MarkerOf(data).off = 2 + Len(head)
<1>1. ResponseMagic \in Word /\ 1 \in Word
  BY ResponseAssumption, SmallWords
<1>2. PICK s \in Str : s = <<ResponseMagic, 1>> /\ Len(s) = 2
  BY <1>1, TwoOf
<1>3. PICK t \in Str : t = PutString(ref)
  BY PutStringOf
<1>4. At(data, 1, s) /\ At(data, 1 + 2, t) /\ Len(head) = 2 + Len(t)
  <2>1. head = s \o t
    BY <1>2, <1>3
  <2>2. At(data, 1, s \o t)
    BY <2>1
  <2>3. At(data, 1, s) /\ At(data, 1 + Len(s), t)
    BY <2>2, AtConcat
  <2>4. Len(s \o t) = Len(s) + Len(t)
    BY StrOf
  <2> QED
    BY <1>2, <2>1, <2>3, <2>4
<1>5. At(data, 1, <<ResponseMagic>>) /\ At(data, 1 + 1, <<1>>)
  BY <1>1, <1>2, <1>4, TwoAt
<1>6. PICK magic : magic = RMagicOf(data) /\ magic = ReadWord(data, 1)
  BY DEF RMagicOf
<1>7. magic.ok = TRUE /\ magic.val = ResponseMagic /\ magic.off = 2
  BY <1>5, <1>6, ReadWordAt
<1>8. PICK version : version = RVersionOf(data) /\ version = ReadWord(data, 2)
  BY <1>6, <1>7 DEF RVersionOf
<1>9. version.val = 1 /\ version.off = 3
  BY <1>5, <1>8, ReadWordAt
<1>10. PICK method : method = RMethodOf(data) /\ method = ReadString(data, 3)
  BY <1>8, <1>9 DEF RMethodOf
<1>11. method.val = ref /\ method.off = 3 + Len(t)
  <2>1. method = Found(t, ref, 3)
    BY <1>3, <1>4, <1>10, ReadStringAt
  <2> QED
    BY <2>1 DEF Found
<1>12. Len(t) \in Nat
  BY StrFacts
<1>13. PICK marker : marker = MarkerOf(data) /\ marker = ReadWord(data, 1 + Len(head))
  BY <1>4, <1>10, <1>11, <1>12 DEF MarkerOf
<1>14. marker.ok = TRUE /\ marker.val = w /\ marker.off = (1 + Len(head)) + 1
  BY <1>13, ReadWordAt
<1> QED
  BY <1>4, <1>6, <1>7, <1>8, <1>9, <1>10, <1>11, <1>12, <1>13, <1>14

\* An error is read as it was sent.
LEMMA ErrorIsRead ==
  ASSUME NEW r \in Response, IsError(r), Encodable(r)
  PROVE  DecodeResponse(EncodeResponse(r)).ok /\ DecodeResponse(EncodeResponse(r)).val = Said(r)
<1>1. /\ r.method \in Str /\ r.code \in Str /\ r.message \in Str
      /\ Short(r.method) /\ Short(r.code) /\ Short(r.message)
  BY DEF Response, Encodable
<1>2. PICK m \in Str, c \in Str, s \in Str :
        m = PutString(r.method) /\ c = PutString(r.code) /\ s = PutString(r.message)
  BY <1>1, PutStringOf
<1>3. PICK head \in Str : head = <<ResponseMagic, 1>> \o m
  <2>1. <<ResponseMagic, 1>> \in Str
    BY ResponseAssumption, SmallWords, TwoOf
  <2> QED
    BY <2>1, StrOf
<1>4. PICK one \in Str : one = <<1>> /\ Len(one) = 1
  BY SmallWords, StrOf
<1>5. PICK oc \in Str : oc = one \o c /\ Len(oc) = 1 + Len(c)
  <2>1. one \o c \in Str /\ Len(one \o c) = Len(one) + Len(c)
    BY StrOf
  <2> QED
    BY <1>4, <2>1
<1>6. PICK tail \in Str : tail = oc \o s /\ Len(tail) = Len(oc) + Len(s)
  BY <1>5, StrOf
<1>7. PICK data \in Str : data = head \o tail /\ Len(data) = Len(head) + Len(tail)
  BY StrOf
<1>8. EncodeResponse(r) = data
  BY <1>2, <1>3, <1>4, <1>5, <1>6, <1>7 DEF EncodeResponse
<1>9. At(data, 1, head) /\ At(data, 1 + Len(head), tail)
  <2>1. At(data, 1, head \o tail)
    BY <1>7, AtWhole
  <2> QED
    BY <2>1, AtConcat
<1>10. At(data, 1 + Len(head), oc) /\ At(data, (1 + Len(head)) + Len(oc), s)
  BY <1>6, <1>9, AtConcat
<1>11. At(data, 1 + Len(head), <<1>>) /\ At(data, (1 + Len(head)) + 1, c)
  BY <1>4, <1>5, <1>10, AtConcat
<1>12. Len(head) \in Nat /\ Len(c) \in Nat /\ Len(s) \in Nat
  BY StrFacts
<1>13. /\ RMagicOf(data).ok /\ RMagicOf(data).val = ResponseMagic /\ RVersionOf(data).val = 1
       /\ RMethodOf(data).val = r.method
       /\ MarkerOf(data).ok /\ MarkerOf(data).val = 1 /\ MarkerOf(data).off = 2 + Len(head)
  BY ZenonT(30), <1>1, <1>2, <1>3, <1>9, <1>11, SmallWords, ResponseBegins
<1>14. CodeOf(data).val = r.code /\ CodeOf(data).off = (2 + Len(head)) + Len(c)
  <2>1. PICK code : code = CodeOf(data) /\ code = ReadString(data, 2 + Len(head))
    BY <1>13 DEF CodeOf
  <2>2. At(data, 2 + Len(head), c)
    BY <1>11, <1>12
  <2>3. code = Found(c, r.code, 2 + Len(head))
    BY <1>1, <1>2, <2>1, <2>2, ReadStringAt
  <2> QED
    BY <2>1, <2>3 DEF Found
<1>15. /\ SayingOf(data).ok /\ SayingOf(data).val = r.message /\ SayingOf(data).off = Len(data) + 1
  <2>1. PICK o \in Nat : o = (2 + Len(head)) + Len(c) /\ o = (1 + Len(head)) + Len(oc)
    BY <1>5, <1>12
  <2>2. PICK message : message = SayingOf(data) /\ message = ReadString(data, o)
    BY <1>14, <2>1 DEF SayingOf
  <2>3. At(data, o, s)
    BY <1>10, <2>1
  <2>4. message = Found(s, r.message, o)
    BY <1>1, <1>2, <2>2, <2>3, ReadStringAt
  <2>5. o + Len(s) = Len(data) + 1
    BY <1>5, <1>6, <1>7, <1>12, <2>1
  <2> QED
    BY <2>2, <2>4, <2>5 DEF Found
<1>16. /\ DecodeResponse(data).ok
       /\ DecodeResponse(data).val =
            [method |-> r.method, outputs |-> <<>>, code |-> r.code, message |-> r.message]
  BY <1>13, <1>14, <1>15, DecodeResponseOf
<1>17. Said(r) = [method |-> r.method, outputs |-> <<>>, code |-> r.code, message |-> r.message]
  BY DEF Said, Response
<1> QED
  BY <1>8, <1>16, <1>17

\* So are outputs, if their number and their values are no longer than their lengths say.
LEMMA SuccessIsRead ==
  ASSUME NEW r \in Response, ~IsError(r), Encodable(r), ShortValues(r.outputs)
  PROVE  DecodeResponse(EncodeResponse(r)).ok /\ DecodeResponse(EncodeResponse(r)).val = Said(r)
<1>1. /\ r.method \in Str /\ r.outputs \in Seq(Argument) /\ Short(r.method)
      /\ \A i \in DOMAIN r.outputs : Short(r.outputs[i].name)
      /\ r.code = <<>> /\ r.message = <<>>
  BY DEF Response, Encodable, IsError
<1>2. PICK outputs \in FitArguments : outputs = r.outputs
  <2>1. ShortArguments(r.outputs)
    BY <1>1 DEF ShortArguments
  <2> QED
    BY <1>1, <2>1, FitArgumentsAre
<1>3. PICK m \in Str, u \in Str : m = PutString(r.method) /\ u = PutArguments(outputs)
  BY <1>1, PutStringOf, PutArgumentsIs
<1>4. PICK head \in Str : head = <<ResponseMagic, 1>> \o m
  <2>1. <<ResponseMagic, 1>> \in Str
    BY ResponseAssumption, SmallWords, TwoOf
  <2> QED
    BY <2>1, StrOf
<1>5. PICK zero \in Str : zero = <<0>> /\ Len(zero) = 1
  BY SmallWords, StrOf
<1>6. PICK tail \in Str : tail = zero \o u /\ Len(tail) = 1 + Len(u)
  <2>1. zero \o u \in Str /\ Len(zero \o u) = Len(zero) + Len(u)
    BY StrOf
  <2> QED
    BY <1>5, <2>1
<1>7. PICK data \in Str : data = head \o tail /\ Len(data) = Len(head) + Len(tail)
  BY StrOf
<1>8. EncodeResponse(r) = data
  BY <1>2, <1>3, <1>4, <1>5, <1>6, <1>7 DEF EncodeResponse, PutArguments
<1>9. At(data, 1, head) /\ At(data, 1 + Len(head), tail)
  <2>1. At(data, 1, head \o tail)
    BY <1>7, AtWhole
  <2> QED
    BY <2>1, AtConcat
<1>10. At(data, 1 + Len(head), <<0>>) /\ At(data, (1 + Len(head)) + 1, u)
  BY <1>5, <1>6, <1>9, AtConcat
<1>11. Len(head) \in Nat /\ Len(u) \in Nat
  BY StrFacts
<1>12. /\ RMagicOf(data).ok /\ RMagicOf(data).val = ResponseMagic /\ RVersionOf(data).val = 1
       /\ RMethodOf(data).val = r.method
       /\ MarkerOf(data).ok /\ MarkerOf(data).val = 0 /\ MarkerOf(data).off = 2 + Len(head)
  BY ZenonT(30), <1>1, <1>3, <1>4, <1>9, <1>10, SmallWords, ResponseBegins
<1>13. /\ OutputsOf(data).ok /\ OutputsOf(data).val = outputs /\ OutputsOf(data).off = Len(data) + 1
  <2>1. PICK o \in Nat : o = 2 + Len(head) /\ o = (1 + Len(head)) + 1
    BY <1>11
  <2>2. PICK all : all = OutputsOf(data) /\ all = ReadMany(ReaderOf(data), data, o)
    BY <1>12, <2>1 DEF OutputsOf
  <2>3. At(data, o, PutArguments(outputs))
    BY <1>3, <1>10, <2>1
  <2>4. all = Found(u, outputs, o)
    BY <1>3, <2>2, <2>3, ArgumentsAt
  <2>5. o + Len(u) = Len(data) + 1
    BY <1>6, <1>7, <1>11, <2>1
  <2> QED
    BY <2>2, <2>4, <2>5 DEF Found
<1>14. /\ DecodeResponse(data).ok
       /\ DecodeResponse(data).val =
            [method |-> r.method, outputs |-> r.outputs, code |-> <<>>, message |-> <<>>]
  BY <1>2, <1>12, <1>13, DecodeResponseOf
<1>15. r = [method |-> r.method, outputs |-> r.outputs, code |-> <<>>, message |-> <<>>]
  BY <1>1 DEF Response
<1>16. Said(r) = r
  BY DEF Said
<1> QED
  BY <1>8, <1>14, <1>15, <1>16

\* Errors that are built are responses.
LEMMA ErrorOfIs ==
  ASSUME NEW ref \in Str, NEW code \in Str, NEW message \in Str
  PROVE  ErrorOf(ref, code, message) \in Response /\ IsError(ErrorOf(ref, code, message))
<1> PICK c : c = IF code = <<>> THEN <<Internal>> ELSE code
  OBVIOUS
<1>1. c \in Str /\ c # <<>>
  <2>1. <<Internal>> \in Str /\ Len(<<Internal>>) = 1 /\ Len(<<>>) = 0
    BY ResponseAssumption, StrOf
  <2> QED
    BY <2>1
<1>2. ErrorOf(ref, code, message) = [method |-> ref, outputs |-> <<>>, code |-> c, message |-> message]
  BY DEF ErrorOf
<1>3. <<>> \in Seq(Argument)
  OBVIOUS
<1> QED
  BY <1>1, <1>2, <1>3 DEF Response, IsError

\* What is made of an outcome is a response, and one that is no error has the outputs of
\* the method.
LEMMA OutcomeIsResponse ==
  ASSUME NEW o \in Outcome, NEW ref \in Str, NEW params \in Seq(Parameter), NEW endpoint,
         NEW r, r = ResponseTo(o, ref, params, endpoint)
  PROVE  /\ r \in Response
         /\ ~IsError(r) => ~Fails(o, endpoint) /\ ValidateValues(r.outputs, params)
<1>1. IsOutcome(o)
  BY ExchangeAssumption
<1> PICK outputs : outputs = IF o.kind = "outputs" THEN o.outputs ELSE <<>>
  OBVIOUS
<1> PICK invalid : invalid = ErrorOf(ref, <<ValidationError>>, <<>>)
  OBVIOUS
<1>2. invalid \in Response /\ IsError(invalid)
  <2>1. ValidationError \in Word
    BY TextAssumption DEF Code, InvalidArgument, ValidationError, InternalError
  <2>2. <<ValidationError>> \in Str /\ <<>> \in Str
    BY <2>1, StrOf
  <2> QED
    BY <2>2, ErrorOfIs
<1>3. CASE Fails(o, endpoint)
  <2>1. o.code \in Str /\ o.message \in Str
    BY <1>1, <1>3 DEF Fails, IsOutcome
  <2>2. Trim(o.code) \in Str /\ Trim(o.message) \in Str
    BY <2>1, TrimIs DEF Str
  <2>3. r = ErrorOf(ref, Trim(o.code), Trim(o.message))
    BY <1>3 DEF ResponseTo, Fails
  <2> QED
    BY <2>2, <2>3, ErrorOfIs
<1>4. CASE ~Fails(o, endpoint) /\ o.kind = "response"
  <2>1. r = IF ResponseMatches(o.response, ref, params) THEN o.response ELSE invalid
    BY <1>4 DEF ResponseTo
  <2>2. o.response \in Response
    BY <1>1, <1>4 DEF IsOutcome
  <2> QED
    BY <1>2, <1>4, <2>1, <2>2 DEF ResponseMatches
<1>5. CASE ~Fails(o, endpoint) /\ o.kind # "response"
  <2>1. r = IF Taken(params, outputs) THEN SuccessOf(ref, ValuesOf(params, outputs)) ELSE invalid
    BY <1>5 DEF ResponseTo, BuildValues
  <2>2. IsObject(outputs)
    BY <1>1 DEF IsOutcome, IsObject
  <2>3. CASE Taken(params, outputs)
    <3>1. PICK values \in Seq(Argument) : values = ValuesOf(params, outputs)
      BY <2>2, <2>3, ValuesAre
    <3>2. ValidateValues(values, params)
      BY <2>2, <2>3, <3>1, TakenIsValid
    <3>3. r = [method |-> ref, outputs |-> values, code |-> <<>>, message |-> <<>>]
      BY <2>1, <2>3, <3>1 DEF SuccessOf
    <3>4. <<>> \in Str
      BY StrOf
    <3> QED
      BY <1>5, <3>2, <3>3, <3>4 DEF Response
  <2> QED
    BY <1>2, <2>1, <2>3
<1> QED
  BY <1>3, <1>4, <1>5

\* The parts of the answer with an outcome.
LEMMA OutcomeOfIs ==
  ASSUME NEW srv, NEW inv, NEW o, NEW ans, ans = OutcomeOf(srv, inv, o)
  PROVE  /\ ans.status = 200 /\ ans.outcome = o /\ ans.from = "outcome"
         /\ ans.response = ResponseTo(o, inv.method, srv.methods[inv.method].outputs, inv.endpoint)
         /\ ans.body = IF Encodable(ans.response) THEN EncodeResponse(ans.response) ELSE <<>>
BY DEF OutcomeOf

\* What a client reads of an answer with an outcome.
LEMMA OutcomeIsRead ==
  ASSUME Inv, answer.from = "outcome"
  PROVE  \E o \in Outcome :
           /\ answer.status = 200 /\ answer.outcome = o /\ answer.response \in Response
           /\ answer.body = IF Encodable(answer.response) THEN EncodeResponse(answer.response) ELSE <<>>
           /\ ~IsError(answer.response) =>
                /\ ~Fails(o, invocation.endpoint)
                /\ ValidateValues(answer.response.outputs, served.methods[invocation.method].outputs)
           /\ invocation.endpoint \in {"serve", "decode"}
<1> PICK srv, req, inv, ans : srv = served /\ req = request /\ inv = invocation /\ ans = answer
  OBVIOUS
<1>1. PICK o \in Outcome : inv.refusal = None /\ ans = OutcomeOf(srv, inv, o)
  <2>1. Answered(srv, req, inv, ans) /\ ans.from = "outcome"
    BY DEF Inv, AnsweredInv
  <2> QED
    BY <2>1 DEF Answered, RefusalWith, NoAnswer, None
<1>2. inv.endpoint \in {"serve", "decode"} /\ inv.method \in DOMAIN srv.methods
  <2>1. Resolved(srv, issued, req, inv)
    BY DEF Inv, ResolvedInv
  <2> QED
    BY <1>1, <2>1 DEF Resolved, Refused, Taking, NoInvocation, None, CheckNames
<1> PICK params : params = srv.methods[inv.method].outputs
  OBVIOUS
<1>3. inv.method \in Str /\ params \in Seq(Parameter)
  <2>1. srv \in Document
    BY DEF Inv
  <2> QED
    BY <1>2, <2>1, ExchangeAssumption DEF IsDocument
<1>4. /\ ans.status = 200 /\ ans.outcome = o
      /\ ans.response = ResponseTo(o, inv.method, params, inv.endpoint)
      /\ ans.body = IF Encodable(ans.response) THEN EncodeResponse(ans.response) ELSE <<>>
  BY <1>1, OutcomeOfIs
<1>5. /\ ans.response \in Response
      /\ ~IsError(ans.response) =>
           ~Fails(o, inv.endpoint) /\ ValidateValues(ans.response.outputs, params)
  BY <1>3, <1>4, OutcomeIsResponse
<1> QED
  BY <1>2, <1>4, <1>5

-----------------------------------------------------------------------------
(* The theorems *)

\* A token command that says it is done left its pair in the files it was given.
THEOREM ReportedPairIsOnDiskHolds == Spec => []ReportedPairIsOnDisk
<1>1. Inv => ReportedPairIsOnDisk
  BY DEF Inv, KeptInv, Kept, ReportedPairIsOnDisk, Whole
<1> QED
  BY <1>1, ExchangeInvariant, PTL

\* A request of `clerm request` is built with no token but one that was issued, whatever
\* the token commands left in the capability file.
THEOREM BuiltTokenIsIssuedHolds == Spec => []BuiltTokenIsIssued
<1>1. Inv => BuiltTokenIsIssued
  <2> SUFFICES ASSUME Inv, request.from = "cli", AllFit PROVE request.tokens \subseteq issued
    BY DEF BuiltTokenIsIssued
  <2>1. Built(request, issued)
    BY DEF Inv, AskedInv, Asked, NoRequest, None
  <2> QED
    BY <2>1 DEF Built, AllFit, Fit
<1> QED
  BY <1>1, ExchangeInvariant, PTL

\* `clerm request` takes only payloads that the tool's schema describes.
THEOREM BuiltConformsToToolHolds == Spec => []BuiltConformsToTool
<1>1. Inv => BuiltConformsToTool
  <2> SUFFICES ASSUME Inv, request.from = "cli"
               PROVE  Conforms(request.doc.methods[request.message.method].inputs, request.payload)
    BY DEF BuiltConformsToTool
  <2> PICK req, iss : req = request /\ iss = issued
    OBVIOUS
  <2>1. Built(req, iss)
    BY DEF Inv, AskedInv, Asked, NoRequest, None
  <2> PICK params, payload : params = req.doc.methods[req.message.method].inputs /\ payload = req.payload
    OBVIOUS
  <2>2. params \in Seq(Parameter) /\ Taken(params, payload)
    BY <2>1, ExchangeAssumption DEF Built, IsDocument
  <2> QED
    BY <2>2, TakenConforms
<1> QED
  BY <1>1, ExchangeInvariant, PTL

\* What the invocation is when the service took the request.
LEMMA AdmittedIsTaken ==
  ASSUME Inv, Admitted
  PROVE  Taking(served, issued, request, invocation)
BY DEF Inv, ResolvedInv, Resolved, Refused, Admitted, NoInvocation, None, CheckNames

\* The service grants only tokens that were issued, field for field.
THEOREM GrantedIsIssuedHolds == Spec => []GrantedIsIssued
<1>1. Inv => GrantedIsIssued
  BY AdmittedIsTaken DEF GrantedIsIssued, Taking, AllFit, Fit
<1> QED
  BY <1>1, ExchangeInvariant, PTL

\* Arguments of whatever was taken are decoded, and those of `clerm request` arrive.
THEOREM ArgumentsArriveHolds == Spec => []ArgumentsArrive
<1>1. Inv => ArgumentsArrive
  BY AdmittedIsTaken DEF ArgumentsArrive, Taking, RequestFits, FitsOf
<1> QED
  BY <1>1, ExchangeInvariant, PTL

\* A request that was built for the document served is refused only for what the client
\* cannot know.
THEOREM ClientChecksWhatServerChecksHolds == Spec => []ClientChecksWhatServerChecks
<1>1. Inv => ClientChecksWhatServerChecks
  <2> SUFFICES ASSUME Inv, request.from = "cli", request.doc = served, RequestFits
               PROVE  invocation.refusal \in
                        {None, "unresolved", "keyring", "signature", "window", "target", "replay"}
    BY DEF ClientChecksWhatServerChecks
  <2>1. FitsOf(request)
    BY DEF RequestFits, FitsOf
  <2> QED
    BY <2>1 DEF Inv, ResolvedInv, Resolved, Refused, Taking, NoInvocation
<1> QED
  BY <1>1, ExchangeInvariant, PTL

\* Where what the client sees comes from.
LEMMA ViewedIs ==
  ASSUME Inv, view # NoView
  PROVE  /\ \E toFile, relayed \in BOOLEAN : view = ViewOf(answer, toFile, relayed)
         /\ \/ answer.from = "outcome"
            \/ \E c \in Code : answer = RefusalWith(c)
<1>1. /\ \E toFile, relayed \in BOOLEAN : view = ViewOf(answer, toFile, relayed)
      /\ answer.from \in {"refusal", "outcome"}
  BY DEF Inv, ViewedInv, Viewed
<1>2. answer.from = "refusal" => \E c \in Code : answer = RefusalWith(c)
  BY DEF Inv, AnsweredInv, Answered, NoAnswer, None, OutcomeOf
<1> QED
  BY <1>1, <1>2

\* The kinds of what the client sees.
LEMMA ViewOfIs ==
  ASSUME NEW ans, NEW toFile, NEW relayed, NEW vw, vw = ViewOf(ans, toFile, relayed)
  PROVE  \/ /\ vw.kind = "error" /\ ans.status >= 400
            /\ vw.code = ResponseError(ans.status, ans.body).code
         \/ vw.kind = "toolong"
         \/ vw.kind = "response" /\ DecodeResponse(ans.body).ok /\ vw.response = DecodeResponse(ans.body).val
         \/ vw.kind = "unreadable" /\ ~DecodeResponse(ans.body).ok
BY DEF ViewOf, Inspected

\* The code of an error is the one of the server.
THEOREM CodeSurvivesHolds == Spec => []CodeSurvives
<1>1. Inv => CodeSurvives
  <2> SUFFICES ASSUME Inv, view.kind = "error" PROVE view.code = answer.code
    BY DEF CodeSurvives
  <2>1. view # NoView
    BY DEF NoView, None
  <2>2. answer.status >= 400 /\ view.code = ResponseError(answer.status, answer.body).code
    BY <2>1, ViewedIs, ViewOfIs
  <2>3. answer.from # "outcome"
    <3>1. ~(200 >= 400)
      OBVIOUS
    <3> QED
      BY <2>2, <3>1, OutcomeIsRead
  <2>4. PICK c \in Code : answer = RefusalWith(c)
    BY <2>1, <2>3, ViewedIs
  <2>5. answer.status = HttpStatus(c) /\ answer.body = ErrorText(c, <<>>) /\ answer.code = c
    BY <2>4 DEF RefusalWith
  <2> QED
    BY <2>2, <2>5, CodeIsRead
<1> QED
  BY <1>1, ExchangeInvariant, PTL

\* No failure is read as a success, and what is read as one has the method's outputs.
THEOREM FailureIsReadHolds == Spec => []FailureIsRead
<1>1. Inv => FailureIsRead
  <2> SUFFICES ASSUME Inv, view.kind = "response", ~IsError(view.response)
               PROVE  LET o == answer.outcome IN
                      /\ answer.from = "outcome"
                      /\ o.kind = "failure" => Trim(o.code) = <<>> /\ Trim(o.message) = <<>>
                                               /\ invocation.endpoint = "serve"
                      /\ o.kind # "goerror"
                      /\ ShortValues(answer.response.outputs) =>
                           ValidateValues(view.response.outputs, served.methods[invocation.method].outputs)
    BY DEF FailureIsRead
  <2>1. view # NoView
    BY DEF NoView, None
  <2>2. DecodeResponse(answer.body).ok /\ view.response = DecodeResponse(answer.body).val
    BY <2>1, ViewedIs, ViewOfIs
  <2>3. answer.from = "outcome"
    <3>1. \A c \in Code : answer # RefusalWith(c)
      BY <2>2, NoResponse DEF RefusalWith
    <3> QED
      BY <2>1, <3>1, ViewedIs
  <2> PICK r : r = answer.response
    OBVIOUS
  <2>4. PICK o \in Outcome :
          /\ answer.outcome = o /\ r \in Response
          /\ answer.body = IF Encodable(r) THEN EncodeResponse(r) ELSE <<>>
          /\ ~IsError(r) => /\ ~Fails(o, invocation.endpoint)
                            /\ ValidateValues(r.outputs, served.methods[invocation.method].outputs)
          /\ invocation.endpoint \in {"serve", "decode"}
    BY <2>3, OutcomeIsRead
  <2>5. Encodable(r) /\ answer.body = EncodeResponse(r)
    BY <2>2, <2>4, NoResponse
  <2>6. ~IsError(r)
    <3>1. ASSUME IsError(r) PROVE FALSE
      <4>1. view.response = Said(r)
        BY <2>2, <2>4, <2>5, <3>1, ErrorIsRead
      <4>2. Said(r) = [r EXCEPT !.outputs = <<>>]
        BY <3>1 DEF Said
      <4>3. view.response.code = r.code /\ view.response.message = r.message
        BY <2>4, <4>1, <4>2 DEF Response
      <4> QED
        BY <3>1, <4>3 DEF IsError
    <3> QED
      BY <3>1
  <2>7. ShortValues(r.outputs) => view.response = r
    BY <2>2, <2>4, <2>5, <2>6, SuccessIsRead DEF Said
  <2> QED
    BY <2>3, <2>4, <2>6, <2>7 DEF Fails
<1> QED
  BY <1>1, ExchangeInvariant, PTL

\* A request of `clerm request` that the decode endpoint takes is answered with its
\* command, and the client reads the response that was made.
THEOREM AnswerIsReadHolds == Spec => []AnswerIsRead
<1>1. Inv => AnswerIsRead
  <2> SUFFICES ASSUME Inv PROVE AnswerIsRead
    OBVIOUS
  <2>1. ASSUME answer.from = "command", request.from = "cli", RequestFits PROVE answer.body # <<>>
    <3>1. FitsOf(request)
      BY <2>1 DEF RequestFits, FitsOf
    <3> QED
      BY <2>1, <3>1 DEF Inv, AnsweredInv, Answered, NoAnswer, None, RefusalWith, OutcomeOf
  <2>2. ASSUME view # NoView, answer.from = "outcome", ShortValues(answer.response.outputs)
        PROVE  \/ view.kind = "response" /\ view.response = Said(answer.response)
               \/ view.kind = "unreadable" /\ ~Encodable(answer.response)
               \/ view.kind = "toolong"
    <3> PICK r, body : r = answer.response /\ body = answer.body
      OBVIOUS
    <3>1. /\ answer.status = 200 /\ r \in Response
          /\ body = IF Encodable(r) THEN EncodeResponse(r) ELSE <<>>
      BY <2>2, OutcomeIsRead
    <3>2. ~(200 >= 400)
      OBVIOUS
    <3>3. \/ view.kind = "toolong"
          \/ view.kind = "response" /\ DecodeResponse(body).ok /\ view.response = DecodeResponse(body).val
          \/ view.kind = "unreadable" /\ ~DecodeResponse(body).ok
      <4>1. PICK toFile, relayed : view = ViewOf(answer, toFile, relayed)
        BY <2>2, ViewedIs
      <4>2. ~(answer.status >= 400)
        BY <3>1, <3>2
      <4> QED
        BY <4>1, <4>2, ViewOfIs
    <3>4. Encodable(r) => DecodeResponse(body).ok /\ DecodeResponse(body).val = Said(r)
      BY <2>2, <3>1, ErrorIsRead, SuccessIsRead
    <3>5. ~Encodable(r) => ~DecodeResponse(body).ok
      BY <3>1, NoResponse
    <3> QED
      BY <3>3, <3>4, <3>5
  <2> QED
    BY <2>1, <2>2 DEF AnswerIsRead
<1> QED
  BY <1>1, ExchangeInvariant, PTL
=============================================================================
