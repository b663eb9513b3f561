------------------------- MODULE RequestFrame_proofs -------------------------
(***************************************************************************)
(* What is written is read again, for any words, strings and lists: the    *)
(* primitives of Words and the frames of RequestFrame, first towards the   *)
(* reader, then back.  On these lemmas rest the theorems about requests,   *)
(* in RequestCodec_proofs, and those about the whole way, in               *)
(* Exchange_proofs.                                                        *)
(***************************************************************************)
EXTENDS RequestFrame, SequenceTheorems, TLAPS

WF == INSTANCE WellFoundedInduction

-----------------------------------------------------------------------------
(* Induction.  The theorems of the library take a predicate; this one takes *)
(* the set of the numbers that have a property.                             *)

Less == {ss \in Nat \X Nat : ss[1] < ss[2]}

\* Less is the relation that the library shows to be well-founded.
LEMMA LessIsWellFounded == WF!IsWellFoundedOn(Less, Nat)
BY WF!NatLessThanWellFounded, Zenon DEF Less, WF!OpToRel

\* A set with 0 and with the number after each of its numbers has them all.
LEMMA SetInduction ==
  ASSUME NEW S, 0 \in S, \A n \in Nat : n \in S => n + 1 \in S
  PROVE  Nat \subseteq S
<1> DEFINE T == Nat \ S
<1>1. SUFFICES ASSUME T # {} PROVE FALSE
  OBVIOUS
<1>2. T \subseteq Nat
  OBVIOUS
<1>3. PICK x \in T : \A y \in T : ~ (<<y, x>> \in Less)
  <2> HIDE DEF T
  <2> QED
    BY <1>1, <1>2, LessIsWellFounded, WF!WFMin
<1>4. x \in Nat /\ x # 0 /\ x - 1 \in Nat /\ x - 1 \notin S
  OBVIOUS
<1>5. <<x - 1, x>> \in Less
  BY <1>4 DEF Less
<1> QED
  BY <1>3, <1>4, <1>5

\* The same up to a bound.
LEMMA BoundedInduction ==
  ASSUME NEW n \in Nat, NEW S, 0 \in S, \A k \in Nat : k \in S /\ k < n => k + 1 \in S
  PROVE  \A k \in 0 .. n : k \in S
<1> DEFINE T == {k \in Nat : k <= n => k \in S}
<1>1. 0 \in T /\ \A k \in Nat : k \in T => k + 1 \in T
  OBVIOUS
<1>2. Nat \subseteq T
  <2> HIDE DEF T
  <2> QED
    BY <1>1, SetInduction
<1> QED
  BY <1>2

-----------------------------------------------------------------------------
(* Where a string stands in the data *)

\* The words of s stand in data from the offset o on.
At(data, o, s) ==
  /\ o \in Nat \ {0} /\ o + Len(s) <= Len(data) + 1
  /\ \A i \in 1 .. Len(s) : data[o + i - 1] = s[i]

\* Two strings stand one after the other.
LEMMA AtConcat ==
  ASSUME NEW data \in Str, NEW o, NEW s \in Str, NEW u \in Str
  PROVE  At(data, o, s \o u) <=> At(data, o, s) /\ At(data, o + Len(s), u)
<1>1. /\ s \o u \in Str /\ Len(s \o u) = Len(s) + Len(u) /\ Len(s) \in Nat /\ Len(u) \in Nat
      /\ Len(data) \in Nat
      /\ \A i \in 1 .. Len(s) + Len(u) : (s \o u)[i] = IF i <= Len(s) THEN s[i] ELSE u[i - Len(s)]
  BY ConcatProperties, LenProperties DEF Str
<1>2. ASSUME At(data, o, s \o u) PROVE At(data, o, s) /\ At(data, o + Len(s), u)
  <2>1. \A i \in 1 .. Len(s) : data[o + i - 1] = s[i]
    BY <1>1, <1>2 DEF At
  <2>2. \A i \in 1 .. Len(u) : data[(o + Len(s)) + i - 1] = u[i]
    <3> TAKE i \in 1 .. Len(u)
    <3>1. Len(s) + i \in 1 .. Len(s) + Len(u) /\ (s \o u)[Len(s) + i] = u[i]
      BY <1>1
    <3>2. data[o + (Len(s) + i) - 1] = (s \o u)[Len(s) + i]
      BY <1>1, <1>2, <3>1 DEF At
    <3>3. o + (Len(s) + i) - 1 = (o + Len(s)) + i - 1
      BY <1>1, <1>2 DEF At
    <3> QED
      BY <3>1, <3>2, <3>3
  <2> QED
    BY <1>1, <1>2, <2>1, <2>2 DEF At
<1>3. ASSUME At(data, o, s), At(data, o + Len(s), u) PROVE At(data, o, s \o u)
  <2>1. \A i \in 1 .. Len(s \o u) : data[o + i - 1] = (s \o u)[i]
    <3> TAKE i \in 1 .. Len(s \o u)
    <3>1. CASE i <= Len(s)
      BY <1>1, <1>3, <3>1 DEF At
    <3>2. CASE i > Len(s)
      <4>1. i - Len(s) \in 1 .. Len(u) /\ (s \o u)[i] = u[i - Len(s)]
        BY <1>1, <3>2
      <4>2. data[(o + Len(s)) + (i - Len(s)) - 1] = u[i - Len(s)]
        BY <1>3, <4>1 DEF At
      <4>3. (o + Len(s)) + (i - Len(s)) - 1 = o + i - 1
        BY <1>1, <1>3 DEF At
      <4> QED
        BY <4>1, <4>2, <4>3
    <3> QED
      BY <1>1, <3>1, <3>2
  <2> QED
    BY <1>1, <1>3, <2>1 DEF At
<1> QED
  BY <1>2, <1>3

\* A string that stands at the beginning and is as long is all there is.
LEMMA AtWhole ==
  ASSUME NEW data \in Str, NEW s \in Str
  PROVE  /\ At(data, 1, data)
         /\ At(data, 1, s) /\ Len(s) = Len(data) => data = s
<1>1. Len(data) \in Nat /\ Len(s) \in Nat
  BY LenProperties DEF Str
<1>2. At(data, 1, data)
  BY <1>1 DEF At
<1>3. ASSUME At(data, 1, s), Len(s) = Len(data) PROVE data = s
  <2>1. \A i \in 1 .. Len(data) : data[i] = s[i]
    BY <1>1, <1>3 DEF At
  <2> QED
    BY <1>3, <2>1, SeqEqual DEF Str
<1> QED
  BY <1>2, <1>3

\* One word.
LEMMA AtWord ==
  ASSUME NEW data \in Str, NEW o, NEW w
  PROVE  At(data, o, <<w>>) <=> o \in 1 .. Len(data) /\ data[o] = w
<1>1. Len(data) \in Nat
  BY LenProperties DEF Str
<1> QED
  BY <1>1 DEF At

-----------------------------------------------------------------------------
(* Words and strings, written and read *)

\* What a reader at the offset o is to find of the string s whose value is v.
Found(s, v, o) == [ok |-> TRUE, val |-> v, off |-> o + Len(s)]

\* What a reader says at the offset o of data: it has read what stands there, or it has
\* failed at the end.
Honest(data, o, r, s) ==
  /\ r.ok \in BOOLEAN /\ r.off \in Offset(data)
  /\ r.ok => At(data, o, s) /\ r.off = o + Len(s)
  /\ ~r.ok => r.off = Len(data) + 1

\* The lengths of strings are numbers, and the words that are written are words.
LEMMA StrFacts ==
  ASSUME NEW s \in Str
  PROVE  /\ Len(s) \in Nat /\ DOMAIN s = 1 .. Len(s) /\ \A i \in 1 .. Len(s) : s[i] \in Word
         /\ Len(s) % W \in Word /\ (Short(s) => Len(s) % W = Len(s))
<1>1. Len(s) \in Nat /\ DOMAIN s = 1 .. Len(s) /\ \A i \in 1 .. Len(s) : s[i] \in Word
  BY LenProperties, ElementOfSeq DEF Str
<1>2. \A n \in Nat : n % W \in Word /\ (n < W => n % W = n)
  BY WordsAssumption DEF Word
<1> QED
  BY <1>1, <1>2 DEF Short

\* A word is a string, and two strings are one.
LEMMA StrOf ==
  /\ <<>> \in Str /\ Len(<<>>) = 0
  /\ \A w \in Word : <<w>> \in Str /\ Len(<<w>>) = 1
  /\ \A s, u \in Str : s \o u \in Str /\ Len(s \o u) = Len(s) + Len(u)
<1>1. \A w \in Word : <<w>> \in Seq(Word) /\ Len(<<w>>) = 1
  OBVIOUS
<1>2. \A s, u \in Seq(Word) : s \o u \in Seq(Word) /\ Len(s \o u) = Len(s) + Len(u)
  BY ConcatProperties
<1> QED
  BY <1>1, <1>2 DEF Str

\* A word that stands at an offset is read there.
LEMMA ReadWordAt ==
  ASSUME NEW data \in Str, NEW o, NEW w, At(data, o, <<w>>)
  PROVE  ReadWord(data, o) = [ok |-> TRUE, val |-> w, off |-> o + 1]
BY AtWord, StrFacts DEF ReadWord

\* A word that is read stands there.
LEMMA ReadWordIs ==
  ASSUME NEW data \in Str, NEW o \in Offset(data)
  PROVE  LET r == ReadWord(data, o)
         IN r.val \in Word /\ Honest(data, o, r, <<r.val>>)
<1>1. Len(data) \in Nat /\ DOMAIN data = 1 .. Len(data) /\ \A i \in 1 .. Len(data) : data[i] \in Word
      /\ o \in 1 .. Len(data) + 1
  BY StrFacts DEF Offset
<1>2. 0 \in Word
  BY WordsAssumption DEF Word
<1>3. CASE o \in DOMAIN data
  <2>1. ReadWord(data, o) = [ok |-> TRUE, val |-> data[o], off |-> o + 1]
    BY <1>3 DEF ReadWord
  <2>2. At(data, o, <<data[o]>>)
    BY <1>1, <1>3, AtWord
  <2> QED
    BY <1>1, <1>3, <2>1, <2>2 DEF Honest, Offset
<1>4. CASE o \notin DOMAIN data
  <2>1. ReadWord(data, o) = [ok |-> FALSE, val |-> 0, off |-> Len(data) + 1]
    BY <1>4 DEF ReadWord
  <2> QED
    BY <1>1, <1>2, <2>1 DEF Honest, Offset
<1> QED
  BY <1>3, <1>4

\* What a piece of the data stands for.
LEMMA PieceIs ==
  ASSUME NEW data \in Str, NEW a \in Nat \ {0}, NEW n \in Nat, a + n <= Len(data) + 1
  PROVE  LET piece == SubSeq(data, a, (a + n) - 1)
         IN /\ piece \in Str /\ Len(piece) = n /\ At(data, a, piece)
            /\ \A s \in Str : At(data, a, s) /\ Len(s) = n => piece = s
<1> DEFINE piece == SubSeq(data, a, (a + n) - 1)
<1>1. \A i \in a .. ((a + n) - 1) : data[i] \in Word
  BY StrFacts
<1>2. a \in Int /\ (a + n) - 1 \in Int
  OBVIOUS
<1>3. /\ SubSeq(data, a, (a + n) - 1) \in Seq(Word)
      /\ Len(SubSeq(data, a, (a + n) - 1)) = IF a <= (a + n) - 1 THEN ((a + n) - 1) - a + 1 ELSE 0
      /\ \A i \in 1 .. ((a + n) - 1) - a + 1 : SubSeq(data, a, (a + n) - 1)[i] = data[a + i - 1]
  BY <1>1, <1>2, SubSeqProperties
<1>4. piece \in Str /\ Len(piece) = n /\ \A i \in 1 .. n : piece[i] = data[a + i - 1]
  BY <1>3 DEF Str
<1> HIDE DEF piece
<1>5. At(data, a, piece)
  BY <1>4 DEF At
<1>6. ASSUME NEW s \in Str, At(data, a, s), Len(s) = n PROVE piece = s
  <2>1. \A i \in 1 .. Len(piece) : piece[i] = s[i]
    BY <1>4, <1>6 DEF At
  <2> QED
    BY <1>4, <1>6, <2>1, SeqEqual DEF Str
<1> QED
  BY <1>4, <1>5, <1>6 DEF piece

\* ReadString, its offsets named.
LEMMA ReadStringOf ==
  ASSUME NEW data, NEW o, NEW l, l = ReadWord(data, o), NEW end, end = l.off + l.val
  PROVE  ReadString(data, o) =
           IF l.ok /\ end <= Len(data) + 1
             THEN [ok |-> TRUE, val |-> SubSeq(data, l.off, end - 1), off |-> end]
             ELSE [ok |-> FALSE, val |-> <<>>, off |-> Len(data) + 1]
BY DEF ReadString

\* A string that stands at an offset is read there when its length fits.
LEMMA ReadStringAt ==
  ASSUME NEW data \in Str, NEW o, NEW s \in Str, Short(s), At(data, o, PutString(s))
  PROVE  /\ PutString(s) \in Str /\ Len(PutString(s)) = Len(s) + 1
         /\ ReadString(data, o) = Found(PutString(s), s, o)
<1>1. Len(s) \in Nat /\ Len(s) % W = Len(s) /\ <<Len(s)>> \in Str /\ Len(<<Len(s)>>) = 1
  BY StrFacts, StrOf
<1>2. PutString(s) = <<Len(s)>> \o s
  BY <1>1 DEF PutString
<1>3. At(data, o, <<Len(s)>>) /\ At(data, o + 1, s)
  BY ZenonT(30), <1>1, <1>2, AtConcat
<1>4. ReadWord(data, o) = [ok |-> TRUE, val |-> Len(s), off |-> o + 1]
  BY <1>3, ReadWordAt
<1>5. o + 1 \in Nat \ {0} /\ (o + 1) + Len(s) <= Len(data) + 1
  BY <1>3 DEF At
<1>6. SubSeq(data, o + 1, ((o + 1) + Len(s)) - 1) = s
  BY <1>1, <1>3, <1>5, PieceIs
<1>7. ReadString(data, o) = [ok |-> TRUE, val |-> s, off |-> (o + 1) + Len(s)]
  <2>1. PICK end : end = (o + 1) + Len(s)
    OBVIOUS
  <2>2. PICK l : l = ReadWord(data, o)
    OBVIOUS
  <2>3. l.ok = TRUE /\ l.off = o + 1 /\ end = l.off + l.val /\ end <= Len(data) + 1
    BY <1>4, <1>5, <2>1, <2>2
  <2>4. SubSeq(data, l.off, end - 1) = s
    BY <1>6, <2>1, <2>3
  <2>5. ReadString(data, o) = [ok |-> TRUE, val |-> SubSeq(data, l.off, end - 1), off |-> end]
    BY <2>2, <2>3, ReadStringOf
  <2> QED
    BY <2>1, <2>4, <2>5
<1>8. PutString(s) \in Str /\ Len(PutString(s)) = Len(s) + 1
  BY <1>1, <1>2, StrOf
<1>9. (o + 1) + Len(s) = o + Len(PutString(s))
  BY <1>1, <1>3, <1>8 DEF At
<1> QED
  BY <1>7, <1>8, <1>9 DEF Found

\* A string that is read stands there.
LEMMA ReadStringIs ==
  ASSUME NEW data \in Str, NEW o \in Offset(data)
  PROVE  LET r == ReadString(data, o)
         IN r.val \in Str /\ Short(r.val) /\ Honest(data, o, r, PutString(r.val))
<1> DEFINE length == ReadWord(data, o)
           n == length.val
           a == length.off
<1>1. n \in Word /\ Honest(data, o, length, <<n>>)
  BY ReadWordIs
<1>2. Len(data) \in Nat /\ n \in Nat /\ n < W /\ a \in 1 .. Len(data) + 1
  BY <1>1, StrFacts, WordsAssumption DEF Word, Honest, Offset
<1>3. CASE length.ok /\ a + n <= Len(data) + 1
  <2> DEFINE s == SubSeq(data, a, (a + n) - 1)
  <2>1. ReadString(data, o) = [ok |-> TRUE, val |-> s, off |-> a + n]
    BY <1>3 DEF ReadString
  <2> HIDE DEF length
  <2>2. s \in Str /\ Len(s) = n /\ At(data, a, s)
    BY <1>2, <1>3, PieceIs
  <2>3. a = o + 1 /\ At(data, o, <<n>>) /\ Len(<<n>>) = 1
    BY <1>1, <1>3 DEF Honest
  <2>4. Short(s) /\ PutString(s) = <<n>> \o s /\ <<n>> \in Str
    BY <1>1, <1>2, <2>2, StrFacts, StrOf DEF Short, PutString
  <2>5. At(data, o, PutString(s)) /\ Len(PutString(s)) = 1 + n
    <3> HIDE DEF s, n, a
    <3>1. At(data, o + Len(<<n>>), s)
      BY <2>2, <2>3
    <3>2. At(data, o, <<n>> \o s)
      BY <2>2, <2>3, <2>4, <3>1, AtConcat
    <3> QED
      BY <2>2, <2>3, <2>4, <3>2, StrOf
  <2>6. a + n = o + Len(PutString(s)) /\ a + n \in Offset(data)
    BY <1>2, <1>3, <2>3, <2>5 DEF Offset
  <2> HIDE DEF s, n, a
  <2>7. LET r == ReadString(data, o) IN r.ok = TRUE /\ r.val = s /\ r.off = a + n
    BY <2>1
  <2> QED
    BY <2>2, <2>4, <2>5, <2>6, <2>7 DEF Honest
<1>4. CASE ~(length.ok /\ a + n <= Len(data) + 1)
  <2>1. ReadString(data, o) = [ok |-> FALSE, val |-> <<>>, off |-> Len(data) + 1]
    BY <1>4 DEF ReadString
  <2>2. <<>> \in Str /\ Short(<<>>)
    BY StrOf, WordsAssumption DEF Short
  <2> QED
    BY <1>2, <2>1, <2>2 DEF Honest, Offset
<1> QED
  BY <1>3, <1>4

\* Two things that are read one after the other: the second is read only if the first
\* was, and then both stand there.
LEMMA HonestConcat ==
  ASSUME NEW data \in Str, NEW o \in Offset(data), NEW r, NEW s \in Str, NEW q, NEW u \in Str,
         Len(u) > 0, Honest(data, o, r, s), Honest(data, r.off, q, u)
  PROVE  /\ q.ok => r.ok
         /\ s \o u \in Str /\ Honest(data, o, q, s \o u)
<1>1. Len(data) \in Nat /\ Len(s) \in Nat /\ Len(u) \in Nat /\ o \in Nat /\ r.off \in Nat
  BY StrFacts DEF Honest, Offset
<1>2. q.ok => r.ok
  BY <1>1 DEF Honest, At
<1>3. s \o u \in Str /\ Len(s \o u) = Len(s) + Len(u)
  BY StrOf
<1>4. ASSUME q.ok PROVE At(data, o, s \o u) /\ q.off = o + Len(s \o u)
  <2>1. r.off = o + Len(s) /\ At(data, o, s) /\ At(data, r.off, u) /\ q.off = r.off + Len(u)
    BY <1>2, <1>4 DEF Honest
  <2>2. At(data, o, s \o u)
    BY <2>1, AtConcat
  <2> QED
    BY <1>1, <1>3, <2>1, <2>2
<1> QED
  BY <1>2, <1>3, <1>4 DEF Honest

-----------------------------------------------------------------------------
(* Bytes: a length of two words *)

\* Division by W, and that its outcome is the only one.
LEMMA Division ==
  /\ \A x \in Nat : x \div W \in Nat /\ x % W \in Word /\ x = W * (x \div W) + (x % W)
  /\ \A h, g \in Int, l, m \in Word : W * h + l = W * g + m => h = g /\ l = m
<1>1. \A x \in Nat : x \div W \in Nat /\ x % W \in Word /\ x = W * (x \div W) + (x % W)
  BY WordsAssumption, SMTT(30) DEF Word
<1>2. ASSUME NEW h \in Int, h >= 1 PROVE W * h >= W
  BY WordsAssumption, <1>2, SMTT(30)
<1>3. ASSUME NEW h \in Int, NEW g \in Int, NEW l \in Word, NEW m \in Word, W * h + l = W * g + m
      PROVE  h = g /\ l = m
  <2>1. W * (h - g) = m - l /\ W * (g - h) = l - m
    BY <1>3, WordsAssumption, SMTT(30) DEF Word
  <2>2. ~(h - g >= 1) /\ ~(g - h >= 1)
    <3>1. h - g >= 1 => W * (h - g) >= W
      BY <1>2
    <3>2. g - h >= 1 => W * (g - h) >= W
      BY <1>2
    <3> QED
      BY <2>1, <3>1, <3>2, WordsAssumption DEF Word
  <2> QED
    BY <2>1, <2>2, WordsAssumption DEF Word
<1> QED
  BY <1>1, <1>3

\* A number below W * W is two words, and two words are a number.
LEMMA TwoWords ==
  /\ \A n \in Nat : n < W * W =>
       (n \div W) % W \in Word /\ n % W \in Word /\ ((n \div W) % W) * W + (n % W) = n
  /\ \A h, l \in Word : LET n == h * W + l
                        IN n \in Nat /\ n < W * W /\ (n \div W) % W = h /\ n % W = l
<1>1. \A h \in Word : h \in Nat /\ h < W /\ h % W = h
  BY WordsAssumption DEF Word
<1>2. ASSUME NEW n \in Nat, n < W * W
      PROVE  (n \div W) % W \in Word /\ n % W \in Word /\ ((n \div W) % W) * W + (n % W) = n
  <2>1. PICK q \in Nat : q = n \div W
    BY Division
  <2>2. PICK r \in Word : r = n % W
    BY Division
  <2>3. n = W * q + r
    BY <2>1, <2>2, Division
  <2>4. q < W
    <3>1. SUFFICES ASSUME q >= W PROVE FALSE
      BY WordsAssumption
    <3>2. W * q >= W * W
      BY <3>1, WordsAssumption, SMTT(30)
    <3>3. W * q \in Nat /\ W * W \in Nat
      BY WordsAssumption
    <3> QED
      BY <1>2, <2>3, <3>2, <3>3 DEF Word
  <2>5. q \in Word
    BY <2>4, WordsAssumption DEF Word
  <2>6. q * W = W * q
    BY WordsAssumption
  <2> QED
    BY <1>1, <2>1, <2>2, <2>3, <2>5, <2>6
<1>3. ASSUME NEW h \in Word, NEW l \in Word, NEW n, n = h * W + l
      PROVE  n \in Nat /\ n < W * W /\ (n \div W) % W = h /\ n % W = l
  <2>1. h * W = W * h /\ W * h \in Nat /\ l \in Nat /\ l < W /\ h \in Nat /\ h < W
    BY WordsAssumption DEF Word
  <2>2. n \in Nat /\ n = W * h + l
    BY <1>3, <2>1
  <2>3. n \div W \in Int /\ n % W \in Word /\ n = W * (n \div W) + (n % W)
    BY <2>2, Division
  <2>4. n \div W = h /\ n % W = l
    <3>1. PICK g \in Int : g = n \div W
      BY <2>3
    <3>2. PICK m \in Word : m = n % W
      BY <2>3
    <3>3. W * h + l = W * g + m
      BY <2>2, <2>3, <3>1, <3>2
    <3> QED
      BY <2>1, <3>1, <3>2, <3>3, Division
  <2>5. W * h + W <= W * W
    <3>1. W * (h + 1) <= W * W
      BY <2>1, WordsAssumption, SMTT(30)
    <3>2. W * (h + 1) = W * h + W
      BY <2>1, WordsAssumption
    <3> QED
      BY <3>1, <3>2
  <2>6. n < W * W
    <3>1. PICK k \in Nat : k = W * h
      BY <2>1
    <3>2. PICK ww \in Nat : ww = W * W
      BY WordsAssumption
    <3>3. n = k + l /\ k + W <= ww
      BY <2>2, <2>5, <3>1, <3>2
    <3>4. n < ww
      BY <2>1, <3>3, WordsAssumption
    <3> QED
      BY <3>2, <3>4
  <2>7. (n \div W) % W = h
    BY <1>1, <2>4
  <2> QED
    BY <2>2, <2>4, <2>6, <2>7
<1> QED
  BY <1>2, <1>3

\* Two words are a string.
LEMMA TwoOf ==
  ASSUME NEW h \in Word, NEW l \in Word
  PROVE  <<h, l>> \in Str /\ Len(<<h, l>>) = 2 /\ <<h>> \o <<l>> = <<h, l>>
<1>1. <<h>> \in Seq(Word) /\ <<l>> \in Seq(Word) /\ <<h, l>> \in Seq(Word)
  OBVIOUS
<1>2. PICK s : s = <<h>> \o <<l>>
  OBVIOUS
<1>3. /\ Len(<<h>>) = 1 /\ Len(<<l>>) = 1 /\ Len(<<h, l>>) = 2
      /\ <<h>>[1] = h /\ <<l>>[1] = l /\ <<h, l>>[1] = h /\ <<h, l>>[2] = l
  OBVIOUS
<1>4. s \in Seq(Word) /\ Len(s) = 2 /\ s[1] = h /\ s[2] = l
  BY <1>1, <1>2, <1>3, ConcatProperties
<1>5. s = <<h, l>>
  <2>1. \A i \in 1 .. Len(s) : s[i] = <<h, l>>[i]
    BY <1>3, <1>4
  <2> QED
    BY <1>1, <1>3, <1>4, <2>1, SeqEqual
<1> QED
  BY <1>1, <1>2, <1>3, <1>5 DEF Str

\* They stand one after the other.
LEMMA TwoAt ==
  ASSUME NEW data \in Str, NEW o, NEW h \in Word, NEW l \in Word
  PROVE  At(data, o, <<h, l>>) <=> At(data, o, <<h>>) /\ At(data, o + 1, <<l>>)
<1>1. <<h>> \in Str /\ Len(<<h>>) = 1 /\ <<l>> \in Str /\ <<h>> \o <<l>> = <<h, l>>
  BY StrOf, TwoOf
<1>2. At(data, o, <<h>> \o <<l>>) <=> At(data, o, <<h>>) /\ At(data, o + Len(<<h>>), <<l>>)
  BY <1>1, AtConcat
<1> QED
  BY <1>1, <1>2

\* ReadBytes, its offsets named.
LEMMA ReadBytesOf ==
  ASSUME NEW data, NEW o, NEW h, h = ReadWord(data, o), NEW l, l = ReadWord(data, h.off),
         NEW end, end = l.off + h.val * W + l.val
  PROVE  ReadBytes(data, o) =
           IF l.ok /\ end <= Len(data) + 1
             THEN [ok |-> TRUE, val |-> SubSeq(data, l.off, end - 1), off |-> end]
             ELSE [ok |-> FALSE, val |-> <<>>, off |-> Len(data) + 1]
BY DEF ReadBytes

\* Bytes that stand at an offset are read there when their length fits.
LEMMA ReadBytesAt ==
  ASSUME NEW data \in Str, NEW o, NEW s \in Str, ShortBytes(s), At(data, o, PutBytes(s))
  PROVE  /\ PutBytes(s) \in Str /\ Len(PutBytes(s)) = Len(s) + 2
         /\ ReadBytes(data, o) = Found(PutBytes(s), s, o)
<1>1. PICK n \in Nat : n = Len(s) /\ n < W * W
  BY StrFacts DEF ShortBytes
<1>2. PICK h \in Word : h = (n \div W) % W
  BY <1>1, TwoWords
<1>3. PICK l \in Word : l = n % W
  BY <1>1, TwoWords
<1>4. h * W + l = n /\ h * W \in Nat /\ l \in Nat
  <2>1. h \in Nat /\ l \in Nat /\ W \in Nat
    BY WordsAssumption DEF Word
  <2>2. h * W + l = n
    BY <1>1, <1>2, <1>3, TwoWords
  <2> QED
    BY <2>1, <2>2
<1>5. PutBytes(s) = <<h, l>> \o s
  BY <1>1, <1>2, <1>3 DEF PutBytes
<1>6. At(data, o, <<h, l>>) /\ At(data, o + 2, s)
  <2>1. PICK u \in Str : u = <<h, l>> /\ Len(u) = 2
    BY TwoOf
  <2>2. At(data, o, u \o s)
    BY <1>5, <2>1
  <2>3. At(data, o, u) /\ At(data, o + Len(u), s)
    BY <2>2, AtConcat
  <2> QED
    BY <2>1, <2>3
<1>7. At(data, o, <<h>>) /\ At(data, o + 1, <<l>>)
  BY <1>6, TwoAt
<1>8. o \in Nat \ {0} /\ o + 2 \in Nat \ {0} /\ (o + 2) + n <= Len(data) + 1 /\ Len(data) \in Nat
  BY <1>1, <1>6, StrFacts DEF At
<1>9. PICK high : high = ReadWord(data, o)
  OBVIOUS
<1>10. high = [ok |-> TRUE, val |-> h, off |-> o + 1]
  BY <1>7, <1>9, ReadWordAt
<1>11. PICK low : low = ReadWord(data, high.off)
  OBVIOUS
<1>12. low = [ok |-> TRUE, val |-> l, off |-> o + 2]
  <2>1. ReadWord(data, o + 1) = [ok |-> TRUE, val |-> l, off |-> (o + 1) + 1]
    BY <1>7, ReadWordAt
  <2>2. (o + 1) + 1 = o + 2
    BY <1>8
  <2> QED
    BY <1>10, <1>11, <2>1, <2>2
<1>13. PICK end : end = low.off + high.val * W + low.val
  OBVIOUS
<1>14. end = (o + 2) + n
  BY <1>4, <1>8, <1>10, <1>12, <1>13
<1>15. low.ok = TRUE /\ low.off = o + 2 /\ end <= Len(data) + 1
  BY <1>8, <1>12, <1>14
<1>16. SubSeq(data, low.off, end - 1) = s
  <2>1. PICK a : a = o + 2
    OBVIOUS
  <2>2. SubSeq(data, a, (a + n) - 1) = s
    BY <1>1, <1>6, <1>8, <2>1, PieceIs
  <2> QED
    BY <1>14, <1>15, <2>1, <2>2
<1>17. ReadBytes(data, o) = [ok |-> TRUE, val |-> SubSeq(data, low.off, end - 1), off |-> end]
  BY <1>9, <1>11, <1>13, <1>15, ReadBytesOf
<1>18. PutBytes(s) \in Str /\ Len(PutBytes(s)) = n + 2
  <2>1. <<h, l>> \in Str /\ Len(<<h, l>>) = 2
    BY TwoOf
  <2>2. <<h, l>> \o s \in Str /\ Len(<<h, l>> \o s) = 2 + n
    BY <1>1, <2>1, StrOf
  <2> QED
    BY <1>1, <1>5, <2>2
<1>19. end = o + Len(PutBytes(s))
  BY <1>8, <1>14, <1>18
<1> QED
  BY <1>1, <1>16, <1>17, <1>18, <1>19 DEF Found

\* Bytes that are read stand there.
LEMMA ReadBytesIs ==
  ASSUME NEW data \in Str, NEW o \in Offset(data)
  PROVE  LET r == ReadBytes(data, o)
         IN r.val \in Str /\ ShortBytes(r.val) /\ Honest(data, o, r, PutBytes(r.val))
<1>1. PICK high : high = ReadWord(data, o)
  OBVIOUS
<1>2. high.val \in Word /\ Honest(data, o, high, <<high.val>>)
  BY <1>1, ReadWordIs
<1>3. high.off \in Offset(data)
  BY <1>2 DEF Honest
<1>4. PICK low : low = ReadWord(data, high.off)
  OBVIOUS
<1>5. low.val \in Word /\ Honest(data, high.off, low, <<low.val>>)
  BY <1>3, <1>4, ReadWordIs
<1>6. PICK n \in Nat : /\ n = high.val * W + low.val /\ n < W * W
                       /\ (n \div W) % W = high.val /\ n % W = low.val
  BY <1>2, <1>5, TwoWords
<1>7. Honest(data, o, low, <<high.val, low.val>>) /\ (low.ok => high.ok)
  <2>1. <<high.val>> \in Str /\ <<low.val>> \in Str /\ Len(<<low.val>>) = 1
    BY <1>2, <1>5, StrOf
  <2>2. Honest(data, o, low, <<high.val>> \o <<low.val>>) /\ (low.ok => high.ok)
    BY <1>2, <1>5, <2>1, HonestConcat
  <2> QED
    BY <1>2, <1>5, <2>2, TwoOf
<1>8. PICK a : a = low.off
  OBVIOUS
<1>9. a \in Nat \ {0} /\ a <= Len(data) + 1 /\ Len(data) \in Nat /\ o \in Nat
  BY <1>5, <1>8, StrFacts DEF Honest, Offset
<1>10. PICK end : end = low.off + high.val * W + low.val
  OBVIOUS
<1>11. end = a + n
  <2>1. high.val * W \in Nat /\ low.val \in Nat
    BY <1>2, <1>5, WordsAssumption DEF Word
  <2> QED
    BY <1>6, <1>8, <1>9, <1>10, <2>1
<1>12. CASE low.ok /\ end <= Len(data) + 1
  <2>1. PICK s : s = SubSeq(data, a, (a + n) - 1)
    OBVIOUS
  <2>2. ReadBytes(data, o) = [ok |-> TRUE, val |-> s, off |-> end]
    BY <1>1, <1>4, <1>8, <1>10, <1>11, <1>12, <2>1, ReadBytesOf
  <2>3. s \in Str /\ Len(s) = n /\ At(data, a, s)
    BY <1>9, <1>11, <1>12, <2>1, PieceIs
  <2>4. PutBytes(s) = <<high.val, low.val>> \o s
    BY <1>6, <2>3 DEF PutBytes
  <2>5. a = o + 2 /\ At(data, o, <<high.val, low.val>>)
    <3>1. Len(<<high.val, low.val>>) = 2
      BY <1>2, <1>5, TwoOf
    <3> QED
      BY <1>7, <1>8, <1>12, <3>1 DEF Honest
  <2>6. At(data, o, PutBytes(s)) /\ Len(PutBytes(s)) = 2 + n
    <3>1. PICK u \in Str : u = <<high.val, low.val>> /\ Len(u) = 2
      BY <1>2, <1>5, TwoOf
    <3>2. At(data, o, u \o s) /\ Len(u \o s) = 2 + n
      BY ZenonT(30), <2>3, <2>5, <3>1, AtConcat, StrOf
    <3> QED
      BY <2>4, <3>1, <3>2
  <2>7. end = o + Len(PutBytes(s)) /\ end \in Offset(data)
    BY <1>9, <1>11, <1>12, <2>5, <2>6 DEF Offset
  <2>8. ShortBytes(s)
    BY <1>6, <2>3 DEF ShortBytes
  <2>9. LET r == ReadBytes(data, o) IN r.ok = TRUE /\ r.val = s /\ r.off = end
    BY <2>2
  <2> QED
    BY <2>3, <2>6, <2>7, <2>8, <2>9 DEF Honest
<1>13. CASE ~(low.ok /\ end <= Len(data) + 1)
  <2>1. ReadBytes(data, o) = [ok |-> FALSE, val |-> <<>>, off |-> Len(data) + 1]
    BY <1>1, <1>4, <1>10, <1>13, ReadBytesOf
  <2>2. <<>> \in Str /\ ShortBytes(<<>>)
    BY StrOf, WordsAssumption DEF ShortBytes
  <2> QED
    BY <1>9, <2>1, <2>2 DEF Honest, Offset
<1> QED
  BY <1>12, <1>13

-----------------------------------------------------------------------------
(* Recursive functions and lists *)

\* up begins with a, and every value after it is made of the one before.
Follows(up, n, V, a, next) ==
  up \in [0 .. n -> V] /\ up[0] = a /\ \A k \in 1 .. n : up[k] = next[<<k, up[k - 1]>>]

\* A function that is defined step by step exists.
LEMMA Recursion ==
  ASSUME NEW n \in Nat, NEW V, NEW a \in V, NEW next \in [(1 .. n) \X V -> V]
  PROVE  \E up : Follows(up, n, V, a, next)
<1> DEFINE S == {k \in 0 .. n : \E up \in [0 .. k -> V] :
                   up[0] = a /\ \A j \in 1 .. k : up[j] = next[<<j, up[j - 1]>>]}
<1>1. 0 \in S
  <2> DEFINE up == [j \in 0 .. 0 |-> a]
  <2>1. up \in [0 .. 0 -> V] /\ up[0] = a /\ \A j \in 1 .. 0 : up[j] = next[<<j, up[j - 1]>>]
    OBVIOUS
  <2> HIDE DEF up
  <2> QED
    BY <2>1
<1>2. ASSUME NEW k \in Nat, k \in S, k < n PROVE k + 1 \in S
  <2>1. PICK up \in [0 .. k -> V] : up[0] = a /\ \A j \in 1 .. k : up[j] = next[<<j, up[j - 1]>>]
    BY <1>2
  <2>2. PICK last \in V : last = next[<<k + 1, up[k]>>]
    <3>1. k + 1 \in 1 .. n /\ up[k] \in V
      BY <1>2, <2>1
    <3> QED
      BY <3>1
  <2>3. PICK more : more = [j \in 0 .. k + 1 |-> IF j = k + 1 THEN last ELSE up[j]]
    OBVIOUS
  <2>4. more \in [0 .. k + 1 -> V] /\ more[0] = a
    BY <2>1, <2>3
  <2>5. \A j \in 1 .. k + 1 : more[j] = next[<<j, more[j - 1]>>]
    <3> TAKE j \in 1 .. k + 1
    <3>1. CASE j = k + 1
      <4>1. more[j] = last /\ more[k] = up[k] /\ j - 1 = k
        BY <2>3, <3>1
      <4> QED
        BY <2>2, <3>1, <4>1
    <3>2. CASE j \in 1 .. k
      <4>1. more[j] = up[j] /\ more[j - 1] = up[j - 1]
        BY <2>3, <3>2
      <4> QED
        BY <2>1, <3>2, <4>1
    <3> QED
      BY <3>1, <3>2
  <2> QED
    BY <1>2, <2>4, <2>5
<1>3. n \in S
  <2> HIDE DEF S
  <2> QED
    BY <1>1, <1>2, BoundedInduction
<1> QED
  BY <1>3 DEF Follows

\* FlattenSeq joins one string after the other.
LEMMA FlattenIs ==
  ASSUME NEW written \in Seq(Str)
  PROVE  \E f \in [0 .. Len(written) -> Str] :
           /\ f[0] = <<>> /\ f[Len(written)] = FlattenSeq(written)
           /\ \A k \in 1 .. Len(written) : f[k] = f[k - 1] \o written[k]
<1>1. PICK n \in Nat : n = Len(written)
  BY LenProperties
<1>2. \A k \in 1 .. n : written[k] \in Str
  BY <1>1, ElementOfSeq
<1>3. PICK next \in [(1 .. n) \X Str -> Str] :
             \A k \in 1 .. n, s \in Str : next[<<k, s>>] = s \o written[k]
  <2> DEFINE next == [p \in (1 .. n) \X Str |-> p[2] \o written[p[1]]]
  <2>1. next \in [(1 .. n) \X Str -> Str] /\ \A k \in 1 .. n, s \in Str : next[<<k, s>>] = s \o written[k]
    BY <1>2, StrOf
  <2> HIDE DEF next
  <2> QED
    BY <2>1
<1>4. PICK f \in [0 .. n -> Str] : f[0] = <<>> /\ \A k \in 1 .. n : f[k] = next[<<k, f[k - 1]>>]
  <2>1. <<>> \in Str
    BY StrOf
  <2>2. \E f : Follows(f, n, Str, <<>>, next)
    BY <1>3, <2>1, Recursion
  <2> QED
    BY <2>2 DEF Follows
<1>5. \A k \in 1 .. n : f[k] = f[k - 1] \o written[k]
  <2> TAKE k \in 1 .. n
  <2>1. f[k - 1] \in Str
    OBVIOUS
  <2> QED
    BY <1>3, <1>4, <2>1
<1>6. f[n] = FlattenSeq(written)
  <2>1. CASE n = 0
    BY <1>1, <1>4, <2>1, EmptySeq DEF FlattenSeq
  <2>2. CASE n # 0
    <3> DEFINE Joined(g) == [i \in 1 .. n |-> IF i = 1 THEN written[i] ELSE g[i - 1] \o written[i]]
               g == CHOOSE g : g = Joined(g)
    <3>1. PICK h : h = [i \in 1 .. n |-> f[i]]
      OBVIOUS
    <3>2. h = Joined(h)
      <4>1. \A i \in 1 .. n : h[i] = IF i = 1 THEN written[i] ELSE h[i - 1] \o written[i]
        <5> TAKE i \in 1 .. n
        <5>1. CASE i = 1
          <6>1. f[1] = <<>> \o written[1] /\ written[1] \in Seq(Word)
            <7>1. 1 \in 1 .. n /\ 1 - 1 = 0
              BY <5>1
            <7>2. written[1] \in Seq(Word)
              BY <1>2, <7>1 DEF Str
            <7> QED
              BY <1>4, <1>5, <7>1, <7>2
          <6>2. <<>> \o written[1] = written[1]
            BY <6>1, ConcatEmptySeq
          <6> QED
            BY <3>1, <5>1, <6>1, <6>2
        <5>2. CASE i # 1
          <6>1. h[i] = f[i] /\ h[i - 1] = f[i - 1]
            BY <3>1, <5>2
          <6> QED
            BY <1>5, <5>2, <6>1
        <5> QED
          BY <5>1, <5>2
      <4> QED
        BY <3>1, <4>1
    <3>3. g = Joined(g)
      BY <3>2
    <3>4. FlattenSeq(written) = g[n]
      BY <1>1, <2>2 DEF FlattenSeq
    <3> HIDE DEF g
    <3>5. \A i \in 1 .. n : g[i] = IF i = 1 THEN written[i] ELSE g[i - 1] \o written[i]
      BY <3>3
    <3> DEFINE S == {k \in 0 .. n : k = 0 \/ g[k] = f[k]}
    <3>6. \A k \in Nat : k \in S /\ k < n => k + 1 \in S
      <4> SUFFICES ASSUME NEW k \in Nat, k \in S, k < n PROVE k + 1 \in S
        OBVIOUS
      <4>1. CASE k = 0
        <5>1. 1 \in 1 .. n
          BY <2>2
        <5>2. h[1] = written[1]
          BY <3>2, <5>1
        <5>3. g[1] = written[1] /\ h[1] = f[1]
          BY <3>1, <3>5, <5>1
        <5> QED
          BY <4>1, <5>1, <5>2, <5>3
      <4>2. CASE k # 0
        <5>1. k + 1 \in 1 .. n /\ k + 1 # 1 /\ (k + 1) - 1 = k
          BY <4>2
        <5>2. f[k + 1] = f[k] \o written[k + 1]
          BY <1>5, <5>1
        <5>3. g[k + 1] = g[(k + 1) - 1] \o written[k + 1]
          BY <3>5, <5>1
        <5>4. g[k] = f[k]
          BY <4>2
        <5>5. g[k + 1] = f[k + 1]
          BY <5>1, <5>2, <5>3, <5>4
        <5> QED
          BY <5>1, <5>5
      <4> QED
        BY <4>1, <4>2
    <3>7. n \in S
      <4>1. 0 \in S
        OBVIOUS
      <4> HIDE DEF S
      <4>2. \A k \in 0 .. n : k \in S
        BY <3>6, <4>1, BoundedInduction
      <4> QED
        BY <4>2
    <3> QED
      BY <2>2, <3>4, <3>7
  <2> QED
    BY <2>1, <2>2
<1> QED
  BY <1>1, <1>4, <1>5, <1>6

\* One more string at the end.
LEMMA FlattenAppend ==
  ASSUME NEW written \in Seq(Str), NEW last \in Str
  PROVE  /\ FlattenSeq(written) \in Str
         /\ FlattenSeq(Append(written, last)) = FlattenSeq(written) \o last
<1>1. PICK n \in Nat : n = Len(written)
  BY LenProperties
<1>2. PICK f \in [0 .. n -> Str] : /\ f[0] = <<>> /\ f[n] = FlattenSeq(written)
                                   /\ \A k \in 1 .. n : f[k] = f[k - 1] \o written[k]
  BY <1>1, FlattenIs
<1>3. PICK more \in Seq(Str) : more = Append(written, last)
  BY AppendProperties
<1>4. Len(more) = n + 1 /\ more[n + 1] = last /\ \A k \in 1 .. n : more[k] = written[k]
  BY <1>1, <1>3, AppendProperties
<1>5. PICK g \in [0 .. n + 1 -> Str] : /\ g[0] = <<>> /\ g[n + 1] = FlattenSeq(more)
                                       /\ \A k \in 1 .. n + 1 : g[k] = g[k - 1] \o more[k]
  BY <1>4, FlattenIs
<1> DEFINE S == {k \in 0 .. n : g[k] = f[k]}
<1>6. 0 \in S
  BY <1>2, <1>5
<1>7. ASSUME NEW k \in Nat, k \in S, k < n PROVE k + 1 \in S
  <2>1. k + 1 \in 1 .. n /\ k + 1 \in 1 .. n + 1 /\ (k + 1) - 1 = k /\ g[k] = f[k]
    BY <1>7
  <2>2. f[k + 1] = f[(k + 1) - 1] \o written[k + 1] /\ g[k + 1] = g[(k + 1) - 1] \o more[k + 1]
    BY <1>2, <1>5, <2>1
  <2>3. g[k + 1] = f[k + 1]
    BY <1>4, <2>1, <2>2
  <2> QED
    BY <2>1, <2>3
<1>8. g[n] = f[n]
  <2> HIDE DEF S
  <2>1. \A k \in 0 .. n : k \in S
    BY <1>6, <1>7, BoundedInduction
  <2> QED
    BY <2>1 DEF S
<1>9. g[n + 1] = g[n] \o last
  <2>1. n + 1 \in 1 .. n + 1 /\ (n + 1) - 1 = n
    OBVIOUS
  <2> QED
    BY <1>4, <1>5, <2>1
<1> QED
  BY <1>2, <1>3, <1>5, <1>8, <1>9

\* The strings stand in the data one after the other; offs has the offset of the first
\* and those after each.
Laid(data, offs, written) ==
  /\ offs \in [0 .. Len(written) -> Offset(data)]
  /\ \A k \in 1 .. Len(written) :
       At(data, offs[k - 1], written[k]) /\ offs[k] = offs[k - 1] + Len(written[k])

\* Strings that stand one after the other are what FlattenSeq makes of them.
LEMMA AtFlat ==
  ASSUME NEW data \in Str, NEW written \in Seq(Str), NEW offs, Laid(data, offs, written)
  PROVE  /\ FlattenSeq(written) \in Str /\ At(data, offs[0], FlattenSeq(written))
         /\ offs[Len(written)] = offs[0] + Len(FlattenSeq(written))
<1>1. PICK n \in Nat : n = Len(written)
  BY LenProperties
<1>2. PICK f \in [0 .. n -> Str] : /\ f[0] = <<>> /\ f[n] = FlattenSeq(written)
                                   /\ \A k \in 1 .. n : f[k] = f[k - 1] \o written[k]
  BY <1>1, FlattenIs
<1>3. /\ offs \in [0 .. n -> Nat \ {0}] /\ Len(data) \in Nat /\ \A k \in 0 .. n : offs[k] <= Len(data) + 1
      /\ \A k \in 1 .. n : written[k] \in Str /\ f[k - 1] \in Str
  <2>1. Len(data) \in Nat /\ offs \in [0 .. n -> Offset(data)]
    BY <1>1, StrFacts DEF Laid
  <2>2. \A k \in 0 .. n : offs[k] \in Nat \ {0} /\ offs[k] <= Len(data) + 1
    BY <2>1 DEF Offset
  <2>3. offs \in [0 .. n -> Nat \ {0}]
    BY <2>1, <2>2
  <2>4. \A k \in 1 .. n : written[k] \in Str
    BY <1>1, ElementOfSeq
  <2>5. \A k \in 1 .. n : f[k - 1] \in Str
    OBVIOUS
  <2> QED
    BY <2>1, <2>2, <2>3, <2>4, <2>5
<1> DEFINE S == {k \in 0 .. n : At(data, offs[0], f[k]) /\ offs[k] = offs[0] + Len(f[k])}
<1>4. 0 \in S
  <2>1. Len(f[0]) = 0 /\ offs[0] \in Nat \ {0} /\ offs[0] <= Len(data) + 1
    BY <1>2, <1>3, StrOf
  <2> QED
    BY <1>3, <2>1 DEF At
<1>5. ASSUME NEW k \in Nat, k \in S, k < n PROVE k + 1 \in S
  <2>1. k + 1 \in 1 .. n /\ (k + 1) - 1 = k /\ k \in 0 .. n
    BY <1>5
  <2>2. f[k + 1] = f[k] \o written[k + 1] /\ f[k] \in Str /\ written[k + 1] \in Str
    <3>1. f[k + 1] = f[(k + 1) - 1] \o written[k + 1] /\ f[(k + 1) - 1] \in Str
      BY <1>2, <1>3, <2>1
    <3> QED
      BY <1>3, <2>1, <3>1
  <2>3. At(data, offs[k], written[k + 1]) /\ offs[k + 1] = offs[k] + Len(written[k + 1])
    <3>1. At(data, offs[(k + 1) - 1], written[k + 1])
          /\ offs[k + 1] = offs[(k + 1) - 1] + Len(written[k + 1])
      BY <1>1, <2>1 DEF Laid
    <3> QED
      BY <2>1, <3>1
  <2>4. At(data, offs[0], f[k]) /\ offs[k] = offs[0] + Len(f[k])
    BY <1>5
  <2>5. At(data, offs[0], f[k + 1])
    BY <2>2, <2>3, <2>4, AtConcat
  <2>6. Len(f[k + 1]) = Len(f[k]) + Len(written[k + 1]) /\ Len(f[k]) \in Nat
        /\ Len(written[k + 1]) \in Nat
    BY <2>2, StrOf, StrFacts
  <2>7. offs[k + 1] = offs[0] + Len(f[k + 1])
    BY <1>3, <2>1, <2>3, <2>4, <2>6
  <2> QED
    BY <2>1, <2>5, <2>7
<1>6. n \in S
  <2> HIDE DEF S
  <2>1. \A k \in 0 .. n : k \in S
    BY <1>4, <1>5, BoundedInduction
  <2> QED
    BY <2>1
<1>7. f[n] \in Str
  BY <1>2
<1> QED
  BY <1>1, <1>2, <1>6, <1>7

\* Where the strings are of which FlattenSeq made what stands in the data.
LEMMA FlatAt ==
  ASSUME NEW data \in Str, NEW written \in Seq(Str), NEW o, At(data, o, FlattenSeq(written))
  PROVE  \E offs : Laid(data, offs, written) /\ offs[0] = o
<1>1. PICK n \in Nat : n = Len(written)
  BY LenProperties
<1>2. PICK f \in [0 .. n -> Str] : /\ f[0] = <<>> /\ f[n] = FlattenSeq(written)
                                   /\ \A k \in 1 .. n : f[k] = f[k - 1] \o written[k]
  BY <1>1, FlattenIs
<1>3. /\ Len(data) \in Nat /\ o \in Nat \ {0} /\ \A k \in 0 .. n : f[k] \in Str /\ Len(f[k]) \in Nat
      /\ \A k \in 1 .. n : written[k] \in Str /\ f[k - 1] \in Str /\ Len(written[k]) \in Nat
  <2>1. Len(data) \in Nat /\ o \in Nat \ {0}
    BY StrFacts DEF At
  <2>2. \A k \in 0 .. n : f[k] \in Str /\ Len(f[k]) \in Nat
    BY <1>2, StrFacts
  <2>3. \A k \in 1 .. n : written[k] \in Str /\ f[k - 1] \in Str /\ Len(written[k]) \in Nat
    <3>1. \A k \in 1 .. n : written[k] \in Str
      BY <1>1, ElementOfSeq
    <3>2. \A k \in 1 .. n : k - 1 \in 0 .. n
      OBVIOUS
    <3>3. \A k \in 1 .. n : f[k - 1] \in Str
      BY <1>2, <3>2
    <3> QED
      BY <3>1, <3>3, StrFacts
  <2> QED
    BY <2>1, <2>2, <2>3
<1> DEFINE S == {j \in 0 .. n : At(data, o, f[n - j])}
<1>4. 0 \in S
  BY <1>2
<1>5. ASSUME NEW j \in Nat, j \in S, j < n PROVE j + 1 \in S
  <2>1. PICK k \in 1 .. n : k = n - j
    BY <1>5
  <2>2. n - (j + 1) = k - 1 /\ j + 1 \in 0 .. n
    BY <1>5, <2>1
  <2>3. At(data, o, f[k]) /\ f[k] = f[k - 1] \o written[k]
    BY <1>2, <1>5, <2>1
  <2>4. At(data, o, f[k - 1])
    BY <1>3, <2>3, AtConcat
  <2> QED
    BY <2>2, <2>4
<1>6. \A j \in 0 .. n : j \in S
  <2> HIDE DEF S
  <2> QED
    BY <1>4, <1>5, BoundedInduction
<1>7. \A k \in 0 .. n : At(data, o, f[k])
  <2> TAKE k \in 0 .. n
  <2>1. n - k \in S /\ n - (n - k) = k
    BY <1>6
  <2> QED
    BY <2>1
<1>8. PICK offs : offs = [k \in 0 .. n |-> o + Len(f[k])]
  OBVIOUS
<1>9. offs \in [0 .. n -> Offset(data)]
  <2>1. \A k \in 0 .. n : o + Len(f[k]) \in Offset(data)
    BY <1>3, <1>7 DEF At, Offset
  <2> QED
    BY <1>8, <2>1
<1>10. ASSUME NEW k \in 1 .. n
       PROVE  At(data, offs[k - 1], written[k]) /\ offs[k] = offs[k - 1] + Len(written[k])
  <2>1. offs[k] = o + Len(f[k]) /\ offs[k - 1] = o + Len(f[k - 1])
    BY <1>8
  <2>2. f[k] = f[k - 1] \o written[k] /\ written[k] \in Str /\ f[k - 1] \in Str
    BY <1>2, <1>3
  <2>3. At(data, o + Len(f[k - 1]), written[k])
    <3>1. PICK s \in Str : s = f[k - 1]
      BY <2>2
    <3>2. PICK u \in Str : u = written[k]
      BY <2>2
    <3>3. At(data, o, s \o u)
      BY SMTT(30), <1>7, <2>2, <3>1, <3>2
    <3>4. At(data, o + Len(s), u)
      BY <3>3, AtConcat
    <3> QED
      BY <3>1, <3>2, <3>4
  <2>4. Len(f[k]) = Len(f[k - 1]) + Len(written[k])
    BY <2>2, StrOf
  <2>5. Len(f[k - 1]) \in Nat /\ Len(written[k]) \in Nat
    BY <2>2, StrFacts
  <2>6. offs[k] = offs[k - 1] + Len(written[k])
    <3>1. o \in Nat
      BY <1>3
    <3>2. PICK l \in Nat : l = Len(f[k - 1])
      BY <2>5
    <3>3. PICK m \in Nat : m = Len(written[k])
      BY <2>5
    <3>4. offs[k - 1] = o + l /\ offs[k] = o + (l + m)
      BY <2>1, <2>4, <3>2, <3>3
    <3> QED
      BY SMTT(30), <3>1, <3>3, <3>4
  <2> QED
    BY <2>1, <2>3, <2>6
<1>11. offs[0] = o
  <2>1. Len(f[0]) = 0 /\ 0 \in 0 .. n
    BY <1>2, StrOf
  <2>2. offs[0] = o + 0 /\ o \in Nat
    BY <1>3, <1>8, <2>1
  <2> QED
    BY <2>2
<1> QED
  BY <1>1, <1>9, <1>10, <1>11 DEF Laid

\* What a reader may say of what is read: elements of T.
Says(data, T) == [ok : BOOLEAN, val : T, off : Offset(data)]

\* What has been read, with one more element.
More(v, one) == [ok |-> v.ok /\ one.ok, val |-> Append(v.val, one.val), off |-> one.off]

\* Every value of up after the first is the one before with one more element.
ReadsAll(up, read, n, a) ==
  up[0] = a /\ \A k \in 1 .. n : up[k] = More(up[k - 1], read[up[k - 1].off])

\* ReadMany reads one element after the other, as many as its count says.
LEMMA ReadManySteps ==
  ASSUME NEW data \in Str, NEW o \in Offset(data), NEW T, NEW read \in [Offset(data) -> Says(data, T)],
         NEW count, count = ReadWord(data, o)
  PROVE  \E up \in [0 .. count.val -> Says(data, Seq(T))] :
           /\ ReadsAll(up, read, count.val, [ok |-> count.ok, val |-> <<>>, off |-> count.off])
           /\ ReadMany(read, data, o) =
                IF up[count.val].ok THEN up[count.val]
                                    ELSE [ok |-> FALSE, val |-> <<>>, off |-> Len(data) + 1]
<1>1. PICK n \in Nat : n = count.val
  <2>1. count.val \in Word
    BY ReadWordIs
  <2> QED
    BY <2>1, WordsAssumption DEF Word
<1>2. PICK V : V = Says(data, Seq(T))
  OBVIOUS
<1>3. PICK a \in V : a = [ok |-> count.ok, val |-> <<>>, off |-> count.off]
  <2>1. count.ok \in BOOLEAN /\ count.off \in Offset(data)
    BY ReadWordIs DEF Honest
  <2>2. <<>> \in Seq(T)
    OBVIOUS
  <2> QED
    BY <1>2, <2>1, <2>2 DEF Says
<1>4. \A v \in V : read[v.off] \in Says(data, T) /\ More(v, read[v.off]) \in V
  <2> TAKE v \in V
  <2>1. v.off \in Offset(data) /\ v.ok \in BOOLEAN /\ v.val \in Seq(T)
    BY <1>2 DEF Says
  <2>2. PICK one \in Says(data, T) : one = read[v.off]
    BY <2>1
  <2>3. one.ok \in BOOLEAN /\ one.val \in T /\ one.off \in Offset(data)
    BY DEF Says
  <2>4. Append(v.val, one.val) \in Seq(T)
    BY <2>1, <2>3
  <2>5. (v.ok /\ one.ok) \in BOOLEAN
    OBVIOUS
  <2>6. More(v, one) \in V
    BY <1>2, <2>3, <2>4, <2>5 DEF More, Says
  <2> QED
    BY <2>2, <2>6
<1>5. PICK next \in [(1 .. n) \X V -> V] :
             \A k \in 1 .. n, v \in V : next[<<k, v>>] = More(v, read[v.off])
  <2> DEFINE next == [p \in (1 .. n) \X V |-> More(p[2], read[p[2].off])]
  <2>1. next \in [(1 .. n) \X V -> V]
        /\ \A k \in 1 .. n, v \in V : next[<<k, v>>] = More(v, read[v.off])
    BY <1>4
  <2> HIDE DEF next
  <2> QED
    BY <2>1
<1>6. PICK h \in [0 .. n -> V] : ReadsAll(h, read, n, a)
  <2>1. PICK h : Follows(h, n, V, a, next)
    BY Recursion
  <2>2. h \in [0 .. n -> V] /\ h[0] = a
    BY <2>1 DEF Follows
  <2>3. \A k \in 1 .. n : h[k] = More(h[k - 1], read[h[k - 1].off])
    <3> TAKE k \in 1 .. n
    <3>1. h[k - 1] \in V /\ h[k] = next[<<k, h[k - 1]>>]
      BY <2>1, <2>2 DEF Follows
    <3> QED
      BY <1>5, <3>1
  <2> QED
    BY <2>2, <2>3 DEF ReadsAll
<1> DEFINE Stepped(g) ==
             [k \in 0 .. count.val |->
                IF k = 0 THEN [ok |-> count.ok, val |-> <<>>, off |-> count.off]
                ELSE LET before == g[k - 1]
                         one == read[before.off]
                     IN [ok |-> before.ok /\ one.ok, val |-> Append(before.val, one.val),
                         off |-> one.off]]
           g == CHOOSE g : g = Stepped(g)
<1>7. h = Stepped(h)
  <2>1. \A k \in 0 .. n : h[k] = IF k = 0 THEN a ELSE More(h[k - 1], read[h[k - 1].off])
    BY <1>6 DEF ReadsAll
  <2> QED
    BY <1>1, <1>3, <2>1 DEF More
<1>8. g = Stepped(g)
  BY <1>7
<1>9. ReadMany(read, data, o) =
        IF g[count.val].ok THEN g[count.val]
                           ELSE [ok |-> FALSE, val |-> <<>>, off |-> Len(data) + 1]
  BY DEF ReadMany
<1> HIDE DEF g
<1>10. \A k \in 0 .. n : g[k] = IF k = 0 THEN a ELSE More(g[k - 1], read[g[k - 1].off])
  BY <1>1, <1>3, <1>8 DEF More
<1>11. g[n] = h[n]
  <2> DEFINE S == {k \in 0 .. n : g[k] = h[k]}
  <2>1. 0 \in S
    BY <1>6, <1>10 DEF ReadsAll
  <2>2. ASSUME NEW k \in Nat, k \in S, k < n PROVE k + 1 \in S
    <3>1. k + 1 \in 1 .. n /\ k + 1 \in 0 .. n /\ k + 1 # 0 /\ (k + 1) - 1 = k /\ g[k] = h[k]
      BY <2>2
    <3>2. h[k + 1] = More(h[(k + 1) - 1], read[h[(k + 1) - 1].off])
      BY <1>6, <3>1 DEF ReadsAll
    <3>3. g[k + 1] = More(g[(k + 1) - 1], read[g[(k + 1) - 1].off])
      BY <1>10, <3>1
    <3>4. g[k + 1] = h[k + 1]
      BY <3>1, <3>2, <3>3
    <3> QED
      BY <3>1, <3>4
  <2> HIDE DEF S
  <2>3. \A k \in 0 .. n : k \in S
    BY <2>1, <2>2, BoundedInduction
  <2> QED
    BY <2>3 DEF S
<1>12. h \in [0 .. count.val -> Says(data, Seq(T))]
  BY <1>1, <1>2
<1>13. WITNESS h \in [0 .. count.val -> Says(data, Seq(T))]
<1> QED
  BY <1>1, <1>3, <1>6, <1>9, <1>11

\* What put makes of the elements of a list.
Mapped(values, put) == [i \in DOMAIN values |-> put[values[i]]]

\* Lists of strings have strings, and one more element makes one more string.
LEMMA MappedIs ==
  ASSUME NEW T, NEW put \in [T -> Str], NEW values \in Seq(T)
  PROVE  /\ Mapped(values, put) \in Seq(Str) /\ Len(Mapped(values, put)) = Len(values)
         /\ \A x \in T : Mapped(Append(values, x), put) = Append(Mapped(values, put), put[x])
<1>1. PICK n \in Nat : n = Len(values) /\ DOMAIN values = 1 .. n /\ \A i \in 1 .. n : values[i] \in T
  BY LenProperties, ElementOfSeq
<1>2. Mapped(values, put) = [i \in 1 .. n |-> put[values[i]]]
  BY <1>1 DEF Mapped
<1>3. Mapped(values, put) \in Seq(Str) /\ Len(Mapped(values, put)) = n
  <2>1. \A i \in 1 .. n : put[values[i]] \in Str
    BY <1>1
  <2> QED
    BY <1>2, <2>1, IsASeq
<1>4. ASSUME NEW x \in T PROVE Mapped(Append(values, x), put) = Append(Mapped(values, put), put[x])
  <2>1. PICK u \in Seq(T) : u = Append(values, x)
    BY AppendProperties
  <2>2. Len(u) = n + 1 /\ u[n + 1] = x /\ \A i \in 1 .. n : u[i] = values[i]
    BY <1>1, <2>1, AppendProperties
  <2>3. DOMAIN u = 1 .. n + 1
    BY <2>2, LenProperties
  <2>4. PICK m \in Seq(Str) : m = Mapped(values, put)
    BY <1>3
  <2>5. PICK y \in Str : y = put[x]
    OBVIOUS
  <2>6. PICK v \in Seq(Str) : v = Append(m, y)
    BY AppendProperties
  <2>7. Len(v) = n + 1 /\ v[n + 1] = y /\ \A i \in 1 .. n : v[i] = m[i]
    BY <1>3, <2>4, <2>6, AppendProperties
  <2>8. v = [i \in 1 .. n + 1 |-> put[u[i]]]
    <3>1. DOMAIN v = 1 .. n + 1 /\ v = [i \in DOMAIN v |-> v[i]]
      BY <2>7, LenProperties
    <3>2. \A i \in 1 .. n + 1 : v[i] = put[u[i]]
      <4> TAKE i \in 1 .. n + 1
      <4>1. CASE i = n + 1
        BY <2>2, <2>5, <2>7, <4>1
      <4>2. CASE i \in 1 .. n
        BY <1>2, <2>2, <2>4, <2>7, <4>2
      <4> QED
        BY <4>1, <4>2
    <3> QED
      BY <3>1, <3>2
  <2>9. Mapped(u, put) = [i \in 1 .. n + 1 |-> put[u[i]]]
    BY <2>3 DEF Mapped
  <2> QED
    BY <2>1, <2>4, <2>5, <2>6, <2>8, <2>9
<1> QED
  BY <1>1, <1>3, <1>4

\* A list of elements, each as put writes it.
PutAll(values, put) == PutMany(Mapped(values, put))

\* A list is a string.
LEMMA PutAllOf ==
  ASSUME NEW T, NEW put \in [T -> Str], NEW values \in Seq(T), Short(values)
  PROVE  LET flat == FlattenSeq(Mapped(values, put))
         IN /\ flat \in Str /\ Len(values) \in Word /\ <<Len(values)>> \in Str
            /\ PutAll(values, put) = <<Len(values)>> \o flat /\ PutAll(values, put) \in Str
            /\ Len(PutAll(values, put)) = 1 + Len(flat)
<1>1. PICK n \in Nat : n = Len(values) /\ n < W
  BY LenProperties DEF Short
<1>2. n \in Word /\ n % W = n
  BY <1>1, WordsAssumption DEF Word
<1>3. PICK w \in Seq(Str) : w = Mapped(values, put) /\ Len(w) = n
  BY <1>1, MappedIs
<1>4. PICK flat \in Str : flat = FlattenSeq(w)
  <2>1. <<>> \in Str
    BY StrOf
  <2> QED
    BY <2>1, FlattenAppend
<1>5. <<n>> \in Str /\ Len(<<n>>) = 1
  BY <1>2, StrOf
<1>6. PutAll(values, put) = <<n>> \o flat
  BY <1>2, <1>3, <1>4 DEF PutAll, PutMany
<1>7. <<n>> \o flat \in Str /\ Len(<<n>> \o flat) = 1 + Len(flat)
  BY <1>5, StrOf
<1> QED
  BY <1>1, <1>2, <1>3, <1>4, <1>5, <1>6, <1>7

\* A list that is read stands there.
LEMMA ReadManyIs ==
  ASSUME NEW data \in Str, NEW o \in Offset(data), NEW T, NEW put \in [T -> Str],
         \A x \in T : Len(put[x]) > 0,
         NEW read \in [Offset(data) -> Says(data, T)],
         \A p \in Offset(data) : Honest(data, p, read[p], put[read[p].val])
  PROVE  LET r == ReadMany(read, data, o)
         IN r.val \in Seq(T) /\ Short(r.val) /\ Honest(data, o, r, PutAll(r.val, put))
<1>1. PICK count : count = ReadWord(data, o)
  OBVIOUS
<1>2. count.val \in Word /\ Honest(data, o, count, <<count.val>>)
  BY <1>1, ReadWordIs
<1>3. PICK n \in Word : n = count.val /\ n \in Nat /\ n < W
  BY <1>2, WordsAssumption DEF Word
<1>4. PICK up \in [0 .. n -> Says(data, Seq(T))] :
        /\ ReadsAll(up, read, n, [ok |-> count.ok, val |-> <<>>, off |-> count.off])
        /\ ReadMany(read, data, o) =
             IF up[n].ok THEN up[n] ELSE [ok |-> FALSE, val |-> <<>>, off |-> Len(data) + 1]
  BY ZenonT(30), <1>1, <1>3, ReadManySteps
<1>5. <<n>> \in Str
  BY StrOf
<1> DEFINE Flat(v) == FlattenSeq(Mapped(v, put))
           S == {k \in 0 .. n : /\ up[k].val \in Seq(T) /\ Len(up[k].val) = k
                                /\ Honest(data, o, up[k], <<n>> \o Flat(up[k].val))}
<1>6. 0 \in S
  <2>1. up[0] = [ok |-> count.ok, val |-> <<>>, off |-> count.off]
    BY <1>4 DEF ReadsAll
  <2>2. <<>> \in Seq(T) /\ Len(<<>>) = 0
    OBVIOUS
  <2>3. Flat(<<>>) = <<>>
    <3>1. Mapped(<<>>, put) \in Seq(Str) /\ Len(Mapped(<<>>, put)) = 0
      BY <2>2, MappedIs
    <3>2. PICK f \in [0 .. Len(Mapped(<<>>, put)) -> Str] :
            f[0] = <<>> /\ f[Len(Mapped(<<>>, put))] = FlattenSeq(Mapped(<<>>, put))
      BY <3>1, FlattenIs
    <3> QED
      BY <3>1, <3>2
  <2>4. <<n>> \o <<>> = <<n>>
    BY <1>5, ConcatEmptySeq DEF Str
  <2>5. Honest(data, o, up[0], <<n>>)
    BY <1>2, <1>3, <2>1 DEF Honest
  <2> HIDE DEF Flat
  <2>6. up[0].val = <<>>
    BY <2>1
  <2>7. Flat(up[0].val) = <<>>
    BY <2>3, <2>6
  <2>8. Honest(data, o, up[0], <<n>> \o Flat(up[0].val))
    BY <2>4, <2>5, <2>7
  <2>9. 0 \in 0 .. n
    BY <1>3
  <2> QED
    BY <2>2, <2>6, <2>8, <2>9
<1>7. ASSUME NEW k \in Nat, k \in S, k < n PROVE k + 1 \in S
  <2>1. k + 1 \in 0 .. n /\ k + 1 \in 1 .. n /\ k \in 0 .. n /\ (k + 1) - 1 = k
    BY <1>3, <1>7
  <2>2. PICK v \in Says(data, Seq(T)) : v = up[k]
    BY <2>1
  <2>3. v.off \in Offset(data) /\ v.val \in Seq(T) /\ v.ok \in BOOLEAN
    BY DEF Says
  <2>4. PICK one \in Says(data, T) : one = read[v.off]
    BY <2>3
  <2>5. one.val \in T /\ one.ok \in BOOLEAN /\ Honest(data, v.off, one, put[one.val])
    BY <2>3, <2>4 DEF Says
  <2>6. up[k + 1] = More(v, one)
    <3>1. up[k + 1] = More(up[(k + 1) - 1], read[up[(k + 1) - 1].off])
      BY <1>4, <2>1 DEF ReadsAll
    <3> QED
      BY <2>1, <2>2, <2>4, <3>1
  <2>7. Len(v.val) = k /\ Honest(data, o, v, <<n>> \o Flat(v.val))
    BY <1>7, <2>2
  <2>8. PICK w \in Seq(Str) : w = Mapped(v.val, put)
    BY <2>3, MappedIs
  <2>9. PICK y \in Str : y = put[one.val] /\ Len(y) > 0
    BY <2>5
  <2>10. PICK longer \in Seq(T) : longer = Append(v.val, one.val) /\ Len(longer) = k + 1
    <3>1. Append(v.val, one.val) \in Seq(T) /\ Len(Append(v.val, one.val)) = Len(v.val) + 1
      BY <2>3, <2>5, AppendProperties
    <3> QED
      BY <2>7, <3>1
  <2>11. Mapped(longer, put) = Append(w, y)
    BY SMTT(30), <2>3, <2>5, <2>8, <2>9, <2>10, MappedIs
  <2>12. FlattenSeq(w) \in Str /\ Flat(longer) = FlattenSeq(w) \o y
    BY <2>11, FlattenAppend
  <2>13. <<n>> \o FlattenSeq(w) \in Str
    BY <1>5, <2>12, StrOf
  <2>14. (<<n>> \o FlattenSeq(w)) \o y = <<n>> \o Flat(longer)
    BY <1>5, <2>12, ConcatAssociative DEF Str
  <2>15. (one.ok => v.ok) /\ Honest(data, o, one, (<<n>> \o FlattenSeq(w)) \o y)
    BY <2>5, <2>7, <2>8, <2>9, <2>13, HonestConcat
  <2>16. up[k + 1].val = longer /\ up[k + 1].off = one.off /\ up[k + 1].ok = one.ok
    BY <2>3, <2>5, <2>6, <2>10, <2>15 DEF More
  <2> HIDE DEF Flat
  <2>17. Honest(data, o, up[k + 1], <<n>> \o Flat(up[k + 1].val))
    BY <2>14, <2>15, <2>16 DEF Honest
  <2> QED
    BY <2>1, <2>10, <2>16, <2>17
<1>8. Len(up[n].val) = n /\ up[n].val \in Seq(T) /\ Honest(data, o, up[n], <<n>> \o Flat(up[n].val))
  <2> HIDE DEF S
  <2>1. \A k \in 0 .. n : k \in S
    BY <1>3, <1>6, <1>7, BoundedInduction
  <2> QED
    BY <1>3, <2>1 DEF S
<1>9. CASE up[n].ok
  <2>1. ReadMany(read, data, o) = up[n]
    BY <1>4, <1>9
  <2>2. Short(up[n].val)
    BY <1>3, <1>8 DEF Short
  <2>3. PutAll(up[n].val, put) = <<n>> \o Flat(up[n].val)
    BY <1>8, <2>2, PutAllOf
  <2> QED
    BY <1>8, <2>1, <2>2, <2>3
<1>10. CASE ~up[n].ok
  <2>1. ReadMany(read, data, o) = [ok |-> FALSE, val |-> <<>>, off |-> Len(data) + 1]
    BY <1>4, <1>10
  <2>2. <<>> \in Seq(T) /\ Short(<<>>)
    BY WordsAssumption DEF Short
  <2>3. Len(data) + 1 \in Offset(data)
    BY StrFacts DEF Offset
  <2> QED
    BY <2>1, <2>2, <2>3 DEF Honest
<1> QED
  BY <1>9, <1>10

\* A list that stands at an offset is read there when its elements are.
LEMMA ReadManyAt ==
  ASSUME NEW data \in Str, NEW o, NEW T, NEW put \in [T -> Str],
         NEW values \in Seq(T), Short(values), At(data, o, PutAll(values, put)),
         NEW read \in [Offset(data) -> Says(data, T)],
         \A i \in DOMAIN values, p \in Offset(data) :
           At(data, p, put[values[i]]) => read[p] = Found(put[values[i]], values[i], p)
  PROVE  /\ PutAll(values, put) \in Str
         /\ ReadMany(read, data, o) = Found(PutAll(values, put), values, o)
<1>1. PICK n \in Nat : n = Len(values) /\ DOMAIN values = 1 .. n
  BY LenProperties
<1>2. PICK w \in Seq(Str) : w = Mapped(values, put) /\ Len(w) = n
  BY <1>1, MappedIs
<1>3. \A i \in 1 .. n : w[i] = put[values[i]] /\ values[i] \in T /\ put[values[i]] \in Str
  <2>1. \A i \in 1 .. n : values[i] \in T
    BY <1>1, ElementOfSeq
  <2> QED
    BY <1>1, <1>2, <2>1 DEF Mapped
<1>4. PICK flat \in Str : flat = FlattenSeq(w)
  <2>1. <<>> \in Str
    BY StrOf
  <2> QED
    BY <2>1, FlattenAppend
<1>5. /\ n \in Word /\ <<n>> \in Str /\ Len(<<n>>) = 1 /\ PutAll(values, put) = <<n>> \o flat
      /\ PutAll(values, put) \in Str /\ Len(PutAll(values, put)) = 1 + Len(flat)
  <2>1. n \in Word /\ PutAll(values, put) = <<n>> \o flat /\ PutAll(values, put) \in Str
        /\ Len(PutAll(values, put)) = 1 + Len(flat)
    BY <1>1, <1>2, <1>4, PutAllOf
  <2> QED
    BY <2>1, StrOf
<1>6. At(data, o, <<n>>) /\ At(data, o + 1, flat)
  <2>1. PICK s \in Str : s = <<n>> /\ Len(s) = 1
    BY <1>5
  <2>2. At(data, o, s \o flat)
    BY <1>5, <2>1
  <2>3. At(data, o, s) /\ At(data, o + Len(s), flat)
    BY <2>2, AtConcat
  <2> QED
    BY <2>1, <2>3
<1>7. PICK count : count = ReadWord(data, o) /\ count = [ok |-> TRUE, val |-> n, off |-> o + 1]
  BY <1>6, ReadWordAt
<1>8. PICK offs : Laid(data, offs, w) /\ offs[0] = o + 1
  BY <1>4, <1>6, FlatAt
<1>9. offs \in [0 .. n -> Offset(data)]
      /\ \A k \in 1 .. n : At(data, offs[k - 1], w[k]) /\ offs[k] = offs[k - 1] + Len(w[k])
  BY <1>2, <1>8 DEF Laid
<1>10. o \in Offset(data)
  <2>1. o \in Nat \ {0} /\ o + 1 <= Len(data) + 1 /\ Len(data) \in Nat
    BY <1>5, <1>6, StrFacts DEF At
  <2> QED
    BY <2>1 DEF Offset
<1>11. PICK up \in [0 .. n -> Says(data, Seq(T))] :
         /\ ReadsAll(up, read, n, [ok |-> TRUE, val |-> <<>>, off |-> o + 1])
         /\ ReadMany(read, data, o) =
              IF up[n].ok THEN up[n] ELSE [ok |-> FALSE, val |-> <<>>, off |-> Len(data) + 1]
  <2>1. count = ReadWord(data, o) /\ count.val = n /\ count.ok = TRUE /\ count.off = o + 1
    BY <1>7
  <2>2. \E up \in [0 .. count.val -> Says(data, Seq(T))] :
          /\ ReadsAll(up, read, count.val, [ok |-> count.ok, val |-> <<>>, off |-> count.off])
          /\ ReadMany(read, data, o) =
               IF up[count.val].ok THEN up[count.val]
                                   ELSE [ok |-> FALSE, val |-> <<>>, off |-> Len(data) + 1]
    BY <1>10, <2>1, ReadManySteps
  <2> QED
    BY <2>1, <2>2
<1> DEFINE S == {k \in 0 .. n : /\ up[k].ok = TRUE /\ up[k].off = offs[k]
                                /\ up[k].val \in Seq(T) /\ Len(up[k].val) = k
                                /\ \A i \in 1 .. k : up[k].val[i] = values[i]}
<1>12. 0 \in S
  <2>1. up[0] = [ok |-> TRUE, val |-> <<>>, off |-> o + 1]
    BY <1>11 DEF ReadsAll
  <2>2. up[0].ok = TRUE /\ up[0].off = offs[0] /\ up[0].val = <<>>
    BY <1>8, <2>1
  <2>3. 0 \in 0 .. n /\ <<>> \in Seq(T) /\ Len(<<>>) = 0
    OBVIOUS
  <2>4. up[0].val \in Seq(T) /\ Len(up[0].val) = 0
    BY <2>2, <2>3
  <2>5. \A i \in 1 .. 0 : up[0].val[i] = values[i]
    OBVIOUS
  <2> QED
    BY <2>2, <2>3, <2>4, <2>5
<1>13. ASSUME NEW k \in Nat, k \in S, k < n PROVE k + 1 \in S
  <2>1. k + 1 \in 0 .. n /\ k + 1 \in 1 .. n /\ k \in 0 .. n /\ (k + 1) - 1 = k
    BY <1>13
  <2>2. PICK v \in Says(data, Seq(T)) : v = up[k]
    BY <2>1
  <2>3. v.ok = TRUE /\ v.off = offs[k] /\ v.val \in Seq(T) /\ Len(v.val) = k
        /\ \A i \in 1 .. k : v.val[i] = values[i]
    BY <1>13, <2>2
  <2>4. PICK s \in Str : s = w[k + 1] /\ s = put[values[k + 1]] /\ values[k + 1] \in T
    BY <1>3, <2>1
  <2>5. At(data, offs[k], s) /\ offs[k + 1] = offs[k] + Len(s) /\ offs[k] \in Offset(data)
    <3>1. At(data, offs[(k + 1) - 1], w[k + 1]) /\ offs[k + 1] = offs[(k + 1) - 1] + Len(w[k + 1])
      BY <1>9, <2>1
    <3>2. offs[k] \in Offset(data)
      BY <1>9, <2>1
    <3> QED
      BY <2>1, <2>4, <3>1, <3>2
  <2>6. PICK one : one = read[v.off]
    OBVIOUS
  <2>7. one.ok = TRUE /\ one.val = values[k + 1] /\ one.off = offs[k + 1]
    <3>1. one = Found(s, values[k + 1], offs[k])
      BY SMTT(30), <1>1, <2>1, <2>3, <2>4, <2>5, <2>6
    <3> QED
      BY <2>5, <3>1 DEF Found
  <2>8. up[k + 1] = More(v, one)
    <3>1. up[k + 1] = More(up[(k + 1) - 1], read[up[(k + 1) - 1].off])
      BY <1>11, <2>1 DEF ReadsAll
    <3> QED
      BY <2>1, <2>2, <2>6, <3>1
  <2>9. up[k + 1].ok = TRUE /\ up[k + 1].off = offs[k + 1]
        /\ up[k + 1].val = Append(v.val, values[k + 1])
    <3>1. up[k + 1].ok = (v.ok /\ one.ok) /\ up[k + 1].off = one.off
          /\ up[k + 1].val = Append(v.val, one.val)
      BY <2>8 DEF More
    <3>2. (v.ok /\ one.ok) = TRUE
      BY <2>3, <2>7
    <3> QED
      BY <2>7, <3>1, <3>2
  <2>10. PICK longer : longer = Append(v.val, values[k + 1])
    OBVIOUS
  <2>11. longer \in Seq(T) /\ Len(longer) = k + 1 /\ longer[k + 1] = values[k + 1]
         /\ \A i \in 1 .. k : longer[i] = v.val[i]
    BY SMTT(30), <2>3, <2>4, <2>10, AppendProperties
  <2>12. \A i \in 1 .. k + 1 : longer[i] = values[i]
    <3> TAKE i \in 1 .. k + 1
    <3>1. CASE i = k + 1
      BY <2>11, <3>1
    <3>2. CASE i \in 1 .. k
      BY <2>3, <2>11, <3>2
    <3> QED
      BY <3>1, <3>2
  <2> QED
    BY <2>1, <2>9, <2>10, <2>11, <2>12
<1>14. n \in S
  <2> HIDE DEF S
  <2>1. \A k \in 0 .. n : k \in S
    BY <1>12, <1>13, BoundedInduction
  <2> QED
    BY <2>1
<1>15. up[n].ok = TRUE /\ up[n].off = offs[n] /\ up[n].val = values
  <2>1. up[n].ok = TRUE /\ up[n].off = offs[n] /\ up[n].val \in Seq(T) /\ Len(up[n].val) = n
        /\ \A i \in 1 .. n : up[n].val[i] = values[i]
    BY <1>14
  <2> QED
    BY <1>1, <2>1, SeqEqual
<1>16. offs[n] = o + Len(PutAll(values, put))
  <2>1. offs[n] = offs[0] + Len(flat)
    BY <1>2, <1>4, <1>8, AtFlat
  <2>2. Len(flat) \in Nat /\ o \in Nat
    BY <1>10, StrFacts DEF Offset
  <2> QED
    BY <1>5, <1>8, <2>1, <2>2
<1>17. up[n] = [ok |-> TRUE, val |-> values, off |-> offs[n]]
  <2>1. up[n] \in Says(data, Seq(T))
    BY <1>11
  <2> QED
    BY <1>15, <2>1 DEF Says
<1> QED
  BY <1>5, <1>11, <1>15, <1>16, <1>17 DEF Found

-----------------------------------------------------------------------------
(* Arguments *)

\* The arguments whose lengths are written whole.
FitArgument == {a \in Argument : Short(a.name) /\ ShortBytes(a.raw)}

PutFit == [a \in FitArgument |-> PutArgument(a)]

PutArguments(args) == PutMany([i \in DOMAIN args |-> PutArgument(args[i])])

ReaderOf(data) == [p \in Offset(data) |-> ReadArgument(data, p)]

\* What is written of a string.
LEMMA PutStringOf ==
  ASSUME NEW s \in Str
  PROVE  PutString(s) \in Str /\ Len(PutString(s)) = Len(s) + 1
<1>1. Len(s) % W \in Word /\ Len(s) \in Nat
  BY StrFacts
<1>2. PICK u \in Str : u = <<Len(s) % W>> /\ Len(u) = 1
  BY <1>1, StrOf
<1>3. u \o s \in Str /\ Len(u \o s) = 1 + Len(s)
  BY <1>2, StrOf
<1> QED
  BY <1>1, <1>2, <1>3 DEF PutString

\* What is written of bytes.
LEMMA PutBytesOf ==
  ASSUME NEW s \in Str
  PROVE  PutBytes(s) \in Str /\ Len(PutBytes(s)) = Len(s) + 2
<1>1. PICK n \in Nat : n = Len(s)
  BY StrFacts
<1>2. PICK h \in Word : h = (n \div W) % W
  BY Division
<1>3. PICK l \in Word : l = n % W
  BY Division
<1>4. PICK u \in Str : u = <<h, l>> /\ Len(u) = 2
  BY TwoOf
<1>5. u \o s \in Str /\ Len(u \o s) = 2 + n
  BY <1>1, <1>4, StrOf
<1> QED
  BY <1>1, <1>2, <1>3, <1>4, <1>5 DEF PutBytes

\* What is written of an argument.
LEMMA PutArgumentOf ==
  ASSUME NEW a \in Argument
  PROVE  /\ PutString(a.name) \in Str /\ <<a.type>> \in Str /\ Len(<<a.type>>) = 1
         /\ PutBytes(a.raw) \in Str /\ PutString(a.name) \o <<a.type>> \in Str
         /\ PutArgument(a) = (PutString(a.name) \o <<a.type>>) \o PutBytes(a.raw)
         /\ PutArgument(a) \in Str /\ Len(PutArgument(a)) > 0
<1>1. a.name \in Str /\ a.type \in Word /\ a.raw \in Str
  BY DEF Argument
<1>2. PutString(a.name) \in Str /\ <<a.type>> \in Str /\ Len(<<a.type>>) = 1
  BY <1>1, PutStringOf, StrOf
<1>3. PutBytes(a.raw) \in Str /\ Len(PutBytes(a.raw)) > 0
  <2>1. Len(a.raw) \in Nat
    BY <1>1, StrFacts
  <2> QED
    BY <1>1, <2>1, PutBytesOf
<1>4. PICK u \in Str : u = PutString(a.name) \o <<a.type>>
  BY <1>2, StrOf
<1>5. u \o PutBytes(a.raw) \in Str /\ Len(u \o PutBytes(a.raw)) = Len(u) + Len(PutBytes(a.raw))
  BY <1>3, StrOf
<1>6. Len(u) \in Nat /\ Len(PutBytes(a.raw)) \in Nat
  BY <1>3, StrFacts
<1> QED
  BY <1>2, <1>3, <1>4, <1>5, <1>6 DEF PutArgument

\* An argument that stands at an offset is read there when its lengths fit.
LEMMA ReadArgumentAt ==
  ASSUME NEW data \in Str, NEW o, NEW a \in FitArgument, At(data, o, PutArgument(a))
  PROVE  ReadArgument(data, o) = Found(PutArgument(a), a, o)
<1>1. a \in Argument /\ a.name \in Str /\ a.type \in Word /\ a.raw \in Str
      /\ Short(a.name) /\ ShortBytes(a.raw) /\ a = [name |-> a.name, type |-> a.type, raw |-> a.raw]
  BY DEF FitArgument, Argument
<1>2. PICK s \in Str : s = PutString(a.name)
  BY <1>1, PutArgumentOf
<1>3. PICK t \in Str : t = <<a.type>> /\ Len(t) = 1
  BY <1>1, PutArgumentOf
<1>4. PICK u \in Str : u = PutBytes(a.raw)
  BY <1>1, PutArgumentOf
<1>5. s \o t \in Str /\ PutArgument(a) = (s \o t) \o u
      /\ Len(PutArgument(a)) = (Len(s) + Len(t)) + Len(u) /\ Len(s \o t) = Len(s) + Len(t)
  <2>1. s \o t \in Str /\ PutArgument(a) = (s \o t) \o u
    BY <1>1, <1>2, <1>3, <1>4, PutArgumentOf
  <2> QED
    BY <2>1, StrOf
<1>6. Len(s) \in Nat /\ Len(u) \in Nat /\ o \in Nat
  BY StrFacts DEF At
<1>7. At(data, o, s \o t) /\ At(data, o + Len(s \o t), u)
  BY ZenonT(30), <1>5, AtConcat
<1>8. At(data, o, s) /\ At(data, o + Len(s), t)
  BY <1>7, AtConcat
<1>9. PICK name : name = ReadString(data, o)
  OBVIOUS
<1>10. name.val = a.name /\ name.off = o + Len(s)
  <2>1. name = Found(s, a.name, o)
    BY <1>1, <1>2, <1>8, <1>9, ReadStringAt
  <2> QED
    BY <2>1 DEF Found
<1>11. PICK type : type = ReadWord(data, name.off)
  OBVIOUS
<1>12. type.val = a.type /\ type.off = (o + Len(s)) + 1
  BY <1>3, <1>8, <1>10, <1>11, ReadWordAt
<1>13. PICK raw : raw = ReadBytes(data, type.off)
  OBVIOUS
<1>14. raw.ok = TRUE /\ raw.val = a.raw /\ raw.off = o + Len(PutArgument(a))
  <2>1. type.off = o + Len(s \o t)
    BY <1>3, <1>5, <1>6, <1>12
  <2>2. raw = Found(u, a.raw, type.off)
    BY <1>1, <1>4, <1>7, <1>13, <2>1, ReadBytesAt
  <2>3. raw.ok = TRUE /\ raw.val = a.raw /\ raw.off = type.off + Len(u)
    BY <2>2 DEF Found
  <2> QED
    BY <1>3, <1>5, <1>6, <2>1, <2>3
<1>15. ReadArgument(data, o) =
         [ok |-> raw.ok, val |-> [name |-> name.val, type |-> type.val, raw |-> raw.val],
          off |-> raw.off]
  BY <1>9, <1>11, <1>13 DEF ReadArgument
<1> QED
  BY <1>1, <1>10, <1>12, <1>14, <1>15 DEF Found

\* An argument that is read stands there.
LEMMA ReadArgumentIs ==
  ASSUME NEW data \in Str, NEW o \in Offset(data)
  PROVE  LET r == ReadArgument(data, o)
         IN r \in Says(data, FitArgument) /\ Honest(data, o, r, PutArgument(r.val))
<1>1. PICK name : name = ReadString(data, o)
  OBVIOUS
<1>2. name.val \in Str /\ Short(name.val) /\ Honest(data, o, name, PutString(name.val))
  BY <1>1, ReadStringIs
<1>3. name.off \in Offset(data)
  BY <1>2 DEF Honest
<1>4. PICK type : type = ReadWord(data, name.off)
  OBVIOUS
<1>5. type.val \in Word /\ Honest(data, name.off, type, <<type.val>>)
  BY <1>3, <1>4, ReadWordIs
<1>6. type.off \in Offset(data)
  BY <1>5 DEF Honest
<1>7. PICK raw : raw = ReadBytes(data, type.off)
  OBVIOUS
<1>8. raw.val \in Str /\ ShortBytes(raw.val) /\ Honest(data, type.off, raw, PutBytes(raw.val))
  BY <1>6, <1>7, ReadBytesIs
<1>9. PICK a \in FitArgument : a = [name |-> name.val, type |-> type.val, raw |-> raw.val]
  BY <1>2, <1>5, <1>8 DEF FitArgument, Argument
<1>10. a \in Argument /\ a.name = name.val /\ a.type = type.val /\ a.raw = raw.val
  BY <1>9 DEF FitArgument
<1>11. PICK s \in Str : s = PutString(name.val)
  BY <1>2, PutStringOf
<1>12. PICK t \in Str : t = <<type.val>> /\ Len(t) = 1
  BY <1>5, StrOf
<1>13. PICK u \in Str : u = PutBytes(raw.val) /\ Len(u) > 0
  <2>1. Len(raw.val) \in Nat
    BY <1>8, StrFacts
  <2> QED
    BY <1>8, <2>1, PutBytesOf
<1>14. s \o t \in Str /\ Honest(data, o, type, s \o t)
  <2>1. Honest(data, o, name, s) /\ Honest(data, name.off, type, t) /\ Len(t) > 0
    BY <1>2, <1>5, <1>11, <1>12
  <2> QED
    BY <2>1, HonestConcat
<1>15. Honest(data, o, raw, (s \o t) \o u)
  BY <1>8, <1>13, <1>14, HonestConcat
<1>16. PutArgument(a) = (s \o t) \o u
  BY <1>10, <1>11, <1>12, <1>13, PutArgumentOf
<1>17. ReadArgument(data, o) = [ok |-> raw.ok, val |-> a, off |-> raw.off]
  BY <1>1, <1>4, <1>7, <1>9 DEF ReadArgument
<1>18. raw.ok \in BOOLEAN /\ raw.off \in Offset(data)
  BY <1>8 DEF Honest
<1>19. PICK r \in Says(data, FitArgument) : r = [ok |-> raw.ok, val |-> a, off |-> raw.off]
  BY <1>18 DEF Says
<1>20. Honest(data, o, r, PutArgument(r.val))
  <2>1. r.ok = raw.ok /\ r.val = a /\ r.off = raw.off
    BY <1>19
  <2> QED
    BY <1>15, <1>16, <2>1 DEF Honest
<1> QED
  BY <1>17, <1>19, <1>20

\* The lists of arguments whose lengths are written whole.
FitArguments == {args \in Seq(FitArgument) : Short(args)}

\* PutFit writes an argument.
LEMMA PutFitIs ==
  /\ PutFit \in [FitArgument -> Str]
  /\ \A a \in FitArgument : PutFit[a] = PutArgument(a) /\ Len(PutFit[a]) > 0
<1>1. \A a \in FitArgument : PutArgument(a) \in Str /\ Len(PutArgument(a)) > 0
  BY PutArgumentOf DEF FitArgument
<1> QED
  BY <1>1 DEF PutFit

\* The lists whose lengths are written whole are those that ShortArguments holds of.
LEMMA FitArgumentsAre ==
  ASSUME NEW args \in Seq(Argument)
  PROVE  args \in FitArguments <=> ShortArguments(args)
<1>1. PICK n \in Nat : n = Len(args) /\ DOMAIN args = 1 .. n /\ \A i \in 1 .. n : args[i] \in Argument
  BY LenProperties, ElementOfSeq
<1>2. ASSUME args \in FitArguments PROVE ShortArguments(args)
  <2>1. args \in Seq(FitArgument) /\ Short(args)
    BY <1>2 DEF FitArguments
  <2>2. \A i \in 1 .. n : args[i] \in FitArgument
    BY <1>1, <2>1, ElementOfSeq
  <2> QED
    BY <1>1, <2>1, <2>2 DEF ShortArguments, ShortValues, FitArgument
<1>3. ASSUME ShortArguments(args) PROVE args \in FitArguments
  <2>1. Short(args) /\ \A i \in 1 .. n : args[i] \in FitArgument
    BY <1>1, <1>3 DEF ShortArguments, ShortValues, FitArgument
  <2>2. args = [i \in 1 .. n |-> args[i]]
    BY <1>1
  <2>3. [i \in 1 .. n |-> args[i]] \in Seq(FitArgument)
    BY <2>1, IsASeq
  <2> QED
    BY <2>1, <2>2, <2>3 DEF FitArguments
<1> QED
  BY <1>2, <1>3

\* A list of arguments is written as PutFit writes it.
LEMMA PutArgumentsIs ==
  ASSUME NEW args \in FitArguments
  PROVE  /\ PutArguments(args) = PutAll(args, PutFit) /\ PutArguments(args) \in Str
         /\ Len(PutArguments(args)) > 0
<1>1. args \in Seq(FitArgument) /\ Short(args)
  BY DEF FitArguments
<1>2. PICK n \in Nat : DOMAIN args = 1 .. n /\ \A i \in 1 .. n : args[i] \in FitArgument
  BY <1>1, LenProperties, ElementOfSeq
<1>3. Mapped(args, PutFit) = [i \in DOMAIN args |-> PutArgument(args[i])]
  BY <1>2, PutFitIs DEF Mapped
<1>4. PutArguments(args) = PutAll(args, PutFit)
  BY <1>3 DEF PutArguments, PutAll
<1>5. PICK flat \in Str : PutAll(args, PutFit) \in Str /\ Len(PutAll(args, PutFit)) = 1 + Len(flat)
  BY <1>1, PutFitIs, PutAllOf
<1>6. Len(flat) \in Nat
  BY StrFacts
<1> QED
  BY <1>4, <1>5, <1>6

\* What the reader of arguments is.
LEMMA ReaderIs ==
  ASSUME NEW data \in Str
  PROVE  /\ ReaderOf(data) \in [Offset(data) -> Says(data, FitArgument)]
         /\ \A p \in Offset(data) :
              /\ ReaderOf(data)[p] = ReadArgument(data, p) /\ ReaderOf(data)[p].val \in FitArgument
              /\ Honest(data, p, ReaderOf(data)[p], PutFit[ReaderOf(data)[p].val])
<1>1. \A p \in Offset(data) : ReadArgument(data, p) \in Says(data, FitArgument)
                              /\ Honest(data, p, ReadArgument(data, p), PutArgument(ReadArgument(data, p).val))
  BY ReadArgumentIs
<1>2. \A p \in Offset(data) : ReadArgument(data, p).val \in FitArgument
  BY <1>1 DEF Says
<1> QED
  BY <1>1, <1>2, PutFitIs DEF ReaderOf

\* Arguments that stand at an offset are read there.
LEMMA ArgumentsAt ==
  ASSUME NEW data \in Str, NEW o, NEW args \in FitArguments, At(data, o, PutArguments(args))
  PROVE  ReadMany(ReaderOf(data), data, o) = Found(PutArguments(args), args, o)
<1>1. args \in Seq(FitArgument) /\ Short(args) /\ At(data, o, PutAll(args, PutFit))
  BY PutArgumentsIs DEF FitArguments
<1>2. PICK n \in Nat : DOMAIN args = 1 .. n /\ \A i \in 1 .. n : args[i] \in FitArgument
  BY <1>1, LenProperties, ElementOfSeq
<1>3. ASSUME NEW i \in DOMAIN args, NEW p \in Offset(data), At(data, p, PutFit[args[i]])
      PROVE  ReaderOf(data)[p] = Found(PutFit[args[i]], args[i], p)
  <2>1. PICK a \in FitArgument : a = args[i]
    BY <1>2
  <2>2. At(data, p, PutArgument(a)) /\ PutFit[args[i]] = PutArgument(a)
    BY <1>3, <2>1, PutFitIs
  <2>3. ReadArgument(data, p) = Found(PutArgument(a), a, p)
    BY <2>2, ReadArgumentAt
  <2> QED
    BY <2>1, <2>2, <2>3, ReaderIs
<1>4. ReadMany(ReaderOf(data), data, o) = Found(PutAll(args, PutFit), args, o)
  BY <1>1, <1>3, PutFitIs, ReaderIs, ReadManyAt
<1> QED
  BY <1>4, PutArgumentsIs

\* Arguments that are read stand there.
LEMMA ArgumentsIs ==
  ASSUME NEW data \in Str, NEW o \in Offset(data)
  PROVE  LET r == ReadMany(ReaderOf(data), data, o)
         IN r.val \in FitArguments /\ Honest(data, o, r, PutArguments(r.val))
<1>1. PICK r : r = ReadMany(ReaderOf(data), data, o)
  OBVIOUS
<1>2. r.val \in Seq(FitArgument) /\ Short(r.val) /\ Honest(data, o, r, PutAll(r.val, PutFit))
  BY <1>1, PutFitIs, ReaderIs, ReadManyIs
<1>3. r.val \in FitArguments
  BY <1>2 DEF FitArguments
<1> QED
  BY <1>1, <1>2, <1>3, PutArgumentsIs

-----------------------------------------------------------------------------
(* Frames *)

\* What Decoded reads, one after the other.
MagicOf(data) == ReadWord(data, 1)
VersionOf(data) == ReadWord(data, MagicOf(data).off)
MethodOf(data) == ReadString(data, VersionOf(data).off)
ArgumentsOf(data) == ReadMany(ReaderOf(data), data, MethodOf(data).off)
MessageOf(data) == [method |-> MethodOf(data).val, args |-> ArgumentsOf(data).val]
CapabilityOf(data) == ReadCapability(VersionOf(data).val, data, ArgumentsOf(data).off)

\* The messages whose lengths are written whole.
FitContent == {m \in Content : Short(m.method) /\ m.args \in FitArguments}

\* What is written of a message.
LEMMA PutMessageOf ==
  ASSUME NEW v \in Word, NEW m \in FitContent
  PROVE  /\ <<Magic, v>> \in Str /\ Len(<<Magic, v>>) = 2 /\ PutString(m.method) \in Str
         /\ PutArguments(m.args) \in Str /\ Len(PutArguments(m.args)) > 0
         /\ <<Magic, v>> \o PutString(m.method) \in Str
         /\ PutMessage(v, m) = (<<Magic, v>> \o PutString(m.method)) \o PutArguments(m.args)
         /\ PutMessage(v, m) \in Str
<1>1. m.method \in Str /\ m.args \in FitArguments
  BY DEF FitContent, Content
<1>2. <<Magic, v>> \in Str /\ Len(<<Magic, v>>) = 2
  BY FrameAssumption, TwoOf
<1>3. PutString(m.method) \in Str
  BY <1>1, PutStringOf
<1>4. PutArguments(m.args) \in Str /\ Len(PutArguments(m.args)) > 0
  BY <1>1, PutArgumentsIs
<1>5. <<Magic, v>> \o PutString(m.method) \in Str
  BY <1>2, <1>3, StrOf
<1>6. PutMessage(v, m) = (<<Magic, v>> \o PutString(m.method)) \o PutArguments(m.args)
  BY DEF PutMessage, PutArguments
<1>7. (<<Magic, v>> \o PutString(m.method)) \o PutArguments(m.args) \in Str
  BY <1>4, <1>5, StrOf
<1> QED
  BY <1>2, <1>3, <1>4, <1>5, <1>6, <1>7

\* A message that stands at the beginning is read there.
LEMMA MessageAt ==
  ASSUME NEW data \in Str, NEW v \in Word, NEW m \in FitContent, At(data, 1, PutMessage(v, m))
  PROVE  /\ MagicOf(data).ok = TRUE /\ MagicOf(data).val = Magic /\ VersionOf(data).val = v
         /\ MessageOf(data) = m /\ ArgumentsOf(data).ok = TRUE
         /\ ArgumentsOf(data).off = 1 + Len(PutMessage(v, m))
<1>20. PICK magic : magic = MagicOf(data) /\ magic = ReadWord(data, 1)
  BY DEF MagicOf
<1>21. PICK version : version = VersionOf(data) /\ version = ReadWord(data, magic.off)
  BY <1>20 DEF VersionOf
<1>22. PICK method : method = MethodOf(data) /\ method = ReadString(data, version.off)
  BY <1>21 DEF MethodOf
<1>23. PICK args : args = ArgumentsOf(data) /\ args = ReadMany(ReaderOf(data), data, method.off)
  BY <1>22 DEF ArgumentsOf
<1> USE <1>20, <1>21, <1>22, <1>23
<1>1. PICK s \in Str : s = <<Magic, v>> /\ Len(s) = 2
  BY PutMessageOf
<1>2. PICK t \in Str : t = PutString(m.method)
  BY PutMessageOf
<1>3. PICK u \in Str : u = PutArguments(m.args)
  BY PutMessageOf
<1>4. s \o t \in Str /\ PutMessage(v, m) = (s \o t) \o u
      /\ Len(PutMessage(v, m)) = (2 + Len(t)) + Len(u) /\ Len(s \o t) = 2 + Len(t)
  <2>1. s \o t \in Str /\ Len(s \o t) = 2 + Len(t)
    BY <1>1, StrOf
  <2>2. PutMessage(v, m) = (s \o t) \o u
    BY <1>1, <1>2, <1>3, PutMessageOf
  <2>3. Len((s \o t) \o u) = Len(s \o t) + Len(u)
    BY <2>1, StrOf
  <2> QED
    BY <2>1, <2>2, <2>3
<1>5. At(data, 1, s \o t) /\ At(data, 1 + Len(s \o t), u)
  <2>1. PICK st \in Str : st = s \o t
    BY <1>4
  <2>2. At(data, 1, st \o u)
    BY <1>4, <2>1
  <2>3. At(data, 1, st) /\ At(data, 1 + Len(st), u)
    BY <2>2, AtConcat
  <2> QED
    BY <2>1, <2>3
<1>6. At(data, 1, s) /\ At(data, 1 + 2, t)
  BY <1>1, <1>5, AtConcat
<1>7. At(data, 1, <<Magic>>) /\ At(data, 1 + 1, <<v>>)
  BY <1>1, <1>6, FrameAssumption, TwoAt
<1>8. magic.ok = TRUE /\ magic.val = Magic /\ magic.off = 2
  BY <1>7, ReadWordAt
<1>9. version.val = v /\ version.off = 3
  BY <1>7, <1>8, ReadWordAt
<1>10. method.val = m.method /\ method.off = 3 + Len(t)
  <2>1. m.method \in Str /\ Short(m.method)
    BY DEF FitContent, Content
  <2>2. method = Found(t, m.method, 3)
    BY <1>2, <1>6, <1>9, <2>1, ReadStringAt
  <2> QED
    BY <2>2 DEF Found
<1>11. args.ok = TRUE /\ args.val = m.args /\ args.off = (3 + Len(t)) + Len(u)
  <2>1. Len(t) \in Nat
    BY StrFacts
  <2>2. method.off = 1 + Len(s \o t) /\ m.args \in FitArguments
    BY <1>4, <1>10, <2>1 DEF FitContent
  <2>3. args = Found(u, m.args, method.off)
    BY <1>3, <1>5, <2>2, ArgumentsAt
  <2> QED
    BY <1>10, <2>3 DEF Found
<1>12. Len(t) \in Nat /\ Len(u) \in Nat
  BY StrFacts
<1>13. MessageOf(data) = m
  <2>1. m = [method |-> m.method, args |-> m.args]
    BY DEF FitContent, Content
  <2> QED
    BY <1>10, <1>11, <2>1 DEF MessageOf
<1> QED
  BY <1>4, <1>8, <1>9, <1>10, <1>11, <1>12, <1>13

\* A message that is read stands there, if the magic word is the one of requests.
LEMMA MessageIs ==
  ASSUME NEW data \in Str
  PROVE  /\ MessageOf(data) \in FitContent /\ ArgumentsOf(data).off \in Offset(data)
         /\ MagicOf(data).val = Magic =>
              Honest(data, 1, ArgumentsOf(data), PutMessage(VersionOf(data).val, MessageOf(data)))
<1>20. PICK magic : magic = MagicOf(data) /\ magic = ReadWord(data, 1)
  BY DEF MagicOf
<1>21. PICK version : version = VersionOf(data) /\ version = ReadWord(data, magic.off)
  BY <1>20 DEF VersionOf
<1>22. PICK method : method = MethodOf(data) /\ method = ReadString(data, version.off)
  BY <1>21 DEF MethodOf
<1>23. PICK args : args = ArgumentsOf(data) /\ args = ReadMany(ReaderOf(data), data, method.off)
  BY <1>22 DEF ArgumentsOf
<1>24. PICK m : m = MessageOf(data) /\ m = [method |-> method.val, args |-> args.val]
  BY <1>22, <1>23 DEF MessageOf
<1> USE <1>20, <1>21, <1>22, <1>23, <1>24
<1>1. 1 \in Offset(data)
  BY StrFacts DEF Offset
<1>2. magic.val \in Word /\ Honest(data, 1, magic, <<magic.val>>)
  BY <1>1, ReadWordIs
<1>3. magic.off \in Offset(data)
  BY <1>2 DEF Honest
<1>4. version.val \in Word /\ Honest(data, magic.off, version, <<version.val>>)
  BY <1>3, ReadWordIs
<1>5. version.off \in Offset(data)
  BY <1>4 DEF Honest
<1>6. method.val \in Str /\ Short(method.val) /\ Honest(data, version.off, method, PutString(method.val))
  BY <1>5, ReadStringIs
<1>7. method.off \in Offset(data)
  BY <1>6 DEF Honest
<1>8. args.val \in FitArguments /\ Honest(data, method.off, args, PutArguments(args.val))
  BY <1>7, ArgumentsIs
<1>9. m \in FitContent /\ m.method = method.val /\ m.args = args.val
  <2>1. PICK v \in Seq(FitArgument) : v = args.val
    BY <1>8 DEF FitArguments
  <2>2. PICK n \in Nat : n = Len(v) /\ DOMAIN v = 1 .. n /\ \A i \in 1 .. n : v[i] \in FitArgument
    BY LenProperties, ElementOfSeq
  <2>3. \A i \in 1 .. n : v[i] \in Argument
    BY <2>2 DEF FitArgument
  <2>4. v = [i \in 1 .. n |-> v[i]]
    BY <2>2
  <2>5. v \in Seq(Argument)
    BY <2>3, <2>4, IsASeq
  <2>6. PICK name \in Str : name = method.val /\ Short(name)
    BY <1>6
  <2>7. m = [method |-> name, args |-> v] /\ v \in FitArguments
    BY <1>8, <2>1, <2>6
  <2>8. m \in Content /\ m.method = name /\ m.args = v
    BY <2>5, <2>7 DEF Content
  <2> QED
    BY <2>1, <2>6, <2>7, <2>8 DEF FitContent
<1>10. ASSUME magic.val = Magic PROVE Honest(data, 1, args, PutMessage(version.val, m))
  <2>1. PICK s \in Str : s = <<Magic, version.val>>
    BY <1>4, <1>9, PutMessageOf
  <2>2. PICK t \in Str : t = PutString(method.val) /\ Len(t) > 0
    <3>1. Len(method.val) \in Nat
      BY <1>6, StrFacts
    <3> QED
      BY <1>6, <3>1, PutStringOf
  <2>3. PICK u \in Str : u = PutArguments(args.val) /\ Len(u) > 0
    BY <1>8, PutArgumentsIs
  <2>4. Honest(data, 1, version, s)
    <3>1. <<Magic>> \in Str /\ <<version.val>> \in Str /\ Len(<<version.val>>) > 0
      BY <1>4, FrameAssumption, StrOf
    <3>2. Honest(data, 1, version, <<Magic>> \o <<version.val>>)
      BY <1>1, <1>2, <1>4, <1>10, <3>1, HonestConcat
    <3> QED
      BY <1>4, <2>1, <3>2, FrameAssumption, TwoOf
  <2>5. Honest(data, version.off, method, t)
    BY <1>6, <2>2
  <2>6. s \o t \in Str /\ Honest(data, 1, method, s \o t)
    BY <1>1, <2>2, <2>4, <2>5, HonestConcat
  <2>7. Honest(data, method.off, args, u)
    BY <1>8, <2>3
  <2>8. Honest(data, 1, args, (s \o t) \o u)
    BY <1>1, <2>3, <2>6, <2>7, HonestConcat
  <2>9. PutMessage(version.val, m) = (s \o t) \o u
    BY <1>4, <1>9, <2>1, <2>2, <2>3, PutMessageOf
  <2> QED
    BY <2>8, <2>9
<1>11. args.off \in Offset(data)
  BY <1>8 DEF Honest
<1> QED
  BY <1>9, <1>10, <1>11

\* Decoded is what is read one after the other.
LEMMA DecodedOf ==
  ASSUME NEW data
  PROVE  /\ Decoded(data).ok <=> /\ MagicOf(data).val = Magic /\ VersionOf(data).val \in {1, 2}
                                 /\ MagicOf(data).ok /\ ArgumentsOf(data).ok
                                 /\ CapabilityOf(data).ok /\ CapabilityOf(data).off = Len(data) + 1
         /\ Decoded(data).version = VersionOf(data).val /\ Decoded(data).message = MessageOf(data)
         /\ Decoded(data).token = CapabilityOf(data).val
BY DEF Decoded, ReaderOf, MagicOf, VersionOf, MethodOf, ArgumentsOf, MessageOf, CapabilityOf

\* The words of a version and of a marker.
LEMMA SmallWords == 0 \in Word /\ 1 \in Word /\ 2 \in Word
BY WordsAssumption DEF Word

\* What is written of a token.
PutToken(token) == IF token = <<>> THEN <<0>> ELSE <<1>> \o PutBytes(token)

\* A token that stands at an offset is read there.
LEMMA TokenAt ==
  ASSUME NEW data \in Str, NEW o, NEW token \in Str, ShortBytes(token), At(data, o, PutToken(token))
  PROVE  /\ PutToken(token) \in Str
         /\ LET r == ReadCapability(2, data, o)
            IN r.ok = TRUE /\ r.val = token /\ r.off = o + Len(PutToken(token))
<1>1. PICK marker : marker = ReadWord(data, o)
  OBVIOUS
<1>2. CASE token = <<>>
  <2>1. PutToken(token) = <<0>> /\ <<0>> \in Str /\ Len(<<0>>) = 1
    BY <1>2, SmallWords, StrOf DEF PutToken
  <2>2. marker = [ok |-> TRUE, val |-> 0, off |-> o + 1]
    BY <1>1, <2>1, ReadWordAt
  <2>3. ReadCapability(2, data, o) = [marker EXCEPT !.val = <<>>]
    BY <1>1, <2>2 DEF ReadCapability
  <2> QED
    BY <1>2, <2>1, <2>2, <2>3
<1>3. CASE token # <<>>
  <2>1. PICK s \in Str : s = <<1>> /\ Len(s) = 1
    BY SmallWords, StrOf
  <2>2. PICK u \in Str : u = PutBytes(token)
    BY PutBytesOf
  <2>3. PutToken(token) = s \o u /\ s \o u \in Str /\ Len(s \o u) = 1 + Len(u)
    <3>1. PutToken(token) = s \o u
      BY <1>3, <2>1, <2>2 DEF PutToken
    <3> QED
      BY <2>1, <3>1, StrOf
  <2>4. At(data, o, s) /\ At(data, o + 1, u)
    <3>1. At(data, o, s \o u)
      BY <2>3
    <3>2. At(data, o, s) /\ At(data, o + Len(s), u)
      BY <3>1, AtConcat
    <3> QED
      BY <2>1, <3>2
  <2>5. marker.val = 1 /\ marker.off = o + 1
    BY <1>1, <2>1, <2>4, ReadWordAt
  <2>6. ReadCapability(2, data, o) = ReadBytes(data, o + 1)
    BY <1>1, <2>5 DEF ReadCapability
  <2>7. ReadBytes(data, o + 1) = Found(u, token, o + 1)
    BY <2>2, <2>4, ReadBytesAt
  <2>8. o \in Nat /\ Len(u) \in Nat
    BY <2>4, StrFacts DEF At
  <2> QED
    BY <2>3, <2>6, <2>7, <2>8 DEF Found
<1> QED
  BY <1>2, <1>3

\* A frame is decoded to the request that it was made of, if its lengths fit.
LEMMA FrameIsDecoded ==
  ASSUME NEW m \in FitContent, NEW token \in Str, ShortBytes(token)
  PROVE  LET d == Decoded(Frame(m, token))
         IN Frame(m, token) \in Str /\ d.ok /\ d.message = m /\ d.token = token
<1>1. PICK s \in Str : s = PutMessage(2, m)
  BY SmallWords, PutMessageOf
<1>2. PICK u \in Str : u = PutToken(token)
  <2>1. CASE token = <<>>
    <3>1. <<0>> \in Str
      BY SmallWords, StrOf
    <3>2. PutToken(token) = <<0>>
      BY <2>1 DEF PutToken
    <3> QED
      BY <3>1, <3>2
  <2>2. CASE token # <<>>
    <3>1. PutToken(token) = <<1>> \o PutBytes(token)
      BY <2>2 DEF PutToken
    <3>2. PICK v \in Str : v = <<1>>
      BY SmallWords, StrOf
    <3>3. PICK w \in Str : w = PutBytes(token)
      BY PutBytesOf
    <3>4. v \o w \in Str /\ PutToken(token) = v \o w
      BY <3>1, <3>2, <3>3, StrOf
    <3> QED
      BY <3>4
  <2> QED
    BY <2>1, <2>2
<1>3. PICK data \in Str : data = Frame(m, token) /\ data = s \o u /\ Len(data) = Len(s) + Len(u)
  <2>1. Frame(m, token) = s \o u
    BY <1>1, <1>2 DEF Frame, PutToken
  <2> QED
    BY <2>1, StrOf
<1>4. At(data, 1, s) /\ At(data, 1 + Len(s), u)
  <2>1. At(data, 1, s \o u)
    BY <1>3, AtWhole
  <2> QED
    BY <2>1, AtConcat
<1>5. /\ MagicOf(data).ok = TRUE /\ MagicOf(data).val = Magic /\ VersionOf(data).val = 2
      /\ MessageOf(data) = m /\ ArgumentsOf(data).ok = TRUE /\ ArgumentsOf(data).off = 1 + Len(s)
  <2>1. At(data, 1, PutMessage(2, m)) /\ 2 \in Word
    BY <1>1, <1>4, SmallWords
  <2> QED
    BY <1>1, <2>1, MessageAt
<1>6. /\ CapabilityOf(data).ok = TRUE /\ CapabilityOf(data).val = token
      /\ CapabilityOf(data).off = (1 + Len(s)) + Len(u)
  <2>1. At(data, 1 + Len(s), PutToken(token))
    BY <1>2, <1>4
  <2>2. PICK o : o = 1 + Len(s)
    OBVIOUS
  <2>3. CapabilityOf(data) = ReadCapability(2, data, o)
    BY <1>5, <2>2 DEF CapabilityOf
  <2>4. At(data, o, PutToken(token))
    BY <2>1, <2>2
  <2>5. PICK r : r = ReadCapability(2, data, o)
    OBVIOUS
  <2>6. r.ok = TRUE /\ r.val = token /\ r.off = o + Len(PutToken(token))
    BY <2>4, <2>5, TokenAt
  <2> QED
    BY <1>2, <2>2, <2>3, <2>5, <2>6
<1>7. (1 + Len(s)) + Len(u) = Len(data) + 1
  BY <1>3, StrFacts
<1> QED
  BY <1>3, <1>5, <1>6, <1>7, DecodedOf

\* Whatever is decoded spells out the request.
LEMMA DecodedSpellsOut ==
  ASSUME NEW data \in Str, Decoded(data).ok
  PROVE  LET d == Decoded(data)
         IN /\ d.message \in FitContent /\ d.token \in Str /\ ShortBytes(d.token)
            /\ \/ d.version = 1 /\ d.token = <<>> /\ data = LegacyFrame(d.message)
               \/ d.version = 2 /\ data = Frame(d.message, d.token)
               \/ d.version = 2 /\ d.token = <<>> /\ data = PutMessage(2, d.message) \o <<1, 0, 0>>
<1>1. PICK version : version = VersionOf(data)
  OBVIOUS
<1>2. PICK args : args = ArgumentsOf(data)
  OBVIOUS
<1>5. PICK cap : cap = CapabilityOf(data) /\ cap = ReadCapability(version.val, data, args.off)
  BY <1>1, <1>2 DEF CapabilityOf
<1>6. PICK m : m = MessageOf(data)
  OBVIOUS
<1>7. MagicOf(data).val = Magic
  BY DecodedOf
<1>8. version.val \in {1, 2} /\ args.ok /\ cap.ok /\ cap.off = Len(data) + 1
  BY <1>1, <1>2, <1>5, DecodedOf
<1>9. m \in FitContent /\ args.off \in Offset(data) /\ Honest(data, 1, args, PutMessage(version.val, m))
  BY <1>1, <1>2, <1>6, <1>7, MessageIs
<1>10. PICK s \in Str : s = PutMessage(version.val, m)
  BY <1>8, <1>9, SmallWords, PutMessageOf
<1>11. At(data, 1, s) /\ args.off = 1 + Len(s) /\ Len(s) \in Nat
  BY <1>8, <1>9, <1>10, StrFacts DEF Honest
<1>12. /\ Decoded(data).version = version.val /\ Decoded(data).message = m
       /\ Decoded(data).token = cap.val
  BY <1>1, <1>5, <1>6, DecodedOf
<1>13. ASSUME NEW u \in Str, At(data, args.off, u), cap.off = args.off + Len(u)
       PROVE  data = s \o u
  <2>1. At(data, 1, s \o u)
    BY <1>11, <1>13, AtConcat
  <2>2. s \o u \in Str /\ Len(s \o u) = Len(s) + Len(u)
    BY StrOf
  <2>3. Len(u) \in Nat /\ Len(data) \in Nat
    BY StrFacts
  <2>4. Len(s \o u) = Len(data)
    BY <1>8, <1>11, <1>13, <2>2, <2>3
  <2> QED
    BY <2>1, <2>2, <2>4, AtWhole
<1>14. <<>> \in Str /\ ShortBytes(<<>>)
  BY StrOf, WordsAssumption DEF ShortBytes
<1>15. CASE version.val = 1
  <2>1. cap.val = <<>> /\ cap.off = args.off
    BY <1>5, <1>15 DEF ReadCapability
  <2>2. data = s
    BY <1>8, <1>11, <2>1, StrFacts, AtWhole
  <2> QED
    BY <1>9, <1>10, <1>12, <1>14, <1>15, <2>1, <2>2 DEF LegacyFrame
<1>16. CASE version.val = 2
  <2>1. PICK marker : marker = ReadWord(data, args.off)
    OBVIOUS
  <2>2. marker.val \in Word /\ Honest(data, args.off, marker, <<marker.val>>)
    BY <1>9, <2>1, ReadWordIs
  <2>3. <<marker.val>> \in Str /\ Len(<<marker.val>>) = 1
    BY <2>2, StrOf
  <2>4. CASE marker.val = 0
    <3>1. cap = [marker EXCEPT !.val = <<>>]
      BY <1>5, <1>16, <2>1, <2>4 DEF ReadCapability
    <3>2. marker.ok /\ cap.val = <<>> /\ cap.off = marker.off
      <4>1. marker = [ok |-> marker.ok, val |-> marker.val, off |-> marker.off]
        BY <2>1 DEF ReadWord
      <4> QED
        BY <1>8, <3>1, <4>1
    <3>3. At(data, args.off, <<0>>) /\ cap.off = args.off + Len(<<0>>) /\ <<0>> \in Str
      BY <2>2, <2>3, <2>4, <3>2 DEF Honest
    <3>4. data = s \o <<0>>
      BY <1>13, <3>3
    <3>5. data = Frame(m, <<>>)
      BY <1>10, <1>16, <3>4 DEF Frame
    <3> QED
      BY <1>9, <1>12, <1>14, <1>16, <3>2, <3>5
  <2>5. CASE marker.val = 1
    <3>1. cap = ReadBytes(data, marker.off) /\ marker.off \in Offset(data)
      BY <1>5, <1>16, <2>1, <2>2, <2>5 DEF ReadCapability, Honest
    <3>2. cap.val \in Str /\ ShortBytes(cap.val) /\ Honest(data, marker.off, cap, PutBytes(cap.val))
      BY <3>1, ReadBytesIs
    <3>3. PICK u \in Str : u = PutBytes(cap.val) /\ Len(u) > 0
      <4>1. Len(cap.val) \in Nat
        BY <3>2, StrFacts
      <4> QED
        BY <3>2, <4>1, PutBytesOf
    <3>4. PICK t \in Str : t = <<1>>
      BY SmallWords, StrOf
    <3>5. Honest(data, args.off, marker, t) /\ Honest(data, marker.off, cap, u)
      BY <2>2, <2>5, <3>2, <3>3, <3>4
    <3>6. t \o u \in Str /\ Honest(data, args.off, cap, t \o u)
      BY <1>9, <3>3, <3>5, HonestConcat
    <3>7. data = s \o (t \o u)
      BY <1>8, <1>13, <3>6 DEF Honest
    <3>8. CASE cap.val # <<>>
      <4>1. data = Frame(m, cap.val)
        BY <1>10, <1>16, <3>3, <3>4, <3>7, <3>8 DEF Frame
      <4> QED
        BY <1>9, <1>12, <1>16, <3>2, <4>1
    <3>9. CASE cap.val = <<>>
      <4>1. u = <<0, 0>>
        <5>1. PutBytes(<<>>) = <<0, 0>> \o <<>>
          <6>1. Len(<<>>) = 0 /\ 0 \div W = 0 /\ 0 % W = 0
            BY WordsAssumption
          <6> QED
            BY <6>1 DEF PutBytes
        <5>2. <<0, 0>> \in Seq(Word)
          BY SmallWords
        <5> QED
          BY <3>3, <3>9, <5>1, <5>2, ConcatEmptySeq
      <4>2. t \o u = <<1, 0, 0>>
        <5>1. PICK z \in Seq(Word) : z = t \o u
          BY <3>6 DEF Str
        <5>2. /\ t \in Seq(Word) /\ Len(t) = 1 /\ t[1] = 1
              /\ u \in Seq(Word) /\ Len(u) = 2 /\ u[1] = 0 /\ u[2] = 0
          BY <3>4, <4>1 DEF Str
        <5>3. Len(z) = 3 /\ z[1] = 1 /\ z[2] = 0 /\ z[3] = 0
          BY SMTT(30), <5>1, <5>2, ConcatProperties
        <5>4. PICK y \in Seq(Word) : y = <<1, 0, 0>> /\ Len(y) = 3 /\ y[1] = 1 /\ y[2] = 0 /\ y[3] = 0
          <6>1. <<1, 0, 0>> \in Seq(Word)
            BY SmallWords
          <6>2. Len(<<1, 0, 0>>) = 3
            OBVIOUS
          <6>3. <<1, 0, 0>>[1] = 1 /\ <<1, 0, 0>>[2] = 0 /\ <<1, 0, 0>>[3] = 0
            OBVIOUS
          <6> QED
            BY <6>1, <6>2, <6>3
        <5>5. \A i \in 1 .. Len(z) : z[i] = y[i]
          BY <5>3, <5>4
        <5>6. z = y
          BY <5>3, <5>4, <5>5, SeqEqual
        <5> QED
          BY <5>1, <5>4, <5>6
      <4>3. data = PutMessage(2, m) \o <<1, 0, 0>>
        BY <1>10, <1>16, <3>7, <4>2
      <4> QED
        BY <1>9, <1>12, <1>14, <1>16, <3>9, <4>3
    <3> QED
      BY <3>8, <3>9
  <2>6. CASE marker.val \notin {0, 1}
    <3>1. cap.ok = FALSE
      <4>1. marker = [ok |-> marker.ok, val |-> marker.val, off |-> marker.off]
        BY <2>1 DEF ReadWord
      <4>2. cap = [marker EXCEPT !.ok = FALSE, !.val = <<>>]
        BY <1>5, <1>16, <2>1, <2>6 DEF ReadCapability
      <4> QED
        BY <4>1, <4>2
    <3> QED
      BY <1>8, <3>1
  <2> QED
    BY <2>4, <2>5, <2>6
<1> QED
  BY <1>8, <1>15, <1>16

\* What is written of a message is a string, also when its lengths lose bits.
LEMMA WrittenIsStr ==
  ASSUME NEW v \in Word, NEW m \in Content
  PROVE  PutMessage(v, m) \in Str
<1>1. m.method \in Str /\ m.args \in Seq(Argument)
  BY DEF Content
<1>2. PICK n \in Nat : DOMAIN m.args = 1 .. n /\ \A i \in 1 .. n : m.args[i] \in Argument
  BY <1>1, LenProperties, ElementOfSeq
<1>3. PICK w : w = [i \in DOMAIN m.args |-> PutArgument(m.args[i])]
  OBVIOUS
<1>4. w \in Seq(Str)
  <2>1. \A i \in 1 .. n : PutArgument(m.args[i]) \in Str
    BY <1>2, PutArgumentOf
  <2> QED
    BY <1>2, <1>3, <2>1, IsASeq
<1>5. PICK flat \in Str : flat = FlattenSeq(w)
  <2>1. <<>> \in Str
    BY StrOf
  <2> QED
    BY <1>4, <2>1, FlattenAppend
<1>6. PICK count \in Str : count = <<Len(w) % W>>
  <2>1. Len(w) % W \in Word
    BY <1>4, LenProperties, WordsAssumption DEF Word
  <2> QED
    BY <2>1, StrOf
<1>7. <<Magic, v>> \in Str /\ PutString(m.method) \in Str
  BY <1>1, FrameAssumption, TwoOf, PutStringOf
<1>8. PICK head \in Str : head = <<Magic, v>> \o PutString(m.method)
  BY <1>7, StrOf
<1>9. head \o (count \o flat) \in Str
  BY StrOf
<1>10. PutMessage(v, m) = head \o (count \o flat)
  BY <1>3, <1>5, <1>6, <1>8 DEF PutMessage, PutMany
<1> QED
  BY <1>9, <1>10

\* A frame is a string.
LEMMA FrameIsStr ==
  ASSUME NEW m \in Content, NEW token \in Str
  PROVE  Frame(m, token) \in Str
<1>1. PICK s \in Str : s = PutMessage(2, m)
  BY SmallWords, WrittenIsStr
<1>2. <<0>> \in Str /\ <<1>> \in Str
  BY SmallWords, StrOf
<1>3. <<1>> \o PutBytes(token) \in Str
  BY <1>2, PutBytesOf, StrOf
<1>4. PutToken(token) \in Str
  BY <1>2, <1>3 DEF PutToken
<1>5. s \o PutToken(token) \in Str
  BY <1>4, StrOf
<1> QED
  BY <1>1, <1>5 DEF Frame, PutToken

-----------------------------------------------------------------------------
(* Pieces of strings *)

\* A cut of a string.
LEMMA CutOf ==
  ASSUME NEW t \in Str, NEW a \in Nat \ {0}, NEW b \in Nat, a <= b + 1, b <= Len(t)
  PROVE  SubSeq(t, a, b) \in Str /\ Len(SubSeq(t, a, b)) = (b + 1) - a
<1>1. Len(t) \in Nat /\ \A i \in 1 .. Len(t) : t[i] \in Word
  BY StrFacts
<1>2. \A i \in a .. b : t[i] \in Word
  BY <1>1
<1>3. SubSeq(t, a, b) \in Seq(Word) /\ Len(SubSeq(t, a, b)) = IF a <= b THEN (b - a) + 1 ELSE 0
  BY <1>2, SubSeqProperties
<1> QED
  BY <1>3 DEF Str

\* A string that is written over the beginning of another leaves its length.
LEMMA Overwritten ==
  ASSUME NEW s \in Str, NEW t \in Str, Len(s) <= Len(t)
  PROVE  LET u == s \o SubSeq(t, Len(s) + 1, Len(t))
         IN u \in Str /\ Len(u) = Len(t) /\ SubSeq(u, 1, Len(s)) = s
<1>1. PICK n \in Nat : n = Len(s)
  BY StrFacts
<1>2. PICK m \in Nat : m = Len(t) - n /\ Len(t) = n + m
  BY <1>1, StrFacts
<1>3. PICK rest \in Str : rest = SubSeq(t, n + 1, Len(t)) /\ Len(rest) = m
  <2>1. PICK a \in Nat \ {0} : a = n + 1
    OBVIOUS
  <2>2. PICK b \in Nat : b = Len(t)
    BY <1>2
  <2>3. a <= b + 1 /\ (b + 1) - a = m
    BY <1>2, <2>1, <2>2
  <2>4. SubSeq(t, a, b) \in Str /\ Len(SubSeq(t, a, b)) = (b + 1) - a
    BY <2>2, <2>3, CutOf
  <2> QED
    BY <2>1, <2>2, <2>3, <2>4
<1>4. PICK u \in Str : u = s \o rest /\ Len(u) = n + m
  <2>1. s \o rest \in Str /\ Len(s \o rest) = Len(s) + Len(rest)
    BY StrOf
  <2> QED
    BY <1>1, <1>3, <2>1
<1>5. SubSeq(u, 1, n) = s
  <2>1. At(u, 1, s)
    <3>1. At(u, 1, s \o rest)
      BY <1>4, AtWhole
    <3> QED
      BY <3>1, AtConcat
  <2>2. (1 + n) - 1 = n /\ 1 + n <= Len(u) + 1
    BY <1>2, <1>4
  <2>3. PICK e : e = (1 + n) - 1
    OBVIOUS
  <2>4. SubSeq(u, 1, e) = s
    BY <1>1, <2>1, <2>2, <2>3, PieceIs
  <2> QED
    BY <2>2, <2>3, <2>4
<1> QED
  BY <1>1, <1>2, <1>3, <1>4, <1>5
=============================================================================
