------------------------- MODULE ConfigCodec_proofs -------------------------
(***************************************************************************)
(* The proofs of the three properties of the config codec.                 *)
(*                                                                         *)
(* That a document stays as it was returned needs nothing of what the      *)
(* decoders read, only which arrays they write: none that a returned       *)
(* document has a slice of.                                                *)
(*                                                                         *)
(* That a document is decoded from what spells it out, and from all of     *)
(* it, is said of every stage of a reading: what has been read so far is   *)
(* what a document spells out (Read).  Such a document is found as the     *)
(* reading goes on, one field at a time (Followed), and the reading of     *)
(* what a document was encoded to keeps to that document (Owed).           *)
(***************************************************************************)
EXTENDS ConfigCodec, RequestFrame_proofs

Mode == {"kept", "new"}
Slice == [array : Nat, len : Nat]

Sequence(s) == \E S : s \in Seq(S)

IsDocument(d) == DOMAIN d = {"text", "tags", "lists"} /\ d.lists \in [List -> Slice]

\* The slices of d are of arrays that there are, those of nil are empty.
Allocated(d) ==
  \A l \in List : /\ d.lists[l].array \in DOMAIN arrays
                  /\ d.lists[l].array = 1 => d.lists[l].len = 0

\* No array but that of nil is under both documents.
Apart(d, e) ==
  \A k, l \in List : d.lists[k].array = e.lists[l].array => d.lists[k].array = 1

Good(d) == IsDocument(d) /\ Allocated(d)

MemoryOK ==
  /\ Sequence(arrays) /\ 1 \in DOMAIN arrays /\ arrays[1] = <<>>
  /\ Sequence(handed) /\ \A i \in DOMAIN handed : Good(handed[i])
  /\ DOMAIN docs = Mode /\ \A m \in Mode : Good(docs[m])

\* The document read into is apart from those returned, and the one of a Decoder is
\* so whatever is read.
Separate ==
  /\ \A i \in DOMAIN handed : Apart(handed[i], docs["kept"])
  /\ status = "reading" /\ mode = "new" =>
       /\ Apart(docs["new"], docs["kept"])
       /\ \A i \in DOMAIN handed : Apart(handed[i], docs["new"])

\* The element read next is within its slice, so that it is never one of nil's.
Within ==
  status = "reading" /\ element >= 0 =>
    /\ field \in DOMAIN Layout[version]
    /\ Layout[version][field] \in List
    /\ element < docs[mode].lists[Layout[version][field]].len

CursorOK ==
  input \in Str /\ mode \in Mode /\ version \in {1, 2} /\ field \in Nat /\ element \in Int

Inv == CursorOK /\ MemoryOK /\ Separate /\ Within

-----------------------------------------------------------------------------
(* Arrays *)

\* A count is a number, whatever it is read from.
LEMMA WordIsNat == \A data \in Str : \A o : ReadWord(data, o).val \in Nat
  BY WordsAssumption DEF ReadWord, Str, Word

\* What appending does to a sequence of anything.
LEMMA AppendExtends ==
  ASSUME NEW s, Sequence(s), NEW x
  PROVE  /\ Sequence(Append(s, x)) /\ DOMAIN s = 1 .. Len(s) /\ Len(s) \in Nat
         /\ DOMAIN Append(s, x) = 1 .. (Len(s) + 1)
         /\ \A i \in DOMAIN s : Append(s, x)[i] = s[i]
         /\ Append(s, x)[Len(s) + 1] = x
<1>1. PICK S : s \in Seq(S)
  BY DEF Sequence
<1>2. s \in Seq(S \cup {x})
  BY <1>1
<1>3. Append(s, x) \in Seq(S \cup {x})
  BY <1>2
<1> QED
  BY <1>2, <1>3 DEF Sequence

\* What appending another sequence does.
LEMMA ConcatenationExtends ==
  ASSUME NEW s, Sequence(s), NEW u, Sequence(u)
  PROVE  /\ Sequence(s \o u) /\ DOMAIN s = 1 .. Len(s) /\ Len(s) \in Nat
         /\ DOMAIN (s \o u) = 1 .. (Len(s) + Len(u))
         /\ \A i \in DOMAIN s : (s \o u)[i] = s[i]
<1>1. PICK S : s \in Seq(S)
  BY DEF Sequence
<1>2. PICK U : u \in Seq(U)
  BY DEF Sequence
<1> DEFINE T == S \cup U
<1>3. s \in Seq(T) /\ u \in Seq(T)
  BY <1>1, <1>2
<1>4. s \o u \in Seq(T)
  BY <1>3
<1> HIDE DEF T
<1> QED
  BY <1>3, <1>4 DEF Sequence

\* What writing an element of one array does to the others.
LEMMA WriteExtends ==
  ASSUME NEW s, Sequence(s), NEW a \in DOMAIN s, NEW i, NEW x
  PROVE  LET t == [s EXCEPT ![a][i] = x]
         IN Sequence(t) /\ DOMAIN t = DOMAIN s /\ \A b \in DOMAIN s : b # a => t[b] = s[b]
<1>1. PICK S : s \in Seq(S)
  BY DEF Sequence
<1> DEFINE y == [s[a] EXCEPT ![i] = x]
           t == [s EXCEPT ![a] = y]
<1> HIDE DEF y
<1>2. s \in Seq(S \cup {y})
  BY <1>1
<1>3. t \in Seq(S \cup {y})
  BY <1>2
<1>4. DOMAIN t = DOMAIN s /\ \A b \in DOMAIN s : b # a => t[b] = s[b]
  OBVIOUS
<1>5. Sequence(t)
  BY <1>3 DEF Sequence
<1> QED
  BY <1>4, <1>5 DEF y

-----------------------------------------------------------------------------
(* Steps *)

\* No step takes back a returned document or writes an array of one.
LeavesReturned ==
  \A i \in DOMAIN handed :
    /\ i \in DOMAIN handed' /\ handed'[i] = handed[i]
    /\ \A l \in List :
         arrays'[handed[i].lists[l].array] = arrays[handed[i].lists[l].array]

\* A step that leaves the returned documents' arrays leaves what they say.
LEMMA LeftIsUnchanged ==
  LeavesReturned => \A i \in DOMAIN handed : ContentOf(handed[i])' = ContentOf(handed[i])
  BY DEF LeavesReturned, ContentOf, Elements, List

\* The first state.
LEMMA InitInv == Init => Inv
<1> SUFFICES ASSUME Init PROVE Inv
  OBVIOUS
<1>1. arrays \in Seq({<<>>}) /\ handed \in Seq({}) /\ DOMAIN arrays = {1} /\ DOMAIN handed = {}
  BY DEF Init
<1>2. Sequence(arrays) /\ Sequence(handed)
  BY <1>1 DEF Sequence
<1>3. Good(EmptyDocument)
  BY <1>1 DEF Good, IsDocument, Allocated, EmptyDocument, Slice
<1>4. MemoryOK
  BY <1>1, <1>2, <1>3 DEF MemoryOK, Init, Mode
<1>5. CursorOK
  BY DEF CursorOK, Init, Mode, Str
<1> QED
  BY <1>1, <1>4, <1>5 DEF Inv, Separate, Within, Init

\* A new reading, into a document apart from all others when it is a new one.
LEMMA StartStep ==
  ASSUME Inv, NEW m \in Mode, NEW data \in Input, Start(m, data)
  PROVE  Inv' /\ LeavesReturned
<1> USE DEF Inv
<1>1. Good(EmptyDocument)
  BY DEF MemoryOK, Good, IsDocument, Allocated, EmptyDocument, Slice
<1>2. \A d : Apart(EmptyDocument, d) 
  BY DEF Apart, EmptyDocument
<1>3. \A i \in DOMAIN handed : Apart(handed[i], EmptyDocument)
  BY DEF Apart, EmptyDocument
<1>4. DOMAIN docs' = Mode /\ docs'["kept"] = docs["kept"]
      /\ docs'["new"] = IF m = "new" THEN EmptyDocument ELSE docs["new"]
  BY DEF Start, MemoryOK, Mode
<1>5. CursorOK'
  BY EncodeAssumption DEF CursorOK, Start
<1>6. MemoryOK'
  BY <1>1, <1>4 DEF MemoryOK, Start, Mode, Good, IsDocument, Allocated
<1>7. Separate'
  BY <1>2, <1>3, <1>4 DEF Separate, Start, Apart
<1>8. Within' /\ LeavesReturned
  BY DEF Within, Start, LeavesReturned
<1> QED
  BY <1>5, <1>6, <1>7, <1>8

\* A step that only moves the cursor on, or changes what is not in a list.
LEMMA TextStep ==
  ASSUME Inv, CursorOK', UNCHANGED <<arrays, handed, mode, element>>,
         status = "reading", element < 0,
         DOMAIN docs' = Mode,
         \A m \in Mode : DOMAIN docs'[m] = DOMAIN docs[m] /\ docs'[m].lists = docs[m].lists
  PROVE  Inv' /\ LeavesReturned
<1> USE DEF Inv
<1>1. MemoryOK'
  BY DEF MemoryOK, Good, IsDocument, Allocated
<1>2. Separate'
  BY DEF Separate, Apart, Mode
<1>3. Within' /\ LeavesReturned
  BY DEF Within, LeavesReturned, CursorOK
<1> QED
  BY <1>1, <1>2, <1>3

\* The fields of both versions are numbered from 1.
LEMMA LayoutPositions == \A v \in {1, 2} : DOMAIN Layout[v] \subseteq Nat \ {0}
<1>1. DOMAIN Layout[1] = 1 .. 7 /\ DOMAIN Layout[2] = 1 .. 10
  BY DEF Layout
<1> QED
  BY <1>1

\* An element is awaited of a list only.
LEMMA NoElement ==
  ASSUME Inv, status = "reading",
         field \notin DOMAIN Layout[version] \/ Layout[version][field] \notin List
  PROVE  element < 0
  BY DEF Inv, Within, CursorOK

\* The header.
LEMMA HeaderStep ==
  ASSUME Inv, ReadHeader
  PROVE  Inv' /\ LeavesReturned
<1> USE DEF Inv
<1>1. field = 0 /\ status = "reading"
  BY DEF ReadHeader
<1>2. 0 \notin DOMAIN Layout[version]
  BY LayoutPositions DEF CursorOK
<1>3. element < 0
  BY <1>1, <1>2, NoElement
<1>4. version' \in {1, 2} /\ field' \in {0, 1}
  BY <1>1 DEF CursorOK, ReadHeader
<1>5. CursorOK'
  BY <1>4 DEF CursorOK, ReadHeader
<1> QED
  BY <1>1, <1>3, <1>5, TextStep DEF ReadHeader, MemoryOK
\* A string, the tags, and the metadata that a config of version 1 has none of.
LEMMA FieldStep ==
  ASSUME Inv, (\E f \in TextField : ReadText(f)) \/ ReadTags \/ ForgetMetadata
  PROVE  Inv' /\ LeavesReturned
<1> USE DEF Inv
<1>1. status = "reading" /\ field \in DOMAIN Layout[version]
      /\ Layout[version][field] \notin List
  BY DEF ReadText, ReadTags, ForgetMetadata, Reads, TextField, List
<1>2. element < 0
  BY <1>1, NoElement
<1>3. field' = field + 1 /\ UNCHANGED <<input, mode, version, element>>
  BY DEF ReadText, ReadTags, ForgetMetadata
<1>4. CursorOK'
  BY <1>3 DEF CursorOK
<1>5. UNCHANGED <<arrays, handed, mode, element>>
  BY DEF ReadText, ReadTags, ForgetMetadata
<1>6. DOMAIN docs = Mode /\ mode \in Mode
      /\ \A m \in Mode : DOMAIN docs[m] = {"text", "tags", "lists"}
  BY DEF MemoryOK, Good, IsDocument, CursorOK
<1>7. \E x, y : docs' \in {[docs EXCEPT ![mode].text = x], [docs EXCEPT ![mode].tags = x],
                          [docs EXCEPT ![mode].tags = x, ![mode].text = y]}
  BY DEF ReadText, ReadTags, ForgetMetadata
<1>8. DOMAIN docs' = Mode
      /\ \A m \in Mode : DOMAIN docs'[m] = DOMAIN docs[m] /\ docs'[m].lists = docs[m].lists
  BY <1>6, <1>7
<1> QED
  BY <1>1, <1>2, <1>4, <1>5, <1>8, TextStep

\* The count of a list: a slice of the same array, or of one that nobody has.
LEMMA CountStep ==
  ASSUME Inv, NEW l \in List, ReadListCount(l)
  PROVE  Inv' /\ LeavesReturned
<1> USE DEF Inv
<1> DEFINE r == ReadWord(input, off)
           n == r.val
           old == docs[mode].lists[l]
           slice == Resized(old, n)
           made == [i \in 1 .. n |-> Zero(l)]
<1>1. n \in Nat
  BY WordIsNat DEF CursorOK
<1>2. status = "reading" /\ field \in DOMAIN Layout[version] /\ Layout[version][field] = l
      /\ element = -1
  BY DEF ReadListCount, Reads
<1>3. mode \in Mode /\ DOMAIN docs = Mode /\ IsDocument(docs[mode]) /\ Allocated(docs[mode])
      /\ Sequence(arrays)
  BY DEF CursorOK, MemoryOK, Good
<1>4. CASE ~ r.ok
  <2>1. UNCHANGED <<arrays, handed, mode, docs, element, field, input, version>>
        /\ status' = "error"
    BY <1>4 DEF ReadListCount, Past
  <2> QED
    BY <2>1 DEF CursorOK, MemoryOK, Good, IsDocument, Allocated, Separate, Apart,
                Within, LeavesReturned
<1>5. CASE r.ok
  <2>1. /\ docs' = [docs EXCEPT ![mode].lists[l] = slice]
        /\ arrays' = IF Enough(old, n) THEN arrays ELSE Append(arrays, made)
        /\ status' = "reading" /\ UNCHANGED <<input, version, mode, handed>>
        /\ Element(0, n)
    BY <1>5 DEF ReadListCount, Past
  <2>2. /\ Sequence(arrays') /\ DOMAIN arrays \subseteq DOMAIN arrays'
        /\ \A a \in DOMAIN arrays : arrays'[a] = arrays[a]
    BY <1>3, <2>1, AppendExtends
  <2>3. slice \in Slice /\ slice.array \in DOMAIN arrays' /\ slice.len = n
        /\ (slice.array = old.array \/ slice.array \notin DOMAIN arrays)
        /\ (slice.array = 1 => n = 0)
    <3>1. old \in Slice /\ old.array \in DOMAIN arrays
      BY <1>3 DEF IsDocument, Allocated
    <3>2. CASE Enough(old, n)
      <4>1. slice = [array |-> old.array, len |-> n] /\ arrays' = arrays
        BY <2>1, <3>2 DEF Resized
      <4>2. ASSUME old.array = 1 PROVE n = 0
        <5>1. arrays[old.array] = <<>>
          BY <4>2 DEF MemoryOK
        <5>2. n <= Len(<<>>)
          BY <3>2, <5>1 DEF Enough
        <5> QED
          BY <1>1, <5>2
      <4> QED
        BY <1>1, <3>1, <4>1, <4>2 DEF Slice
    <3>3. CASE ~ Enough(old, n)
      <4>1. slice = [array |-> Len(arrays) + 1, len |-> n]
            /\ arrays' = Append(arrays, made)
        BY <2>1, <3>3 DEF Resized
      <4>2. Len(arrays) \in Nat /\ DOMAIN arrays = 1 .. Len(arrays)
            /\ DOMAIN arrays' = 1 .. (Len(arrays) + 1) /\ 1 \in DOMAIN arrays
        BY <1>3, <4>1, AppendExtends DEF MemoryOK
      <4> QED
        BY <1>1, <4>1, <4>2 DEF Slice
    <3> QED
      BY <3>2, <3>3
  <2> HIDE DEF slice
  <2>4. /\ DOMAIN docs' = Mode
        /\ \A m \in Mode : m # mode => docs'[m] = docs[m]
        /\ DOMAIN docs'[mode] = DOMAIN docs[mode]
        /\ docs'[mode].lists = [docs[mode].lists EXCEPT ![l] = slice]
    BY <1>3, <2>1 DEF IsDocument
  <2>5. docs'[mode].lists[l] = slice
        /\ \A k \in List : k # l => docs'[mode].lists[k] = docs[mode].lists[k]
    BY <1>3, <2>4 DEF IsDocument
  <2>6. IsDocument(docs'[mode])
    BY <1>3, <2>3, <2>4 DEF IsDocument
  <2>7. Allocated(docs[mode])'
    BY <1>1, <1>3, <2>1, <2>2, <2>3, <2>5 DEF Allocated
  <2>8. MemoryOK'
    BY <2>1, <2>2, <2>4, <2>6, <2>7 DEF MemoryOK, Good, IsDocument, Allocated
  <2>9. \A i \in DOMAIN handed : Allocated(handed[i])
    BY DEF MemoryOK, Good
  <2>10. Separate'
    <3>1. \A i \in DOMAIN handed : Apart(handed[i], docs[mode]) => Apart(handed[i], docs'[mode])
      BY <2>3, <2>5, <2>9 DEF Apart, Allocated
    <3>2. Apart(docs[mode], docs["kept"]) => Apart(docs'[mode], docs["kept"])
      BY <1>3, <2>3, <2>5 DEF Apart, Allocated, MemoryOK, Good, Mode
    <3> QED
      BY <1>2, <1>3, <2>1, <2>4, <3>1, <3>2 DEF Separate, Mode
  <2>11. CursorOK'
    BY <1>1, <2>1 DEF CursorOK, Element
  <2>12. Within'
    BY <1>1, <1>2, <2>1, <2>3, <2>5 DEF Within, Element
  <2>13. LeavesReturned
    BY <2>1, <2>2, <2>9 DEF LeavesReturned, Allocated
  <2> QED
    BY <2>8, <2>10, <2>11, <2>12, <2>13
<1> QED
  BY <1>4, <1>5
\* An element: written within a slice, hence not to nil's array, and not to one that
\* a returned document has.
LEMMA ElementStep ==
  ASSUME Inv, NEW l \in List, ReadElement(l)
  PROVE  Inv' /\ LeavesReturned
<1> USE DEF Inv
<1> DEFINE r == ReadOne(l, input, off)
           slice == docs[mode].lists[l]
<1>1. status = "reading" /\ field \in DOMAIN Layout[version] /\ Layout[version][field] = l
      /\ element \in Nat
  BY DEF ReadElement, Reads, CursorOK
<1>2. UNCHANGED <<handed, mode, docs, input, version>> /\ mode \in Mode
  BY DEF ReadElement, CursorOK
<1>3. slice \in Slice /\ slice.array \in DOMAIN arrays /\ slice.array # 1
      /\ element < slice.len
  BY <1>1, <1>2 DEF MemoryOK, Good, IsDocument, Allocated, Within, Slice
<1>4. Separate'
  BY <1>1, <1>2 DEF Separate, Apart
<1>5. CASE ~ r.ok
  <2>1. UNCHANGED <<arrays, field, element>> /\ status' = "error"
    BY <1>5 DEF ReadElement, Past
  <2> QED
    BY <1>2, <1>4, <2>1 DEF CursorOK, MemoryOK, Good, IsDocument, Allocated, Within,
                          LeavesReturned
<1>6. CASE r.ok
  <2>1. /\ arrays' = [arrays EXCEPT ![slice.array][element + 1] = r.val]
        /\ Element(element + 1, slice.len)
    BY <1>6 DEF ReadElement
  <2>2. /\ Sequence(arrays') /\ DOMAIN arrays' = DOMAIN arrays
        /\ \A a \in DOMAIN arrays : a # slice.array => arrays'[a] = arrays[a]
    BY <1>3, <2>1, WriteExtends DEF MemoryOK
  <2>3. MemoryOK'
    BY <1>2, <1>3, <2>2 DEF MemoryOK, Good, IsDocument, Allocated
  <2>4. \A i \in DOMAIN handed : Apart(handed[i], docs[mode]) /\ Allocated(handed[i])
    BY <1>1, <1>2 DEF Separate, Mode, MemoryOK, Good
  <2>5. LeavesReturned
    BY <1>2, <1>3, <2>2, <2>4 DEF LeavesReturned, Apart, Allocated
  <2>6. CursorOK'
    BY <1>1, <1>2, <2>1 DEF CursorOK, Element
  <2>7. Within'
    BY <1>1, <1>2, <1>3, <2>1 DEF Within, Element, Slice
  <2> QED
    BY <1>4, <2>3, <2>5, <2>6, <2>7
<1> QED
  BY <1>5, <1>6

\* The clone that a Decoder returns has three arrays of its own.
LEMMA CloneIsNew ==
  ASSUME Inv, NEW d, Good(d), arrays' = arrays \o CloneArrays(d)
  PROVE  /\ Sequence(arrays') /\ DOMAIN arrays \subseteq DOMAIN arrays'
         /\ \A a \in DOMAIN arrays : arrays'[a] = arrays[a]
         /\ IsDocument(Clone(d))
         /\ \A l \in List : /\ Clone(d).lists[l].array \in DOMAIN arrays'
                            /\ Clone(d).lists[l].array # 1
                            /\ Clone(d).lists[l].array \notin DOMAIN arrays
<1>1. Sequence(arrays) /\ 1 \in DOMAIN arrays
  BY DEF Inv, MemoryOK
<1>2. Sequence(CloneArrays(d)) /\ Len(CloneArrays(d)) = 3
  <2> DEFINE x == Elements(d.lists["services"])
             y == Elements(d.lists["methods"])
             z == Elements(d.lists["relations"])
  <2>1. CloneArrays(d) = <<x, y, z>>
    BY DEF CloneArrays
  <2> HIDE DEF x, y, z
  <2>2. <<x, y, z>> \in Seq({x, y, z}) /\ Len(<<x, y, z>>) = 3
    OBVIOUS
  <2> QED
    BY <2>1, <2>2 DEF Sequence
<1>3. /\ Sequence(arrays') /\ DOMAIN arrays = 1 .. Len(arrays) /\ Len(arrays) \in Nat
      /\ DOMAIN arrays' = 1 .. (Len(arrays) + 3)
      /\ \A a \in DOMAIN arrays : arrays'[a] = arrays[a]
  <2> DEFINE u == CloneArrays(d)
  <2>1. arrays' = arrays \o u /\ Sequence(u) /\ Len(u) = 3
    BY <1>2
  <2> HIDE DEF u
  <2>2. /\ Sequence(arrays \o u) /\ DOMAIN arrays = 1 .. Len(arrays) /\ Len(arrays) \in Nat
        /\ DOMAIN (arrays \o u) = 1 .. (Len(arrays) + Len(u))
        /\ \A a \in DOMAIN arrays : (arrays \o u)[a] = arrays[a]
    BY <1>1, <2>1, ConcatenationExtends
  <2> QED
    BY <2>1, <2>2
<1>4. \A l \in List : Rank[l] \in 1 .. 3
  BY DEF Rank, List
<1> DEFINE lists ==
      [l \in List |-> [array |-> Len(arrays) + Rank[l], len |-> d.lists[l].len]]
<1>5. DOMAIN Clone(d) = {"text", "tags", "lists"} /\ Clone(d).lists = lists
  BY DEF Clone, Good, IsDocument
<1>6. ASSUME NEW l \in List
      PROVE  lists[l].array \in (Len(arrays) + 1) .. (Len(arrays) + 3) /\ lists[l] \in Slice
  <2>1. d.lists[l].len \in Nat
    BY DEF Good, IsDocument, Slice
  <2>2. lists[l] = [array |-> Len(arrays) + Rank[l], len |-> d.lists[l].len]
    OBVIOUS
  <2> QED
    BY <1>3, <1>4, <2>1, <2>2 DEF Slice
<1>7. IsDocument(Clone(d))
  <2>1. lists \in [List -> Slice]
    BY <1>6
  <2> HIDE DEF lists
  <2> QED
    BY <1>5, <2>1 DEF IsDocument
<1> HIDE DEF lists
<1>8. 1 <= Len(arrays)
  BY <1>1, <1>3
<1> QED
  BY <1>3, <1>5, <1>6, <1>7, <1>8

\* The end of a config: the document is returned, or a clone of it.
LEMMA FinishStep ==
  ASSUME Inv, Finish
  PROVE  Inv' /\ LeavesReturned
<1> USE DEF Inv
<1> DEFINE d == docs[mode]
<1>1. UNCHANGED <<input, version, field, element, mode, docs>> /\ status' \in {"ok", "error"}
      /\ status = "reading" /\ mode \in Mode
  BY DEF Finish, CursorOK
<1>2. CursorOK' /\ Within'
  BY <1>1 DEF CursorOK, Within
<1>3. CASE UNCHANGED <<arrays, handed>>
  BY <1>1, <1>2, <1>3 DEF MemoryOK, Good, IsDocument, Allocated, Separate, Apart,
                          LeavesReturned
<1>4. CASE mode = "new" /\ handed' = Append(handed, d) /\ UNCHANGED arrays
  <2>1. /\ Sequence(handed') /\ DOMAIN handed' = DOMAIN handed \cup {Len(handed) + 1}
        /\ \A i \in DOMAIN handed : handed'[i] = handed[i]
        /\ handed'[Len(handed) + 1] = d
    BY <1>4, AppendExtends DEF MemoryOK
  <2>2. Good(d) /\ Apart(d, docs["kept"])
    BY <1>1, <1>4 DEF MemoryOK, Separate
  <2>3. MemoryOK'
    BY <1>1, <1>4, <2>1, <2>2 DEF MemoryOK, Good, IsDocument, Allocated
  <2>4. Separate'
    BY <1>1, <2>1, <2>2 DEF Separate, Apart
  <2>5. LeavesReturned
    BY <1>4, <2>1 DEF LeavesReturned
  <2> QED
    BY <1>2, <2>3, <2>4, <2>5
<1>5. CASE handed' = Append(handed, Clone(d)) /\ arrays' = arrays \o CloneArrays(d)
  <2>1. /\ Sequence(handed') /\ DOMAIN handed' = DOMAIN handed \cup {Len(handed) + 1}
        /\ \A i \in DOMAIN handed : handed'[i] = handed[i]
        /\ handed'[Len(handed) + 1] = Clone(d)
    BY <1>5, AppendExtends DEF MemoryOK
  <2>2. Good(d)
    BY <1>1 DEF MemoryOK
  <2>3. /\ Sequence(arrays') /\ DOMAIN arrays \subseteq DOMAIN arrays'
        /\ \A a \in DOMAIN arrays : arrays'[a] = arrays[a]
        /\ IsDocument(Clone(d))
        /\ \A l \in List : /\ Clone(d).lists[l].array \in DOMAIN arrays'
                           /\ Clone(d).lists[l].array # 1
                           /\ Clone(d).lists[l].array \notin DOMAIN arrays
    BY <1>5, <2>2, CloneIsNew
  <2> DEFINE c == Clone(d)
  <2> HIDE DEF c
  <2>4. IsDocument(c) /\ handed'[Len(handed) + 1] = c
        /\ \A l \in List : /\ c.lists[l].array \in DOMAIN arrays'
                           /\ c.lists[l].array # 1
                           /\ c.lists[l].array \notin DOMAIN arrays
    BY <2>1, <2>3 DEF c
  <2>5. MemoryOK'
    BY <1>1, <2>1, <2>3, <2>4 DEF MemoryOK, Good, IsDocument, Allocated
  <2>6. Separate'
    BY <1>1, <2>1, <2>4 DEF Separate, Apart, MemoryOK, Good, Allocated, Mode
  <2>7. LeavesReturned
    BY <2>1, <2>3 DEF LeavesReturned, MemoryOK, Good, Allocated
  <2> QED
    BY <1>2, <2>5, <2>6, <2>7
<1> QED
  BY <1>3, <1>4, <1>5 DEF Finish

-----------------------------------------------------------------------------
(* Theorems *)

\* Every step keeps the invariant and the returned documents.
LEMMA NextStep == Inv /\ [Next]_vars => Inv' /\ (LeavesReturned \/ UNCHANGED vars)
<1> SUFFICES ASSUME Inv, [Next]_vars PROVE Inv' /\ (LeavesReturned \/ UNCHANGED vars)
  OBVIOUS
<1>1. CASE \E m \in {"kept", "new"}, data \in Input : Start(m, data)
  BY <1>1, StartStep DEF Mode
<1>2. CASE ReadHeader
  BY <1>2, HeaderStep
<1>3. CASE (\E f \in TextField : ReadText(f)) \/ ReadTags \/ ForgetMetadata
  BY <1>3, FieldStep
<1>4. CASE \E l \in List : ReadListCount(l)
  BY <1>4, CountStep
<1>5. CASE \E l \in List : ReadElement(l)
  BY <1>5, ElementStep
<1>6. CASE Finish
  BY <1>6, FinishStep
<1>7. CASE UNCHANGED vars
  BY <1>7 DEF vars, Inv, CursorOK, MemoryOK, Good, IsDocument, Allocated, Separate, Apart,
               Within
<1> QED
  BY <1>1, <1>2, <1>3, <1>4, <1>5, <1>6, <1>7 DEF Next

\* A document that DecodeCodec or Decoder.DecodeCodec returned says the same for good,
\* whatever is decoded after it into the slices that the Decoder uses again.
THEOREM ReturnedIsKept == Spec => ReturnedDocumentsStay
<1>1. Inv /\ [Next]_vars =>
        [\A i \in DOMAIN handed : ContentOf(handed[i])' = ContentOf(handed[i])]_vars
  BY NextStep, LeftIsUnchanged
<1>2. Inv /\ [Next]_vars => Inv'
  BY NextStep
<1> QED
  BY InitInv, <1>1, <1>2, PTL DEF Spec, ReturnedDocumentsStay

-----------------------------------------------------------------------------
(* Strings and parameters, written and read                                 *)

\* The strings, parameters and lists of them whose lengths are written whole.
FitStr == {s \in Str : Short(s)}
FitStrs == {list \in Seq(FitStr) : Short(list)}
FitParameter == {p \in Parameter : Short(p.name)}
FitParameters == {list \in Seq(FitParameter) : Short(list)}

PutStr == [s \in FitStr |-> PutString(s)]
PutPar == [p \in FitParameter |-> PutParameter(p)]

StringsOf(data) == [p \in Offset(data) |-> ReadString(data, p)]
ParametersOf(data) == [p \in Offset(data) |-> ReadParameter(data, p)]

\* A string that is read is one whose length is written whole.
LEMMA StringIsFit ==
  ASSUME NEW data \in Str, NEW o \in Offset(data)
  PROVE  LET r == ReadString(data, o)
         IN r \in Says(data, FitStr) /\ r.val \in FitStr /\ Honest(data, o, r, PutString(r.val))
<1>1. PICK r : r = ReadString(data, o)
  OBVIOUS
<1>2. r.val \in FitStr /\ Honest(data, o, r, PutString(r.val))
  BY <1>1, ReadStringIs DEF FitStr
<1>3. \E ok, val, end : r = [ok |-> ok, val |-> val, off |-> end]
  BY <1>1 DEF ReadString
<1>4. r.ok \in BOOLEAN /\ r.off \in Offset(data)
  BY <1>2 DEF Honest
<1>5. r \in Says(data, FitStr)
  BY <1>2, <1>3, <1>4 DEF Says
<1> QED
  BY <1>1, <1>2, <1>5

\* PutStr writes a string.
LEMMA PutStrIs ==
  /\ PutStr \in [FitStr -> Str]
  /\ \A s \in FitStr : PutStr[s] = PutString(s) /\ Len(PutStr[s]) > 0
<1>1. \A s \in FitStr : PutString(s) \in Str /\ Len(PutString(s)) = Len(s) + 1 /\ Len(s) \in Nat
  BY PutStringOf, StrFacts DEF FitStr
<1> QED
  BY <1>1 DEF PutStr

\* What is written of a parameter.
LEMMA PutParameterOf ==
  ASSUME NEW p \in FitParameter
  PROVE  /\ p.name \in Str /\ Short(p.name) /\ p.type \in Word
         /\ p = [name |-> p.name, type |-> p.type]
         /\ PutString(p.name) \in Str /\ <<p.type>> \in Str /\ Len(<<p.type>>) = 1
         /\ PutParameter(p) = PutString(p.name) \o <<p.type>>
         /\ PutParameter(p) \in Str /\ Len(PutParameter(p)) > 0
<1>1. p.name \in Str /\ Short(p.name) /\ p.type \in Word /\ p = [name |-> p.name, type |-> p.type]
  BY DEF FitParameter, Parameter
<1>2. PICK s \in Str : s = PutString(p.name)
  BY <1>1, PutStringOf
<1>3. PICK t \in Str : t = <<p.type>> /\ Len(t) = 1
  BY <1>1, StrOf
<1>4. s \o t \in Str /\ Len(s \o t) = Len(s) + 1 /\ Len(s) \in Nat
  BY <1>3, StrOf, StrFacts
<1> QED
  BY <1>1, <1>2, <1>3, <1>4 DEF PutParameter

\* PutPar writes a parameter.
LEMMA PutParIs ==
  /\ PutPar \in [FitParameter -> Str]
  /\ \A p \in FitParameter : PutPar[p] = PutParameter(p) /\ Len(PutPar[p]) > 0
<1>1. \A p \in FitParameter : PutParameter(p) \in Str /\ Len(PutParameter(p)) > 0
  BY PutParameterOf
<1> QED
  BY <1>1 DEF PutPar

\* A parameter that stands at an offset is read there.
LEMMA ReadParameterAt ==
  ASSUME NEW data \in Str, NEW o, NEW p \in FitParameter, At(data, o, PutParameter(p))
  PROVE  ReadParameter(data, o) = Found(PutParameter(p), p, o)
<1>1. PICK s \in Str : s = PutString(p.name)
  BY PutParameterOf
<1>2. PICK t \in Str : t = <<p.type>> /\ Len(t) = 1
  BY PutParameterOf
<1>3. PutParameter(p) = s \o t /\ Len(PutParameter(p)) = Len(s) + 1
  <2>1. PutParameter(p) = s \o t
    BY <1>1, <1>2, PutParameterOf
  <2> QED
    BY <1>2, <2>1, StrOf
<1>4. At(data, o, s) /\ At(data, o + Len(s), t)
  BY <1>3, AtConcat
<1>5. PICK name : name = ReadString(data, o)
  OBVIOUS
<1>6. name = Found(s, p.name, o)
  BY <1>1, <1>4, <1>5, PutParameterOf, ReadStringAt
<1>7. name.ok = TRUE /\ name.val = p.name /\ name.off = o + Len(s)
  BY <1>6 DEF Found
<1>8. PICK type : type = ReadWord(data, name.off)
  OBVIOUS
<1>9. type = [ok |-> TRUE, val |-> p.type, off |-> (o + Len(s)) + 1]
  <2>1. At(data, name.off, <<p.type>>)
    BY <1>2, <1>4, <1>7
  <2>2. type = [ok |-> TRUE, val |-> p.type, off |-> name.off + 1]
    BY <1>8, <2>1, ReadWordAt
  <2> QED
    BY <1>7, <2>2
<1>10. Len(s) \in Nat /\ o \in Nat
  BY <1>4, StrFacts DEF At
<1>11. ReadParameter(data, o) =
         [ok |-> name.ok /\ type.ok, val |-> [name |-> name.val, type |-> type.val], off |-> type.off]
  BY <1>5, <1>8 DEF ReadParameter
<1>12. p = [name |-> p.name, type |-> p.type]
  BY PutParameterOf
<1>13. type.ok = TRUE /\ type.val = p.type /\ type.off = o + Len(PutParameter(p))
  BY <1>3, <1>9, <1>10
<1> QED
  BY <1>7, <1>11, <1>12, <1>13 DEF Found

\* A parameter that is read stands there.
LEMMA ReadParameterIs ==
  ASSUME NEW data \in Str, NEW o \in Offset(data)
  PROVE  LET r == ReadParameter(data, o)
         IN r \in Says(data, FitParameter) /\ Honest(data, o, r, PutParameter(r.val))
<1>1. PICK name : name = ReadString(data, o)
  OBVIOUS
<1>2. name.val \in Str /\ Short(name.val) /\ Honest(data, o, name, PutString(name.val))
  BY <1>1, ReadStringIs
<1>3. name.off \in Offset(data) /\ name.ok \in BOOLEAN
  BY <1>2 DEF Honest
<1>4. PICK type : type = ReadWord(data, name.off)
  OBVIOUS
<1>5. type.val \in Word /\ Honest(data, name.off, type, <<type.val>>)
  BY <1>3, <1>4, ReadWordIs
<1>6. type.off \in Offset(data) /\ type.ok \in BOOLEAN
  BY <1>5 DEF Honest
<1>7. PICK p \in FitParameter : p = [name |-> name.val, type |-> type.val]
  BY <1>2, <1>5 DEF FitParameter, Parameter
<1>8. p.name = name.val /\ p.type = type.val
  BY <1>7
<1>9. PICK s \in Str : s = PutString(name.val)
  BY <1>2, PutStringOf
<1>10. PICK t \in Str : t = <<type.val>> /\ Len(t) = 1
  BY <1>5, StrOf
<1>11. (type.ok => name.ok) /\ Honest(data, o, type, s \o t)
  <2>1. Honest(data, o, name, s) /\ Honest(data, name.off, type, t) /\ Len(t) > 0
    BY <1>2, <1>5, <1>9, <1>10
  <2> QED
    BY <2>1, HonestConcat
<1>12. PutParameter(p) = s \o t
  BY <1>8, <1>9, <1>10, PutParameterOf
<1>13. PICK ok \in BOOLEAN : ok = (name.ok /\ type.ok) /\ ok = type.ok
  BY <1>3, <1>6, <1>11
<1>14. PICK r \in Says(data, FitParameter) : r = [ok |-> ok, val |-> p, off |-> type.off]
  BY <1>6 DEF Says
<1>15. ReadParameter(data, o) = r
  BY <1>1, <1>4, <1>7, <1>13, <1>14 DEF ReadParameter
<1>16. Honest(data, o, r, PutParameter(r.val))
  <2>1. r.ok = type.ok /\ r.val = p /\ r.off = type.off
    BY <1>13, <1>14
  <2> QED
    BY <1>11, <1>12, <2>1 DEF Honest
<1> QED
  BY <1>15, <1>16

\* A list of parameters is written as PutPar writes it.
LEMMA PutParametersIs ==
  ASSUME NEW list \in FitParameters
  PROVE  /\ PutParameters(list) = PutAll(list, PutPar) /\ PutParameters(list) \in Str
         /\ Len(PutParameters(list)) > 0
<1>1. list \in Seq(FitParameter) /\ Short(list)
  BY DEF FitParameters
<1>2. PICK n \in Nat : DOMAIN list = 1 .. n /\ \A i \in 1 .. n : list[i] \in FitParameter
  BY <1>1, LenProperties, ElementOfSeq
<1>3. Mapped(list, PutPar) = [i \in DOMAIN list |-> PutParameter(list[i])]
  BY <1>2, PutParIs DEF Mapped
<1>4. PutParameters(list) = PutAll(list, PutPar)
  BY <1>3 DEF PutParameters, PutAll
<1>5. PICK flat \in Str : PutAll(list, PutPar) \in Str /\ Len(PutAll(list, PutPar)) = 1 + Len(flat)
  BY <1>1, PutParIs, PutAllOf
<1>6. Len(flat) \in Nat
  BY StrFacts
<1> QED
  BY <1>4, <1>5, <1>6

\* A list of strings is written as PutStr writes it.
LEMMA PutStringsIs ==
  ASSUME NEW list \in FitStrs
  PROVE  /\ PutStrings(list) = PutAll(list, PutStr) /\ PutStrings(list) \in Str
         /\ Len(PutStrings(list)) > 0
<1>1. list \in Seq(FitStr) /\ Short(list)
  BY DEF FitStrs
<1>2. PICK n \in Nat : DOMAIN list = 1 .. n /\ \A i \in 1 .. n : list[i] \in FitStr
  BY <1>1, LenProperties, ElementOfSeq
<1>3. Mapped(list, PutStr) = [i \in DOMAIN list |-> PutString(list[i])]
  BY <1>2, PutStrIs DEF Mapped
<1>4. PutStrings(list) = PutAll(list, PutStr)
  BY <1>3 DEF PutStrings, PutAll
<1>5. PICK flat \in Str : PutAll(list, PutStr) \in Str /\ Len(PutAll(list, PutStr)) = 1 + Len(flat)
  BY <1>1, PutStrIs, PutAllOf
<1>6. Len(flat) \in Nat
  BY StrFacts
<1> QED
  BY <1>4, <1>5, <1>6

\* A list of parameters that stands at an offset is read there.
LEMMA ParametersAt ==
  ASSUME NEW data \in Str, NEW o, NEW list \in FitParameters, At(data, o, PutParameters(list))
  PROVE  ReadParameters(data, o) = Found(PutParameters(list), list, o)
<1>1. list \in Seq(FitParameter) /\ Short(list) /\ At(data, o, PutAll(list, PutPar))
  BY PutParametersIs DEF FitParameters
<1>2. PICK n \in Nat : DOMAIN list = 1 .. n /\ \A i \in 1 .. n : list[i] \in FitParameter
  BY <1>1, LenProperties, ElementOfSeq
<1>3. ParametersOf(data) \in [Offset(data) -> Says(data, FitParameter)]
  BY ReadParameterIs DEF ParametersOf
<1>4. ASSUME NEW i \in DOMAIN list, NEW p \in Offset(data), At(data, p, PutPar[list[i]])
      PROVE  ParametersOf(data)[p] = Found(PutPar[list[i]], list[i], p)
  <2>1. PICK a \in FitParameter : a = list[i]
    BY <1>2
  <2>2. At(data, p, PutParameter(a)) /\ PutPar[list[i]] = PutParameter(a)
    BY <1>4, <2>1, PutParIs
  <2>3. ReadParameter(data, p) = Found(PutParameter(a), a, p)
    BY <2>2, ReadParameterAt
  <2> QED
    BY <2>1, <2>2, <2>3 DEF ParametersOf
<1>5. ReadMany(ParametersOf(data), data, o) = Found(PutAll(list, PutPar), list, o)
  BY <1>1, <1>3, <1>4, PutParIs, ReadManyAt
<1> QED
  BY <1>5, PutParametersIs DEF ReadParameters, ParametersOf

\* A list of parameters that is read stands there.
LEMMA ParametersAre ==
  ASSUME NEW data \in Str, NEW o \in Offset(data)
  PROVE  LET r == ReadParameters(data, o)
         IN r.val \in FitParameters /\ Honest(data, o, r, PutParameters(r.val))
<1>1. PICK r : r = ReadMany(ParametersOf(data), data, o)
  OBVIOUS
<1>2. /\ ParametersOf(data) \in [Offset(data) -> Says(data, FitParameter)]
      /\ \A p \in Offset(data) :
           Honest(data, p, ParametersOf(data)[p], PutPar[ParametersOf(data)[p].val])
  <2>1. \A p \in Offset(data) : ReadParameter(data, p) \in Says(data, FitParameter)
          /\ Honest(data, p, ReadParameter(data, p), PutParameter(ReadParameter(data, p).val))
    BY ReadParameterIs
  <2>2. \A p \in Offset(data) : ReadParameter(data, p).val \in FitParameter
    BY <2>1 DEF Says
  <2> QED
    BY <2>1, <2>2, PutParIs DEF ParametersOf
<1>3. r.val \in Seq(FitParameter) /\ Short(r.val) /\ Honest(data, o, r, PutAll(r.val, PutPar))
  BY <1>1, <1>2, PutParIs, ReadManyIs
<1>4. r.val \in FitParameters
  BY <1>3 DEF FitParameters
<1> QED
  BY <1>1, <1>3, <1>4, PutParametersIs DEF ReadParameters, ParametersOf

\* A list of strings that stands at an offset is read there.
LEMMA StringsAt ==
  ASSUME NEW data \in Str, NEW o, NEW list \in FitStrs, At(data, o, PutStrings(list))
  PROVE  ReadMany(StringsOf(data), data, o) = Found(PutStrings(list), list, o)
<1>1. list \in Seq(FitStr) /\ Short(list) /\ At(data, o, PutAll(list, PutStr))
  BY PutStringsIs DEF FitStrs
<1>2. PICK n \in Nat : DOMAIN list = 1 .. n /\ \A i \in 1 .. n : list[i] \in FitStr
  BY <1>1, LenProperties, ElementOfSeq
<1>3. StringsOf(data) \in [Offset(data) -> Says(data, FitStr)]
  BY StringIsFit DEF StringsOf
<1>4. ASSUME NEW i \in DOMAIN list, NEW p \in Offset(data), At(data, p, PutStr[list[i]])
      PROVE  StringsOf(data)[p] = Found(PutStr[list[i]], list[i], p)
  <2>1. PICK a \in FitStr : a = list[i]
    BY <1>2
  <2>2. At(data, p, PutString(a)) /\ PutStr[list[i]] = PutString(a)
    BY <1>4, <2>1, PutStrIs
  <2>3. ReadString(data, p) = Found(PutString(a), a, p)
    BY <2>2, ReadStringAt DEF FitStr
  <2> QED
    BY <2>1, <2>2, <2>3 DEF StringsOf
<1>5. ReadMany(StringsOf(data), data, o) = Found(PutAll(list, PutStr), list, o)
  BY <1>1, <1>3, <1>4, PutStrIs, ReadManyAt
<1> QED
  BY <1>5, PutStringsIs

\* A list of strings that is read stands there.
LEMMA StringsAre ==
  ASSUME NEW data \in Str, NEW o \in Offset(data)
  PROVE  LET r == ReadMany(StringsOf(data), data, o)
         IN r.val \in FitStrs /\ Honest(data, o, r, PutStrings(r.val))
<1>1. PICK r : r = ReadMany(StringsOf(data), data, o)
  OBVIOUS
<1>2. /\ StringsOf(data) \in [Offset(data) -> Says(data, FitStr)]
      /\ \A p \in Offset(data) : Honest(data, p, StringsOf(data)[p], PutStr[StringsOf(data)[p].val])
  BY StringIsFit, PutStrIs DEF StringsOf
<1>3. r.val \in Seq(FitStr) /\ Short(r.val) /\ Honest(data, o, r, PutAll(r.val, PutStr))
  BY <1>1, <1>2, PutStrIs, ReadManyIs
<1>4. r.val \in FitStrs
  BY <1>3 DEF FitStrs
<1> QED
  BY <1>1, <1>3, <1>4, PutStringsIs

-----------------------------------------------------------------------------
(* References, methods and relations, written and read                      *)

\* The counts that are not refused, and what is written whole of each kind of element.
Count == -1 .. (W - 2)
FitRef == {s \in FitStr : s \in DOMAIN RefOf}
FitMethod ==
  [ref : FitRef, exec : Word, inputCount : Count, inputArgs : FitParameters,
   outputCount : Count, outputArgs : FitParameters, format : Word]
FitRelation == [name : FitStr, condition : FitStr]

\* What is written of a count.
LEMMA PutCountOf ==
  ASSUME NEW c \in Count
  PROVE  PutCount(c) \in Str /\ Len(PutCount(c)) = 1
<1>1. PICK w \in Word : PutCount(c) = <<w>>
  <2>1. CASE c < 0
    BY <2>1, WordsAssumption DEF Word, PutCount, inferredCount
  <2>2. CASE c >= 0
    <3>1. c \in Word /\ c % W = c
      BY <2>2, WordsAssumption DEF Word, Count
    <3> QED
      BY <2>2, <3>1 DEF PutCount, Count
  <2> QED
    BY <2>1, <2>2 DEF Count
<1> QED
  BY <1>1, StrOf

\* A count that stands at an offset is read there.
LEMMA ReadCountAt ==
  ASSUME NEW data \in Str, NEW o, NEW c \in Count, At(data, o, PutCount(c))
  PROVE  LET r == ReadCount(data, o)
         IN r.ok = TRUE /\ r.val = c /\ r.off = o + 1
<1>1. CASE c < 0
  <2>1. PutCount(c) = <<inferredCount>> /\ c = -1
    BY <1>1, WordsAssumption DEF PutCount, Count
  <2>2. ReadWord(data, o) = [ok |-> TRUE, val |-> inferredCount, off |-> o + 1]
    BY <2>1, ReadWordAt
  <2> QED
    BY <2>1, <2>2 DEF ReadCount
<1>2. CASE c >= 0
  <2>1. c % W = c /\ c # inferredCount
    BY <1>2, WordsAssumption DEF Count, inferredCount
  <2>2. PutCount(c) = <<c>>
    BY <1>2, <2>1 DEF PutCount, Count
  <2>3. ReadWord(data, o) = [ok |-> TRUE, val |-> c, off |-> o + 1]
    BY <2>2, ReadWordAt
  <2> QED
    BY <2>1, <2>3 DEF ReadCount
<1>3. c < 0 \/ c >= 0
  BY DEF Count
<1> QED
  BY <1>1, <1>2, <1>3, Zenon

\* A count that is read stands there.
LEMMA ReadCountIs ==
  ASSUME NEW data \in Str, NEW o \in Offset(data)
  PROVE  LET r == ReadCount(data, o)
         IN r.val \in Count /\ Honest(data, o, r, PutCount(r.val))
<1>1. PICK word : word = ReadWord(data, o)
  OBVIOUS
<1>2. word.val \in Word /\ Honest(data, o, word, <<word.val>>)
  BY <1>1, ReadWordIs
<1>3. PICK c : c = IF word.val = inferredCount THEN -1 ELSE word.val
  OBVIOUS
<1>4. \E ok, val, end : word = [ok |-> ok, val |-> val, off |-> end]
  BY <1>1 DEF ReadWord
<1>5. ReadCount(data, o).ok = word.ok /\ ReadCount(data, o).val = c
      /\ ReadCount(data, o).off = word.off
  BY <1>1, <1>3, <1>4 DEF ReadCount
<1>6. c \in Count /\ PutCount(c) = <<word.val>>
  <2>1. CASE word.val = inferredCount
    BY <1>3, <2>1, WordsAssumption DEF Count, PutCount
  <2>2. CASE word.val # inferredCount
    <3>1. c = word.val /\ c \in 0 .. (W - 2) /\ c % W = c
      BY <1>2, <1>3, <2>2, WordsAssumption DEF Word, inferredCount
    <3> QED
      BY <3>1, WordsAssumption DEF Count, PutCount
  <2> QED
    BY <2>1, <2>2
<1>7. PICK r : r = ReadCount(data, o)
  OBVIOUS
<1>8. r.ok = word.ok /\ r.val = c /\ r.off = word.off
  BY <1>5, <1>7
<1>9. Honest(data, o, word, PutCount(c))
  BY <1>2, <1>6
<1>10. Honest(data, o, r, PutCount(r.val))
  BY <1>8, <1>9 DEF Honest
<1>11. r.val \in Count
  BY <1>6, <1>8
<1> QED
  BY <1>7, <1>10, <1>11, Zenon

\* What is written of a method up to its second field, its third one, and so on.
Put2(m) == PutString(m.ref) \o <<m.exec>>
Put3(m) == Put2(m) \o PutCount(m.inputCount)
Put4(m) == Put3(m) \o PutParameters(m.inputArgs)
Put5(m) == Put4(m) \o PutCount(m.outputCount)
Put6(m) == Put5(m) \o PutParameters(m.outputArgs)

\* The fields of a method that fits.
LEMMA MethodFields ==
  ASSUME NEW m \in FitMethod
  PROVE  /\ m.ref \in FitRef /\ m.ref \in Str /\ m.exec \in Word /\ m.inputCount \in Count
         /\ m.outputCount \in Count /\ m.inputArgs \in FitParameters
         /\ m.outputArgs \in FitParameters /\ m.format \in Word
         /\ m = [ref |-> m.ref, exec |-> m.exec, inputCount |-> m.inputCount,
                 inputArgs |-> m.inputArgs, outputCount |-> m.outputCount,
                 outputArgs |-> m.outputArgs, format |-> m.format]
BY DEF FitMethod, FitRef, FitStr

\* They are written one after the other.
LEMMA PutMethodOf ==
  ASSUME NEW m \in FitMethod
  PROVE  /\ PutString(m.ref) \in Str /\ Put2(m) \in Str /\ Put3(m) \in Str /\ Put4(m) \in Str
         /\ Put5(m) \in Str /\ Put6(m) \in Str /\ <<m.exec>> \in Str /\ <<m.format>> \in Str
         /\ PutCount(m.inputCount) \in Str /\ PutCount(m.outputCount) \in Str
         /\ PutParameters(m.inputArgs) \in Str /\ PutParameters(m.outputArgs) \in Str
         /\ Len(<<m.exec>>) = 1 /\ Len(<<m.format>>) = 1
         /\ Len(PutCount(m.inputCount)) = 1 /\ Len(PutCount(m.outputCount)) = 1
         /\ Len(PutParameters(m.inputArgs)) > 0 /\ Len(PutParameters(m.outputArgs)) > 0
         /\ PutMethod(m) = Put6(m) \o <<m.format>>
         /\ PutMethod(m) \in Str /\ Len(PutMethod(m)) = Len(Put6(m)) + 1
<1>1. PutString(m.ref) \in Str
  BY MethodFields, PutStringOf
<1>2. /\ <<m.exec>> \in Str /\ <<m.format>> \in Str
      /\ Len(<<m.exec>>) = 1 /\ Len(<<m.format>>) = 1
  BY MethodFields, StrOf
<1>3. /\ PutCount(m.inputCount) \in Str /\ PutCount(m.outputCount) \in Str
      /\ Len(PutCount(m.inputCount)) = 1 /\ Len(PutCount(m.outputCount)) = 1
  BY MethodFields, PutCountOf
<1>4. /\ PutParameters(m.inputArgs) \in Str /\ PutParameters(m.outputArgs) \in Str
      /\ Len(PutParameters(m.inputArgs)) > 0 /\ Len(PutParameters(m.outputArgs)) > 0
  BY MethodFields, PutParametersIs
<1>5. Put2(m) \in Str
  BY <1>1, <1>2, StrOf DEF Put2
<1>6. Put3(m) \in Str
  BY <1>3, <1>5, StrOf DEF Put3
<1>7. Put4(m) \in Str
  BY <1>4, <1>6, StrOf DEF Put4
<1>8. Put5(m) \in Str
  BY <1>3, <1>7, StrOf DEF Put5
<1>9. Put6(m) \in Str
  BY <1>4, <1>8, StrOf DEF Put6
<1>10. PutMethod(m) = Put6(m) \o <<m.format>>
  BY DEF PutMethod, Put2, Put3, Put4, Put5, Put6
<1>11. PutMethod(m) \in Str /\ Len(PutMethod(m)) = Len(Put6(m)) + 1
  BY <1>2, <1>9, <1>10, StrOf
<1> QED
  BY <1>1, <1>2, <1>3, <1>4, <1>5, <1>6, <1>7, <1>8, <1>9, <1>10, <1>11

\* How much is written of a method up to each of its fields.
LEMMA PutMethodLen ==
  ASSUME NEW m \in FitMethod
  PROVE  /\ Len(PutString(m.ref)) \in Nat /\ Len(Put2(m)) = Len(PutString(m.ref)) + 1
         /\ Len(Put3(m)) = Len(Put2(m)) + 1
         /\ Len(Put4(m)) = Len(Put3(m)) + Len(PutParameters(m.inputArgs))
         /\ Len(Put5(m)) = Len(Put4(m)) + 1
         /\ Len(Put6(m)) = Len(Put5(m)) + Len(PutParameters(m.outputArgs))
         /\ Len(PutParameters(m.inputArgs)) \in Nat /\ Len(PutParameters(m.outputArgs)) \in Nat
<1>1. Len(Put2(m)) = Len(PutString(m.ref)) + 1
  <2>1. Len(PutString(m.ref) \o <<m.exec>>) = Len(PutString(m.ref)) + Len(<<m.exec>>)
    BY PutMethodOf, StrOf
  <2> QED
    BY <2>1, PutMethodOf, Zenon DEF Put2
<1>2. Len(Put3(m)) = Len(Put2(m)) + 1
  <2>1. Len(Put2(m) \o PutCount(m.inputCount)) = Len(Put2(m)) + Len(PutCount(m.inputCount))
    BY PutMethodOf, StrOf
  <2> QED
    BY <2>1, PutMethodOf, Zenon DEF Put3
<1>3. Len(Put4(m)) = Len(Put3(m)) + Len(PutParameters(m.inputArgs))
  <2>1. Len(Put3(m) \o PutParameters(m.inputArgs)) = Len(Put3(m)) + Len(PutParameters(m.inputArgs))
    BY PutMethodOf, StrOf
  <2> QED
    BY <2>1, PutMethodOf, Zenon DEF Put4
<1>4. Len(Put5(m)) = Len(Put4(m)) + 1
  <2>1. Len(Put4(m) \o PutCount(m.outputCount)) = Len(Put4(m)) + Len(PutCount(m.outputCount))
    BY PutMethodOf, StrOf
  <2> QED
    BY <2>1, PutMethodOf, Zenon DEF Put5
<1>5. Len(Put6(m)) = Len(Put5(m)) + Len(PutParameters(m.outputArgs))
  <2>1. Len(Put5(m) \o PutParameters(m.outputArgs)) = Len(Put5(m)) + Len(PutParameters(m.outputArgs))
    BY PutMethodOf, StrOf
  <2> QED
    BY <2>1, PutMethodOf, Zenon DEF Put6
<1>6. /\ Len(PutString(m.ref)) \in Nat /\ Len(PutParameters(m.inputArgs)) \in Nat
      /\ Len(PutParameters(m.outputArgs)) \in Nat
  BY PutMethodOf, StrFacts
<1> QED
  BY <1>1, <1>2, <1>3, <1>4, <1>5, <1>6

\* A method as it is kept: with the reference that its own is trimmed to.
RefinedMethod(m) == [m EXCEPT !.ref = RefOf[m.ref]]

\* A reference that stands at an offset is read there, and trimmed.
LEMMA ReadRefAt ==
  ASSUME NEW data \in Str, NEW o, NEW s \in FitRef, At(data, o, PutString(s))
  PROVE  ReadRef(data, o) = Found(PutString(s), RefOf[s], o)
<1>1. s \in Str /\ Short(s) /\ s \in DOMAIN RefOf
  BY DEF FitRef, FitStr
<1>2. PICK raw : raw = ReadString(data, o)
  OBVIOUS
<1>3. raw = Found(PutString(s), s, o)
  BY <1>1, <1>2, ReadStringAt
<1>4. ReadRef(data, o) = IF raw.ok /\ raw.val \in DOMAIN RefOf
                           THEN [raw EXCEPT !.val = RefOf[raw.val]] ELSE [raw EXCEPT !.ok = FALSE]
  BY <1>2 DEF ReadRef
<1> QED
  BY <1>1, <1>3, <1>4 DEF Found

\* A reference that is read stands there, spelled in some way; one that is not moves the
\* reader as far as the string there does.
LEMMA ReadRefIs ==
  ASSUME NEW data \in Str, NEW o \in Offset(data)
  PROVE  LET r == ReadRef(data, o)
             raw == ReadString(data, o)
         IN /\ raw.val \in FitStr /\ Honest(data, o, raw, PutString(raw.val))
            /\ r.off = raw.off /\ r.ok \in BOOLEAN
            /\ r.ok => raw.ok /\ raw.val \in FitRef /\ r.val = RefOf[raw.val]
<1>1. PICK raw \in Says(data, FitStr) : raw = ReadString(data, o)
  BY StringIsFit
<1>2. raw.val \in FitStr /\ Honest(data, o, raw, PutString(raw.val))
  BY <1>1, StringIsFit
<1>3. ReadRef(data, o) = IF raw.ok /\ raw.val \in DOMAIN RefOf
                           THEN [raw EXCEPT !.val = RefOf[raw.val]] ELSE [raw EXCEPT !.ok = FALSE]
  BY <1>1 DEF ReadRef
<1>4. raw.ok \in BOOLEAN /\ raw = [ok |-> raw.ok, val |-> raw.val, off |-> raw.off]
  BY DEF Says
<1>5. CASE raw.ok /\ raw.val \in DOMAIN RefOf
  BY <1>1, <1>2, <1>3, <1>4, <1>5 DEF FitRef
<1>6. CASE ~(raw.ok /\ raw.val \in DOMAIN RefOf)
  BY <1>1, <1>2, <1>3, <1>4, <1>6
<1> QED
  BY <1>5, <1>6

\* Where the fields of a method stand.
LEMMA MethodStands ==
  ASSUME NEW data \in Str, NEW o, NEW m \in FitMethod, At(data, o, PutMethod(m))
  PROVE  /\ At(data, o, PutString(m.ref))
         /\ At(data, o + Len(PutString(m.ref)), <<m.exec>>)
         /\ At(data, o + Len(Put2(m)), PutCount(m.inputCount))
         /\ At(data, o + Len(Put3(m)), PutParameters(m.inputArgs))
         /\ At(data, o + Len(Put4(m)), PutCount(m.outputCount))
         /\ At(data, o + Len(Put5(m)), PutParameters(m.outputArgs))
         /\ At(data, o + Len(Put6(m)), <<m.format>>)
<1>1. At(data, o, Put6(m)) /\ At(data, o + Len(Put6(m)), <<m.format>>)
  <2>1. At(data, o, Put6(m) \o <<m.format>>)
    BY PutMethodOf
  <2> QED
    BY <2>1, PutMethodOf, AtConcat
<1>2. At(data, o, Put5(m)) /\ At(data, o + Len(Put5(m)), PutParameters(m.outputArgs))
  BY <1>1, PutMethodOf, AtConcat DEF Put6
<1>3. At(data, o, Put4(m)) /\ At(data, o + Len(Put4(m)), PutCount(m.outputCount))
  BY <1>2, PutMethodOf, AtConcat DEF Put5
<1>4. At(data, o, Put3(m)) /\ At(data, o + Len(Put3(m)), PutParameters(m.inputArgs))
  BY <1>3, PutMethodOf, AtConcat DEF Put4
<1>5. At(data, o, Put2(m)) /\ At(data, o + Len(Put2(m)), PutCount(m.inputCount))
  BY <1>4, PutMethodOf, AtConcat DEF Put3
<1>6. At(data, o, PutString(m.ref)) /\ At(data, o + Len(PutString(m.ref)), <<m.exec>>)
  BY <1>5, PutMethodOf, AtConcat DEF Put2
<1> QED
  BY <1>1, <1>2, <1>3, <1>4, <1>5, <1>6

\* A method that stands at an offset is read there.
LEMMA ReadMethodAt ==
  ASSUME NEW data \in Str, NEW o, NEW m \in FitMethod, At(data, o, PutMethod(m))
  PROVE  ReadMethod(data, o) = Found(PutMethod(m), RefinedMethod(m), o)
<1>1. o \in Nat
  BY DEF At
<1>2. PICK n1 \in Nat : n1 = Len(PutString(m.ref))
  BY PutMethodLen
<1>3. PICK n2 \in Nat : n2 = Len(Put2(m)) /\ n2 = n1 + 1
  BY <1>2, PutMethodLen
<1>4. PICK n3 \in Nat : n3 = Len(Put3(m)) /\ n3 = n2 + 1
  <2>1. Len(Put3(m)) = Len(Put2(m)) + 1
    BY PutMethodLen
  <2>2. Len(Put3(m)) = n2 + 1
    BY <1>3, <2>1, Zenon
  <2>3. n2 + 1 \in Nat
    OBVIOUS
  <2> QED
    BY <2>2, <2>3
<1>5. PICK a \in Nat : a = Len(PutParameters(m.inputArgs))
  BY PutMethodLen
<1>6. PICK n4 \in Nat : n4 = Len(Put4(m)) /\ n4 = n3 + a
  <2>1. Len(Put4(m)) = Len(Put3(m)) + Len(PutParameters(m.inputArgs))
    BY PutMethodLen
  <2>2. Len(Put4(m)) = n3 + a
    BY <1>4, <1>5, <2>1, Zenon
  <2>3. n3 + a \in Nat
    OBVIOUS
  <2> QED
    BY <2>2, <2>3
<1>7. PICK n5 \in Nat : n5 = Len(Put5(m)) /\ n5 = n4 + 1
  <2>1. Len(Put5(m)) = Len(Put4(m)) + 1
    BY PutMethodLen
  <2>2. Len(Put5(m)) = n4 + 1
    BY <1>6, <2>1, Zenon
  <2>3. n4 + 1 \in Nat
    OBVIOUS
  <2> QED
    BY <2>2, <2>3
<1>8. PICK b \in Nat : b = Len(PutParameters(m.outputArgs))
  BY PutMethodLen
<1>9. PICK n6 \in Nat : n6 = Len(Put6(m)) /\ n6 = n5 + b
  <2>1. Len(Put6(m)) = Len(Put5(m)) + Len(PutParameters(m.outputArgs))
    BY PutMethodLen
  <2>2. Len(Put6(m)) = n5 + b
    BY <1>7, <1>8, <2>1, Zenon
  <2>3. n5 + b \in Nat
    OBVIOUS
  <2> QED
    BY <2>2, <2>3
<1>11. PICK ref : ref = ReadRef(data, o)
  OBVIOUS
<1>12. ref.ok = TRUE /\ ref.val = RefOf[m.ref] /\ ref.off = o + n1
  <2>1. ref = Found(PutString(m.ref), RefOf[m.ref], o)
    BY <1>11, MethodFields, MethodStands, ReadRefAt
  <2> QED
    BY <1>2, <2>1 DEF Found
<1>13. PICK exec : exec = ReadWord(data, ref.off)
  OBVIOUS
<1>14. exec.val = m.exec /\ exec.off = o + n2
  <2>1. At(data, ref.off, <<m.exec>>)
    BY <1>2, <1>12, MethodStands
  <2>2. exec = [ok |-> TRUE, val |-> m.exec, off |-> ref.off + 1]
    BY <1>13, <2>1, ReadWordAt
  <2> QED
    BY <1>1, <1>3, <1>12, <2>2
<1>15. PICK ic : ic = ReadCount(data, exec.off)
  OBVIOUS
<1>16. ic.val = m.inputCount /\ ic.off = o + n3
  <2>1. At(data, exec.off, PutCount(m.inputCount))
    BY <1>3, <1>14, MethodStands
  <2>2. ic.val = m.inputCount /\ ic.off = exec.off + 1
    BY <1>15, <2>1, MethodFields, ReadCountAt
  <2> QED
    BY <1>1, <1>4, <1>14, <2>2
<1>17. PICK ia : ia = ReadParameters(data, ic.off)
  OBVIOUS
<1>18. ia.val = m.inputArgs /\ ia.off = o + n4
  <2>1. At(data, ic.off, PutParameters(m.inputArgs))
    BY <1>4, <1>16, MethodStands
  <2>2. ia = Found(PutParameters(m.inputArgs), m.inputArgs, ic.off)
    BY <1>17, <2>1, MethodFields, ParametersAt
  <2>3. ia.val = m.inputArgs /\ ia.off = ic.off + a
    BY <1>5, <2>2 DEF Found
  <2> QED
    BY <1>1, <1>6, <1>16, <2>3
<1>19. PICK oc : oc = ReadCount(data, ia.off)
  OBVIOUS
<1>20. oc.val = m.outputCount /\ oc.off = o + n5
  <2>1. At(data, ia.off, PutCount(m.outputCount))
    BY <1>6, <1>18, MethodStands
  <2>2. oc.val = m.outputCount /\ oc.off = ia.off + 1
    BY <1>19, <2>1, MethodFields, ReadCountAt
  <2> QED
    BY <1>1, <1>7, <1>18, <2>2
<1>21. PICK oa : oa = ReadParameters(data, oc.off)
  OBVIOUS
<1>22. oa.val = m.outputArgs /\ oa.off = o + n6
  <2>1. At(data, oc.off, PutParameters(m.outputArgs))
    BY <1>7, <1>20, MethodStands
  <2>2. oa = Found(PutParameters(m.outputArgs), m.outputArgs, oc.off)
    BY <1>21, <2>1, MethodFields, ParametersAt
  <2>3. oa.val = m.outputArgs /\ oa.off = oc.off + b
    BY <1>8, <2>2 DEF Found
  <2> QED
    BY <1>1, <1>9, <1>20, <2>3
<1>23. PICK format : format = ReadWord(data, oa.off)
  OBVIOUS
<1>24. format.ok = TRUE /\ format.val = m.format /\ format.off = o + Len(PutMethod(m))
  <2>1. At(data, oa.off, <<m.format>>)
    BY <1>9, <1>22, MethodStands
  <2>2. format = [ok |-> TRUE, val |-> m.format, off |-> oa.off + 1]
    BY <1>23, <2>1, ReadWordAt
  <2>3. Len(PutMethod(m)) = n6 + 1
    BY <1>9, PutMethodOf
  <2> QED
    BY <1>1, <1>22, <2>2, <2>3
<1>25. ReadMethod(data, o) =
         [ok |-> ref.ok /\ format.ok,
          val |-> [ref |-> ref.val, exec |-> exec.val, inputCount |-> ic.val,
                   inputArgs |-> ia.val, outputCount |-> oc.val, outputArgs |-> oa.val,
                   format |-> format.val],
          off |-> format.off]
  BY <1>11, <1>13, <1>15, <1>17, <1>19, <1>21, <1>23 DEF ReadMethod
<1>26. RefinedMethod(m) =
         [ref |-> ref.val, exec |-> exec.val, inputCount |-> ic.val,
          inputArgs |-> ia.val, outputCount |-> oc.val,
          outputArgs |-> oa.val, format |-> format.val]
  <2>1. RefinedMethod(m) = [[ref |-> m.ref, exec |-> m.exec, inputCount |-> m.inputCount,
          inputArgs |-> m.inputArgs, outputCount |-> m.outputCount,
          outputArgs |-> m.outputArgs, format |-> m.format] EXCEPT !.ref = ref.val]
    BY <1>12, MethodFields, Zenon DEF RefinedMethod
  <2>2. RefinedMethod(m) =
         [ref |-> ref.val, exec |-> m.exec, inputCount |-> m.inputCount,
          inputArgs |-> m.inputArgs, outputCount |-> m.outputCount,
          outputArgs |-> m.outputArgs, format |-> m.format]
    BY <2>1
  <2> QED
    BY <1>14, <1>16, <1>18, <1>20, <1>22, <1>24, <2>2, Zenon
<1>27. ReadMethod(data, o) =
         [ok |-> TRUE, val |-> RefinedMethod(m), off |-> o + Len(PutMethod(m))]
  BY <1>12, <1>24, <1>25, <1>26
<1> QED
  BY <1>27, Zenon DEF Found

\* A method that is read stands there, its reference spelled in some way.
LEMMA ReadMethodIs ==
  ASSUME NEW data \in Str, NEW o \in Offset(data)
  PROVE  LET r == ReadMethod(data, o)
         IN /\ r.off \in Offset(data) /\ r.ok \in BOOLEAN
            /\ r.ok => \E m \in FitMethod : /\ At(data, o, PutMethod(m))
                                            /\ r.off = o + Len(PutMethod(m))
                                            /\ r.val = RefinedMethod(m)
<1>1. PICK ref : ref = ReadRef(data, o)
  OBVIOUS
<1>2. PICK raw : raw = ReadString(data, o)
  OBVIOUS
<1>3. /\ raw.val \in FitStr /\ Honest(data, o, raw, PutString(raw.val))
      /\ ref.off = raw.off /\ ref.ok \in BOOLEAN
      /\ ref.ok => raw.val \in FitRef /\ ref.val = RefOf[raw.val]
  BY <1>1, <1>2, ReadRefIs
<1>4. raw.off \in Offset(data)
  BY <1>3 DEF Honest
<1>5. PICK exec : exec = ReadWord(data, ref.off)
  OBVIOUS
<1>6. exec.val \in Word /\ Honest(data, raw.off, exec, <<exec.val>>)
  BY <1>3, <1>4, <1>5, ReadWordIs
<1>7. exec.off \in Offset(data)
  BY <1>6 DEF Honest
<1>8. PICK ic : ic = ReadCount(data, exec.off)
  OBVIOUS
<1>9. ic.val \in Count /\ Honest(data, exec.off, ic, PutCount(ic.val))
  BY <1>7, <1>8, ReadCountIs
<1>10. ic.off \in Offset(data)
  BY <1>9 DEF Honest
<1>11. PICK ia : ia = ReadParameters(data, ic.off)
  OBVIOUS
<1>12. ia.val \in FitParameters /\ Honest(data, ic.off, ia, PutParameters(ia.val))
  BY <1>10, <1>11, ParametersAre
<1>13. ia.off \in Offset(data)
  BY <1>12 DEF Honest
<1>14. PICK oc : oc = ReadCount(data, ia.off)
  OBVIOUS
<1>15. oc.val \in Count /\ Honest(data, ia.off, oc, PutCount(oc.val))
  BY <1>13, <1>14, ReadCountIs
<1>16. oc.off \in Offset(data)
  BY <1>15 DEF Honest
<1>17. PICK oa : oa = ReadParameters(data, oc.off)
  OBVIOUS
<1>18. oa.val \in FitParameters /\ Honest(data, oc.off, oa, PutParameters(oa.val))
  BY <1>16, <1>17, ParametersAre
<1>19. oa.off \in Offset(data)
  BY <1>18 DEF Honest
<1>20. PICK format : format = ReadWord(data, oa.off)
  OBVIOUS
<1>21. format.val \in Word /\ Honest(data, oa.off, format, <<format.val>>)
  BY <1>19, <1>20, ReadWordIs
<1>22. format.off \in Offset(data) /\ format.ok \in BOOLEAN
  BY <1>21 DEF Honest
<1>23. ReadMethod(data, o) =
         [ok |-> ref.ok /\ format.ok,
          val |-> [ref |-> ref.val, exec |-> exec.val, inputCount |-> ic.val,
                   inputArgs |-> ia.val, outputCount |-> oc.val, outputArgs |-> oa.val,
                   format |-> format.val],
          off |-> format.off]
  BY <1>1, <1>5, <1>8, <1>11, <1>14, <1>17, <1>20 DEF ReadMethod
<1>24. PICK r : r = ReadMethod(data, o)
  OBVIOUS
<1>25. r.off = format.off /\ r.ok = (ref.ok /\ format.ok)
       /\ r.val = [ref |-> ref.val, exec |-> exec.val, inputCount |-> ic.val,
                   inputArgs |-> ia.val, outputCount |-> oc.val, outputArgs |-> oa.val,
                   format |-> format.val]
  BY <1>23, <1>24
<1>26. ASSUME r.ok
       PROVE  \E m \in FitMethod : /\ At(data, o, PutMethod(m))
                                   /\ r.off = o + Len(PutMethod(m))
                                   /\ r.val = RefinedMethod(m)
  <2>1. ref.ok /\ format.ok
    BY <1>25, <1>26
  <2>2. PICK m : m = [ref |-> raw.val, exec |-> exec.val, inputCount |-> ic.val,
                      inputArgs |-> ia.val, outputCount |-> oc.val, outputArgs |-> oa.val,
                      format |-> format.val]
    OBVIOUS
  <2>3. m \in FitMethod
    BY <1>3, <1>6, <1>9, <1>12, <1>15, <1>18, <1>21, <2>1, <2>2 DEF FitMethod
  <2>4. /\ m.ref = raw.val /\ m.exec = exec.val /\ m.inputCount = ic.val /\ m.inputArgs = ia.val
        /\ m.outputCount = oc.val /\ m.outputArgs = oa.val /\ m.format = format.val
    BY <2>2
  <2>5. Honest(data, o, exec, Put2(m))
    <3>1. Honest(data, o, raw, PutString(m.ref)) /\ Honest(data, raw.off, exec, <<m.exec>>)
      BY <1>3, <1>6, <2>4
    <3>2. PutString(m.ref) \in Str /\ <<m.exec>> \in Str /\ Len(<<m.exec>>) > 0
      <4>1. PutString(m.ref) \in Str /\ <<m.exec>> \in Str /\ Len(<<m.exec>>) = 1
        BY <2>3, PutMethodOf
      <4> QED
        BY <4>1
    <3> QED
      BY <3>1, <3>2, HonestConcat DEF Put2
  <2>6. Honest(data, o, ic, Put3(m))
    <3>1. Honest(data, exec.off, ic, PutCount(m.inputCount))
      BY <1>9, <2>4
    <3>2. Put2(m) \in Str /\ PutCount(m.inputCount) \in Str /\ Len(PutCount(m.inputCount)) > 0
      <4>1. Put2(m) \in Str /\ PutCount(m.inputCount) \in Str /\ Len(PutCount(m.inputCount)) = 1
        BY <2>3, PutMethodOf
      <4> QED
        BY <4>1
    <3> QED
      BY <2>5, <3>1, <3>2, HonestConcat DEF Put3
  <2>7. Honest(data, o, ia, Put4(m))
    <3>1. Honest(data, ic.off, ia, PutParameters(m.inputArgs))
      BY <1>12, <2>4
    <3>2. Put3(m) \in Str /\ PutParameters(m.inputArgs) \in Str /\ Len(PutParameters(m.inputArgs)) > 0
      BY <2>3, PutMethodOf
    <3> QED
      BY <2>6, <3>1, <3>2, HonestConcat DEF Put4
  <2>8. Honest(data, o, oc, Put5(m))
    <3>1. Honest(data, ia.off, oc, PutCount(m.outputCount))
      BY <1>15, <2>4
    <3>2. Put4(m) \in Str /\ PutCount(m.outputCount) \in Str /\ Len(PutCount(m.outputCount)) > 0
      <4>1. Put4(m) \in Str /\ PutCount(m.outputCount) \in Str /\ Len(PutCount(m.outputCount)) = 1
        BY <2>3, PutMethodOf
      <4> QED
        BY <4>1
    <3> QED
      BY <2>7, <3>1, <3>2, HonestConcat DEF Put5
  <2>9. Honest(data, o, oa, Put6(m))
    <3>1. Honest(data, oc.off, oa, PutParameters(m.outputArgs))
      BY <1>18, <2>4
    <3>2. Put5(m) \in Str /\ PutParameters(m.outputArgs) \in Str /\ Len(PutParameters(m.outputArgs)) > 0
      BY <2>3, PutMethodOf
    <3> QED
      BY <2>8, <3>1, <3>2, HonestConcat DEF Put6
  <2>10. Honest(data, o, format, PutMethod(m))
    <3>1. Honest(data, oa.off, format, <<m.format>>)
      BY <1>21, <2>4
    <3>2. Put6(m) \in Str /\ <<m.format>> \in Str /\ Len(<<m.format>>) > 0
      <4>1. Put6(m) \in Str /\ <<m.format>> \in Str /\ Len(<<m.format>>) = 1
        BY <2>3, PutMethodOf
      <4> QED
        BY <4>1
    <3>3. Honest(data, o, format, Put6(m) \o <<m.format>>)
      BY <2>9, <3>1, <3>2, HonestConcat
    <3>4. PutMethod(m) = Put6(m) \o <<m.format>>
      BY <2>3, PutMethodOf
    <3> QED
      BY <3>3, <3>4
  <2>11. At(data, o, PutMethod(m)) /\ r.off = o + Len(PutMethod(m))
    BY <1>25, <2>1, <2>10 DEF Honest
  <2>12. r.val = RefinedMethod(m)
    <3>1. RefinedMethod(m) = [[ref |-> raw.val, exec |-> exec.val, inputCount |-> ic.val,
                     inputArgs |-> ia.val, outputCount |-> oc.val, outputArgs |-> oa.val,
                     format |-> format.val] EXCEPT !.ref = ref.val]
      BY <1>3, <2>1, <2>2, <2>4, Zenon DEF RefinedMethod
    <3>2. RefinedMethod(m) = [ref |-> ref.val, exec |-> exec.val, inputCount |-> ic.val,
                     inputArgs |-> ia.val, outputCount |-> oc.val, outputArgs |-> oa.val,
                     format |-> format.val]
      BY <3>1
    <3> QED
      BY <1>25, <3>2, Zenon
  <2> QED
    BY <2>3, <2>11, <2>12
<1>27. r.off \in Offset(data) /\ r.ok \in BOOLEAN
  BY <1>3, <1>22, <1>25
<1> QED
  BY <1>24, <1>26, <1>27, Zenon

\* What is written of a relation.
LEMMA PutRelationOf ==
  ASSUME NEW x \in FitRelation
  PROVE  /\ x.name \in Str /\ Short(x.name) /\ x.condition \in Str /\ Short(x.condition)
         /\ x = [name |-> x.name, condition |-> x.condition]
         /\ PutString(x.name) \in Str /\ PutString(x.condition) \in Str
         /\ Len(PutString(x.condition)) > 0 /\ Len(PutString(x.name)) \in Nat
         /\ PutRelation(x) \in Str /\ Len(PutRelation(x)) > 0
         /\ Len(PutRelation(x)) = Len(PutString(x.name)) + Len(PutString(x.condition))
<1>1. /\ x.name \in Str /\ Short(x.name) /\ x.condition \in Str /\ Short(x.condition)
      /\ x = [name |-> x.name, condition |-> x.condition]
  BY DEF FitRelation, FitStr
<1>2. PICK s \in Str : s = PutString(x.name)
  BY <1>1, PutStringOf
<1>3. PICK u \in Str : u = PutString(x.condition) /\ Len(u) = Len(x.condition) + 1
  BY <1>1, PutStringOf
<1>4. Len(s) \in Nat /\ Len(x.condition) \in Nat
  BY <1>1, StrFacts
<1>5. s \o u \in Str /\ Len(s \o u) = Len(s) + Len(u)
  BY StrOf
<1>6. Len(u) > 0 /\ Len(s \o u) > 0
  BY <1>3, <1>4, <1>5
<1>7. PutRelation(x) = s \o u
  BY <1>2, <1>3 DEF PutRelation
<1> QED
  BY <1>1, <1>2, <1>3, <1>4, <1>5, <1>6, <1>7

\* A relation that stands at an offset is read there.
LEMMA ReadRelationAt ==
  ASSUME NEW data \in Str, NEW o, NEW x \in FitRelation, At(data, o, PutRelation(x))
  PROVE  ReadRelation(data, o) = Found(PutRelation(x), x, o)
<1>1. At(data, o, PutString(x.name)) /\ At(data, o + Len(PutString(x.name)), PutString(x.condition))
  BY PutRelationOf, AtConcat DEF PutRelation
<1>2. PICK n : n = ReadString(data, o)
  OBVIOUS
<1>3. n.val = x.name /\ n.off = o + Len(PutString(x.name))
  <2>1. n = Found(PutString(x.name), x.name, o)
    BY <1>1, <1>2, PutRelationOf, ReadStringAt
  <2> QED
    BY <2>1 DEF Found
<1>4. PICK c : c = ReadString(data, n.off)
  OBVIOUS
<1>5. c.ok = TRUE /\ c.val = x.condition /\ c.off = n.off + Len(PutString(x.condition))
  <2>1. c = Found(PutString(x.condition), x.condition, n.off)
    BY <1>1, <1>3, <1>4, PutRelationOf, ReadStringAt
  <2> QED
    BY <2>1 DEF Found
<1>6. ReadRelation(data, o) = [ok |-> c.ok, val |-> [name |-> n.val, condition |-> c.val], off |-> c.off]
  BY <1>2, <1>4 DEF ReadRelation
<1>7. c.off = o + Len(PutRelation(x))
  <2>1. o \in Nat /\ Len(PutString(x.name)) \in Nat /\ Len(PutString(x.condition)) \in Nat
    BY <1>1, PutRelationOf, StrFacts DEF At
  <2>2. Len(PutRelation(x)) = Len(PutString(x.name)) + Len(PutString(x.condition))
    BY PutRelationOf
  <2> QED
    BY <1>3, <1>5, <2>1, <2>2
<1>8. [name |-> n.val, condition |-> c.val] = x
  BY <1>3, <1>5, PutRelationOf
<1> QED
  BY <1>5, <1>6, <1>7, <1>8 DEF Found

\* A relation that is read stands there.
LEMMA ReadRelationIs ==
  ASSUME NEW data \in Str, NEW o \in Offset(data)
  PROVE  LET r == ReadRelation(data, o)
         IN r.val \in FitRelation /\ Honest(data, o, r, PutRelation(r.val))
<1>1. PICK n : n = ReadString(data, o)
  OBVIOUS
<1>2. n.val \in FitStr /\ Honest(data, o, n, PutString(n.val))
  BY <1>1, StringIsFit
<1>3. n.off \in Offset(data)
  BY <1>2 DEF Honest
<1>4. PICK c : c = ReadString(data, n.off)
  OBVIOUS
<1>5. c.val \in FitStr /\ Honest(data, n.off, c, PutString(c.val))
  BY <1>3, <1>4, StringIsFit
<1>6. PICK x \in FitRelation : x = [name |-> n.val, condition |-> c.val]
  BY <1>2, <1>5 DEF FitRelation
<1>7. x.name = n.val /\ x.condition = c.val
  BY <1>6
<1>8. Honest(data, o, c, PutRelation(x))
  BY <1>2, <1>5, <1>7, PutRelationOf, HonestConcat DEF PutRelation
<1>9. ReadRelation(data, o) = [ok |-> c.ok, val |-> x, off |-> c.off]
  BY <1>1, <1>4, <1>6 DEF ReadRelation
<1>10. PICK r : r = ReadRelation(data, o)
  OBVIOUS
<1>11. r.ok = c.ok /\ r.val = x /\ r.off = c.off
  BY <1>9, <1>10
<1>12. Honest(data, o, r, PutRelation(r.val))
  BY <1>8, <1>11 DEF Honest
<1> QED
  BY <1>10, <1>11, <1>12, Zenon

-----------------------------------------------------------------------------
(* Elements of lists, whichever the list                                    *)

\* The elements of a list that are written whole, what is written of them, and what of
\* them is kept by a decoder.
FitOf(l) == CASE l = "services" -> FitRef
              [] l = "methods" -> FitMethod
              [] l = "relations" -> FitRelation

PutOf(l) == CASE l = "services" -> [s \in FitRef |-> PutString(s)]
              [] l = "methods" -> [m \in FitMethod |-> PutMethod(m)]
              [] l = "relations" -> [x \in FitRelation |-> PutRelation(x)]

Refined(l, x) == CASE l = "services" -> RefOf[x]
                   [] l = "methods" -> RefinedMethod(x)
                   [] l = "relations" -> x

\* PutOf writes every element, and something of it.
LEMMA PutOfIs ==
  ASSUME NEW l \in List
  PROVE  PutOf(l) \in [FitOf(l) -> Str] /\ \A x \in FitOf(l) : Len(PutOf(l)[x]) > 0
<1>1. CASE l = "services"
  <2>1. \A s \in FitRef : s \in FitStr
    BY DEF FitRef
  <2>2. \A s \in FitRef : PutString(s) \in Str /\ Len(PutString(s)) > 0
    BY <2>1, PutStrIs
  <2>3. FitOf(l) = FitRef /\ PutOf(l) = [s \in FitRef |-> PutString(s)]
    BY <1>1 DEF FitOf, PutOf
  <2> QED
    BY <2>2, <2>3
<1>2. CASE l = "methods"
  <2>1. \A m \in FitMethod : PutMethod(m) \in Str /\ Len(PutMethod(m)) > 0
    <3> SUFFICES ASSUME NEW m \in FitMethod PROVE PutMethod(m) \in Str /\ Len(PutMethod(m)) > 0
      OBVIOUS
    <3>1. PutMethod(m) \in Str /\ Len(PutMethod(m)) = Len(Put6(m)) + 1 /\ Len(Put6(m)) \in Nat
      BY PutMethodOf, StrFacts
    <3> QED
      BY <3>1
  <2>2. FitOf(l) = FitMethod /\ PutOf(l) = [m \in FitMethod |-> PutMethod(m)]
    BY <1>2 DEF FitOf, PutOf
  <2> QED
    BY <2>1, <2>2
<1>3. CASE l = "relations"
  <2>1. \A x \in FitRelation : PutRelation(x) \in Str /\ Len(PutRelation(x)) > 0
    BY PutRelationOf
  <2>2. FitOf(l) = FitRelation /\ PutOf(l) = [x \in FitRelation |-> PutRelation(x)]
    BY <1>3 DEF FitOf, PutOf
  <2> QED
    BY <2>1, <2>2
<1> QED
  BY <1>1, <1>2, <1>3 DEF List

\* An element that stands at an offset is read there.
LEMMA ElementAt ==
  ASSUME NEW data \in Str, NEW o, NEW l \in List, NEW x \in FitOf(l), At(data, o, PutOf(l)[x])
  PROVE  ReadOne(l, data, o) = Found(PutOf(l)[x], Refined(l, x), o)
<1>1. CASE l = "services"
  <2>1. x \in FitRef /\ PutOf(l)[x] = PutString(x) /\ Refined(l, x) = RefOf[x]
        /\ ReadOne(l, data, o) = ReadRef(data, o)
    BY <1>1 DEF FitOf, PutOf, Refined, ReadOne
  <2> QED
    BY <2>1, ReadRefAt
<1>2. CASE l = "methods"
  <2>1. x \in FitMethod /\ PutOf(l)[x] = PutMethod(x) /\ Refined(l, x) = RefinedMethod(x)
        /\ ReadOne(l, data, o) = ReadMethod(data, o)
    BY <1>2 DEF FitOf, PutOf, Refined, ReadOne
  <2> QED
    BY <2>1, ReadMethodAt
<1>3. CASE l = "relations"
  <2>1. x \in FitRelation /\ PutOf(l)[x] = PutRelation(x) /\ Refined(l, x) = x
        /\ ReadOne(l, data, o) = ReadRelation(data, o)
    BY <1>3 DEF FitOf, PutOf, Refined, ReadOne
  <2> QED
    BY <2>1, ReadRelationAt
<1> QED
  BY <1>1, <1>2, <1>3 DEF List

\* An element that is read stands there, its reference spelled in some way.
LEMMA ElementIs ==
  ASSUME NEW data \in Str, NEW o \in Offset(data), NEW l \in List, ReadOne(l, data, o).ok
  PROVE  \E x \in FitOf(l) : At(data, o, PutOf(l)[x])
<1>1. CASE l = "services"
  <2>1. ReadOne(l, data, o) = ReadRef(data, o)
    BY <1>1 DEF ReadOne
  <2>2. PICK raw : raw = ReadString(data, o)
    OBVIOUS
  <2>3. raw.val \in FitRef /\ raw.ok /\ Honest(data, o, raw, PutString(raw.val))
    BY <2>1, <2>2, ReadRefIs
  <2>4. At(data, o, PutString(raw.val))
    BY <2>3 DEF Honest
  <2>5. PutOf(l)[raw.val] = PutString(raw.val) /\ raw.val \in FitOf(l)
    BY <1>1, <2>3 DEF FitOf, PutOf
  <2> QED
    BY <2>4, <2>5
<1>2. CASE l = "methods"
  <2>1. ReadOne(l, data, o) = ReadMethod(data, o)
    BY <1>2 DEF ReadOne
  <2>2. PICK m \in FitMethod : At(data, o, PutMethod(m))
    BY <2>1, ReadMethodIs
  <2>3. PutOf(l)[m] = PutMethod(m) /\ m \in FitOf(l)
    BY <1>2 DEF FitOf, PutOf
  <2> QED
    BY <2>2, <2>3
<1>3. CASE l = "relations"
  <2>1. PICK r : r = ReadRelation(data, o)
    OBVIOUS
  <2>2. ReadOne(l, data, o) = r
    BY <1>3, <2>1 DEF ReadOne
  <2>3. r.val \in FitRelation /\ Honest(data, o, r, PutRelation(r.val)) /\ r.ok
    BY <2>1, <2>2, ReadRelationIs
  <2>4. At(data, o, PutRelation(r.val))
    BY <2>3 DEF Honest
  <2>5. PutOf(l)[r.val] = PutRelation(r.val) /\ r.val \in FitOf(l)
    BY <1>3, <2>3 DEF FitOf, PutOf
  <2> QED
    BY <2>4, <2>5
<1> QED
  BY <1>1, <1>2, <1>3 DEF List

-----------------------------------------------------------------------------
(* What is written up to a piece                                            *)

First(written, k) == [i \in 1 .. k |-> written[i]]
Upto(written, k) == FlattenSeq(First(written, k))

\* The first pieces are pieces.
LEMMA FirstIs ==
  ASSUME NEW written \in Seq(Str)
  PROVE  /\ Len(written) \in Nat /\ \A i \in 1 .. Len(written) : written[i] \in Str
         /\ First(written, Len(written)) = written
         /\ \A k \in 0 .. Len(written) :
              First(written, k) \in Seq(Str) /\ Len(First(written, k)) = k
         /\ \A k \in 0 .. (Len(written) - 1) :
              First(written, k + 1) = Append(First(written, k), written[k + 1])
<1>1. PICK n \in Nat : n = Len(written) /\ DOMAIN written = 1 .. n
                       /\ \A i \in 1 .. n : written[i] \in Str
  BY LenProperties, ElementOfSeq
<1>2. First(written, n) = written
  BY <1>1 DEF First
<1>3. ASSUME NEW k \in 0 .. n
      PROVE  First(written, k) \in Seq(Str) /\ Len(First(written, k)) = k
  <2>1. k \in Nat /\ \A i \in 1 .. k : written[i] \in Str
    BY <1>1
  <2> QED
    BY <2>1 DEF First
<1>4. ASSUME NEW k \in 0 .. (n - 1)
      PROVE  First(written, k + 1) = Append(First(written, k), written[k + 1])
  <2>1. PICK s \in Seq(Str) : s = First(written, k) /\ Len(s) = k
    BY <1>3
  <2>2. k + 1 \in 0 .. n
    BY <1>1
  <2>3. PICK u \in Seq(Str) : u = First(written, k + 1) /\ Len(u) = k + 1
    BY <1>3, <2>2
  <2>4. PICK w \in Str : w = written[k + 1]
    BY <1>1
  <2>5. Append(s, w) \in Seq(Str) /\ Len(Append(s, w)) = k + 1
    BY <2>1
  <2>6. \A i \in 1 .. (k + 1) : u[i] = Append(s, w)[i]
    BY <2>1, <2>3, <2>4 DEF First
  <2>7. u = Append(s, w)
    BY <2>3, <2>5, <2>6, SeqEqual
  <2> QED
    BY <2>1, <2>3, <2>4, <2>7
<1> QED
  BY <1>1, <1>2, <1>3, <1>4

\* It is written piece after piece.
LEMMA UptoIs ==
  ASSUME NEW written \in Seq(Str)
  PROVE  /\ Upto(written, 0) = <<>> /\ Upto(written, Len(written)) = FlattenSeq(written)
         /\ \A k \in 0 .. Len(written) : Upto(written, k) \in Str
         /\ \A k \in 0 .. (Len(written) - 1) :
              Upto(written, k + 1) = Upto(written, k) \o written[k + 1]
<1>1. PICK n \in Nat : n = Len(written)
  BY FirstIs
<1>2. Upto(written, 0) = <<>>
  <2>1. PICK s \in Seq(Str) : s = First(written, 0) /\ Len(s) = 0
    BY FirstIs
  <2>2. PICK f \in [0 .. Len(s) -> Str] : f[0] = <<>> /\ f[Len(s)] = FlattenSeq(s)
    BY FlattenIs
  <2> QED
    BY <2>1, <2>2 DEF Upto
<1>3. \A k \in 0 .. n : Upto(written, k) \in Str
  <2> SUFFICES ASSUME NEW k \in 0 .. n PROVE Upto(written, k) \in Str
    OBVIOUS
  <2>1. PICK s \in Seq(Str) : s = First(written, k)
    BY <1>1, FirstIs
  <2>2. FlattenSeq(s) \in Str
    BY StrOf, FlattenAppend
  <2> QED
    BY <2>1, <2>2 DEF Upto
<1>4. \A k \in 0 .. (n - 1) : Upto(written, k + 1) = Upto(written, k) \o written[k + 1]
  <2> SUFFICES ASSUME NEW k \in 0 .. (n - 1)
               PROVE  Upto(written, k + 1) = Upto(written, k) \o written[k + 1]
    OBVIOUS
  <2>1. k \in 0 .. n /\ k + 1 \in 1 .. n
    BY <1>1
  <2>2. PICK s \in Seq(Str) : s = First(written, k)
    BY <1>1, <2>1, FirstIs
  <2>3. PICK w \in Str : w = written[k + 1]
    BY <1>1, <2>1, FirstIs
  <2>4. First(written, k + 1) = Append(s, w)
    BY <1>1, <2>2, <2>3, FirstIs
  <2>5. FlattenSeq(Append(s, w)) = FlattenSeq(s) \o w
    BY FlattenAppend
  <2> QED
    BY <2>2, <2>3, <2>4, <2>5 DEF Upto
<1>5. Upto(written, n) = FlattenSeq(written)
  BY <1>1, FirstIs DEF Upto
<1> QED
  BY <1>1, <1>2, <1>3, <1>4, <1>5

\* Of pieces that stand one after the other each stands after those before it.
LEMMA UptoAt ==
  ASSUME NEW data \in Str, NEW o, NEW written \in Seq(Str), At(data, o, FlattenSeq(written)),
         NEW k \in 0 .. Len(written)
  PROVE  /\ At(data, o, Upto(written, k))
         /\ k < Len(written) => At(data, o + Len(Upto(written, k)), written[k + 1])
<1>1. PICK n \in Nat : n = Len(written) /\ DOMAIN written = 1 .. n
                       /\ \A i \in 1 .. n : written[i] \in Str
  BY LenProperties, ElementOfSeq
<1> DEFINE S == {j \in 0 .. n : At(data, o, Upto(written, n - j))}
<1>2. ASSUME NEW j \in 0 .. (n - 1), At(data, o, Upto(written, j + 1))
      PROVE  At(data, o, Upto(written, j)) /\ At(data, o + Len(Upto(written, j)), written[j + 1])
  <2>1. written[j + 1] \in Str /\ Upto(written, j) \in Str
        /\ Upto(written, j + 1) = Upto(written, j) \o written[j + 1]
    <3>1. j \in 0 .. n /\ j + 1 \in 1 .. n
      BY <1>1
    <3>2. \A i \in 0 .. n : Upto(written, i) \in Str
      BY <1>1, UptoIs
    <3>3. \A i \in 0 .. (n - 1) : Upto(written, i + 1) = Upto(written, i) \o written[i + 1]
      BY <1>1, UptoIs
    <3> QED
      BY <1>1, <3>1, <3>2, <3>3
  <2>2. At(data, o, Upto(written, j) \o written[j + 1])
    BY <1>2, <2>1
  <2> QED
    BY <2>1, <2>2, AtConcat
<1>3. 0 \in S
  BY <1>1, UptoIs
<1>4. \A j \in Nat : j \in S /\ j < n => j + 1 \in S
  <2> SUFFICES ASSUME NEW j \in Nat, j \in S, j < n PROVE j + 1 \in S
    OBVIOUS
  <2>1. PICK i \in 0 .. (n - 1) : i = n - (j + 1) /\ i + 1 = n - j
    OBVIOUS
  <2>2. At(data, o, Upto(written, i + 1))
    BY <2>1
  <2>3. At(data, o, Upto(written, i))
    BY <1>2, <2>2
  <2> QED
    BY <2>1, <2>3
<1> HIDE DEF S
<1>5. \A j \in 0 .. n : j \in S
  BY <1>3, <1>4, BoundedInduction
<1>6. \A j \in 0 .. n : At(data, o, Upto(written, j))
  <2> SUFFICES ASSUME NEW j \in 0 .. n PROVE At(data, o, Upto(written, j))
    OBVIOUS
  <2>1. n - j \in S /\ n - (n - j) = j
    BY <1>5
  <2> QED
    BY <2>1 DEF S
<1>7. k < n => At(data, o + Len(Upto(written, k)), written[k + 1])
  <2> SUFFICES ASSUME k < n PROVE At(data, o + Len(Upto(written, k)), written[k + 1])
    OBVIOUS
  <2>1. k \in 0 .. (n - 1) /\ k + 1 \in 0 .. n
    BY <1>1
  <2> QED
    BY <1>2, <1>6, <2>1
<1> QED
  BY <1>1, <1>6, <1>7

-----------------------------------------------------------------------------
(* Documents, piece by piece                                                *)

FitLists(l) == {list \in Seq(FitOf(l)) : Short(list)}

\* The documents whose lengths are written whole, and whose counts are not refused.
FitDocument ==
  [text : [TextField -> FitStr], tags : FitStrs, services : FitLists("services"),
   methods : FitLists("methods"), relations : FitLists("relations")]

Written(f, e) ==
  CASE f \in TextField -> PutString(e.text[f])
    [] f = "tags" -> PutStrings(e.tags)
    [] f = "no metadata" -> <<>>
    [] f \in List -> PutAll(e[f], PutOf(f))

Fields(v) == IF v = 1 THEN 7 ELSE 10

Pieces(v, e) ==
  [i \in 1 .. (Fields(v) + 1) |->
     IF i = 1 THEN <<ConfigMagic, v>> ELSE Written(Layout[v][i - 1], e)]

Whole(v, e) == FlattenSeq(Pieces(v, e))

Metadata == {"tags", "description", "displayName", "category"}

\* The places of seven elements.
LEMMA SevenPlaces ==
  ASSUME NEW a, NEW b, NEW c, NEW d, NEW e, NEW f, NEW g
  PROVE  DOMAIN <<a, b, c, d, e, f, g>> = 1 .. 7
OBVIOUS

\* The fields of the two versions, one by one.
LEMMA LayoutOf ==
  /\ Len(Layout[1]) = 7 /\ DOMAIN Layout[1] = 1 .. 7
  /\ Layout[1][1] = "name"
  /\ Layout[1][2] = "relationsName"
  /\ Layout[1][3] = "no metadata"
  /\ Layout[1][4] = "route"
  /\ Layout[1][5] = "services"
  /\ Layout[1][6] = "methods"
  /\ Layout[1][7] = "relations"
  /\ Len(Layout[2]) = 10 /\ DOMAIN Layout[2] = 1 .. 10
  /\ Layout[2][1] = "name"
  /\ Layout[2][2] = "relationsName"
  /\ Layout[2][3] = "description"
  /\ Layout[2][4] = "displayName"
  /\ Layout[2][5] = "category"
  /\ Layout[2][6] = "tags"
  /\ Layout[2][7] = "route"
  /\ Layout[2][8] = "services"
  /\ Layout[2][9] = "methods"
  /\ Layout[2][10] = "relations"
<1>1. /\ Len(Layout[1]) = 7 /\ DOMAIN Layout[1] = 1 .. 7
      /\ Layout[1][1] = "name"
      /\ Layout[1][2] = "relationsName"
      /\ Layout[1][3] = "no metadata"
      /\ Layout[1][4] = "route"
      /\ Layout[1][5] = "services"
      /\ Layout[1][6] = "methods"
      /\ Layout[1][7] = "relations"
  <2>1. Layout[1] = <<"name", "relationsName", "no metadata", "route", "services",
                      "methods", "relations">>
    BY DEF Layout
  <2>2. PICK t : t = Layout[1]
    OBVIOUS
  <2>3. t = <<"name", "relationsName", "no metadata", "route", "services",
              "methods", "relations">>
    BY <2>1, <2>2
  <2>4. Len(t) = 7 /\ DOMAIN t = 1 .. 7
    <3>1. Len(t) = 7
      BY <2>3
    <3>2. DOMAIN t = 1 .. 7
      BY <2>3, SevenPlaces
    <3> QED
      BY <3>1, <3>2
  <2>5. t[1] = "name"
    BY <2>3
  <2>6. t[2] = "relationsName"
    BY <2>3
  <2>7. t[3] = "no metadata"
    BY <2>3
  <2>8. t[4] = "route"
    BY <2>3
  <2>9. t[5] = "services"
    BY <2>3
  <2>10. t[6] = "methods"
    BY <2>3
  <2>11. t[7] = "relations"
    BY <2>3
  <2> QED
    BY <2>2, <2>4, <2>5, <2>6, <2>7, <2>8, <2>9, <2>10, <2>11, Zenon
<1>2. /\ Len(Layout[2]) = 10 /\ DOMAIN Layout[2] = 1 .. 10
      /\ Layout[2][1] = "name"
      /\ Layout[2][2] = "relationsName"
      /\ Layout[2][3] = "description"
      /\ Layout[2][4] = "displayName"
      /\ Layout[2][5] = "category"
      /\ Layout[2][6] = "tags"
      /\ Layout[2][7] = "route"
      /\ Layout[2][8] = "services"
      /\ Layout[2][9] = "methods"
      /\ Layout[2][10] = "relations"
  <2>1. Layout[2] = <<"name", "relationsName", "description", "displayName", "category",
                      "tags", "route", "services", "methods", "relations">>
    BY DEF Layout
  <2>2. PICK t : t = Layout[2]
    OBVIOUS
  <2>3. t = <<"name", "relationsName", "description", "displayName", "category",
              "tags", "route", "services", "methods", "relations">>
    BY <2>1, <2>2
  <2>4. Len(t) = 10 /\ DOMAIN t = 1 .. 10
    BY <2>3
  <2>5. t[1] = "name"
    BY <2>3
  <2>6. t[2] = "relationsName"
    BY <2>3
  <2>7. t[3] = "description"
    BY <2>3
  <2>8. t[4] = "displayName"
    BY <2>3
  <2>9. t[5] = "category"
    BY <2>3
  <2>10. t[6] = "tags"
    BY <2>3
  <2>11. t[7] = "route"
    BY <2>3
  <2>12. t[8] = "services"
    BY <2>3
  <2>13. t[9] = "methods"
    BY <2>3
  <2>14. t[10] = "relations"
    BY <2>3
  <2> QED
    BY <2>2, <2>4, <2>5, <2>6, <2>7, <2>8, <2>9, <2>10, <2>11, <2>12, <2>13, <2>14, Zenon
<1> QED
  BY <1>1, <1>2

\* A field has one place in a layout, and the layout that has no metadata has none.
LEMMA LayoutIs ==
  ASSUME NEW v \in {1, 2}
  PROVE  /\ Len(Layout[v]) = Fields(v) /\ DOMAIN Layout[v] = 1 .. Fields(v)
         /\ \A i \in 1 .. Fields(v) : Layout[v][i] \in TextField \cup List \cup {"tags", "no metadata"}
         /\ \A i, j \in 1 .. Fields(v) : Layout[v][i] = Layout[v][j] => i = j
         /\ \A i, j \in 1 .. Fields(v) : Layout[v][i] = "no metadata" => Layout[v][j] \notin Metadata
<1>1. CASE v = 1
  <2>1. \A i \in 1 .. 7 : i = 1 \/ i = 2 \/ i = 3 \/ i = 4 \/ i = 5 \/ i = 6 \/ i = 7
    OBVIOUS
  <2>2. Fields(v) = 7 /\ Len(Layout[v]) = 7 /\ DOMAIN Layout[v] = 1 .. 7
    BY <1>1, LayoutOf DEF Fields
  <2>3. \A i \in 1 .. 7 : Layout[v][i] \in TextField \cup List \cup {"tags", "no metadata"}
    BY <1>1, <2>1, LayoutOf DEF TextField, List
  <2>4. \A i, j \in 1 .. 7 : Layout[v][i] = Layout[v][j] => i = j
    <3> SUFFICES ASSUME NEW i \in 1 .. 7, NEW j \in 1 .. 7, Layout[v][i] = Layout[v][j] PROVE i = j
      OBVIOUS
    <3>1. j = 1 \/ j = 2 \/ j = 3 \/ j = 4 \/ j = 5 \/ j = 6 \/ j = 7
      BY <2>1
    <3>2. CASE i = 1
      BY <1>1, <3>1, <3>2, LayoutOf
    <3>3. CASE i = 2
      BY <1>1, <3>1, <3>3, LayoutOf
    <3>4. CASE i = 3
      BY <1>1, <3>1, <3>4, LayoutOf
    <3>5. CASE i = 4
      BY <1>1, <3>1, <3>5, LayoutOf
    <3>6. CASE i = 5
      BY <1>1, <3>1, <3>6, LayoutOf
    <3>7. CASE i = 6
      BY <1>1, <3>1, <3>7, LayoutOf
    <3>8. CASE i = 7
      BY <1>1, <3>1, <3>8, LayoutOf
    <3> QED
      BY <2>1, <3>2, <3>3, <3>4, <3>5, <3>6, <3>7, <3>8
  <2>5. \A i, j \in 1 .. 7 : Layout[v][i] = "no metadata" => Layout[v][j] \notin Metadata
    BY <1>1, <2>1, LayoutOf DEF Metadata
  <2> QED
    BY <2>2, <2>3, <2>4, <2>5
<1>2. CASE v = 2
  <2>1. \A i \in 1 .. 10 : i = 1 \/ i = 2 \/ i = 3 \/ i = 4 \/ i = 5 \/ i = 6 \/ i = 7 \/ i = 8 \/ i = 9 \/ i = 10
    OBVIOUS
  <2>2. Fields(v) = 10 /\ Len(Layout[v]) = 10 /\ DOMAIN Layout[v] = 1 .. 10
    BY <1>2, LayoutOf DEF Fields
  <2>3. \A i \in 1 .. 10 : Layout[v][i] \in TextField \cup List \cup {"tags", "no metadata"}
    BY <1>2, <2>1, LayoutOf DEF TextField, List
  <2>4. \A i, j \in 1 .. 10 : Layout[v][i] = Layout[v][j] => i = j
    <3> SUFFICES ASSUME NEW i \in 1 .. 10, NEW j \in 1 .. 10, Layout[v][i] = Layout[v][j] PROVE i = j
      OBVIOUS
    <3>1. j = 1 \/ j = 2 \/ j = 3 \/ j = 4 \/ j = 5 \/ j = 6 \/ j = 7 \/ j = 8 \/ j = 9 \/ j = 10
      BY <2>1
    <3>2. CASE i = 1
      BY <1>2, <3>1, <3>2, LayoutOf
    <3>3. CASE i = 2
      BY <1>2, <3>1, <3>3, LayoutOf
    <3>4. CASE i = 3
      BY <1>2, <3>1, <3>4, LayoutOf
    <3>5. CASE i = 4
      BY <1>2, <3>1, <3>5, LayoutOf
    <3>6. CASE i = 5
      BY <1>2, <3>1, <3>6, LayoutOf
    <3>7. CASE i = 6
      BY <1>2, <3>1, <3>7, LayoutOf
    <3>8. CASE i = 7
      BY <1>2, <3>1, <3>8, LayoutOf
    <3>9. CASE i = 8
      BY <1>2, <3>1, <3>9, LayoutOf
    <3>10. CASE i = 9
      BY <1>2, <3>1, <3>10, LayoutOf
    <3>11. CASE i = 10
      BY <1>2, <3>1, <3>11, LayoutOf
    <3> QED
      BY <2>1, <3>2, <3>3, <3>4, <3>5, <3>6, <3>7, <3>8, <3>9, <3>10, <3>11
  <2>5. \A i, j \in 1 .. 10 : Layout[v][i] = "no metadata" => Layout[v][j] \notin Metadata
    BY <1>2, <2>1, LayoutOf DEF Metadata
  <2> QED
    BY <2>2, <2>3, <2>4, <2>5
<1> QED
  BY <1>1, <1>2

\* What is written of every field.
LEMMA WrittenOf ==
  ASSUME NEW e
  PROVE  /\ \A f \in TextField : Written(f, e) = PutString(e.text[f])
         /\ Written("tags", e) = PutStrings(e.tags) /\ Written("no metadata", e) = <<>>
         /\ \A f \in List : Written(f, e) = PutAll(e[f], PutOf(f))
<1>1. ASSUME NEW f \in TextField PROVE Written(f, e) = PutString(e.text[f])
  <2>1. f # "tags" /\ f # "no metadata" /\ f \notin List
    BY DEF TextField, List
  <2> QED
    BY <2>1 DEF Written
<1>2. ASSUME NEW f \in List PROVE Written(f, e) = PutAll(e[f], PutOf(f))
  <2>1. f # "tags" /\ f # "no metadata" /\ f \notin TextField
    BY DEF TextField, List
  <2> QED
    BY <2>1 DEF Written
<1>3. "tags" \notin TextField /\ "tags" \notin List /\ "tags" # "no metadata"
      /\ "no metadata" \notin TextField /\ "no metadata" \notin List
  BY DEF TextField, List
<1>4. Written("tags", e) = PutStrings(e.tags)
  BY <1>3 DEF Written
<1>5. Written("no metadata", e) = <<>>
  BY <1>3 DEF Written
<1> QED
  BY <1>1, <1>2, <1>4, <1>5

\* Every field is written as a string.
LEMMA WrittenIs ==
  ASSUME NEW e \in FitDocument, NEW f \in TextField \cup List \cup {"tags", "no metadata"}
  PROVE  Written(f, e) \in Str
<1>1. e.text \in [TextField -> FitStr] /\ e.tags \in FitStrs
  BY DEF FitDocument
<1>2. CASE f \in TextField
  BY <1>1, <1>2, WrittenOf, PutStringOf DEF FitStr
<1>3. CASE f = "tags"
  BY <1>1, <1>3, WrittenOf, PutStringsIs
<1>4. CASE f = "no metadata"
  BY <1>4, WrittenOf, StrOf
<1>5. CASE f \in List
  <2>1. Written(f, e) = PutAll(e[f], PutOf(f))
    BY <1>5, WrittenOf
  <2>2. e[f] \in Seq(FitOf(f)) /\ Short(e[f])
    BY <1>5 DEF List, FitDocument, FitLists
  <2> QED
    BY <1>5, <2>1, <2>2, PutOfIs, PutAllOf
<1> QED
  BY <1>2, <1>3, <1>4, <1>5

\* The pieces are strings.
LEMMA PiecesAre ==
  ASSUME NEW v \in {1, 2}, NEW e \in FitDocument
  PROVE  /\ Pieces(v, e) \in Seq(Str) /\ Len(Pieces(v, e)) = Fields(v) + 1 /\ Fields(v) \in Nat
         /\ <<ConfigMagic, v>> \in Str /\ Len(<<ConfigMagic, v>>) = 2
         /\ Pieces(v, e)[1] = <<ConfigMagic, v>>
         /\ \A i \in 1 .. Fields(v) : Pieces(v, e)[i + 1] = Written(Layout[v][i], e)
<1>1. <<ConfigMagic, v>> \in Str /\ Len(<<ConfigMagic, v>>) = 2
  BY SmallWords, CodecAssumption, TwoOf
<1>2. PICK n \in Nat : n = Fields(v) /\ n + 1 \in Nat
  BY DEF Fields
<1>3. \A i \in 1 .. n : Written(Layout[v][i], e) \in Str
  BY <1>2, LayoutIs, WrittenIs
<1>4. \A i \in 1 .. (n + 1) : i # 1 => i - 1 \in 1 .. n
  OBVIOUS
<1>5. Pieces(v, e) = [i \in 1 .. (n + 1) |->
                        IF i = 1 THEN <<ConfigMagic, v>> ELSE Written(Layout[v][i - 1], e)]
  BY <1>2 DEF Pieces
<1>6. \A i \in 1 .. (n + 1) : Pieces(v, e)[i] \in Str
  BY <1>1, <1>3, <1>4, <1>5
<1>7. Pieces(v, e) \in Seq(Str) /\ Len(Pieces(v, e)) = n + 1
  BY <1>5, <1>6
<1>8. \A i \in 1 .. n : Pieces(v, e)[i + 1] = Written(Layout[v][i], e)
  <2> SUFFICES ASSUME NEW i \in 1 .. n PROVE Pieces(v, e)[i + 1] = Written(Layout[v][i], e)
    OBVIOUS
  <2>1. i + 1 \in 1 .. (n + 1) /\ i + 1 # 1 /\ (i + 1) - 1 = i
    OBVIOUS
  <2> QED
    BY <1>5, <2>1
<1>9. Pieces(v, e)[1] = <<ConfigMagic, v>>
  BY <1>2, <1>5
<1> QED
  BY <1>1, <1>2, <1>7, <1>8, <1>9

\* The lists of a document, as Encode writes them.
LEMMA ListsAre ==
  ASSUME NEW e \in FitDocument
  PROVE  /\ Written("services", e) = PutStrings(e.services)
         /\ Written("methods", e) = PutMany([i \in DOMAIN e.methods |-> PutMethod(e.methods[i])])
         /\ Written("relations", e) = PutMany([i \in DOMAIN e.relations |-> PutRelation(e.relations[i])])
<1>1. /\ Written("services", e) = PutAll(e.services, PutOf("services"))
      /\ Written("methods", e) = PutAll(e.methods, PutOf("methods"))
      /\ Written("relations", e) = PutAll(e.relations, PutOf("relations"))
  BY WrittenOf DEF List
<1>2. /\ \A i \in DOMAIN e.services : e.services[i] \in FitRef
      /\ \A i \in DOMAIN e.methods : e.methods[i] \in FitMethod
      /\ \A i \in DOMAIN e.relations : e.relations[i] \in FitRelation
  <2>1. e.services \in Seq(FitRef) /\ e.methods \in Seq(FitMethod) /\ e.relations \in Seq(FitRelation)
    BY DEF FitDocument, FitLists, FitOf
  <2> QED
    BY <2>1, LenProperties, ElementOfSeq
<1>3. Mapped(e.services, PutOf("services")) = [i \in DOMAIN e.services |-> PutString(e.services[i])]
  BY <1>2 DEF Mapped, PutOf
<1>4. Mapped(e.methods, PutOf("methods")) = [i \in DOMAIN e.methods |-> PutMethod(e.methods[i])]
  BY <1>2 DEF Mapped, PutOf
<1>5. Mapped(e.relations, PutOf("relations")) = [i \in DOMAIN e.relations |-> PutRelation(e.relations[i])]
  BY <1>2 DEF Mapped, PutOf
<1> QED
  BY <1>1, <1>3, <1>4, <1>5 DEF PutAll, PutStrings

\* Strings are joined in any order.
LEMMA JoinedInAnyOrder ==
  ASSUME NEW s \in Str, NEW t \in Str, NEW u \in Str
  PROVE  (s \o t) \o u = s \o (t \o u)
BY ConcatAssociative DEF Str

\* The pieces of version 2 are what Encode writes, those of version 1 what it wrote then.
LEMMA WholeIs ==
  ASSUME NEW e \in FitDocument
  PROVE  Whole(1, e) = Legacy(e) /\ Whole(2, e) = Encode(e)
<1>1. PICK x \in Str : x = Written("services", e)
  BY WrittenIs DEF List
<1>2. PICK y \in Str : y = Written("methods", e)
  BY WrittenIs DEF List
<1>3. PICK z \in Str : z = Written("relations", e)
  BY WrittenIs DEF List
<1>4. PutLists(e) = (x \o y) \o z
  BY <1>1, <1>2, <1>3, ListsAre DEF PutLists
<1>5. ASSUME NEW s \in Str PROVE ((s \o x) \o y) \o z = s \o PutLists(e)
  <2>1. (s \o x) \o y = s \o (x \o y)
    BY JoinedInAnyOrder
  <2>2. PICK t \in Str : t = x \o y
    BY StrOf
  <2>3. (s \o t) \o z = s \o (t \o z)
    BY JoinedInAnyOrder
  <2> QED
    BY <1>4, <2>1, <2>2, <2>3
<1>6. \A f \in TextField : Written(f, e) = PutString(e.text[f])
  BY WrittenOf
<1>7. Whole(1, e) = Legacy(e)
  <2>1. PICK p \in Seq(Str) : p = Pieces(1, e) /\ Len(p) = 8
    BY PiecesAre DEF Fields
  <2>2. p[1] = <<ConfigMagic, 1>> /\ \A i \in 1 .. 7 : p[i + 1] = Written(Layout[1][i], e)
    BY <2>1, PiecesAre DEF Fields
  <2>3. Upto(p, 1) = <<ConfigMagic, 1>>
    <3>1. Upto(p, 0) = <<>> /\ Upto(p, 1) = Upto(p, 0) \o p[1]
      <4>1. Len(p) - 1 = 7
        BY <2>1
      <4>2. \A k \in 0 .. 7 : Upto(p, k + 1) = Upto(p, k) \o p[k + 1]
        BY <4>1, UptoIs
      <4>3. 0 \in 0 .. 7 /\ 0 + 1 = 1
        OBVIOUS
      <4> QED
        BY <4>2, <4>3, UptoIs
    <3>2. PICK s \in Str : s = <<ConfigMagic, 1>>
      BY PiecesAre
    <3>3. <<>> \o s = s
      BY ConcatEmptySeq DEF Str
    <3> QED
      BY <2>2, <3>1, <3>2, <3>3
  <2>4. \A k \in 1 .. 7 : Upto(p, k) \in Str /\ Upto(p, k + 1) = Upto(p, k) \o Written(Layout[1][k], e)
    <3>1. \A k \in 0 .. 8 : Upto(p, k) \in Str
      BY <2>1, UptoIs
    <3>2. \A k \in 0 .. 7 : Upto(p, k + 1) = Upto(p, k) \o p[k + 1]
      <4>1. Len(p) - 1 = 7
        BY <2>1
      <4> QED
        BY <4>1, UptoIs
    <3> SUFFICES ASSUME NEW k \in 1 .. 7
                 PROVE  Upto(p, k) \in Str /\ Upto(p, k + 1) = Upto(p, k) \o Written(Layout[1][k], e)
      OBVIOUS
    <3>3. k \in 0 .. 7 /\ k \in 0 .. 8
      OBVIOUS
    <3> QED
      BY <2>2, <3>1, <3>2, <3>3
  <2>5. Upto(p, 2) = Upto(p, 1) \o PutString(e.text["name"])
    <3>1. Upto(p, 1 + 1) = Upto(p, 1) \o Written("name", e)
      <4>1. 1 \in 1 .. 7
        OBVIOUS
      <4>2. Layout[1][1] = "name"
        BY LayoutOf, Zenon
      <4> QED
        BY <2>4, <4>1, <4>2
    <3> QED
      BY <1>6, <3>1 DEF TextField
  <2>6. Upto(p, 3) = Upto(p, 2) \o PutString(e.text["relationsName"])
    <3>1. Upto(p, 2 + 1) = Upto(p, 2) \o Written("relationsName", e)
      <4>1. 2 \in 1 .. 7
        OBVIOUS
      <4>2. Layout[1][2] = "relationsName"
        BY LayoutOf, Zenon
      <4> QED
        BY <2>4, <4>1, <4>2
    <3> QED
      BY <1>6, <3>1 DEF TextField
  <2>7. Upto(p, 4) = Upto(p, 3)
    <3>1. Upto(p, 3 + 1) = Upto(p, 3) \o Written("no metadata", e) /\ Upto(p, 3) \in Str
      <4>1. 3 \in 1 .. 7
        OBVIOUS
      <4>2. Layout[1][3] = "no metadata"
        BY LayoutOf, Zenon
      <4> QED
        BY <2>4, <4>1, <4>2
    <3>2. Written("no metadata", e) = <<>>
      BY WrittenOf
    <3>3. PICK s \in Str : s = Upto(p, 3)
      BY <3>1
    <3>4. s \o <<>> = s
      BY ConcatEmptySeq DEF Str
    <3>5. Upto(p, 3 + 1) = s
      BY <3>1, <3>2, <3>3, <3>4, Zenon
    <3>6. 3 + 1 = 4
      OBVIOUS
    <3> QED
      BY <3>3, <3>5, <3>6
  <2>8. Upto(p, 5) = Upto(p, 4) \o PutString(e.text["route"])
    <3>1. Upto(p, 4 + 1) = Upto(p, 4) \o Written("route", e)
      <4>1. 4 \in 1 .. 7
        OBVIOUS
      <4>2. Layout[1][4] = "route"
        BY LayoutOf, Zenon
      <4> QED
        BY <2>4, <4>1, <4>2
    <3> QED
      BY <1>6, <3>1 DEF TextField
  <2>9. Upto(p, 6) = Upto(p, 5) \o x
    <3>1. Upto(p, 5 + 1) = Upto(p, 5) \o Written("services", e)
      <4>1. 5 \in 1 .. 7
        OBVIOUS
      <4>2. Layout[1][5] = "services"
        BY LayoutOf, Zenon
      <4> QED
        BY <2>4, <4>1, <4>2
    <3> QED
      BY <1>1, <3>1 
  <2>10. Upto(p, 7) = Upto(p, 6) \o y
    <3>1. Upto(p, 6 + 1) = Upto(p, 6) \o Written("methods", e)
      <4>1. 6 \in 1 .. 7
        OBVIOUS
      <4>2. Layout[1][6] = "methods"
        BY LayoutOf, Zenon
      <4> QED
        BY <2>4, <4>1, <4>2
    <3> QED
      BY <1>2, <3>1 
  <2>11. Upto(p, 8) = Upto(p, 7) \o z
    <3>1. Upto(p, 7 + 1) = Upto(p, 7) \o Written("relations", e)
      <4>1. 7 \in 1 .. 7
        OBVIOUS
      <4>2. Layout[1][7] = "relations"
        BY LayoutOf, Zenon
      <4> QED
        BY <2>4, <4>1, <4>2
    <3> QED
      BY <1>3, <3>1 
  <2>12. Upto(p, 8) = Upto(p, 5) \o PutLists(e)
    <3>1. PICK s \in Str : s = Upto(p, 5)
      BY <2>4
    <3>2. ((s \o x) \o y) \o z = s \o PutLists(e)
      BY <1>5
    <3> QED
      BY <3>1, <3>2, <2>9, <2>10, <2>11
  <2>13. Whole(1, e) = Upto(p, 8)
    BY <2>1, UptoIs DEF Whole
  <2> QED
    BY <2>3, <2>5, <2>6, <2>7, <2>8, <2>12, <2>13 DEF Legacy
<1>8. Whole(2, e) = Encode(e)
  <2>1. PICK p \in Seq(Str) : p = Pieces(2, e) /\ Len(p) = 11
    BY PiecesAre DEF Fields
  <2>2. p[1] = <<ConfigMagic, 2>> /\ \A i \in 1 .. 10 : p[i + 1] = Written(Layout[2][i], e)
    BY <2>1, PiecesAre DEF Fields
  <2>3. Upto(p, 1) = <<ConfigMagic, 2>>
    <3>1. Upto(p, 0) = <<>> /\ Upto(p, 1) = Upto(p, 0) \o p[1]
      <4>1. Len(p) - 1 = 10
        BY <2>1
      <4>2. \A k \in 0 .. 10 : Upto(p, k + 1) = Upto(p, k) \o p[k + 1]
        BY <4>1, UptoIs
      <4>3. 0 \in 0 .. 10 /\ 0 + 1 = 1
        OBVIOUS
      <4> QED
        BY <4>2, <4>3, UptoIs
    <3>2. PICK s \in Str : s = <<ConfigMagic, 2>>
      BY PiecesAre
    <3>3. <<>> \o s = s
      BY ConcatEmptySeq DEF Str
    <3> QED
      BY <2>2, <3>1, <3>2, <3>3
  <2>4. \A k \in 1 .. 10 : Upto(p, k) \in Str /\ Upto(p, k + 1) = Upto(p, k) \o Written(Layout[2][k], e)
    <3>1. \A k \in 0 .. 11 : Upto(p, k) \in Str
      BY <2>1, UptoIs
    <3>2. \A k \in 0 .. 10 : Upto(p, k + 1) = Upto(p, k) \o p[k + 1]
      <4>1. Len(p) - 1 = 10
        BY <2>1
      <4> QED
        BY <4>1, UptoIs
    <3> SUFFICES ASSUME NEW k \in 1 .. 10
                 PROVE  Upto(p, k) \in Str /\ Upto(p, k + 1) = Upto(p, k) \o Written(Layout[2][k], e)
      OBVIOUS
    <3>3. k \in 0 .. 10 /\ k \in 0 .. 11
      OBVIOUS
    <3> QED
      BY <2>2, <3>1, <3>2, <3>3
  <2>5. Upto(p, 2) = Upto(p, 1) \o PutString(e.text["name"])
    <3>1. Upto(p, 1 + 1) = Upto(p, 1) \o Written("name", e)
      <4>1. 1 \in 1 .. 10
        OBVIOUS
      <4>2. Layout[2][1] = "name"
        BY LayoutOf, Zenon
      <4> QED
        BY <2>4, <4>1, <4>2
    <3> QED
      BY <1>6, <3>1 DEF TextField
  <2>6. Upto(p, 3) = Upto(p, 2) \o PutString(e.text["relationsName"])
    <3>1. Upto(p, 2 + 1) = Upto(p, 2) \o Written("relationsName", e)
      <4>1. 2 \in 1 .. 10
        OBVIOUS
      <4>2. Layout[2][2] = "relationsName"
        BY LayoutOf, Zenon
      <4> QED
        BY <2>4, <4>1, <4>2
    <3> QED
      BY <1>6, <3>1 DEF TextField
  <2>7. Upto(p, 4) = Upto(p, 3) \o PutString(e.text["description"])
    <3>1. Upto(p, 3 + 1) = Upto(p, 3) \o Written("description", e)
      <4>1. 3 \in 1 .. 10
        OBVIOUS
      <4>2. Layout[2][3] = "description"
        BY LayoutOf, Zenon
      <4> QED
        BY <2>4, <4>1, <4>2
    <3> QED
      BY <1>6, <3>1 DEF TextField
  <2>8. Upto(p, 5) = Upto(p, 4) \o PutString(e.text["displayName"])
    <3>1. Upto(p, 4 + 1) = Upto(p, 4) \o Written("displayName", e)
      <4>1. 4 \in 1 .. 10
        OBVIOUS
      <4>2. Layout[2][4] = "displayName"
        BY LayoutOf, Zenon
      <4> QED
        BY <2>4, <4>1, <4>2
    <3> QED
      BY <1>6, <3>1 DEF TextField
  <2>9. Upto(p, 6) = Upto(p, 5) \o PutString(e.text["category"])
    <3>1. Upto(p, 5 + 1) = Upto(p, 5) \o Written("category", e)
      <4>1. 5 \in 1 .. 10
        OBVIOUS
      <4>2. Layout[2][5] = "category"
        BY LayoutOf, Zenon
      <4> QED
        BY <2>4, <4>1, <4>2
    <3> QED
      BY <1>6, <3>1 DEF TextField
  <2>10. Upto(p, 7) = Upto(p, 6) \o PutStrings(e.tags)
    <3>1. Upto(p, 6 + 1) = Upto(p, 6) \o Written("tags", e)
      <4>1. 6 \in 1 .. 10
        OBVIOUS
      <4>2. Layout[2][6] = "tags"
        BY LayoutOf, Zenon
      <4> QED
        BY <2>4, <4>1, <4>2
    <3>2. Written("tags", e) = PutStrings(e.tags)
      BY WrittenOf
    <3> QED
      BY <3>2, <3>1 
  <2>11. Upto(p, 8) = Upto(p, 7) \o PutString(e.text["route"])
    <3>1. Upto(p, 7 + 1) = Upto(p, 7) \o Written("route", e)
      <4>1. 7 \in 1 .. 10
        OBVIOUS
      <4>2. Layout[2][7] = "route"
        BY LayoutOf, Zenon
      <4> QED
        BY <2>4, <4>1, <4>2
    <3> QED
      BY <1>6, <3>1 DEF TextField
  <2>12. Upto(p, 9) = Upto(p, 8) \o x
    <3>1. Upto(p, 8 + 1) = Upto(p, 8) \o Written("services", e)
      <4>1. 8 \in 1 .. 10
        OBVIOUS
      <4>2. Layout[2][8] = "services"
        BY LayoutOf, Zenon
      <4> QED
        BY <2>4, <4>1, <4>2
    <3> QED
      BY <1>1, <3>1 
  <2>13. Upto(p, 10) = Upto(p, 9) \o y
    <3>1. Upto(p, 9 + 1) = Upto(p, 9) \o Written("methods", e)
      <4>1. 9 \in 1 .. 10
        OBVIOUS
      <4>2. Layout[2][9] = "methods"
        BY LayoutOf, Zenon
      <4> QED
        BY <2>4, <4>1, <4>2
    <3> QED
      BY <1>2, <3>1 
  <2>14. Upto(p, 11) = Upto(p, 10) \o z
    <3>1. Upto(p, 10 + 1) = Upto(p, 10) \o Written("relations", e)
      <4>1. 10 \in 1 .. 10
        OBVIOUS
      <4>2. Layout[2][10] = "relations"
        BY LayoutOf, Zenon
      <4> QED
        BY <2>4, <4>1, <4>2
    <3> QED
      BY <1>3, <3>1 
  <2>15. Upto(p, 11) = Upto(p, 8) \o PutLists(e)
    <3>1. PICK s \in Str : s = Upto(p, 8)
      BY <2>4
    <3>2. ((s \o x) \o y) \o z = s \o PutLists(e)
      BY <1>5
    <3> QED
      BY <3>1, <3>2, <2>12, <2>13, <2>14
  <2>16. Whole(2, e) = Upto(p, 11)
    BY <2>1, UptoIs DEF Whole
  <2> QED
    BY <2>3, <2>5, <2>6, <2>7, <2>8, <2>9, <2>10, <2>11, <2>15, <2>16 DEF Encode
<1> QED
  BY <1>7, <1>8

\* Documents whose lengths and counts Encode writes whole fit; references that are
\* trimmed are kept as they are.
LEMMA DocumentFits ==
  ASSUME NEW d \in DocumentContent, Encodable(d), Fits(d), Trimmed(d)
  PROVE  /\ d \in FitDocument
         /\ \A l \in List : \A i \in DOMAIN d[l] : Refined(l, d[l][i]) = d[l][i]
<1>1. /\ d.text \in [TextField -> Str] /\ d.tags \in Seq(Str) /\ d.services \in Seq(Str)
      /\ d.methods \in Seq(Method) /\ d.relations \in Seq(Relation)
      /\ d = [text |-> d.text, tags |-> d.tags, services |-> d.services,
              methods |-> d.methods, relations |-> d.relations]
  BY DEF DocumentContent
<1>2. d.text \in [TextField -> FitStr]
  BY <1>1 DEF Fits, FitStr
<1>3. d.tags \in FitStrs
  <2>1. PICK n \in Nat : DOMAIN d.tags = 1 .. n /\ \A i \in 1 .. n : d.tags[i] \in Str
    BY <1>1, LenProperties, ElementOfSeq
  <2>2. \A i \in 1 .. n : d.tags[i] \in FitStr
    BY <2>1 DEF Fits, AllShort, FitStr
  <2>3. d.tags = [i \in 1 .. n |-> d.tags[i]]
    BY <1>1, <2>1
  <2>4. d.tags \in Seq(FitStr)
    BY <2>2, <2>3
  <2> QED
    BY <2>4 DEF Fits, AllShort, FitStrs
<1>4. d.services \in FitLists("services")
      /\ \A i \in DOMAIN d.services : Refined("services", d.services[i]) = d.services[i]
  <2>1. PICK n \in Nat : DOMAIN d.services = 1 .. n /\ \A i \in 1 .. n : d.services[i] \in Str
    BY <1>1, LenProperties, ElementOfSeq
  <2>2. \A i \in 1 .. n : d.services[i] \in FitRef
    BY <2>1 DEF Fits, AllShort, FitStr, FitRef, Trimmed
  <2>3. d.services = [i \in 1 .. n |-> d.services[i]]
    BY <1>1, <2>1
  <2>4. d.services \in Seq(FitRef)
    BY <2>2, <2>3
  <2>5. \A i \in DOMAIN d.services : Refined("services", d.services[i]) = d.services[i]
    BY DEF Refined, Trimmed
  <2> QED
    BY <2>4, <2>5 DEF Fits, AllShort, FitLists, FitOf
<1>5. d.methods \in FitLists("methods")
      /\ \A i \in DOMAIN d.methods : Refined("methods", d.methods[i]) = d.methods[i]
  <2>1. PICK n \in Nat : DOMAIN d.methods = 1 .. n /\ \A i \in 1 .. n : d.methods[i] \in Method
    BY <1>1, LenProperties, ElementOfSeq
  <2>2. ASSUME NEW i \in 1 .. n
        PROVE  d.methods[i] \in FitMethod /\ RefinedMethod(d.methods[i]) = d.methods[i]
    <3>1. PICK m \in Method : m = d.methods[i]
      BY <2>1
    <3>2. /\ m.ref \in Str /\ m.exec \in Word /\ m.inputCount \in Int /\ m.outputCount \in Int
          /\ m.inputArgs \in Seq(Parameter) /\ m.outputArgs \in Seq(Parameter) /\ m.format \in Word
          /\ m = [ref |-> m.ref, exec |-> m.exec, inputCount |-> m.inputCount,
                  inputArgs |-> m.inputArgs, outputCount |-> m.outputCount,
                  outputArgs |-> m.outputArgs, format |-> m.format]
      BY DEF Method
    <3>3. m.inputCount \in Count /\ m.outputCount \in Count
      <4>1. \A c \in Counts(m) : c >= -1 /\ c < inferredCount
        BY <2>1, <3>1 DEF Encodable
      <4>2. /\ m.inputCount >= -1 /\ m.inputCount < inferredCount
            /\ m.outputCount >= -1 /\ m.outputCount < inferredCount
        BY <4>1 DEF Counts
      <4> QED
        BY <3>2, <4>2, WordsAssumption DEF Count, inferredCount
    <3>4. ASSUME NEW list \in Seq(Parameter), ShortParameters(list) PROVE list \in FitParameters
      <4>1. PICK k \in Nat : DOMAIN list = 1 .. k /\ \A j \in 1 .. k : list[j] \in Parameter
        BY LenProperties, ElementOfSeq
      <4>2. \A j \in 1 .. k : list[j] \in FitParameter
        BY <3>4, <4>1 DEF ShortParameters, FitParameter
      <4>3. list = [j \in 1 .. k |-> list[j]]
        BY <4>1
      <4>4. list \in Seq(FitParameter)
        BY <4>2, <4>3
      <4> QED
        BY <3>4, <4>4 DEF ShortParameters, FitParameters
    <3>5. /\ Short(m.ref) /\ ShortParameters(m.inputArgs) /\ ShortParameters(m.outputArgs)
          /\ m.ref \in DOMAIN RefOf /\ RefOf[m.ref] = m.ref
      BY <2>1, <3>1 DEF Fits, Trimmed
    <3>6. m \in FitMethod
      BY <3>2, <3>3, <3>4, <3>5 DEF FitMethod, FitRef, FitStr
    <3>7. RefinedMethod(m) = m
      <4>1. [m EXCEPT !.ref = m.ref] = m
        BY <3>2
      <4> QED
        BY <3>5, <4>1 DEF RefinedMethod
    <3> QED
      BY <3>1, <3>6, <3>7
  <2>3. d.methods = [i \in 1 .. n |-> d.methods[i]]
    BY <1>1, <2>1
  <2>4. d.methods \in Seq(FitMethod)
    BY <2>2, <2>3
  <2>5. \A i \in DOMAIN d.methods : Refined("methods", d.methods[i]) = d.methods[i]
    BY <2>1, <2>2 DEF Refined
  <2> QED
    BY <2>4, <2>5 DEF Fits, FitLists, FitOf
<1>6. d.relations \in FitLists("relations")
      /\ \A i \in DOMAIN d.relations : Refined("relations", d.relations[i]) = d.relations[i]
  <2>1. PICK n \in Nat : DOMAIN d.relations = 1 .. n /\ \A i \in 1 .. n : d.relations[i] \in Relation
    BY <1>1, LenProperties, ElementOfSeq
  <2>2. \A i \in 1 .. n : d.relations[i] \in FitRelation
    BY <2>1 DEF Fits, FitStr, FitRelation, Relation
  <2>3. d.relations = [i \in 1 .. n |-> d.relations[i]]
    BY <1>1, <2>1
  <2>4. d.relations \in Seq(FitRelation)
    BY <2>2, <2>3
  <2>5. \A i \in DOMAIN d.relations : Refined("relations", d.relations[i]) = d.relations[i]
    BY DEF Refined
  <2> QED
    BY <2>4, <2>5 DEF Fits, FitLists, FitOf
<1>7. d \in FitDocument
  BY <1>1, <1>2, <1>3, <1>4, <1>5, <1>6 DEF FitDocument
<1> QED
  BY <1>4, <1>5, <1>6, <1>7 DEF List

-----------------------------------------------------------------------------
(* The documents that are read into                                         *)

\* The reader is within its input, slices within their arrays, and no two slices of a
\* document share an array but that of nil.
Shaped ==
  /\ off \in Offset(input)
  /\ \A a \in DOMAIN arrays : Sequence(arrays[a])
  /\ \A m \in Mode :
       /\ docs[m].text \in [TextField -> Str]
       /\ \A l \in List : docs[m].lists[l].len <= Len(arrays[docs[m].lists[l].array])
       /\ \A k, l \in List : k # l /\ docs[m].lists[k].array = docs[m].lists[l].array
                               => docs[m].lists[k].array = 1

\* Wherever an element is read, the reader stays within the input.
LEMMA ElementMoves ==
  ASSUME NEW data \in Str, NEW o \in Offset(data), NEW l \in List
  PROVE  ReadOne(l, data, o).off \in Offset(data)
<1>1. CASE l = "services"
  <2>1. ReadOne(l, data, o) = ReadRef(data, o)
    BY <1>1 DEF ReadOne
  <2>2. ReadRef(data, o).off = ReadString(data, o).off
    BY ReadRefIs
  <2>3. ReadString(data, o).off \in Offset(data)
    BY StringIsFit DEF Honest
  <2> QED
    BY <2>1, <2>2, <2>3
<1>2. CASE l = "methods"
  <2>1. ReadOne(l, data, o) = ReadMethod(data, o)
    BY <1>2 DEF ReadOne
  <2> QED
    BY <2>1, ReadMethodIs
<1>3. CASE l = "relations"
  <2>1. ReadOne(l, data, o) = ReadRelation(data, o)
    BY <1>3 DEF ReadOne
  <2>2. ReadRelation(data, o).off \in Offset(data)
    BY ReadRelationIs DEF Honest
  <2> QED
    BY <2>1, <2>2
<1> QED
  BY <1>1, <1>2, <1>3 DEF List

\* The first state.
LEMMA InitShaped == Init => Shaped
<1> SUFFICES ASSUME Init PROVE Shaped
  OBVIOUS
<1>1. Sequence(<<>>) /\ Len(<<>>) = 0
  <2>1. <<>> \in Seq({})
    OBVIOUS
  <2> QED
    BY <2>1 DEF Sequence
<1>2. off \in Offset(input)
  BY <1>1 DEF Init, Offset
<1>3. DOMAIN arrays = {1} /\ arrays[1] = <<>>
  BY DEF Init
<1>4. \A m \in Mode : docs[m] = EmptyDocument
  BY DEF Init, Mode
<1>5. EmptyDocument.text \in [TextField -> Str]
      /\ \A l \in List : EmptyDocument.lists[l].array = 1 /\ EmptyDocument.lists[l].len = 0
  BY StrOf DEF EmptyDocument
<1> QED
  BY <1>1, <1>2, <1>3, <1>4, <1>5 DEF Shaped

\* A step that writes no slice.
LEMMA TextShaped ==
  ASSUME Inv, Shaped, UNCHANGED <<arrays, input>>, off' \in Offset(input),
         \A m \in Mode : /\ docs'[m].lists = docs[m].lists \/ docs'[m].lists = EmptyDocument.lists
                         /\ docs'[m].text \in [TextField -> Str]
  PROVE  Shaped'
<1>1. arrays[1] = <<>> /\ Len(<<>>) = 0
  BY DEF Inv, MemoryOK
<1>2. \A l \in List : EmptyDocument.lists[l].array = 1 /\ EmptyDocument.lists[l].len = 0
  BY DEF EmptyDocument
<1>3. \A m \in Mode :
        /\ \A l \in List : docs'[m].lists[l].len <= Len(arrays[docs'[m].lists[l].array])
        /\ \A k, l \in List : k # l /\ docs'[m].lists[k].array = docs'[m].lists[l].array
                               => docs'[m].lists[k].array = 1
  <2> SUFFICES ASSUME NEW m \in Mode
               PROVE  /\ \A l \in List : docs'[m].lists[l].len <= Len(arrays[docs'[m].lists[l].array])
                      /\ \A k, l \in List : k # l /\ docs'[m].lists[k].array = docs'[m].lists[l].array
                                              => docs'[m].lists[k].array = 1
    OBVIOUS
  <2>1. CASE docs'[m].lists = docs[m].lists
    BY <2>1 DEF Shaped
  <2>2. CASE docs'[m].lists = EmptyDocument.lists
    BY <1>1, <1>2, <2>2
  <2> QED
    BY <2>1, <2>2
<1> QED
  BY <1>3 DEF Shaped

\* What the count of a list does to the document and its arrays.
LEMMA CountMemory ==
  ASSUME Inv, Shaped, NEW l \in List, ReadListCount(l), ReadWord(input, off).ok
  PROVE  LET n == ReadWord(input, off).val
         IN /\ n \in Nat /\ mode \in Mode /\ mode' = mode
            /\ \A a \in DOMAIN arrays : a \in DOMAIN arrays' /\ arrays'[a] = arrays[a]
            /\ \A a \in DOMAIN arrays' : Sequence(arrays'[a])
            /\ \A m \in Mode : m # mode => docs'[m] = docs[m]
            /\ docs'[mode].text = docs[mode].text /\ docs'[mode].tags = docs[mode].tags
            /\ \A k \in List : k # l => docs'[mode].lists[k] = docs[mode].lists[k]
            /\ docs'[mode].lists[l].len = n
            /\ n <= Len(arrays'[docs'[mode].lists[l].array])
            /\ \/ docs'[mode].lists[l].array = docs[mode].lists[l].array
               \/ docs'[mode].lists[l].array \notin DOMAIN arrays
<1> DEFINE n == ReadWord(input, off).val
           old == docs[mode].lists[l]
           made == [i \in 1 .. n |-> Zero(l)]
<1>1. n \in Nat /\ mode \in Mode
  BY WordIsNat DEF Inv, CursorOK
<1>2. /\ docs' = [docs EXCEPT ![mode].lists[l] = Resized(old, n)] /\ mode' = mode
      /\ arrays' = IF Enough(old, n) THEN arrays ELSE Append(arrays, made)
  BY DEF ReadListCount
<1>3. /\ Sequence(arrays) /\ DOMAIN docs = Mode /\ l \in DOMAIN docs[mode].lists
      /\ DOMAIN docs[mode] = {"text", "tags", "lists"}
  BY <1>1 DEF Inv, MemoryOK, Good, IsDocument
<1>4. made \in Seq({Zero(l)}) /\ Len(made) = n
  BY <1>1
<1>5. Sequence(made)
  BY <1>4 DEF Sequence
<1> HIDE DEF n, made
<1> DEFINE slice == Resized(old, n)
<1>6. slice.len = n /\ slice.array = IF Enough(old, n) THEN old.array ELSE Len(arrays) + 1
  BY DEF Resized
<1> HIDE DEF slice
<1>7. /\ \A m \in Mode : m # mode => docs'[m] = docs[m]
      /\ docs'[mode].text = docs[mode].text /\ docs'[mode].tags = docs[mode].tags
      /\ docs'[mode].lists = [docs[mode].lists EXCEPT ![l] = slice]
  BY <1>1, <1>2, <1>3 DEF slice
<1>8. docs'[mode].lists[l] = slice
      /\ \A k \in List : k # l => docs'[mode].lists[k] = docs[mode].lists[k]
  BY <1>1, <1>3, <1>7 DEF Inv, MemoryOK, Good, IsDocument
<1>9. CASE Enough(old, n)
  <2>1. arrays' = arrays /\ slice.array = old.array
    BY <1>2, <1>6, <1>9
  <2>2. n <= Len(arrays'[slice.array])
    BY <1>9, <2>1 DEF Enough
  <2>3. \A a \in DOMAIN arrays' : Sequence(arrays'[a])
    BY <2>1 DEF Shaped
  <2> QED
    BY <1>1, <1>2, <1>6, <1>7, <1>8, <2>1, <2>2, <2>3 DEF n
<1>10. CASE ~ Enough(old, n)
  <2>1. arrays' = Append(arrays, made) /\ slice.array = Len(arrays) + 1
    BY <1>2, <1>6, <1>10
  <2>2. /\ DOMAIN arrays = 1 .. Len(arrays) /\ Len(arrays) \in Nat
        /\ DOMAIN arrays' = 1 .. (Len(arrays) + 1)
        /\ \A a \in DOMAIN arrays : arrays'[a] = arrays[a]
        /\ arrays'[Len(arrays) + 1] = made
    BY <1>3, <2>1, AppendExtends
  <2>3. n <= Len(arrays'[slice.array])
    BY <1>1, <1>4, <2>1, <2>2 DEF n, made
  <2>4. \A a \in DOMAIN arrays' : a \in DOMAIN arrays \/ a = Len(arrays) + 1
    BY <2>2
  <2>5. \A a \in DOMAIN arrays' : Sequence(arrays'[a])
    BY <1>5, <2>2, <2>4 DEF Shaped
  <2>6. slice.array \notin DOMAIN arrays /\ \A a \in DOMAIN arrays : a \in DOMAIN arrays'
    BY <2>1, <2>2
  <2> QED
    BY <1>1, <1>2, <1>6, <1>7, <1>8, <2>2, <2>3, <2>5, <2>6 DEF n
<1> QED
  BY <1>9, <1>10

\* What an element of a list does to them.
LEMMA ElementMemory ==
  ASSUME Inv, Shaped, NEW l \in List, ReadElement(l), ReadOne(l, input, off).ok
  PROVE  LET a == docs[mode].lists[l].array
         IN /\ mode \in Mode /\ UNCHANGED <<mode, docs>> /\ element \in Nat
            /\ element + 1 \in 1 .. docs[mode].lists[l].len
            /\ a \in DOMAIN arrays /\ a # 1 /\ DOMAIN arrays' = DOMAIN arrays
            /\ \A b \in DOMAIN arrays : Sequence(arrays'[b]) /\ Len(arrays'[b]) = Len(arrays[b])
            /\ \A b \in DOMAIN arrays : b # a => arrays'[b] = arrays[b]
            /\ arrays'[a][element + 1] = ReadOne(l, input, off).val
            /\ \A i \in 1 .. element : arrays'[a][i] = arrays[a][i]
<1> DEFINE a == docs[mode].lists[l].array
           x == ReadOne(l, input, off).val
           n == docs[mode].lists[l].len
<1>1. /\ status = "reading" /\ field \in DOMAIN Layout[version] /\ Layout[version][field] = l
      /\ element \in Nat /\ mode \in Mode /\ UNCHANGED <<mode, docs>>
  BY DEF ReadElement, Reads, Inv, CursorOK
<1>2. docs[mode].lists[l] \in Slice /\ a \in DOMAIN arrays /\ a # 1 /\ element < n /\ n \in Nat
  BY <1>1 DEF Inv, MemoryOK, Good, IsDocument, Allocated, Within, Slice
<1>3. n <= Len(arrays[a]) /\ Sequence(arrays[a])
  BY <1>1, <1>2 DEF Shaped
<1>4. arrays' = [arrays EXCEPT ![a][element + 1] = x]
  BY DEF ReadElement
<1>5. element + 1 \in 1 .. n
  BY <1>1, <1>2
<1> HIDE DEF a, x, n
<1>6. DOMAIN arrays' = DOMAIN arrays /\ (\A b \in DOMAIN arrays : b # a => arrays'[b] = arrays[b])
      /\ arrays'[a] = [arrays[a] EXCEPT ![element + 1] = x]
  BY <1>2, <1>4
<1>7. /\ Sequence(arrays'[a]) /\ Len(arrays'[a]) = Len(arrays[a])
      /\ arrays'[a][element + 1] = x /\ \A i \in 1 .. element : arrays'[a][i] = arrays[a][i]
  <2>1. PICK T : arrays[a] \in Seq(T)
    BY <1>3 DEF Sequence
  <2>2. PICK s \in Seq(T \cup {x}) : s = arrays[a]
    BY <2>1
  <2>3. DOMAIN s = 1 .. Len(s) /\ Len(s) \in Nat /\ element + 1 \in DOMAIN s
    BY <1>2, <1>3, <1>5, <2>2, LenProperties
  <2>4. PICK t : t = [s EXCEPT ![element + 1] = x]
    OBVIOUS
  <2>5. t \in Seq(T \cup {x}) /\ Len(t) = Len(s)
    BY <2>3, <2>4
  <2>6. t[element + 1] = x /\ \A i \in 1 .. element : t[i] = s[i]
    BY <1>1, <2>3, <2>4
  <2>7. Sequence(t)
    BY <2>5 DEF Sequence
  <2> QED
    BY <1>6, <2>2, <2>4, <2>5, <2>6, <2>7
<1>8. \A b \in DOMAIN arrays : Sequence(arrays'[b]) /\ Len(arrays'[b]) = Len(arrays[b])
  BY <1>6, <1>7 DEF Shaped
<1> QED
  BY <1>1, <1>2, <1>5, <1>6, <1>7, <1>8 DEF a, x, n

\* A clone has arrays of its own.
LEMMA FinishShaped ==
  ASSUME Inv, Shaped, Finish
  PROVE  Shaped'
<1>1. UNCHANGED <<input, off, docs, mode>> /\ mode \in Mode
  BY DEF Finish, Inv, CursorOK
<1>2. CASE UNCHANGED arrays
  BY <1>1, <1>2 DEF Shaped
<1>3. CASE arrays' = arrays \o CloneArrays(docs[mode])
  <2>1. /\ \A a \in DOMAIN arrays : arrays'[a] = arrays[a] /\ a \in DOMAIN arrays'
    BY <1>1, <1>3, CloneIsNew DEF Inv, MemoryOK
  <2>2. \A m \in Mode, l \in List : docs[m].lists[l].array \in DOMAIN arrays
    BY DEF Inv, MemoryOK, Good, Allocated
  <2>3. \A a \in DOMAIN arrays' : Sequence(arrays'[a])
    <3>1. ASSUME NEW l \in List PROVE Sequence(Elements(docs[mode].lists[l]))
      <4>1. PICK slice \in Slice : slice = docs[mode].lists[l]
        BY <1>1 DEF Inv, MemoryOK, Good, IsDocument
      <4>2. PICK T : arrays[slice.array] \in Seq(T)
        BY <1>1, <2>2, <4>1 DEF Shaped, Sequence
      <4>3. slice.len \in Nat /\ slice.len <= Len(arrays[slice.array])
        BY <1>1, <4>1 DEF Shaped, Slice
      <4>4. SubSeq(arrays[slice.array], 1, slice.len) \in Seq(T)
        BY <4>2, <4>3
      <4> QED
        BY <4>1, <4>4 DEF Elements, Sequence
    <3> DEFINE x == Elements(docs[mode].lists["services"])
               y == Elements(docs[mode].lists["methods"])
               z == Elements(docs[mode].lists["relations"])
    <3>2. Sequence(x) /\ Sequence(y) /\ Sequence(z)
      BY <3>1 DEF List
    <3>3. arrays' = arrays \o <<x, y, z>>
      BY <1>3 DEF CloneArrays
    <3> HIDE DEF x, y, z
    <3>4. PICK T : arrays \in Seq(T)
      BY DEF Inv, MemoryOK, Sequence
    <3>5. arrays \in Seq(T \cup {x, y, z}) /\ <<x, y, z>> \in Seq(T \cup {x, y, z})
      BY <3>4
    <3>6. PICK n \in Nat : n = Len(arrays) /\ DOMAIN arrays = 1 .. n
      BY <3>4, LenProperties
    <3>7. DOMAIN arrays' = 1 .. (n + 3) /\ arrays'[n + 1] = x /\ arrays'[n + 2] = y /\ arrays'[n + 3] = z
      BY <3>3, <3>5, <3>6
    <3>8. \A a \in DOMAIN arrays' : a \in DOMAIN arrays \/ a = n + 1 \/ a = n + 2 \/ a = n + 3
      BY <3>6, <3>7
    <3>9. \A a \in DOMAIN arrays : Sequence(arrays'[a])
      BY <2>1 DEF Shaped
    <3> QED
      BY <3>2, <3>7, <3>8, <3>9
  <2> QED
    BY <1>1, <2>1, <2>2, <2>3 DEF Shaped
<1> QED
  BY <1>2, <1>3 DEF Finish

\* Every step leaves the documents so.
LEMMA NextShaped == Inv /\ Shaped /\ [Next]_vars => Shaped'
<1> SUFFICES ASSUME Inv, Shaped, [Next]_vars PROVE Shaped'
  OBVIOUS
<1>1. input \in Str /\ mode \in Mode /\ off \in Offset(input)
  BY DEF Inv, CursorOK, Shaped
<1>2. CASE \E m \in {"kept", "new"}, data \in Input : Start(m, data)
  <2>1. PICK m \in Mode, data \in Input : Start(m, data)
    BY <1>2 DEF Mode
  <2>2. off' \in Offset(input')
    <3>1. Len(data) \in Nat
      BY EncodeAssumption, StrFacts
    <3> QED
      BY <2>1, <3>1 DEF Start, Offset
  <2>3. DOMAIN docs = Mode
    BY DEF Inv, MemoryOK
  <2>4. \A k \in Mode : docs'[k] = docs[k] \/ docs'[k] = EmptyDocument
    BY <2>1, <2>3 DEF Start, Mode
  <2>5. EmptyDocument.text \in [TextField -> Str] /\ Len(<<>>) = 0 /\ arrays[1] = <<>>
        /\ \A l \in List : EmptyDocument.lists[l].array = 1 /\ EmptyDocument.lists[l].len = 0
    BY StrOf DEF EmptyDocument, Inv, MemoryOK
  <2>6. UNCHANGED arrays
    BY <2>1 DEF Start
  <2>7. \A k \in Mode :
          /\ docs'[k].text \in [TextField -> Str]
          /\ \A l \in List : docs'[k].lists[l].len <= Len(arrays[docs'[k].lists[l].array])
          /\ \A i, l \in List : i # l /\ docs'[k].lists[i].array = docs'[k].lists[l].array
                                  => docs'[k].lists[i].array = 1
    <3> SUFFICES ASSUME NEW k \in Mode
                 PROVE  /\ docs'[k].text \in [TextField -> Str]
                        /\ \A l \in List : docs'[k].lists[l].len <= Len(arrays[docs'[k].lists[l].array])
                        /\ \A i, l \in List : i # l /\ docs'[k].lists[i].array = docs'[k].lists[l].array
                                                => docs'[k].lists[i].array = 1
      OBVIOUS
    <3>1. CASE docs'[k] = docs[k]
      BY <3>1 DEF Shaped
    <3>2. CASE docs'[k] = EmptyDocument
      BY <2>5, <3>2
    <3> QED
      BY <2>4, <3>1, <3>2
  <2> QED
    BY <2>2, <2>6, <2>7 DEF Shaped
<1>3. CASE ReadHeader
  <2>1. UNCHANGED <<arrays, docs, input>>
    BY <1>3 DEF ReadHeader
  <2>2. PICK w : w = ReadWord(input, off)
    OBVIOUS
  <2>3. w.off \in Offset(input)
    BY <1>1, <2>2, ReadWordIs DEF Honest
  <2>4. PICK v : v = ReadWord(input, w.off)
    OBVIOUS
  <2>5. v.off \in Offset(input) /\ \E p, q, s : v = [ok |-> p, val |-> q, off |-> s]
    <3>1. v.off \in Offset(input)
      BY <1>1, <2>3, <2>4, ReadWordIs DEF Honest
    <3> QED
      BY <2>4, <3>1 DEF ReadWord
  <2>6. off' \in Offset(input)
    BY <1>3, <2>2, <2>4, <2>5 DEF ReadHeader, Past
  <2> QED
    BY <2>1, <2>6, TextShaped DEF Shaped
<1>4. CASE \E f \in TextField : ReadText(f)
  <2>1. PICK f \in TextField : ReadText(f)
    BY <1>4
  <2>2. PICK r : r = ReadString(input, off)
    OBVIOUS
  <2>3. r.val \in Str /\ r.off \in Offset(input)
    BY <1>1, <2>2, ReadStringIs DEF Honest
  <2>4. off' = r.off /\ docs' = [docs EXCEPT ![mode].text[f] = r.val] /\ UNCHANGED <<arrays, input>>
    BY <2>1, <2>2 DEF ReadText, Past
  <2>5. DOMAIN docs = Mode /\ \A m \in Mode : DOMAIN docs[m] = {"text", "tags", "lists"}
    BY DEF Inv, MemoryOK, Good, IsDocument
  <2>6. \A m \in Mode : docs'[m].lists = docs[m].lists /\ docs'[m].text \in [TextField -> Str]
    BY <1>1, <2>3, <2>4, <2>5 DEF Shaped
  <2> QED
    BY <2>3, <2>4, <2>6, TextShaped
<1>5. CASE ReadTags
  <2>1. PICK r : r = ReadMany(StringsOf(input), input, off)
    OBVIOUS
  <2>2. r.off \in Offset(input)
    BY <1>1, <2>1, StringsAre DEF Honest
  <2>3. off' = r.off /\ docs' = [docs EXCEPT ![mode].tags = r.val] /\ UNCHANGED <<arrays, input>>
    BY <1>5, <2>1 DEF ReadTags, Past, StringsOf
  <2>4. DOMAIN docs = Mode /\ \A m \in Mode : DOMAIN docs[m] = {"text", "tags", "lists"}
    BY DEF Inv, MemoryOK, Good, IsDocument
  <2>5. \A m \in Mode : docs'[m].lists = docs[m].lists /\ docs'[m].text \in [TextField -> Str]
    BY <1>1, <2>3, <2>4 DEF Shaped
  <2> QED
    BY <2>2, <2>3, <2>5, TextShaped
<1>6. CASE ForgetMetadata
  <2> DEFINE cleared == [f \in TextField |-> IF f \in {"description", "displayName", "category"}
                                               THEN <<>> ELSE docs[mode].text[f]]
  <2>1. docs' = [docs EXCEPT ![mode].tags = <<>>, ![mode].text = cleared]
        /\ UNCHANGED <<arrays, input, off>>
    BY <1>6 DEF ForgetMetadata
  <2>2. cleared \in [TextField -> Str]
    BY <1>1, StrOf DEF Shaped
  <2> HIDE DEF cleared
  <2>3. DOMAIN docs = Mode /\ \A m \in Mode : DOMAIN docs[m] = {"text", "tags", "lists"}
    BY DEF Inv, MemoryOK, Good, IsDocument
  <2>4. \A m \in Mode : docs'[m].lists = docs[m].lists /\ docs'[m].text \in [TextField -> Str]
    BY <1>1, <2>1, <2>2, <2>3 DEF Shaped
  <2> QED
    BY <1>1, <2>1, <2>4, TextShaped
<1>7. CASE \E l \in List : ReadListCount(l)
  <2>1. PICK l \in List : ReadListCount(l)
    BY <1>7
  <2>2. PICK r : r = ReadWord(input, off)
    OBVIOUS
  <2>3. off' = r.off /\ UNCHANGED input /\ (~r.ok => UNCHANGED <<docs, arrays>>)
    BY <2>1, <2>2 DEF ReadListCount, Past
  <2>4. r.off \in Offset(input)
    BY <1>1, <2>2, ReadWordIs DEF Honest
  <2>5. CASE ~r.ok
    BY <2>3, <2>4, <2>5, TextShaped DEF Shaped
  <2>6. CASE r.ok
    <3>1. /\ mode \in Mode
          /\ \A a \in DOMAIN arrays : a \in DOMAIN arrays' /\ arrays'[a] = arrays[a]
          /\ \A a \in DOMAIN arrays' : Sequence(arrays'[a])
          /\ \A m \in Mode : m # mode => docs'[m] = docs[m]
          /\ docs'[mode].text = docs[mode].text
          /\ \A k \in List : k # l => docs'[mode].lists[k] = docs[mode].lists[k]
          /\ docs'[mode].lists[l].len = r.val
          /\ r.val <= Len(arrays'[docs'[mode].lists[l].array])
          /\ \/ docs'[mode].lists[l].array = docs[mode].lists[l].array
             \/ docs'[mode].lists[l].array \notin DOMAIN arrays
      BY <2>1, <2>2, <2>6, CountMemory
    <3>2. \A m \in Mode, k \in List : docs[m].lists[k].array \in DOMAIN arrays
      BY DEF Inv, MemoryOK, Good, Allocated
    <3>3. \A m \in Mode : docs'[m].text \in [TextField -> Str]
      BY <3>1 DEF Shaped
    <3>4. \A m \in Mode, k \in List : docs'[m].lists[k].len <= Len(arrays'[docs'[m].lists[k].array])
      <4> SUFFICES ASSUME NEW m \in Mode, NEW k \in List
                   PROVE  docs'[m].lists[k].len <= Len(arrays'[docs'[m].lists[k].array])
        OBVIOUS
      <4>1. CASE m = mode /\ k = l
        BY <3>1, <4>1
      <4>2. CASE ~(m = mode /\ k = l)
        <5>1. docs'[m].lists[k] = docs[m].lists[k]
          BY <3>1, <4>2
        <5>2. arrays'[docs[m].lists[k].array] = arrays[docs[m].lists[k].array]
          BY <3>1, <3>2
        <5> QED
          BY <5>1, <5>2 DEF Shaped
      <4> QED
        BY <4>1, <4>2
    <3>5. \A m \in Mode : \A i, k \in List :
            i # k /\ docs'[m].lists[i].array = docs'[m].lists[k].array => docs'[m].lists[i].array = 1
      <4> SUFFICES ASSUME NEW m \in Mode, NEW i \in List, NEW k \in List, i # k,
                          docs'[m].lists[i].array = docs'[m].lists[k].array
                   PROVE  docs'[m].lists[i].array = 1
        OBVIOUS
      <4>1. CASE m # mode
        BY <3>1, <4>1 DEF Shaped
      <4>2. CASE m = mode
        BY <3>1, <3>2, <4>2 DEF Shaped
      <4> QED
        BY <4>1, <4>2
    <3> QED
      BY <2>3, <2>4, <3>1, <3>3, <3>4, <3>5 DEF Shaped
  <2> QED
    BY <2>5, <2>6
<1>8. CASE \E l \in List : ReadElement(l)
  <2>1. PICK l \in List : ReadElement(l)
    BY <1>8
  <2>2. PICK r : r = ReadOne(l, input, off)
    OBVIOUS
  <2>3. off' = r.off /\ UNCHANGED <<input, docs>> /\ (~r.ok => UNCHANGED arrays)
    BY <2>1, <2>2 DEF ReadElement, Past
  <2>4. r.off \in Offset(input)
    BY <1>1, <2>2, ElementMoves
  <2>5. CASE ~r.ok
    BY <2>3, <2>4, <2>5, TextShaped DEF Shaped
  <2>6. CASE r.ok
    <3>1. /\ DOMAIN arrays' = DOMAIN arrays
          /\ \A b \in DOMAIN arrays : Sequence(arrays'[b]) /\ Len(arrays'[b]) = Len(arrays[b])
      BY <2>1, <2>2, <2>6, ElementMemory
    <3>2. \A m \in Mode, k \in List : docs[m].lists[k].array \in DOMAIN arrays
      BY DEF Inv, MemoryOK, Good, Allocated
    <3> QED
      BY <2>3, <2>4, <3>1, <3>2 DEF Shaped
  <2> QED
    BY <2>5, <2>6
<1>9. CASE Finish
  BY <1>9, FinishShaped
<1>10. CASE UNCHANGED vars
  BY <1>10 DEF vars, Shaped
<1> QED
  BY <1>2, <1>3, <1>4, <1>5, <1>6, <1>7, <1>8, <1>9, <1>10 DEF Next

-----------------------------------------------------------------------------
(* What has been read of a document                                         *)

\* The document read into says in a field what e does.
Agrees(f, e) ==
  /\ f \in TextField => docs[mode].text[f] = e.text[f]
  /\ f = "tags" => docs[mode].tags = e.tags
  /\ f = "no metadata" => NoMetadata(docs[mode])
  /\ f \in List =>
       /\ docs[mode].lists[f].len = Len(e[f])
       /\ \A i \in 1 .. Len(e[f]) : arrays[docs[mode].lists[f].array][i] = Refined(f, e[f][i])

\* The offset of the field that is read next or in part.
Place(e) == 1 + Len(Upto(Pieces(version, e), field))

\* The elements of e's list l that have been read.
Partly(l, e) ==
  LET written == Mapped(e[l], PutOf(l))
  IN /\ element <= Len(e[l])
     /\ At(input, Place(e), <<docs[mode].lists[l].len>>)
     /\ At(input, Place(e) + 1, Upto(written, element))
     /\ off = Place(e) + 1 + Len(Upto(written, element))
     /\ \A i \in 1 .. element : arrays[docs[mode].lists[l].array][i] = Refined(l, e[l][i])

\* What has been read is what e spells out, up to here.
Read(e) ==
  /\ e \in FitDocument /\ field \in 1 .. (Fields(version) + 1)
  /\ At(input, 1, Upto(Pieces(version, e), field))
  /\ \A i \in 1 .. (field - 1) : Agrees(Layout[version][i], e)
  /\ element < 0 => off = Place(e)
  /\ element >= 0 => Partly(Layout[version][field], e)

\* The pieces up to a field, and that of the field.
LEMMA PieceOf ==
  ASSUME NEW v \in {1, 2}, NEW e \in FitDocument, NEW k \in 1 .. Fields(v)
  PROVE  /\ Upto(Pieces(v, e), k) \in Str /\ Upto(Pieces(v, e), k + 1) \in Str
         /\ Upto(Pieces(v, e), k + 1) = Upto(Pieces(v, e), k) \o Written(Layout[v][k], e)
         /\ Written(Layout[v][k], e) \in Str /\ Len(Upto(Pieces(v, e), k)) \in Nat
<1>1. PICK n \in Nat : n = Fields(v)
  BY PiecesAre
<1>2. PICK p \in Seq(Str) : p = Pieces(v, e) /\ Len(p) = n + 1 /\ Len(p) - 1 = n
  BY <1>1, PiecesAre
<1>3. k \in 0 .. n /\ k \in 0 .. (n + 1) /\ k + 1 \in 0 .. (n + 1)
  BY <1>1
<1>4. \A i \in 0 .. (n + 1) : Upto(p, i) \in Str
  BY <1>2, UptoIs
<1>5. \A i \in 0 .. n : Upto(p, i + 1) = Upto(p, i) \o p[i + 1]
  BY <1>2, UptoIs
<1>6. p[k + 1] = Written(Layout[v][k], e)
  BY <1>2, PiecesAre
<1>7. Written(Layout[v][k], e) \in Str
  BY LayoutIs, WrittenIs
<1>8. Len(Upto(p, k)) \in Nat
  BY <1>3, <1>4, StrFacts
<1> QED
  BY <1>2, <1>3, <1>4, <1>5, <1>6, <1>7, <1>8

\* The first piece is the header.
LEMMA HeaderPiece ==
  ASSUME NEW v \in {1, 2}, NEW e \in FitDocument
  PROVE  Upto(Pieces(v, e), 1) = <<ConfigMagic, v>> /\ Len(Upto(Pieces(v, e), 1)) = 2
<1>1. PICK n \in Nat : n = Fields(v)
  BY PiecesAre
<1>2. PICK p \in Seq(Str) : p = Pieces(v, e) /\ Len(p) = n + 1 /\ Len(p) - 1 = n
  BY <1>1, PiecesAre
<1>3. \A i \in 0 .. n : Upto(p, i + 1) = Upto(p, i) \o p[i + 1]
  BY <1>2, UptoIs
<1>4. 0 \in 0 .. n /\ 0 + 1 = 1
  OBVIOUS
<1>5. Upto(p, 1) = Upto(p, 0) \o p[1]
  BY <1>3, <1>4
<1>6. Upto(p, 0) = <<>>
  BY UptoIs
<1>7. PICK s \in Str : s = p[1] /\ s = <<ConfigMagic, v>> /\ Len(s) = 2
  BY <1>2, PiecesAre
<1>8. <<>> \o s = s
  BY ConcatEmptySeq DEF Str
<1> QED
  BY <1>2, <1>5, <1>6, <1>7, <1>8

\* A field that stays as it was agrees as it did.
LEMMA AgreesStill ==
  ASSUME NEW g, NEW e, Agrees(g, e), mode' = mode,
         g \in TextField => docs'[mode].text[g] = docs[mode].text[g],
         g = "tags" => docs'[mode].tags = docs[mode].tags,
         g = "no metadata" => (NoMetadata(docs[mode]) => NoMetadata(docs'[mode])),
         g \in List => /\ docs'[mode].lists[g] = docs[mode].lists[g]
                       /\ \A i \in 1 .. docs[mode].lists[g].len :
                            arrays'[docs[mode].lists[g].array][i] = arrays[docs[mode].lists[g].array][i]
  PROVE  Agrees(g, e)'
<1>1. g \in TextField => docs'[mode'].text[g] = e.text[g]
  BY DEF Agrees
<1>2. g = "tags" => docs'[mode'].tags = e.tags
  BY DEF Agrees
<1>3. g = "no metadata" => NoMetadata(docs'[mode'])
  BY DEF Agrees
<1>4. ASSUME g \in List
      PROVE  /\ docs'[mode'].lists[g].len = Len(e[g])
             /\ \A i \in 1 .. Len(e[g]) : arrays'[docs'[mode'].lists[g].array][i] = Refined(g, e[g][i])
  BY <1>4 DEF Agrees
<1>5. NoMetadata(docs'[mode']) => NoMetadata(docs[mode])'
  BY DEF NoMetadata
<1> QED
  BY <1>1, <1>2, <1>3, <1>4, <1>5 DEF Agrees

\* A field has been read.
LEMMA Advance ==
  ASSUME NEW e, NEW f, Read(e), version \in {1, 2}, input \in Str, field \in 1 .. Fields(version),
         f = Layout[version][field], At(input, Place(e), Written(f, e)),
         UNCHANGED <<input, version>>, field' = field + 1, element' < 0, element' \in Int,
         off' = Place(e) + Len(Written(f, e)),
         Agrees(f, e)', \A i \in 1 .. (field - 1) : Agrees(Layout[version][i], e)'
  PROVE  Read(e)'
<1>1. e \in FitDocument /\ At(input, 1, Upto(Pieces(version, e), field))
  BY DEF Read
<1>2. PICK s \in Str : s = Upto(Pieces(version, e), field) /\ Len(s) \in Nat
  BY <1>1, PieceOf
<1>3. PICK u \in Str : u = Written(f, e) /\ Len(u) \in Nat
  BY <1>1, PieceOf, StrFacts
<1>4. Upto(Pieces(version, e), field + 1) = s \o u
  BY <1>1, <1>2, <1>3, PieceOf
<1>5. At(input, 1, s \o u)
  BY <1>1, <1>2, <1>3, AtConcat DEF Place
<1>6. Len(s \o u) = Len(s) + Len(u)
  BY StrOf
<1>7. off' = Place(e)'
  <2>1. Place(e)' = 1 + Len(s \o u)
    BY <1>4 DEF Place
  <2>2. off' = (1 + Len(s)) + Len(u)
    BY <1>2, <1>3 DEF Place
  <2> QED
    BY <1>2, <1>3, <1>6, <2>1, <2>2
<1>8. Fields(version) \in Nat
  BY PiecesAre, <1>1
<1>9. field' \in 1 .. (Fields(version) + 1)
  BY <1>8
<1>10. ASSUME NEW i \in 1 .. (field' - 1) PROVE Agrees(Layout[version][i], e)'
  <2>1. i \in 1 .. (field - 1) \/ i = field
    BY <1>8
  <2>2. CASE i = field
    <3>1. PICK g : g = Layout[version][i] /\ g = f
      BY <2>2
    <3>2. Agrees(g, e)'
      BY <3>1
    <3>3. g = Layout[version'][i]
      BY <3>1
    <3> QED
      BY <3>2, <3>3
  <2> QED
    BY <2>1, <2>2
<1>11. At(input', 1, Upto(Pieces(version', e), field'))
  BY <1>4, <1>5
<1>12. ~ (element' >= 0)
  OBVIOUS
<1> QED
  BY <1>1, <1>7, <1>9, <1>10, <1>11, <1>12 DEF Read

\* The fields that have been read are others than the one read next, and the metadata
\* and its absence are not in one layout.
LEMMA OtherFields ==
  ASSUME version \in {1, 2}, field \in 1 .. Fields(version), NEW i \in 1 .. (field - 1)
  PROVE  /\ i \in 1 .. Fields(version) /\ Layout[version][i] # Layout[version][field]
         /\ Layout[version][i] = "no metadata" => Layout[version][field] \notin Metadata
         /\ Layout[version][field] = "no metadata" => Layout[version][i] \notin Metadata
<1>1. Fields(version) \in Nat
  BY DEF Fields
<1>2. i \in 1 .. Fields(version) /\ i # field
  BY <1>1
<1> QED
  BY <1>2, LayoutIs

\* The field that a step reads.
LEMMA NextField ==
  ASSUME Inv, NEW f, Reads(f)
  PROVE  /\ status = "reading" /\ version \in {1, 2} /\ input \in Str /\ mode \in Mode
         /\ field \in 1 .. Fields(version) /\ f = Layout[version][field]
BY LayoutIs DEF Inv, CursorOK, Reads

\* The header of a config.
LEMMA HeaderRead ==
  ASSUME Inv, ReadHeader, off = 1, NEW v \in {1, 2}, At(input, 1, <<ConfigMagic, v>>),
         NEW e \in FitDocument
  PROVE  status' = "reading" /\ version' = v /\ Read(e)' /\ element' < 0
<1>1. input \in Str /\ status = "reading" /\ field = 0 /\ UNCHANGED <<input, element>>
  BY DEF Inv, CursorOK, ReadHeader
<1>2. element < 0
  <2>1. 0 \notin DOMAIN Layout[version]
    BY LayoutPositions DEF Inv, CursorOK
  <2> QED
    BY <1>1, <2>1, NoElement
<1>3. At(input, 1, <<ConfigMagic>>) /\ At(input, 2, <<v>>)
  <2>1. ConfigMagic \in Word /\ v \in Word
    BY SmallWords, CodecAssumption
  <2>2. At(input, 1 + 1, <<v>>) /\ At(input, 1, <<ConfigMagic>>)
    BY <1>1, <2>1, TwoAt
  <2> QED
    BY <2>2
<1>4. ReadWord(input, off) = [ok |-> TRUE, val |-> ConfigMagic, off |-> 2]
  <2>1. ReadWord(input, 1) = [ok |-> TRUE, val |-> ConfigMagic, off |-> 1 + 1]
    BY <1>1, <1>3, ReadWordAt
  <2> QED
    BY <2>1
<1>5. ReadWord(input, 2) = [ok |-> TRUE, val |-> v, off |-> 3]
  <2>1. ReadWord(input, 2) = [ok |-> TRUE, val |-> v, off |-> 2 + 1]
    BY <1>1, <1>3, ReadWordAt
  <2> QED
    BY <2>1
<1>6. off' = 3 /\ status' = "reading" /\ version' = v /\ field' = 1
  <2>1. PICK magic : magic = ReadWord(input, off)
    OBVIOUS
  <2>2. magic.ok = TRUE /\ magic.val = ConfigMagic /\ magic.off = 2
    BY <1>4, <2>1
  <2>3. PICK w : w = ReadWord(input, magic.off)
    OBVIOUS
  <2>4. w = [ok |-> TRUE, val |-> v, off |-> 3]
    BY <1>5, <2>2, <2>3
  <2>5. magic.ok /\ magic.val = ConfigMagic /\ w.ok /\ w.val \in {1, 2} /\ w.val = v
    BY <2>2, <2>4
  <2>6. /\ Past([w EXCEPT !.ok = magic.ok /\ magic.val = ConfigMagic /\ w.ok /\ w.val \in {1, 2}])
        /\ version' = w.val /\ field' = 1
    BY <2>1, <2>3, <2>5 DEF ReadHeader
  <2>7. PICK good \in BOOLEAN :
          good = (magic.ok /\ magic.val = ConfigMagic /\ w.ok /\ w.val \in {1, 2}) /\ good = TRUE
    BY <2>5
  <2>8. [w EXCEPT !.ok = good].off = 3 /\ [w EXCEPT !.ok = good].ok = TRUE
    BY <2>4, <2>7
  <2>9. off' = 3 /\ status' = "reading"
    BY <2>6, <2>7, <2>8 DEF Past
  <2> QED
    BY <2>5, <2>6, <2>9
<1>7. Upto(Pieces(v, e), 1) = <<ConfigMagic, v>> /\ Len(Upto(Pieces(v, e), 1)) = 2
  BY HeaderPiece
<1>8. Place(e)' = 3
  <2>1. Place(e)' = 1 + Len(Upto(Pieces(version', e), field'))
    BY DEF Place
  <2>2. PICK k : k = Len(Upto(Pieces(version', e), field'))
    OBVIOUS
  <2>3. k = 2
    BY <1>6, <1>7, <2>2, Zenon
  <2> QED
    BY <2>1, <2>2, <2>3
<1>9. field' \in 1 .. (Fields(version') + 1)
  BY <1>6 DEF Fields
<1>10. At(input', 1, Upto(Pieces(version', e), field'))
  BY <1>1, <1>6, <1>7
<1>11. element' < 0 /\ element' \in Int
  BY <1>1, <1>2 DEF Inv, CursorOK
<1>12. ASSUME NEW i \in 1 .. (field' - 1) PROVE Agrees(Layout[version][i], e)'
  BY <1>6
<1>13. Read(e)'
  BY <1>6, <1>8, <1>9, <1>10, <1>11, <1>12 DEF Read
<1> QED
  BY <1>6, <1>11, <1>13

\* A string.
LEMMA TextRead ==
  ASSUME Inv, Shaped, NEW e, Read(e), NEW f \in TextField, ReadText(f),
         At(input, off, PutString(e.text[f]))
  PROVE  status' = "reading" /\ Read(e)' /\ element' < 0
<1>1. /\ version \in {1, 2} /\ input \in Str /\ mode \in Mode
      /\ field \in 1 .. Fields(version) /\ f = Layout[version][field] /\ status = "reading"
  BY NextField DEF ReadText
<1>2. element < 0
  <2>1. Layout[version][field] \notin List
    BY <1>1 DEF TextField, List
  <2> QED
    BY <1>1, <2>1, NoElement
<1>3. e \in FitDocument /\ off = Place(e)
  BY <1>2 DEF Read
<1>4. e.text[f] \in Str /\ Short(e.text[f])
  BY <1>3 DEF FitDocument, FitStr
<1>5. ReadString(input, off) = Found(PutString(e.text[f]), e.text[f], off)
  BY <1>1, <1>4, ReadStringAt
<1>6. PICK r : r = ReadString(input, off)
  OBVIOUS
<1>7. r.ok = TRUE /\ r.val = e.text[f] /\ r.off = off + Len(PutString(e.text[f]))
  BY <1>5, <1>6 DEF Found
<1>8. /\ off' = r.off /\ status' = "reading" /\ field' = field + 1
      /\ docs' = [docs EXCEPT ![mode].text[f] = r.val]
      /\ UNCHANGED <<input, version, element, mode, arrays>>
  BY <1>6, <1>7 DEF ReadText, Past
<1>9. /\ docs'[mode].text[f] = e.text[f] /\ docs'[mode].tags = docs[mode].tags
      /\ \A g \in TextField : g # f => docs'[mode].text[g] = docs[mode].text[g]
      /\ docs'[mode].lists = docs[mode].lists
  <2>1. DOMAIN docs = Mode /\ DOMAIN docs[mode] = {"text", "tags", "lists"}
        /\ DOMAIN docs[mode].text = TextField
    BY <1>1 DEF Inv, MemoryOK, Good, IsDocument, Shaped
  <2> QED
    BY <1>1, <1>7, <1>8, <2>1
<1>10. Agrees(f, e)'
  <2>1. f # "tags" /\ f # "no metadata" /\ f \notin List
    BY DEF TextField, List
  <2> QED
    BY <1>8, <1>9, <2>1 DEF Agrees
<1>11. ASSUME NEW i \in 1 .. (field - 1) PROVE Agrees(Layout[version][i], e)'
  <2>1. PICK g : g = Layout[version][i]
    OBVIOUS
  <2>2. g # f /\ (g = "no metadata" => f \notin Metadata)
    BY <1>1, <2>1, OtherFields
  <2>3. Agrees(g, e)
    BY <2>1 DEF Read
  <2>4. g = "no metadata" => (NoMetadata(docs[mode]) => NoMetadata(docs'[mode]))
    BY <1>9, <2>2 DEF NoMetadata, Metadata, TextField
  <2>5. Agrees(g, e)'
    BY <1>8, <1>9, <2>2, <2>3, <2>4, AgreesStill
  <2> QED
    BY <1>8, <2>1, <2>5
<1>12. Written(f, e) = PutString(e.text[f])
  BY WrittenOf
<1>13. element' < 0 /\ element' \in Int
  BY <1>2, <1>8 DEF Inv, CursorOK
<1>14. Read(e)'
  BY <1>1, <1>3, <1>7, <1>8, <1>10, <1>11, <1>12, <1>13, Advance
<1> QED
  BY <1>2, <1>8, <1>14

\* The tags.
LEMMA TagsRead ==
  ASSUME Inv, Shaped, NEW e, Read(e), ReadTags, At(input, off, PutStrings(e.tags))
  PROVE  status' = "reading" /\ Read(e)' /\ element' < 0
<1>1. /\ version \in {1, 2} /\ input \in Str /\ mode \in Mode
      /\ field \in 1 .. Fields(version) /\ "tags" = Layout[version][field] /\ status = "reading"
  <2>1. Reads("tags")
    BY DEF ReadTags
  <2> QED
    BY <2>1, NextField
<1>2. element < 0
  <2>1. Layout[version][field] \notin List
    BY <1>1 DEF List
  <2> QED
    BY <1>1, <2>1, NoElement
<1>3. e \in FitDocument /\ off = Place(e)
  BY <1>2 DEF Read
<1>4. e.tags \in FitStrs
  BY <1>3 DEF FitDocument
<1>5. ReadMany(StringsOf(input), input, off) = Found(PutStrings(e.tags), e.tags, off)
  BY <1>1, <1>4, StringsAt
<1>6. PICK r : r = ReadMany(StringsOf(input), input, off)
  OBVIOUS
<1>7. r.ok = TRUE /\ r.val = e.tags /\ r.off = off + Len(PutStrings(e.tags))
  BY <1>5, <1>6 DEF Found
<1>8. /\ off' = r.off /\ status' = "reading" /\ field' = field + 1
      /\ docs' = [docs EXCEPT ![mode].tags = r.val]
      /\ UNCHANGED <<input, version, element, mode, arrays>>
  BY <1>6, <1>7 DEF ReadTags, Past, StringsOf
<1>9. /\ docs'[mode].tags = e.tags /\ docs'[mode].text = docs[mode].text
      /\ docs'[mode].lists = docs[mode].lists
  <2>1. DOMAIN docs = Mode /\ DOMAIN docs[mode] = {"text", "tags", "lists"}
    BY <1>1 DEF Inv, MemoryOK, Good, IsDocument
  <2> QED
    BY <1>1, <1>7, <1>8, <2>1
<1>10. Agrees("tags", e)'
  <2>1. "tags" \notin TextField /\ "tags" # "no metadata" /\ "tags" \notin List
    BY DEF TextField, List
  <2> QED
    BY <1>8, <1>9, <2>1 DEF Agrees
<1>11. ASSUME NEW i \in 1 .. (field - 1) PROVE Agrees(Layout[version][i], e)'
  <2>1. PICK g : g = Layout[version][i]
    OBVIOUS
  <2>2. g # "tags" /\ g # "no metadata"
    BY <1>1, <2>1, OtherFields DEF Metadata
  <2>3. Agrees(g, e)
    BY <2>1 DEF Read
  <2>4. Agrees(g, e)'
    BY <1>8, <1>9, <2>2, <2>3, AgreesStill
  <2> QED
    BY <1>8, <2>1, <2>4
<1>12. Written("tags", e) = PutStrings(e.tags)
  BY WrittenOf
<1>13. element' < 0 /\ element' \in Int
  BY <1>2, <1>8 DEF Inv, CursorOK
<1>14. Read(e)'
  BY <1>1, <1>3, <1>7, <1>8, <1>10, <1>11, <1>12, <1>13, Advance
<1> QED
  BY <1>2, <1>8, <1>14

\* No metadata, which are read from nothing.
LEMMA MetadataForgotten ==
  ASSUME Inv, Shaped, NEW e, Read(e), ForgetMetadata
  PROVE  status' = "reading" /\ Read(e)' /\ element' < 0
<1>1. /\ version \in {1, 2} /\ input \in Str /\ mode \in Mode
      /\ field \in 1 .. Fields(version) /\ "no metadata" = Layout[version][field] /\ status = "reading"
  <2>1. Reads("no metadata")
    BY DEF ForgetMetadata
  <2> QED
    BY <2>1, NextField
<1>2. element < 0
  <2>1. Layout[version][field] \notin List
    BY <1>1 DEF List
  <2> QED
    BY <1>1, <2>1, NoElement
<1>3. e \in FitDocument /\ off = Place(e)
  BY <1>2 DEF Read
<1> DEFINE cleared == [f \in TextField |-> IF f \in {"description", "displayName", "category"}
                                             THEN <<>> ELSE docs[mode].text[f]]
<1>4. /\ field' = field + 1
      /\ docs' = [docs EXCEPT ![mode].tags = <<>>, ![mode].text = cleared]
      /\ UNCHANGED <<input, off, version, element, mode, status, arrays>>
  BY DEF ForgetMetadata
<1>5. /\ \A f \in {"description", "displayName", "category"} : cleared[f] = <<>>
      /\ \A f \in TextField : f \notin Metadata => cleared[f] = docs[mode].text[f]
  BY DEF TextField, Metadata
<1> HIDE DEF cleared
<1>6. /\ docs'[mode].tags = <<>> /\ docs'[mode].text = cleared
      /\ docs'[mode].lists = docs[mode].lists
  <2>1. DOMAIN docs = Mode /\ DOMAIN docs[mode] = {"text", "tags", "lists"}
    BY <1>1 DEF Inv, MemoryOK, Good, IsDocument
  <2> QED
    BY <1>1, <1>4, <2>1
<1>7. Agrees("no metadata", e)'
  <2>1. "no metadata" \notin TextField /\ "tags" # "no metadata" /\ "no metadata" \notin List
    BY DEF TextField, List
  <2>2. NoMetadata(docs'[mode])
    BY <1>5, <1>6 DEF NoMetadata
  <2>3. NoMetadata(docs[mode])'
    BY <1>4, <2>2
  <2> QED
    BY <2>1, <2>3 DEF Agrees
<1>8. ASSUME NEW i \in 1 .. (field - 1) PROVE Agrees(Layout[version][i], e)'
  <2>1. PICK g : g = Layout[version][i]
    OBVIOUS
  <2>2. g # "no metadata" /\ g # "tags" /\ g \notin Metadata
    BY <1>1, <2>1, OtherFields DEF Metadata
  <2>3. Agrees(g, e)
    BY <2>1 DEF Read
  <2>4. Agrees(g, e)'
    BY <1>4, <1>5, <1>6, <2>2, <2>3, AgreesStill
  <2> QED
    BY <1>4, <2>1, <2>4
<1>9. Written("no metadata", e) = <<>> /\ Len(<<>>) = 0
  BY WrittenOf
<1>10. element' < 0 /\ element' \in Int
  BY <1>2, <1>4 DEF Inv, CursorOK
<1>11. At(input, Place(e), Written("no metadata", e))
       /\ off' = Place(e) + Len(Written("no metadata", e))
  <2>1. off \in Offset(input) /\ Len(input) \in Nat
    BY <1>1, StrFacts DEF Shaped
  <2>2. off \in Nat \ {0} /\ off + 0 <= Len(input) + 1 /\ off + 0 = off /\ Len(<<>>) = 0
    BY <2>1 DEF Offset
  <2>3. At(input, off, <<>>)
    BY <2>2 DEF At
  <2> QED
    BY <1>3, <1>4, <1>9, <2>2, <2>3
<1>12. Read(e)'
  BY <1>1, <1>4, <1>7, <1>8, <1>10, <1>11, Advance
<1> QED
  BY <1>1, <1>2, <1>4, <1>12

\* A list is written as its length and its elements, one after the other.
LEMMA ListPiece ==
  ASSUME NEW l \in List, NEW e \in FitDocument
  PROVE  LET w == Mapped(e[l], PutOf(l))
         IN /\ Len(e[l]) \in Nat /\ Len(e[l]) \in Word /\ <<Len(e[l])>> \in Str
            /\ w \in Seq(Str) /\ Len(w) = Len(e[l])
            /\ \A i \in 1 .. Len(e[l]) : e[l][i] \in FitOf(l) /\ w[i] = PutOf(l)[e[l][i]]
            /\ Upto(w, 0) = <<>>
            /\ \A k \in 0 .. Len(e[l]) : Upto(w, k) \in Str /\ Len(Upto(w, k)) \in Nat
            /\ \A k \in 0 .. (Len(e[l]) - 1) : Upto(w, k + 1) = Upto(w, k) \o w[k + 1]
            /\ Written(l, e) = <<Len(e[l])>> \o Upto(w, Len(e[l]))
            /\ Len(Written(l, e)) = 1 + Len(Upto(w, Len(e[l])))
<1>1. e[l] \in Seq(FitOf(l)) /\ Short(e[l])
  BY DEF List, FitDocument, FitLists
<1>2. PICK n \in Nat : n = Len(e[l]) /\ DOMAIN e[l] = 1 .. n
                       /\ \A i \in 1 .. n : e[l][i] \in FitOf(l)
  BY <1>1, LenProperties, ElementOfSeq
<1>3. PICK put : put = PutOf(l) /\ put \in [FitOf(l) -> Str]
  BY PutOfIs
<1>4. PICK w \in Seq(Str) : w = Mapped(e[l], put) /\ Len(w) = n
  BY <1>1, <1>2, <1>3, MappedIs
<1>5. \A i \in 1 .. n : w[i] = put[e[l][i]]
  BY <1>2, <1>4 DEF Mapped
<1>6. \A k \in 0 .. n : Upto(w, k) \in Str /\ Len(Upto(w, k)) \in Nat
  BY <1>4, UptoIs, StrFacts
<1>7. Upto(w, 0) = <<>> /\ Upto(w, n) = FlattenSeq(w)
      /\ \A k \in 0 .. (n - 1) : Upto(w, k + 1) = Upto(w, k) \o w[k + 1]
  BY <1>4, UptoIs
<1>8. n \in Word /\ <<n>> \in Str /\ PutAll(e[l], put) = <<n>> \o Upto(w, n)
      /\ Len(PutAll(e[l], put)) = 1 + Len(Upto(w, n))
  <2>1. /\ Len(e[l]) \in Word /\ <<Len(e[l])>> \in Str
        /\ PutAll(e[l], put) = <<Len(e[l])>> \o FlattenSeq(Mapped(e[l], put))
        /\ Len(PutAll(e[l], put)) = 1 + Len(FlattenSeq(Mapped(e[l], put)))
    BY <1>1, <1>3, PutAllOf
  <2> QED
    BY <1>2, <1>4, <1>7, <2>1
<1>9. Written(l, e) = PutAll(e[l], put)
  BY <1>3, WrittenOf
<1> QED
  BY <1>2, <1>3, <1>4, <1>5, <1>6, <1>7, <1>8, <1>9

\* The count of a list.
LEMMA CountRead ==
  ASSUME Inv, Shaped, NEW e, Read(e), NEW l \in List, ReadListCount(l), NEW n,
         At(input, off, <<n>>), n = 0 => Len(e[l]) = 0
  PROVE  /\ status' = "reading" /\ Read(e)' /\ docs'[mode].lists[l].len = n
         /\ n # 0 => element' = 0 /\ field' = field
         /\ n = 0 => element' < 0
<1>1. /\ version \in {1, 2} /\ input \in Str /\ mode \in Mode
      /\ field \in 1 .. Fields(version) /\ l = Layout[version][field] /\ status = "reading"
  <2>1. Reads(l)
    BY DEF ReadListCount
  <2> QED
    BY <2>1, NextField
<1>2. e \in FitDocument /\ off = Place(e) /\ element < 0
  BY DEF Read, ReadListCount
<1>3. PICK r : r = ReadWord(input, off)
  OBVIOUS
<1>4. r.ok = TRUE /\ r.val = n /\ r.off = off + 1
  <2>1. r = [ok |-> TRUE, val |-> n, off |-> off + 1]
    BY <1>1, <1>3, ReadWordAt
  <2> QED
    BY <2>1
<1>5. /\ n \in Nat /\ mode' = mode
      /\ \A a \in DOMAIN arrays : a \in DOMAIN arrays' /\ arrays'[a] = arrays[a]
      /\ docs'[mode].text = docs[mode].text /\ docs'[mode].tags = docs[mode].tags
      /\ \A k \in List : k # l => docs'[mode].lists[k] = docs[mode].lists[k]
      /\ docs'[mode].lists[l].len = n
  BY <1>3, <1>4, CountMemory
<1>6. off' = off + 1 /\ status' = "reading" /\ UNCHANGED <<input, version, mode>> /\ Element(0, n)
  BY <1>3, <1>4 DEF ReadListCount, Past
<1>7. \A k \in List : docs[mode].lists[k].array \in DOMAIN arrays
  BY <1>1 DEF Inv, MemoryOK, Good, Allocated
<1>8. ASSUME NEW i \in 1 .. (field - 1) PROVE Agrees(Layout[version][i], e)'
  <2>1. PICK g : g = Layout[version][i]
    OBVIOUS
  <2>2. g # l
    BY <1>1, <2>1, OtherFields
  <2>3. Agrees(g, e)
    BY <2>1 DEF Read
  <2>4. g = "no metadata" => (NoMetadata(docs[mode]) => NoMetadata(docs'[mode]))
    BY <1>5 DEF NoMetadata
  <2>5. Agrees(g, e)'
    BY <1>5, <1>7, <2>2, <2>3, <2>4, AgreesStill
  <2> QED
    BY <1>6, <2>1, <2>5
<1> DEFINE w == Mapped(e[l], PutOf(l))
<1>9. /\ Upto(w, 0) = <<>> /\ Len(e[l]) \in Nat
      /\ Written(l, e) = <<Len(e[l])>> \o Upto(w, Len(e[l]))
      /\ Len(Written(l, e)) = 1 + Len(Upto(w, Len(e[l])))
  BY <1>2, ListPiece
<1> HIDE DEF w
<1>10. CASE n = 0
  <2>1. Len(e[l]) = 0 /\ <<0>> \o <<>> = <<0>>
    <3>1. <<0>> \in Seq(Word)
      BY SmallWords
    <3> QED
      BY <1>10, <3>1, ConcatEmptySeq
  <2>2. Written(l, e) = <<0>>
    BY <1>9, <2>1
  <2>3. Len(Written(l, e)) = 1
    BY <2>2
  <2>4. field' = field + 1 /\ element' < 0 /\ element' \in Int
    BY <1>6, <1>10 DEF Element
  <2>5. Agrees(l, e)'
    <3>1. l \notin TextField /\ l # "tags" /\ l # "no metadata"
      BY DEF TextField, List
    <3>2. docs'[mode'].lists[l].len = Len(e[l])
      BY <1>5, <1>10, <2>1
    <3>3. \A i \in 1 .. Len(e[l]) : arrays'[docs'[mode'].lists[l].array][i] = Refined(l, e[l][i])
      BY <2>1
    <3> QED
      BY <3>1, <3>2, <3>3 DEF Agrees
  <2>6. At(input, Place(e), Written(l, e)) /\ off' = Place(e) + Len(Written(l, e))
    BY <1>2, <1>6, <1>10, <2>2, <2>3
  <2>7. Read(e)'
    BY <1>1, <1>6, <1>8, <2>4, <2>5, <2>6, Advance
  <2> QED
    BY <1>5, <1>6, <1>10, <2>4, <2>7
<1>11. CASE n # 0
  <2>1. field' = field /\ element' = 0
    BY <1>6, <1>11 DEF Element
  <2>2. Place(e)' = Place(e)
    BY <1>6, <2>1 DEF Place
  <2>3. Partly(l, e)'
    <3>1. At(input, off + 1, <<>>) /\ Len(<<>>) = 0 /\ off + 1 + 0 = off'
      <4>1. off \in 1 .. Len(input) /\ Len(input) \in Nat /\ Len(<<>>) = 0
        BY <1>1, AtWord, StrFacts
      <4>2. off + 1 \in Nat \ {0} /\ (off + 1) + 0 <= Len(input) + 1 /\ off + 1 + 0 = off + 1
        BY <4>1
      <4> QED
        BY <1>6, <4>1, <4>2 DEF At
    <3>2. element' <= Len(e[l])
      BY <1>9, <2>1
    <3>3. At(input', Place(e)', <<docs'[mode'].lists[l].len>>)
      BY <1>2, <1>5, <1>6, <2>2
    <3>4. At(input', Place(e)' + 1, Upto(w, element')) /\ off' = Place(e)' + 1 + Len(Upto(w, element'))
      BY <1>2, <1>6, <1>9, <2>1, <2>2, <3>1
    <3>5. \A i \in 1 .. element' :
            arrays'[docs'[mode'].lists[l].array][i] = Refined(l, e[l][i])
      BY <2>1
    <3> QED
      BY <3>2, <3>3, <3>4, <3>5 DEF Partly, w
  <2>4. At(input', 1, Upto(Pieces(version', e), field'))
    BY <1>6, <2>1 DEF Read
  <2>5. field' \in 1 .. (Fields(version') + 1)
    BY <1>6, <2>1 DEF Read
  <2>6. ASSUME NEW i \in 1 .. (field' - 1) PROVE Agrees(Layout[version][i], e)'
    BY <1>8, <2>1
  <2>7. Partly(Layout[version][field], e)'
    <3>1. l = Layout[version'][field']
      BY <1>1, <1>6, <2>1
    <3> QED
      BY <2>3, <3>1
  <2>8. Read(e)'
    BY <1>2, <2>1, <2>4, <2>5, <2>6, <2>7 DEF Read
  <2> QED
    BY <1>5, <1>6, <1>11, <2>1, <2>8
<1> QED
  BY <1>10, <1>11

\* An element of a list.
LEMMA ElementRead ==
  ASSUME Inv, Shaped, NEW e, Read(e), NEW l \in List, ReadElement(l), element + 1 <= Len(e[l]),
         At(input, off, PutOf(l)[e[l][element + 1]]),
         element + 1 = docs[mode].lists[l].len => Len(e[l]) = element + 1
  PROVE  /\ status' = "reading" /\ Read(e)' /\ docs' = docs
         /\ element + 1 # docs[mode].lists[l].len => element' = element + 1 /\ field' = field
         /\ element + 1 = docs[mode].lists[l].len => element' < 0
<1>1. /\ version \in {1, 2} /\ input \in Str /\ mode \in Mode
      /\ field \in 1 .. Fields(version) /\ l = Layout[version][field] /\ status = "reading"
  <2>1. Reads(l)
    BY DEF ReadElement
  <2> QED
    BY <2>1, NextField
<1> DEFINE w == Mapped(e[l], PutOf(l))
           k == element
           a == docs[mode].lists[l].array
           n == docs[mode].lists[l].len
           s == PutOf(l)[e[l][k + 1]]
<1>2. e \in FitDocument /\ k \in Nat /\ Partly(l, e)
  <2>1. element \in Nat
    BY DEF ReadElement, Inv, CursorOK
  <2>2. e \in FitDocument /\ (element >= 0 => Partly(Layout[version][field], e))
    BY DEF Read
  <2> QED
    BY <1>1, <2>1, <2>2
<1>3. /\ Len(e[l]) \in Nat /\ \A i \in 1 .. Len(e[l]) : e[l][i] \in FitOf(l)
      /\ w \in Seq(Str) /\ Len(w) = Len(e[l]) /\ w[k + 1] = s
      /\ Upto(w, k) \in Str /\ Upto(w, k + 1) = Upto(w, k) \o s
      /\ <<Len(e[l])>> \in Str /\ Len(Upto(w, k)) \in Nat
      /\ Upto(w, Len(e[l])) \in Str
      /\ Written(l, e) = <<Len(e[l])>> \o Upto(w, Len(e[l]))
      /\ Len(Written(l, e)) = 1 + Len(Upto(w, Len(e[l])))
  <2>1. Len(e[l]) \in Nat /\ k + 1 \in 1 .. Len(e[l]) /\ k \in 0 .. Len(e[l])
        /\ k \in 0 .. (Len(e[l]) - 1) /\ Len(e[l]) \in 0 .. Len(e[l])
    BY <1>2, ListPiece
  <2> QED
    BY <1>2, <2>1, ListPiece
<1>4. PICK x \in FitOf(l) : x = e[l][k + 1] /\ PutOf(l)[x] = s /\ s \in Str /\ Len(s) \in Nat
  <2>1. k + 1 \in 1 .. Len(e[l])
    BY <1>2, <1>3
  <2> QED
    BY <1>3, <2>1, PutOfIs, StrFacts
<1>5. PICK r : r = ReadOne(l, input, off)
  OBVIOUS
<1>6. r.ok = TRUE /\ r.val = Refined(l, x) /\ r.off = off + Len(s)
  <2>1. r = Found(s, Refined(l, x), off)
    BY <1>1, <1>4, <1>5, ElementAt
  <2> QED
    BY <2>1 DEF Found
<1>7. /\ UNCHANGED <<mode, docs>> /\ k + 1 \in 1 .. n
      /\ a \in DOMAIN arrays /\ a # 1
      /\ \A b \in DOMAIN arrays : b # a => arrays'[b] = arrays[b]
      /\ arrays'[a][k + 1] = Refined(l, x)
      /\ \A i \in 1 .. k : arrays'[a][i] = arrays[a][i]
  BY <1>5, <1>6, ElementMemory
<1>8. off' = off + Len(s) /\ status' = "reading" /\ UNCHANGED <<input, version>> /\ Element(k + 1, n)
  BY <1>5, <1>6 DEF ReadElement, Past
<1>9. \A g \in List : g # l => docs[mode].lists[g].array # a /\ docs[mode].lists[g].array \in DOMAIN arrays
  BY <1>1, <1>7 DEF Inv, MemoryOK, Good, Allocated, Shaped
<1>10. /\ At(input, Place(e), <<n>>) /\ At(input, Place(e) + 1, Upto(w, k))
       /\ off = Place(e) + 1 + Len(Upto(w, k))
       /\ \A i \in 1 .. k : arrays[a][i] = Refined(l, e[l][i])
  BY <1>2 DEF Partly
<1> HIDE DEF w, a, n, s, k
<1>11. ASSUME NEW i \in 1 .. (field - 1) PROVE Agrees(Layout[version][i], e)'
  <2>1. PICK g : g = Layout[version][i]
    OBVIOUS
  <2>2. g # l
    BY <1>1, <2>1, OtherFields
  <2>3. Agrees(g, e)
    BY <2>1 DEF Read
  <2>4. g \in List => arrays'[docs[mode].lists[g].array] = arrays[docs[mode].lists[g].array]
    BY <1>7, <1>9, <2>2
  <2>5. Agrees(g, e)'
    BY <1>7, <2>3, <2>4, AgreesStill
  <2> QED
    BY <1>8, <2>1, <2>5
<1>12. \A i \in 1 .. (k + 1) : arrays'[a][i] = Refined(l, e[l][i])
  <2>1. \A i \in 1 .. (k + 1) : i \in 1 .. k \/ i = k + 1
    BY <1>2
  <2> QED
    BY <1>4, <1>7, <1>10, <2>1
<1>13. PICK p \in Nat : p = Place(e) /\ p + 1 + Len(Upto(w, k)) = off
  BY <1>1, <1>10, AtWord
<1>14. At(input, p + 1, Upto(w, k + 1)) /\ off' = p + 1 + Len(Upto(w, k + 1))
  <2>1. At(input, (p + 1) + Len(Upto(w, k)), s)
    BY <1>4, <1>13 DEF s, k
  <2>2. At(input, p + 1, Upto(w, k) \o s)
    BY <1>1, <1>3, <1>4, <1>10, <1>13, <2>1, AtConcat
  <2>3. Len(Upto(w, k) \o s) = Len(Upto(w, k)) + Len(s)
    BY <1>3, <1>4, StrOf
  <2>4. PICK u : u = Upto(w, k + 1) /\ u = Upto(w, k) \o s
    BY <1>3
  <2>5. At(input, p + 1, u) /\ Len(u) = Len(Upto(w, k)) + Len(s)
    BY <2>2, <2>3, <2>4
  <2>6. At(input, p + 1, Upto(w, k + 1)) /\ Len(Upto(w, k + 1)) = Len(u)
    BY <2>4, <2>5, Zenon
  <2>7. off' = p + 1 + Len(u)
    BY <1>3, <1>4, <1>8, <1>13, <2>5
  <2> QED
    BY <2>6, <2>7
<1>15. CASE k + 1 = n
  <2>1. Len(e[l]) = n
    BY <1>15 DEF k, n
  <2>2. field' = field + 1 /\ element' < 0 /\ element' \in Int
    BY <1>8, <1>15 DEF Element
  <2>3. Agrees(l, e)'
    <3>1. l \notin TextField /\ l # "tags" /\ l # "no metadata"
      BY DEF TextField, List
    <3>2. docs'[mode'].lists[l].len = Len(e[l])
          /\ \A i \in 1 .. Len(e[l]) : arrays'[docs'[mode'].lists[l].array][i] = Refined(l, e[l][i])
      BY <1>7, <1>12, <1>15, <2>1 DEF a, n
    <3> QED
      BY <3>1, <3>2 DEF Agrees
  <2>4. PICK u \in Str : u = Upto(w, n) /\ u = Upto(w, k + 1)
    BY <1>3, <1>15, <2>1
  <2>5. At(input, p, <<n>>) /\ At(input, p + 1, u) /\ <<n>> \in Str /\ Len(<<n>>) = 1
    BY <1>3, <1>10, <1>13, <1>14, <2>1, <2>4
  <2>6. At(input, p, <<n>> \o u)
    BY <1>1, <2>5, AtConcat
  <2>7. Written(l, e) = <<n>> \o u /\ Len(Written(l, e)) = 1 + Len(u)
    BY <1>3, <2>1, <2>4
  <2>8. Len(u) \in Nat /\ off' = p + 1 + Len(u)
    BY <1>14, <2>4, StrFacts
  <2>9. At(input, Place(e), Written(l, e)) /\ off' = Place(e) + Len(Written(l, e))
    BY <1>13, <2>6, <2>7, <2>8
  <2>10. Read(e)'
    BY <1>1, <1>8, <1>11, <2>2, <2>3, <2>9, Advance
  <2> QED
    BY <1>7, <1>8, <1>15, <2>2, <2>10 DEF k, n
<1>16. CASE k + 1 # n
  <2>1. field' = field /\ element' = k + 1
    BY <1>8, <1>16 DEF Element
  <2>2. Place(e)' = Place(e)
    BY <1>8, <2>1 DEF Place
  <2>3. Partly(l, e)'
    <3>1. element' <= Len(e[l])
      BY <2>1 DEF k
    <3>2. At(input', Place(e)', <<docs'[mode'].lists[l].len>>)
      BY <1>7, <1>8, <1>10, <2>2 DEF n
    <3>3. At(input', Place(e)' + 1, Upto(w, element')) /\ off' = Place(e)' + 1 + Len(Upto(w, element'))
      BY <1>8, <1>13, <1>14, <2>1, <2>2
    <3>4. \A i \in 1 .. element' :
            arrays'[docs'[mode'].lists[l].array][i] = Refined(l, e[l][i])
      BY <1>7, <1>12, <2>1 DEF a
    <3> QED
      BY <3>1, <3>2, <3>3, <3>4 DEF Partly, w
  <2>4. At(input', 1, Upto(Pieces(version', e), field'))
    BY <1>8, <2>1 DEF Read
  <2>5. field' \in 1 .. (Fields(version') + 1)
    BY <1>8, <2>1 DEF Read
  <2>6. ASSUME NEW i \in 1 .. (field' - 1) PROVE Agrees(Layout[version][i], e)'
    BY <1>11, <2>1
  <2>7. Partly(Layout[version][field], e)'
    <3>1. l = Layout[version'][field']
      BY <1>1, <1>8, <2>1
    <3> QED
      BY <2>3, <3>1
  <2>8. element' >= 0 /\ ~(element' < 0)
    BY <1>2, <2>1
  <2>9. Read(e)'
    BY <1>2, <2>4, <2>5, <2>6, <2>7, <2>8 DEF Read
  <2> QED
    BY <1>7, <1>8, <1>16, <2>1, <2>9 DEF k, n
<1> QED
  BY <1>15, <1>16

-----------------------------------------------------------------------------
(* Documents that differ in one field                                       *)

\* e with x in the field f.
With(f, e, x) ==
  [text |-> IF f \in TextField THEN [e.text EXCEPT ![f] = x] ELSE e.text,
   tags |-> IF f = "tags" THEN x ELSE e.tags,
   services |-> IF f = "services" THEN x ELSE e.services,
   methods |-> IF f = "methods" THEN x ELSE e.methods,
   relations |-> IF f = "relations" THEN x ELSE e.relations]

AlikeBut(f, e, d) ==
  /\ \A g \in TextField : g # f => d.text[g] = e.text[g]
  /\ f # "tags" => d.tags = e.tags
  /\ \A g \in List : g # f => d[g] = e[g]

LEMMA WithText ==
  ASSUME NEW e \in FitDocument, NEW f \in TextField, NEW x \in FitStr
  PROVE  LET d == With(f, e, x) IN d \in FitDocument /\ AlikeBut(f, e, d) /\ d.text[f] = x
<1> DEFINE d == With(f, e, x)
<1>1. e.text \in [TextField -> FitStr] /\ e.tags \in FitStrs /\ e.services \in FitLists("services")
      /\ e.methods \in FitLists("methods") /\ e.relations \in FitLists("relations")
  BY DEF FitDocument
<1>2. f # "tags" /\ f # "services" /\ f # "methods" /\ f # "relations"
  BY DEF TextField
<1>3. d = [text |-> [e.text EXCEPT ![f] = x], tags |-> e.tags, services |-> e.services,
           methods |-> e.methods, relations |-> e.relations]
  BY <1>2 DEF With
<1>4. [e.text EXCEPT ![f] = x] \in [TextField -> FitStr]
  BY <1>1
<1>5. d \in FitDocument
  BY <1>1, <1>3, <1>4 DEF FitDocument
<1>6. d.text[f] = x /\ \A g \in TextField : g # f => d.text[g] = e.text[g]
  BY <1>1, <1>3
<1>7. d.tags = e.tags /\ \A g \in List : d[g] = e[g]
  BY <1>3 DEF List
<1> QED
  BY <1>5, <1>6, <1>7 DEF AlikeBut

LEMMA WithTags ==
  ASSUME NEW e \in FitDocument, NEW x \in FitStrs
  PROVE  LET d == With("tags", e, x) IN d \in FitDocument /\ AlikeBut("tags", e, d) /\ d.tags = x
<1> DEFINE d == With("tags", e, x)
<1>1. e.text \in [TextField -> FitStr] /\ e.services \in FitLists("services")
      /\ e.methods \in FitLists("methods") /\ e.relations \in FitLists("relations")
  BY DEF FitDocument
<1>2. "tags" \notin TextField
  BY DEF TextField
<1>3. d = [text |-> e.text, tags |-> x, services |-> e.services,
           methods |-> e.methods, relations |-> e.relations]
  BY <1>2 DEF With
<1>4. d \in FitDocument
  BY <1>1, <1>3 DEF FitDocument
<1>5. d.tags = x /\ d.text = e.text /\ \A g \in List : d[g] = e[g]
  BY <1>3 DEF List
<1> QED
  BY <1>4, <1>5 DEF AlikeBut

LEMMA WithList ==
  ASSUME NEW e \in FitDocument, NEW l \in List, NEW x \in FitLists(l)
  PROVE  LET d == With(l, e, x) IN d \in FitDocument /\ AlikeBut(l, e, d) /\ d[l] = x
<1> DEFINE d == With(l, e, x)
<1>1. e.text \in [TextField -> FitStr] /\ e.tags \in FitStrs /\ e.services \in FitLists("services")
      /\ e.methods \in FitLists("methods") /\ e.relations \in FitLists("relations")
  BY DEF FitDocument
<1>2. l \notin TextField /\ l # "tags"
  BY DEF TextField, List
<1>3. d = [text |-> e.text, tags |-> e.tags,
           services |-> IF l = "services" THEN x ELSE e.services,
           methods |-> IF l = "methods" THEN x ELSE e.methods,
           relations |-> IF l = "relations" THEN x ELSE e.relations]
  BY <1>2 DEF With
<1>4. CASE l = "services"
  <2>1. d = [text |-> e.text, tags |-> e.tags, services |-> x, methods |-> e.methods,
             relations |-> e.relations]
    BY <1>3, <1>4
  <2>2. d \in FitDocument
    BY <1>1, <1>4, <2>1 DEF FitDocument
  <2> QED
    BY <1>4, <2>1, <2>2 DEF AlikeBut, List
<1>5. CASE l = "methods"
  <2>1. d = [text |-> e.text, tags |-> e.tags, services |-> e.services, methods |-> x,
             relations |-> e.relations]
    BY <1>3, <1>5
  <2>2. d \in FitDocument
    BY <1>1, <1>5, <2>1 DEF FitDocument
  <2> QED
    BY <1>5, <2>1, <2>2 DEF AlikeBut, List
<1>6. CASE l = "relations"
  <2>1. d = [text |-> e.text, tags |-> e.tags, services |-> e.services, methods |-> e.methods,
             relations |-> x]
    BY <1>3, <1>6
  <2>2. d \in FitDocument
    BY <1>1, <1>6, <2>1 DEF FitDocument
  <2> QED
    BY <1>6, <2>1, <2>2 DEF AlikeBut, List
<1> QED
  BY <1>4, <1>5, <1>6 DEF List

FieldName == TextField \cup List \cup {"tags", "no metadata"}

\* The fields in which two documents are alike are written alike.
LEMMA WrittenAlike ==
  ASSUME NEW f, NEW e, NEW d, AlikeBut(f, e, d), NEW g \in FieldName, g # f
  PROVE  Written(g, d) = Written(g, e)
<1>1. CASE g \in TextField
  <2>1. d.text[g] = e.text[g]
    BY <1>1 DEF AlikeBut
  <2> QED
    BY <1>1, <2>1, WrittenOf
<1>2. CASE g \in List
  <2>1. d[g] = e[g]
    BY <1>2 DEF AlikeBut
  <2> QED
    BY <1>2, <2>1, WrittenOf
<1>3. CASE g = "tags"
  BY <1>3, WrittenOf DEF AlikeBut
<1>4. CASE g = "no metadata"
  BY <1>4, WrittenOf
<1> QED
  BY <1>1, <1>2, <1>3, <1>4 DEF FieldName

\* Documents that are alike before a field are written alike up to it.
LEMMA UptoAlike ==
  ASSUME NEW v \in {1, 2}, NEW k \in 1 .. Fields(v), NEW e \in FitDocument, NEW d \in FitDocument,
         AlikeBut(Layout[v][k], e, d)
  PROVE  Upto(Pieces(v, d), k) = Upto(Pieces(v, e), k)
<1>1. PICK n \in Nat : n = Fields(v)
  BY PiecesAre
<1>2. \A i \in 1 .. k : Pieces(v, d)[i] = Pieces(v, e)[i]
  <2> SUFFICES ASSUME NEW i \in 1 .. k PROVE Pieces(v, d)[i] = Pieces(v, e)[i]
    OBVIOUS
  <2>1. CASE i = 1
    BY <2>1, PiecesAre
  <2>2. CASE i # 1
    <3>1. PICK j \in 1 .. n : j = i - 1 /\ j + 1 = i /\ j # k
      BY <1>1, <2>2
    <3>2. Layout[v][j] # Layout[v][k] /\ Layout[v][j] \in TextField \cup List \cup {"tags", "no metadata"}
      BY <1>1, <3>1, LayoutIs
    <3>3. Written(Layout[v][j], d) = Written(Layout[v][j], e)
      <4>1. PICK g, f : g = Layout[v][j] /\ f = Layout[v][k] /\ g \in FieldName
        BY <3>2 DEF FieldName
      <4>2. g # f /\ AlikeBut(f, e, d)
        BY <3>2, <4>1
      <4>3. Written(g, d) = Written(g, e)
        BY <4>1, <4>2, WrittenAlike
      <4> QED
        BY <4>1, <4>3
    <3>4. Pieces(v, d)[j + 1] = Written(Layout[v][j], d) /\ Pieces(v, e)[j + 1] = Written(Layout[v][j], e)
      BY <1>1, <3>1, PiecesAre
    <3> QED
      BY <3>1, <3>3, <3>4
  <2> QED
    BY <2>1, <2>2
<1>3. First(Pieces(v, d), k) = First(Pieces(v, e), k)
  BY <1>2 DEF First
<1> QED
  BY <1>3 DEF Upto

\* What has been read of a document has been read of one that is alike but for the field
\* that is read next.
LEMMA ReadAlike ==
  ASSUME version \in {1, 2}, field \in 1 .. Fields(version), NEW e, Read(e), NEW d \in FitDocument,
         AlikeBut(Layout[version][field], e, d)
  PROVE  /\ Place(d) = Place(e)
         /\ element < 0 /\ element \in Int => Read(d)
         /\ element >= 0 /\ element \in Int /\ Partly(Layout[version][field], d) => Read(d)
<1>1. e \in FitDocument
  BY DEF Read
<1>2. Upto(Pieces(version, d), field) = Upto(Pieces(version, e), field)
  BY <1>1, UptoAlike
<1>3. Place(d) = Place(e)
  BY <1>2 DEF Place
<1>4. ASSUME NEW i \in 1 .. (field - 1) PROVE Agrees(Layout[version][i], d)
  <2>1. PICK g : g = Layout[version][i]
    OBVIOUS
  <2>2. g # Layout[version][field]
    BY <2>1, OtherFields
  <2>3. Agrees(g, e)
    BY <2>1 DEF Read
  <2>4. /\ g \in TextField => d.text[g] = e.text[g]
        /\ g = "tags" => d.tags = e.tags
        /\ g \in List => d[g] = e[g]
    BY <2>2 DEF AlikeBut
  <2>5. Agrees(g, d)
    BY <2>3, <2>4 DEF Agrees
  <2> QED
    BY <2>1, <2>5
<1>5. field \in 1 .. (Fields(version) + 1) /\ At(input, 1, Upto(Pieces(version, d), field))
  BY <1>2 DEF Read
<1>6. element < 0 /\ element \in Int => off = Place(d) /\ ~(element >= 0)
  BY <1>3 DEF Read
<1>7. element >= 0 /\ element \in Int => ~(element < 0)
  OBVIOUS
<1> QED
  BY <1>3, <1>4, <1>5, <1>6, <1>7 DEF Read

\* One more element leaves what is written of those before it.
LEMMA UptoGrows ==
  ASSUME NEW w \in Seq(Str), NEW x, NEW k \in 0 .. Len(w)
  PROVE  Upto(Append(w, x), k) = Upto(w, k)
<1>1. Len(w) \in Nat
  BY LenProperties
<1>2. \A i \in 1 .. k : Append(w, x)[i] = w[i]
  BY <1>1
<1>3. First(Append(w, x), k) = First(w, k)
  BY <1>2 DEF First
<1> QED
  BY <1>3 DEF Upto

\* What has been read of a document whose list ends here has been read of one whose list
\* has one more element.
LEMMA ListGrows ==
  ASSUME version \in {1, 2}, field \in 1 .. Fields(version), NEW e, Read(e), element \in Nat,
         NEW l \in List, l = Layout[version][field], Len(e[l]) = element,
         NEW x \in FitOf(l), element + 1 < W
  PROVE  LET d == With(l, e, Append(e[l], x))
         IN d \in FitDocument /\ Read(d) /\ Len(d[l]) = element + 1 /\ d[l][element + 1] = x
<1>1. e \in FitDocument /\ Partly(l, e)
  BY DEF Read
<1>2. e[l] \in Seq(FitOf(l))
  BY <1>1 DEF List, FitDocument, FitLists
<1>3. PICK list : list = Append(e[l], x)
  OBVIOUS
<1>4. list \in Seq(FitOf(l)) /\ Len(list) = element + 1 /\ list[element + 1] = x
      /\ \A i \in 1 .. element : list[i] = e[l][i]
  BY <1>2, <1>3
<1>5. list \in FitLists(l)
  BY <1>4 DEF FitLists, Short
<1>6. PICK d \in FitDocument : d = With(l, e, list) /\ AlikeBut(l, e, d) /\ d[l] = list
  BY <1>1, <1>5, WithList
<1>7. Place(d) = Place(e)
  BY <1>6, ReadAlike
<1>8. PICK put : put = PutOf(l) /\ put \in [FitOf(l) -> Str]
  BY PutOfIs
<1>9. PICK w \in Seq(Str) : w = Mapped(e[l], put) /\ Len(w) = element
                            /\ Mapped(list, put) = Append(w, put[x])
  BY <1>2, <1>3, <1>8, MappedIs
<1>10. Upto(Append(w, put[x]), element) = Upto(w, element)
  <2>1. element \in 0 .. Len(w)
    BY <1>9
  <2> QED
    BY <2>1, UptoGrows
<1>11. /\ At(input, Place(e), <<docs[mode].lists[l].len>>)
       /\ At(input, Place(e) + 1, Upto(w, element))
       /\ off = Place(e) + 1 + Len(Upto(w, element))
       /\ \A i \in 1 .. element : arrays[docs[mode].lists[l].array][i] = Refined(l, e[l][i])
  BY <1>1, <1>8, <1>9 DEF Partly
<1>12. Mapped(d[l], PutOf(l)) = Append(w, put[x])
  BY <1>6, <1>8, <1>9
<1>13. Upto(Mapped(d[l], PutOf(l)), element) = Upto(w, element)
  BY <1>10, <1>12
<1>14. element <= Len(d[l]) /\ \A i \in 1 .. element : d[l][i] = e[l][i]
  BY <1>4, <1>6
<1>15. Partly(l, d)
  BY <1>7, <1>11, <1>13, <1>14 DEF Partly
<1>16. Read(d)
  BY <1>6, <1>15, ReadAlike
<1> QED
  BY <1>3, <1>4, <1>6, <1>16

\* There is a document.
LEMMA SomeDocument == \E e : e \in FitDocument
<1>1. <<>> \in FitStr /\ <<>> \in FitStrs /\ \A l \in List : <<>> \in FitLists(l)
  <2>1. Len(<<>>) < W
    BY WordsAssumption
  <2>2. <<>> \in Str /\ <<>> \in Seq(FitStr) /\ \A l \in List : <<>> \in Seq(FitOf(l))
    BY StrOf
  <2> QED
    BY <2>1, <2>2 DEF FitStr, FitStrs, FitLists, Short
<1>2. [f \in TextField |-> <<>>] \in [TextField -> FitStr]
  BY <1>1
<1>3. [text |-> [f \in TextField |-> <<>>], tags |-> <<>>, services |-> <<>>, methods |-> <<>>,
       relations |-> <<>>] \in FitDocument
  BY <1>1, <1>2 DEF FitDocument, List
<1> QED
  BY <1>3

-----------------------------------------------------------------------------
(* What is read is spelled out                                              *)

\* While a config is read there is a document of which all that was read was written.
Followed ==
  status = "reading" =>
    IF field = 0 THEN off = 1
    ELSE \E e : Read(e) /\ (element >= 0 => Len(e[Layout[version][field]]) = element)

LEMMA FollowedHeader ==
  ASSUME Inv, Shaped, Followed, ReadHeader, status' = "reading"
  PROVE  Followed'
<1>1. off = 1 /\ input \in Str /\ off \in Offset(input)
  BY DEF Followed, ReadHeader, Inv, CursorOK, Shaped
<1>2. PICK m : m = ReadWord(input, off)
  OBVIOUS
<1>3. PICK v : v = ReadWord(input, m.off)
  OBVIOUS
<1>4. Past([v EXCEPT !.ok = m.ok /\ m.val = ConfigMagic /\ v.ok /\ v.val \in {1, 2}])
  BY <1>2, <1>3 DEF ReadHeader
<1>5. m.ok /\ m.val = ConfigMagic /\ v.ok /\ v.val \in {1, 2}
  <2>1. PICK good \in BOOLEAN : good = (m.ok /\ m.val = ConfigMagic /\ v.ok /\ v.val \in {1, 2})
    OBVIOUS
  <2>2. v = [ok |-> v.ok, val |-> v.val, off |-> v.off]
    BY <1>3 DEF ReadWord
  <2>3. [v EXCEPT !.ok = good].ok = good
    BY <2>2
  <2>4. status' = IF [v EXCEPT !.ok = good].ok THEN "reading" ELSE "error"
    BY <1>4, <2>1 DEF Past
  <2> QED
    BY <2>1, <2>3, <2>4
<1>6. m.off \in Offset(input) /\ At(input, 1, <<ConfigMagic>>) /\ m.off = 1 + 1
  <2>1. m.val \in Word /\ Honest(input, off, m, <<m.val>>)
    BY <1>1, <1>2, ReadWordIs
  <2>2. At(input, off, <<m.val>>) /\ m.off = off + Len(<<m.val>>) /\ m.off \in Offset(input)
    BY <1>5, <2>1 DEF Honest
  <2>3. Len(<<m.val>>) = 1
    BY <2>1, StrOf
  <2> QED
    BY <1>1, <1>5, <2>2, <2>3
<1>7. At(input, 1 + 1, <<v.val>>)
  <2>1. Honest(input, m.off, v, <<v.val>>)
    BY <1>1, <1>3, <1>6, ReadWordIs
  <2> QED
    BY <1>5, <1>6, <2>1 DEF Honest
<1>8. At(input, 1, <<ConfigMagic, v.val>>)
  <2>1. ConfigMagic \in Word /\ v.val \in Word
    BY <1>5, SmallWords, CodecAssumption
  <2> QED
    BY <1>1, <1>6, <1>7, <2>1, TwoAt
<1>9. PICK w \in {1, 2} : w = v.val
  BY <1>5
<1>10. PICK e \in FitDocument : TRUE
  BY SomeDocument
<1>11. Read(e)' /\ element' < 0
  BY <1>1, <1>8, <1>9, HeaderRead
<1>12. ~(field' = 0) /\ (element' < 0 => ~(element' >= 0))
  <2>1. element' \in Int
    BY DEF ReadHeader, Inv, CursorOK
  <2>2. field' = 1
    BY <1>2, <1>3, <1>5 DEF ReadHeader
  <2> QED
    BY <2>1, <2>2
<1>13. \E d : Read(d)' /\ (element' >= 0 => Len(d[Layout[version'][field']]) = element')
  BY <1>11, <1>12
<1> QED
  BY <1>12, <1>13 DEF Followed

\* A document of which all that was read was written, after a step that reads no element
\* or the last one, or that leaves the field as it was.
LEMMA FollowedBy ==
  ASSUME status' = "reading" => field' \in Nat \ {0}, NEW e, status' = "reading" => Read(e)',
         status' = "reading" => \/ element' < 0 /\ element' \in Int
                                \/ Len(e[Layout[version'][field']]) = element'
  PROVE  Followed'
<1> SUFFICES ASSUME status' = "reading" PROVE Followed'
  BY DEF Followed
<1>1. ~(field' = 0) /\ (element' < 0 /\ element' \in Int => ~(element' >= 0))
  OBVIOUS
<1>2. Read(e)' /\ (element' >= 0 => Len(e[Layout[version'][field']]) = element')
  BY <1>1
<1>3. \E d : Read(d)' /\ (element' >= 0 => Len(d[Layout[version'][field']]) = element')
  BY <1>2
<1> QED
  BY <1>1, <1>3 DEF Followed

\* The document that has been followed while a field is read.
LEMMA Following ==
  ASSUME Inv, Followed, NEW f, Reads(f)
  PROVE  /\ version \in {1, 2} /\ field \in 1 .. Fields(version) /\ f = Layout[version][field]
         /\ input \in Str /\ element \in Int /\ status = "reading" /\ field \in Nat \ {0}
         /\ \E e \in FitDocument : Read(e) /\ (element >= 0 => Len(e[f]) = element)
<1>1. /\ version \in {1, 2} /\ field \in 1 .. Fields(version) /\ f = Layout[version][field]
      /\ input \in Str /\ status = "reading"
  BY NextField
<1>2. element \in Int /\ field \in Nat
  BY DEF Inv, CursorOK
<1>3. field # 0
  BY <1>1
<1>4. PICK e : Read(e) /\ (element >= 0 => Len(e[Layout[version][field]]) = element)
  BY <1>1, <1>3 DEF Followed
<1>5. e \in FitDocument
  BY <1>4 DEF Read
<1> QED
  BY <1>1, <1>2, <1>3, <1>4, <1>5

LEMMA FollowedText ==
  ASSUME Inv, Shaped, Followed, NEW f \in TextField, ReadText(f)
  PROVE  Followed'
<1>1. Reads(f)
  BY DEF ReadText
<1>2. PICK e \in FitDocument : Read(e)
  BY <1>1, Following
<1>3. version \in {1, 2} /\ field \in 1 .. Fields(version) /\ f = Layout[version][field]
      /\ input \in Str /\ off \in Offset(input) /\ field \in Nat \ {0}
  BY <1>1, Following DEF Shaped
<1>4. PICK r : r = ReadString(input, off)
  OBVIOUS
<1>5. status' = IF r.ok THEN "reading" ELSE "error"
  BY <1>4 DEF ReadText, Past
<1>6. field' = field + 1 /\ element' = element /\ element < 0 /\ element \in Int
  <2>1. f \notin List
    BY DEF TextField, List
  <2>2. element < 0
    BY <1>1, <1>3, <2>1, NoElement DEF Reads
  <2> QED
    BY <2>2 DEF ReadText, Inv, CursorOK
<1>7. CASE ~r.ok
  BY <1>5, <1>7 DEF Followed
<1>8. CASE r.ok
  <2>1. r.val \in FitStr /\ Honest(input, off, r, PutString(r.val))
    BY <1>3, <1>4, StringIsFit
  <2>2. At(input, off, PutString(r.val))
    BY <1>8, <2>1 DEF Honest
  <2>3. PICK d \in FitDocument : AlikeBut(f, e, d) /\ d.text[f] = r.val
    BY <1>2, <2>1, WithText
  <2>4. Read(d)
    BY <1>2, <1>3, <1>6, <2>3, ReadAlike
  <2>5. At(input, off, PutString(d.text[f]))
    BY <2>2, <2>3
  <2>6. Read(d)'
    BY <2>4, <2>5, TextRead
  <2>7. field' \in Nat \ {0} /\ element' < 0 /\ element' \in Int
    BY <1>3, <1>6
  <2> QED
    BY <2>6, <2>7, FollowedBy
<1> QED
  BY <1>7, <1>8

LEMMA FollowedTags ==
  ASSUME Inv, Shaped, Followed, ReadTags
  PROVE  Followed'
<1>1. Reads("tags")
  BY DEF ReadTags
<1>2. PICK e \in FitDocument : Read(e)
  BY <1>1, Following
<1>3. version \in {1, 2} /\ field \in 1 .. Fields(version) /\ "tags" = Layout[version][field]
      /\ input \in Str /\ off \in Offset(input) /\ field \in Nat \ {0}
  BY <1>1, Following DEF Shaped
<1>4. PICK r : r = ReadMany(StringsOf(input), input, off)
  OBVIOUS
<1>5. status' = IF r.ok THEN "reading" ELSE "error"
  BY <1>4 DEF ReadTags, Past, StringsOf
<1>6. field' = field + 1 /\ element' = element /\ element < 0 /\ element \in Int
  <2>1. "tags" \notin List
    BY DEF List
  <2>2. element < 0
    BY <1>1, <1>3, <2>1, NoElement DEF Reads
  <2> QED
    BY <2>2 DEF ReadTags, Inv, CursorOK
<1>7. CASE ~r.ok
  BY <1>5, <1>7 DEF Followed
<1>8. CASE r.ok
  <2>1. r.val \in FitStrs /\ Honest(input, off, r, PutStrings(r.val))
    BY <1>3, <1>4, StringsAre
  <2>2. At(input, off, PutStrings(r.val))
    BY <1>8, <2>1 DEF Honest
  <2>3. PICK d \in FitDocument : AlikeBut("tags", e, d) /\ d.tags = r.val
    BY <1>2, <2>1, WithTags
  <2>4. Read(d)
    BY <1>2, <1>3, <1>6, <2>3, ReadAlike
  <2>5. At(input, off, PutStrings(d.tags))
    BY <2>2, <2>3
  <2>6. Read(d)'
    BY <2>4, <2>5, TagsRead
  <2>7. field' \in Nat \ {0} /\ element' < 0 /\ element' \in Int
    BY <1>3, <1>6
  <2> QED
    BY <2>6, <2>7, FollowedBy
<1> QED
  BY <1>7, <1>8

LEMMA FollowedForgetting ==
  ASSUME Inv, Shaped, Followed, ForgetMetadata
  PROVE  Followed'
<1>1. Reads("no metadata")
  BY DEF ForgetMetadata
<1>2. PICK e \in FitDocument : Read(e)
  BY <1>1, Following
<1>3. Read(e)' /\ element' < 0
  BY <1>2, MetadataForgotten
<1>4. field \in Nat \ {0} /\ field' = field + 1 /\ element' = element /\ element \in Int
  BY <1>1, Following DEF ForgetMetadata
<1> QED
  BY <1>3, <1>4, FollowedBy

LEMMA FollowedCount ==
  ASSUME Inv, Shaped, Followed, NEW l \in List, ReadListCount(l)
  PROVE  Followed'
<1>1. Reads(l) /\ element < 0
  BY DEF ReadListCount
<1>2. PICK e \in FitDocument : Read(e)
  BY <1>1, Following
<1>3. version \in {1, 2} /\ field \in 1 .. Fields(version) /\ l = Layout[version][field]
      /\ input \in Str /\ off \in Offset(input) /\ field \in Nat \ {0} /\ element \in Int
  BY <1>1, Following DEF Shaped
<1>4. PICK r : r = ReadWord(input, off)
  OBVIOUS
<1>5. status' = IF r.ok THEN "reading" ELSE "error"
  BY <1>4 DEF ReadListCount, Past
<1>6. CASE ~r.ok
  BY <1>5, <1>6 DEF Followed
<1>7. CASE r.ok
  <2>1. Honest(input, off, r, <<r.val>>)
    BY <1>3, <1>4, ReadWordIs
  <2>2. At(input, off, <<r.val>>)
    BY <1>7, <2>1 DEF Honest
  <2>3. <<>> \in FitLists(l) /\ Len(<<>>) = 0
    <3>1. <<>> \in Seq(FitOf(l)) /\ Len(<<>>) = 0
      OBVIOUS
    <3> QED
      BY <3>1, WordsAssumption DEF FitLists, Short
  <2>4. PICK d \in FitDocument : AlikeBut(l, e, d) /\ d[l] = <<>>
    BY <1>2, <2>3, WithList
  <2>5. Read(d)
    BY <1>1, <1>2, <1>3, <2>4, ReadAlike
  <2>6. Len(d[l]) = 0
    BY <2>3, <2>4
  <2>7. /\ Read(d)' /\ (r.val # 0 => element' = 0 /\ field' = field)
        /\ (r.val = 0 => element' < 0)
    BY <2>2, <2>5, <2>6, CountRead
  <2>8. Element(0, r.val) /\ version' = version
    BY <1>4, <1>7 DEF ReadListCount
  <2>9. field' \in Nat \ {0} /\ element' \in Int
    BY <1>3, <2>8 DEF Element
  <2>10. element' < 0 \/ Len(d[Layout[version'][field']]) = element'
    BY <1>3, <2>6, <2>7, <2>8
  <2> QED
    BY <2>7, <2>9, <2>10, FollowedBy
<1> QED
  BY <1>6, <1>7

LEMMA FollowedElement ==
  ASSUME Inv, Shaped, Followed, NEW l \in List, ReadElement(l)
  PROVE  Followed'
<1>1. Reads(l) /\ element \in Nat
  BY DEF ReadElement, Inv, CursorOK
<1>2. PICK e \in FitDocument : Read(e) /\ Len(e[l]) = element
  BY <1>1, Following
<1>3. version \in {1, 2} /\ field \in 1 .. Fields(version) /\ l = Layout[version][field]
      /\ input \in Str /\ off \in Offset(input) /\ field \in Nat \ {0}
  BY <1>1, Following DEF Shaped
<1>4. PICK r : r = ReadOne(l, input, off)
  OBVIOUS
<1>5. status' = IF r.ok THEN "reading" ELSE "error"
  BY <1>4 DEF ReadElement, Past
<1>6. CASE ~r.ok
  BY <1>5, <1>6 DEF Followed
<1>7. CASE r.ok
  <2>1. PICK x \in FitOf(l) : At(input, off, PutOf(l)[x])
    BY <1>3, <1>4, <1>7, ElementIs
  <2>2. PICK n : n = docs[mode].lists[l].len
    OBVIOUS
  <2>3. element + 1 < W
    <3>1. At(input, Place(e), <<n>>)
      <4>1. Read(e) /\ element >= 0
        BY <1>1, <1>2
      <4>2. Partly(l, e)
        BY <1>3, <4>1 DEF Read
      <4> QED
        BY <2>2, <4>2 DEF Partly
    <3>2. n \in Word
      BY <1>3, <3>1, AtWord, StrFacts
    <3>3. element + 1 \in 1 .. n
      BY <1>4, <1>7, <2>2, ElementMemory
    <3> QED
      BY <1>1, <3>2, <3>3, WordsAssumption DEF Word
  <2>4. PICK d \in FitDocument : Read(d) /\ Len(d[l]) = element + 1 /\ d[l][element + 1] = x
    BY <1>1, <1>2, <1>3, <2>3, ListGrows
  <2>5. At(input, off, PutOf(l)[d[l][element + 1]]) /\ element + 1 <= Len(d[l])
    BY <1>1, <2>1, <2>4
  <2>6. /\ Read(d)'
        /\ element + 1 # n => element' = element + 1 /\ field' = field
        /\ element + 1 = n => element' < 0
    BY <2>2, <2>4, <2>5, ElementRead
  <2>7. Element(element + 1, n) /\ version' = version
    BY <1>4, <1>7, <2>2 DEF ReadElement
  <2>8. field' \in Nat \ {0} /\ element' \in Int
    BY <1>1, <1>3, <2>7 DEF Element
  <2>9. element' < 0 \/ Len(d[Layout[version'][field']]) = element'
    BY <1>3, <2>4, <2>6, <2>7
  <2> QED
    BY <2>6, <2>8, <2>9, FollowedBy
<1> QED
  BY <1>6, <1>7

\* Whatever is read.
LEMMA FollowedStep == Inv /\ Shaped /\ Followed /\ [Next]_vars => Followed'
<1> SUFFICES ASSUME Inv, Shaped, Followed, [Next]_vars PROVE Followed'
  OBVIOUS
<1>1. CASE \E m \in {"kept", "new"}, data \in Input : Start(m, data)
  BY <1>1 DEF Start, Followed
<1>2. CASE ReadHeader
  <2>1. CASE status' = "reading"
    BY <1>2, <2>1, FollowedHeader
  <2>2. CASE status' # "reading"
    BY <2>2 DEF Followed
  <2> QED
    BY <2>1, <2>2
<1>3. CASE (\E f \in TextField : ReadText(f)) \/ ReadTags \/ ForgetMetadata
  BY <1>3, FollowedText, FollowedTags, FollowedForgetting
<1>4. CASE \E l \in List : ReadListCount(l)
  BY <1>4, FollowedCount
<1>5. CASE \E l \in List : ReadElement(l)
  BY <1>5, FollowedElement
<1>6. CASE Finish
  BY <1>6 DEF Finish, Followed
<1>7. CASE UNCHANGED vars
  BY <1>7 DEF vars, Followed, Read, Place, Agrees, Partly, NoMetadata
<1> QED
  BY <1>1, <1>2, <1>3, <1>4, <1>5, <1>6, <1>7 DEF Next

-----------------------------------------------------------------------------
(* What is returned                                                         *)

\* The part of a part is that part.
LEMMA PartOfPart ==
  ASSUME NEW s, Sequence(s), NEW n \in Nat, n <= Len(s)
  PROVE  /\ SubSeq(SubSeq(s, 1, n), 1, n) = SubSeq(s, 1, n)
         /\ SubSeq(s, 1, n) = [i \in 1 .. n |-> s[i]]
<1>1. PICK T : s \in Seq(T)
  BY DEF Sequence
<1>2. PICK u : u = SubSeq(s, 1, n)
  OBVIOUS
<1>3. u \in Seq(T) /\ Len(u) = n /\ u = [i \in 1 .. n |-> s[i]]
  BY <1>1, <1>2
<1>4. SubSeq(u, 1, n) = [i \in 1 .. n |-> u[i]]
  BY <1>3
<1>5. SubSeq(u, 1, n) = u
  BY <1>3, <1>4
<1> QED
  BY <1>2, <1>3, <1>5

\* The document that is returned says what the document read into says.
LEMMA ReturnedContent ==
  ASSUME Inv, Shaped, Finish, status' = "ok"
  PROVE  ContentOf(handed[Len(handed)])' = ContentOf(docs[mode])
<1> DEFINE d == docs[mode]
<1>1. mode \in Mode /\ Good(d) /\ Sequence(arrays) /\ Sequence(handed)
  BY DEF Inv, CursorOK, MemoryOK
<1>2. ASSUME NEW c, handed' = Append(handed, c), c.text = d.text, c.tags = d.tags,
             \A l \in List : SubSeq(arrays'[c.lists[l].array], 1, c.lists[l].len)
                               = Elements(d.lists[l])
      PROVE  ContentOf(handed[Len(handed)])' = ContentOf(d)
  <2>1. handed'[Len(handed')] = c
    <3>1. PICK T : handed \in Seq(T)
      BY <1>1 DEF Sequence
    <3>2. handed \in Seq(T \cup {c})
      BY <3>1
    <3>3. Len(Append(handed, c)) = Len(handed) + 1 /\ Append(handed, c)[Len(handed) + 1] = c
      BY <3>2
    <3> QED
      BY <1>2, <3>3
  <2>2. ContentOf(handed[Len(handed)])'
          = [text |-> c.text, tags |-> c.tags,
             services |-> SubSeq(arrays'[c.lists["services"].array], 1, c.lists["services"].len),
             methods |-> SubSeq(arrays'[c.lists["methods"].array], 1, c.lists["methods"].len),
             relations |-> SubSeq(arrays'[c.lists["relations"].array], 1, c.lists["relations"].len)]
    BY <2>1 DEF ContentOf, Elements
  <2>3. "services" \in List /\ "methods" \in List /\ "relations" \in List
    BY DEF List
  <2> QED
    BY <1>2, <2>2, <2>3 DEF ContentOf
<1>3. CASE handed' = Append(handed, d) /\ UNCHANGED arrays
  <2>1. \A l \in List : SubSeq(arrays'[d.lists[l].array], 1, d.lists[l].len) = Elements(d.lists[l])
    BY <1>3 DEF Elements
  <2> QED
    BY <1>2, <1>3, <2>1
<1>4. CASE handed' = Append(handed, Clone(d)) /\ arrays' = arrays \o CloneArrays(d)
  <2> DEFINE x == Elements(d.lists["services"])
             y == Elements(d.lists["methods"])
             z == Elements(d.lists["relations"])
  <2>1. PICK T : arrays \in Seq(T)
    BY <1>1 DEF Sequence
  <2>2. arrays' = arrays \o <<x, y, z>>
    BY <1>4 DEF CloneArrays
  <2>3. PICK n \in Nat : n = Len(arrays)
    BY <2>1, LenProperties
  <2>4. arrays'[n + 1] = x /\ arrays'[n + 2] = y /\ arrays'[n + 3] = z
    <3> HIDE DEF x, y, z
    <3>1. arrays \in Seq(T \cup {x, y, z}) /\ <<x, y, z>> \in Seq(T \cup {x, y, z})
      BY <2>1
    <3> QED
      BY <2>2, <2>3, <3>1
  <2>5. Clone(d).text = d.text /\ Clone(d).tags = d.tags
        /\ \A l \in List : /\ Clone(d).lists[l].array = n + Rank[l]
                           /\ Clone(d).lists[l].len = d.lists[l].len
    BY <1>1, <2>3 DEF Clone, Good, IsDocument
  <2>6. Rank["services"] = 1 /\ Rank["methods"] = 2 /\ Rank["relations"] = 3
    BY DEF Rank, List
  <2>7. ASSUME NEW l \in List
        PROVE  /\ arrays'[n + Rank[l]] = Elements(d.lists[l])
               /\ SubSeq(Elements(d.lists[l]), 1, d.lists[l].len) = Elements(d.lists[l])
    <3>1. arrays'[n + Rank[l]] = Elements(d.lists[l])
      <4>1. CASE l = "services"
        BY <2>4, <2>6, <4>1
      <4>2. CASE l = "methods"
        BY <2>4, <2>6, <4>2
      <4>3. CASE l = "relations"
        BY <2>4, <2>6, <4>3
      <4> QED
        BY <4>1, <4>2, <4>3 DEF List
    <3>2. d.lists[l].len \in Nat /\ d.lists[l].array \in DOMAIN arrays
      BY <1>1 DEF Good, IsDocument, Allocated, Slice
    <3>3. Sequence(arrays[d.lists[l].array]) /\ d.lists[l].len <= Len(arrays[d.lists[l].array])
      BY <1>1, <3>2 DEF Shaped
    <3>4. PICK s, m : m \in Nat /\ s = arrays[d.lists[l].array] /\ m = d.lists[l].len
                              /\ Sequence(s) /\ m <= Len(s)
      BY <3>2, <3>3
    <3>5. SubSeq(SubSeq(s, 1, m), 1, m) = SubSeq(s, 1, m)
      BY <3>4, PartOfPart
    <3> QED
      BY <3>1, <3>4, <3>5 DEF Elements
  <2>8. \A l \in List : SubSeq(arrays'[Clone(d).lists[l].array], 1, Clone(d).lists[l].len)
                          = Elements(d.lists[l])
    BY <2>5, <2>7
  <2> QED
    BY <1>2, <1>4, <2>5, <2>8
<1> QED
  BY <1>3, <1>4 DEF Finish

\* What has been read of a document to its end.
LEMMA ContentIs ==
  ASSUME Inv, Shaped, NEW e, Read(e), field = Fields(version) + 1
  PROVE  LET d == ContentOf(docs[mode])
         IN /\ d = [text |-> d.text, tags |-> d.tags, services |-> d.services,
                    methods |-> d.methods, relations |-> d.relations]
            /\ d.text \in [TextField -> Str]
            /\ \A f \in {"name", "relationsName", "route"} : d.text[f] = e.text[f]
            /\ version = 2 => d.text = e.text /\ d.tags = e.tags
            /\ version = 1 => NoMetadata(d)
            /\ \A l \in List : d[l] = [i \in 1 .. Len(e[l]) |-> Refined(l, e[l][i])]
<1> DEFINE d == docs[mode]
           c == ContentOf(d)
<1>1. version \in {1, 2} /\ mode \in Mode /\ e \in FitDocument /\ Good(d)
  BY DEF Inv, CursorOK, MemoryOK, Read
<1>2. \A i \in 1 .. Fields(version) : Agrees(Layout[version][i], e)
  BY DEF Read, Fields
<1>3. c = [text |-> d.text, tags |-> d.tags, services |-> Elements(d.lists["services"]),
           methods |-> Elements(d.lists["methods"]), relations |-> Elements(d.lists["relations"])]
  BY DEF ContentOf
<1>4. d.text \in [TextField -> Str]
  BY <1>1 DEF Shaped
<1>5. \A l \in List : c[l] = Elements(d.lists[l])
  BY <1>3 DEF List
<1>6. ASSUME NEW l \in List, Agrees(l, e)
      PROVE  c[l] = [i \in 1 .. Len(e[l]) |-> Refined(l, e[l][i])]
  <2>1. d.lists[l].len \in Nat /\ d.lists[l].array \in DOMAIN arrays
    BY <1>1 DEF Good, IsDocument, Allocated, Slice
  <2>2. Sequence(arrays[d.lists[l].array]) /\ d.lists[l].len <= Len(arrays[d.lists[l].array])
    BY <1>1, <2>1 DEF Shaped
  <2>3. PICK s, m : m \in Nat /\ s = arrays[d.lists[l].array] /\ m = d.lists[l].len
                            /\ Sequence(s) /\ m <= Len(s)
    BY <2>1, <2>2
  <2>4. SubSeq(s, 1, m) = [i \in 1 .. m |-> s[i]]
    BY <2>3, PartOfPart
  <2>5. c[l] = [i \in 1 .. m |-> s[i]]
    BY <1>5, <2>3, <2>4 DEF Elements
  <2>6. m = Len(e[l]) /\ \A i \in 1 .. m : s[i] = Refined(l, e[l][i])
    BY <1>6, <2>3 DEF Agrees
  <2> QED
    BY <2>5, <2>6
<1>7. \A f \in TextField : Agrees(f, e) => d.text[f] = e.text[f]
  BY DEF Agrees
<1>8. Agrees("tags", e) => d.tags = e.tags
  BY DEF Agrees
<1>9. Agrees("no metadata", e) => NoMetadata(d)
  BY DEF Agrees
<1>10. NoMetadata(d) => NoMetadata(c)
  BY <1>3 DEF NoMetadata
<1> HIDE DEF c, d
<1>11. c.text = d.text /\ c.tags = d.tags /\ e.text \in [TextField -> FitStr]
  BY <1>1, <1>3 DEF FitDocument
<1>12. CASE version = 1
  <2>1. \A i \in 1 .. 7 : Agrees(Layout[1][i], e)
    BY <1>2, <1>12 DEF Fields
  <2>2. /\ Agrees("name", e) /\ Agrees("relationsName", e) /\ Agrees("no metadata", e)
        /\ Agrees("route", e) /\ Agrees("services", e) /\ Agrees("methods", e)
        /\ Agrees("relations", e)
    <3>1. /\ Agrees(Layout[1][1], e) /\ Agrees(Layout[1][2], e) /\ Agrees(Layout[1][3], e)
          /\ Agrees(Layout[1][4], e) /\ Agrees(Layout[1][5], e) /\ Agrees(Layout[1][6], e)
          /\ Agrees(Layout[1][7], e)
      BY <2>1
    <3> QED
      BY <3>1, LayoutOf, Zenon
  <2>3. \A f \in {"name", "relationsName", "route"} : c.text[f] = e.text[f]
    BY <1>7, <1>11, <2>2 DEF TextField
  <2>4. NoMetadata(c)
    BY <1>9, <1>10, <2>2
  <2>5. \A l \in List : c[l] = [i \in 1 .. Len(e[l]) |-> Refined(l, e[l][i])]
    BY <1>6, <2>2 DEF List
  <2>6. c = [text |-> c.text, tags |-> c.tags, services |-> c.services,
             methods |-> c.methods, relations |-> c.relations]
    BY <1>3
  <2> QED
    BY <1>4, <1>11, <1>12, <2>3, <2>4, <2>5, <2>6 DEF c, d
<1>13. CASE version = 2
  <2>1. \A i \in 1 .. 10 : Agrees(Layout[2][i], e)
    BY <1>2, <1>13 DEF Fields
  <2>2. /\ Agrees("name", e) /\ Agrees("relationsName", e) /\ Agrees("description", e)
        /\ Agrees("displayName", e) /\ Agrees("category", e) /\ Agrees("tags", e)
        /\ Agrees("route", e) /\ Agrees("services", e) /\ Agrees("methods", e)
        /\ Agrees("relations", e)
    <3>1. /\ Agrees(Layout[2][1], e) /\ Agrees(Layout[2][2], e) /\ Agrees(Layout[2][3], e)
          /\ Agrees(Layout[2][4], e) /\ Agrees(Layout[2][5], e) /\ Agrees(Layout[2][6], e)
          /\ Agrees(Layout[2][7], e) /\ Agrees(Layout[2][8], e) /\ Agrees(Layout[2][9], e)
          /\ Agrees(Layout[2][10], e)
      BY <2>1
    <3> QED
      BY <3>1, LayoutOf, Zenon
  <2>3. \A f \in TextField : c.text[f] = e.text[f]
    BY <1>7, <1>11, <2>2 DEF TextField
  <2>4. c.text = e.text
    BY <1>4, <1>11, <2>3
  <2>5. \A l \in List : c[l] = [i \in 1 .. Len(e[l]) |-> Refined(l, e[l][i])]
    BY <1>6, <2>2 DEF List
  <2>6. c = [text |-> c.text, tags |-> c.tags, services |-> c.services,
             methods |-> c.methods, relations |-> c.relations]
    BY <1>3
  <2>7. \A f \in {"name", "relationsName", "route"} : c.text[f] = e.text[f]
    BY <2>3 DEF TextField
  <2>8. c.tags = e.tags
    BY <1>8, <1>11, <2>2
  <2> QED
    BY <1>4, <1>11, <1>13, <2>4, <2>5, <2>6, <2>7, <2>8 DEF c, d
<1> QED
  BY <1>1, <1>12, <1>13

\* A config whose end has been reached with nothing left is what was read, whole.
LEMMA EndIsWhole ==
  ASSUME Inv, Shaped, NEW e, Read(e), field = Fields(version) + 1, status = "reading"
  PROVE  /\ Whole(version, e) \in Str /\ off = 1 + Len(Whole(version, e))
         /\ At(input, 1, Whole(version, e))
         /\ off > Len(input) => input = Whole(version, e)
<1>1. version \in {1, 2} /\ e \in FitDocument /\ input \in Str
  BY DEF Inv, CursorOK, Read
<1>2. PICK n \in Nat : n = Fields(version) /\ DOMAIN Layout[version] = 1 .. n /\ field = n + 1
  BY <1>1, PiecesAre, LayoutIs
<1>3. element < 0
  <2>1. field \notin DOMAIN Layout[version]
    BY <1>2
  <2> QED
    BY <2>1, NoElement
<1>4. PICK p \in Seq(Str) : p = Pieces(version, e) /\ Len(p) = field
  BY <1>1, <1>2, PiecesAre
<1>5. PICK s : s = Whole(version, e) /\ s = Upto(p, field)
  BY <1>4, UptoIs DEF Whole
<1>6. s \in Str
  <2>1. field \in 0 .. Len(p)
    BY <1>2, <1>4
  <2> QED
    BY <1>4, <1>5, <2>1, UptoIs
<1>7. off = 1 + Len(s) /\ At(input, 1, s)
  BY <1>3, <1>4, <1>5 DEF Read, Place
<1>8. off > Len(input) => input = s
  <2>1. Len(s) \in Nat /\ Len(input) \in Nat
    BY <1>1, <1>6, StrFacts
  <2>2. 1 + Len(s) <= Len(input) + 1
    BY <1>7 DEF At
  <2>3. off > Len(input) => Len(s) = Len(input)
    BY <1>7, <2>1, <2>2
  <2> QED
    BY <1>1, <1>6, <1>7, <2>3, AtWhole
<1> QED
  BY <1>5, <1>6, <1>7, <1>8

\* A method whose reference is trimmed is the method again with the reference as it was
\* spelled, and has its counts.
LEMMA RefinedMethodIs ==
  ASSUME NEW m \in FitMethod
  PROVE  /\ RefinedMethod(m).ref = RefOf[m.ref]
         /\ [RefinedMethod(m) EXCEPT !.ref = m.ref] = m
         /\ Counts(RefinedMethod(m)) = Counts(m)
         /\ \A c \in Counts(m) : c >= -1 /\ c < inferredCount
<1>1. /\ m = [ref |-> m.ref, exec |-> m.exec, inputCount |-> m.inputCount, inputArgs |-> m.inputArgs,
              outputCount |-> m.outputCount, outputArgs |-> m.outputArgs, format |-> m.format]
      /\ m.inputCount \in Count /\ m.outputCount \in Count
  BY DEF FitMethod
<1>2. \A r : [m EXCEPT !.ref = r]
          = [ref |-> r, exec |-> m.exec, inputCount |-> m.inputCount, inputArgs |-> m.inputArgs,
             outputCount |-> m.outputCount, outputArgs |-> m.outputArgs, format |-> m.format]
  BY <1>1
<1>3. RefinedMethod(m)
        = [ref |-> RefOf[m.ref], exec |-> m.exec, inputCount |-> m.inputCount,
           inputArgs |-> m.inputArgs, outputCount |-> m.outputCount, outputArgs |-> m.outputArgs,
           format |-> m.format]
  BY <1>2 DEF RefinedMethod
<1>4. [RefinedMethod(m) EXCEPT !.ref = m.ref]
        = [ref |-> m.ref, exec |-> m.exec, inputCount |-> m.inputCount, inputArgs |-> m.inputArgs,
           outputCount |-> m.outputCount, outputArgs |-> m.outputArgs, format |-> m.format]
  BY <1>3
<1>5. Counts(RefinedMethod(m)) = Counts(m)
  BY <1>3 DEF Counts
<1>6. \A c \in Counts(m) : c >= -1 /\ c < inferredCount
  BY <1>1, WordsAssumption DEF Counts, Count, inferredCount
<1> QED
  BY <1>1, <1>3, <1>4, <1>5, <1>6

SpelledServices(d) ==
  { f \in [DOMAIN d.services -> DOMAIN RefOf] :
      \A i \in DOMAIN f : f[i] \in Spelled(d.services[i]) }
SpelledMethods(d) ==
  { f \in [DOMAIN d.methods -> DOMAIN RefOf] :
      \A i \in DOMAIN f : f[i] \in Spelled(d.methods[i].ref) }
Spell(d, ss, rs) ==
  [d EXCEPT !.services = ss,
            !.methods = [i \in DOMAIN d.methods |-> [d.methods[i] EXCEPT !.ref = rs[i]]]]

\* What a spelling of its references makes of a document is one of those that say the same.
LEMMA SpellIs ==
  ASSUME NEW d, NEW ss \in SpelledServices(d), NEW rs \in SpelledMethods(d)
  PROVE  Spell(d, ss, rs) \in Respelled(d)
<1>1. Respelled(d) = { Spell(d, x, y) : x \in SpelledServices(d), y \in SpelledMethods(d) }
  BY DEF Respelled, SpelledServices, SpelledMethods, Spell
<1> QED
  BY <1>1

\* A document that says what e does, its references trimmed, can be encoded, and spelled
\* again as e spells it.
LEMMA Respelling ==
  ASSUME NEW e \in FitDocument, NEW d,
         d = [text |-> d.text, tags |-> d.tags, services |-> d.services,
              methods |-> d.methods, relations |-> d.relations],
         \A l \in List : d[l] = [i \in 1 .. Len(e[l]) |-> Refined(l, e[l][i])]
  PROVE  /\ Encodable(d)
         /\ \E w \in Respelled(d) :
              /\ w.text = d.text /\ w.tags = d.tags
              /\ w.services = e.services /\ w.methods = e.methods /\ w.relations = e.relations
<1>1. /\ e.services \in Seq(FitRef) /\ e.methods \in Seq(FitMethod) /\ e.relations \in Seq(FitRelation)
  BY DEF FitDocument, FitLists, FitOf
<1>2. PICK n \in Nat : DOMAIN e.services = 1 .. n /\ Len(e.services) = n
                       /\ \A i \in 1 .. n : e.services[i] \in FitRef
  BY <1>1, LenProperties, ElementOfSeq
<1>3. PICK k \in Nat : DOMAIN e.methods = 1 .. k /\ Len(e.methods) = k
                       /\ \A i \in 1 .. k : e.methods[i] \in FitMethod
  BY <1>1, LenProperties, ElementOfSeq
<1>4. d.services = [i \in 1 .. n |-> RefOf[e.services[i]]]
  <2>1. d["services"] = [i \in 1 .. Len(e["services"]) |-> Refined("services", e["services"][i])]
    BY DEF List
  <2>2. \A x : Refined("services", x) = RefOf[x]
    BY DEF Refined
  <2> QED
    BY <1>2, <2>1, <2>2
<1>5. d.methods = [i \in 1 .. k |-> RefinedMethod(e.methods[i])]
  <2>1. d["methods"] = [i \in 1 .. Len(e["methods"]) |-> Refined("methods", e["methods"][i])]
    BY DEF List
  <2>2. \A x : Refined("methods", x) = RefinedMethod(x)
    BY DEF Refined
  <2> QED
    BY <1>3, <2>1, <2>2
<1>6. d.relations = e.relations
  <2>1. d["relations"] = [i \in 1 .. Len(e["relations"]) |-> Refined("relations", e["relations"][i])]
    BY DEF List
  <2>2. \A x : Refined("relations", x) = x
    BY DEF Refined
  <2>3. d.relations = [i \in 1 .. Len(e.relations) |-> e.relations[i]]
    BY <2>1, <2>2
  <2>4. PICK s \in Seq(FitRelation) : s = e.relations
    BY <1>1
  <2>5. s \in [1 .. Len(s) -> FitRelation]
    BY LenProperties
  <2>6. s = [i \in 1 .. Len(s) |-> s[i]]
    BY <2>5
  <2> QED
    BY <2>3, <2>4, <2>6
<1>7. Encodable(d)
  BY <1>3, <1>5, RefinedMethodIs DEF Encodable
<1> DEFINE ss == e.services
           rs == [i \in 1 .. k |-> e.methods[i].ref]
           w == Spell(d, ss, rs)
<1>8. ss \in SpelledServices(d)
  <2>1. DOMAIN d.services = 1 .. n /\ \A i \in 1 .. n : d.services[i] = RefOf[ss[i]]
    BY <1>4
  <2>2. \A i \in 1 .. n : ss[i] \in DOMAIN RefOf
    BY <1>2 DEF FitRef
  <2>3. ss \in [1 .. n -> DOMAIN RefOf]
    BY <1>1, <1>2, <2>2
  <2>4. \A i \in 1 .. n : ss[i] \in Spelled(d.services[i])
    BY <2>1, <2>2 DEF Spelled
  <2> QED
    BY <1>2, <2>1, <2>3, <2>4 DEF SpelledServices
<1>9. rs \in SpelledMethods(d)
  <2>1. DOMAIN d.methods = 1 .. k
        /\ \A i \in 1 .. k : rs[i] = e.methods[i].ref /\ d.methods[i].ref = RefOf[rs[i]]
    BY <1>3, <1>5, RefinedMethodIs
  <2>2. \A i \in 1 .. k : rs[i] \in DOMAIN RefOf
    <3>1. \A i \in 1 .. k : e.methods[i].ref \in FitRef
      BY <1>3 DEF FitMethod
    <3> QED
      BY <3>1 DEF FitRef
  <2>3. rs \in [1 .. k -> DOMAIN RefOf] /\ DOMAIN rs = 1 .. k
    BY <2>2
  <2>4. \A i \in 1 .. k : rs[i] \in Spelled(d.methods[i].ref)
    BY <2>1, <2>2 DEF Spelled
  <2> QED
    BY <2>1, <2>3, <2>4 DEF SpelledMethods
<1>10. w \in Respelled(d)
  BY <1>8, <1>9, SpellIs
<1>11. [i \in DOMAIN d.methods |-> [d.methods[i] EXCEPT !.ref = rs[i]]] = e.methods
  <2>1. DOMAIN d.methods = 1 .. k
    BY <1>5
  <2>2. \A i \in 1 .. k : [d.methods[i] EXCEPT !.ref = rs[i]] = e.methods[i]
    BY <1>3, <1>5, RefinedMethodIs
  <2>3. e.methods = [i \in 1 .. k |-> e.methods[i]]
    <3>1. PICK s \in Seq(FitMethod) : s = e.methods /\ Len(s) = k
      BY <1>1, <1>3
    <3>2. s \in [1 .. k -> FitMethod]
      BY <3>1, LenProperties
    <3> QED
      BY <3>1, <3>2
  <2> QED
    BY <2>1, <2>2, <2>3
<1> HIDE DEF rs
<1>12. /\ w.text = d.text /\ w.tags = d.tags
       /\ w.services = e.services /\ w.methods = e.methods /\ w.relations = e.relations
  BY <1>6, <1>11 DEF Spell
<1> QED
  BY <1>7, <1>10, <1>12

\* What was followed to the end and returned is spelled out.
LEMMA FinishSpelledOut ==
  ASSUME Inv, Shaped, Followed, Finish, status' = "ok"
  PROVE  DecodedIsSpelledOut'
<1>1. version \in {1, 2} /\ status = "reading" /\ field = Len(Layout[version]) + 1
      /\ UNCHANGED <<input, version>>
  BY DEF Finish, Inv, CursorOK
<1>2. field = Fields(version) + 1 /\ field # 0
  <2>1. Len(Layout[version]) = Fields(version)
    BY <1>1, LayoutIs
  <2>2. Fields(version) \in Nat
    BY DEF Fields
  <2> QED
    BY <1>1, <2>1, <2>2
<1>3. PICK e : Read(e)
  BY <1>1, <1>2 DEF Followed
<1>4. e \in FitDocument
  BY <1>3 DEF Read
<1>5. off > Len(input)
  <2>1. ~(off <= Len(input))
    BY DEF Finish
  <2>2. off \in Nat /\ Len(input) \in Nat
    BY StrFacts DEF Shaped, Offset, Inv, CursorOK
  <2> QED
    BY <2>1, <2>2
<1>6. input = Whole(version, e)
  BY <1>1, <1>2, <1>3, <1>5, EndIsWhole
<1>7. PICK d : d = ContentOf(docs[mode])
  OBVIOUS
<1>8. /\ d = [text |-> d.text, tags |-> d.tags, services |-> d.services,
              methods |-> d.methods, relations |-> d.relations]
      /\ \A f \in {"name", "relationsName", "route"} : d.text[f] = e.text[f]
      /\ version = 2 => d.text = e.text /\ d.tags = e.tags
      /\ version = 1 => NoMetadata(d)
      /\ \A l \in List : d[l] = [i \in 1 .. Len(e[l]) |-> Refined(l, e[l][i])]
  BY <1>2, <1>3, <1>7, ContentIs
<1>9. ContentOf(handed[Len(handed)])' = d
  BY <1>7, ReturnedContent
<1>10. Encodable(d)
  BY <1>4, <1>8, Respelling
<1>11. PICK w \in Respelled(d) :
         /\ w.text = d.text /\ w.tags = d.tags
         /\ w.services = e.services /\ w.methods = e.methods /\ w.relations = e.relations
  BY <1>4, <1>8, Respelling
<1>12. PutLists(w) = PutLists(e)
  BY <1>11 DEF PutLists
<1>13. version = 2 => Encode(w) = input
  <2> SUFFICES ASSUME version = 2 PROVE Encode(w) = input
    OBVIOUS
  <2>1. Encode(w) = Encode(e)
    BY <1>8, <1>11, <1>12 DEF Encode
  <2> QED
    BY <1>4, <1>6, <2>1, WholeIs
<1>14. version = 1 => Legacy(w) = input
  <2> SUFFICES ASSUME version = 1 PROVE Legacy(w) = input
    OBVIOUS
  <2>1. w.text.name = e.text.name /\ w.text.relationsName = e.text.relationsName
        /\ w.text.route = e.text.route
    BY <1>8, <1>11
  <2>2. Legacy(w) = Legacy(e)
    BY <1>12, <2>1 DEF Legacy
  <2> QED
    BY <1>4, <1>6, <2>2, WholeIs
<1>15. /\ version' = 2 => \E x \in Respelled(d) : Encode(x) = input'
       /\ version' = 1 => NoMetadata(d) /\ \E x \in Respelled(d) : Legacy(x) = input'
  BY <1>1, <1>8, <1>11, <1>13, <1>14
<1> QED
  BY <1>1, <1>9, <1>10, <1>15 DEF DecodedIsSpelledOut

-----------------------------------------------------------------------------
(* What is written is read                                                  *)

\* The documents whose configs are decoded, and the part of a decode that is owed to them:
\* it follows the document, and returns it.
Due == {d \in Document : Encodable(d) /\ Fits(d) /\ Trimmed(d)}

Returned(d) ==
  LET got == ContentOf(handed[Len(handed)])
  IN IF version = 2 THEN got = d
     ELSE got.text.route = d.text.route /\ got.methods = d.methods
          /\ got.services = d.services /\ got.relations = d.relations

OnTheWay(v, d) ==
  /\ version = v /\ Read(d)
  /\ element >= 0 => LET l == Layout[version][field] IN docs[mode].lists[l].len = Len(d[l])

Owed(v, d) ==
  /\ status # "error"
  /\ status = "reading" => IF field = 0 THEN off = 1 ELSE OnTheWay(v, d)
  /\ status = "ok" => version = v /\ Returned(d)

Delivered == \A d \in Due, v \in {1, 2} : input = Whole(v, d) => Owed(v, d)

LEMMA DueFits ==
  ASSUME NEW d \in Due
  PROVE  /\ d \in DocumentContent /\ d \in FitDocument
         /\ \A l \in List : \A i \in DOMAIN d[l] : Refined(l, d[l][i]) = d[l][i]
<1>1. d \in Document /\ Encodable(d) /\ Fits(d) /\ Trimmed(d)
  BY DEF Due
<1>2. d \in DocumentContent
  BY <1>1, CodecAssumption
<1> QED
  BY <1>1, <1>2, DocumentFits

\* Of a config that was written every piece stands where it is read.
LEMMA PieceStands ==
  ASSUME input \in Str, NEW v \in {1, 2}, NEW d \in FitDocument, input = Whole(v, d)
  PROVE  /\ At(input, 1, <<ConfigMagic, v>>)
         /\ \A k \in 1 .. Fields(v) :
              At(input, 1 + Len(Upto(Pieces(v, d), k)), Written(Layout[v][k], d))
<1>1. PICK n \in Nat : n = Fields(v) /\ n >= 1
  BY DEF Fields
<1>2. PICK p \in Seq(Str) : p = Pieces(v, d) /\ Len(p) = n + 1 /\ p[1] = <<ConfigMagic, v>>
                            /\ \A i \in 1 .. n : p[i + 1] = Written(Layout[v][i], d)
  BY <1>1, PiecesAre
<1>3. At(input, 1, FlattenSeq(p))
  BY <1>2, AtWhole DEF Whole
<1>4. At(input, 1, <<ConfigMagic, v>>)
  <2>1. 1 \in 0 .. Len(p)
    BY <1>1, <1>2
  <2>2. At(input, 1, Upto(p, 1))
    BY <1>3, <2>1, UptoAt
  <2> QED
    BY <1>2, <2>2, HeaderPiece
<1>5. \A k \in 1 .. n : At(input, 1 + Len(Upto(p, k)), Written(Layout[v][k], d))
  <2> SUFFICES ASSUME NEW k \in 1 .. n
               PROVE  At(input, 1 + Len(Upto(p, k)), Written(Layout[v][k], d))
    OBVIOUS
  <2>1. k \in 0 .. Len(p) /\ k < Len(p)
    BY <1>2
  <2>2. At(input, 1 + Len(Upto(p, k)), p[k + 1])
    BY <1>3, <2>1, UptoAt
  <2> QED
    BY <1>2, <2>2
<1> QED
  BY <1>1, <1>2, <1>4, <1>5

\* What is known while a field is read.
LEMMA OwedField ==
  ASSUME Inv, Shaped, NEW v \in {1, 2}, NEW d \in FitDocument, input = Whole(v, d), Owed(v, d),
         NEW f, Reads(f)
  PROVE  /\ version = v /\ Read(d) /\ f = Layout[version][field] /\ field \in 1 .. Fields(version)
         /\ field \in Nat \ {0} /\ element \in Int /\ input \in Str
         /\ At(input, Place(d), Written(f, d))
         /\ element < 0 => off = Place(d)
         /\ element >= 0 => docs[mode].lists[f].len = Len(d[f])
<1>1. /\ status = "reading" /\ version \in {1, 2} /\ input \in Str
      /\ field \in 1 .. Fields(version) /\ f = Layout[version][field]
  BY NextField
<1>2. field \in Nat \ {0} /\ element \in Int
  BY <1>1 DEF Inv, CursorOK
<1>3. OnTheWay(v, d)
  BY <1>1, <1>2 DEF Owed
<1>4. At(input, 1 + Len(Upto(Pieces(v, d), field)), Written(Layout[v][field], d))
  <2>1. field \in 1 .. Fields(v)
    BY <1>1, <1>3 DEF OnTheWay
  <2> QED
    BY <1>1, <2>1, PieceStands
<1>5. version = v /\ Read(d)
  BY <1>3 DEF OnTheWay
<1>6. At(input, Place(d), Written(f, d))
  BY <1>1, <1>4, <1>5 DEF Place
<1>7. element < 0 => off = Place(d)
  BY <1>5 DEF Read
<1>8. element >= 0 => docs[mode].lists[f].len = Len(d[f])
  BY <1>1, <1>3 DEF OnTheWay
<1> QED
  BY <1>1, <1>2, <1>5, <1>6, <1>7, <1>8

\* A step that keeps to the document.
LEMMA OwedBy ==
  ASSUME NEW v \in {1, 2}, NEW d, status' = "reading", version' = v, Read(d)', field' \in Nat \ {0},
         \/ element' < 0 /\ element' \in Int
         \/ docs'[mode'].lists[Layout[version'][field']].len = Len(d[Layout[version'][field']])
  PROVE  Owed(v, d)'
<1>1. field' # 0 /\ status' # "error" /\ status' # "ok"
  OBVIOUS
<1>2. element' >= 0 =>
        docs'[mode'].lists[Layout[version'][field']].len = Len(d[Layout[version'][field']])
  OBVIOUS
<1>3. OnTheWay(v, d)'
  BY <1>2 DEF OnTheWay
<1> QED
  BY <1>1, <1>3 DEF Owed

LEMMA OwedHeader ==
  ASSUME Inv, Shaped, NEW v \in {1, 2}, NEW d \in FitDocument, input = Whole(v, d), Owed(v, d),
         ReadHeader
  PROVE  Owed(v, d)'
<1>1. off = 1 /\ input \in Str
  BY DEF Owed, ReadHeader, Inv, CursorOK
<1>2. At(input, 1, <<ConfigMagic, v>>)
  BY <1>1, PieceStands
<1>3. status' = "reading" /\ version' = v /\ Read(d)' /\ element' < 0
  BY <1>1, <1>2, HeaderRead
<1>4. element' \in Int /\ field' \in Nat \ {0}
  <2>1. field' \in 1 .. (Fields(version') + 1)
    BY <1>3 DEF Read
  <2>2. Fields(version') \in Nat
    BY DEF Fields
  <2>3. element' \in Int
    BY DEF ReadHeader, Inv, CursorOK
  <2> QED
    BY <2>1, <2>2, <2>3
<1> QED
  BY <1>3, <1>4, OwedBy

LEMMA OwedText ==
  ASSUME Inv, Shaped, NEW v \in {1, 2}, NEW d \in FitDocument, input = Whole(v, d), Owed(v, d),
         NEW f \in TextField, ReadText(f)
  PROVE  Owed(v, d)'
<1>1. Reads(f)
  BY DEF ReadText
<1>2. /\ version = v /\ Read(d) /\ f = Layout[version][field] /\ field \in Nat \ {0}
      /\ At(input, Place(d), Written(f, d)) /\ element \in Int
      /\ element < 0 => off = Place(d)
  BY <1>1, OwedField
<1>3. element < 0
  <2>1. f \notin List
    BY DEF TextField, List
  <2> QED
    BY <1>1, <1>2, <2>1, NoElement DEF Reads
<1>4. At(input, off, PutString(d.text[f]))
  BY <1>2, <1>3, WrittenOf
<1>5. status' = "reading" /\ Read(d)' /\ element' < 0
  BY <1>2, <1>4, TextRead
<1>6. field' = field + 1 /\ element' = element /\ version' = version
  BY DEF ReadText
<1>7. field' \in Nat \ {0} /\ version' = v /\ element' \in Int
  BY <1>2, <1>6
<1> QED
  BY <1>5, <1>7, OwedBy

LEMMA OwedTags ==
  ASSUME Inv, Shaped, NEW v \in {1, 2}, NEW d \in FitDocument, input = Whole(v, d), Owed(v, d),
         ReadTags
  PROVE  Owed(v, d)'
<1>1. Reads("tags")
  BY DEF ReadTags
<1>2. /\ version = v /\ Read(d) /\ "tags" = Layout[version][field] /\ field \in Nat \ {0}
      /\ At(input, Place(d), Written("tags", d)) /\ element \in Int
      /\ element < 0 => off = Place(d)
  BY <1>1, OwedField
<1>3. element < 0
  <2>1. "tags" \notin List
    BY DEF List
  <2> QED
    BY <1>1, <1>2, <2>1, NoElement DEF Reads
<1>4. At(input, off, PutStrings(d.tags))
  BY <1>2, <1>3, WrittenOf
<1>5. status' = "reading" /\ Read(d)' /\ element' < 0
  BY <1>2, <1>4, TagsRead
<1>6. field' = field + 1 /\ element' = element /\ version' = version
  BY DEF ReadTags
<1>7. field' \in Nat \ {0} /\ version' = v /\ element' \in Int
  BY <1>2, <1>6
<1> QED
  BY <1>5, <1>7, OwedBy

LEMMA OwedForgetting ==
  ASSUME Inv, Shaped, NEW v \in {1, 2}, NEW d \in FitDocument, input = Whole(v, d), Owed(v, d),
         ForgetMetadata
  PROVE  Owed(v, d)'
<1>1. Reads("no metadata")
  BY DEF ForgetMetadata
<1>2. version = v /\ Read(d) /\ field \in Nat \ {0} /\ element \in Int
  BY <1>1, OwedField
<1>3. status' = "reading" /\ Read(d)' /\ element' < 0
  BY <1>2, MetadataForgotten
<1>4. field' = field + 1 /\ element' = element /\ version' = version
  BY DEF ForgetMetadata
<1>5. field' \in Nat \ {0} /\ version' = v /\ element' \in Int
  BY <1>2, <1>4
<1> QED
  BY <1>3, <1>5, OwedBy

LEMMA OwedCount ==
  ASSUME Inv, Shaped, NEW v \in {1, 2}, NEW d \in FitDocument, input = Whole(v, d), Owed(v, d),
         NEW l \in List, ReadListCount(l)
  PROVE  Owed(v, d)'
<1>1. Reads(l) /\ element < 0
  BY DEF ReadListCount
<1>2. /\ version = v /\ Read(d) /\ l = Layout[version][field] /\ field \in Nat \ {0}
      /\ At(input, Place(d), Written(l, d)) /\ element \in Int /\ input \in Str
      /\ off = Place(d)
  BY <1>1, OwedField
<1>3. PICK n \in Nat : n = Len(d[l])
  BY ListPiece
<1>4. PICK u \in Str : <<n>> \in Str /\ Written(l, d) = <<n>> \o u
  <2> DEFINE w == Mapped(d[l], PutOf(l))
  <2>1. n \in 0 .. n
    OBVIOUS
  <2>2. Upto(w, n) \in Str /\ <<n>> \in Str /\ Written(l, d) = <<n>> \o Upto(w, n)
    BY <1>3, <2>1, ListPiece
  <2> HIDE DEF w
  <2> QED
    BY <2>2
<1>5. At(input, off, <<n>>)
  BY <1>2, <1>4, AtConcat
<1>6. /\ status' = "reading" /\ Read(d)' /\ docs'[mode].lists[l].len = n
      /\ n # 0 => element' = 0 /\ field' = field
      /\ n = 0 => element' < 0
  BY <1>2, <1>3, <1>5, CountRead
<1>7. /\ version' = version /\ mode' = mode
      /\ field' \in Nat \ {0} /\ element' \in Int
  <2>1. CASE ReadWord(input, off).ok
    <3>1. Element(0, ReadWord(input, off).val)
      BY <2>1 DEF ReadListCount
    <3>2. field' \in Nat \ {0} /\ element' \in Int
      BY <1>2, <3>1 DEF Element
    <3> QED
      BY <3>2 DEF ReadListCount
  <2>2. CASE ~ReadWord(input, off).ok
    BY <1>2, <2>2 DEF ReadListCount
  <2> QED
    BY <2>1, <2>2
<1>8. element' < 0
      \/ docs'[mode'].lists[Layout[version'][field']].len = Len(d[Layout[version'][field']])
  BY <1>2, <1>3, <1>6, <1>7
<1> QED
  BY <1>2, <1>6, <1>7, <1>8, OwedBy

LEMMA OwedElement ==
  ASSUME Inv, Shaped, NEW v \in {1, 2}, NEW d \in FitDocument, input = Whole(v, d), Owed(v, d),
         NEW l \in List, ReadElement(l)
  PROVE  Owed(v, d)'
<1>1. Reads(l) /\ element \in Nat
  BY DEF ReadElement, Inv, CursorOK
<1>2. /\ version = v /\ Read(d) /\ l = Layout[version][field] /\ field \in Nat \ {0}
      /\ At(input, Place(d), Written(l, d)) /\ input \in Str /\ version \in {1, 2}
      /\ docs[mode].lists[l].len = Len(d[l])
  <2>1. /\ version = v /\ Read(d) /\ l = Layout[version][field] /\ field \in Nat \ {0}
        /\ At(input, Place(d), Written(l, d)) /\ input \in Str
        /\ element >= 0 => docs[mode].lists[l].len = Len(d[l])
    BY <1>1, OwedField
  <2>2. element >= 0
    BY <1>1
  <2> QED
    BY <2>1, <2>2
<1> DEFINE w == Mapped(d[l], PutOf(l))
<1>3. PICK n \in Nat : n = Len(d[l])
  BY ListPiece
<1>4. element < n
  BY <1>1, <1>2, <1>3 DEF Reads, Inv, Within
<1>5. /\ w \in Seq(Str) /\ Len(w) = n /\ w[element + 1] = PutOf(l)[d[l][element + 1]]
      /\ Upto(w, n) \in Str /\ <<n>> \in Str /\ Len(<<n>>) = 1
      /\ Written(l, d) = <<n>> \o Upto(w, n)
  <2>1. element + 1 \in 1 .. n /\ n \in 0 .. n
    BY <1>1, <1>4
  <2> QED
    BY <1>3, <2>1, ListPiece
<1>6. /\ off = Place(d) + 1 + Len(Upto(w, element))
      /\ At(input, Place(d), <<n>>)
  <2>1. Partly(Layout[version][field], d)
    BY <1>1, <1>2 DEF Read
  <2>2. Partly(l, d)
    BY <1>2, <2>1
  <2> QED
    BY <1>2, <1>3, <2>2 DEF Partly
<1> HIDE DEF w
<1>7. At(input, Place(d) + 1, FlattenSeq(w))
  <2>1. At(input, Place(d), <<n>> \o Upto(w, n))
    BY <1>2, <1>5
  <2>2. At(input, Place(d) + Len(<<n>>), Upto(w, n))
    BY <1>2, <1>5, <2>1, AtConcat
  <2> QED
    BY <1>5, <2>2, UptoIs
<1>8. At(input, (Place(d) + 1) + Len(Upto(w, element)), w[element + 1])
  <2>1. element \in 0 .. Len(w) /\ element < Len(w)
    BY <1>1, <1>4, <1>5
  <2> QED
    BY <1>2, <1>5, <1>7, <2>1, UptoAt
<1>9. At(input, off, PutOf(l)[d[l][element + 1]])
  BY <1>5, <1>6, <1>8
<1>10. element + 1 <= Len(d[l]) /\ (element + 1 = docs[mode].lists[l].len => Len(d[l]) = element + 1)
  BY <1>1, <1>2, <1>3, <1>4
<1>11. /\ status' = "reading" /\ Read(d)' /\ docs' = docs
       /\ element + 1 # docs[mode].lists[l].len => element' = element + 1 /\ field' = field
       /\ element + 1 = docs[mode].lists[l].len => element' < 0
  BY <1>2, <1>9, <1>10, ElementRead
<1>12. version' = version /\ mode' = mode /\ field' \in Nat \ {0} /\ element' \in Int
  <2>1. CASE ReadOne(l, input, off).ok
    <3>1. Element(element + 1, docs[mode].lists[l].len)
      BY <2>1 DEF ReadElement
    <3>2. field' \in Nat \ {0} /\ element' \in Int
      BY <1>1, <1>2, <3>1 DEF Element
    <3> QED
      BY <3>2 DEF ReadElement
  <2>2. CASE ~ReadOne(l, input, off).ok
    BY <1>1, <1>2, <2>2 DEF ReadElement
  <2> QED
    BY <2>1, <2>2
<1>13. element' < 0
       \/ docs'[mode'].lists[Layout[version'][field']].len = Len(d[Layout[version'][field']])
  BY <1>2, <1>11, <1>12
<1> QED
  BY <1>2, <1>11, <1>12, <1>13, OwedBy

LEMMA OwedFinish ==
  ASSUME Inv, Shaped, NEW v \in {1, 2}, NEW d \in Due, input = Whole(v, d), Owed(v, d), Finish
  PROVE  Owed(v, d)'
<1>1. /\ d \in DocumentContent /\ d \in FitDocument
      /\ \A l \in List : \A i \in DOMAIN d[l] : Refined(l, d[l][i]) = d[l][i]
  BY DueFits
<1>2. /\ status = "reading" /\ field = Len(Layout[version]) + 1 /\ version \in {1, 2}
      /\ UNCHANGED version
  BY DEF Finish, Inv, CursorOK
<1>3. field = Fields(version) + 1 /\ field # 0
  <2>1. Len(Layout[version]) = Fields(version)
    BY <1>2, LayoutIs
  <2>2. Fields(version) \in Nat
    BY DEF Fields
  <2> QED
    BY <1>2, <2>1, <2>2
<1>4. version = v /\ Read(d)
  BY <1>2, <1>3 DEF Owed, OnTheWay
<1>5. off = 1 + Len(input) /\ Len(input) \in Nat
  <2>1. off = 1 + Len(Whole(version, d))
    BY <1>2, <1>3, <1>4, EndIsWhole
  <2>2. Len(input) \in Nat
    BY StrFacts DEF Inv, CursorOK
  <2> QED
    BY <1>4, <2>1, <2>2
<1>6. status' = "ok"
  <2>1. ~(off <= Len(input))
    BY <1>5
  <2> QED
    BY <2>1 DEF Finish
<1>7. PICK got : got = ContentOf(docs[mode])
  OBVIOUS
<1>8. ContentOf(handed[Len(handed)])' = got
  BY <1>6, <1>7, ReturnedContent
<1>9. /\ got = [text |-> got.text, tags |-> got.tags, services |-> got.services,
                methods |-> got.methods, relations |-> got.relations]
      /\ \A f \in {"name", "relationsName", "route"} : got.text[f] = d.text[f]
      /\ version = 2 => got.text = d.text /\ got.tags = d.tags
      /\ \A l \in List : got[l] = [i \in 1 .. Len(d[l]) |-> Refined(l, d[l][i])]
  BY <1>3, <1>4, <1>7, ContentIs
<1>10. \A l \in List : got[l] = d[l]
  <2> SUFFICES ASSUME NEW l \in List PROVE got[l] = d[l]
    OBVIOUS
  <2>1. d[l] \in Seq(FitOf(l))
    BY <1>1 DEF List, FitDocument, FitLists
  <2>2. PICK s \in Seq(FitOf(l)) : s = d[l]
    BY <2>1
  <2>3. s \in [1 .. Len(s) -> FitOf(l)] /\ DOMAIN s = 1 .. Len(s)
    BY LenProperties
  <2>4. s = [i \in 1 .. Len(s) |-> s[i]]
    BY <2>3
  <2>5. \A i \in 1 .. Len(s) : Refined(l, s[i]) = s[i]
    BY <1>1, <2>2, <2>3
  <2>6. got[l] = [i \in 1 .. Len(s) |-> Refined(l, s[i])]
    BY <1>9, <2>2
  <2> QED
    BY <2>2, <2>4, <2>5, <2>6
<1>11. got.services = d.services /\ got.methods = d.methods /\ got.relations = d.relations
  BY <1>10 DEF List
<1>12. version = 2 => got = d
  <2>1. d = [text |-> d.text, tags |-> d.tags, services |-> d.services,
             methods |-> d.methods, relations |-> d.relations]
    BY <1>1 DEF DocumentContent
  <2> QED
    BY <1>9, <1>11, <2>1
<1>13. Returned(d)'
  <2>1. got.text.route = d.text.route
    BY <1>9
  <2> QED
    BY <1>2, <1>8, <1>11, <1>12, <2>1 DEF Returned
<1> QED
  BY <1>2, <1>4, <1>6, <1>13 DEF Owed

\* Every step keeps what is owed to the documents that are encoded.
LEMMA DeliveredStep == Inv /\ Shaped /\ Delivered /\ [Next]_vars => Delivered'
<1> SUFFICES ASSUME Inv, Shaped, Delivered, [Next]_vars,
                    NEW d \in Due, NEW v \in {1, 2}, input' = Whole(v, d)
             PROVE  Owed(v, d)'
  BY DEF Delivered
<1>1. d \in FitDocument
  BY DueFits
<1>2. CASE \E m \in {"kept", "new"}, data \in Input : Start(m, data)
  BY <1>2 DEF Start, Owed
<1> SUFFICES ASSUME input' = input PROVE Owed(v, d)'
  <2>1. CASE ReadHeader
    BY <2>1 DEF ReadHeader
  <2>2. CASE \E f \in TextField : ReadText(f)
    BY <2>2 DEF ReadText
  <2>3. CASE ReadTags
    BY <2>3 DEF ReadTags
  <2>4. CASE ForgetMetadata
    BY <2>4 DEF ForgetMetadata
  <2>5. CASE \E l \in List : ReadListCount(l) \/ ReadElement(l)
    BY <2>5 DEF ReadListCount, ReadElement
  <2>6. CASE Finish
    BY <2>6 DEF Finish
  <2>7. CASE UNCHANGED vars
    BY <2>7 DEF vars
  <2> QED
    BY <1>2, <2>1, <2>2, <2>3, <2>4, <2>5, <2>6, <2>7 DEF Next
<1>3. input = Whole(v, d) /\ Owed(v, d)
  BY DEF Delivered
<1>4. CASE ReadHeader
  BY <1>1, <1>3, <1>4, OwedHeader
<1>5. CASE \E f \in TextField : ReadText(f)
  BY <1>1, <1>3, <1>5, OwedText
<1>6. CASE ReadTags
  BY <1>1, <1>3, <1>6, OwedTags
<1>7. CASE ForgetMetadata
  BY <1>1, <1>3, <1>7, OwedForgetting
<1>8. CASE \E l \in List : ReadListCount(l)
  BY <1>1, <1>3, <1>8, OwedCount
<1>9. CASE \E l \in List : ReadElement(l)
  BY <1>1, <1>3, <1>9, OwedElement
<1>10. CASE Finish
  BY <1>3, <1>10, OwedFinish
<1>11. CASE UNCHANGED vars
  BY <1>3, <1>11 DEF vars, Owed, OnTheWay, Returned, ContentOf, Elements, Read, Place, Agrees, Partly,
                     NoMetadata
<1> QED
  BY <1>2, <1>4, <1>5, <1>6, <1>7, <1>8, <1>9, <1>10, <1>11 DEF Next

\* Nothing is decoded at first.
LEMMA InitDelivered == Init => Followed /\ DecodedIsSpelledOut /\ Delivered
BY DEF Init, Followed, DecodedIsSpelledOut, Delivered, Owed

-----------------------------------------------------------------------------
(* Theorems about what is decoded                                           *)

\* Every step keeps what was said of the document that was returned.
LEMMA SpelledOutStep ==
  Inv /\ Shaped /\ Followed /\ DecodedIsSpelledOut /\ [Next]_vars => DecodedIsSpelledOut'
<1> SUFFICES ASSUME Inv, Shaped, Followed, DecodedIsSpelledOut, [Next]_vars
             PROVE  DecodedIsSpelledOut'
  OBVIOUS
<1>1. CASE Finish
  <2>1. CASE status' = "ok"
    BY <1>1, <2>1, FinishSpelledOut
  <2>2. CASE status' # "ok"
    BY <2>2 DEF DecodedIsSpelledOut
  <2> QED
    BY <2>1, <2>2
<1>2. CASE UNCHANGED vars
  <2>1. ContentOf(handed[Len(handed)])' = ContentOf(handed[Len(handed)])
    BY <1>2 DEF vars, ContentOf, Elements
  <2>2. UNCHANGED <<status, version, input>>
    BY <1>2 DEF vars
  <2> QED
    BY <2>1, <2>2 DEF DecodedIsSpelledOut
<1>3. CASE Next /\ ~Finish
  <2>1. status' # "ok"
    <3>1. \A r : Past(r) => status' # "ok"
      BY DEF Past
    <3>2. CASE \E m \in {"kept", "new"}, data \in Input : Start(m, data)
      BY <3>2 DEF Start
    <3>3. CASE ReadHeader
      <4>1. \E r : Past(r)
        BY <3>3, Zenon DEF ReadHeader
      <4> QED
        BY <3>1, <4>1
    <3>4. CASE \E f \in TextField : ReadText(f)
      <4>1. \E r : Past(r)
        BY <3>4, Zenon DEF ReadText
      <4> QED
        BY <3>1, <4>1
    <3>5. CASE ReadTags
      <4>1. \E r : Past(r)
        BY <3>5, Zenon DEF ReadTags
      <4> QED
        BY <3>1, <4>1
    <3>6. CASE ForgetMetadata
      BY <3>6 DEF ForgetMetadata, Reads
    <3>7. CASE \E l \in List : ReadListCount(l) \/ ReadElement(l)
      <4>1. \E r : Past(r)
        BY <3>7, Zenon DEF ReadListCount, ReadElement
      <4> QED
        BY <3>1, <4>1
    <3> QED
      BY <1>3, <3>2, <3>3, <3>4, <3>5, <3>6, <3>7 DEF Next
  <2> QED
    BY <2>1 DEF DecodedIsSpelledOut
<1> QED
  BY <1>1, <1>2, <1>3

\* A document that is returned is the one that the config spells out, whatever configs came
\* before it and whatever it reads into: DecodeCodec and Decoder.DecodeCodec, of every
\* input, of the versions 1 and 2.
THEOREM DecodedIsSpelledOutHolds == Spec => []DecodedIsSpelledOut
<1>1. Init => Inv /\ Shaped /\ Followed /\ DecodedIsSpelledOut
  BY InitInv, InitShaped, InitDelivered
<1>2. Inv /\ Shaped /\ Followed /\ DecodedIsSpelledOut /\ [Next]_vars
        => (Inv /\ Shaped /\ Followed /\ DecodedIsSpelledOut)'
  BY NextStep, NextShaped, FollowedStep, SpelledOutStep
<1> QED
  BY <1>1, <1>2, PTL DEF Spec

\* What is owed to a document is what EncodedIsDecoded asks.
LEMMA DeliveredIsDecoded ==
  ASSUME Inv, Delivered
  PROVE  EncodedIsDecoded
<1> SUFFICES ASSUME status \in {"ok", "error"}, NEW d \in Document, Encodable(d), Fits(d), Trimmed(d),
                    input \in {Encode(d), Legacy(d)}
             PROVE  status = "ok" /\ Returned(d)
  BY DEF EncodedIsDecoded, Returned
<1>1. d \in Due
  BY DEF Due
<1>2. d \in FitDocument
  BY <1>1, DueFits
<1>3. \E v \in {1, 2} : input = Whole(v, d)
  BY <1>2, WholeIs
<1>4. PICK v \in {1, 2} : input = Whole(v, d)
  BY <1>3
<1>5. Owed(v, d)
  BY <1>1, <1>4 DEF Delivered
<1> QED
  BY <1>5 DEF Owed

\* The config of every document whose lengths and counts are written whole, and whose
\* references are trimmed, is decoded, and to that document: Encode, DecodeCodec and
\* Decoder.DecodeCodec together.
THEOREM EncodedIsDecodedHolds == Spec => []EncodedIsDecoded
<1>1. Init => Inv /\ Shaped /\ Delivered
  BY InitInv, InitShaped, InitDelivered
<1>2. Inv /\ Shaped /\ Delivered /\ [Next]_vars => (Inv /\ Shaped /\ Delivered)'
  BY NextStep, NextShaped, DeliveredStep
<1>3. Inv /\ Delivered => EncodedIsDecoded
  BY DeliveredIsDecoded
<1> QED
  BY <1>1, <1>2, <1>3, PTL DEF Spec
=============================================================================
