----------------------------- MODULE ConfigCodec -----------------------------
(***************************************************************************)
(* Encode and the decoders of internal/clermcfg/codec.go.  DecodeCodec     *)
(* reads a compiled config into a document of its own; a Decoder reads     *)
(* every config into the one document that it keeps, whose slices it uses  *)
(* again when they are large enough, and hands out clones.  Slices are     *)
(* modelled with the arrays under them.  Document.Validate, which Decode   *)
(* calls at the end and which changes nothing, is in SchemaParser.         *)
(***************************************************************************)
EXTENDS Words

CONSTANTS
  ConfigMagic,  \* the word of the four magic bytes
  Document,     \* the documents that are encoded
  Foreign,      \* other inputs: configs of version 1, damaged or padded ones
  RefOf,        \* a string that ParseServiceRef takes -> the reference, trimmed
  MaxDecodes    \* the bound on the number of configs decoded

inferredCount == W - 1

TextField ==
  {"name", "relationsName", "description", "displayName", "category", "route"}
List == {"services", "methods", "relations"}

Parameter == [name : Str, type : Word]
Method ==
  [ref : Str, exec : Word, inputCount : Int, inputArgs : Seq(Parameter),
   outputCount : Int, outputArgs : Seq(Parameter), format : Word]
Relation == [name : Str, condition : Str]

\* What a document says, wherever its slices are.
DocumentContent ==
  [text : [TextField -> Str], tags : Seq(Str), services : Seq(Str),
   methods : Seq(Method), relations : Seq(Relation)]

ASSUME CodecAssumption ==
  /\ ConfigMagic \in Word /\ MaxDecodes \in Nat
  /\ \A d \in Document : d \in DocumentContent
  /\ \A f \in Foreign : f \in Str
  /\ \A s \in DOMAIN RefOf : s \in Str /\ RefOf[s] \in DOMAIN RefOf

VARIABLES
  input,     \* the config that is decoded
  off,       \* decoder.off: the next word
  version,   \* the version of its header
  field,     \* the next field, a position of Layout; 0 for the header
  element,   \* the elements of that list read so far, -1 before its count
  mode,      \* "kept": the document of a Decoder; "new": that of a DecodeCodec
  status,    \* "idle", "reading", "ok" or "error"
  docs,      \* mode -> the document that is read into
  arrays,    \* the arrays under the slices, the first one that of nil
  handed,    \* the documents returned to callers, in order
  decodes    \* the configs decoded so far

vars == <<input, off, version, field, element, mode, status, docs, arrays, handed,
          decodes>>

-----------------------------------------------------------------------------
(* Encode *)

Counts(m) == {m.inputCount, m.outputCount}

\* appendCount: the reserved count and counts that do not fit are refused.
Encodable(d) ==
  \A i \in DOMAIN d.methods : \A c \in Counts(d.methods[i]) : c >= -1 /\ c < inferredCount

PutCount(c) == IF c < 0 THEN <<inferredCount>> ELSE <<c % W>>

PutStrings(list) == PutMany([i \in DOMAIN list |-> PutString(list[i])])

PutParameter(p) == PutString(p.name) \o <<p.type>>

PutParameters(list) == PutMany([i \in DOMAIN list |-> PutParameter(list[i])])

PutMethod(m) ==
  PutString(m.ref) \o <<m.exec>>
    \o PutCount(m.inputCount) \o PutParameters(m.inputArgs)
    \o PutCount(m.outputCount) \o PutParameters(m.outputArgs) \o <<m.format>>

PutRelation(r) == PutString(r.name) \o PutString(r.condition)

PutLists(d) ==
  PutStrings(d.services)
    \o PutMany([i \in DOMAIN d.methods |-> PutMethod(d.methods[i])])
    \o PutMany([i \in DOMAIN d.relations |-> PutRelation(d.relations[i])])

Encode(d) ==
  <<ConfigMagic, 2>> \o PutString(d.text.name) \o PutString(d.text.relationsName)
    \o PutString(d.text.description) \o PutString(d.text.displayName)
    \o PutString(d.text.category) \o PutStrings(d.tags)
    \o PutString(d.text.route) \o PutLists(d)

\* The configs of version 1, which the decoders still read and nothing writes.
Legacy(d) ==
  <<ConfigMagic, 1>> \o PutString(d.text.name) \o PutString(d.text.relationsName)
    \o PutString(d.text.route) \o PutLists(d)

\* The fields in the order in which they are read; "no metadata" is read from
\* nothing, and clears the document's.
Layout ==
  << <<"name", "relationsName", "no metadata", "route",
       "services", "methods", "relations">>,
     <<"name", "relationsName", "description", "displayName", "category", "tags",
       "route", "services", "methods", "relations">> >>

-----------------------------------------------------------------------------
(* Faulty variants of the code, one plausible slip each.  Nothing below    *)
(* uses them: each shows that the properties notice the slip.              *)

\* The clone is made of the document's own slices.
ShallowClone(d) == d

\* A config of version 1 leaves the metadata of the one before it.
ForgetNothing ==
  /\ status = "reading" /\ field \in DOMAIN Layout[version]
  /\ Layout[version][field] = "no metadata"
  /\ field' = field + 1
  /\ UNCHANGED <<input, off, version, element, mode, status, docs, arrays, handed, decodes>>

-----------------------------------------------------------------------------
(* Documents in memory *)

EmptyDocument ==
  [text |-> [f \in TextField |-> <<>>], tags |-> <<>>,
   lists |-> [l \in List |-> [array |-> 1, len |-> 0]]]

Elements(slice) == SubSeq(arrays[slice.array], 1, slice.len)

ContentOf(d) ==
  [text |-> d.text, tags |-> d.tags, services |-> Elements(d.lists["services"]),
   methods |-> Elements(d.lists["methods"]), relations |-> Elements(d.lists["relations"])]

\* The element that make fills a slice with.
Zero(l) ==
  CASE l = "services" -> <<>>
    [] l = "methods" -> [ref |-> <<>>, exec |-> 0, inputCount |-> 0, inputArgs |-> <<>>,
                         outputCount |-> 0, outputArgs |-> <<>>, format |-> 0]
    [] l = "relations" -> [name |-> <<>>, condition |-> <<>>]

\* resizeServices, resizeMethods, resizeRelations: the same array when it is large
\* enough, whatever it holds.
Enough(slice, n) == n <= Len(arrays[slice.array])

Resized(slice, n) ==
  [array |-> IF Enough(slice, n) THEN slice.array ELSE Len(arrays) + 1, len |-> n]

\* cloneDocument: the arrays of the clone come after those there are.
Rank == [l \in List |-> CASE l = "services" -> 1 [] l = "methods" -> 2 [] OTHER -> 3]

CloneArrays(d) == << Elements(d.lists["services"]), Elements(d.lists["methods"]),
                     Elements(d.lists["relations"]) >>

Clone(d) ==
  [d EXCEPT !.lists = [l \in List |-> [array |-> Len(arrays) + Rank[l], len |-> @[l].len]]]

-----------------------------------------------------------------------------
(* decodeInto *)

ReadCount(data, o) ==
  LET word == ReadWord(data, o)
  IN [word EXCEPT !.val = IF word.val = inferredCount THEN -1 ELSE word.val]

ReadRef(data, o) ==
  LET raw == ReadString(data, o)
  IN IF raw.ok /\ raw.val \in DOMAIN RefOf THEN [raw EXCEPT !.val = RefOf[raw.val]]
                                           ELSE [raw EXCEPT !.ok = FALSE]

ReadParameter(data, o) ==
  LET name == ReadString(data, o)
      type == ReadWord(data, name.off)
  IN [ok |-> name.ok /\ type.ok, val |-> [name |-> name.val, type |-> type.val],
      off |-> type.off]

ReadParameters(data, o) ==
  ReadMany([p \in Offset(data) |-> ReadParameter(data, p)], data, o)

ReadMethod(data, o) ==
  LET ref == ReadRef(data, o)
      exec == ReadWord(data, ref.off)
      inputCount == ReadCount(data, exec.off)
      inputArgs == ReadParameters(data, inputCount.off)
      outputCount == ReadCount(data, inputArgs.off)
      outputArgs == ReadParameters(data, outputCount.off)
      format == ReadWord(data, outputArgs.off)
  IN [ok |-> ref.ok /\ format.ok,
      val |-> [ref |-> ref.val, exec |-> exec.val,
               inputCount |-> inputCount.val, inputArgs |-> inputArgs.val,
               outputCount |-> outputCount.val, outputArgs |-> outputArgs.val,
               format |-> format.val],
      off |-> format.off]

ReadRelation(data, o) ==
  LET name == ReadString(data, o)
      condition == ReadString(data, name.off)
  IN [ok |-> condition.ok, val |-> [name |-> name.val, condition |-> condition.val],
      off |-> condition.off]

ReadOne(l, data, o) ==
  CASE l = "services" -> ReadRef(data, o)
    [] l = "methods" -> ReadMethod(data, o)
    [] l = "relations" -> ReadRelation(data, o)

Reads(f) ==
  /\ status = "reading" /\ field \in DOMAIN Layout[version]
  /\ Layout[version][field] = f

\* The reader moves past r, or stops where r failed.
Past(r) ==
  /\ off' = r.off
  /\ status' = IF r.ok THEN "reading" ELSE "error"

Start(m, data) ==
  /\ status # "reading" /\ decodes < MaxDecodes
  /\ input' = data /\ off' = 1 /\ version' = 2 /\ field' = 0 /\ element' = -1
  /\ mode' = m /\ status' = "reading" /\ decodes' = decodes + 1
  /\ docs' = IF m = "new" THEN [docs EXCEPT !["new"] = EmptyDocument] ELSE docs
  /\ UNCHANGED <<arrays, handed>>

ReadHeader ==
  LET magic == ReadWord(input, off)
      v == ReadWord(input, magic.off)
      good == magic.ok /\ magic.val = ConfigMagic /\ v.ok /\ v.val \in {1, 2}
  IN /\ status = "reading" /\ field = 0
     /\ Past([v EXCEPT !.ok = good])
     /\ IF good THEN version' = v.val /\ field' = 1 ELSE UNCHANGED <<version, field>>
     /\ UNCHANGED <<input, element, mode, docs, arrays, handed, decodes>>

\* A string that cannot be read leaves the field empty.
ReadText(f) ==
  LET r == ReadString(input, off)
  IN /\ Reads(f) /\ Past(r)
     /\ docs' = [docs EXCEPT ![mode].text[f] = r.val]
     /\ field' = field + 1
     /\ UNCHANGED <<input, version, element, mode, arrays, handed, decodes>>

ReadTags ==
  LET r == ReadMany([p \in Offset(input) |-> ReadString(input, p)], input, off)
  IN /\ Reads("tags") /\ Past(r)
     /\ docs' = [docs EXCEPT ![mode].tags = r.val]
     /\ field' = field + 1
     /\ UNCHANGED <<input, version, element, mode, arrays, handed, decodes>>

ForgetMetadata ==
  /\ Reads("no metadata")
  /\ docs' = [docs EXCEPT
       ![mode].tags = <<>>,
       ![mode].text = [f \in TextField |->
          IF f \in {"description", "displayName", "category"} THEN <<>> ELSE @[f]]]
  /\ field' = field + 1
  /\ UNCHANGED <<input, off, version, element, mode, status, arrays, handed, decodes>>

\* k of n elements are read: on to the next one, or to the next field.
Element(k, n) ==
  /\ field' = IF k = n THEN field + 1 ELSE field
  /\ element' = IF k = n THEN -1 ELSE k

ReadListCount(l) ==
  LET r == ReadWord(input, off)
      slice == docs[mode].lists[l]
  IN /\ Reads(l) /\ element = -1 /\ Past(r)
     /\ IF r.ok
          THEN /\ docs' = [docs EXCEPT ![mode].lists[l] = Resized(slice, r.val)]
               /\ arrays' = IF Enough(slice, r.val) THEN arrays
                              ELSE Append(arrays, [i \in 1 .. r.val |-> Zero(l)])
               /\ Element(0, r.val)
          ELSE UNCHANGED <<docs, arrays, field, element>>
     /\ UNCHANGED <<input, version, mode, handed, decodes>>

ReadElement(l) ==
  LET r == ReadOne(l, input, off)
      slice == docs[mode].lists[l]
  IN /\ Reads(l) /\ element >= 0 /\ Past(r)
     /\ IF r.ok
          THEN /\ arrays' = [arrays EXCEPT ![slice.array][element + 1] = r.val]
               /\ Element(element + 1, slice.len)
          ELSE UNCHANGED <<arrays, field, element>>
     /\ UNCHANGED <<input, version, mode, docs, handed, decodes>>

\* DecodeCodec returns the document it read into, a Decoder a clone of its own.
Finish ==
  LET d == docs[mode]
  IN /\ status = "reading" /\ field = Len(Layout[version]) + 1
     /\ IF off <= Len(input)
          THEN status' = "error" /\ UNCHANGED <<arrays, handed>>
          ELSE /\ status' = "ok"
               /\ IF mode = "new"
                    THEN handed' = Append(handed, d) /\ UNCHANGED arrays
                    ELSE /\ handed' = Append(handed, Clone(d))
                         /\ arrays' = arrays \o CloneArrays(d)
     /\ UNCHANGED <<input, off, version, field, element, mode, docs, decodes>>

-----------------------------------------------------------------------------

Input == { Encode(d) : d \in {e \in Document : Encodable(e)} } \cup Foreign

\* What Encode writes are words.
ASSUME EncodeAssumption == \A data \in Input : data \in Str

Init ==
  /\ input = <<>> /\ off = 1 /\ version = 2 /\ field = 0 /\ element = -1
  /\ mode = "new" /\ status = "idle" /\ decodes = 0
  /\ docs = [m \in {"kept", "new"} |-> EmptyDocument]
  /\ arrays = << <<>> >> /\ handed = <<>>

Next ==
  \/ \E m \in {"kept", "new"}, data \in Input : Start(m, data)
  \/ ReadHeader
  \/ \E f \in TextField : ReadText(f)
  \/ ReadTags
  \/ ForgetMetadata
  \/ \E l \in List : ReadListCount(l) \/ ReadElement(l)
  \/ Finish

Spec == Init /\ [][Next]_vars

-----------------------------------------------------------------------------
(* Properties *)

\* What a string that ParseServiceRef trims to s may have been.
Spelled(s) == { raw \in DOMAIN RefOf : RefOf[raw] = s }

\* The documents that say what d does, with references as they may have been spelled.
Respelled(d) ==
  { [d EXCEPT !.services = ss,
              !.methods = [i \in DOMAIN d.methods |-> [d.methods[i] EXCEPT !.ref = rs[i]]]] :
      ss \in { f \in [DOMAIN d.services -> DOMAIN RefOf] :
                 \A i \in DOMAIN f : f[i] \in Spelled(d.services[i]) },
      rs \in { f \in [DOMAIN d.methods -> DOMAIN RefOf] :
                 \A i \in DOMAIN f : f[i] \in Spelled(d.methods[i].ref) } }

NoMetadata(d) ==
  d.tags = <<>> /\ \A f \in {"description", "displayName", "category"} : d.text[f] = <<>>

\* A document that a decode returns is the one that the config spells out, word for
\* word, references apart that were padded with blanks: nothing of it comes from an
\* earlier config, read whole or in part into the same document, and nothing in the
\* config is passed over.  So what decodes can always be encoded again.
DecodedIsSpelledOut ==
  status = "ok" =>
    LET d == ContentOf(handed[Len(handed)])
    IN /\ Encodable(d)
       /\ CASE version = 2 -> \E e \in Respelled(d) : Encode(e) = input
            [] version = 1 -> NoMetadata(d) /\ \E e \in Respelled(d) : Legacy(e) = input

AllShort(list) == Short(list) /\ \A i \in DOMAIN list : Short(list[i])
ShortParameters(params) == Short(params) /\ \A i \in DOMAIN params : Short(params[i].name)

\* The lengths that Encode writes without losing bits of them.
Fits(d) ==
  /\ \A f \in TextField : Short(d.text[f])
  /\ AllShort(d.tags) /\ AllShort(d.services) /\ Short(d.methods) /\ Short(d.relations)
  /\ \A i \in DOMAIN d.methods :
       /\ Short(d.methods[i].ref)
       /\ ShortParameters(d.methods[i].inputArgs) /\ ShortParameters(d.methods[i].outputArgs)
  /\ \A i \in DOMAIN d.relations :
       Short(d.relations[i].name) /\ Short(d.relations[i].condition)

\* The references that a document parsed by the program has are trimmed already.
Trimmed(d) ==
  /\ \A i \in DOMAIN d.services : d.services[i] \in DOMAIN RefOf /\ RefOf[d.services[i]] = d.services[i]
  /\ \A i \in DOMAIN d.methods : d.methods[i].ref \in DOMAIN RefOf
                                 /\ RefOf[d.methods[i].ref] = d.methods[i].ref

\* The config of a document whose lengths fit is decoded, and to that document; that
\* of version 1 to the document without its metadata.
EncodedIsDecoded ==
  status \in {"ok", "error"} =>
    \A d \in Document :
      Encodable(d) /\ Fits(d) /\ Trimmed(d) /\ input \in {Encode(d), Legacy(d)} =>
        /\ status = "ok"
        /\ LET got == ContentOf(handed[Len(handed)])
           IN IF version = 2 THEN got = d
              ELSE got.text.route = d.text.route /\ got.methods = d.methods
                   /\ got.services = d.services /\ got.relations = d.relations

\* A document that was returned is its caller's: what is decoded later, or fails to
\* be, changes nothing in it.
ReturnedDocumentsStay ==
  [][\A i \in DOMAIN handed : ContentOf(handed[i])' = ContentOf(handed[i])]_vars
=============================================================================
