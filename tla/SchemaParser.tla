---------------------------- MODULE SchemaParser ----------------------------
(***************************************************************************)
(* Parse of internal/schema/parser.go: a .clermfile is read line by line,  *)
(* and Document.Validate of internal/schema/schema.go has the last word.   *)
(* A line is its indentation, its key and its value; what a value means is *)
(* a constant, one for each function that parses values, defined for what  *)
(* that function accepts.  Blank lines and comments are skipped by the     *)
(* scanner and are not part of a file here.                                *)
(***************************************************************************)
EXTENDS Integers, Sequences, FiniteSets

CONSTANTS
  Key, Value,      \* the keys and the values that lines have, strings
  File,            \* the files: sequences of lines
  ServiceRef,      \* the values that ParseServiceRef takes
  RelationOf,      \* a service reference -> its relation
  Mode, Format,    \* the values that ParseExecutionMode, ParsePayloadFormat take
  Route,           \* the values that validateRoute takes
  CountOf,         \* a value that parseOptionalCount takes -> the count
  ParamsOf,        \* a value that parseParameters takes -> the parameters' names
  TagsOf           \* a value -> the tags that parseCSV makes of it

\* The key of a line that cannot be read: with a tab, an indentation of another
\* depth, an @routes prefix, no keyword or no colon.
NoKey == "unreadable line"

\* The keyword of a top-level line is followed by a value, as lines are trimmed.
Line ==
  [indent : {0}, key : Key \cup {NoKey}, value : Value \ {""}]
    \cup [indent : {2, 4}, key : Key \cup {NoKey}, value : Value]

ASSUME ParserAssumption ==
  /\ Key \subseteq STRING /\ Value \subseteq STRING /\ "" \in Value
  /\ File \subseteq Seq(Line)
  /\ ServiceRef \subseteq Value /\ DOMAIN RelationOf = ServiceRef
  /\ Mode \subseteq Value \ {""} /\ Format \subseteq Value \ {""}
  /\ Route \subseteq Value
  /\ DOMAIN CountOf \subseteq Value
  /\ \A v \in DOMAIN CountOf : CountOf[v] \in Nat \cup {-1}
  /\ DOMAIN ParamsOf \subseteq Value
  /\ \A v \in DOMAIN ParamsOf : ParamsOf[v] \in Seq(STRING)
  /\ DOMAIN TagsOf = Value
  /\ \A v \in Value : TagsOf[v] \in Seq(STRING)

VARIABLES
  file,     \* the file that is parsed
  pos,      \* the next line
  doc,      \* the document so far, a Document
  section,  \* parserState: the top-level declaration that the lines belong to
  nested,   \* parserState: the declaration that lines of depth 4 belong to
  outcome

parserVars == <<file, pos, doc, section, nested, outcome>>

Side == {"input", "output"}

Field == {"description", "display_name", "category", "tags"}

Method ==
  [ref : ServiceRef, exec : Mode \cup {""}, count : [Side -> Nat \cup {-1}],
   args : [Side -> Seq(STRING)], format : Format \cup {""}]

Rule == [name : Key, condition : Value]

Document ==
  [name : Value, route : Value, metadata : [Field -> Value], services : Seq(ServiceRef),
   methods : Seq(Method), relationsName : Value, relations : Seq(Rule)]

EmptyDocument ==
  [name |-> "", route |-> "", metadata |-> [f \in Field |-> ""], services |-> <<>>,
   methods |-> <<>>, relationsName |-> "", relations |-> <<>>]

NewMethod(ref) ==
  [ref |-> ref, exec |-> "", count |-> [s \in Side |-> -1],
   args |-> [s \in Side |-> <<>>], format |-> ""]

ParserInit ==
  /\ file \in File
  /\ pos = 1
  /\ doc = EmptyDocument
  /\ section = "none"
  /\ nested = "none"
  /\ outcome = "reading"

line == file[pos]

----------------------------------------------------------------------------
(* Faulty variants of the code, one plausible slip each.  Nothing below    *)
(* uses them: each shows that the properties notice the slip.              *)

\* The pointer to the current method is taken once.
FirstMethod == 1

\* A top-level declaration leaves the nested section as it was.
NestedKept == nested

\* Relation rules may come twice.
RulesRepeated(d) == TRUE

----------------------------------------------------------------------------
(* Document.Validate *)

NoRepeat(s) == \A i, j \in DOMAIN s : s[i] = s[j] => i = j

ValidMetadata(metadata) ==
  LET tags == TagsOf[metadata["tags"]] IN
  \/ metadata["description"] = "" /\ metadata["display_name"] = ""
     /\ metadata["category"] = "" /\ tags = <<>>
  \/ /\ metadata["description"] # "" \/ metadata["display_name"] # ""
     /\ NoRepeat(tags)

ValidMethod(m) ==
  /\ m.exec # "" /\ m.format # ""
  /\ m.args["output"] # <<>>
  /\ \A s \in Side :
       /\ m.count[s] \in {-1, Len(m.args[s])}
       /\ NoRepeat(m.args[s])
       /\ \A i \in DOMAIN m.args[s] : m.args[s][i] # ""

\* Lines 370-381 of schema.go.
DistinctRules(d) == NoRepeat([i \in DOMAIN d.relations |-> d.relations[i].name])

\* The order of the checks does not matter: any that fails rejects the document.
Valid(d) ==
  /\ d.name # "" /\ d.services # <<>> /\ d.methods # <<>> /\ d.relations # <<>>
  /\ d.route \in Route
  /\ ValidMetadata(d.metadata)
  /\ NoRepeat(d.services)
  /\ NoRepeat([i \in DOMAIN d.methods |-> d.methods[i].ref])
  /\ \A i \in DOMAIN d.methods :
       /\ \E j \in DOMAIN d.services : d.services[j] = d.methods[i].ref
       /\ ValidMethod(d.methods[i])
  /\ \A i \in DOMAIN d.relations : d.relations[i].condition # ""
  /\ DistinctRules(d)
  /\ \A i \in DOMAIN d.services :
       \E j \in DOMAIN d.relations : d.relations[j].name = RelationOf[d.services[i]]

----------------------------------------------------------------------------
(* What the parser takes where it stands *)

AllowedAtTop ==
  \/ line.key = "schema" /\ doc.name = ""
  \/ line.key = "method" /\ doc.name # "" /\ line.value \in ServiceRef
  \/ line.key = "relations" /\ doc.name # "" /\ doc.relationsName = ""

AllowedInSchema ==
  \/ line.key = "@metadata" /\ line.value = ""
  \/ line.key = "service" /\ line.value \in ServiceRef
  \/ line.key = "@route" /\ doc.route = "" /\ line.value # ""

AllowedInMethod ==
  \/ line.key = "@exec" /\ line.value \in Mode
  \/ line.key \in {"@args_input", "@args_output"} /\ line.value \in DOMAIN CountOf

AllowedNested ==
  \/ /\ section = "schema" /\ nested = "metadata"
     /\ line.key \in Field
  \/ /\ section = "method" /\ nested \in Side
     /\ \/ line.key = "decl_args" /\ line.value \in DOMAIN ParamsOf
        \/ line.key = "decl_format" /\ nested = "output" /\ line.value \in Format

Allowed ==
  CASE line.indent = 0 -> AllowedAtTop
    [] line.indent = 2 -> \/ section = "schema" /\ AllowedInSchema
                          \/ section = "method" /\ AllowedInMethod
                          \/ section = "relations" /\ line.key # NoKey
    [] line.indent = 4 -> AllowedNested

Reading(depth) ==
  /\ outcome = "reading" /\ pos <= Len(file)
  /\ line.indent = depth /\ Allowed
  /\ pos' = pos + 1
  /\ UNCHANGED <<file, outcome>>

----------------------------------------------------------------------------
(* beginTopLevel, lines 72-116 *)

NestedAtTop == "none"

DeclareSchema ==
  /\ Reading(0) /\ line.key = "schema"
  /\ doc' = [doc EXCEPT !.name = line.value]
  /\ section' = "schema" /\ nested' = NestedAtTop

DeclareMethod ==
  /\ Reading(0) /\ line.key = "method"
  /\ doc' = [doc EXCEPT !.methods = Append(@, NewMethod(line.value))]
  /\ section' = "method" /\ nested' = NestedAtTop

DeclareRelations ==
  /\ Reading(0) /\ line.key = "relations"
  /\ doc' = [doc EXCEPT !.relationsName = line.value]
  /\ section' = "relations" /\ nested' = NestedAtTop

----------------------------------------------------------------------------
(* parseLevelOne, lines 118-198 *)

OpenMetadata ==
  /\ Reading(2) /\ section = "schema" /\ line.key = "@metadata"
  /\ nested' = "metadata"
  /\ UNCHANGED <<doc, section>>

AddService ==
  /\ Reading(2) /\ section = "schema" /\ line.key = "service"
  /\ doc' = [doc EXCEPT !.services = Append(@, line.value)]
  /\ nested' = "none"
  /\ UNCHANGED section

SetRoute ==
  /\ Reading(2) /\ section = "schema" /\ line.key = "@route"
  /\ doc' = [doc EXCEPT !.route = line.value]
  /\ nested' = "none"
  /\ UNCHANGED section

\* The current method is a pointer to the last element of doc.Methods, taken after
\* every append (line 96), as an append may move the elements.
CurrentMethod == Len(doc.methods)

SetExec ==
  /\ Reading(2) /\ section = "method" /\ line.key = "@exec"
  /\ doc' = [doc EXCEPT !.methods[CurrentMethod].exec = line.value]
  /\ nested' = "none"
  /\ UNCHANGED section

SideOf(key) == IF key = "@args_input" THEN "input" ELSE "output"

OpenArguments ==
  /\ Reading(2) /\ section = "method" /\ line.key \in {"@args_input", "@args_output"}
  /\ LET side == SideOf(line.key) IN
       /\ doc' = [doc EXCEPT !.methods[CurrentMethod].count[side] = CountOf[line.value]]
       /\ nested' = side
  /\ UNCHANGED section

AddRule ==
  /\ Reading(2) /\ section = "relations"
  /\ doc' = [doc EXCEPT !.relations =
               Append(@, [name |-> line.key, condition |-> line.value])]
  /\ UNCHANGED <<section, nested>>

----------------------------------------------------------------------------
(* parseLevelTwo and parseMetadataField, lines 200-259 *)

SetField ==
  /\ Reading(4) /\ section = "schema"
  /\ doc' = [doc EXCEPT !.metadata[line.key] = line.value]
  /\ UNCHANGED <<section, nested>>

SetArguments ==
  /\ Reading(4) /\ section = "method" /\ line.key = "decl_args"
  /\ doc' = [doc EXCEPT !.methods[CurrentMethod].args[nested] = ParamsOf[line.value]]
  /\ UNCHANGED <<section, nested>>

SetFormat ==
  /\ Reading(4) /\ section = "method" /\ line.key = "decl_format"
  /\ doc' = [doc EXCEPT !.methods[CurrentMethod].format = line.value]
  /\ UNCHANGED <<section, nested>>

----------------------------------------------------------------------------
(* Parse, lines 14-64 *)

\* A line that is not allowed where it stands ends the parse.
Reject ==
  /\ outcome = "reading" /\ pos <= Len(file)
  /\ ~ Allowed
  /\ outcome' = "rejected"
  /\ UNCHANGED <<file, pos, doc, section, nested>>

\* The reader fails, or a line is longer than the scanner's buffer.
FailToRead ==
  /\ outcome = "reading"
  /\ outcome' = "unread"
  /\ UNCHANGED <<file, pos, doc, section, nested>>

Finish ==
  /\ outcome = "reading" /\ pos > Len(file)
  /\ outcome' = IF Valid(doc) THEN "accepted" ELSE "rejected"
  /\ UNCHANGED <<file, pos, doc, section, nested>>

ParserNext ==
  \/ DeclareSchema \/ DeclareMethod \/ DeclareRelations
  \/ OpenMetadata \/ AddService \/ SetRoute \/ SetExec \/ OpenArguments \/ AddRule
  \/ SetField \/ SetArguments \/ SetFormat
  \/ Reject \/ FailToRead \/ Finish

ParserSpec == ParserInit /\ [][ParserNext]_parserVars

----------------------------------------------------------------------------
(* A file as its indentation nests it, without a parser's state *)

Latest(S) == CHOOSE i \in S : \A j \in S : j <= i

\* The line that i is nested under, or 0.
Parent(i) ==
  Latest({0} \cup {j \in 1 .. (i - 1) : file[j].indent < file[i].indent})

Tops(key, n) == {i \in 1 .. n : file[i].indent = 0 /\ file[i].key = key}

Under(parents, n) == {i \in 1 .. n : Parent(i) \in parents}

Having(key, S) == {i \in S : file[i].key = key}

LatestValue(S) == IF S = {} THEN "" ELSE file[Latest(S)].value

\* The members of S in their order: the k-th is the one that k of them do not exceed.
Place(S, i) == Cardinality({j \in S : j <= i})

InOrder(S) == [k \in 1 .. Cardinality(S) |-> CHOOSE i \in {j \in S : Place(S, j) = k} : TRUE]

NestedMethod(h, n) ==
  LET lines == Under({h}, n)
      side(s) == Having(IF s = "input" THEN "@args_input" ELSE "@args_output", lines)
      args(s) == Having("decl_args", Under(side(s), n))
  IN [ref |-> file[h].value,
      exec |-> LatestValue(Having("@exec", lines)),
      count |-> [s \in Side |-> IF side(s) = {} THEN -1 ELSE CountOf[LatestValue(side(s))]],
      args |-> [s \in Side |-> IF args(s) = {} THEN <<>> ELSE ParamsOf[LatestValue(args(s))]],
      format |-> LatestValue(Having("decl_format", Under(side("output"), n)))]

\* The document that the first n lines declare.
NestedDocument(n) ==
  LET lines == Under(Tops("schema", n), n)
      fields == Under(Having("@metadata", lines), n)
      services == InOrder(Having("service", lines))
      methods == InOrder(Tops("method", n))
      rules == InOrder(Under(Tops("relations", n), n))
  IN [name |-> LatestValue(Tops("schema", n)),
      route |-> LatestValue(Having("@route", lines)),
      metadata |-> [f \in Field |-> LatestValue(Having(f, fields))],
      services |-> [k \in DOMAIN services |-> file[services[k]].value],
      methods |-> [k \in DOMAIN methods |-> NestedMethod(methods[k], n)],
      relationsName |-> LatestValue(Tops("relations", n)),
      relations |-> [k \in DOMAIN rules |->
                       [name |-> file[rules[k]].key, condition |-> file[rules[k]].value]]]

\* No line of S is before i.
FirstOf(i, S) == \A j \in S : j >= i

LegalAtTop(i) ==
  LET l == file[i] IN
  /\ l.indent = 0
  /\ \/ l.key = "schema" /\ FirstOf(i, Tops("schema", i))
     \/ l.key = "method" /\ l.value \in ServiceRef /\ Tops("schema", i) # {}
     \/ l.key = "relations" /\ FirstOf(i, Tops("relations", i)) /\ Tops("schema", i) # {}

LegalInSection(i) ==
  LET l == file[i]
      p == Parent(i)
  IN
  /\ l.indent = 2 /\ p # 0
  /\ CASE file[p].key = "schema" ->
            \/ l.key = "@metadata" /\ l.value = ""
            \/ l.key = "service" /\ l.value \in ServiceRef
            \/ l.key = "@route" /\ l.value # "" /\ FirstOf(i, Having("@route", Under({p}, i)))
       [] file[p].key = "method" ->
            \/ l.key = "@exec" /\ l.value \in Mode
            \/ l.key \in {"@args_input", "@args_output"} /\ l.value \in DOMAIN CountOf
       [] OTHER -> l.key # NoKey

LegalNested(i) ==
  LET l == file[i]
      p == Parent(i)
      g == Parent(p)
  IN
  /\ l.indent = 4 /\ p # 0 /\ file[p].indent = 2 /\ g # 0
  /\ CASE file[g].key = "schema" -> file[p].key = "@metadata" /\ l.key \in Field
       [] file[g].key = "method" ->
            \/ /\ file[p].key \in {"@args_input", "@args_output"}
               /\ l.key = "decl_args" /\ l.value \in DOMAIN ParamsOf
            \/ /\ file[p].key = "@args_output"
               /\ l.key = "decl_format" /\ l.value \in Format
       [] OTHER -> FALSE

\* Line i is legal under the lines it is nested in.
WellNested(i) == LegalAtTop(i) \/ LegalInSection(i) \/ LegalNested(i)

----------------------------------------------------------------------------
(* Properties *)

\* The parser keeps a section, a nested section and a pointer into a slice that
\* grows (parser.go 66-70): at every line, what it has built is what the lines so
\* far declare by the way they are nested.
ReadsWhatIsNested ==
  outcome # "rejected" => doc = NestedDocument(pos - 1)

\* Files are accepted exactly when every line is legal where it is nested and the
\* document they declare is valid (Parse, lines 22-63).
VerdictIsTheGrammar ==
  outcome \in {"accepted", "rejected"} =>
    (outcome = "accepted" <=>
       /\ \A i \in DOMAIN file : WellNested(i)
       /\ Valid(NestedDocument(Len(file))))

\* The resolver makes maps of an accepted document, methods by reference and
\* conditions by relation (resolver/service.go 122-130): no method overwrites
\* another, each is a service of the schema and has one condition, wherever in the
\* file the three stand.
MethodsHaveOneCondition ==
  outcome = "accepted" =>
    LET methods == Tops("method", Len(file))
        services == Having("service", Under(Tops("schema", Len(file)), Len(file)))
        rules == Under(Tops("relations", Len(file)), Len(file))
    IN \A m \in methods :
         /\ \A n \in methods : file[n].value = file[m].value => n = m
         /\ \E s \in services : file[s].value = file[m].value
         /\ \E r \in rules :
              /\ file[r].value # ""
              /\ \A q \in rules : file[q].key = RelationOf[file[m].value] <=> q = r
=============================================================================
