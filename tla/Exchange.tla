------------------------------ MODULE Exchange ------------------------------
(***************************************************************************)
(* One consumer and one service, end to end: `clerm token issue` and       *)
(* `clerm token refresh` write the tokens of the registry to files, `clerm *)
(* request` builds a request with them, the service or the daemon resolves *)
(* it and answers, and the answer is read back, by `clerm invoke` through  *)
(* the registry and `clerm inspect`, or by a host of the daemon.  Requests *)
(* also come from elsewhere, and may be damaged on their way.  The modules *)
(* Values, RequestFrame, TokenCodec, ResponseCodec and ErrorTexts say what *)
(* each side makes of the bytes.                                           *)
(***************************************************************************)
EXTENDS ResponseCodec, TokenCodec, ErrorTexts

CONSTANTS
  Document,     \* the schemas: a name, a fingerprint, methods and conditions
  Unguarded,    \* the condition any.protected, in its spellings
  Ring,         \* the keyrings that a service may have been given
  Options,      \* what the registry issues tokens for, its key and its clock
  Now,          \* the times at which the service may look at its clock
  Skew,
  Target,       \* the values of Clerm-Target
  Payloads,     \* reference of a method -> payloads that are passed for it
  Foreign,      \* the methods and arguments that come from elsewhere
  Outcome,      \* what handlers and hosts may come to
  InlineLimit,  \* the longest answer that `clerm invoke` prints
  Paths,        \* the files that a token command may be given to write, in its order
  CutAt,        \* where a write to a file may break off
  MaxTokens     \* the bound on the tokens issued

Parameter == [name : Str, type : Type]
Response == [method : Str, outputs : Seq(Argument), code : Str, message : Str]

\* A payload's object, and the methods and conditions of a document, under their names.
IsObject(payload) == \A n \in DOMAIN payload : n \in Str /\ payload[n] \in Str

IsDocument(doc) ==
  /\ doc.name \in Str /\ doc.hash \in Word /\ IsObject(doc.conditions)
  /\ \A ref \in DOMAIN doc.methods :
       LET m == doc.methods[ref] IN
       ref \in Str /\ m.inputs \in Seq(Parameter) /\ m.outputs \in Seq(Parameter) /\ m.relation \in Str

IsOption(o) ==
  /\ \A f \in StringFields : o[f] \in Str
  /\ \A f \in ListFields : o[f] \in Seq(Str)
  /\ {o.hash, o.now, o.issuedAt, o.notBefore, o.expiresAt} \subseteq Word

IsOutcome(o) ==
  \/ o.kind = "outputs" /\ IsObject(o.outputs)
  \/ o.kind \in {"failure", "goerror"} /\ o.code \in Str /\ o.message \in Str
  \/ o.kind = "response" /\ o.response \in Response

ASSUME ExchangeAssumption ==
  /\ InlineLimit \in Nat /\ MaxTokens \in Word /\ Skew \in Nat /\ CutAt \subseteq Nat
  /\ Now \subseteq Nat /\ Unguarded \subseteq Str /\ Target \subseteq Str
  /\ Paths \subseteq {<<>>, <<"cap">>, <<"refresh">>, <<"cap", "refresh">>}
  /\ Foreign \subseteq Content
  /\ \A doc \in Document : IsDocument(doc)
  /\ \A o \in Options : IsOption(o)
  /\ \A ref \in DOMAIN Payloads : \A payload \in Payloads[ref] : IsObject(payload)
  /\ \A o \in Outcome : IsOutcome(o)

VARIABLES
  signed,      \* everything that was ever signed, and with which key
  issued,      \* the tokens issued
  files,       \* the capability file and the refresh file of the consumer
  writing,     \* what the token command under way has still to write
  reported,    \* what the last token command said it wrote, if it came that far
  request,     \* the request file, and what it was made of
  served,      \* the document of the service
  rings,       \* its keyring, if it was given one
  reserved,    \* the identifiers that its replay store holds
  invocation,  \* how the service resolved the request
  answer,      \* what it answered, and what that was made of
  view         \* what the client read

tokenVars == <<signed, issued, files, writing, reported>>
serviceVars == <<served, rings, reserved>>
vars == <<tokenVars, serviceVars, request, invocation, answer, view>>

None == "none"

NoRequest == [from |-> None]
NoInvocation == [refusal |-> "unresolved"]
NoAnswer == [status |-> 0, from |-> None]
NoView == [kind |-> None]

-----------------------------------------------------------------------------
(* The tokens of the registry, and the files they are kept in *)

\* The file that has to be written now, and all of its text.
File == Head(writing.todo)
Line == writing.text[File] \o <<Blank>>

\* A faulty variant: a write that broke off is not noticed.
AnyWriteIsWhole(n) == TRUE

\* os.WriteFile returned no error.
Written(n) == n = Len(Line)

\* The registry signs what it is asked for; the refresh token is its own, <<1>>, <<2>>...
IssueToken(o, paths) ==
  LET t == Unsigned(o, o.now, <<W - 1, Len(signed) + 1>>)
      token == [f \in DOMAIN t \cup {"signature"} |->
                 IF f = "signature" THEN <<Len(signed) + 1>> ELSE t[f]]
  IN /\ writing.todo = <<>> /\ request = NoRequest /\ Len(signed) < MaxTokens
     /\ ValidateUnsigned(t)
     /\ signed' = Append(signed, [key |-> o.key, payload |-> Payload(t)])
     /\ issued' = issued \cup {token}
     /\ writing' = [paths |-> paths, todo |-> paths, open |-> FALSE,
                    text |-> [cap |-> EncodeText(token), refresh |-> <<Len(signed) + 1>>]]
     /\ reported' = {}
     /\ UNCHANGED <<files, serviceVars, request, invocation, answer, view>>

\* writeTokenOutputs, one file after the other.  os.WriteFile empties the file first.
OpenFile ==
  /\ writing.todo # <<>> /\ ~writing.open
  /\ files' = [files EXCEPT ![File] = <<>>]
  /\ writing' = [writing EXCEPT !.open = TRUE]
  /\ UNCHANGED <<signed, issued, reported, serviceVars, request, invocation, answer, view>>

WriteFile(n) ==
  /\ writing.todo # <<>> /\ writing.open /\ n <= Len(Line)
  /\ files' = [files EXCEPT ![File] = SubSeq(Line, 1, n)]
  /\ IF Written(n)
       THEN /\ writing' = [writing EXCEPT !.todo = Tail(@), !.open = FALSE]
            /\ reported' = IF Len(writing.todo) = 1 THEN ToSet(writing.paths) ELSE {}
       ELSE writing' = [writing EXCEPT !.todo = <<>>, !.open = FALSE] /\ reported' = {}
  /\ UNCHANGED <<signed, issued, serviceVars, request, invocation, answer, view>>

\* The file cannot be opened, or the command is killed.
GiveUp ==
  /\ writing.todo # <<>>
  /\ writing' = [writing EXCEPT !.todo = <<>>, !.open = FALSE]
  /\ UNCHANGED <<signed, issued, files, reported, serviceVars, request, invocation, answer, view>>

-----------------------------------------------------------------------------
(* `clerm request` *)

RequiresCapability(condition) == Trim(condition) \notin Unguarded

\* A faulty variant: the client leaves the fingerprint to the service.
ScopeOfAnyVersion(doc, ref, condition, t) ==
  /\ t.schema = doc.name /\ t.condition = condition
  /\ AllowsMethod(t, ref, doc.methods[ref].relation)

\* validateCapabilityScope
InScope(doc, ref, condition, t) ==
  /\ t.schema = doc.name /\ t.hash = doc.hash /\ t.condition = condition
  /\ AllowsMethod(t, ref, doc.methods[ref].relation)

\* readCapabilityToken: -cap holds what the file of -cap-file holds.
CapabilityToken == DecodeText(files["cap"])

\* capability says whether -cap or -cap-file is given.
BuildRequest(doc, ref, payload, capability) ==
  LET method == doc.methods[ref]
      condition == doc.conditions[method.relation]
      args == BuildValues(method.inputs, payload)
      token == CapabilityToken
      message == [method |-> ref, args |-> args.val]
  IN /\ request = NoRequest
     /\ ref \in DOMAIN doc.methods /\ method.relation \in DOMAIN doc.conditions
     /\ args.ok
     /\ capability => token.ok /\ InScope(doc, ref, condition, token.val)
     /\ RequiresCapability(condition) => capability
     /\ request' = [from |-> "cli", doc |-> doc, message |-> message, payload |-> payload,
                    tokens |-> IF capability THEN {token.val} ELSE {},
                    frame |-> Frame(message, IF capability THEN Encode(token.val) ELSE <<>>)]
     /\ UNCHANGED <<tokenVars, serviceVars, invocation, answer, view>>

\* A request that something else made, with a token that it has from the registry.
OtherRequest(m, tokens) ==
  /\ request = NoRequest
  /\ request' = [from |-> "elsewhere",
                 frame |-> Frame(m, IF tokens = {} THEN <<>> ELSE Encode(CHOOSE t \in tokens : TRUE))]
  /\ UNCHANGED <<tokenVars, serviceVars, invocation, answer, view>>

\* A word of a request with a token is not what it was any more.
Damage(i) ==
  /\ request.from = "cli" /\ request.tokens # {} /\ i \in DOMAIN request.frame
  /\ answer = NoAnswer /\ invocation = NoInvocation
  /\ request' = [from |-> "damaged", frame |-> [request.frame EXCEPT ![i] = (@ + 1) % W]]
  /\ UNCHANGED <<tokenVars, serviceVars, invocation, answer, view>>

-----------------------------------------------------------------------------
(* The service resolves a request *)

Checks == << "frame", "method", "arguments", "capability" >>
TokenChecks == << "keyring", "token", "signature", "window", "schema", "fingerprint",
                  "condition", "scope", "target", "replay" >>

\* Whether the decoded request d with the token t passes a check, given that it passed
\* those before; target is the value of Clerm-Target.
Passes(check, d, t, target, now) ==
  LET ref == d.message.method
      method == served.methods[ref]
      condition == IF method.relation \in DOMAIN served.conditions
                     THEN served.conditions[method.relation] ELSE <<>>
  IN CASE check = "frame" -> d.ok
       [] check = "method" -> ref \in DOMAIN served.methods
       [] check = "arguments" -> ValidateValues(d.message.args, method.inputs)
       [] check = "capability" -> d.token # <<>> \/ ~RequiresCapability(condition)
       [] check = "keyring" -> rings # {}
       [] check = "token" -> t.ok
       [] check = "signature" -> \E ring \in rings : Verify(ring, signed, t.val)
       [] check = "window" -> InWindow(t.val, now, Skew)
       [] check = "schema" -> t.val.schema = served.name
       [] check = "fingerprint" -> t.val.hash = served.hash
       [] check = "condition" -> t.val.condition = condition
       [] check = "scope" -> AllowsMethod(t.val, ref, method.relation)
       [] check = "target" -> AllowsTarget(t.val, IF Trim(target) = <<>> THEN ref ELSE Trim(target))
       [] check = "replay" -> t.val.tokenID \notin reserved

\* The first check that the request does not pass.
Refusal(d, t, target, now) ==
  LET checks == Checks \o IF d.token = <<>> THEN <<>> ELSE TokenChecks
      upTo[k \in 0 .. Len(checks)] ==
        IF k = 0 THEN None
        ELSE LET before == upTo[k - 1]
             IN IF before # None \/ Passes(checks[k], d, t, target, now) THEN before ELSE checks[k]
  IN upTo[Len(checks)]

\* The code of a refusal; a frame or a token is short, or it is not valid.
RefusalCode(refusal) ==
  CASE refusal = "method" -> {NotFound}
    [] refusal \in {"frame", "token"} -> {IOError, ValidationError}
    [] OTHER -> {ValidationError}

\* The answer to a request that is refused, and to one that the decode endpoint takes:
\* the command as JSON, which stays empty when an argument has none.
AnswerTo(refusal, endpoint, args) ==
  IF refusal # None
    THEN { [status |-> HttpStatus(c), from |-> "refusal", code |-> c, body |-> ErrorText(c, <<>>)]
           : c \in RefusalCode(refusal) }
    ELSE IF endpoint = "serve" THEN {NoAnswer}
    ELSE { [status |-> 200, from |-> "command",
            body |-> IF \A n \in DOMAIN args : Encodes(args[n]) THEN <<args>> ELSE <<>>] }

\* decodedArgumentMap, which decodes once; the outcome stays with the invocation.
DecodedArguments(args) == ValuesAsMap(args)

Resolve ==
  LET d == Decoded(request.frame)
      t == Decode(d.token)
      args == DecodedArguments(d.message.args)
      tokens == IF d.token = <<>> THEN {} ELSE {t.val}
  IN /\ request # NoRequest /\ invocation = NoInvocation /\ answer = NoAnswer
     /\ \E endpoint \in {"serve", "decode"}, target \in Target, now \in Now :
          LET refusal == Refusal(d, t, target, now) IN
          /\ invocation' = IF refusal # None THEN [refusal |-> refusal]
               ELSE [refusal |-> None, endpoint |-> endpoint, method |-> d.message.method,
                     names |-> Names(d.message.args), args |-> args, tokens |-> tokens]
          /\ answer' \in AnswerTo(refusal, endpoint, args)
          /\ reserved' = IF refusal = None THEN reserved \cup {x.tokenID : x \in tokens} ELSE reserved
     /\ UNCHANGED <<tokenVars, served, rings, request, view>>

-----------------------------------------------------------------------------
(* The answer *)

\* A faulty variant: a failure is one with a message.
FailsByMessage(o, endpoint) ==
  o.kind = "goerror" \/ (o.kind = "failure" /\ Trim(o.message) # <<>>)

\* A host's error is an error whatever it says, a handler's when it says something.
Fails(o, endpoint) ==
  \/ o.kind = "goerror"
  \/ /\ o.kind = "failure"
     /\ endpoint = "decode" \/ Trim(o.code) # <<>> \/ Trim(o.message) # <<>>

\* ExecuteInvocation and, after its error, buildExecutionErrorResponse; for a host of
\* the daemon, the encode endpoint.
ResponseTo(o, ref, params, endpoint) ==
  LET outputs == IF o.kind = "outputs" THEN o.outputs ELSE <<>>
      built == BuildValues(params, outputs)
      invalid == ErrorOf(ref, <<ValidationError>>, <<>>)
  IN CASE Fails(o, endpoint) -> ErrorOf(ref, Trim(o.code), Trim(o.message))
       [] o.kind = "response" ->
            IF ResponseMatches(o.response, ref, params) THEN o.response ELSE invalid
       [] OTHER -> IF built.ok THEN SuccessOf(ref, built.val) ELSE invalid

\* The handler, or the host that asked the decode endpoint, comes to an outcome.  The
\* encode endpoint knows outputs and failures, and refuses outputs that are none.
Respond(o) ==
  LET params == served.methods[invocation.method].outputs
      r == ResponseTo(o, invocation.method, params, invocation.endpoint)
      hosted == invocation.endpoint = "decode"
  IN /\ invocation.refusal = None
     /\ hosted => answer.from = "command" /\ answer.body # <<>> /\ o.kind \in {"outputs", "failure"}
     /\ ~hosted => answer = NoAnswer
     /\ answer' =
          IF hosted /\ ~Fails(o, "decode") /\ IsError(r)
            THEN [status |-> 400, from |-> "refusal", code |-> ValidationError,
                  body |-> ErrorText(ValidationError, <<>>)]
            ELSE [status |-> 200, from |-> "outcome", outcome |-> o, response |-> r,
                  body |-> IF Encodable(r) THEN EncodeResponse(r) ELSE <<>>]
     /\ UNCHANGED <<tokenVars, serviceVars, request, invocation, view>>

\* The registry refuses an invocation itself, as the services here do.
RegistryRefuses(code) ==
  /\ request.from = "cli" /\ invocation = NoInvocation /\ answer = NoAnswer
  /\ answer' = [status |-> HttpStatus(code), from |-> "refusal", code |-> code,
                body |-> ErrorText(code, <<>>)]
  /\ UNCHANGED <<tokenVars, serviceVars, request, invocation, view>>

\* Invoke makes an error of a refusal, unless the registry's header says it is relayed.
InvokeFails(relayed) == answer.status >= 400 /\ ~relayed

\* buildInvokeView prints no body that is too long, unless it goes to a file.
TooLongToPrint(toFile) == ~toFile /\ InlineLimit > 0 /\ Len(answer.body) > InlineLimit

\* inspectPath, for what may be a response.
Inspected(body) ==
  LET response == DecodeResponse(body)
  IN IF response.ok THEN [kind |-> "response", response |-> response.val]
                    ELSE [kind |-> "unreadable"]

\* `clerm invoke`, and `clerm inspect` of what it printed or wrote.
Read(toFile, relayed) ==
  LET failure == ResponseError(answer.status, answer.body)
  IN /\ answer # NoAnswer /\ answer.from # "command" /\ view = NoView
     /\ view' =
          IF InvokeFails(relayed) THEN [kind |-> "error", code |-> failure.code]
          ELSE IF TooLongToPrint(toFile) THEN [kind |-> "toolong"]
          ELSE Inspected(answer.body)
     /\ UNCHANGED <<tokenVars, serviceVars, request, invocation, answer>>

\* The client sends the request again, or is done with it.
Again ==
  /\ view # NoView \/ answer.from = "command"
  /\ invocation' = NoInvocation /\ answer' = NoAnswer /\ view' = NoView
  /\ request' \in {request, NoRequest}
  /\ UNCHANGED <<tokenVars, serviceVars>>

-----------------------------------------------------------------------------

Init ==
  /\ signed = <<>> /\ issued = {} /\ reserved = {}
  /\ files = [cap |-> <<>>, refresh |-> <<>>]
  /\ writing = [paths |-> <<>>, todo |-> <<>>, open |-> FALSE, text |-> [cap |-> <<>>, refresh |-> <<>>]]
  /\ reported = {}
  /\ request = NoRequest /\ invocation = NoInvocation /\ answer = NoAnswer /\ view = NoView
  /\ served \in Document /\ rings \in {{}} \cup {{ring} : ring \in Ring}

Next ==
  \/ \E o \in Options, paths \in Paths : IssueToken(o, paths)
  \/ OpenFile \/ GiveUp
  \/ \E n \in CutAt \cup {IF writing.todo = <<>> THEN 0 ELSE Len(Line)} : WriteFile(n)
  \/ \E doc \in Document : \E ref \in DOMAIN Payloads : \E payload \in Payloads[ref] :
       \E capability \in BOOLEAN : BuildRequest(doc, ref, payload, capability)
  \/ \E m \in Foreign, tokens \in {{}} \cup {{t} : t \in issued} : OtherRequest(m, tokens)
  \/ \E i \in DOMAIN (IF request.from = "cli" THEN request.frame ELSE <<>>) : Damage(i)
  \/ Resolve
  \/ \E o \in Outcome : Respond(o)
  \/ \E code \in Code : RegistryRefuses(code)
  \/ \E toFile, relayed \in BOOLEAN : Read(toFile, relayed)
  \/ Again

Spec == Init /\ [][Next]_vars

-----------------------------------------------------------------------------
(* Properties *)

AllFit == \A t \in issued : TokenFits(t)

\* The frame of the request that was built says how long everything in it is.
RequestFits ==
  /\ Short(request.message.method) /\ ShortArguments(request.message.args)
  /\ \A t \in request.tokens : ShortBytes(Encode(t))

Admitted == invocation.refusal = None

\* A capability file that was emptied, or that a write broke off in, gives no request a
\* token: what a request is built with is a token as the registry issued it.
BuiltTokenIsIssued ==
  request.from = "cli" /\ AllFit => request.tokens \subseteq issued

\* When a token command says it is done, the files it was given hold its pair.
ReportedPairIsOnDisk ==
  \A f \in reported : files[f] = writing.text[f] \o <<Blank>>

\* The service grants only what was issued with a key it trusts, field for field, in
\* whatever frame the token came and whatever became of the bytes on the way.
GrantedIsIssued ==
  Admitted /\ AllFit => invocation.tokens \subseteq issued

\* `clerm request` and the service check alike: one that was built for the document
\* served is refused only for what the client cannot know.
ClientChecksWhatServerChecks ==
  request.from = "cli" /\ request.doc = served /\ RequestFits =>
    invocation.refusal \in
      {None, "unresolved", "keyring", "signature", "window", "target", "replay"}

\* Whatever passes the checks is decoded, so no handler loses its arguments; those that
\* were passed to `clerm request` arrive, each under its own name.
ArgumentsArrive ==
  Admitted =>
    /\ DOMAIN invocation.args = invocation.names
    /\ request.from = "cli" /\ RequestFits =>
         invocation.args = [n \in DOMAIN request.payload |-> Trim(request.payload[n])]

\* What `clerm request` takes is what `clerm tools` tells a model to pass.
BuiltConformsToTool ==
  request.from = "cli" =>
    Conforms(request.doc.methods[request.message.method].inputs, request.payload)

\* The decode endpoint answers a request that `clerm request` built with a command.  The
\* client reads the response that the service made of the outcome, or sees that it has
\* none because something in it was too long.
AnswerIsRead ==
  /\ answer.from = "command" /\ request.from = "cli" /\ RequestFits => answer.body # <<>>
  /\ view # NoView /\ answer.from = "outcome" /\ ShortValues(answer.response.outputs) =>
       CASE view.kind = "response" -> view.response = Said(answer.response)
         [] view.kind = "unreadable" -> ~Encodable(answer.response)
         [] OTHER -> view.kind = "toolong"

\* No failure is read as a success: a handler's, unless it says nothing at all, a host's
\* whatever it says, and outputs that are not those of the method.
FailureIsRead ==
  view.kind = "response" /\ ~IsError(view.response) =>
    LET o == answer.outcome IN
    /\ answer.from = "outcome"
    /\ o.kind = "failure" => Trim(o.code) = <<>> /\ Trim(o.message) = <<>>
                             /\ invocation.endpoint = "serve"
    /\ o.kind # "goerror"
    /\ ShortValues(answer.response.outputs) =>
         ValidateValues(view.response.outputs, served.methods[invocation.method].outputs)

\* The client's error has the code of the server's.
CodeSurvives ==
  view.kind = "error" => view.code = answer.code
=============================================================================
