-------------------------- MODULE RequestPipeline --------------------------
(***************************************************************************)
(* From an HTTP request to its answer: ServeHTTP and ExecuteInvocation of  *)
(* internal/resolver/service.go, and the daemon's decode and encode        *)
(* endpoints of internal/resolver/daemon.go.  One goroutine per request.   *)
(* The replay store and the handler bindings enter with what they are      *)
(* shown to promise: a reservation stands (ReplayGuard; the model stays    *)
(* within the lifetime of its tokens) and the bindings are one map         *)
(* (HandlerMap).  The setters of the service are called before it serves.  *)
(***************************************************************************)
EXTENDS Naturals

CONSTANTS
  Request,
  Token, NoToken,     \* a request may carry no token
  Binder,             \* goroutines that call Bind and Unbind
  Method,             \* the methods of the compiled config
  Handler, NoHandler,
  GivenCode,          \* the error codes that handlers and hosts give
  Check               \* the checks that a request may fail: the HTTP method, the
                      \* content type, reading the body, the frame in it, the
                      \* method it names, its arguments or its capability

\* Codes: those this module speaks of, any other one, and the empty one.
ErrorCode == {"not_found", "internal_error", "validation_error", "other", ""}

ASSUME PipelineAssumption ==
  /\ NoToken \notin Token
  /\ NoHandler \notin Handler
  /\ Method # {}
  /\ GivenCode \subseteq ErrorCode
  /\ Check \subseteq {"verb", "type", "body", "payload", "method", "content"}

VARIABLES
  bound, writer, reader,  \* the handler bindings, see HandlerMap
  spent,   \* the tokens with a reservation
  stage,   \* request -> where its goroutine is
  ask,     \* request -> what it asks for
  result,  \* request -> what ExecuteInvocation, or an endpoint, came to
  reply,   \* request -> what has gone out to the client
  found,   \* request -> the handler that the lookup found
  seen     \* request -> every handler its method has had since it arrived, until
           \* it is answered (the code keeps no such record)

mapVars == <<bound, writer, reader>>

vars == <<bound, writer, reader, spent, stage, ask, result, reply, found, seen>>

Map == INSTANCE HandlerMap WITH Writer <- Binder, Reader <- Request, Name <- Method

Stage == {"new", "received", "resolved", "running", "returned", "sending", "done"}

Entry == Handler \cup {NoHandler}

None == "none"

AnyMethod == CHOOSE m \in Method : TRUE

\* fault is the first check a request fails.  The daemon's encode takes no token,
\* and the target of a call is read only by a request without a fault (line 241);
\* where no handler is looked up, the method does not matter.
Ask ==
  { a \in [endpoint : {"serve", "decode", "encode"}, token : Token \cup {NoToken},
           method : Method, target : Method, fault : Check \cup {None}] :
      /\ a.endpoint = "encode" => a.token = NoToken
      /\ a.fault # None => a.target = a.method
      /\ a.endpoint # "serve" => a.method = AnyMethod /\ a.target = AnyMethod }

\* An error that ExecuteInvocation returned, the code in the answer's error body,
\* and whether the answer can be encoded.
Result == [err : ErrorCode \cup {None}, code : ErrorCode \cup {None}, fits : BOOLEAN]

Body == {"none", "passed", "text", "empty", "lost", "command", "frame"}

Reply == [status : {0, 200, 400, 404, 405, 415, 500}, body : Body]

TypeOK ==
  /\ bound \in [Method -> Entry]
  /\ spent \subseteq Token
  /\ stage \in [Request -> Stage]
  /\ ask \in [Request -> Ask]
  /\ result \in [Request -> Result]
  /\ reply \in [Request -> Reply]
  /\ found \in [Request -> Entry]
  /\ seen \in [Request -> SUBSET Entry]

NoAsk == [endpoint |-> "serve", token |-> NoToken, method |-> AnyMethod,
          target |-> AnyMethod, fault |-> None]

NoResult == [err |-> None, code |-> None, fits |-> TRUE]

NoReply == [status |-> 0, body |-> "none"]

Init ==
  /\ Map!Init
  /\ spent = {}
  /\ stage = [r \in Request |-> "new"]
  /\ ask = [r \in Request |-> NoAsk]
  /\ result = [r \in Request |-> NoResult]
  /\ reply = [r \in Request |-> NoReply]
  /\ found = [r \in Request |-> NoHandler]
  /\ seen = [r \in Request |-> {}]

----------------------------------------------------------------------------
(* Faulty variants of the code, one plausible slip each.  Nothing below    *)
(* uses them: each shows that the properties notice the slip.              *)

\* The error of Reserve is dropped.
RefusedByChecks(r) == ask[r].fault # None

\* Reserve comes before the checks.
AlwaysReserves(r) == TRUE

\* A request without a token reserves the empty identifier.
ReservationOfAnything(r) == {ask[r].token}

\* The handler is looked up under the target of the call.
BindingOfTarget(r) == bound[ask[r].target]

\* The error frame is built from the response, which an error leaves empty.
CodeOfResponse(x) == x.code

----------------------------------------------------------------------------
(* Errors *)

\* platform.CodeOf of a check's error: method lookups are not_found, the others
\* are parse, validation, io or invalid_argument errors.
CodeOfCheck(check) == IF check = "method" THEN "not_found" ELSE "validation_error"

\* httpStatus, lines 583-594.
HttpStatus(code) ==
  CASE code = "not_found" -> 404
    [] code = "validation_error" -> 400
    [] OTHER -> 500

\* Lines 445-452 and daemon.go 62-69 answer with statuses of their own.
StatusOf(check) ==
  CASE check = "verb" -> 405
    [] check = "type" -> 415
    [] OTHER -> HttpStatus(CodeOfCheck(check))

\* clermresp.BuildError, lines 79-81: an empty code becomes internal_error.
BodyCode(code) == IF code = "" THEN "internal_error" ELSE code

----------------------------------------------------------------------------
(* The request *)

Forget(r) == seen' = [seen EXCEPT ![r] = {}]

Receive(r) ==
  /\ stage[r] = "new"
  /\ stage' = [stage EXCEPT ![r] = "received"]
  /\ \E a \in Ask :
       /\ ask' = [ask EXCEPT ![r] = a]
       /\ seen' = [seen EXCEPT ![r] = {bound[a.method]}]
  /\ UNCHANGED <<mapVars, spent, result, reply, found>>

\* The checks of lines 445-457 and of the resolution, or the answer of Reserve.
Refused(r) == ask[r].fault # None \/ ask[r].token \in spent

\* Reserve is called when every other check has passed (line 531).
Reserves(r) == ask[r].fault = None

\* What it adds: nothing for a request without a token (lines 493-498).
Reservation(r) == {ask[r].token} \ {NoToken}

\* Lines 431-442: Middleware leaves requests of other content types to the host.
PassOn(r) ==
  /\ stage[r] = "received"
  /\ ask[r].endpoint = "serve" /\ ask[r].fault \in {"verb", "type"}
  /\ stage' = [stage EXCEPT ![r] = "done"]
  /\ reply' = [reply EXCEPT ![r].body = "passed"]
  /\ Forget(r)
  /\ UNCHANGED <<mapVars, spent, ask, result, found>>

\* Lines 445-462; daemon.go 62-80 and 84-123: http.Error, and nothing else.
Refuse(r) ==
  /\ stage[r] = "received"
  /\ Refused(r)
  /\ stage' = [stage EXCEPT ![r] = "done"]
  /\ reply' = [reply EXCEPT ![r] =
       [status |-> IF ask[r].fault # None THEN StatusOf(ask[r].fault)
                   ELSE HttpStatus("validation_error"),
        body |-> "text"]]
  /\ spent' = IF Reserves(r) THEN spent \cup Reservation(r) ELSE spent
  /\ Forget(r)
  /\ UNCHANGED <<mapVars, ask, result, found>>

\* Lines 458-463: the request is resolved, its token reserved.
Resolve(r) ==
  /\ stage[r] = "received" /\ ask[r].endpoint = "serve"
  /\ ~ Refused(r)
  /\ spent' = spent \cup Reservation(r)
  /\ stage' = [stage EXCEPT ![r] = "resolved"]
  /\ Map!Ask(r, ask[r].method)
  /\ UNCHANGED <<ask, result, reply, found, seen>>

\* daemon.go 75-82: decoding reserves the token as well.  The command that is
\* answered holds the arguments as JSON, which has no NaN and no infinity,
\* while a DECIMAL argument may be one (clermwire/value.go 147-151).
Decode(r) ==
  /\ stage[r] = "received" /\ ask[r].endpoint = "decode"
  /\ ~ Refused(r)
  /\ spent' = spent \cup Reservation(r)
  /\ stage' = [stage EXCEPT ![r] = "sending"]
  /\ \E fits \in BOOLEAN : result' = [result EXCEPT ![r].fits = fits]
  /\ reply' = [reply EXCEPT ![r].status = 200]
  /\ Forget(r)
  /\ UNCHANGED <<mapVars, ask, found>>

\* daemon.go 109-126: a response or an error body, built for a foreign handler.
Encode(r) ==
  /\ stage[r] = "received" /\ ask[r].endpoint = "encode"
  /\ ~ Refused(r)
  /\ stage' = [stage EXCEPT ![r] = "sending"]
  /\ \E code \in GivenCode \cup {None}, fits \in BOOLEAN :
       /\ code = None => fits
       /\ result' = [result EXCEPT ![r].code = IF code = None THEN None ELSE BodyCode(code),
                                   ![r].fits = fits]
  /\ reply' = [reply EXCEPT ![r].status = 200]
  /\ Forget(r)
  /\ UNCHANGED <<mapVars, spent, ask, found>>

----------------------------------------------------------------------------
(* ExecuteInvocation, lines 274-299 *)

Binding(r) == bound[ask[r].method]

\* Lines 278-281.
Lookup(r) ==
  /\ stage[r] = "resolved"
  /\ Map!Answer(r)
  /\ found' = [found EXCEPT ![r] = Binding(r)]
  /\ IF Binding(r) = NoHandler
       THEN /\ stage' = [stage EXCEPT ![r] = "returned"]
            /\ result' = [result EXCEPT ![r].err = "not_found"]
       ELSE /\ stage' = [stage EXCEPT ![r] = "running"]
            /\ UNCHANGED result
  /\ UNCHANGED <<spent, ask, reply, seen>>

\* Lines 282-298.  An error: the handler's own, no result at all, a response or
\* outputs that do not fit the method.  Or an answer: with an error body of the
\* handler's choice, or with outputs.  One code stands in for all but the empty one,
\* which BuildError replaces and a ready-made response keeps.  A string over 65535
\* bytes cannot be encoded (clermresp/codec.go 259-262): the code or the message of
\* an error may be one, the names of outputs are the schema's.
Returned ==
  { x \in [err : GivenCode \cup {None}, code : GivenCode \cup {None}, fits : BOOLEAN] :
      /\ x.err = None \/ x.code = None
      /\ x.err = None /\ x.code = None => x.fits }

Return(r) ==
  /\ stage[r] = "running"
  /\ \E x \in Returned : result' = [result EXCEPT ![r] = x]
  /\ stage' = [stage EXCEPT ![r] = "returned"]
  /\ UNCHANGED <<mapVars, spent, ask, reply, found, seen>>

\* The handler panics: net/http recovers and closes the connection.
Panic(r) ==
  /\ stage[r] = "running"
  /\ stage' = [stage EXCEPT ![r] = "done"]
  /\ reply' = [reply EXCEPT ![r].body = "lost"]
  /\ Map!Leave(r)
  /\ Forget(r)
  /\ UNCHANGED <<spent, ask, result, found>>

\* The code of the error frame that buildExecutionErrorResponse makes.
FrameCode(x) == BodyCode(x.err)

\* Lines 465-471: an error becomes an error frame, and the status goes out.
Respond(r) ==
  /\ stage[r] = "returned"
  /\ stage' = [stage EXCEPT ![r] = "sending"]
  /\ result' = [result EXCEPT ![r].code =
                  IF result[r].err # None THEN FrameCode(result[r]) ELSE @]
  /\ reply' = [reply EXCEPT ![r].status = 200]
  /\ Forget(r)
  /\ UNCHANGED <<mapVars, spent, ask, found>>

\* Lines 472-474, daemon.go 81 and 127: encode and write the answer, or drop an
\* error of either; the client may have gone.
Send(r) ==
  /\ stage[r] = "sending"
  /\ stage' = [stage EXCEPT ![r] = "done"]
  /\ \E written \in BOOLEAN :
       reply' = [reply EXCEPT ![r].body =
         IF ~ written THEN "lost"
         ELSE IF ~ result[r].fits THEN "empty"
         ELSE IF ask[r].endpoint = "decode" THEN "command" ELSE "frame"]
  /\ IF ask[r].endpoint = "serve" THEN Map!Leave(r) ELSE UNCHANGED mapVars
  /\ UNCHANGED <<spent, ask, result, found, seen>>

----------------------------------------------------------------------------
(* Bind and Unbind *)

CallBind(p) ==
  /\ \E m \in Method, h \in Entry : Map!Call(p, m, h)
  /\ UNCHANGED <<spent, stage, ask, result, reply, found, seen>>

ApplyBind(p) ==
  /\ Map!Apply(p)
  /\ seen' = [r \in Request |->
       IF stage[r] \in {"received", "resolved"} /\ ask[r].method = writer[p].method
         THEN seen[r] \cup {writer[p].handler} ELSE seen[r]]
  /\ UNCHANGED <<spent, stage, ask, result, reply, found>>

ReturnBind(p) ==
  /\ Map!Return(p)
  /\ UNCHANGED <<spent, stage, ask, result, reply, found, seen>>

----------------------------------------------------------------------------

Next ==
  \/ \E r \in Request :
       \/ Receive(r) \/ PassOn(r) \/ Refuse(r) \/ Resolve(r) \/ Decode(r) \/ Encode(r)
       \/ Lookup(r) \/ Return(r) \/ Panic(r) \/ Respond(r) \/ Send(r)
  \/ \E p \in Binder : CallBind(p) \/ ApplyBind(p) \/ ReturnBind(p)

Spec == Init /\ [][Next]_vars

----------------------------------------------------------------------------
(* Properties *)

\* r got past every check and, if it has a token, reserved it.
Granted(r) ==
  stage[r] \notin {"new", "received"} /\ reply[r].body \notin {"passed", "text"}

\* One token is granted to one request, be it served here or decoded for a host in
\* another language through the daemon (service.go 458, daemon.go 75).
OneGrantPerToken ==
  \A r1, r2 \in Request :
    /\ Granted(r1) /\ Granted(r2)
    /\ ask[r1].token # NoToken /\ ask[r1].token = ask[r2].token
    => r1 = r2

\* A client that reads an error status may send the request again: no handler was
\* looked up for it, and its token is spent only if another request has it.
RefusalLeavesNoTrace ==
  \A r \in Request :
    reply[r].status >= 400 =>
      /\ found[r] = NoHandler /\ reader[r] = Map!NoOp
      /\ ask[r].token \in spent =>
           \E q \in Request : Granted(q) /\ ask[q].token = ask[r].token

\* The handler that runs, or the lack of one, is what the request's own method had
\* at some moment after the request came in, whatever is bound meanwhile.
LookupIsCurrent ==
  \A r \in Request :
    ask[r].endpoint = "serve" /\ stage[r] \in {"running", "returned"} =>
      found[r] \in seen[r]

\* Status 200 goes out before the answer is encoded (line 471), and the error of
\* encoding it is dropped: still, of an answer that arrives, an error of the
\* execution is reported with its code or leaves the body empty, and a success
\* is never empty.
AnswerIsTheOutcome ==
  \A r \in Request :
    /\ ask[r].endpoint = "serve" /\ stage[r] = "done"
    /\ reply[r].status = 200 /\ reply[r].body # "lost"
    => /\ reply[r].body = "frame" \/ (reply[r].body = "empty" /\ result[r].code # None)
       /\ result[r].err # None => result[r].code = BodyCode(result[r].err)

\* "Go errors become CLERM error responses after method resolution"
\* (docs/resolver-go.md 96), unless the connection is lost.
GoErrorsBecomeResponses ==
  \A r \in Request :
    /\ ask[r].endpoint = "serve" /\ stage[r] = "done" /\ result[r].err # None
    /\ reply[r].body # "lost"
    => reply[r].body = "frame"
=============================================================================
