----------------------- MODULE RequestPipeline_proofs -----------------------
(***************************************************************************)
(* Proofs about RequestPipeline: its types, one grant per token, what an   *)
(* error status and an answer of 200 tell the client, and which handler a  *)
(* request gets.                                                           *)
(***************************************************************************)
EXTENDS RequestPipeline, TLAPS

MapTypeOK ==
  /\ writer \in [Binder ->
       [phase : {"idle", "pending", "applied"}, method : Method, handler : Entry]]
  /\ reader \in [Request ->
       [phase : {"idle", "pending", "answered"}, method : Method, handler : Entry]]

\* The tokens with a reservation are the ones of granted requests, one each.
Grants ==
  /\ \A t \in spent : \E q \in Request : Granted(q) /\ ask[q].token = t
  /\ \A q \in Request : Granted(q) /\ ask[q].token # NoToken => ask[q].token \in spent
  /\ OneGrantPerToken

\* A request that has done nothing yet.
Fresh(r) ==
  /\ reply[r] = NoReply /\ result[r] = NoResult
  /\ found[r] = NoHandler /\ reader[r] = Map!NoOp

\* What is known of a request by the stage it is in.
Progress(r) ==
  /\ stage[r] \in {"new", "received"} => Fresh(r)
  /\ stage[r] \in {"received", "resolved"} => bound[ask[r].method] \in seen[r]
  /\ stage[r] = "resolved" =>
       /\ reply[r] = NoReply /\ result[r] = NoResult /\ found[r] = NoHandler
       /\ reader[r].phase = "pending" /\ reader[r].method = ask[r].method
  /\ stage[r] \in {"running", "returned"} =>
       reply[r] = NoReply /\ found[r] \in seen[r]
  /\ stage[r] = "returned" =>
       /\ result[r].err = None \/ result[r].code = None
       /\ result[r].err = None /\ result[r].code = None => result[r].fits
  /\ stage[r] = "sending" =>
       /\ reply[r].status = 200 /\ reply[r].body = "none"
       /\ ask[r].endpoint = "serve" =>
            /\ result[r].err # None => result[r].code = BodyCode(result[r].err)
            /\ result[r].code = None => result[r].fits
  /\ stage[r] = "done" =>
       /\ reply[r].status >= 400 =>
            found[r] = NoHandler /\ reader[r] = Map!NoOp
       /\ /\ ask[r].endpoint = "serve"
          /\ reply[r].status = 200 /\ reply[r].body # "lost"
          => /\ \/ reply[r].body = "frame"
                \/ reply[r].body = "empty" /\ result[r].code # None
             /\ result[r].err # None => result[r].code = BodyCode(result[r].err)

Inv ==
  /\ TypeOK
  /\ MapTypeOK
  /\ Grants
  /\ \A r \in Request : Progress(r)

LEMMA AnyMethodIsMethod == AnyMethod \in Method
  BY PipelineAssumption DEF AnyMethod

LEMMA NoOpType ==
  Map!NoOp = [phase |-> "idle", method |-> AnyMethod, handler |-> NoHandler]
  BY DEF Map!NoOp, Map!Op, AnyMethod

LEMMA CodesAreTyped ==
  /\ GivenCode \subseteq ErrorCode
  /\ \A c \in ErrorCode : BodyCode(c) \in ErrorCode /\ BodyCode(c) # None
  /\ None \notin ErrorCode
  BY PipelineAssumption DEF ErrorCode, BodyCode, None

LEMMA StatusIsTyped ==
  \A check \in Check :
    StatusOf(check) \in {400, 404, 405, 415, 500}
  BY DEF StatusOf, HttpStatus, CodeOfCheck

LEMMA InvInit == Init => Inv
  <1> SUFFICES ASSUME Init PROVE Inv
    OBVIOUS
  <1>1. NoAsk \in Ask
    BY AnyMethodIsMethod DEF NoAsk, Ask
  <1>2. TypeOK
    BY <1>1 DEF Init, Map!Init, TypeOK, Stage, Entry, Result, Reply, Body, NoResult, NoReply
  <1>3. MapTypeOK
    BY NoOpType, AnyMethodIsMethod DEF Init, Map!Init, MapTypeOK, Entry
  <1>4. Grants
    BY DEF Init, Grants, OneGrantPerToken, Granted
  <1>5. \A r \in Request : Progress(r)
    BY DEF Init, Map!Init, Progress, Fresh
  <1> QED
    BY <1>2, <1>3, <1>4, <1>5 DEF Inv

----------------------------------------------------------------------------
(* Who is granted a token *)

LEMMA GrantsKept ==
  ASSUME Grants, spent' = spent,
         \A q \in Request : Granted(q)' <=> Granted(q),
         \A q \in Request : Granted(q) => ask'[q].token = ask[q].token
  PROVE  Grants'
  <1>1. \A t \in spent' : \E q \in Request : Granted(q)' /\ ask'[q].token = t
    BY DEF Grants
  <1>2. \A q \in Request : Granted(q)' /\ ask'[q].token # NoToken => ask'[q].token \in spent'
    BY DEF Grants
  <1>3. OneGrantPerToken'
    BY DEF Grants, OneGrantPerToken
  <1> QED
    BY <1>1, <1>2, <1>3 DEF Grants

LEMMA GrantsExtended ==
  ASSUME Grants, NEW r \in Request, ~ Granted(r), Granted(r)',
         ask[r].token \notin spent, spent' = spent \cup Reservation(r), ask' = ask,
         \A q \in Request \ {r} : Granted(q)' <=> Granted(q)
  PROVE  Grants'
  <1>1. \A t \in spent' : \E q \in Request : Granted(q)' /\ ask'[q].token = t
    BY DEF Grants, Reservation
  <1>2. \A q \in Request : Granted(q)' /\ ask'[q].token # NoToken => ask'[q].token \in spent'
    BY DEF Grants, Reservation
  <1>3. OneGrantPerToken'
    BY DEF Grants, OneGrantPerToken
  <1> QED
    BY <1>1, <1>2, <1>3 DEF Grants

\* What a step of request r leaves alone.
OthersWait(r) ==
  /\ bound' = bound
  /\ \A q \in Request \ {r} :
       /\ stage'[q] = stage[q] /\ ask'[q] = ask[q] /\ result'[q] = result[q]
       /\ reply'[q] = reply[q] /\ found'[q] = found[q] /\ seen'[q] = seen[q]
       /\ reader'[q] = reader[q]

LEMMA OthersKeepProgress ==
  ASSUME NEW r \in Request, OthersWait(r), \A q \in Request : Progress(q), Progress(r)'
  PROVE  \A q \in Request : Progress(q)'
  <1> SUFFICES ASSUME NEW q \in Request, q # r PROVE Progress(q)'
    OBVIOUS
  <1> QED
    BY DEF OthersWait, Progress, Fresh

\* The steps by which a request is neither granted nor loses its grant.
LEMMA NoGrantChange ==
  ASSUME NEW r \in Request, Inv, OthersWait(r), spent' = spent,
         Granted(r)' <=> Granted(r), Granted(r) => ask'[r].token = ask[r].token
  PROVE  Grants'
  <1>1. \A q \in Request : Granted(q)' <=> Granted(q)
    BY DEF OthersWait, Granted
  <1>2. \A q \in Request : Granted(q) => ask'[q].token = ask[q].token
    BY DEF OthersWait
  <1> QED
    BY <1>1, <1>2, GrantsKept DEF Inv

----------------------------------------------------------------------------
(* Each step keeps the invariant. *)

LEMMA ReceiveKeepsInv ==
  ASSUME Inv, NEW r \in Request, Receive(r)
  PROVE  Inv'
  <1> USE DEF Inv, Receive, mapVars
  <1>1. TypeOK'
    BY DEF TypeOK, Stage, Ask
  <1>2. MapTypeOK'
    BY DEF MapTypeOK
  <1>3. OthersWait(r)
    BY DEF TypeOK, OthersWait
  <1>4. Granted(r)' <=> Granted(r)
    BY DEF TypeOK, Granted
  <1>5. Grants'
    BY <1>3, <1>4, NoGrantChange DEF Granted
  <1>6. Progress(r)'
    BY DEF TypeOK, Progress, Fresh
  <1> QED
    BY <1>1, <1>2, <1>3, <1>5, <1>6, OthersKeepProgress

LEMMA PassOnKeepsInv ==
  ASSUME Inv, NEW r \in Request, PassOn(r)
  PROVE  Inv'
  <1> USE DEF Inv, PassOn, mapVars, Forget
  <1>1. TypeOK'
    BY DEF TypeOK, Stage, Reply, Body
  <1>2. MapTypeOK'
    BY DEF MapTypeOK
  <1>3. OthersWait(r)
    BY DEF TypeOK, OthersWait
  <1>4. reply'[r].status = 0 /\ reply'[r].body = "passed" /\ stage'[r] = "done"
    BY DEF TypeOK, Progress, Fresh, NoReply
  <1>5. Grants'
    BY <1>3, <1>4, NoGrantChange DEF Granted
  <1>6. Progress(r)'
    BY <1>4 DEF Progress
  <1> QED
    BY <1>1, <1>2, <1>3, <1>5, <1>6, OthersKeepProgress

LEMMA RefuseKeepsInv ==
  ASSUME Inv, NEW r \in Request, Refuse(r)
  PROVE  Inv'
  <1> USE DEF Inv, mapVars, Forget
  <1>1. spent' = spent
    BY DEF Refuse, Refused, Reserves, Reservation
  <1> DEFINE status == IF ask[r].fault # None THEN StatusOf(ask[r].fault)
                       ELSE HttpStatus("validation_error")
  <1>2. status \in {400, 404, 405, 415, 500}
    BY StatusIsTyped DEF TypeOK, Ask, HttpStatus
  <1>3. reply' = [reply EXCEPT ![r] = [status |-> status, body |-> "text"]]
    BY DEF Refuse
  <1> HIDE DEF status
  <1>4. TypeOK'
    BY <1>1, <1>2, <1>3 DEF Refuse, TypeOK, Stage, Reply, Body
  <1>5. MapTypeOK'
    BY DEF Refuse, MapTypeOK
  <1>6. OthersWait(r)
    BY DEF Refuse, TypeOK, OthersWait
  <1>7. /\ reply'[r].status = status /\ reply'[r].body = "text"
        /\ stage'[r] = "done" /\ stage[r] = "received" /\ Fresh(r)
        /\ found' = found /\ reader' = reader
    BY <1>3 DEF Refuse, TypeOK, Progress
  <1>8. Grants'
    BY <1>1, <1>6, <1>7, NoGrantChange DEF Granted
  <1>9. Progress(r)'
    BY <1>2, <1>7 DEF Progress, Fresh
  <1> QED
    BY <1>4, <1>5, <1>6, <1>8, <1>9, OthersKeepProgress

\* A granted request was not refused: its token, if any, was not spent.
LEMMA ResolveKeepsInv ==
  ASSUME Inv, NEW r \in Request, Resolve(r)
  PROVE  Inv'
  <1> USE DEF Inv, Resolve, Map!Ask
  <1>1. ask[r] \in Ask
    BY DEF TypeOK
  <1>2. TypeOK'
    <2>1. ask[r].token \in Token \cup {NoToken}
      BY <1>1 DEF Ask
    <2>2. spent' \subseteq Token
      BY <2>1 DEF TypeOK, Reservation
    <2>3. stage' \in [Request -> Stage]
      BY DEF TypeOK, Stage
    <2> QED
      BY <2>2, <2>3 DEF TypeOK
  <1>3. MapTypeOK'
    BY <1>1 DEF MapTypeOK, Map!Op, Ask, Entry
  <1>4. OthersWait(r)
    BY DEF TypeOK, MapTypeOK, OthersWait
  <1>5. /\ stage'[r] = "resolved" /\ reply' = reply /\ reply[r] = NoReply
        /\ reader'[r] = [phase |-> "pending", method |-> ask[r].method, handler |-> NoHandler]
    BY DEF TypeOK, MapTypeOK, Progress, Fresh, Map!Op
  <1>6. ~ Granted(r) /\ Granted(r)' /\ \A q \in Request \ {r} : Granted(q)' <=> Granted(q)
    BY <1>4, <1>5 DEF Granted, NoReply, OthersWait
  <1>7. Grants'
    BY <1>6, GrantsExtended DEF Refused
  <1>8. Progress(r)'
    BY <1>4, <1>5 DEF Progress, Fresh, OthersWait
  <1> QED
    BY <1>2, <1>3, <1>4, <1>7, <1>8, OthersKeepProgress

LEMMA DecodeKeepsInv ==
  ASSUME Inv, NEW r \in Request, Decode(r)
  PROVE  Inv'
  <1> USE DEF Inv, Decode, mapVars, Forget
  <1>1. TypeOK'
    <2>1. ask[r].token \in Token \cup {NoToken}
      BY DEF TypeOK, Ask
    <2>2. spent' \subseteq Token
      BY <2>1 DEF TypeOK, Reservation
    <2>3. stage' \in [Request -> Stage]
      BY DEF TypeOK, Stage
    <2>4. result' \in [Request -> Result]
      BY DEF TypeOK, Result
    <2>5. reply' \in [Request -> Reply]
      BY DEF TypeOK, Reply
    <2>6. seen' \in [Request -> SUBSET Entry]
      BY DEF TypeOK
    <2> QED
      BY <2>2, <2>3, <2>4, <2>5, <2>6 DEF TypeOK
  <1>2. MapTypeOK'
    BY DEF MapTypeOK
  <1>3. OthersWait(r)
    BY DEF TypeOK, OthersWait
  <1>4. /\ stage'[r] = "sending" /\ reply'[r].status = 200 /\ reply'[r].body = "none"
    BY DEF TypeOK, Reply, Progress, Fresh, NoReply
  <1>5. ~ Granted(r) /\ Granted(r)' /\ \A q \in Request \ {r} : Granted(q)' <=> Granted(q)
    BY <1>3, <1>4 DEF Granted, OthersWait
  <1>6. Grants'
    BY <1>5, GrantsExtended DEF Refused
  <1>7. Progress(r)'
    BY <1>4 DEF Progress
  <1> QED
    BY <1>1, <1>2, <1>3, <1>6, <1>7, OthersKeepProgress

LEMMA EncodeKeepsInv ==
  ASSUME Inv, NEW r \in Request, Encode(r)
  PROVE  Inv'
  <1> USE DEF Inv, mapVars, Forget
  <1>1. result' \in [Request -> Result]
    <2>1. PICK code \in GivenCode \cup {None}, fits \in BOOLEAN :
            result' = [result EXCEPT ![r].code = IF code = None THEN None ELSE BodyCode(code),
                                     ![r].fits = fits]
      BY DEF Encode
    <2>2. (IF code = None THEN None ELSE BodyCode(code)) \in ErrorCode \cup {None}
      BY CodesAreTyped
    <2> QED
      BY <2>1, <2>2 DEF TypeOK, Result
  <1>2. TypeOK'
    BY <1>1 DEF Encode, TypeOK, Stage, Reply
  <1>3. MapTypeOK'
    BY DEF Encode, MapTypeOK
  <1>4. OthersWait(r)
    BY DEF Encode, TypeOK, OthersWait
  <1>5. /\ stage'[r] = "sending" /\ reply'[r].status = 200 /\ reply'[r].body = "none"
        /\ spent' = spent /\ ask' = ask /\ ask[r].endpoint = "encode"
        /\ ask[r].token = NoToken
    BY DEF Encode, TypeOK, Ask, Reply, Progress, Fresh, NoReply
  <1>6. ~ Granted(r) /\ Granted(r)' /\ \A q \in Request \ {r} : Granted(q)' <=> Granted(q)
    BY <1>4, <1>5 DEF Encode, Granted, OthersWait
  <1>7. Grants'
    BY <1>5, <1>6, GrantsExtended DEF Encode, Refused, Reservation
  <1>8. Progress(r)'
    BY <1>5 DEF Progress
  <1> QED
    BY <1>2, <1>3, <1>4, <1>7, <1>8, OthersKeepProgress

LEMMA LookupKeepsInv ==
  ASSUME Inv, NEW r \in Request, Lookup(r)
  PROVE  Inv'
  <1> USE DEF Inv, Map!Answer
  <1>1. ask[r].method \in Method /\ Binding(r) \in Entry /\ Binding(r) \in seen[r]
    BY DEF Lookup, Binding, TypeOK, Ask, Progress
  <1>2. TypeOK'
    <2>1. stage' \in [Request -> Stage]
      BY DEF Lookup, TypeOK, Stage
    <2>2. result' \in [Request -> Result]
      <3>1. "not_found" \in ErrorCode \cup {None}
        BY DEF ErrorCode
      <3>2. CASE result' = result
        BY <3>2 DEF TypeOK
      <3>3. CASE result' = [result EXCEPT ![r].err = "not_found"]
        BY <3>1, <3>3 DEF TypeOK, Result
      <3> QED
        BY <3>2, <3>3 DEF Lookup
    <2>3. found' \in [Request -> Entry]
      BY <1>1 DEF Lookup, TypeOK
    <2>4. UNCHANGED <<bound, spent, ask, reply, seen>>
      BY DEF Lookup
    <2> QED
      BY <2>1, <2>2, <2>3, <2>4 DEF TypeOK
  <1>3. MapTypeOK'
    BY <1>1 DEF Lookup, TypeOK, MapTypeOK, Map!Op, Progress, Binding
  <1>4. OthersWait(r)
    BY DEF Lookup, TypeOK, MapTypeOK, OthersWait
  <1>5. /\ stage'[r] \in {"running", "returned"} /\ UNCHANGED <<reply, seen, spent, ask>>
        /\ reply[r] = NoReply /\ found'[r] = Binding(r) /\ stage[r] = "resolved"
    BY DEF Lookup, TypeOK, Progress
  <1>6. stage'[r] = "returned" => result'[r].err = "not_found" /\ result'[r].code = None
    BY DEF Lookup, TypeOK, Result, Progress, NoResult
  <1>7. Grants'
    BY <1>4, <1>5, NoGrantChange DEF Granted, NoReply
  <1>8. Progress(r)'
    BY <1>1, <1>5, <1>6 DEF Progress, None
  <1> QED
    BY <1>2, <1>3, <1>4, <1>7, <1>8, OthersKeepProgress

LEMMA ReturnKeepsInv ==
  ASSUME Inv, NEW r \in Request, Return(r)
  PROVE  Inv'
  <1> USE DEF Inv, mapVars
  <1>1. PICK x \in Returned : result' = [result EXCEPT ![r] = x]
    BY DEF Return
  <1>2. x \in Result
    BY CodesAreTyped DEF Returned, Result
  <1>3. TypeOK'
    BY <1>1, <1>2 DEF Return, TypeOK, Stage
  <1>4. MapTypeOK'
    BY DEF Return, MapTypeOK
  <1>5. OthersWait(r)
    BY DEF Return, TypeOK, OthersWait
  <1>6. /\ stage'[r] = "returned" /\ stage[r] = "running" /\ result'[r] = x
        /\ UNCHANGED <<reply, found, seen, spent, ask>> /\ reply[r] = NoReply
    BY <1>1 DEF Return, TypeOK, Progress
  <1>7. Grants'
    BY <1>5, <1>6, NoGrantChange DEF Granted, NoReply
  <1>8. Progress(r)'
    BY <1>6 DEF Progress, Returned
  <1> QED
    BY <1>3, <1>4, <1>5, <1>7, <1>8, OthersKeepProgress

LEMMA PanicKeepsInv ==
  ASSUME Inv, NEW r \in Request, Panic(r)
  PROVE  Inv'
  <1> USE DEF Inv, Panic, Forget, Map!Leave
  <1>1. TypeOK'
    BY DEF TypeOK, Stage, Reply, Body
  <1>2. MapTypeOK'
    BY NoOpType, AnyMethodIsMethod DEF MapTypeOK, Entry
  <1>3. OthersWait(r)
    BY DEF TypeOK, MapTypeOK, OthersWait
  <1>4. /\ stage'[r] = "done" /\ reply'[r].status = 0 /\ reply'[r].body = "lost"
        /\ stage[r] = "running" /\ reply[r] = NoReply
    BY DEF TypeOK, Progress, NoReply
  <1>5. Grants'
    BY <1>3, <1>4, NoGrantChange DEF Granted, NoReply
  <1>6. Progress(r)'
    BY <1>4 DEF Progress
  <1> QED
    BY <1>1, <1>2, <1>3, <1>5, <1>6, OthersKeepProgress

LEMMA RespondKeepsInv ==
  ASSUME Inv, NEW r \in Request, Respond(r)
  PROVE  Inv'
  <1> USE DEF Inv, mapVars, Forget
  <1> DEFINE code == IF result[r].err # None THEN FrameCode(result[r]) ELSE result[r].code
  <1>1. result' = [result EXCEPT ![r].code = code]
    BY DEF Respond
  <1>2. code \in ErrorCode \cup {None} /\ result[r] \in Result
    BY CodesAreTyped DEF FrameCode, TypeOK, Result
  <1>3. /\ result[r].err # None => code = BodyCode(result[r].err) /\ code # None
        /\ code = None => result[r].fits
    BY <1>2, CodesAreTyped DEF Respond, Progress, FrameCode, Result
  <1> HIDE DEF code
  <1>4. TypeOK'
    BY <1>1, <1>2 DEF Respond, TypeOK, Stage, Reply, Result
  <1>5. MapTypeOK'
    BY DEF Respond, MapTypeOK
  <1>6. OthersWait(r)
    BY DEF Respond, TypeOK, OthersWait
  <1>7. /\ stage'[r] = "sending" /\ reply'[r].status = 200 /\ reply'[r].body = "none"
        /\ stage[r] = "returned" /\ reply[r] = NoReply
        /\ spent' = spent /\ ask' = ask
        /\ result'[r].err = result[r].err /\ result'[r].code = code
        /\ result'[r].fits = result[r].fits
    BY <1>1, <1>2 DEF Respond, TypeOK, Progress, NoReply, Result
  <1>8. Grants'
    BY <1>6, <1>7, NoGrantChange DEF Granted, NoReply
  <1>9. Progress(r)'
    BY <1>3, <1>7 DEF Progress
  <1> QED
    BY <1>4, <1>5, <1>6, <1>8, <1>9, OthersKeepProgress

LEMMA SendKeepsInv ==
  ASSUME Inv, NEW r \in Request, Send(r)
  PROVE  Inv'
  <1> USE DEF Inv, mapVars, Map!Leave
  <1>1. PICK written \in BOOLEAN :
          reply' = [reply EXCEPT ![r].body =
            IF ~ written THEN "lost"
            ELSE IF ~ result[r].fits THEN "empty"
            ELSE IF ask[r].endpoint = "decode" THEN "command" ELSE "frame"]
    BY DEF Send
  <1>2. TypeOK'
    BY <1>1 DEF Send, TypeOK, Stage, Reply, Body
  <1>3. MapTypeOK'
    BY NoOpType, AnyMethodIsMethod DEF Send, MapTypeOK, Entry
  <1>4. OthersWait(r)
    BY <1>1 DEF Send, TypeOK, MapTypeOK, OthersWait
  <1>5. /\ stage'[r] = "done" /\ stage[r] = "sending"
        /\ UNCHANGED <<result, spent, ask, found, seen>>
        /\ reply'[r].status = 200 /\ reply[r].body = "none"
        /\ reply'[r].body \in {"lost", "empty", "command", "frame"}
        /\ reply'[r].body = "empty" => ~ result[r].fits
        /\ reply'[r].body = "command" => ask[r].endpoint = "decode"
    BY <1>1 DEF Send, TypeOK, Reply, Progress
  <1>6. Grants'
    BY <1>4, <1>5, NoGrantChange DEF Granted
  <1>7. Progress(r)'
    BY <1>5 DEF Progress
  <1> QED
    BY <1>2, <1>3, <1>4, <1>6, <1>7, OthersKeepProgress

\* Binding changes no request; what a method gets is noted for those under way.
LEMMA BinderKeepsInv ==
  ASSUME Inv, NEW p \in Binder, CallBind(p) \/ ApplyBind(p) \/ ReturnBind(p)
  PROVE  Inv'
  <1> USE DEF Inv
  <1>1. UNCHANGED <<spent, stage, ask, result, reply, found, reader>>
    BY DEF CallBind, ApplyBind, ReturnBind, Map!Call, Map!Apply, Map!Return
  <1>2. /\ bound' \in [Method -> Entry]
        /\ MapTypeOK'
        /\ seen' \in [Request -> SUBSET Entry]
        /\ \A r \in Request : seen[r] \subseteq seen'[r]
        /\ \A r \in Request :
             stage[r] \in {"received", "resolved"} /\ bound[ask[r].method] \in seen[r]
             => bound'[ask[r].method] \in seen'[r]
    <2>1. CASE CallBind(p)
      <3>1. PICK m \in Method, h \in Entry :
              bound' = bound /\ writer' = [writer EXCEPT ![p] = Map!Op("pending", m, h)]
        BY <2>1 DEF CallBind, Map!Call
      <3>2. MapTypeOK'
        BY <1>1, <3>1 DEF MapTypeOK, Map!Op
      <3> QED
        BY <2>1, <3>1, <3>2 DEF CallBind, TypeOK
    <2>2. CASE ApplyBind(p)
      <3>1. writer[p].method \in Method /\ writer[p].handler \in Entry
        BY DEF MapTypeOK
      <3>2. bound' = [bound EXCEPT ![writer[p].method] = writer[p].handler]
        BY <2>2 DEF ApplyBind, Map!Apply
      <3>3. bound' \in [Method -> Entry]
        BY <3>1, <3>2 DEF TypeOK
      <3>4. MapTypeOK'
        BY <1>1, <2>2 DEF ApplyBind, Map!Apply, MapTypeOK
      <3>5. seen' = [r \in Request |->
              IF stage[r] \in {"received", "resolved"} /\ ask[r].method = writer[p].method
                THEN seen[r] \cup {writer[p].handler} ELSE seen[r]]
        BY <2>2 DEF ApplyBind
      <3>6. seen' \in [Request -> SUBSET Entry]
        BY <3>1, <3>5 DEF TypeOK
      <3>7. ASSUME NEW r \in Request, stage[r] \in {"received", "resolved"},
                   bound[ask[r].method] \in seen[r]
            PROVE  bound'[ask[r].method] \in seen'[r]
        <4>1. ask[r].method \in Method
          BY DEF TypeOK, Ask
        <4> QED
          BY <3>1, <3>2, <3>5, <3>7, <4>1 DEF TypeOK
      <3> QED
        BY <3>3, <3>4, <3>5, <3>6, <3>7
    <2>3. CASE ReturnBind(p)
      <3>1. bound' = bound /\ writer' = [writer EXCEPT ![p] = Map!NoOp]
        BY <2>3 DEF ReturnBind, Map!Return
      <3>2. MapTypeOK'
        BY <1>1, <3>1, NoOpType, AnyMethodIsMethod DEF MapTypeOK, Entry
      <3> QED
        BY <2>3, <3>1, <3>2 DEF ReturnBind, TypeOK
    <2> QED
      BY <2>1, <2>2, <2>3
  <1>4. TypeOK'
    BY <1>1, <1>2 DEF TypeOK
  <1>5. Grants'
    BY <1>1, GrantsKept DEF Granted
  <1>6. \A r \in Request : Progress(r)'
    BY <1>1, <1>2 DEF Progress, Fresh
  <1> QED
    BY <1>2, <1>4, <1>5, <1>6

LEMMA InvStep == Inv /\ [Next]_vars => Inv'
  <1> SUFFICES ASSUME Inv, [Next]_vars PROVE Inv'
    OBVIOUS
  <1>1. CASE \E r \in Request :
               \/ Receive(r) \/ PassOn(r) \/ Refuse(r) \/ Resolve(r) \/ Decode(r)
               \/ Encode(r) \/ Lookup(r) \/ Return(r) \/ Panic(r) \/ Respond(r) \/ Send(r)
    BY <1>1, ReceiveKeepsInv, PassOnKeepsInv, RefuseKeepsInv, ResolveKeepsInv,
       DecodeKeepsInv, EncodeKeepsInv, LookupKeepsInv, ReturnKeepsInv, PanicKeepsInv,
       RespondKeepsInv, SendKeepsInv
  <1>2. CASE \E p \in Binder : CallBind(p) \/ ApplyBind(p) \/ ReturnBind(p)
    BY <1>2, BinderKeepsInv
  <1>3. CASE UNCHANGED vars
    BY <1>3 DEF vars, Inv, TypeOK, MapTypeOK, Grants, OneGrantPerToken, Granted, Progress,
                Fresh
  <1> QED
    BY <1>1, <1>2, <1>3 DEF Next

LEMMA SpecInv == Spec => []Inv
  BY InvInit, InvStep, PTL DEF Spec

----------------------------------------------------------------------------
(* The theorems *)

\* Every variable of the pipeline keeps its type.
THEOREM PipelineTypeOK == Spec => []TypeOK
  BY SpecInv, PTL DEF Inv

\* Whatever endpoint takes it, a token is granted to one request.
THEOREM TokenGrantedOnce == Spec => []OneGrantPerToken
  <1>1. Inv => OneGrantPerToken
    BY DEF Inv, Grants
  <1> QED
    BY <1>1, SpecInv, PTL

\* An error status means that nothing was looked up and no token was spent on it.
THEOREM ErrorStatusIsClean == Spec => []RefusalLeavesNoTrace
  <1>1. Inv => RefusalLeavesNoTrace
    <2> SUFFICES ASSUME Inv, NEW r \in Request, reply[r].status >= 400
                 PROVE  RefusalLeavesNoTrace!(r)!2
      BY DEF RefusalLeavesNoTrace
    <2>1. stage[r] = "done"
      BY DEF Inv, TypeOK, Stage, Progress, Fresh, NoReply
    <2> QED
      BY <2>1 DEF Inv, Progress, Grants
  <1> QED
    BY <1>1, SpecInv, PTL

\* The handler of a request is one its method had while the request was under way.
THEOREM LookupSeesCurrentBinding == Spec => []LookupIsCurrent
  <1>1. Inv => LookupIsCurrent
    BY DEF Inv, Progress, LookupIsCurrent
  <1> QED
    BY <1>1, SpecInv, PTL

\* An answer of 200 that arrives frames the outcome, or is empty for an error only.
THEOREM AnswersAreOutcomes == Spec => []AnswerIsTheOutcome
  <1>1. Inv => AnswerIsTheOutcome
    BY DEF Inv, Progress, AnswerIsTheOutcome
  <1> QED
    BY <1>1, SpecInv, PTL
=============================================================================
