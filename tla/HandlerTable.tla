---------------------------- MODULE HandlerTable ----------------------------
(***************************************************************************)
(* The handler bindings of internal/resolver/service.go: Bind and Unbind   *)
(* copy the current map under handlerMu, change the copy and publish it    *)
(* through an atomic.Value; ExecuteInvocation loads the published map once *)
(* and takes no lock.  A published map is never written again, so a map is *)
(* a value here and the atomic.Value holds one.                            *)
(***************************************************************************)

CONSTANTS
  Binder,    \* goroutines that call Bind and Unbind
  Executor,  \* goroutines that call ExecuteInvocation
  Name,      \* method references a caller may give
  Method,    \* those of the compiled config
  Handler,
  NoHandler, \* no entry in a map; as an argument, a call of Unbind
  Nobody     \* the holder of handlerMu when it is free

ASSUME HandlerAssumption ==
  /\ Name # {}
  /\ Method \subseteq Name
  /\ NoHandler \notin Handler
  /\ Nobody \notin Binder

VARIABLES
  handlers,  \* the published map: name -> handler or NoHandler
  mu,        \* who holds handlerMu
  bind,      \* binder -> its call: progress, arguments and the copy it makes
  exec       \* executor -> its invocation: progress, method, handler found

tableVars == <<handlers, mu, bind, exec>>

Entry == Handler \cup {NoHandler}

Table == [Name -> Entry]

BindStep == {"idle", "waiting", "locked", "copied", "unlocking"}

ExecStep == {"idle", "invoked", "found"}

Empty == [m \in Name |-> NoHandler]

\* Only the methods of the compiled config ever get a handler (line 182).
TypeOK ==
  /\ handlers \in Table
  /\ \A m \in Name \ Method : handlers[m] = NoHandler
  /\ mu \in Binder \cup {Nobody}
  /\ bind \in [Binder ->
       [at : BindStep, method : Name, handler : Entry, next : Table]]
  /\ exec \in [Executor ->
       [at : ExecStep, method : Name, handler : Entry]]

AnyName == CHOOSE m \in Name : TRUE

NoBind == [at |-> "idle", method |-> AnyName, handler |-> NoHandler, next |-> Empty]

NoExec == [at |-> "idle", method |-> AnyName, handler |-> NoHandler]

Init ==
  /\ handlers = Empty
  /\ mu = Nobody
  /\ bind = [p \in Binder |-> NoBind]
  /\ exec = [e \in Executor |-> NoExec]

----------------------------------------------------------------------------
(* Faulty variants of the code, one plausible slip each.  Nothing below    *)
(* uses them: each shows that the properties notice the slip.              *)

\* Bind and Unbind do without handlerMu.
MayLockAlways(p) == TRUE

\* Unbind returns early with the lock still held.
AfterNoChangeKeepsLock == "idle"

----------------------------------------------------------------------------
(* Bind (lines 177-195) and Unbind (lines 197-213) *)

Known(m) == m \in Method

\* Line 182 refuses an unknown method before the lock; Unbind checks nothing.
Call(p, m, h) ==
  /\ bind[p].at = "idle"
  /\ Known(m) \/ h = NoHandler
  /\ bind' = [bind EXCEPT ![p] =
                [at |-> "waiting", method |-> m, handler |-> h, next |-> Empty]]
  /\ UNCHANGED <<handlers, mu, exec>>

MayLock(p) == mu = Nobody

Lock(p) ==
  /\ bind[p].at = "waiting"
  /\ MayLock(p)
  /\ mu' = p
  /\ bind' = [bind EXCEPT ![p].at = "locked"]
  /\ UNCHANGED <<handlers, exec>>

\* Lines 202-204: Unbind of a method without a handler publishes nothing.
AfterNoChange == "unlocking"

\* Lines 187-192 and 201-211: load the published map and change a copy of it.
Copy(p) ==
  LET m == bind[p].method
      h == bind[p].handler
  IN
  /\ bind[p].at = "locked"
  /\ bind' = [bind EXCEPT
       ![p].at = IF h = NoHandler /\ handlers[m] = NoHandler
                   THEN AfterNoChange ELSE "copied",
       ![p].next = [handlers EXCEPT ![m] = h]]
  /\ UNCHANGED <<handlers, mu, exec>>

\* Lines 193 and 212.
Store(p) ==
  /\ bind[p].at = "copied"
  /\ handlers' = bind[p].next
  /\ bind' = [bind EXCEPT ![p].at = "unlocking"]
  /\ UNCHANGED <<mu, exec>>

\* The deferred Unlock, and the return.
Unlock(p) ==
  /\ bind[p].at = "unlocking"
  /\ mu' = Nobody
  /\ bind' = [bind EXCEPT ![p] = NoBind]
  /\ UNCHANGED <<handlers, exec>>

----------------------------------------------------------------------------
(* ExecuteInvocation (lines 274-299) *)

\* Only a method of the config resolves to an invocation (service.go 236-239).
Invoke(e, m) ==
  /\ exec[e].at = "idle"
  /\ Known(m)
  /\ exec' = [exec EXCEPT ![e].at = "invoked", ![e].method = m]
  /\ UNCHANGED <<handlers, mu, bind>>

\* Line 278: one load, one lookup; NoHandler is the "not bound" error.
Lookup(e) ==
  /\ exec[e].at = "invoked"
  /\ exec' = [exec EXCEPT ![e].at = "found", ![e].handler = handlers[exec[e].method]]
  /\ UNCHANGED <<handlers, mu, bind>>

\* The handler found, if any, has run; the caller has its response or error.
Finish(e) ==
  /\ exec[e].at = "found"
  /\ exec' = [exec EXCEPT ![e] = NoExec]
  /\ UNCHANGED <<handlers, mu, bind>>

----------------------------------------------------------------------------

Next ==
  \/ \E p \in Binder, m \in Name, h \in Entry : Call(p, m, h)
  \/ \E p \in Binder : Lock(p) \/ Copy(p) \/ Store(p) \/ Unlock(p)
  \/ \E e \in Executor, m \in Name : Invoke(e, m)
  \/ \E e \in Executor : Lookup(e) \/ Finish(e)

Spec == Init /\ [][Next]_tableVars

\* A goroutine inside Bind or Unbind runs on; sync.Mutex goes over to handing
\* the lock to the longest waiter, so nobody waits for ever (strong fairness).
Fairness ==
  \A p \in Binder :
    /\ SF_tableVars(Lock(p))
    /\ WF_tableVars(Copy(p) \/ Store(p) \/ Unlock(p))

FairSpec == Spec /\ Fairness

----------------------------------------------------------------------------
(* Properties *)

\* The phase of HandlerMap that a binder or an executor is in.
BindPhase(at) ==
  CASE at = "idle" -> "idle"
    [] at = "unlocking" -> "applied"
    [] OTHER -> "pending"

ExecPhase(at) ==
  CASE at = "idle" -> "idle"
    [] at = "invoked" -> "pending"
    [] at = "found" -> "answered"

\* Bind, Unbind and the lock-free lookups are linearizable: concurrent calls
\* lose no update and undo none, and a lookup that starts after Unbind has
\* returned does not find the handler.  The instant of a Bind is its Store.
LinearMap ==
  INSTANCE HandlerMap WITH
    Writer <- Binder,
    Reader <- Executor,
    bound <- handlers,
    writer <- [p \in Binder |->
      [phase |-> BindPhase(bind[p].at),
       method |-> bind[p].method, handler |-> bind[p].handler]],
    reader <- [e \in Executor |->
      [phase |-> ExecPhase(exec[e].at),
       method |-> exec[e].method, handler |-> exec[e].handler]]

LinearSpec == LinearMap!Spec

\* Every Bind and Unbind returns: no path leaves handlerMu locked (lines 185,
\* 199 and the early return of line 203).
BindersFinish ==
  \A p \in Binder : bind[p].at = "waiting" ~> bind[p].at = "idle"
=============================================================================
