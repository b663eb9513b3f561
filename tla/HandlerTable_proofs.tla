------------------------ MODULE HandlerTable_proofs ------------------------
(***************************************************************************)
(* Proofs about HandlerTable: type correctness, and linearizability of     *)
(* Bind, Unbind and the lock-free lookups for any number of goroutines.    *)
(***************************************************************************)
EXTENDS HandlerTable, TLAPS

LEMMA AnyNameIsName == AnyName \in Name
  BY HandlerAssumption DEF AnyName

\* handlerMu is held from Lock to Unlock, and by nobody else.
MutexHeld ==
  \A p \in Binder : bind[p].at \in {"locked", "copied", "unlocking"} <=> mu = p

\* What the lock is for: nothing is published between a copy and its Store.
CopyIsFresh ==
  \A p \in Binder :
    bind[p].at = "copied" =>
      bind[p].next = [handlers EXCEPT ![bind[p].method] = bind[p].handler]

\* Nothing but a known method is ever given a handler.
CallsAreKnown ==
  \A p \in Binder : bind[p].method \in Method \/ bind[p].handler = NoHandler

\* A goroutine outside its call keeps nothing of the last one.
OutsideIsBlank ==
  /\ \A p \in Binder : bind[p].at = "idle" => bind[p] = NoBind
  /\ \A e \in Executor : exec[e].at = "idle" => exec[e] = NoExec
  /\ \A e \in Executor : exec[e].at = "invoked" => exec[e].handler = NoHandler

Inv ==
  /\ TypeOK
  /\ MutexHeld
  /\ CopyIsFresh
  /\ CallsAreKnown
  /\ OutsideIsBlank

LEMMA InvInit == Init => Inv
  BY HandlerAssumption, AnyNameIsName
     DEF Init, Inv, TypeOK, Table, Entry, BindStep, ExecStep, Empty, NoBind, NoExec,
         MutexHeld, CopyIsFresh, CallsAreKnown, OutsideIsBlank

----------------------------------------------------------------------------
(* Each step keeps the invariant. *)

LEMMA CallKeepsInv ==
  ASSUME Inv, NEW p \in Binder, NEW m \in Name, NEW h \in Entry, Call(p, m, h)
  PROVE  Inv'
  <1> DEFINE c == [at |-> "waiting", method |-> m, handler |-> h, next |-> Empty]
  <1>1. /\ bind' = [bind EXCEPT ![p] = c] /\ bind'[p] = c
        /\ \A q \in Binder \ {p} : bind'[q] = bind[q]
        /\ bind[p].at = "idle" /\ (m \in Method \/ h = NoHandler)
        /\ UNCHANGED <<handlers, mu, exec>>
    BY DEF Inv, TypeOK, Call, Known
  <1>2. Empty \in Table
    BY DEF Empty, Table, Entry
  <1>3. TypeOK'
    BY <1>1, <1>2 DEF Inv, TypeOK, BindStep
  <1> QED
    BY <1>1, <1>3
       DEF Inv, MutexHeld, CopyIsFresh, CallsAreKnown, OutsideIsBlank

LEMMA LockKeepsInv ==
  ASSUME Inv, NEW p \in Binder, Lock(p)
  PROVE  Inv'
  <1>1. /\ bind[p].at = "waiting" /\ mu = Nobody /\ mu' = p
        /\ bind' = [bind EXCEPT ![p].at = "locked"]
        /\ UNCHANGED <<handlers, exec>>
    BY DEF Lock, MayLock
  <1>2. /\ bind'[p].at = "locked" /\ bind'[p].method = bind[p].method
        /\ bind'[p].handler = bind[p].handler
        /\ \A q \in Binder \ {p} : bind'[q] = bind[q]
    BY <1>1 DEF Inv, TypeOK
  <1>3. TypeOK'
    BY <1>1 DEF Inv, TypeOK, BindStep
  <1> QED
    BY <1>1, <1>2, <1>3, HandlerAssumption
       DEF Inv, MutexHeld, CopyIsFresh, CallsAreKnown, OutsideIsBlank

LEMMA CopyKeepsInv ==
  ASSUME Inv, NEW p \in Binder, Copy(p)
  PROVE  Inv'
  <1> DEFINE m == bind[p].method
             h == bind[p].handler
             copy == [handlers EXCEPT ![m] = h]
             at == IF h = NoHandler /\ handlers[m] = NoHandler
                     THEN AfterNoChange ELSE "copied"
  <1>1. /\ bind[p].at = "locked"
        /\ bind' = [bind EXCEPT ![p].at = at, ![p].next = copy]
        /\ UNCHANGED <<handlers, mu, exec>>
    BY DEF Copy
  <1>2. at \in {"copied", "unlocking"} /\ m \in Name /\ h \in Entry /\ copy \in Table
    BY DEF AfterNoChange, Inv, TypeOK, Table
  <1> HIDE DEF at, copy
  <1>3. /\ bind'[p].at = at /\ bind'[p].next = copy
        /\ bind'[p].method = m /\ bind'[p].handler = h
        /\ \A q \in Binder \ {p} : bind'[q] = bind[q]
    BY <1>1 DEF Inv, TypeOK
  <1>4. TypeOK'
    BY <1>1, <1>2 DEF Inv, TypeOK, BindStep
  <1>5. MutexHeld' /\ CallsAreKnown' /\ OutsideIsBlank'
    BY <1>1, <1>2, <1>3 DEF Inv, MutexHeld, CallsAreKnown, OutsideIsBlank
  <1>6. CopyIsFresh'
    BY <1>1, <1>3 DEF Inv, CopyIsFresh, copy
  <1> QED
    BY <1>4, <1>5, <1>6 DEF Inv

LEMMA StoreKeepsInv ==
  ASSUME Inv, NEW p \in Binder, Store(p)
  PROVE  Inv'
  <1>1. /\ bind[p].at = "copied" /\ mu = p
        /\ handlers' = [handlers EXCEPT ![bind[p].method] = bind[p].handler]
        /\ bind' = [bind EXCEPT ![p].at = "unlocking"]
        /\ UNCHANGED <<mu, exec>>
    BY DEF Store, Inv, MutexHeld, CopyIsFresh
  <1>2. /\ bind'[p].at = "unlocking" /\ bind'[p].method = bind[p].method
        /\ bind'[p].handler = bind[p].handler
        /\ \A q \in Binder \ {p} : bind'[q] = bind[q] /\ bind[q].at # "copied"
    BY <1>1 DEF Inv, TypeOK, MutexHeld
  <1>3. TypeOK'
    <2>1. handlers' \in Table /\ \A m \in Name \ Method : handlers'[m] = NoHandler
      BY <1>1 DEF Inv, TypeOK, Table, CallsAreKnown
    <2>2. bind' \in [Binder ->
             [at : BindStep, method : Name, handler : Entry, next : Table]]
      BY <1>1 DEF Inv, TypeOK, BindStep
    <2> QED
      BY <1>1, <2>1, <2>2 DEF Inv, TypeOK
  <1> QED
    BY <1>1, <1>2, <1>3
       DEF Inv, MutexHeld, CopyIsFresh, CallsAreKnown, OutsideIsBlank

LEMMA UnlockKeepsInv ==
  ASSUME Inv, NEW p \in Binder, Unlock(p)
  PROVE  Inv'
  <1>1. /\ bind[p].at = "unlocking" /\ mu = p /\ mu' = Nobody
        /\ bind' = [bind EXCEPT ![p] = NoBind]
        /\ UNCHANGED <<handlers, exec>>
    BY DEF Unlock, Inv, MutexHeld
  <1>2. bind'[p] = NoBind /\ \A q \in Binder \ {p} : bind'[q] = bind[q]
    BY <1>1 DEF Inv, TypeOK
  <1>3. TypeOK'
    <2>1. NoBind \in [at : BindStep, method : Name, handler : Entry, next : Table]
      BY AnyNameIsName DEF NoBind, BindStep, Entry, Table, Empty
    <2> QED
      BY <1>1, <2>1 DEF Inv, TypeOK
  <1> QED
    BY <1>1, <1>2, <1>3, HandlerAssumption
       DEF Inv, MutexHeld, CopyIsFresh, CallsAreKnown, OutsideIsBlank, NoBind

LEMMA ExecutorKeepsInv ==
  ASSUME Inv, NEW e \in Executor,
         \/ \E m \in Name : Invoke(e, m)
         \/ Lookup(e) \/ Finish(e)
  PROVE  Inv'
  <1>1. UNCHANGED <<handlers, mu, bind>>
    BY DEF Invoke, Lookup, Finish
  <1>2. exec' \in [Executor -> [at : ExecStep, method : Name, handler : Entry]]
    BY AnyNameIsName
       DEF Inv, TypeOK, Table, Entry, ExecStep, Invoke, Lookup, Finish, NoExec
  <1>3. OutsideIsBlank'
    BY <1>1 DEF Inv, TypeOK, OutsideIsBlank, Invoke, Lookup, Finish, NoExec
  <1> QED
    BY <1>1, <1>2, <1>3 DEF Inv, TypeOK, MutexHeld, CopyIsFresh, CallsAreKnown

LEMMA InvStep == Inv /\ [Next]_tableVars => Inv'
  <1> SUFFICES ASSUME Inv, [Next]_tableVars PROVE Inv'
    OBVIOUS
  <1>1. CASE \E p \in Binder, m \in Name, h \in Entry : Call(p, m, h)
    BY <1>1, CallKeepsInv
  <1>2. CASE \E p \in Binder : Lock(p) \/ Copy(p) \/ Store(p) \/ Unlock(p)
    BY <1>2, LockKeepsInv, CopyKeepsInv, StoreKeepsInv, UnlockKeepsInv
  <1>3. CASE \/ \E e \in Executor, m \in Name : Invoke(e, m)
             \/ \E e \in Executor : Lookup(e) \/ Finish(e)
    BY <1>3, ExecutorKeepsInv
  <1>4. CASE UNCHANGED tableVars
    BY <1>4 DEF tableVars, Inv, TypeOK, MutexHeld, CopyIsFresh, CallsAreKnown,
                OutsideIsBlank
  <1> QED
    BY <1>1, <1>2, <1>3, <1>4 DEF Next

LEMMA SpecInv == Spec => []Inv
  BY InvInit, InvStep, PTL DEF Spec

\* The handler table keeps its type; unknown methods never get a handler.
THEOREM TableTypeOK == Spec => []TypeOK
  BY SpecInv, PTL DEF Inv

----------------------------------------------------------------------------
(* Linearizability: each step of the table is one of HandlerMap's, or none. *)

Writers ==
  [p \in Binder |->
    [phase |-> BindPhase(bind[p].at),
     method |-> bind[p].method, handler |-> bind[p].handler]]

Readers ==
  [e \in Executor |->
    [phase |-> ExecPhase(exec[e].at),
     method |-> exec[e].method, handler |-> exec[e].handler]]

LEMMA LinearInit == Init => LinearMap!Init
  BY DEF Init, LinearMap!Init, LinearMap!NoOp, LinearMap!Op, Empty, NoBind, NoExec,
         AnyName, BindPhase, ExecPhase

LEMMA BinderStepRefines ==
  ASSUME Inv, NEW p \in Binder,
         \/ \E m \in Name, h \in Entry : Call(p, m, h)
         \/ Lock(p) \/ Copy(p) \/ Store(p) \/ Unlock(p)
  PROVE  [LinearMap!Next]_LinearMap!mapVars
  <1> USE DEF Inv, TypeOK
  <1>1. UNCHANGED exec
    BY DEF Call, Lock, Copy, Store, Unlock
  <1>2. ASSUME NEW m \in Name, NEW h \in Entry, Call(p, m, h)
        PROVE  LinearMap!Call(p, m, h)
    <2>1. bind[p] = NoBind
      BY <1>2 DEF Call, OutsideIsBlank
    <2>2. Writers[p] = LinearMap!NoOp
      <3>1. Writers[p] = [phase |-> "idle", method |-> AnyName, handler |-> NoHandler]
        BY <2>1 DEF Writers, NoBind, BindPhase
      <3> QED
        BY <3>1 DEF LinearMap!NoOp, LinearMap!Op, AnyName
    <2>3. Writers' = [Writers EXCEPT ![p] = LinearMap!Op("pending", m, h)]
      BY <1>2 DEF Call, Writers, LinearMap!Op, BindPhase
    <2> QED
      BY <1>1, <1>2, <2>2, <2>3 DEF Call, LinearMap!Call, Writers
  <1>3. ASSUME Lock(p) PROVE UNCHANGED LinearMap!mapVars
    <2>1. Writers' = Writers
      BY <1>3 DEF Lock, Writers, BindPhase
    <2> QED
      BY <1>1, <1>3, <2>1 DEF Lock, LinearMap!mapVars, Writers
  <1>4. ASSUME Copy(p)
        PROVE  LinearMap!Apply(p) \/ UNCHANGED LinearMap!mapVars
    <2> DEFINE m == bind[p].method
               h == bind[p].handler
    <2>1. CASE h = NoHandler /\ handlers[m] = NoHandler
      <3>1. Writers' = [Writers EXCEPT ![p].phase = "applied"]
        <4>1. /\ bind'[p].at = "unlocking" /\ bind'[p].method = m
              /\ bind'[p].handler = h
              /\ \A q \in Binder \ {p} : bind'[q] = bind[q]
          BY <1>4, <2>1 DEF Copy, AfterNoChange
        <4>2. bind[p].at = "locked"
          BY <1>4 DEF Copy
        <4> QED
          BY <4>1, <4>2 DEF Writers, BindPhase
      <3>2. handlers' = [handlers EXCEPT ![m] = h]
        BY <1>4, <2>1 DEF Copy, Table
      <3>3. Writers[p] = [phase |-> "pending", method |-> m, handler |-> h]
        BY <1>4 DEF Copy, Writers, BindPhase
      <3> QED
        BY <1>1, <3>1, <3>2, <3>3 DEF LinearMap!Apply, Writers
    <2>2. CASE ~ (h = NoHandler /\ handlers[m] = NoHandler)
      <3>1. Writers' = Writers
        BY <1>4, <2>2 DEF Copy, Writers, BindPhase
      <3> QED
        BY <1>1, <1>4, <3>1 DEF Copy, LinearMap!mapVars, Writers
    <2> QED
      BY <2>1, <2>2
  <1>5. ASSUME Store(p) PROVE LinearMap!Apply(p)
    <2>1. Writers' = [Writers EXCEPT ![p].phase = "applied"]
      BY <1>5 DEF Store, Writers, BindPhase
    <2>2. handlers' = [handlers EXCEPT ![bind[p].method] = bind[p].handler]
      BY <1>5 DEF Store, CopyIsFresh
    <2>3. Writers[p] = [phase |-> "pending", method |-> bind[p].method,
                        handler |-> bind[p].handler]
      BY <1>5 DEF Store, Writers, BindPhase
    <2> QED
      BY <1>1, <2>1, <2>2, <2>3 DEF LinearMap!Apply, Writers
  <1>6. ASSUME Unlock(p) PROVE LinearMap!Return(p)
    <2>1. Writers' = [Writers EXCEPT ![p] = LinearMap!NoOp]
      BY <1>6 DEF Unlock, Writers, LinearMap!NoOp, LinearMap!Op, NoBind, AnyName,
                  BindPhase
    <2>2. Writers[p].phase = "applied"
      BY <1>6 DEF Unlock, Writers, BindPhase
    <2> QED
      BY <1>1, <1>6, <2>1, <2>2 DEF Unlock, LinearMap!Return, Writers
  <1> QED
    BY <1>2, <1>3, <1>4, <1>5, <1>6 DEF LinearMap!Next, Entry

LEMMA ExecutorStepRefines ==
  ASSUME Inv, NEW e \in Executor,
         \/ \E m \in Name : Invoke(e, m)
         \/ Lookup(e) \/ Finish(e)
  PROVE  LinearMap!Next
  <1> USE DEF Inv, TypeOK
  <1>1. UNCHANGED <<handlers, mu, bind>>
    BY DEF Invoke, Lookup, Finish
  <1>2. ASSUME NEW m \in Name, Invoke(e, m) PROVE LinearMap!Ask(e, m)
    <2>1. exec[e] = NoExec
      BY <1>2 DEF Invoke, OutsideIsBlank
    <2>2. Readers[e] = LinearMap!NoOp
      <3>1. Readers[e] = [phase |-> "idle", method |-> AnyName, handler |-> NoHandler]
        BY <2>1 DEF Readers, NoExec, ExecPhase
      <3> QED
        BY <3>1 DEF LinearMap!NoOp, LinearMap!Op, AnyName
    <2>3. Readers' = [Readers EXCEPT ![e] = LinearMap!Op("pending", m, NoHandler)]
      <3>1. /\ exec'[e].at = "invoked" /\ exec'[e].method = m
            /\ exec'[e].handler = NoHandler
            /\ \A d \in Executor \ {e} : exec'[d] = exec[d]
        <4>1. exec[e].handler = NoHandler
          BY <2>1 DEF NoExec
        <4> QED
          BY <1>2, <4>1 DEF Invoke
      <3> QED
        BY <3>1 DEF Readers, LinearMap!Op, ExecPhase
    <2> QED
      BY <1>1, <2>2, <2>3 DEF LinearMap!Ask, Readers
  <1>3. ASSUME Lookup(e) PROVE LinearMap!Answer(e)
    <2>1. Readers[e].phase = "pending" /\ Readers[e].method = exec[e].method
      BY <1>3 DEF Lookup, Readers, ExecPhase
    <2>2. Readers' = [Readers EXCEPT ![e] =
                        LinearMap!Op("answered", @.method, handlers[@.method])]
      BY <1>3 DEF Lookup, Readers, LinearMap!Op, ExecPhase
    <2> QED
      BY <1>1, <2>1, <2>2 DEF LinearMap!Answer, Readers
  <1>4. ASSUME Finish(e) PROVE LinearMap!Leave(e)
    <2>1. Readers[e].phase = "answered"
      BY <1>4 DEF Finish, Readers, ExecPhase
    <2>2. Readers' = [Readers EXCEPT ![e] = LinearMap!NoOp]
      BY <1>4 DEF Finish, Readers, LinearMap!NoOp, LinearMap!Op, NoExec, AnyName,
                  ExecPhase
    <2> QED
      BY <1>1, <2>1, <2>2 DEF LinearMap!Leave, Readers
  <1> QED
    BY <1>2, <1>3, <1>4 DEF LinearMap!Next

LEMMA StepRefines ==
  Inv /\ [Next]_tableVars => [LinearMap!Next]_LinearMap!mapVars
  <1> SUFFICES ASSUME Inv, [Next]_tableVars
               PROVE  [LinearMap!Next]_LinearMap!mapVars
    OBVIOUS
  <1>1. CASE \/ \E p \in Binder, m \in Name, h \in Entry : Call(p, m, h)
             \/ \E p \in Binder : Lock(p) \/ Copy(p) \/ Store(p) \/ Unlock(p)
    BY <1>1, BinderStepRefines
  <1>2. CASE \/ \E e \in Executor, m \in Name : Invoke(e, m)
             \/ \E e \in Executor : Lookup(e) \/ Finish(e)
    BY <1>2, ExecutorStepRefines
  <1>3. CASE UNCHANGED tableVars
    BY <1>3 DEF tableVars, LinearMap!mapVars
  <1> QED
    BY <1>1, <1>2, <1>3 DEF Next

\* For any number of binders, executors, methods and handlers, Bind, Unbind and
\* the lock-free lookups are linearizable: the table implements HandlerMap.
THEOREM TableIsLinearizable == Spec => LinearSpec
  <1>1. Spec => LinearMap!Spec
    BY LinearInit, SpecInv, StepRefines, PTL DEF Spec, LinearMap!Spec
  <1> QED
    BY <1>1 DEF LinearSpec
=============================================================================
