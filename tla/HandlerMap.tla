----------------------------- MODULE HandlerMap -----------------------------
(***************************************************************************)
(* What the resolver's handler bindings promise: one map from methods to   *)
(* handlers on which every Bind, Unbind and lookup takes effect at one     *)
(* instant between its call and its return, each on its own method only.   *)
(* The copy-on-write table of internal/resolver/service.go is shown to     *)
(* implement it (module HandlerTable).                                     *)
(***************************************************************************)

CONSTANTS
  Writer,    \* goroutines that bind and unbind
  Reader,    \* goroutines that look a handler up
  Name,      \* method references
  Handler,
  NoHandler  \* the entry of a method without a handler

VARIABLES
  bound,   \* name -> handler
  writer,  \* writer -> its operation: not called, pending or applied
  reader   \* reader -> its lookup: not called, pending or answered

mapVars == <<bound, writer, reader>>

Op(phase, m, h) == [phase |-> phase, method |-> m, handler |-> h]

\* Nothing under way: the name and the handler do not matter.
NoOp == Op("idle", CHOOSE m \in Name : TRUE, NoHandler)

Init ==
  /\ bound = [m \in Name |-> NoHandler]
  /\ writer = [p \in Writer |-> NoOp]
  /\ reader = [e \in Reader |-> NoOp]

\* A writer asks for a handler to be set, or (NoHandler) removed.
Call(p, m, h) ==
  /\ writer[p] = NoOp
  /\ writer' = [writer EXCEPT ![p] = Op("pending", m, h)]
  /\ UNCHANGED <<bound, reader>>

Apply(p) ==
  /\ writer[p].phase = "pending"
  /\ bound' = [bound EXCEPT ![writer[p].method] = writer[p].handler]
  /\ writer' = [writer EXCEPT ![p].phase = "applied"]
  /\ UNCHANGED reader

Return(p) ==
  /\ writer[p].phase = "applied"
  /\ writer' = [writer EXCEPT ![p] = NoOp]
  /\ UNCHANGED <<bound, reader>>

Ask(e, m) ==
  /\ reader[e] = NoOp
  /\ reader' = [reader EXCEPT ![e] = Op("pending", m, NoHandler)]
  /\ UNCHANGED <<bound, writer>>

Answer(e) ==
  /\ reader[e].phase = "pending"
  /\ reader' = [reader EXCEPT ![e] = Op("answered", @.method, bound[@.method])]
  /\ UNCHANGED <<bound, writer>>

Leave(e) ==
  /\ reader[e].phase = "answered"
  /\ reader' = [reader EXCEPT ![e] = NoOp]
  /\ UNCHANGED <<bound, writer>>

Next ==
  \/ \E p \in Writer :
       \/ \E m \in Name, h \in Handler \cup {NoHandler} : Call(p, m, h)
       \/ Apply(p) \/ Return(p)
  \/ \E e \in Reader :
       \/ \E m \in Name : Ask(e, m)
       \/ Answer(e) \/ Leave(e)

Spec == Init /\ [][Next]_mapVars
=============================================================================
