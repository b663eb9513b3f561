---------------------------- MODULE ReplayGuard ----------------------------
(***************************************************************************)
(* What a replay store promises, without its shards, its clock readings or *)
(* its sweeper: a reservation stands until its deadline has really passed, *)
(* whoever asks and however late.  MemoryReplayStore                       *)
(* (internal/capability/replay.go) is shown to implement it; a distributed *)
(* store set with Service.SetReplayStore has to meet the same promise.     *)
(***************************************************************************)
EXTENDS Integers

CONSTANTS
  Token,    \* token identifiers
  Absent    \* the deadline of a token nobody has reserved

VARIABLES
  now,      \* real time
  deadline  \* token -> the time its reservation ends, or Absent

guardVars == <<now, deadline>>

Held(t) == deadline[t] # Absent /\ deadline[t] > now

Init ==
  /\ now = 0
  /\ deadline = [t \in Token |-> Absent]

Elapse ==
  /\ now' = now + 1
  /\ UNCHANGED deadline

\* Reserve a token that nobody holds any more, until some deadline.
Grant(t) ==
  /\ ~ Held(t)
  /\ deadline'[t] \in Nat \ {Absent}
  /\ deadline' = [deadline EXCEPT ![t] = deadline'[t]]
  /\ UNCHANGED now

\* Drop any number of reservations whose deadline has passed.
Forget(T) ==
  /\ \A t \in T : ~ Held(t)
  /\ deadline' = [t \in Token |-> IF t \in T THEN Absent ELSE deadline[t]]
  /\ UNCHANGED now

Next ==
  \/ Elapse
  \/ \E t \in Token : Grant(t)
  \/ \E T \in SUBSET Token : Forget(T)

Spec == Init /\ [][Next]_guardVars
=============================================================================
