------------------------------ MODULE Resolver ------------------------------
(***************************************************************************)
(* ResolveInvocationWithTarget and resolveCapability of                    *)
(* internal/resolver/service.go, run by one goroutine per request, over    *)
(* the replay store of ReplayStore.  The resolver reads its own clock      *)
(* (line 509), derives the token's remaining lifetime from that reading    *)
(* and reserves the token last (line 531); the store reads its clock again *)
(* and only then takes a lock.  The resolver's reading is wall time, which *)
(* may be set back; the store's readings never go back (a Go Time carries  *)
(* a monotonic reading, and expiry.After(now) compares those).             *)
(***************************************************************************)
EXTENDS ReplayStore

CONSTANTS
  NotBefore,       \* token -> not_before, in seconds
  ExpiresAt,       \* token -> expires_at, in seconds
  FaultSets,       \* the sets of checks that a request may fail
  TicksPerSecond,  \* the clocks are finer than the token's seconds
  Skew,            \* Service.skew in seconds (30 in New)
  MaxStall,        \* bound: ticks from the clock reading to the reservation
  MaxSetback,      \* bound: ticks the wall clock is set back in all
  MaxRestarts      \* bound: restarts of the process

\* The checks of lines 232-244, of line 493 (a request without a token), of lines
\* 495-508, and of lines 513-527 on what the token allows.
RequestChecks == {"payload", "method", "arguments"}
AbsenceChecks == {"capability required"}
TokenChecks == {"keyring", "bytes", "signature"}
ClaimChecks == {"schema", "fingerprint", "condition", "scope", "target"}

Faults == SUBSET (RequestChecks \cup AbsenceChecks \cup TokenChecks \cup ClaimChecks)

ASSUME ResolverAssumption ==
  /\ NotBefore \in [Token -> Nat]
  /\ ExpiresAt \in [Token -> Nat]
  /\ FaultSets \subseteq Faults /\ {} \in FaultSets
  /\ TicksPerSecond \in Nat \ {0}
  /\ Skew \in Nat
  /\ {MaxStall, MaxSetback, MaxRestarts} \subseteq Nat

VARIABLES
  behind,    \* how far the wall clock has been set back
  restarts,  \* restarts of the process so far
  stage,     \* request -> where its goroutine is
  ask,       \* request -> what it asks for
  judged,    \* request -> both clocks when line 509 read the time
  won        \* request -> the time at which its token was reserved

vars == <<now, used, call, sweep, behind, restarts, stage, ask, judged, won>>

Stage == {"new", "received", "verified", "reserving",
          "admitted", "rejected", "replayed", "lost"}

\* What a request asks for: its token, and the checks it would fail.
Ask ==
  { a \in [token : Token \cup {NoToken}, faults : FaultSets] :
      a.faults \subseteq
        RequestChecks \cup (IF a.token = NoToken THEN AbsenceChecks
                           ELSE TokenChecks \cup ClaimChecks) }

TypeOK ==
  /\ StoreTypeOK
  /\ behind \in 0 .. MaxSetback
  /\ restarts \in 0 .. MaxRestarts
  /\ stage \in [Request -> Stage]
  /\ ask \in [Request -> Ask]
  /\ judged \in [Request -> [time : Nat, wall : Int]]
  /\ won \in [Request -> Nat]

NoAsk == [token |-> NoToken, faults |-> {}]

NotJudged == [time |-> 0, wall |-> 0]

Init ==
  /\ StoreInit
  /\ behind = 0
  /\ restarts = 0
  /\ stage = [r \in Request |-> "new"]
  /\ ask = [r \in Request |-> NoAsk]
  /\ judged = [r \in Request |-> NotJudged]
  /\ won = [r \in Request |-> 0]

----------------------------------------------------------------------------
(* Faulty variants of the code, one plausible slip each.  Nothing below    *)
(* uses them: each shows that the properties notice the slip.              *)

\* TTL subtracts a number of seconds from a number of ticks.
RemainingInSeconds(t, wall) ==
  IF ExpiresAt[t] > wall \div TicksPerSecond
    THEN ExpiresAt[t] - (wall \div TicksPerSecond) ELSE 0

\* The target of the call is never compared with the token's targets.
ClaimsButTarget(r) == ask[r].faults \cap (ClaimChecks \ {"target"}) = {}

----------------------------------------------------------------------------
(* token.go *)

wall == now - behind

Second(time) == time \div TicksPerSecond

\* AssertTimeWindow, lines 229-239: whole seconds, leeway at both ends.
InWindow(t, time) ==
  /\ Second(time) + Skew >= NotBefore[t]
  /\ Second(time) - Skew <= ExpiresAt[t]

Deadline(t) == ExpiresAt[t] * TicksPerSecond

\* Token.TTL, lines 279-288: what is left before expires_at, without leeway.
Remaining(t, time) == IF Deadline(t) > time THEN Deadline(t) - time ELSE 0

----------------------------------------------------------------------------
(* service.go *)

Passes(r, checks) == ask[r].faults \cap checks = {}

ClaimsHold(r) == Passes(r, ClaimChecks)

Move(r, to) == stage' = [stage EXCEPT ![r] = to]

\* A client sends a request, possibly with a token that was used before.
Receive(r) ==
  /\ stage[r] = "new"
  /\ Move(r, "received")
  /\ \E a \in Ask : ask' = [ask EXCEPT ![r] = a]
  /\ UNCHANGED <<storeVars, behind, restarts, judged, won>>

\* Lines 232-244 and 493-508: the request, then the token without its claims.
\* A relation open to everyone lets a request without a token through here.
Verify(r) ==
  /\ stage[r] = "received"
  /\ Move(r, IF ~ Passes(r, RequestChecks) THEN "rejected"
             ELSE IF ask[r].token = NoToken
               THEN IF Passes(r, AbsenceChecks) THEN "admitted" ELSE "rejected"
             ELSE IF Passes(r, TokenChecks) THEN "verified" ELSE "rejected")
  /\ UNCHANGED <<storeVars, behind, restarts, ask, judged, won>>

\* Lines 509-531: read the clock, check the window and the claims, and call
\* Reserve with the lifetime that is left at that reading.
Judge(r) ==
  LET t == ask[r].token IN
  /\ stage[r] = "verified"
  /\ IF InWindow(t, wall) /\ ClaimsHold(r)
       THEN /\ Enter(r, t, Remaining(t, wall))
            /\ judged' = [judged EXCEPT ![r] = [time |-> now, wall |-> wall]]
            /\ Move(r, IF call'[r].status = "entered" THEN "reserving" ELSE "rejected")
       ELSE /\ Move(r, "rejected")
            /\ UNCHANGED <<storeVars, judged>>
  /\ UNCHANGED <<behind, restarts, ask, won>>

ReadStoreClock(r) ==
  /\ ReadClock(r)
  /\ UNCHANGED <<behind, restarts, stage, ask, judged, won>>

\* The locked part of Reserve, and lines 531-534 with its answer.
Reserve(r) ==
  /\ Commit(r)
  /\ IF call'[r].status = "reserved"
       THEN Move(r, "admitted") /\ won' = [won EXCEPT ![r] = now]
       ELSE Move(r, "replayed") /\ UNCHANGED won
  /\ UNCHANGED <<behind, restarts, ask, judged>>

Sweep ==
  /\ Sweeper
  /\ UNCHANGED <<behind, restarts, stage, ask, judged, won>>

\* Time passes; the model bounds how long a goroutine may take from its clock
\* reading to its reservation.
Tick ==
  /\ \A r \in Request :
       stage[r] = "reserving" => now < judged[r].time + MaxStall
  /\ StoreTick
  /\ UNCHANGED <<behind, restarts, stage, ask, judged, won>>

SetWallBack ==
  /\ behind < MaxSetback
  /\ behind' = behind + 1
  /\ UNCHANGED <<storeVars, restarts, stage, ask, judged, won>>

\* The process dies with its requests and its replay store (service.go 138:
\* the default store is local to the process) and starts again.
Restart ==
  /\ restarts < MaxRestarts
  /\ restarts' = restarts + 1
  /\ Renew
  /\ stage' = [r \in Request |-> IF stage[r] = "new" THEN "new" ELSE "lost"]
  /\ ask' = [r \in Request |-> NoAsk]
  /\ judged' = [r \in Request |-> NotJudged]
  /\ won' = [r \in Request |-> 0]
  /\ UNCHANGED behind

----------------------------------------------------------------------------

Next ==
  \/ \E r \in Request :
       \/ Receive(r) \/ Verify(r) \/ Judge(r) \/ ReadStoreClock(r) \/ Reserve(r)
  \/ Sweep
  \/ Tick
  \/ SetWallBack
  \/ Restart

Spec == Init /\ [][Next]_vars

----------------------------------------------------------------------------
(* Properties.  Requests that a restart cut off or answered before are     *)
(* "lost": each property speaks of one incarnation of the process.         *)

\* r was let through with the capability token t.
Admitted(r, t) == stage[r] = "admitted" /\ ask[r].token = t

\* The strongest statement of single use that this code meets, at any stall,
\* setback and sweep: when two requests were let through with one token, the
\* token had expired by the time the later reservation was recorded, although
\* that request had read the clock before the expiry (lines 509 and 531).
SecondAdmissionStraddlesExpiry ==
  \A t \in Token : \A r1, r2 \in Request :
    r1 # r2 /\ Admitted(r1, t) /\ Admitted(r2, t) =>
      \E r \in {r1, r2} : judged[r].wall < Deadline(t) /\ Deadline(t) <= won[r]

\* One token lets one request through: what service_test.go 582-583 expects.
SingleUse ==
  \A t \in Token : \A r1, r2 \in Request :
    Admitted(r1, t) /\ Admitted(r2, t) => r1 = r2

\* The leeway of the clock skew never lengthens a token's life: VerifyTime lets
\* a token pass up to Skew seconds after its expiry, but then nothing is left
\* to reserve; before not_before the leeway stands (token.go 225-241, 279-288).
LeewayEndsAtExpiry ==
  \A t \in Token, r \in Request :
    Admitted(r, t) =>
      /\ judged[r].wall < Deadline(t)
      /\ Second(judged[r].wall) + Skew >= NotBefore[t]

\* Only a request that passed every check uses its token up: whatever line
\* refuses a request before Reserve, its token stays good for another one.
OnlyFlawlessRequestsReserve ==
  \A t \in Token :
    used[t] # Absent =>
      \E r \in Request : Admitted(r, t) /\ ask[r].faults = {}

\* No false alarm: a request is refused as a replay only when another request
\* was let through with the same token.
ReplayHasAWinner ==
  \A r \in Request :
    stage[r] = "replayed" =>
      \E w \in Request : w # r /\ Admitted(w, ask[r].token)
=============================================================================
