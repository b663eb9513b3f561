-------------------------- MODULE Resolver_proofs --------------------------
(***************************************************************************)
(* Proofs about Resolver: type correctness, how far single use of a token  *)
(* goes, and what consumes a token; before them those about ReplayStore.   *)
(***************************************************************************)
EXTENDS Resolver, TLAPS

----------------------------------------------------------------------------
(* The store *)

\* A call inside Reserve works on a real token with a lifetime.
CallsHaveLifetime ==
  \A c \in Request :
    call[c].status \in {"entered", "stamped"} =>
      call[c].token \in Token /\ call[c].ttl > 0

\* Nobody acts on a time that has not come yet.
ReadingsArePast ==
  /\ \A c \in Request : call[c].stamp <= now
  /\ sweep.at <= now

StoreInv == StoreTypeOK /\ CallsHaveLifetime /\ ReadingsArePast

LEMMA OutsideType ==
  ASSUME NEW answer \in Status
  PROVE  /\ Outside(answer) \in
              [status : Status, token : Token \cup {NoToken}, ttl : Nat, stamp : Nat]
         /\ Outside(answer).status = answer
         /\ Outside(answer).stamp = 0
  BY DEF Outside

\* The inductive invariant holds initially and after every step of the store.
LEMMA StoreInvInit == StoreInit => StoreInv
  <1> SUFFICES ASSUME StoreInit PROVE StoreInv
    OBVIOUS
  <1> USE DEF StoreInit, StoreInv
  <1>1. StoreTypeOK
    BY StoreAssumption, OutsideType DEF Shard, StoreTypeOK, Status, Absent
  <1>2. CallsHaveLifetime
    BY DEF CallsHaveLifetime, Outside
  <1>3. ReadingsArePast
    BY DEF ReadingsArePast, Outside
  <1> QED
    BY <1>1, <1>2, <1>3

LEMMA EnterKeepsInv ==
  ASSUME StoreInv, NEW c \in Request, NEW t \in Token, NEW ttl \in Nat,
         Enter(c, t, ttl)
  PROVE  StoreInv'
  <1> DEFINE new == IF NoLifetime(ttl) THEN Outside("refused")
                    ELSE [status |-> "entered", token |-> t, ttl |-> ttl, stamp |-> 0]
  <1>1. new \in [status : Status, token : Token \cup {NoToken}, ttl : Nat, stamp : Nat]
    BY OutsideType DEF Status
  <1>2. /\ call' = [call EXCEPT ![c] = new]
        /\ UNCHANGED <<now, used, sweep>>
    BY DEF Enter
  <1>3. StoreTypeOK'
    BY <1>1, <1>2 DEF StoreInv, StoreTypeOK
  <1>4. new.status \in {"entered", "stamped"} => new.token \in Token /\ new.ttl > 0
    BY DEF Outside, NoLifetime
  <1>5. CallsHaveLifetime'
    BY <1>2, <1>4 DEF StoreInv, StoreTypeOK, CallsHaveLifetime
  <1>6. new.stamp = 0
    BY DEF Outside
  <1>7. ReadingsArePast'
    BY <1>2, <1>6 DEF StoreInv, StoreTypeOK, ReadingsArePast
  <1> QED
    BY <1>3, <1>5, <1>7 DEF StoreInv

LEMMA ReadClockKeepsInv ==
  ASSUME StoreInv, NEW c \in Request, ReadClock(c)
  PROVE  StoreInv'
  <1> USE DEF StoreInv, StoreTypeOK, ReadClock
  <1>1. StoreTypeOK'
    BY DEF Status
  <1>2. CallsHaveLifetime'
    BY DEF CallsHaveLifetime
  <1>3. ReadingsArePast'
    BY DEF ReadingsArePast
  <1> QED
    BY <1>1, <1>2, <1>3

\* What the locked part of Reserve does: the answer, and on success an expiry
\* later than the time of the reading.
LEMMA CommitEffect ==
  ASSUME StoreInv, NEW c \in Request, Commit(c)
  PROVE  /\ UNCHANGED <<now, sweep>>
         /\ call[c].token \in Token /\ Expiry(c) \in Nat \ {Absent}
         /\ \/ call' = [call EXCEPT ![c] = Outside("refused")] /\ UNCHANGED used
            \/ /\ call' = [call EXCEPT ![c] = Outside("reserved")]
               /\ used[call[c].token] <= now
               /\ used' = [used EXCEPT ![call[c].token] = Expiry(c)]
  BY DEF StoreInv, StoreTypeOK, CallsHaveLifetime, ReadingsArePast, Commit, LiveAt,
         Expiry, Absent

LEMMA CommitKeepsInv ==
  ASSUME StoreInv, NEW c \in Request, Commit(c)
  PROVE  StoreInv'
  <1>1. PICK answer \in {"reserved", "refused"} :
          call' = [call EXCEPT ![c] = Outside(answer)]
    BY CommitEffect
  <1>2. StoreTypeOK'
    <2>1. call' \in [Request ->
            [status : Status, token : Token \cup {NoToken}, ttl : Nat, stamp : Nat]]
      BY <1>1, OutsideType DEF StoreInv, StoreTypeOK, Status
    <2>2. used' \in [Token -> Nat]
      BY CommitEffect DEF StoreInv, StoreTypeOK
    <2> QED
      BY <2>1, <2>2, CommitEffect DEF StoreInv, StoreTypeOK
  <1>3. CallsHaveLifetime'
    BY <1>1 DEF StoreInv, StoreTypeOK, CallsHaveLifetime, Outside
  <1>4. ReadingsArePast'
    <2>1. Outside(answer).stamp = 0 /\ UNCHANGED <<now, sweep>>
      BY OutsideType, CommitEffect DEF Status
    <2> QED
      BY <1>1, <2>1 DEF StoreInv, StoreTypeOK, ReadingsArePast
  <1> QED
    BY <1>2, <1>3, <1>4 DEF StoreInv

LEMMA SweeperKeepsInv ==
  ASSUME StoreInv, Sweeper
  PROVE  StoreInv'
  <1> USE DEF StoreInv, StoreTypeOK, Sweeper, SweepBegin, SweepShard, SweepEnd
  <1>1. StoreTypeOK'
    BY StoreAssumption DEF Shard, Absent
  <1>2. CallsHaveLifetime'
    BY DEF CallsHaveLifetime
  <1>3. ReadingsArePast'
    BY DEF ReadingsArePast
  <1> QED
    BY <1>1, <1>2, <1>3

LEMMA StoreTickKeepsInv ==
  ASSUME StoreInv, StoreTick
  PROVE  StoreInv'
  BY DEF StoreInv, StoreTypeOK, CallsHaveLifetime, ReadingsArePast, StoreTick

LEMMA StoreInvStep == StoreInv /\ [StoreNext]_storeVars => StoreInv'
  <1> SUFFICES ASSUME StoreInv, [StoreNext]_storeVars PROVE StoreInv'
    OBVIOUS
  <1>1. ASSUME NEW c \in Request, NEW t \in Token, NEW ttl \in 0 .. MaxTime, Enter(c, t, ttl)
        PROVE  StoreInv'
    BY <1>1, EnterKeepsInv, StoreAssumption
  <1>2. ASSUME NEW c \in Request, ReadClock(c) PROVE StoreInv'
    BY <1>2, ReadClockKeepsInv
  <1>3. ASSUME NEW c \in Request, Commit(c) PROVE StoreInv'
    BY <1>3, CommitKeepsInv
  <1>4. CASE Sweeper
    BY <1>4, SweeperKeepsInv
  <1>5. CASE StoreTick
    BY <1>5, StoreTickKeepsInv
  <1>6. CASE UNCHANGED storeVars
    BY <1>6 DEF storeVars, StoreInv, StoreTypeOK, CallsHaveLifetime, ReadingsArePast
  <1> QED
    BY <1>1, <1>2, <1>3, <1>4, <1>5, <1>6 DEF StoreNext

\* Type correctness of the store: in particular the sweeper never indexes a
\* shard that does not exist (replay.go 93-94).
THEOREM StoreIsTyped == StoreSpec => []StoreTypeOK
  <1>1. StoreInv => StoreTypeOK
    BY DEF StoreInv
  <1> QED
    BY <1>1, StoreInvInit, StoreInvStep, PTL DEF StoreSpec

----------------------------------------------------------------------------

\* Each step of the store is a step of ReplayGuard or leaves it alone.
LEMMA StoreSimulatesGuard ==
  StoreInv /\ [StoreNext]_storeVars => [Guard!Next]_(Guard!guardVars)
  <1> SUFFICES ASSUME StoreInv, [StoreNext]_storeVars
               PROVE  Guard!Next \/ UNCHANGED <<now, used>>
    BY DEF Guard!guardVars
  <1>1. ASSUME NEW c \in Request, NEW t \in Token, NEW ttl \in 0 .. MaxTime, Enter(c, t, ttl)
        PROVE  UNCHANGED <<now, used>>
    BY <1>1 DEF Enter
  <1>2. ASSUME NEW c \in Request, ReadClock(c)
        PROVE  UNCHANGED <<now, used>>
    BY <1>2 DEF ReadClock
  <1>3. ASSUME NEW c \in Request, Commit(c)
        PROVE  Guard!Next \/ UNCHANGED <<now, used>>
    <2> DEFINE t == call[c].token
    <2>1. CASE UNCHANGED used
      BY <1>3, <2>1, CommitEffect
    <2>2. CASE used[t] <= now /\ used' = [used EXCEPT ![t] = Expiry(c)]
      <3>1. /\ t \in Token /\ Expiry(c) \in Nat \ {Absent}
            /\ UNCHANGED now
        BY <1>3, CommitEffect
      <3>2. used'[t] = Expiry(c)
        BY <2>2, <3>1 DEF StoreInv, StoreTypeOK
      <3>3. ~ Guard!Held(t)
        BY <2>2, <3>1 DEF StoreInv, StoreTypeOK, Guard!Held
      <3>4. Guard!Grant(t)
        BY <2>2, <3>1, <3>2, <3>3 DEF Guard!Grant
      <3> QED
        BY <3>1, <3>4 DEF Guard!Next
    <2> QED
      BY <1>3, <2>1, <2>2, CommitEffect
  <1>4. CASE SweepBegin
    BY <1>4 DEF SweepBegin
  <1>5. CASE SweepShard
    <2> DEFINE T == {t \in Token : ShardOf[t] = sweep.next /\ Lapsed(t, sweep.at)}
    <2>1. \A t \in T : ~ Guard!Held(t)
      BY DEF StoreInv, StoreTypeOK, ReadingsArePast, Lapsed, Guard!Held
    <2>2. /\ used' = [t \in Token |-> IF t \in T THEN Absent ELSE used[t]]
          /\ UNCHANGED now
      BY <1>5 DEF SweepShard
    <2>3. Guard!Forget(T)
      BY <2>1, <2>2 DEF Guard!Forget
    <2>4. T \in SUBSET Token
      OBVIOUS
    <2> HIDE DEF T
    <2> QED
      BY <2>3, <2>4 DEF Guard!Next
  <1>6. CASE StoreTick
    BY <1>6 DEF StoreTick, Guard!Next, Guard!Elapse
  <1>7. CASE UNCHANGED storeVars
    BY <1>7 DEF storeVars
  <1> QED
    BY <1>1, <1>2, <1>3, <1>4, <1>5, <1>6, <1>7 DEF StoreNext, Sweeper

\* The store keeps ReplayGuard's promise for any number of callers, tokens and
\* shards: a reservation is replaced or dropped only after it has expired.
THEOREM StoreImplementsGuard == StoreSpec => GuardSpec
  <1>1. StoreInit => Guard!Init
    BY DEF StoreInit, Guard!Init
  <1> QED
    BY <1>1, StoreInvInit, StoreInvStep, StoreSimulatesGuard, PTL
       DEF StoreSpec, GuardSpec, Guard!Spec

----------------------------------------------------------------------------

LEMMA DeadlineIsNat == \A t \in Token : Deadline(t) \in Nat
  BY ResolverAssumption DEF Deadline

----------------------------------------------------------------------------
(* The inductive invariant *)

LocalTypeOK ==
  /\ behind \in 0 .. MaxSetback
  /\ restarts \in 0 .. MaxRestarts
  /\ stage \in [Request -> Stage]
  /\ ask \in [Request -> Ask]
  /\ judged \in [Request -> [time : Nat, wall : Int]]
  /\ won \in [Request -> Nat]

\* A request whose token, but not what it allows, has been checked.
Verified(r) ==
  ask[r].token \in Token /\ Passes(r, RequestChecks \cup TokenChecks)

\* A request that passed every check when its goroutine read the clock.
Judged(r) ==
  LET t == ask[r].token IN
  /\ t \in Token
  /\ ask[r].faults = {}
  /\ judged[r].wall < Deadline(t)
  /\ Second(judged[r].wall) + Skew >= NotBefore[t]
  /\ judged[r].wall <= judged[r].time
  /\ judged[r].time <= judged[r].wall + MaxSetback
  /\ judged[r].time <= now

\* Its call of Reserve carries the lifetime left at that reading.
Reserving(r) ==
  /\ Judged(r)
  /\ now <= judged[r].time + MaxStall
  /\ call[r].token = ask[r].token
  /\ call[r].ttl = Deadline(ask[r].token) - judged[r].wall
  /\ call[r].status = "stamped" => judged[r].time <= call[r].stamp

\* Once a token has been used, either its reservation covers the whole lifetime
\* or the lifetime is over.
Settled(t) == used[t] >= Deadline(t) \/ now >= Deadline(t)

RequestInv ==
  \A r \in Request :
    /\ call[r].status \in {"entered", "stamped"} => stage[r] = "reserving"
    /\ stage[r] = "verified" => Verified(r)
    /\ stage[r] = "reserving" => Reserving(r)
    /\ stage[r] = "admitted" /\ ask[r].token # NoToken =>
         /\ Judged(r)
         /\ won[r] <= judged[r].time + MaxStall
         /\ Settled(ask[r].token)

\* A reservation never ends before the token does.
ReservationsCover ==
  \A t \in Token : used[t] = Absent \/ used[t] >= Deadline(t)

Inv ==
  /\ StoreInv
  /\ LocalTypeOK
  /\ RequestInv
  /\ ReservationsCover
  /\ SecondAdmissionStraddlesExpiry
  /\ OnlyFlawlessRequestsReserve
  /\ ReplayHasAWinner

LEMMA InvInit == Init => Inv
  <1> SUFFICES ASSUME Init PROVE Inv
    OBVIOUS
  <1>1. StoreInv
    BY StoreInvInit DEF Init
  <1>2. NoAsk \in Ask
    BY ResolverAssumption DEF NoAsk, Ask
  <1>3. LocalTypeOK
    BY <1>2, ResolverAssumption DEF Init, LocalTypeOK, Stage, NotJudged
  <1>4. \A r \in Request : stage[r] = "new" /\ call[r].status = "idle"
    BY DEF Init, StoreInit, Outside
  <1>5. \A t \in Token : used[t] = Absent
    BY DEF Init, StoreInit
  <1> QED
    BY <1>1, <1>3, <1>4, <1>5
       DEF Inv, RequestInv, ReservationsCover, SecondAdmissionStraddlesExpiry,
           OnlyFlawlessRequestsReserve, ReplayHasAWinner, Admitted

----------------------------------------------------------------------------
(* Steps that leave the store alone *)

\* The part of the invariant about the store survives any step that leaves it.
LEMMA StoreUnchanged ==
  ASSUME StoreInv, UNCHANGED storeVars
  PROVE  StoreInv'
  BY DEF storeVars, StoreInv, StoreTypeOK, CallsHaveLifetime, ReadingsArePast

\* Nobody is let through with a token and nobody is refused as a replay.
NoVerdict ==
  /\ \A q \in Request, t \in Token : Admitted(q, t)' <=> Admitted(q, t)
  /\ \A q \in Request :
       stage[q] = "admitted" =>
         /\ stage'[q] = "admitted" /\ ask'[q] = ask[q]
         /\ judged'[q] = judged[q] /\ won'[q] = won[q]
  /\ \A q \in Request :
       stage'[q] = "replayed" => stage[q] = "replayed" /\ ask'[q] = ask[q]
  /\ \A t \in Token : used'[t] # Absent => used[t] # Absent

LEMMA NoVerdictKeepsProperties ==
  ASSUME Inv, NoVerdict
  PROVE  /\ SecondAdmissionStraddlesExpiry'
         /\ OnlyFlawlessRequestsReserve'
         /\ ReplayHasAWinner'
  <1> USE DEF Inv, NoVerdict
  <1>1. SecondAdmissionStraddlesExpiry'
    BY DEF SecondAdmissionStraddlesExpiry, Admitted, Deadline
  <1>2. OnlyFlawlessRequestsReserve'
    BY DEF OnlyFlawlessRequestsReserve, Admitted
  <1>3. ReplayHasAWinner'
    <2> SUFFICES ASSUME NEW q \in Request, stage'[q] = "replayed"
                 PROVE  \E w \in Request :
                          /\ w # q /\ stage'[w] = "admitted"
                          /\ ask'[w].token = ask'[q].token
      BY DEF ReplayHasAWinner, Admitted
    <2>1. PICK w \in Request : w # q /\ Admitted(w, ask[q].token)
      BY DEF ReplayHasAWinner
    <2> QED
      BY <2>1 DEF Admitted
  <1> QED
    BY <1>1, <1>2, <1>3

LEMMA ReceiveKeepsInv ==
  ASSUME Inv, NEW r \in Request, Receive(r)
  PROVE  Inv'
  <1> USE DEF Inv, Receive, Move, storeVars
  <1>1. StoreInv'
    BY StoreUnchanged
  <1>2. LocalTypeOK'
    BY DEF LocalTypeOK, Stage
  <1>3. /\ stage[r] = "new" /\ stage'[r] = "received"
        /\ \A q \in Request \ {r} : stage'[q] = stage[q] /\ ask'[q] = ask[q]
    BY DEF LocalTypeOK
  <1>4. RequestInv'
    BY <1>3 DEF RequestInv, Verified, Reserving, Judged, Settled, Passes, Deadline,
                Second
  <1>5. ReservationsCover'
    BY DEF ReservationsCover, Deadline
  <1>6. NoVerdict
    BY <1>3 DEF NoVerdict, Admitted
  <1> QED
    BY <1>1, <1>2, <1>4, <1>5, <1>6, NoVerdictKeepsProperties

\* Verify lets a request through only without a token.
LEMMA VerifyKeepsInv ==
  ASSUME Inv, NEW r \in Request, Verify(r)
  PROVE  Inv'
  <1> USE DEF Inv, storeVars
  <1> DEFINE verdict ==
        IF ~ Passes(r, RequestChecks) THEN "rejected"
        ELSE IF ask[r].token = NoToken
          THEN IF Passes(r, AbsenceChecks) THEN "admitted" ELSE "rejected"
        ELSE IF Passes(r, TokenChecks) THEN "verified" ELSE "rejected"
  <1>1. /\ stage[r] = "received" /\ stage' = [stage EXCEPT ![r] = verdict]
        /\ UNCHANGED <<storeVars, behind, restarts, ask, judged, won>>
    BY DEF Verify, Move
  <1>2. /\ verdict \in {"rejected", "admitted", "verified"}
        /\ verdict = "admitted" => ask[r].token = NoToken
        /\ verdict = "verified" => Verified(r)
    BY DEF LocalTypeOK, Ask, Verified, Passes
  <1> HIDE DEF verdict
  <1>3. stage'[r] = verdict /\ \A q \in Request \ {r} : stage'[q] = stage[q]
    BY <1>1 DEF LocalTypeOK
  <1>4. StoreInv'
    BY <1>1, StoreUnchanged
  <1>5. LocalTypeOK'
    BY <1>1, <1>2 DEF LocalTypeOK, Stage
  <1>6. RequestInv'
    BY <1>1, <1>2, <1>3
       DEF RequestInv, Verified, Reserving, Judged, Settled, Passes, Deadline, Second
  <1>7. ReservationsCover'
    BY <1>1 DEF ReservationsCover, Deadline
  <1>8. NoVerdict
    BY <1>1, <1>2, <1>3, StoreAssumption, ResolverAssumption DEF NoVerdict, Admitted
  <1> QED
    BY <1>4, <1>5, <1>6, <1>7, <1>8, NoVerdictKeepsProperties

LEMMA SetWallBackKeepsInv ==
  ASSUME Inv, SetWallBack
  PROVE  Inv'
  <1> USE DEF Inv, SetWallBack, storeVars
  <1>1. StoreInv'
    BY StoreUnchanged
  <1>2. LocalTypeOK'
    BY ResolverAssumption DEF LocalTypeOK
  <1>3. RequestInv'
    BY DEF RequestInv, Verified, Reserving, Judged, Settled, Passes, Deadline, Second
  <1>4. ReservationsCover'
    BY DEF ReservationsCover, Deadline
  <1>5. NoVerdict
    BY DEF NoVerdict, Admitted
  <1> QED
    BY <1>1, <1>2, <1>3, <1>4, <1>5, NoVerdictKeepsProperties

----------------------------------------------------------------------------
(* Steps of the store and steps that call it *)

LEMMA JudgeKeepsInv ==
  ASSUME Inv, NEW r \in Request, Judge(r)
  PROVE  Inv'
  <1> DEFINE t == ask[r].token
  <1>1. /\ stage[r] = "verified" /\ Verified(r) /\ t \in Token
        /\ UNCHANGED <<behind, restarts, ask, won>>
    BY DEF Inv, RequestInv, Judge, Verified
  <1>2. CASE ~ (InWindow(t, wall) /\ ClaimsHold(r))
    <2>1. /\ stage' = [stage EXCEPT ![r] = "rejected"]
          /\ UNCHANGED <<storeVars, judged>>
      BY <1>2 DEF Judge, Move
    <2>2. stage'[r] = "rejected" /\ \A q \in Request \ {r} : stage'[q] = stage[q]
      BY <2>1 DEF Inv, LocalTypeOK
    <2>3. StoreInv'
      BY <2>1, StoreUnchanged DEF Inv
    <2>4. LocalTypeOK'
      BY <1>1, <2>1 DEF Inv, LocalTypeOK, Stage
    <2>5. RequestInv'
      BY <1>1, <2>1, <2>2
         DEF Inv, RequestInv, Verified, Reserving, Judged, Settled, Passes, Deadline,
             Second, storeVars
    <2>6. ReservationsCover'
      BY <2>1 DEF Inv, ReservationsCover, Deadline, storeVars
    <2>7. NoVerdict
      BY <1>1, <2>1, <2>2 DEF NoVerdict, Admitted, storeVars
    <2> QED
      BY <2>3, <2>4, <2>5, <2>6, <2>7, NoVerdictKeepsProperties DEF Inv
  <1>3. CASE InWindow(t, wall) /\ ClaimsHold(r)
    <2> DEFINE ttl == Remaining(t, wall)
    <2>1. /\ Enter(r, t, ttl)
          /\ judged' = [judged EXCEPT ![r] = [time |-> now, wall |-> wall]]
          /\ stage' = [stage EXCEPT ![r] =
                         IF call'[r].status = "entered" THEN "reserving" ELSE "rejected"]
          /\ UNCHANGED <<now, used, sweep>>
      BY <1>3 DEF Judge, Move, Enter
    <2>2. /\ now \in Nat /\ wall \in Int /\ wall <= now /\ now <= wall + MaxSetback
          /\ ttl \in Nat /\ (ttl > 0 => ttl = Deadline(t) - wall /\ wall < Deadline(t))
      BY <1>1, DeadlineIsNat, ResolverAssumption
         DEF Inv, LocalTypeOK, StoreInv, StoreTypeOK, wall, Remaining
    <2>3. ask[r].faults = {} /\ Second(wall) + Skew >= NotBefore[t]
      <3>1. ask[r].faults \subseteq RequestChecks \cup TokenChecks \cup ClaimChecks
        BY <1>1, StoreAssumption, ResolverAssumption DEF Inv, LocalTypeOK, Ask
      <3> QED
        BY <1>1, <1>3, <3>1 DEF Verified, ClaimsHold, Passes, InWindow
    <2>4. StoreInv'
      BY <1>1, <2>1, <2>2, EnterKeepsInv DEF Inv
    <2>5. LocalTypeOK'
      BY <1>1, <2>1, <2>2 DEF Inv, LocalTypeOK, Stage
    <2>6. /\ \A q \in Request \ {r} :
               /\ stage'[q] = stage[q] /\ call'[q] = call[q]
               /\ judged'[q] = judged[q]
          /\ judged'[r].time = now /\ judged'[r].wall = wall
      BY <2>1 DEF Inv, LocalTypeOK, Enter
    <2>7. \/ stage'[r] = "rejected" /\ call'[r].status = "refused"
          \/ /\ stage'[r] = "reserving" /\ call'[r].status = "entered"
             /\ call'[r].token = t /\ call'[r].ttl = ttl /\ ttl > 0
      BY <2>1, <2>2
         DEF Inv, LocalTypeOK, StoreInv, StoreTypeOK, Enter, Outside,
             NoLifetime
    <2> HIDE DEF ttl
    <2>8. stage'[r] = "reserving" => Reserving(r)'
      BY <1>1, <2>1, <2>2, <2>3, <2>6, <2>7, DeadlineIsNat, StoreAssumption, ResolverAssumption
         DEF Reserving, Judged, Deadline, Second
    <2>9. RequestInv'
      <3> SUFFICES ASSUME NEW q \in Request
                   PROVE  RequestInv!(q)'
        BY DEF RequestInv
      <3>1. CASE q = r
        BY <3>1, <2>7, <2>8
      <3>2. CASE q # r
        BY <3>2, <1>1, <2>1, <2>6
           DEF Inv, RequestInv, Verified, Reserving, Judged, Settled, Passes, Deadline,
               Second
      <3> QED
        BY <3>1, <3>2
    <2>10. ReservationsCover'
      BY <2>1 DEF Inv, ReservationsCover, Deadline
    <2>11. NoVerdict
      BY <1>1, <2>1, <2>6, <2>7 DEF NoVerdict, Admitted
    <2> QED
      BY <2>4, <2>5, <2>9, <2>10, <2>11, NoVerdictKeepsProperties DEF Inv
  <1> QED
    BY <1>2, <1>3

LEMMA ReadStoreClockKeepsInv ==
  ASSUME Inv, NEW r \in Request, ReadStoreClock(r)
  PROVE  Inv'
  <1>1. /\ call[r].status = "entered"
        /\ call' = [call EXCEPT ![r].status = "stamped", ![r].stamp = now]
        /\ UNCHANGED <<now, used, sweep, behind, restarts, stage, ask, judged, won>>
    BY DEF ReadStoreClock, ReadClock
  <1>2. StoreInv'
    BY ReadClockKeepsInv DEF Inv, ReadStoreClock
  <1>3. LocalTypeOK'
    BY <1>1 DEF Inv, LocalTypeOK
  <1>4. /\ call'[r].stamp = now /\ call'[r].token = call[r].token
        /\ call'[r].ttl = call[r].ttl
        /\ \A q \in Request \ {r} : call'[q] = call[q]
    BY <1>1 DEF Inv, StoreInv, StoreTypeOK
  <1>5. RequestInv'
    <2> SUFFICES ASSUME NEW q \in Request
                 PROVE  RequestInv!(q)'
      BY DEF RequestInv
    <2>1. CASE q = r
      <3>1. stage[r] = "reserving" /\ Reserving(r)
        BY <1>1 DEF Inv, RequestInv
      <3>2. Reserving(r)'
        BY <1>1, <1>4, <3>1 DEF Reserving, Judged, Deadline, Second
      <3> QED
        BY <1>1, <2>1, <3>1, <3>2
    <2>2. CASE q # r
      BY <1>1, <1>4, <2>2
         DEF Inv, RequestInv, Verified, Reserving, Judged, Settled, Passes, Deadline,
             Second
    <2> QED
      BY <2>1, <2>2
  <1>6. ReservationsCover'
    BY <1>1 DEF Inv, ReservationsCover, Deadline
  <1>7. NoVerdict
    BY <1>1 DEF NoVerdict, Admitted
  <1> QED
    BY <1>2, <1>3, <1>5, <1>6, <1>7, NoVerdictKeepsProperties DEF Inv

\* The locked step: refused, or recorded until the token's expiry at least,
\* and then either nobody held the token or its lifetime is over.
LEMMA ReserveEffect ==
  ASSUME Inv, NEW r \in Request, Reserve(r)
  PROVE  LET t == ask[r].token IN
         /\ UNCHANGED <<now, sweep, behind, restarts, ask, judged>>
         /\ stage[r] = "reserving" /\ Reserving(r) /\ t \in Token
         /\ \A q \in Request \ {r} :
              stage'[q] = stage[q] /\ won'[q] = won[q] /\ call'[q] = call[q]
         /\ call'[r].status \in {"reserved", "refused"}
         /\ \A u \in Token \ {t} : used'[u] = used[u]
         /\ \/ /\ stage'[r] = "replayed" /\ won' = won
               /\ used' = used /\ used[t] # Absent
            \/ /\ stage'[r] = "admitted" /\ won'[r] = now
               /\ used'[t] >= Deadline(t) /\ used[t] <= now
  <1> DEFINE t == ask[r].token
  <1>1. /\ call[r].status = "stamped" /\ stage[r] = "reserving" /\ Reserving(r)
        /\ t \in Token /\ call[r].token = t
        /\ UNCHANGED <<now, sweep, behind, restarts, ask, judged>>
    BY DEF Inv, RequestInv, Reserving, Judged, Reserve, Commit
  <1>2. /\ call[r].stamp \in Nat /\ call[r].stamp <= now /\ now \in Nat
        /\ used \in [Token -> Nat]
        /\ judged[r].wall \in Int /\ judged[r].time \in Nat /\ Deadline(t) \in Nat
        /\ call \in [Request -> [status : Status, token : Token \cup {NoToken},
                                 ttl : Nat, stamp : Nat]]
        /\ stage \in [Request -> Stage] /\ won \in [Request -> Nat]
    BY <1>1, DeadlineIsNat
       DEF Inv, LocalTypeOK, StoreInv, StoreTypeOK, ReadingsArePast
  <1>3. Expiry(r) >= Deadline(t)
    BY <1>1, <1>2 DEF Expiry, Reserving, Judged
  <1>4. CASE LiveAt(t, call[r].stamp)
    <2>1. /\ call' = [call EXCEPT ![r] = Outside("refused")]
          /\ used' = used
      BY <1>1, <1>4 DEF Reserve, Commit
    <2>2. call'[r].status = "refused"
      BY <1>2, <2>1 DEF Outside
    <2>3. /\ stage' = [stage EXCEPT ![r] = "replayed"] /\ won' = won
      BY <2>2 DEF Reserve, Move
    <2>4. used[t] # Absent
      BY <1>1, <1>2, <1>4 DEF LiveAt, Absent
    <2> QED
      BY <1>1, <1>2, <2>1, <2>2, <2>3, <2>4
  <1>5. CASE ~ LiveAt(t, call[r].stamp)
    <2>1. /\ call' = [call EXCEPT ![r] = Outside("reserved")]
          /\ used' = [used EXCEPT ![t] = Expiry(r)]
      BY <1>1, <1>5 DEF Reserve, Commit
    <2>2. call'[r].status = "reserved"
      BY <1>2, <2>1 DEF Outside
    <2>3. /\ stage' = [stage EXCEPT ![r] = "admitted"]
          /\ won' = [won EXCEPT ![r] = now]
      BY <2>2 DEF Reserve, Move
    <2>4. used[t] <= now
      BY <1>1, <1>2, <1>5 DEF LiveAt
    <2> QED
      BY <1>1, <1>2, <1>3, <2>1, <2>2, <2>3, <2>4
  <1> QED
    BY <1>4, <1>5

LEMMA ReserveKeepsInv ==
  ASSUME Inv, NEW r \in Request, Reserve(r)
  PROVE  Inv'
  <1> DEFINE t == ask[r].token
  <1>1. StoreInv'
    BY CommitKeepsInv DEF Inv, Reserve
  <1>2. LocalTypeOK'
    <2>1. /\ stage' \in [Request -> Stage]
      BY DEF Inv, LocalTypeOK, Reserve, Move, Stage
    <2>2. won' \in [Request -> Nat]
      BY DEF Inv, LocalTypeOK, Reserve, StoreInv, StoreTypeOK
    <2> QED
      BY <2>1, <2>2 DEF Inv, LocalTypeOK, Reserve
  <1>3. /\ now \in Nat /\ used \in [Token -> Nat] /\ used' \in [Token -> Nat]
        /\ won'[r] \in Nat
    BY <1>1, <1>2 DEF Inv, StoreInv, StoreTypeOK, LocalTypeOK
  <1>4. ReservationsCover'
    BY ReserveEffect DEF Inv, ReservationsCover, Deadline
  <1>5. \A u \in Token : Settled(u) => Settled(u)'
    BY <1>3, ReserveEffect, DeadlineIsNat DEF Settled, Deadline
  <1>6. RequestInv'
    <2> SUFFICES ASSUME NEW q \in Request
                 PROVE  RequestInv!(q)'
      BY DEF RequestInv
    <2>1. CASE q = r
      <3>1. Judged(r)' /\ (stage'[r] = "admitted" => Settled(t)')
        BY ReserveEffect DEF Reserving, Judged, Settled, Deadline, Second
      <3>2. stage'[r] = "admitted" => won'[r] <= judged'[r].time + MaxStall
        BY ReserveEffect DEF Reserving
      <3> QED
        BY <2>1, <3>1, <3>2, ReserveEffect DEF Settled, Deadline
    <2>2. CASE q # r
      <3>1. /\ stage'[q] = stage[q] /\ call'[q] = call[q] /\ won'[q] = won[q]
            /\ ask' = ask /\ judged' = judged /\ now' = now
        BY <2>2, ReserveEffect
      <3>2. Judged(q) => Judged(q)'
        BY <3>1 DEF Judged, Deadline, Second
      <3>3. stage'[q] = "reserving" => Reserving(q)'
        BY <3>1, <3>2 DEF Inv, RequestInv, Reserving, Deadline
      <3>4. stage'[q] = "verified" => Verified(q)'
        BY <3>1 DEF Inv, RequestInv, Verified, Passes
      <3>5. ASSUME stage[q] = "admitted", ask[q].token # NoToken
            PROVE  /\ Judged(q)'
                   /\ (won[q] <= judged[q].time + MaxStall)'
                   /\ Settled(ask[q].token)'
        <4>1. /\ Judged(q) /\ won[q] <= judged[q].time + MaxStall
              /\ Settled(ask[q].token)
          BY <3>5 DEF Inv, RequestInv
        <4>2. ask[q].token \in Token
          BY <4>1 DEF Judged
        <4>3. Settled(ask[q].token)'
          BY <1>5, <3>1, <4>1, <4>2 DEF Settled, Deadline
        <4> QED
          BY <3>1, <3>2, <4>1, <4>3
      <3>6. call'[q].status \in {"entered", "stamped"} => stage'[q] = "reserving"
        BY <3>1 DEF Inv, RequestInv
      <3> QED
        BY <3>1, <3>3, <3>4, <3>5, <3>6
    <2> QED
      BY <2>1, <2>2
  <1>7. SecondAdmissionStraddlesExpiry'
    <2> SUFFICES ASSUME NEW u \in Token, NEW r1 \in Request, NEW r2 \in Request,
                        r1 # r2, Admitted(r1, u)', Admitted(r2, u)'
                 PROVE  \E q \in {r1, r2} :
                          judged'[q].wall < Deadline(u) /\ Deadline(u) <= won'[q]
      BY DEF SecondAdmissionStraddlesExpiry, Deadline
    <2>1. \A q \in Request \ {r} : Admitted(q, u)' => Admitted(q, u)
      BY ReserveEffect DEF Admitted
    <2>2. \A q \in Request : judged'[q] = judged[q]
      BY ReserveEffect
    <2>3. CASE r \notin {r1, r2}
      BY <2>1, <2>2, <2>3, ReserveEffect DEF Inv, SecondAdmissionStraddlesExpiry
    <2>4. ASSUME NEW q \in Request \ {r}, Admitted(q, u), Admitted(r, u)'
          PROVE  judged'[r].wall < Deadline(u) /\ Deadline(u) <= won'[r]
      <3>1. u = t /\ stage'[r] = "admitted" /\ won'[r] = now /\ used[t] <= now
        BY <2>4, ReserveEffect DEF Admitted
      <3>2. Settled(t)
        BY <2>4, <3>1, StoreAssumption, ResolverAssumption DEF Admitted, Inv, RequestInv
      <3>3. Deadline(t) <= now
        BY <1>3, <3>1, <3>2, DeadlineIsNat DEF Settled
      <3>4. judged[r].wall < Deadline(t)
        BY ReserveEffect DEF Reserving, Judged
      <3> QED
        BY <2>2, <3>1, <3>3, <3>4
    <2> QED
      BY <2>1, <2>3, <2>4
  <1>8. ASSUME NEW w \in Request \ {r}, NEW u \in Token, Admitted(w, u)
        PROVE  Admitted(w, u)'
    BY <1>8, ReserveEffect DEF Admitted
  <1>9. OnlyFlawlessRequestsReserve'
    <2> SUFFICES ASSUME NEW u \in Token, used'[u] # Absent
                 PROVE  \E q \in Request : Admitted(q, u)' /\ ask'[q].faults = {}
      BY DEF OnlyFlawlessRequestsReserve
    <2>1. CASE used[u] # Absent
      <3>1. PICK q \in Request : Admitted(q, u) /\ ask[q].faults = {}
        BY <2>1 DEF Inv, OnlyFlawlessRequestsReserve
      <3>2. q # r
        BY <3>1, ReserveEffect DEF Admitted
      <3> QED
        BY <1>8, <3>1, <3>2, ReserveEffect
    <2>2. CASE used[u] = Absent
      BY <2>2, ReserveEffect DEF Admitted, Reserving, Judged
    <2> QED
      BY <2>1, <2>2
  <1>10. ReplayHasAWinner'
    <2> SUFFICES ASSUME NEW q \in Request, stage'[q] = "replayed"
                 PROVE  \E w \in Request : w # q /\ Admitted(w, ask[q].token)'
      BY ReserveEffect DEF ReplayHasAWinner, Admitted
    <2>1. CASE q = r
      <3>1. used[t] # Absent
        BY <2>1, ReserveEffect
      <3>2. PICK w \in Request : Admitted(w, t)
        BY <3>1, ReserveEffect DEF Inv, OnlyFlawlessRequestsReserve
      <3>3. w # r
        BY <3>2, ReserveEffect DEF Admitted
      <3> QED
        BY <1>8, <2>1, <3>2, <3>3, ReserveEffect
    <2>2. CASE q # r
      <3>1. PICK w \in Request : w # q /\ Admitted(w, ask[q].token)
        BY <2>2, ReserveEffect DEF Inv, ReplayHasAWinner
      <3>2. w # r
        BY <3>1, ReserveEffect DEF Admitted
      <3> QED
        BY <3>1, <3>2, ReserveEffect DEF Admitted
    <2> QED
      BY <2>1, <2>2
  <1> QED
    BY <1>1, <1>2, <1>4, <1>6, <1>7, <1>9, <1>10 DEF Inv

LEMMA SweepKeepsInv ==
  ASSUME Inv, Sweep
  PROVE  Inv'
  <1>1. StoreInv'
    BY SweeperKeepsInv DEF Inv, Sweep
  <1>2. /\ UNCHANGED <<now, call, behind, restarts, stage, ask, judged, won>>
        /\ \A t \in Token :
             \/ used'[t] = used[t]
             \/ used'[t] = Absent /\ used[t] <= now
    BY DEF Inv, StoreInv, StoreTypeOK, ReadingsArePast, Sweep, Sweeper,
           SweepBegin, SweepShard, Lapsed
  <1>3. LocalTypeOK'
    BY <1>2 DEF Inv, LocalTypeOK
  <1>4. ReservationsCover'
    BY <1>2 DEF Inv, ReservationsCover, Deadline
  <1>5. \A t \in Token : Settled(t) => Settled(t)'
    BY <1>2, DeadlineIsNat DEF Inv, StoreInv, StoreTypeOK, Settled, Deadline
  <1>6. RequestInv'
    BY <1>2, <1>5, ResolverAssumption
       DEF Inv, RequestInv, Verified, Reserving, Judged, Passes, Deadline, Second, Settled
  <1>7. NoVerdict
    BY <1>2 DEF NoVerdict, Admitted
  <1> QED
    BY <1>1, <1>3, <1>4, <1>6, <1>7, NoVerdictKeepsProperties DEF Inv

LEMMA TickKeepsInv ==
  ASSUME Inv, Tick
  PROVE  Inv'
  <1>1. StoreInv'
    BY StoreTickKeepsInv DEF Inv, Tick
  <1>2. /\ UNCHANGED <<used, call, sweep, behind, restarts, stage, ask, judged, won>>
        /\ now \in Nat /\ now' = now + 1
        /\ \A r \in Request : stage[r] = "reserving" => now < judged[r].time + MaxStall
    BY DEF Tick, StoreTick, Inv, StoreInv, StoreTypeOK
  <1>3. LocalTypeOK'
    BY <1>2 DEF Inv, LocalTypeOK
  <1>4. ReservationsCover'
    BY <1>2 DEF Inv, ReservationsCover, Deadline
  <1>5. /\ \A r \in Request : judged[r].time \in Nat /\ MaxStall \in Nat
        /\ \A t \in Token : Deadline(t) \in Nat
    BY DeadlineIsNat, ResolverAssumption DEF Inv, LocalTypeOK
  <1>6. \A t \in Token : Settled(t) => Settled(t)'
    BY <1>2, <1>5 DEF Settled, Deadline
  <1>7. \A r \in Request : Judged(r) => Judged(r)'
    BY <1>2, <1>5 DEF Judged, Deadline, Second
  <1>8. \A r \in Request :
          stage[r] = "reserving" /\ Reserving(r) => Reserving(r)'
    BY <1>2, <1>5, <1>7 DEF Reserving, Deadline
  <1>9. RequestInv'
    <2> SUFFICES ASSUME NEW r \in Request
                 PROVE  RequestInv!(r)'
      BY DEF RequestInv
    <2>1. ASSUME stage[r] = "admitted", ask[r].token # NoToken
          PROVE  /\ Judged(r)'
                 /\ (won[r] <= judged[r].time + MaxStall)'
                 /\ Settled(ask[r].token)'
      <3>1. /\ Judged(r) /\ won[r] <= judged[r].time + MaxStall
            /\ Settled(ask[r].token)
        BY <2>1 DEF Inv, RequestInv
      <3>2. ask[r].token \in Token
        BY <3>1 DEF Judged
      <3>3. Settled(ask[r].token)'
        BY <1>2, <1>6, <3>1, <3>2 DEF Settled, Deadline
      <3> QED
        BY <1>2, <1>7, <3>1, <3>3
    <2>2. stage'[r] = "verified" => Verified(r)'
      BY <1>2 DEF Inv, RequestInv, Verified, Passes
    <2>3. stage'[r] = "reserving" => Reserving(r)'
      BY <1>2, <1>8 DEF Inv, RequestInv
    <2>4. call'[r].status \in {"entered", "stamped"} => stage'[r] = "reserving"
      BY <1>2 DEF Inv, RequestInv
    <2> QED
      BY <1>2, <2>1, <2>2, <2>3, <2>4
  <1>10. NoVerdict
    BY <1>2 DEF NoVerdict, Admitted
  <1> QED
    BY <1>1, <1>3, <1>4, <1>9, <1>10, NoVerdictKeepsProperties DEF Inv

\* After a restart nothing of the store and no request of before is left.
LEMMA RestartKeepsInv ==
  ASSUME Inv, Restart
  PROVE  Inv'
  <1>1. /\ now' = now /\ now \in Nat
        /\ used' = [t \in Token |-> Absent]
        /\ call' = [r \in Request |-> Outside("idle")]
        /\ sweep' = [at |-> 0, next |-> NumShards]
    BY DEF Restart, Renew, Inv, StoreInv, StoreTypeOK
  <1>2. StoreInv'
    <2>1. StoreTypeOK'
      BY <1>1, StoreAssumption, ResolverAssumption
         DEF StoreTypeOK, Status, Absent, Outside
    <2>2. CallsHaveLifetime' /\ ReadingsArePast'
      BY <1>1 DEF CallsHaveLifetime, ReadingsArePast, Outside
    <2> QED
      BY <2>1, <2>2 DEF StoreInv
  <1>3. LocalTypeOK'
    <2>1. NoAsk \in Ask
      BY ResolverAssumption DEF NoAsk, Ask
    <2>2. restarts' \in 0 .. MaxRestarts
      BY ResolverAssumption DEF Inv, LocalTypeOK, Restart
    <2> QED
      BY <2>1, <2>2 DEF Inv, LocalTypeOK, Restart, Stage, NotJudged
  <1>4. \A r \in Request :
          stage'[r] \in {"new", "lost"} /\ call'[r].status = "idle"
    BY <1>1 DEF Restart, Outside
  <1> QED
    BY <1>1, <1>2, <1>3, <1>4
       DEF Inv, RequestInv, ReservationsCover, SecondAdmissionStraddlesExpiry,
           OnlyFlawlessRequestsReserve, ReplayHasAWinner, Admitted

----------------------------------------------------------------------------
(* The theorems *)

LEMMA InvStep == Inv /\ [Next]_vars => Inv'
  <1> SUFFICES ASSUME Inv, [Next]_vars PROVE Inv'
    OBVIOUS
  <1>1. CASE \E r \in Request :
               \/ Receive(r) \/ Verify(r) \/ Judge(r) \/ ReadStoreClock(r) \/ Reserve(r)
    BY <1>1, ReceiveKeepsInv, VerifyKeepsInv, JudgeKeepsInv, ReadStoreClockKeepsInv,
       ReserveKeepsInv
  <1>2. CASE Sweep
    BY <1>2, SweepKeepsInv
  <1>3. CASE Tick
    BY <1>3, TickKeepsInv
  <1>4. CASE SetWallBack
    BY <1>4, SetWallBackKeepsInv
  <1>5. CASE Restart
    BY <1>5, RestartKeepsInv
  <1>6. CASE UNCHANGED vars
    <2> USE <1>6 DEF vars, storeVars
    <2>1. StoreInv'
      BY StoreUnchanged DEF Inv
    <2>2. LocalTypeOK' /\ ReservationsCover'
      BY DEF Inv, LocalTypeOK, ReservationsCover, Deadline
    <2>3. RequestInv'
      BY DEF Inv, RequestInv, Verified, Reserving, Judged, Settled, Passes, Deadline,
             Second
    <2>4. NoVerdict
      BY DEF NoVerdict, Admitted
    <2> QED
      BY <2>1, <2>2, <2>3, <2>4, NoVerdictKeepsProperties DEF Inv
  <1> QED
    BY <1>1, <1>2, <1>3, <1>4, <1>5, <1>6 DEF Next

LEMMA SpecInv == Spec => []Inv
  BY InvInit, InvStep, PTL DEF Spec

\* Every variable of the resolver and of its store keeps its type.
THEOREM ResolverTypeOK == Spec => []TypeOK
  <1>1. Inv => TypeOK
    BY DEF Inv, StoreInv, LocalTypeOK, TypeOK
  <1> QED
    BY <1>1, SpecInv, PTL

\* For any number of requests, tokens and shards, and any stall, setback of the
\* wall clock and sweep: two requests get through with one token only when the
\* later one read the clock before the token's expiry and reserved after it.
THEOREM SecondAdmissionAfterExpiry == Spec => []SecondAdmissionStraddlesExpiry
  BY SpecInv, PTL DEF Inv

\* The clock-skew leeway of VerifyTime lets no token through past its expiry.
THEOREM LeewayNeverAdmits == Spec => []LeewayEndsAtExpiry
  <1>1. Inv => LeewayEndsAtExpiry
    BY StoreAssumption, ResolverAssumption DEF Inv, RequestInv, Judged, LeewayEndsAtExpiry, Admitted
  <1> QED
    BY <1>1, SpecInv, PTL

\* A token is used up only by a request that passed every check and got through.
THEOREM FlawlessOnly == Spec => []OnlyFlawlessRequestsReserve
  BY SpecInv, PTL DEF Inv

\* A request is refused as a replay only when its token let another one through.
THEOREM ReplayIsReal == Spec => []ReplayHasAWinner
  BY SpecInv, PTL DEF Inv

\* Where no tick passes between the two clock readings and the reservation, and
\* the wall clock is never set back, one token lets one request through.
THEOREM SingleUseWithoutStall ==
  ASSUME MaxStall = 0, MaxSetback = 0
  PROVE  Spec => []SingleUse
  <1>1. Inv => SingleUse
    <2> SUFFICES ASSUME Inv, NEW t \in Token, NEW r1 \in Request, NEW r2 \in Request,
                        Admitted(r1, t), Admitted(r2, t), r1 # r2
                 PROVE  FALSE
      BY DEF SingleUse
    <2>1. PICK r \in {r1, r2} : judged[r].wall < Deadline(t) /\ Deadline(t) <= won[r]
      BY DEF Inv, SecondAdmissionStraddlesExpiry
    <2>2. /\ judged[r].time <= judged[r].wall + MaxSetback
          /\ won[r] <= judged[r].time + MaxStall
      BY StoreAssumption, ResolverAssumption DEF Inv, RequestInv, Judged, Admitted
    <2> QED
      BY <2>1, <2>2, DeadlineIsNat DEF Inv, LocalTypeOK
  <1> QED
    BY <1>1, SpecInv, PTL
=============================================================================
