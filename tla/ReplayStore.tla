---------------------------- MODULE ReplayStore ----------------------------
(***************************************************************************)
(* MemoryReplayStore of internal/capability/replay.go: the in-process      *)
(* record of used capability tokens.  Reserve reads the clock (line 67)    *)
(* BEFORE it takes the lock of the token's shard (line 71), so time passes *)
(* and other calls and the sweeper run between the two; the sweeper reads  *)
(* the clock once (line 92) and then locks the shards one after another.   *)
(* What is done under one shard's lock is one action.                      *)
(***************************************************************************)
EXTENDS Integers

CONSTANTS
  Request,    \* the requests, whose goroutines call Reserve
  Token,      \* token identifiers (the caller never passes the empty one)
  NoToken,    \* the argument of a request that has not called yet
  NumShards,  \* replayShardCount
  ShardOf,    \* replayShardIndex: the FNV-1a hash of the identifier
  Sweeping,   \* whether the store was made with a positive sweep interval
  MaxTime     \* bound of the model: the clock stops here, and no lifetime is longer

\* A missing map entry.  Deadlines are at least 1: a stamp plus a positive ttl.
Absent == 0

Shard == 0 .. NumShards - 1

ASSUME StoreAssumption ==
  /\ NoToken \notin Token
  /\ NumShards \in Nat \ {0}
  /\ ShardOf \in [Token -> Shard]
  /\ Sweeping \in BOOLEAN
  /\ MaxTime \in Nat

VARIABLES
  now,    \* the clock
  used,   \* the shards' `used` maps in one: token -> expiry
  call,   \* request -> its call of Reserve: progress, arguments, clock reading
  sweep   \* cleanupLoop: its clock reading and the next shard to lock

storeVars == <<now, used, call, sweep>>

Status == {"idle", "entered", "stamped", "reserved", "refused"}

\* A request outside Reserve: it has not called, or has the answer of its last call.
Outside(answer) ==
  [status |-> answer, token |-> NoToken, ttl |-> 0, stamp |-> 0]

StoreTypeOK ==
  /\ now \in Nat
  /\ used \in [Token -> Nat]
  /\ call \in [Request ->
                [status : Status, token : Token \cup {NoToken},
                 ttl : Nat, stamp : Nat]]
  /\ sweep \in [at : Nat, next : 0 .. NumShards]

StoreInit ==
  /\ now = 0
  /\ used = [t \in Token |-> Absent]
  /\ call = [c \in Request |-> Outside("idle")]
  /\ sweep = [at |-> 0, next |-> NumShards]

\* NewMemoryReplayStore: a fresh store, as after a restart of the process.
Renew ==
  /\ used' = [t \in Token |-> Absent]
  /\ call' = [c \in Request |-> Outside("idle")]
  /\ sweep' = [at |-> 0, next |-> NumShards]
  /\ UNCHANGED now

----------------------------------------------------------------------------
(* Faulty variants of the code, one plausible slip each.  Nothing below    *)
(* uses them: each shows that the properties notice the slip.              *)

\* The reservations are looked up by shard, not by token.
LiveInShard(t, time) == \E u \in Token : ShardOf[u] = ShardOf[t] /\ used[u] > time

\* A ttl of zero is let through.
NoLifetimeBelowZero(ttl) == ttl < 0

\* The sweeper spares no entry that expires within the next tick.
LapsedEarly(t, time) == used[t] <= time + 1

\* The sweeper locks every shard except the last, or one shard too many.
LastShardSkipped == NumShards - 1
ShardPastTheLast == NumShards + 1

----------------------------------------------------------------------------
(* Reserve *)

\* Line 73: the token is recorded and its expiry lies after the caller's time.
LiveAt(t, time) == used[t] > time

\* Line 96: the sweeper drops an entry whose expiry is not after its time.
Lapsed(t, time) == used[t] <= time

\* Line 68.
Expiry(c) == call[c].stamp + call[c].ttl

\* Line 64.
NoLifetime(ttl) == ttl <= 0

\* Lines 57-66: a token without remaining lifetime is refused at once.
Enter(c, t, ttl) ==
  /\ call[c].status \notin {"entered", "stamped"}
  /\ call' = [call EXCEPT ![c] =
                IF NoLifetime(ttl) THEN Outside("refused")
                ELSE [status |-> "entered", token |-> t, ttl |-> ttl, stamp |-> 0]]
  /\ UNCHANGED <<now, used, sweep>>

\* Line 67: the store reads its clock, with no lock held.
ReadClock(c) ==
  /\ call[c].status = "entered"
  /\ call' = [call EXCEPT ![c].status = "stamped", ![c].stamp = now]
  /\ UNCHANGED <<now, used, sweep>>

\* Lines 70-78, under the shard's lock: refuse a live token, else record it.
Commit(c) ==
  LET t == call[c].token IN
  /\ call[c].status = "stamped"
  /\ IF LiveAt(t, call[c].stamp)
       THEN /\ call' = [call EXCEPT ![c] = Outside("refused")]
            /\ UNCHANGED used
       ELSE /\ call' = [call EXCEPT ![c] = Outside("reserved")]
            /\ used' = [used EXCEPT ![t] = Expiry(c)]
  /\ UNCHANGED <<now, sweep>>

----------------------------------------------------------------------------
(* cleanupLoop *)

SweepEnd == NumShards

\* Lines 91-92: the ticker fires and the sweeper reads the clock once.
SweepBegin ==
  /\ Sweeping
  /\ sweep.next >= SweepEnd
  /\ sweep' = [at |-> now, next |-> 0]
  /\ UNCHANGED <<now, used, call>>

\* Lines 93-101: lock the next shard and drop its lapsed entries.
SweepShard ==
  /\ sweep.next < SweepEnd
  /\ used' = [t \in Token |->
               IF ShardOf[t] = sweep.next /\ Lapsed(t, sweep.at)
                 THEN Absent ELSE used[t]]
  /\ sweep' = [sweep EXCEPT !.next = @ + 1]
  /\ UNCHANGED <<now, call>>

Sweeper == SweepBegin \/ SweepShard

StoreTick ==
  /\ now < MaxTime
  /\ now' = now + 1
  /\ UNCHANGED <<used, call, sweep>>

----------------------------------------------------------------------------

StoreNext ==
  \/ \E c \in Request, t \in Token, ttl \in 0 .. MaxTime : Enter(c, t, ttl)
  \/ \E c \in Request : ReadClock(c) \/ Commit(c)
  \/ Sweeper
  \/ StoreTick

\* A running goroutine is scheduled again, and so is the sweeper's; its ticker
\* goes on firing, and sync.Mutex hands the lock to a waiter that starves.
StoreFairness == WF_storeVars(Sweeper)

StoreSpec == StoreInit /\ [][StoreNext]_storeVars

FairStoreSpec == StoreSpec /\ StoreFairness

----------------------------------------------------------------------------
(* Properties *)

\* The store implements the abstract promise of ReplayGuard: a reservation is
\* dropped or replaced only once its expiry has really passed, even by a caller
\* or a sweeper that acts on an old clock reading (lines 73 and 96).
Guard == INSTANCE ReplayGuard WITH deadline <- used

GuardSpec == Guard!Spec

\* With a running sweeper no reservation outlives its expiry for ever, so the
\* maps do not grow without bound (lines 88-104).
LapsedIsSwept ==
  Sweeping =>
    \A t \in Token :
      (used[t] # Absent /\ used[t] <= now) ~> (used[t] = Absent \/ used[t] > now)
=============================================================================
