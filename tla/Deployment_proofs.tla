-------------------------- MODULE Deployment_proofs --------------------------
(***************************************************************************)
(* A deployment, the two components that it is composed of, and the parser *)
(* that makes its documents of schema files, for any documents, callers,   *)
(* hosts, requests, settings and files, and any values of the bounds of    *)
(* the runs.  First the fingerprint cache on its own: an entry is stale    *)
(* only for the reasons given, and there is one between two invalidations. *)
(* Then the sources of configs: what a load with a policy is served by has *)
(* passed the policy, and a config that is too long is refused for that.   *)
(* Then the deployment, which is shown to take steps of the two only: the  *)
(* fingerprint of a service and what it serves after edits of the document *)
(* that it shares, the claims that its requests are admitted by, and the   *)
(* keyrings and limits that they meet.  Last the parser on its own: what   *)
(* it reads is what the lines of the file nest, by the lines and not by    *)
(* the state that the parser keeps between them.                           *)
(***************************************************************************)
EXTENDS Deployment, SchemaParser, FiniteSetTheorems, SequenceTheorems, TLAPS

WF == INSTANCE WellFoundedInduction

-----------------------------------------------------------------------------
(* The fingerprint cache *)

\* What is read of a document before its relations.
EarlyOf(s) == [p \in ReadEarly |-> s[p]]

\* What a call has read is there by its stage, and is the document's content as long as
\* no edit has overtaken the call.
CallsReadOn ==
  \A c \in Caller :
    /\ call[c].at = "second" =>
         /\ call[c].sum \in [ReadEarly -> Version]
         /\ call[c].whole => call[c].sum = EarlyOf(content[call[c].doc])
    /\ call[c].at = "store" =>
         /\ call[c].sum \in Sum
         /\ call[c].whole => call[c].sum = content[call[c].doc]

CacheInv == CacheTypeOK /\ CallsReadOn /\ StaleOnlyIfOvertaken

\* A call that is not under way, and one that has just begun.
LEMMA IdleIsACall ==
  ASSUME NEW d \in Doc
  PROVE  /\ Idle(d) \in Call
         /\ Idle(d).at = "idle"
         /\ [Idle(d) EXCEPT !.at = "first"] \in Call
         /\ [Idle(d) EXCEPT !.at = "first"].at = "first"
BY DEF Idle, Call, Stage, NoSum

\* No entry is told from an entry.
LEMMA SumsAreSums == NoSum \notin Sum
<1>1. DOMAIN NoSum = {}
  BY DEF NoSum
<1>2. ASSUME NEW s \in Sum PROVE "name" \in DOMAIN s
  BY DEF Sum, Part
<1> QED  BY <1>1, <1>2

\* A part of a document that is changed leaves the others.
LEMMA SumWithout ==
  ASSUME NEW s \in Sum, NEW part \in Part, NEW v \in Version
  PROVE  [s EXCEPT ![part] = v] \in Sum
BY DEF Sum

\* The invariant of the cache at first.
LEMMA CacheInitially == CacheInit => CacheInv
<1> SUFFICES ASSUME CacheInit PROVE CacheInv
  OBVIOUS
<1>1. CacheTypeOK
  <2>1. content \in [Doc -> Sum]
    BY CacheAssumption DEF CacheInit
  <2>2. cached \in [Doc -> Sum \cup {NoSum}] /\ edited \in [Doc -> BOOLEAN]
        /\ overtaken \in [Doc -> BOOLEAN]
    BY DEF CacheInit
  <2>3. {Idle(d) : d \in Doc} \subseteq Call
    BY IdleIsACall
  <2>4. call \in [Caller -> Call]
    BY <2>3 DEF CacheInit
  <2> QED  BY <2>1, <2>2, <2>4 DEF CacheTypeOK
<1>2. CallsReadOn
  <2>1. \A c \in Caller : call[c].at = "idle"
    BY IdleIsACall DEF CacheInit
  <2> QED  BY <2>1 DEF CallsReadOn
<1>3. StaleOnlyIfOvertaken
  BY DEF CacheInit, StaleOnlyIfOvertaken
<1> QED  BY <1>1, <1>2, <1>3 DEF CacheInv
-----------------------------------------------------------------------------
(* The steps of Public. *)

\* Public's first look at the entry.
LEMMA LoadKeeps ==
  ASSUME CacheInv, NEW c \in Caller, NEW d \in Doc, Load(c, d)
  PROVE  CacheInv'
<1> USE DEF CacheInv
<1>1. call' \in [Caller -> Call] /\ call'[c].at \in {"idle", "first"}
      /\ \A b \in Caller \ {c} : call'[b] = call[b]
  BY IdleIsACall DEF Load, CacheTypeOK
<1>2. CacheTypeOK'
  BY <1>1 DEF Load, CacheTypeOK
<1>3. CallsReadOn'
  BY <1>1 DEF Load, CallsReadOn
<1>4. StaleOnlyIfOvertaken'
  BY DEF Load, StaleOnlyIfOvertaken
<1> QED  BY <1>2, <1>3, <1>4

\* All but the relations is read.
LEMMA ReadFirstKeeps ==
  ASSUME CacheInv, NEW c \in Caller, ReadFirst(c)
  PROVE  CacheInv'
<1> USE DEF CacheInv
<1> DEFINE v == EarlyOf(content[call[c].doc])
<1>1. call[c] \in Call /\ v \in [ReadEarly -> Version]
  <2>1. call[c] \in Call /\ content[call[c].doc] \in Sum
    BY DEF CacheTypeOK, Call
  <2> QED  BY <2>1 DEF Sum, EarlyOf, ReadEarly
<1>2. call' = [call EXCEPT ![c] = [call[c] EXCEPT !.at = "second", !.sum = v]]
  BY DEF ReadFirst, CacheTypeOK, EarlyOf
<1>a. v = EarlyOf(content[call[c].doc])
  OBVIOUS
<1> HIDE DEF v
<1>3. [call[c] EXCEPT !.at = "second", !.sum = v] \in Call
  BY <1>1 DEF Call, Stage
<1>4. CacheTypeOK'
  BY <1>2, <1>3 DEF ReadFirst, CacheTypeOK
<1>5. CallsReadOn'
  <2>1. /\ call'[c].at = "second" /\ call'[c].sum = v /\ call'[c].doc = call[c].doc
        /\ \A b \in Caller \ {c} : call'[b] = call[b]
    BY <1>1, <1>2 DEF CacheTypeOK, Call
  <2>2. content' = content /\ call[c].at # "idle"
    BY DEF ReadFirst
  <2>3. ASSUME NEW b \in Caller \ {c}
        PROVE  /\ call'[b].at = "second" =>
                    /\ call'[b].sum \in [ReadEarly -> Version]
                    /\ call'[b].whole => call'[b].sum = EarlyOf(content'[call'[b].doc])
               /\ call'[b].at = "store" =>
                    /\ call'[b].sum \in Sum
                    /\ call'[b].whole => call'[b].sum = content'[call'[b].doc]
    BY <2>1, <2>2, <2>3 DEF CallsReadOn
  <2>4. /\ call'[c].at = "second" /\ call'[c].sum \in [ReadEarly -> Version]
        /\ call'[c].sum = EarlyOf(content'[call'[c].doc])
    BY <1>1, <1>a, <2>1, <2>2
  <2> QED  BY <2>3, <2>4 DEF CallsReadOn
<1>6. StaleOnlyIfOvertaken'
  BY DEF ReadFirst, StaleOnlyIfOvertaken
<1> QED  BY <1>4, <1>5, <1>6

\* The relations are read, and the fingerprint is whole.
LEMMA ReadSecondKeeps ==
  ASSUME CacheInv, NEW c \in Caller, ReadSecond(c)
  PROVE  CacheInv'
<1> USE DEF CacheInv
<1> DEFINE d == call[c].doc
           s == [p \in Part |-> IF p \in ReadEarly THEN call[c].sum[p] ELSE content[d][p]]
<1>1. call[c] \in Call /\ content[d] \in [Part -> Version]
  BY DEF CacheTypeOK, Call, Sum
<1>2. call[c].sum \in [ReadEarly -> Version]
      /\ (call[c].whole => call[c].sum = EarlyOf(content[d]))
  BY DEF ReadSecond, CallsReadOn
<1>3. s \in Sum /\ (call[c].whole => s = content[d])
  <2>1. s \in [Part -> Version]
    BY <1>1, <1>2
  <2>2. ASSUME call[c].whole, NEW p \in Part PROVE s[p] = content[d][p]
    BY <1>2, <2>2 DEF EarlyOf
  <2> HIDE DEF s
  <2>3. call[c].whole => s = content[d]
    BY <1>1, <2>1, <2>2
  <2> QED  BY <2>1, <2>3 DEF Sum
<1>4. call' = [call EXCEPT ![c] = [call[c] EXCEPT !.at = "store", !.sum = s]]
  BY DEF ReadSecond, CacheTypeOK
<1> HIDE DEF s
<1>5. [call[c] EXCEPT !.at = "store", !.sum = s] \in Call
  BY <1>1, <1>3 DEF Call, Stage
<1>6. CacheTypeOK'
  BY <1>4, <1>5 DEF ReadSecond, CacheTypeOK
<1>7. CallsReadOn'
  <2>1. /\ call'[c].at = "store" /\ call'[c].sum = s /\ call'[c].doc = d
        /\ call'[c].whole = call[c].whole
        /\ \A b \in Caller \ {c} : call'[b] = call[b]
    BY <1>1, <1>4 DEF CacheTypeOK, Call
  <2>2. content' = content /\ call[c].at # "idle"
    BY DEF ReadSecond
  <2>3. ASSUME NEW b \in Caller \ {c}
        PROVE  /\ call'[b].at = "second" =>
                    /\ call'[b].sum \in [ReadEarly -> Version]
                    /\ call'[b].whole => call'[b].sum = EarlyOf(content'[call'[b].doc])
               /\ call'[b].at = "store" =>
                    /\ call'[b].sum \in Sum
                    /\ call'[b].whole => call'[b].sum = content'[call'[b].doc]
    BY <2>1, <2>2, <2>3 DEF CallsReadOn
  <2> QED  BY <1>3, <2>1, <2>2, <2>3 DEF CallsReadOn
<1>8. StaleOnlyIfOvertaken'
  BY DEF ReadSecond, StaleOnlyIfOvertaken
<1> QED  BY <1>6, <1>7, <1>8

\* The fingerprint is stored, if there is none.
LEMMA LoadOrStoreKeeps ==
  ASSUME CacheInv, NEW c \in Caller, LoadOrStore(c)
  PROVE  CacheInv'
<1> USE DEF CacheInv
<1> DEFINE d == call[c].doc
<1>1. d \in Doc /\ call[c].whole \in BOOLEAN /\ call[c].sum \in Sum
      /\ (call[c].whole => call[c].sum = content[d])
  BY DEF CacheTypeOK, Call, LoadOrStore, CallsReadOn
<1>2. call' = [call EXCEPT ![c] = Idle(d)] /\ content' = content /\ edited' = edited
  BY DEF LoadOrStore
<1>3. CASE cached[d] = NoSum
  <2>1. cached' = [cached EXCEPT ![d] = call[c].sum]
        /\ overtaken' = [overtaken EXCEPT ![d] = ~call[c].whole]
    BY <1>3 DEF LoadOrStore
  <2>2. CacheTypeOK'
    BY <1>1, <1>2, <2>1, IdleIsACall DEF CacheTypeOK
  <2>3. StaleOnlyIfOvertaken'
    BY <1>1, <1>2, <2>1 DEF StaleOnlyIfOvertaken, CacheTypeOK
  <2>4. CallsReadOn'
    BY <1>1, <1>2, IdleIsACall DEF CallsReadOn, CacheTypeOK
  <2> QED  BY <2>2, <2>3, <2>4
<1>4. CASE cached[d] # NoSum
  <2>1. cached' = cached /\ overtaken' = overtaken
    BY <1>4 DEF LoadOrStore
  <2>2. CacheTypeOK'
    BY <1>1, <1>2, <2>1, IdleIsACall DEF CacheTypeOK
  <2>3. StaleOnlyIfOvertaken'
    BY <1>2, <2>1 DEF StaleOnlyIfOvertaken
  <2>4. CallsReadOn'
    BY <1>1, <1>2, IdleIsACall DEF CallsReadOn, CacheTypeOK
  <2> QED  BY <2>2, <2>3, <2>4
<1> QED  BY <1>3, <1>4

-----------------------------------------------------------------------------
(* What the owner of a document does. *)

\* An entry is removed.
LEMMA InvalidateKeeps ==
  ASSUME CacheInv, NEW d \in Doc, Invalidate(d)
  PROVE  CacheInv'
<1> USE DEF CacheInv
<1>1. CacheTypeOK'
  BY DEF Invalidate, DeleteEntry, CacheTypeOK
<1>2. CallsReadOn'
  BY DEF Invalidate, CallsReadOn
<1>3. StaleOnlyIfOvertaken'
  BY DEF Invalidate, DeleteEntry, StaleOnlyIfOvertaken, CacheTypeOK
<1> QED  BY <1>1, <1>2, <1>3

\* A document is edited.
LEMMA EditKeeps ==
  ASSUME CacheInv, NEW d \in Doc, NEW part \in Part, NEW v \in Version, Edit(d, part, v)
  PROVE  CacheInv'
<1> USE DEF CacheInv
<1>1. content' \in [Doc -> Sum] /\ \A e \in Doc \ {d} : content'[e] = content[e]
  BY SumWithout DEF Edit, CacheTypeOK
<1>2. \A c \in Caller :
        IF call[c].at # "idle" /\ call[c].doc = d
          THEN call'[c] = [call[c] EXCEPT !.whole = FALSE] ELSE call'[c] = call[c]
  BY DEF Edit
<1>3. call' \in [Caller -> Call]
  <2>1. \A c \in Caller : call'[c] \in Call
    BY <1>2 DEF CacheTypeOK, Call
  <2> QED  BY <2>1 DEF Edit
<1>4. CacheTypeOK'
  BY <1>1, <1>3 DEF Edit, CacheTypeOK
<1>5. CallsReadOn'
  <2> SUFFICES ASSUME NEW c \in Caller
               PROVE  /\ call'[c].at = "second" =>
                           /\ call'[c].sum \in [ReadEarly -> Version]
                           /\ call'[c].whole => call'[c].sum = EarlyOf(content'[call'[c].doc])
                      /\ call'[c].at = "store" =>
                           /\ call'[c].sum \in Sum
                           /\ call'[c].whole => call'[c].sum = content'[call'[c].doc]
    BY DEF CallsReadOn
  <2>1. call[c] \in Call
    BY DEF CacheTypeOK
  <2>2. CASE call[c].at # "idle" /\ call[c].doc = d
    <3>1. call'[c].at = call[c].at /\ call'[c].sum = call[c].sum /\ call'[c].whole = FALSE
      BY <1>2, <2>1, <2>2 DEF Call
    <3> QED  BY <3>1 DEF CallsReadOn
  <2>3. CASE ~(call[c].at # "idle" /\ call[c].doc = d)
    <3>1. call'[c] = call[c] /\ (call[c].at = "idle" \/ call[c].doc \in Doc \ {d})
      BY <1>2, <2>1, <2>3 DEF Call
    <3> QED  BY <1>1, <3>1 DEF CallsReadOn
  <2> QED  BY <2>2, <2>3
<1>6. StaleOnlyIfOvertaken'
  BY <1>1 DEF Edit, StaleOnlyIfOvertaken, CacheTypeOK
<1> QED  BY <1>4, <1>5, <1>6

\* Every step keeps the invariant.
LEMMA CacheStepKeeps == CacheInv /\ [CacheNext]_cacheVars => CacheInv'
<1> SUFFICES ASSUME CacheInv, [CacheNext]_cacheVars PROVE CacheInv'
  OBVIOUS
<1>1. CASE UNCHANGED cacheVars
  BY <1>1 DEF cacheVars, CacheInv, CacheTypeOK, CallsReadOn, StaleOnlyIfOvertaken
<1>2. ASSUME NEW c \in Caller, NEW d \in Doc, Load(c, d) PROVE CacheInv'
  BY <1>2, LoadKeeps
<1>3. ASSUME NEW c \in Caller, ReadFirst(c) \/ ReadSecond(c) \/ LoadOrStore(c) PROVE CacheInv'
  BY <1>3, ReadFirstKeeps, ReadSecondKeeps, LoadOrStoreKeeps
<1>4. ASSUME NEW d \in Doc, Invalidate(d) PROVE CacheInv'
  BY <1>4, InvalidateKeeps
<1>5. ASSUME NEW d \in Doc, NEW part \in Part, NEW v \in Version, Edit(d, part, v) PROVE CacheInv'
  BY <1>5, EditKeeps
<1> QED  BY <1>1, <1>2, <1>3, <1>4, <1>5 DEF CacheNext

\* An entry is replaced only by none.
LEMMA StepKeepsSum ==
  ASSUME CacheTypeOK, [CacheNext]_cacheVars
  PROVE  \A d \in Doc : cached[d] # NoSum => cached'[d] \in {cached[d], NoSum}
<1>1. ASSUME NEW c \in Caller, LoadOrStore(c)
      PROVE  \A d \in Doc : cached[d] # NoSum => cached'[d] = cached[d]
  BY <1>1 DEF LoadOrStore, CacheTypeOK
<1>2. ASSUME NEW e \in Doc, Invalidate(e)
      PROVE  \A d \in Doc : cached'[d] \in {cached[d], NoSum}
  BY <1>2 DEF Invalidate, DeleteEntry, CacheTypeOK
<1> QED  BY <1>1, <1>2 DEF CacheNext, cacheVars, Load, ReadFirst, ReadSecond, Edit

-----------------------------------------------------------------------------

\* The invariant holds of the cache on its own.
THEOREM CacheInvariant == CacheSpec => []CacheInv
<1> QED  BY CacheInitially, CacheStepKeeps, PTL DEF CacheSpec

\* An entry that was invalidated after the last edit of its document is the fingerprint
\* of the document as it is, unless a call that the edit overtook stored it.
THEOREM CacheIsCurrent == CacheSpec => []StaleOnlyIfOvertaken
<1>1. CacheInv => StaleOnlyIfOvertaken
  BY DEF CacheInv
<1> QED  BY <1>1, CacheInvariant, PTL

\* All who ask for a fingerprint between two invalidations are told the same.
THEOREM CacheIsAgreedOn == CacheSpec => SumStands
<1>1. CacheInv /\ [CacheNext]_cacheVars =>
        [\A d \in Doc : cached[d] # NoSum => cached'[d] \in {cached[d], NoSum}]_cacheVars
  BY StepKeepsSum DEF CacheInv
<1> QED  BY <1>1, CacheInvariant, PTL DEF CacheSpec, SumStands

-----------------------------------------------------------------------------
(* The sources of configs *)

\* Connections of other hosts than those dialled under another name.
Direct == {conn \in idle \cup used : conn.host \notin Indirect}

Dialling == load.at \in {"resolved", "checked"} /\ load.client = "pinned"

\* What a host that is an address was resolved to is that address.
ResolvedAsSpelled ==
  Dialling =>
    /\ load.ips # <<>>
    /\ load.host \in DOMAIN AddressOf => load.ips = <<AddressOf[load.host]>>

\* The policy has passed every address that is left to be dialled.
LeftToDialIsChecked ==
  Dialling /\ load.at = "checked" =>
    \A i \in DOMAIN load.ips :
      [host |-> load.host, addr |-> load.ips[i]] \in passed /\ load.ips[i] \notin Blocked

\* And every one that a connection is to, taken up again or not.
ConnectionsAreChecked ==
  Loading /\ load.client = "pinned" =>
    \A conn \in Direct : conn \in passed /\ conn.addr \notin Blocked

NothingIsLeft == ~Loading => idle = {} /\ used = {} /\ passed = {}

SourceInv ==
  /\ load \in LoadState
  /\ ResolvedAsSpelled /\ LeftToDialIsChecked /\ ConnectionsAreChecked /\ NothingIsLeft
  /\ TooLongIsSaid

LoadingState ==
  [at : {"asked", "resolved", "checked", "connected"}, client : Client, host : Host,
   requests : 1 .. MaxRequests, ips : Seq(Addr)]

\* A load that is under way has its fields.
LEMMA LoadingIsARecord == load \in LoadState /\ Loading <=> load \in LoadingState
BY DEF LoadState, LoadingState, Loading

\* What was read of a config that is too long shows it.
LEMMA OutcomeOfTooLong ==
  ASSUME NEW length \in Nat, length > PayloadLimit, NEW declared \in BOOLEAN
  PROVE  OutcomeOf(length, length, declared) = "toolong"
BY SourceAssumption DEF OutcomeOf, ReadUpTo

\* How a config may be taken.
LEMMA OutcomesAre ==
  ASSUME NEW length \in Nat, NEW arrived \in Nat, NEW declared \in BOOLEAN
  PROVE  OutcomeOf(length, arrived, declared) \in Outcome
<1> DEFINE read == ReadUpTo(PayloadLimit, arrived)
<1>1. read \in Nat /\ PayloadLimit \in Nat
  BY SourceAssumption DEF ReadUpTo
<1> HIDE DEF read
<1>2. OutcomeOf(length, arrived, declared) =
        CASE declared /\ length > PayloadLimit -> "toolong"
          [] declared /\ length <= PayloadLimit /\ arrived < length -> "failed"
          [] ~declared /\ read > PayloadLimit -> "toolong"
          [] ~declared /\ read <= PayloadLimit /\ read < length -> "malformed"
          [] OTHER -> "loaded"
  BY DEF OutcomeOf, read
<1> QED  BY <1>1, <1>2 DEF Outcome

\* Decode may refuse a config, of which it takes no more than its length.
LEMMA DecodedAre ==
  ASSUME NEW o \in Outcome, NEW e \in Decoded(o)
  PROVE  e \in Outcome /\ (o = "toolong" => e = "toolong")
BY DEF Decoded, Outcome

\* A load that has ended has nothing left.
LEMMA EndKeeps ==
  ASSUME NEW o \in Outcome, NEW length \in Nat, End(o, length),
         length > PayloadLimit => o = "toolong"
  PROVE  SourceInv'
<1>1. load' = [at |-> "ended", outcome |-> o, length |-> length]
      /\ idle' = {} /\ used' = {} /\ passed' = {}
  BY DEF End
<1>2. load' \in LoadState /\ load'.at = "ended"
  BY <1>1 DEF LoadState
<1> QED
  BY <1>1, <1>2 DEF SourceInv, ResolvedAsSpelled, LeftToDialIsChecked, ConnectionsAreChecked,
     NothingIsLeft, Dialling, Loading, TooLongIsSaid

\* Nor has one that has failed.
LEMMA FailKeeps ==
  ASSUME NEW o \in Outcome, End(o, 0)
  PROVE  SourceInv'
<1>1. ~(0 > PayloadLimit)
  BY SourceAssumption
<1> QED  BY <1>1, EndKeeps

-----------------------------------------------------------------------------
(* The steps of a hop *)

\* The host is resolved.
LEMMA ResolveKeeps ==
  ASSUME SourceInv, Resolve
  PROVE  SourceInv'
<1> USE DEF SourceInv
<1>1. load \in LoadingState /\ load.at = "asked" /\ load.client = "pinned"
  BY LoadingIsARecord DEF Resolve, Loading
<1>2. PICK ips \in IF load.host \in DOMAIN AddressOf THEN { <<AddressOf[load.host]>> } ELSE Answers :
        IF ips = <<>> THEN End("failed", 0)
        ELSE load' = [load EXCEPT !.at = "resolved", !.ips = ips] /\ UNCHANGED <<idle, passed, used>>
  BY DEF Resolve
<1>3. CASE ips = <<>>
  BY <1>2, <1>3, FailKeeps DEF Outcome
<1>4. CASE ips # <<>>
  <2>1. ips \in Seq(Addr)
    <3>1. CASE load.host \in DOMAIN AddressOf
      <4>1. AddressOf[load.host] \in Addr
        BY <3>1, SourceAssumption
      <4>2. ips = <<AddressOf[load.host]>>
        BY <1>2, <3>1
      <4> QED  BY <4>1, <4>2
    <3>2. CASE load.host \notin DOMAIN AddressOf
      BY <1>2, <3>2, SourceAssumption
    <3> QED  BY <3>1, <3>2
  <2>2. /\ load' \in LoadingState /\ load'.at = "resolved" /\ load'.client = "pinned"
        /\ load'.host = load.host /\ load'.ips = ips /\ UNCHANGED <<idle, passed, used>>
    BY <1>1, <1>2, <1>4, <2>1 DEF LoadingState
  <2>3. load' \in LoadState /\ Loading'
    BY <2>2 DEF LoadState, LoadingState, Loading
  <2>4. ResolvedAsSpelled'
    BY <1>2, <1>4, <2>2 DEF ResolvedAsSpelled
  <2> QED
    BY <1>1, <2>2, <2>3, <2>4
    DEF LeftToDialIsChecked, ConnectionsAreChecked, NothingIsLeft, TooLongIsSaid, Direct, Loading
<1> QED  BY <1>3, <1>4

\* The policy is asked, and denies every address that it must.
LEMMA CheckKeeps ==
  ASSUME SourceInv, Check
  PROVE  SourceInv'
<1> USE DEF SourceInv
<1>1. load \in LoadingState /\ Loading /\ (load.client = "pinned" => load.at = "resolved")
  BY LoadingIsARecord DEF Check, Loading
<1>2. CASE End("failed", 0)
  BY <1>2, FailKeeps DEF Outcome
<1>3. CASE /\ ~(load.client # "plain" /\ Denies(load.host, load.ips))
           /\ load' = [load EXCEPT !.at = "checked"]
           /\ passed' = passed \cup {[host |-> load.host, addr |-> load.ips[i]] : i \in DOMAIN load.ips}
           /\ UNCHANGED <<idle, used>>
  <2>1. /\ load' \in LoadingState /\ load'.at = "checked" /\ load'.client = load.client
        /\ load'.host = load.host /\ load'.ips = load.ips
    BY <1>1, <1>3 DEF LoadingState
  <2>2. load' \in LoadState /\ Loading'
    BY <2>1 DEF LoadState, LoadingState, Loading
  <2>3. ResolvedAsSpelled'
    BY <1>1, <2>1 DEF ResolvedAsSpelled, Dialling
  <2>4. LeftToDialIsChecked'
    <3> SUFFICES ASSUME load.client = "pinned", NEW i \in DOMAIN load.ips
                 PROVE  [host |-> load.host, addr |-> load.ips[i]] \in passed'
                        /\ load.ips[i] \notin Blocked
      BY <2>1 DEF LeftToDialIsChecked, Dialling
    <3>1. ~Denies(load.host, load.ips)
      BY <1>3
    <3>2. CASE load.host \in DOMAIN AddressOf
      <4>1. load.ips = <<AddressOf[load.host]>> /\ AddressOf[load.host] \notin Blocked
        BY <1>1, <3>1, <3>2 DEF ResolvedAsSpelled, Dialling, Denies
      <4>2. i = 1
        BY <4>1
      <4> QED  BY <1>3, <4>1, <4>2
    <3>3. CASE load.host \notin DOMAIN AddressOf
      BY <1>3, <3>1, <3>3 DEF Denies
    <3> QED  BY <3>2, <3>3
  <2>5. ConnectionsAreChecked'
    BY <1>1, <1>3, <2>1 DEF ConnectionsAreChecked, Direct
  <2> QED
    BY <2>1, <2>2, <2>3, <2>4, <2>5 DEF NothingIsLeft, TooLongIsSaid
<1> QED  BY <1>2, <1>3 DEF Check

\* A hop has its connection: what is left to be shown is that it was checked.
LEMMA ConnectionKeeps ==
  ASSUME SourceInv, NEW conn, load.at = "checked",
         load' = [load EXCEPT !.at = "connected"],
         used' = used \cup {conn}, UNCHANGED <<idle, passed>>,
         load.client = "pinned" /\ conn.host \notin Indirect =>
           conn \in passed /\ conn.addr \notin Blocked
  PROVE  SourceInv'
<1> USE DEF SourceInv
<1>1. load \in LoadingState /\ Loading
  BY LoadingIsARecord DEF Loading
<1>2. load' \in LoadingState /\ load'.at = "connected" /\ load'.client = load.client
  BY <1>1 DEF LoadingState
<1>3. load' \in LoadState /\ Loading'
  BY <1>2 DEF LoadState, LoadingState, Loading
<1>4. ConnectionsAreChecked'
  BY <1>1, <1>2 DEF ConnectionsAreChecked, Direct
<1> QED
  BY <1>2, <1>3, <1>4 DEF ResolvedAsSpelled, LeftToDialIsChecked, Dialling, NothingIsLeft, TooLongIsSaid

\* A connection of the client's is taken again.
LEMMA ReuseKeeps ==
  ASSUME SourceInv, Reuse
  PROVE  SourceInv'
<1>1. PICK conn \in idle : /\ used' = used \cup {conn}
                           /\ load' = [load EXCEPT !.at = "connected"]
                           /\ UNCHANGED <<idle, passed>> /\ load.at = "checked"
  BY DEF Reuse
<1>2. load.client = "pinned" /\ conn.host \notin Indirect =>
        conn \in passed /\ conn.addr \notin Blocked
  BY <1>1 DEF SourceInv, ConnectionsAreChecked, Direct, Loading
<1> QED  BY <1>1, <1>2, ConnectionKeeps

\* The addresses are dialled one after the other.
LEMMA DialPinnedKeeps ==
  ASSUME SourceInv, DialPinned
  PROVE  SourceInv'
<1> USE DEF SourceInv
<1>1. /\ load \in LoadingState /\ Loading /\ Dialling /\ load.at = "checked"
      /\ load.ips \in Seq(Addr) /\ load.ips # <<>>
  BY LoadingIsARecord DEF DialPinned, Pinned, Loading, Dialling, LoadingState, ResolvedAsSpelled
<1>2. CASE Connected(Head(load.ips))
  <2> DEFINE conn == [host |-> load.host, addr |-> load.ips[1]]
  <2>1. conn \in passed /\ conn.addr \notin Blocked
    BY <1>1 DEF LeftToDialIsChecked
  <2>2. /\ load' = [load EXCEPT !.at = "connected"] /\ used' = used \cup {conn}
        /\ UNCHANGED <<idle, passed>>
    BY <1>1, <1>2 DEF Connected
  <2> HIDE DEF conn
  <2> QED  BY <1>1, <2>1, <2>2, ConnectionKeeps
<1>3. CASE Len(load.ips) = 1 /\ End("failed", 0)
  BY <1>3, FailKeeps DEF Outcome
<1>4. CASE /\ Len(load.ips) # 1 /\ load' = [load EXCEPT !.ips = Tail(@)]
           /\ UNCHANGED <<idle, passed, used>>
  <2> DEFINE rest == Tail(load.ips)
  <2>1. /\ rest \in Seq(Addr) /\ rest # <<>>
        /\ \A i \in DOMAIN rest : i + 1 \in DOMAIN load.ips /\ rest[i] = load.ips[i + 1]
    <3> DEFINE ips == load.ips
    <3>1. ips \in Seq(Addr) /\ ips # <<>> /\ Len(ips) # 1
      BY <1>1, <1>4
    <3> HIDE DEF ips
    <3>2. Len(ips) \in Nat /\ Len(ips) > 1
      <4>1. Len(ips) \in Nat \ {0}
        BY <3>1, EmptySeq, Zenon
      <4>2. \A n \in Nat \ {0} : n # 1 => n \in Nat /\ n > 1
        OBVIOUS
      <4> QED  BY <3>1, <4>1, <4>2, Zenon
    <3>3. /\ Tail(ips) \in Seq(Addr) /\ Len(Tail(ips)) = Len(ips) - 1
          /\ \A i \in 1 .. Len(ips) - 1 : Tail(ips)[i] = ips[i + 1]
      BY <3>1, <3>2
    <3>4. DOMAIN ips = 1 .. Len(ips) /\ DOMAIN Tail(ips) = 1 .. Len(ips) - 1
      BY <3>1, <3>3
    <3>5. Tail(ips) # <<>>
      <4>1. \A n \in Nat : n > 1 => n - 1 # 0
        OBVIOUS
      <4>2. Len(<< >>) = 0
        BY EmptySeq, Zenon
      <4> QED  BY <3>2, <3>3, <4>1, <4>2, Zenon
    <3> QED  BY <3>2, <3>3, <3>4, <3>5 DEF ips
  <2>2. load.host \notin DOMAIN AddressOf
    <3> SUFFICES ASSUME load.ips = <<AddressOf[load.host]>> PROVE FALSE
      BY <1>1 DEF ResolvedAsSpelled
    <3> QED  BY <1>4
  <2> HIDE DEF rest
  <2>3. /\ load' \in LoadingState /\ load'.at = load.at /\ load'.client = load.client
        /\ load'.host = load.host /\ load'.ips = rest
    BY <1>1, <1>4, <2>1 DEF LoadingState, rest
  <2>4. load' \in LoadState /\ Loading'
    BY <2>3 DEF LoadState, LoadingState, Loading
  <2>5. ResolvedAsSpelled' /\ LeftToDialIsChecked' /\ ConnectionsAreChecked'
    <3>1. ResolvedAsSpelled'
      BY <1>1, <2>1, <2>2, <2>3 DEF ResolvedAsSpelled
    <3>2. LeftToDialIsChecked'
      <4>1. \A i \in DOMAIN load.ips :
              [host |-> load.host, addr |-> load.ips[i]] \in passed /\ load.ips[i] \notin Blocked
        BY <1>1 DEF LeftToDialIsChecked
      <4>2. \A i \in DOMAIN rest :
              [host |-> load.host, addr |-> rest[i]] \in passed /\ rest[i] \notin Blocked
        BY <2>1, <4>1
      <4> QED
        BY <1>4, <2>3, <4>2 DEF LeftToDialIsChecked
    <3>3. ConnectionsAreChecked'
      BY <1>1, <1>4, <2>3 DEF ConnectionsAreChecked, Direct
    <3> QED  BY <3>1, <3>2, <3>3
  <2> QED  BY <1>1, <2>3, <2>4, <2>5 DEF NothingIsLeft, TooLongIsSaid
<1> QED  BY <1>2, <1>3, <1>4 DEF DialPinned

\* The dialler looks up a host that is not pinned.
LEMMA DialNameKeeps ==
  ASSUME SourceInv, DialName
  PROVE  SourceInv'
<1>1. load.at = "checked" /\ (load.client = "pinned" => load.host \in Indirect)
  BY DEF DialName, Pinned
<1>2. CASE End("failed", 0)
  BY <1>2, FailKeeps DEF Outcome
<1>3. ASSUME NEW addr, Connected(addr) PROVE SourceInv'
  <2> DEFINE conn == [host |-> load.host, addr |-> addr]
  <2>1. conn.host = load.host
    OBVIOUS
  <2>2. /\ load' = [load EXCEPT !.at = "connected"] /\ used' = used \cup {conn}
        /\ UNCHANGED <<idle, passed>>
    BY <1>3 DEF Connected
  <2> HIDE DEF conn
  <2> QED  BY <1>1, <2>1, <2>2, ConnectionKeeps
<1>4. CASE load.host \in DOMAIN AddressOf
  <2> DEFINE ips == <<AddressOf[load.host]>>
  <2>1. ips # <<>> /\ ips \in { <<AddressOf[load.host]>> }
    OBVIOUS
  <2>2. End("failed", 0) \/ \E addr : Connected(addr)
    BY <1>4, <2>1 DEF DialName
  <2> QED  BY <1>2, <1>3, <2>2
<1>5. CASE load.host \notin DOMAIN AddressOf
  BY <1>2, <1>3, <1>5 DEF DialName
<1> QED  BY <1>4, <1>5

\* A redirect starts a hop, for which the client keeps its connections or not.
LEMMA RedirectKeeps ==
  ASSUME SourceInv, NEW host \in Host, Redirect(host)
  PROVE  SourceInv'
<1> USE DEF SourceInv
<1>1. load \in LoadingState /\ Loading
  BY LoadingIsARecord DEF Redirect, Loading
<1>2. CASE End("failed", 0)
  BY <1>2, FailKeeps DEF Outcome
<1>3. CASE /\ load' = [load EXCEPT !.at = "asked", !.host = host, !.ips = <<>>,
                                   !.requests = IF @ < MaxRequests THEN @ + 1 ELSE @]
           /\ idle' \in {idle, idle \cup used} /\ UNCHANGED <<passed, used>>
  <2> DEFINE more == IF load.requests < MaxRequests THEN load.requests + 1 ELSE load.requests
  <2>1. load' \in LoadingState /\ load'.at = "asked" /\ load'.client = load.client
    <3>1. MaxRequests \in Nat /\ load.requests \in 1 .. MaxRequests
      BY <1>1, SourceAssumption DEF LoadingState
    <3>2. more \in 1 .. MaxRequests
      BY <3>1
    <3>3. load' = [load EXCEPT !.at = "asked", !.host = host, !.ips = <<>>, !.requests = more]
      BY <1>1, <1>3 DEF LoadingState
    <3>4. <<>> \in Seq(Addr)
      OBVIOUS
    <3> HIDE DEF more
    <3> QED  BY <1>1, <3>2, <3>3, <3>4 DEF LoadingState
  <2>2. load' \in LoadState /\ Loading'
    BY <2>1 DEF LoadState, LoadingState, Loading
  <2>3. ConnectionsAreChecked'
    BY <1>1, <1>3, <2>1 DEF ConnectionsAreChecked, Direct
  <2> QED
    BY <2>1, <2>2, <2>3 DEF ResolvedAsSpelled, LeftToDialIsChecked, Dialling, NothingIsLeft,
       TooLongIsSaid
<1> QED  BY <1>2, <1>3 DEF Redirect

\* The server answers.
LEMMA AnswerKeepsSource ==
  ASSUME SourceInv, Answer
  PROVE  SourceInv'
<1>1. ASSUME NEW o \in {"notfound", "failed"}, End(o, 0) PROVE SourceInv'
  BY <1>1, FailKeeps DEF Outcome
<1>2. ASSUME NEW length \in Lengths, NEW declared \in BOOLEAN, NEW arrived \in 0 .. length,
             NEW taken \in Decoded(OutcomeOf(length, arrived, declared)),
             End(taken, IF arrived = length THEN length ELSE 0)
      PROVE  SourceInv'
  <2>1. length \in Nat /\ arrived \in Nat
    BY SourceAssumption
  <2>2. taken \in Outcome
        /\ (OutcomeOf(length, arrived, declared) = "toolong" => taken = "toolong")
    BY <2>1, OutcomesAre, DecodedAre
  <2>3. CASE arrived = length
    <3>1. length > PayloadLimit => taken = "toolong"
      BY <2>1, <2>2, <2>3, OutcomeOfTooLong
    <3> QED  BY <1>2, <2>1, <2>2, <2>3, <3>1, EndKeeps
  <2>4. CASE arrived # length
    BY <1>2, <2>2, <2>4, FailKeeps DEF Outcome
  <2> QED  BY <2>3, <2>4
<1> QED  BY <1>1, <1>2 DEF Answer

-----------------------------------------------------------------------------
(* Loads *)

\* A load begins, with a client of its own.
LEMMA StartKeeps ==
  ASSUME SourceInv, NEW client \in Client, NEW host \in Host, Start(client, host)
  PROVE  SourceInv'
<1> USE DEF SourceInv
<1>1. /\ load' \in LoadingState /\ load'.at = "asked" /\ idle' = {} /\ used' = {} /\ Loading'
  BY SourceAssumption DEF Start, LoadingState, NothingIsLeft, Loading
<1> QED
  BY <1>1 DEF LoadState, LoadingState, ResolvedAsSpelled, LeftToDialIsChecked, Dialling,
     ConnectionsAreChecked, Direct, NothingIsLeft, TooLongIsSaid

\* A config is read from a file.
LEMMA ReadFileKeeps ==
  ASSUME NEW length \in Lengths, NEW size \in 0 .. length, ReadFile(size, length)
  PROVE  SourceInv'
<1>1. length \in Nat /\ size \in Nat
  BY SourceAssumption
<1>2. OutcomeOf(length, length, FALSE) \in Outcome
      /\ (length > PayloadLimit => OutcomeOf(length, length, FALSE) = "toolong")
  BY <1>1, OutcomesAre, OutcomeOfTooLong
<1>3. CASE End("failed", 0)
  BY <1>3, FailKeeps DEF Outcome
<1>4. CASE End("toolong", size)
  BY <1>1, <1>4, EndKeeps DEF Outcome
<1>5. ASSUME NEW taken \in Decoded(OutcomeOf(length, length, FALSE)), End(taken, length)
      PROVE  SourceInv'
  <2>1. taken \in Outcome /\ (length > PayloadLimit => taken = "toolong")
    BY <1>2, DecodedAre
  <2> QED  BY <1>1, <1>5, <2>1, EndKeeps
<1> QED  BY <1>3, <1>4, <1>5 DEF ReadFile

\* At first nothing is loaded.
LEMMA SourceInitially == SourceInit => SourceInv
<1> SUFFICES ASSUME SourceInit PROVE SourceInv
  OBVIOUS
<1>1. load.at = "none" /\ load \in LoadState /\ idle = {} /\ used = {} /\ passed = {}
  BY DEF SourceInit, NoLoad, LoadState
<1> QED
  BY <1>1 DEF SourceInv, ResolvedAsSpelled, LeftToDialIsChecked, Dialling, ConnectionsAreChecked,
     NothingIsLeft, TooLongIsSaid, Loading

\* Every step keeps the invariant.
LEMMA SourceStepKeeps == SourceInv /\ [SourceNext \/ Done]_sourceVars => SourceInv'
<1> SUFFICES ASSUME SourceInv, [SourceNext \/ Done]_sourceVars PROVE SourceInv'
  OBVIOUS
<1>1. ASSUME NEW client \in Client, NEW host \in Host, Start(client, host) PROVE SourceInv'
  BY <1>1, StartKeeps
<1>2. CASE StartInvalid \/ Fail
  BY <1>2, FailKeeps DEF Outcome, StartInvalid, Fail
<1>3. ASSUME NEW length \in Lengths, NEW size \in 0 .. length, ReadFile(size, length)
      PROVE  SourceInv'
  BY <1>3, ReadFileKeeps
<1>4. CASE Resolve \/ Check \/ Reuse \/ DialPinned \/ DialName \/ Answer
  BY <1>4, ResolveKeeps, CheckKeeps, ReuseKeeps, DialPinnedKeeps, DialNameKeeps, AnswerKeepsSource
<1>5. ASSUME NEW host \in Host, Redirect(host) PROVE SourceInv'
  BY <1>5, RedirectKeeps
<1>6. CASE Done
  BY <1>6 DEF Done, NoLoad, SourceInv, LoadState, ResolvedAsSpelled, LeftToDialIsChecked, Dialling,
     ConnectionsAreChecked, NothingIsLeft, TooLongIsSaid, Loading
<1>7. CASE UNCHANGED sourceVars
  BY <1>7 DEF sourceVars, SourceInv, ResolvedAsSpelled, LeftToDialIsChecked, Dialling,
     ConnectionsAreChecked, Direct, NothingIsLeft, TooLongIsSaid, Loading
<1> QED  BY <1>1, <1>2, <1>3, <1>4, <1>5, <1>6, <1>7 DEF SourceNext, LoadStep

\* The invariant of loads on their own.
THEOREM SourceInvariant == SourceSpec => []SourceInv
<1> QED  BY SourceInitially, SourceStepKeeps, PTL DEF SourceSpec

\* Whatever the DNS says between the check and the dial, and whichever connections the
\* client takes again, what serves a load was checked.
THEOREM DialsAreChecked == SourceSpec => []OnlyCheckedIsDialled
<1>1. SourceInv => OnlyCheckedIsDialled
  BY DEF SourceInv, ConnectionsAreChecked, Direct, OnlyCheckedIsDialled
<1> QED  BY <1>1, SourceInvariant, PTL

\* A config that is too long, declared so or not, is refused for its length.
THEOREM TooLongIsTold == SourceSpec => []TooLongIsSaid
<1>1. SourceInv => TooLongIsSaid
  BY DEF SourceInv
<1> QED  BY <1>1, SourceInvariant, PTL

-----------------------------------------------------------------------------
(* The deployment *)

ProgramState ==
  {[kind |-> "embedding"]} \cup
  [kind : {"daemon"}, key : {None, "unreadable"} \cup Ring, limit : Limit,
   at : {"load", "limit", "listen", "up", "stopped"}]

MakingRecord ==
  [up : {TRUE}, doc : Doc, copied : [Copied -> Version], shares : BOOLEAN, disturbed : BOOLEAN]

MakingState == {NotMaking} \cup MakingRecord

ServiceRecord ==
  [up : {TRUE}, doc : Doc, copied : [Copied -> Version], shares : BOOLEAN, fingerprint : Sum,
   keyring : Ring \cup {None}, replay : Store \cup {None}, limit : Nat \ {0},
   reached : SUBSET Part, disturbed : BOOLEAN]

ServiceState == {NoService} \cup ServiceRecord

RequestState ==
  [at : {"new", "body", "decoded", "guarded", "verified", "claimed", "reserving",
         "admitted", "toolong", "malformed", "refused", "panicked"},
   got : Nat, schema : Version \cup {NoSum}, rings : SUBSET (Ring \cup {None}),
   raised : BOOLEAN, unset : BOOLEAN, renamed : BOOLEAN]

StateOK ==
  /\ program \in ProgramState
  /\ making \in MakingState
  /\ service \in ServiceState
  /\ request \in [Request -> RequestState]

\* Only New asks for fingerprints in the Owner's name, those of the document it has
\* copied.
OwnerMakes ==
  call[Owner].at # "idle" => making.up /\ call[Owner].doc = making.doc

\* The copy is of the document, which an edit disturbs.
CopyIsContent ==
  making.up /\ ~making.disturbed => making.copied = CopiedOf(making.doc)

\* No request comes before there is a service, or while a new one is made.
Starting ==
  /\ making.up => Quiet /\ load = NoLoad
  /\ ~service.up => Quiet
  /\ ~Embedding =>
       /\ program.at # "up" => Quiet
       /\ making.up => ~service.up /\ program.at = "load"
       /\ service.up => load = NoLoad

\* What the daemon has set by its stage.
DaemonSets ==
  ~Embedding =>
    /\ program.at \in {"load", "limit"} /\ service.up => service.limit = DefaultLimit
    /\ program.at \in {"limit", "listen", "up"} =>
         service.up /\ program.key \in Ring \cup {None} /\ service.keyring = program.key
    /\ program.at \in {"listen", "up"} =>
         service.limit = IF program.limit > 0 THEN program.limit ELSE DefaultLimit

\* What a request has been told of the settings by its stage.
Informed(r) ==
  /\ UnderWay(r) => service.keyring \in request[r].rings
  /\ request[r].at \in {"verified", "claimed", "reserving", "admitted"} => "trusting" \in request[r].rings
  /\ request[r].at = "reserving" => service.replay # None \/ request[r].unset
  /\ request[r].at = "panicked" => request[r].unset
  /\ request[r].unset => Embedding
  /\ request[r].at = "body" => request[r].raised \/ request[r].got > service.limit \/ request[r].got = BodyLength[r]
  /\ request[r].at = "malformed" => request[r].raised

RequestsKnow == \A r \in Request : Informed(r)

\* What a request has been told of the schema by its stage: the fingerprint for good, the
\* name until the document is renamed.
ClaimsMet(r) ==
  /\ request[r].at \in {"claimed", "reserving", "admitted"} => service.fingerprint = Issued
  /\ request[r].at \in {"claimed", "reserving"} =>
       request[r].renamed \/ content[service.doc]["name"] = Issued["name"]
  /\ request[r].at = "admitted" => request[r].renamed \/ request[r].schema = Issued["name"]

ClaimsAreMet == \A r \in Request : ClaimsMet(r)

DeployInv ==
  /\ StateOK /\ CacheInv /\ OwnerMakes /\ CopyIsContent /\ Starting
  /\ ServedIsFingerprinted /\ DaemonSets /\ RequestsKnow /\ ClaimsAreMet

\* A service, and a document to make one of, have their fields.
LEMMA UpIsARecord ==
  /\ making \in MakingState /\ making.up => making \in MakingRecord
  /\ service \in ServiceState /\ service.up => service \in ServiceRecord
<1>1. ~NotMaking.up /\ ~NoService.up
  BY DEF NotMaking, NoService
<1> QED  BY <1>1 DEF MakingState, ServiceState

-----------------------------------------------------------------------------
(* The cache *)

\* New and the other goroutines of the program use the cache as anyone does.
LEMMA FingerprintIsACacheStep == Fingerprint /\ making.doc \in Doc => CacheNext
BY DeploymentAssumption DEF Fingerprint, CacheNext

\* Every step of a deployment is one of the cache, or leaves it alone.
LEMMA StepIsACacheStep ==
  ASSUME making \in MakingState, [Next]_deploymentVars
  PROVE  [CacheNext]_cacheVars
<1>1. CASE Fingerprint
  <2>1. making.doc \in Doc
    BY <1>1, UpIsARecord DEF Fingerprint, MakingRecord
  <2> QED  BY <1>1, <2>1, FingerprintIsACacheStep
<1>2. CASE Elsewhere
  BY <1>2 DEF Elsewhere, CacheNext
<1>3. ASSUME NEW d \in Doc, ChangeDocument(d) PROVE CacheNext
  BY <1>3 DEF ChangeDocument, CacheNext
<1>4. CASE LoadConfig \/ Daemon
  BY <1>4 DEF LoadConfig, Daemon
<1>5. ASSUME NEW d \in Doc, Copy(d) PROVE UNCHANGED cacheVars
  BY <1>5 DEF Copy
<1>6. ASSUME NEW x, SetCapabilityKeyring(x) \/ SetReplayStore(x) \/ SetMaxBodyBytes(x)
      PROVE  UNCHANGED cacheVars
  BY <1>6 DEF SetCapabilityKeyring, SetReplayStore, SetMaxBodyBytes
<1>7. ASSUME NEW r \in Request, RequestStep(r) PROVE UNCHANGED cacheVars
  BY <1>7 DEF RequestStep
<1>8. CASE UNCHANGED deploymentVars
  BY <1>8 DEF deploymentVars
<1> QED  BY <1>1, <1>2, <1>3, <1>4, <1>5, <1>6, <1>7, <1>8 DEF Next

\* And one of the loads of configs, or leaves them alone.
LEMMA StepIsASourceStep ==
  ASSUME [Next]_deploymentVars
  PROVE  [SourceNext \/ Done]_sourceVars
<1>1. CASE Fingerprint \/ Elsewhere \/ Daemon
  BY <1>1 DEF Fingerprint, Elsewhere, Daemon
<1>2. CASE LoadConfig
  BY <1>2 DEF LoadConfig
<1>3. ASSUME NEW d \in Doc, Copy(d) \/ ChangeDocument(d) PROVE Done \/ UNCHANGED sourceVars
  BY <1>3 DEF Copy, ChangeDocument
<1>4. ASSUME NEW x, SetCapabilityKeyring(x) \/ SetReplayStore(x) \/ SetMaxBodyBytes(x)
      PROVE  UNCHANGED sourceVars
  BY <1>4 DEF SetCapabilityKeyring, SetReplayStore, SetMaxBodyBytes
<1>5. ASSUME NEW r \in Request, RequestStep(r) PROVE UNCHANGED sourceVars
  BY <1>5 DEF RequestStep
<1>6. CASE UNCHANGED deploymentVars
  BY <1>6 DEF deploymentVars
<1> QED  BY <1>1, <1>2, <1>3, <1>4, <1>5, <1>6 DEF Next

-----------------------------------------------------------------------------
(* Types *)

\* The states that a deployment starts in have their types.
LEMMA StateInitially == Init => StateOK
<1> SUFFICES ASSUME Init PROVE StateOK
  OBVIOUS
<1>1. program \in ProgramState
  BY DEF Init, ProgramState, Flags
<1>2. making \in MakingState /\ service \in ServiceState
  BY DEF Init, MakingState, ServiceState
<1>3. Fresh \in RequestState
  BY DEF Fresh, RequestState
<1>4. request \in [Request -> RequestState]
  BY <1>3 DEF Init
<1> QED  BY <1>1, <1>2, <1>4 DEF StateOK

-----------------------------------------------------------------------------
(* New *)

\* What Public has returned is the entry of the document.
LEMMA FingerprintReturns ==
  ASSUME StateOK, CacheInv, OwnerMakes, Fingerprint, CacheInv', call'[Owner].at = "idle"
  PROVE  /\ making.doc \in Doc /\ cached'[making.doc] \in Sum
         /\ edited' = edited /\ content' = content
<1> DEFINE d == making.doc
<1>1. making \in MakingRecord
  BY UpIsARecord DEF StateOK, Fingerprint
<1>a. d \in Doc
  BY <1>1 DEF MakingRecord
<1>2. CASE Load(Owner, d)
  <2>1. [Idle(d) EXCEPT !.at = "first"].at # "idle"
    BY <1>a, IdleIsACall
  <2>2. cached[d] # NoSum
    BY <1>2, <2>1, DeploymentAssumption DEF Load, CacheInv, CacheTypeOK
  <2> QED  BY <1>a, <1>2, <2>2 DEF Load, CacheInv, CacheTypeOK
<1>3. CASE ReadFirst(Owner) \/ ReadSecond(Owner)
  <2>1. call'[Owner].at \in {"second", "store"}
    BY <1>3, DeploymentAssumption DEF ReadFirst, ReadSecond, CacheInv, CacheTypeOK, Call
  <2> QED  BY <2>1
<1>4. CASE LoadOrStore(Owner)
  <2>1. call[Owner].doc = d /\ call[Owner].sum \in Sum
    BY <1>4, DeploymentAssumption DEF LoadOrStore, OwnerMakes, CacheInv, CallsReadOn
  <2>2. cached[d] \in Sum \cup {NoSum}
    BY <1>a DEF CacheInv, CacheTypeOK
  <2> QED  BY <1>a, <1>4, <2>1, <2>2 DEF LoadOrStore, CacheInv, CacheTypeOK
<1> QED  BY <1>2, <1>3, <1>4 DEF Fingerprint

\* New makes a service with the defaults, or asks on.
LEMMA FingerprintKeeps ==
  ASSUME DeployInv, Fingerprint, CacheInv'
  PROVE  DeployInv'
<1> USE DEF DeployInv
<1> DEFINE d == making.doc
<1>1. making \in MakingRecord /\ making.up
  BY UpIsARecord DEF StateOK, Fingerprint
<1>2. UNCHANGED <<load, program, request, changes>> /\ Quiet
  BY <1>1 DEF Fingerprint, sourceVars, Starting
<1>3. RequestsKnow' /\ ClaimsAreMet'
  <2>1. \A r \in Request : request'[r].at = "new" /\ (request'[r].unset => Embedding')
    BY <1>2 DEF Quiet, RequestsKnow, Informed, UnderWay, Embedding
  <2> QED  BY <2>1 DEF RequestsKnow, Informed, UnderWay, ClaimsAreMet, ClaimsMet
<1>4. CASE call'[Owner].at # "idle"
  <2>1. UNCHANGED <<service, making>> /\ content' = content
    BY <1>4 DEF Fingerprint, Load, ReadFirst, ReadSecond, LoadOrStore
  <2>2. call'[Owner].doc = d
    BY <1>1, <1>4, IdleIsACall, DeploymentAssumption
    DEF Fingerprint, Load, ReadFirst, ReadSecond, LoadOrStore, OwnerMakes, CacheInv, CacheTypeOK,
        Call, Idle
  <2> QED
    BY <1>1, <1>2, <1>3, <2>1, <2>2
    DEF StateOK, OwnerMakes, CopyIsContent, CopiedOf, Starting, Quiet, Embedding,
        ServedIsFingerprinted, Served, DaemonSets
<1>5. CASE call'[Owner].at = "idle"
  <2>1. /\ service' = [up |-> TRUE, doc |-> d, copied |-> making.copied, shares |-> making.shares,
                       fingerprint |-> cached'[d], keyring |-> None, replay |-> "store",
                       limit |-> DefaultLimit, reached |-> {},
                       disturbed |-> making.disturbed \/ edited[d] \/ overtaken'[d]]
        /\ making' = NotMaking
    BY <1>5 DEF Fingerprint
  <2>2. d \in Doc /\ cached'[d] \in Sum /\ edited' = edited /\ content' = content
    BY <1>5, FingerprintReturns
  <2>3. edited[d] \in BOOLEAN /\ overtaken'[d] \in BOOLEAN
    BY <2>2 DEF CacheInv, CacheTypeOK
  <2>4. service' \in ServiceState
    <3>1. making.copied \in [Copied -> Version] /\ making.shares \in BOOLEAN
          /\ making.disturbed \in BOOLEAN /\ d \in Doc
      BY <1>1 DEF MakingRecord
    <3>2. service' \in ServiceRecord
      BY <2>1, <2>2, <2>3, <3>1, DeploymentAssumption DEF ServiceRecord, Store
    <3> QED  BY <3>2 DEF ServiceState
  <2>5. StateOK'
    BY <1>2, <2>1, <2>4 DEF StateOK, MakingState
  <2>6. ServedIsFingerprinted'
    <3> SUFFICES ASSUME ~service'.disturbed, NEW p \in Part PROVE cached'[d][p] = Served'[p]
      BY <2>1 DEF ServedIsFingerprinted
    <3>1. ~making.disturbed /\ ~edited[d] /\ ~overtaken'[d]
      BY <2>1
    <3>2. making.copied = CopiedOf(d)
      BY <1>1, <3>1 DEF CopyIsContent
    <3>3. cached'[d] = content'[d]
      BY <2>2, <3>1, SumsAreSums DEF CacheInv, StaleOnlyIfOvertaken
    <3>4. Served'[p] = IF p = "name" THEN content'[d]["name"] ELSE making.copied[p]
      BY <2>1 DEF Served
    <3>5. p # "name" => making.copied[p] = content[d][p]
      BY <3>2 DEF CopiedOf, Copied
    <3> QED  BY <2>2, <3>3, <3>4, <3>5
  <2>7. ~making'.up /\ service'.up /\ service'.limit = DefaultLimit
    BY <2>1 DEF NotMaking
  <2>8. OwnerMakes' /\ CopyIsContent'
    BY <1>5, <2>7 DEF OwnerMakes, CopyIsContent
  <2>9. Starting' /\ DaemonSets'
    BY <1>1, <1>2, <2>7 DEF Starting, DaemonSets, Quiet, Embedding
  <2> QED  BY <1>3, <2>5, <2>6, <2>8, <2>9
<1> QED  BY <1>4, <1>5

\* A document is copied.
LEMMA CopyKeeps ==
  ASSUME DeployInv, NEW d \in Doc, Copy(d), CacheInv'
  PROVE  DeployInv'
<1> USE DEF DeployInv
<1>1. /\ making' = [up |-> TRUE, doc |-> d, copied |-> CopiedOf(d), shares |-> TRUE, disturbed |-> FALSE]
      /\ UNCHANGED <<content, call, program, service, request>>
      /\ load' = NoLoad /\ Quiet /\ call[Owner].at = "idle"
      /\ ~Embedding => ~service.up /\ program.at = "load"
  BY DEF Copy, Done, cacheVars
<1>2. making' \in MakingState /\ making'.up /\ making'.copied = [p \in Copied |-> content'[making'.doc][p]]
  <2>1. CopiedOf(d) \in [Copied -> Version] /\ CopiedOf(d)' = CopiedOf(d)
    <3>1. content[d] \in [Part -> Version]
      BY DEF CacheInv, CacheTypeOK, Sum
    <3> QED  BY <1>1, <3>1 DEF CopiedOf, Copied
  <2>2. making' \in MakingRecord
    BY <1>1, <2>1 DEF MakingRecord
  <2> QED  BY <1>1, <2>1, <2>2 DEF MakingState, CopiedOf
<1>3. StateOK' /\ OwnerMakes' /\ CopyIsContent'
  BY <1>1, <1>2 DEF StateOK, OwnerMakes, CopyIsContent, CopiedOf
<1>4. Starting' /\ DaemonSets' /\ ServedIsFingerprinted'
  BY <1>1 DEF Starting, DaemonSets, ServedIsFingerprinted, Served, Quiet, Embedding
<1>5. RequestsKnow' /\ ClaimsAreMet'
  BY <1>1 DEF RequestsKnow, Informed, UnderWay, ClaimsAreMet, ClaimsMet, Embedding
<1> QED  BY <1>3, <1>4, <1>5

\* A config is on its way.
LEMMA LoadConfigKeeps ==
  ASSUME DeployInv, LoadConfig, CacheInv'
  PROVE  DeployInv'
<1> USE DEF DeployInv
<1>1. UNCHANGED <<content, call, program, making, service, request>>
      /\ ~service.up /\ ~making.up
  BY DEF LoadConfig, cacheVars, serviceVars
<1>2. StateOK' /\ OwnerMakes' /\ CopyIsContent' /\ Starting' /\ DaemonSets' /\ ServedIsFingerprinted'
  BY <1>1 DEF StateOK, OwnerMakes, CopyIsContent, Starting, DaemonSets, ServedIsFingerprinted,
     Served, Quiet, Embedding
<1>3. RequestsKnow' /\ ClaimsAreMet'
  BY <1>1 DEF RequestsKnow, Informed, UnderWay, ClaimsAreMet, ClaimsMet, Embedding
<1> QED  BY <1>2, <1>3

\* Others ask for fingerprints.
LEMMA ElsewhereKeeps ==
  ASSUME DeployInv, Elsewhere, CacheInv'
  PROVE  DeployInv'
<1> USE DEF DeployInv
<1>1. UNCHANGED <<load, program, making, service, request>>
  BY DEF Elsewhere, serviceVars, sourceVars
<1>2. content' = content /\ call'[Owner] = call[Owner]
  BY DeploymentAssumption
  DEF Elsewhere, Load, ReadFirst, ReadSecond, LoadOrStore, CacheInv, CacheTypeOK
<1>3. StateOK' /\ OwnerMakes' /\ CopyIsContent' /\ Starting' /\ DaemonSets' /\ ServedIsFingerprinted'
  BY <1>1, <1>2 DEF StateOK, OwnerMakes, CopyIsContent, CopiedOf, Starting, DaemonSets,
     ServedIsFingerprinted, Served, Quiet, Embedding
<1>4. RequestsKnow' /\ ClaimsAreMet'
  BY <1>1, <1>2 DEF RequestsKnow, Informed, UnderWay, ClaimsAreMet, ClaimsMet, Embedding
<1> QED  BY <1>3, <1>4

\* An edit writes what a service shares with its document, or reaches nothing of it.
LEMMA ServiceAfterEdit ==
  ASSUME service \in ServiceRecord, NEW d \in Doc, NEW part \in Part, NEW v \in Version,
         NEW inPlace \in BOOLEAN
  PROVE  /\ AfterEdit(service, d, part, v, inPlace) \in ServiceRecord
         /\ \A f \in {"up", "doc", "fingerprint", "keyring", "replay", "limit", "reached", "disturbed"} :
              AfterEdit(service, d, part, v, inPlace)[f] = service[f]
         /\ \A p \in Copied : p # part \/ ~Reaches(d, part, inPlace) =>
              AfterEdit(service, d, part, v, inPlace).copied[p] = service.copied[p]
<1> DEFINE t == AfterEdit(service, d, part, v, inPlace)
<1>1. CASE Has(service, d) /\ service.shares /\ part \in Shared /\ inPlace
  <2>1. t = [service EXCEPT !.copied = [service.copied EXCEPT ![part] = v]]
    BY <1>1 DEF AfterEdit
  <2>2. service.copied \in [Copied -> Version]
    BY DEF ServiceRecord
  <2>3. [service.copied EXCEPT ![part] = v] \in [Copied -> Version]
    BY <2>2
  <2>4. t.copied = [service.copied EXCEPT ![part] = v] /\ t \in ServiceRecord
    BY <2>1, <2>3 DEF ServiceRecord
  <2>5. Reaches(d, part, inPlace)
    BY <1>1 DEF Reaches, Shared
  <2>6. \A p \in Copied : p # part => t.copied[p] = service.copied[p]
    BY <2>2, <2>4
  <2>7. \A f \in {"up", "doc", "fingerprint", "keyring", "replay", "limit", "reached", "disturbed"} :
          t[f] = service[f]
    BY <2>1 DEF ServiceRecord
  <2> QED  BY <2>4, <2>5, <2>6, <2>7
<1>2. CASE Has(service, d) /\ service.shares /\ part \in Shared /\ ~inPlace
  <2>1. t = [service EXCEPT !.shares = FALSE]
    BY <1>2 DEF AfterEdit
  <2>2. t \in ServiceRecord /\ t.copied = service.copied
    BY <2>1 DEF ServiceRecord
  <2>3. \A f \in {"up", "doc", "fingerprint", "keyring", "replay", "limit", "reached", "disturbed"} :
          t[f] = service[f]
    BY <2>1 DEF ServiceRecord
  <2> QED  BY <2>2, <2>3
<1>3. CASE ~(Has(service, d) /\ service.shares /\ part \in Shared)
  BY <1>3 DEF AfterEdit
<1> QED  BY <1>1, <1>2, <1>3

\* So it does with what is being made.
LEMMA MakingAfterEdit ==
  ASSUME making \in MakingRecord, NEW d, NEW part \in Part, NEW v \in Version, NEW inPlace \in BOOLEAN
  PROVE  /\ AfterEdit(making, d, part, v, inPlace) \in MakingRecord
         /\ AfterEdit(making, d, part, v, inPlace).doc = making.doc
<1> DEFINE t == AfterEdit(making, d, part, v, inPlace)
<1>1. CASE Has(making, d) /\ making.shares /\ part \in Shared /\ inPlace
  <2>1. t = [making EXCEPT !.copied = [making.copied EXCEPT ![part] = v]]
    BY <1>1 DEF AfterEdit
  <2>2. [making.copied EXCEPT ![part] = v] \in [Copied -> Version]
    BY DEF MakingRecord
  <2> QED  BY <2>1, <2>2 DEF MakingRecord
<1>2. CASE Has(making, d) /\ making.shares /\ part \in Shared /\ ~inPlace
  <2>1. t = [making EXCEPT !.shares = FALSE]
    BY <1>2 DEF AfterEdit
  <2> QED  BY <2>1 DEF MakingRecord
<1>3. CASE ~(Has(making, d) /\ making.shares /\ part \in Shared)
  BY <1>3 DEF AfterEdit
<1> QED  BY <1>1, <1>2, <1>3

\* The service after an edit, as ChangeDocument has it.
EditOfService(d, part, v, inPlace) ==
  IF Reaches(d, part, inPlace)
    THEN [AfterEdit(service, d, part, v, inPlace) EXCEPT !.reached = @ \cup {part}]
    ELSE AfterEdit(service, d, part, v, inPlace)

\* What an edit leaves of a service, apart from the name of its document, or of none.
LEMMA EditedService ==
  ASSUME service \in ServiceState, NEW d \in Doc, NEW part \in Part, NEW v \in Version,
         NEW inPlace \in BOOLEAN,
         service' = EditOfService(d, part, v, inPlace)
  PROVE  /\ service' \in ServiceState /\ service'.up = service.up
         /\ service.up =>
              /\ service'.doc = service.doc /\ service'.fingerprint = service.fingerprint
              /\ service'.keyring = service.keyring /\ service'.replay = service.replay
              /\ service'.limit = service.limit /\ service'.disturbed = service.disturbed
              /\ service'.reached =
                   service.reached \cup (IF Reaches(d, part, inPlace) THEN {part} ELSE {})
              /\ \A p \in Copied \ service'.reached : service'.copied[p] = service.copied[p]
<1> DEFINE t == AfterEdit(service, d, part, v, inPlace)
<1>1. CASE ~service.up
  <2>1. service' = service
    BY <1>1 DEF EditOfService, Reaches, AfterEdit, Has
  <2> QED  BY <1>1, <2>1
<1>2. CASE service.up
  <2>1. service \in ServiceRecord
    BY <1>2, UpIsARecord
  <2>2. /\ t \in ServiceRecord
        /\ \A f \in {"up", "doc", "fingerprint", "keyring", "replay", "limit", "reached", "disturbed"} :
             t[f] = service[f]
        /\ \A p \in Copied : p # part \/ ~Reaches(d, part, inPlace) => t.copied[p] = service.copied[p]
    BY <2>1, ServiceAfterEdit
  <2>3. /\ t.up = service.up /\ t.doc = service.doc /\ t.fingerprint = service.fingerprint
        /\ t.keyring = service.keyring /\ t.replay = service.replay /\ t.limit = service.limit
        /\ t.disturbed = service.disturbed /\ t.reached = service.reached
    BY <2>2
  <2>4. service' = IF Reaches(d, part, inPlace) THEN [t EXCEPT !.reached = t.reached \cup {part}] ELSE t
    BY DEF EditOfService
  <2> HIDE DEF t
  <2>5. CASE Reaches(d, part, inPlace)
    <3>1. service' = [t EXCEPT !.reached = t.reached \cup {part}]
      BY <2>4, <2>5
    <3>a. t.reached \cup {part} \in SUBSET Part
      BY <2>2 DEF ServiceRecord
    <3>2. /\ service'.up = t.up /\ service'.doc = t.doc /\ service'.fingerprint = t.fingerprint
          /\ service'.keyring = t.keyring /\ service'.replay = t.replay /\ service'.limit = t.limit
          /\ service'.disturbed = t.disturbed /\ service'.reached = t.reached \cup {part}
          /\ service'.copied = t.copied /\ service' \in ServiceRecord
      BY <2>2, <3>1, <3>a DEF ServiceRecord
    <3> QED  BY <2>2, <2>3, <2>5, <3>2 DEF ServiceState
  <2>6. CASE ~Reaches(d, part, inPlace)
    <3>1. service' = t
      BY <2>4, <2>6
    <3> QED  BY <2>2, <2>3, <2>6, <3>1 DEF ServiceState
  <2> QED  BY <2>5, <2>6
<1> QED  BY <1>1, <1>2 DEF ServiceState, NoService, ServiceRecord

\* A document is edited or invalidated.
LEMMA ChangeDocumentKeeps ==
  ASSUME DeployInv, NEW d \in Doc, ChangeDocument(d), CacheInv'
  PROVE  DeployInv'
<1> USE DEF DeployInv
<1>1. UNCHANGED <<load, program>> /\ Embedding /\ Embedding'
  BY DEF ChangeDocument, sourceVars, Embedding
<1>2. call'[Owner].at = call[Owner].at /\ call'[Owner].doc = call[Owner].doc
  BY DeploymentAssumption DEF ChangeDocument, Edit, Invalidate, CacheInv, CacheTypeOK, Call
<1>3. CASE Invalidate(d) /\ UNCHANGED <<making, service, request>>
  <2>1. content' = content
    BY <1>3 DEF Invalidate
  <2>2. StateOK' /\ OwnerMakes' /\ CopyIsContent' /\ Starting' /\ DaemonSets'
    BY <1>1, <1>2, <1>3, <2>1
    DEF StateOK, OwnerMakes, CopyIsContent, CopiedOf, Starting, DaemonSets, Quiet
  <2>3. ServedIsFingerprinted' /\ RequestsKnow' /\ ClaimsAreMet'
    BY <1>1, <1>3, <2>1
    DEF ServedIsFingerprinted, Served, RequestsKnow, Informed, UnderWay, ClaimsAreMet, ClaimsMet
  <2> QED  BY <2>2, <2>3
<1>4. ASSUME NEW part \in Part, NEW v \in Version, NEW inPlace \in BOOLEAN, Edit(d, part, v),
             making' = IF Has(making, d)
                         THEN [AfterEdit(making, d, part, v, inPlace) EXCEPT !.disturbed = TRUE]
                         ELSE making,
             service' = IF Reaches(d, part, inPlace)
                          THEN [AfterEdit(service, d, part, v, inPlace) EXCEPT !.reached = @ \cup {part}]
                          ELSE AfterEdit(service, d, part, v, inPlace),
             request' = [r \in Request |->
               IF UnderWay(r) /\ part = "name" /\ service.doc = d
                 THEN [request[r] EXCEPT !.renamed = TRUE] ELSE request[r]]
      PROVE  DeployInv'
  <2>1. /\ content' \in [Doc -> Sum]
        /\ \A e \in Doc \ {d} : content'[e] = content[e]
        /\ \A p \in Part \ {part} : content'[d][p] = content[d][p]
    BY <1>4, SumWithout DEF Edit, CacheInv, CacheTypeOK, Sum
  <2>2. /\ service' \in ServiceState /\ service'.up = service.up
        /\ service.up =>
             /\ service'.doc = service.doc /\ service'.fingerprint = service.fingerprint
             /\ service'.keyring = service.keyring /\ service'.replay = service.replay
             /\ service'.limit = service.limit /\ service'.disturbed = service.disturbed
             /\ service'.reached =
                  service.reached \cup (IF Reaches(d, part, inPlace) THEN {part} ELSE {})
             /\ \A p \in Copied \ service'.reached : service'.copied[p] = service.copied[p]
    <3>1. service \in ServiceState
      BY DEF StateOK
    <3>2. service' = EditOfService(d, part, v, inPlace)
      BY <1>4 DEF EditOfService
    <3> QED  BY <3>1, <3>2, EditedService
  <2>3. /\ making' \in MakingState /\ making'.up = making.up
        /\ making.up => making'.doc = making.doc
        /\ Has(making, d) => making'.disturbed
        /\ ~Has(making, d) => making' = making
    <3>1. CASE Has(making, d)
      <4>1. making \in MakingRecord /\ making.up
        BY <3>1, UpIsARecord DEF Has, StateOK
      <4>2. AfterEdit(making, d, part, v, inPlace) \in MakingRecord
            /\ AfterEdit(making, d, part, v, inPlace).doc = making.doc
        BY <4>1, MakingAfterEdit
      <4>3. making' = [AfterEdit(making, d, part, v, inPlace) EXCEPT !.disturbed = TRUE]
        BY <1>4, <3>1
      <4>4. making' \in MakingRecord /\ making'.doc = making.doc /\ making'.disturbed
        BY <4>2, <4>3 DEF MakingRecord
      <4> QED  BY <3>1, <4>1, <4>4 DEF MakingState, MakingRecord
    <3>2. CASE ~Has(making, d)
      BY <1>4, <3>2 DEF StateOK
    <3> QED  BY <3>1, <3>2
  <2>4. ASSUME NEW r \in Request
        PROVE  /\ request'[r] \in RequestState /\ request'[r].at = request[r].at
               /\ request'[r].got = request[r].got /\ request'[r].schema = request[r].schema
               /\ request'[r].rings = request[r].rings /\ request'[r].raised = request[r].raised
               /\ request'[r].unset = request[r].unset
               /\ request'[r].renamed =
                    (request[r].renamed \/ (UnderWay(r) /\ part = "name" /\ service.doc = d))
    <3>1. request[r] \in RequestState
      BY DEF StateOK
    <3>2. CASE UnderWay(r) /\ part = "name" /\ service.doc = d
      <4>1. request'[r] = [request[r] EXCEPT !.renamed = TRUE]
        BY <1>4, <3>2
      <4> QED  BY <3>1, <3>2, <4>1 DEF RequestState
    <3>3. CASE ~(UnderWay(r) /\ part = "name" /\ service.doc = d)
      <4>1. request'[r] = request[r]
        BY <1>4, <3>3
      <4>2. request[r].renamed \in BOOLEAN
        BY <3>1 DEF RequestState
      <4> QED  BY <3>1, <3>3, <4>1, <4>2
    <3> QED  BY <3>2, <3>3
  <2>5. StateOK' /\ OwnerMakes' /\ DaemonSets'
    <3>1. request' \in [Request -> RequestState]
      BY <1>4, <2>4
    <3> QED  BY <1>1, <1>2, <2>2, <2>3, <3>1 DEF StateOK, OwnerMakes, DaemonSets
  <2>6. CopyIsContent'
    <3> SUFFICES ASSUME making'.up, ~making'.disturbed PROVE making'.copied = [p \in Copied |-> content'[making'.doc][p]]
      BY DEF CopyIsContent, CopiedOf
    <3>1. making' = making /\ making.doc \in Doc \ {d}
      BY <2>3, UpIsARecord DEF Has, StateOK, MakingRecord
    <3>2. making.copied = CopiedOf(making.doc)
      BY <3>1 DEF CopyIsContent
    <3> QED  BY <2>1, <3>1, <3>2 DEF CopiedOf
  <2>7. Starting'
    BY <1>1, <2>2, <2>3, <2>4 DEF Starting, Quiet
  <2>8. service.up /\ "name" \notin service'.reached =>
          content'[service.doc]["name"] = content[service.doc]["name"]
    <3> SUFFICES ASSUME service.up, "name" \notin service'.reached
                 PROVE  content'[service.doc]["name"] = content[service.doc]["name"]
      OBVIOUS
    <3>1. service.doc \in Doc
      BY UpIsARecord DEF StateOK, ServiceRecord
    <3>2. service.doc # d \/ part # "name"
      BY <2>2 DEF Reaches, Has
    <3>3. "name" \in Part
      BY DEF Part
    <3> QED  BY <2>1, <3>1, <3>2, <3>3
  <2>9. ServedIsFingerprinted'
    <3> SUFFICES ASSUME service'.up, ~service'.disturbed, NEW p \in Part \ service'.reached
                 PROVE  service'.fingerprint[p] = Served'[p]
      BY DEF ServedIsFingerprinted
    <3>1. service.up /\ ~service.disturbed /\ p \notin service.reached
      BY <2>2
    <3>2. service.fingerprint[p] = Served[p]
      BY <3>1 DEF ServedIsFingerprinted
    <3>3. Served'[p] = IF p = "name" THEN content'[service'.doc]["name"] ELSE service'.copied[p]
      BY DEF Served
    <3>4. Served[p] = IF p = "name" THEN content[service.doc]["name"] ELSE service.copied[p]
      BY DEF Served
    <3>5. CASE p = "name"
      BY <2>2, <2>8, <3>1, <3>2, <3>3, <3>4, <3>5
    <3>6. CASE p # "name"
      <4>1. p \in Copied \ service'.reached
        BY <3>6 DEF Copied
      <4> QED  BY <2>2, <3>1, <3>2, <3>3, <3>4, <3>6, <4>1
    <3> QED  BY <3>5, <3>6
  <2>10. ASSUME NEW r \in Request PROVE Informed(r)' /\ ClaimsMet(r)'
    <3>1. Informed(r) /\ ClaimsMet(r)
      BY DEF RequestsKnow, ClaimsAreMet
    <3>2. CASE request[r].at = "new"
      <4>1. request'[r].at = "new" /\ request'[r].unset = request[r].unset
        BY <2>4, <3>2
      <4> QED  BY <1>1, <3>1, <4>1 DEF Informed, ClaimsMet, UnderWay
    <3>3. CASE request[r].at # "new"
      <4>1. service.up
        BY <3>3 DEF Starting, Quiet
      <4>2. Informed(r)'
        BY <1>1, <2>2, <2>4, <3>1, <4>1 DEF Informed, UnderWay
      <4>3. request[r].at \in {"claimed", "reserving"} =>
              request'[r].renamed \/ content'[service.doc]["name"] = Issued["name"]
        <5> SUFFICES ASSUME request[r].at \in {"claimed", "reserving"}, ~request'[r].renamed
                     PROVE  content'[service.doc]["name"] = Issued["name"]
          OBVIOUS
        <5>1. UnderWay(r) /\ service.doc \in Doc /\ "name" \in Part
          BY <4>1, UpIsARecord DEF UnderWay, StateOK, ServiceRecord, Part
        <5>2. ~request[r].renamed /\ ~(part = "name" /\ service.doc = d)
          BY <2>4, <5>1
        <5>3. content'[service.doc]["name"] = content[service.doc]["name"]
          BY <2>1, <5>1, <5>2
        <5> QED  BY <3>1, <5>2, <5>3 DEF ClaimsMet
      <4>4. ClaimsMet(r)'
        BY <2>2, <2>4, <3>1, <4>1, <4>3 DEF ClaimsMet
      <4> QED  BY <4>2, <4>4
    <3> QED  BY <3>2, <3>3
  <2> QED  BY <2>5, <2>6, <2>7, <2>9, <2>10 DEF RequestsKnow, ClaimsAreMet
<1> QED  BY <1>3, <1>4 DEF ChangeDocument

-----------------------------------------------------------------------------
(* The setters and the daemon *)

\* A service that is the same but for its settings, and a request of which nothing has
\* changed but what it knows of them.
ServesAlike ==
  /\ service'.up = service.up /\ service'.doc = service.doc /\ service'.copied = service.copied
  /\ service'.fingerprint = service.fingerprint /\ service'.reached = service.reached
  /\ service'.disturbed = service.disturbed

AnswersAlike(r) ==
  /\ request'[r].at = request[r].at /\ request'[r].schema = request[r].schema
  /\ request'[r].renamed = request[r].renamed

\* What a setter of an embedding program leaves to be shown: what the requests under way
\* are told.
LEMMA SetterKeeps ==
  ASSUME DeployInv, CacheInv', Embedding, service.up,
         UNCHANGED <<content, call, load, program, making>>,
         service' \in ServiceState, ServesAlike, request' \in [Request -> RequestState],
         \A r \in Request : AnswersAlike(r) /\ Informed(r)'
  PROVE  DeployInv'
<1> USE DEF DeployInv
<1>1. StateOK' /\ OwnerMakes' /\ CopyIsContent' /\ DaemonSets'
  BY DEF StateOK, OwnerMakes, CopyIsContent, CopiedOf, DaemonSets, Embedding
<1>2. ServedIsFingerprinted'
  BY DEF ServesAlike, ServedIsFingerprinted, Served
<1>3. Starting'
  BY DEF Starting, Quiet, Embedding, ServesAlike, AnswersAlike
<1>4. ClaimsAreMet' /\ RequestsKnow'
  BY DEF ClaimsAreMet, ClaimsMet, ServesAlike, AnswersAlike, RequestsKnow
<1> QED  BY <1>1, <1>2, <1>3, <1>4

\* The requests under way have seen the new keyring too.
LEMMA SetCapabilityKeyringKeeps ==
  ASSUME DeployInv, NEW ring \in Ring \cup {None}, SetCapabilityKeyring(ring), CacheInv'
  PROVE  DeployInv'
<1>1. service \in ServiceRecord
  BY UpIsARecord DEF DeployInv, StateOK, SetCapabilityKeyring
<1>2. /\ service' \in ServiceState /\ ServesAlike
      /\ service'.keyring = ring /\ service'.replay = service.replay
      /\ service'.limit = service.limit
  BY <1>1 DEF SetCapabilityKeyring, ServiceState, ServiceRecord, ServesAlike
<1>3. ASSUME NEW r \in Request
      PROVE  /\ request'[r] \in RequestState
             /\ AnswersAlike(r) /\ Informed(r)'
  <2>1. request[r] \in RequestState /\ Informed(r)
        /\ program' = program
    BY DEF DeployInv, StateOK, RequestsKnow, SetCapabilityKeyring
  <2>2. CASE UnderWay(r)
    <3>1. request'[r] = [request[r] EXCEPT !.rings = request[r].rings \cup {ring}]
      BY <2>2 DEF SetCapabilityKeyring
    <3>2. request'[r] \in RequestState
      BY <2>1, <3>1 DEF RequestState
    <3>3. /\ AnswersAlike(r)
          /\ request'[r].rings = request[r].rings \cup {ring} /\ request'[r].got = request[r].got
          /\ request'[r].raised = request[r].raised /\ request'[r].unset = request[r].unset
      BY <2>1, <3>1 DEF RequestState, AnswersAlike
    <3> QED  BY <1>2, <2>1, <3>2, <3>3 DEF Informed, Embedding, UnderWay, AnswersAlike
  <2>3. CASE ~UnderWay(r)
    <3>1. request'[r] = request[r]
      BY <2>3 DEF SetCapabilityKeyring
    <3> QED  BY <1>2, <2>1, <2>3, <3>1 DEF Informed, Embedding, UnderWay, AnswersAlike
  <2> QED  BY <2>2, <2>3
<1>4. request' \in [Request -> RequestState]
  BY <1>3 DEF SetCapabilityKeyring
<1>5. Embedding /\ service.up /\ UNCHANGED <<content, call, load, program, making>>
  BY DEF SetCapabilityKeyring, cacheVars, sourceVars
<1> QED  BY <1>2, <1>3, <1>4, <1>5, SetterKeeps

\* The requests under way know that the store was taken away.
LEMMA SetReplayStoreKeeps ==
  ASSUME DeployInv, NEW store \in Store \cup {None}, SetReplayStore(store), CacheInv'
  PROVE  DeployInv'
<1>1. service \in ServiceRecord
  BY UpIsARecord DEF DeployInv, StateOK, SetReplayStore
<1>2. /\ service' \in ServiceState /\ ServesAlike
      /\ service'.keyring = service.keyring /\ service'.replay = store
      /\ service'.limit = service.limit
  BY <1>1 DEF SetReplayStore, ServiceState, ServiceRecord, ServesAlike
<1>3. ASSUME NEW r \in Request
      PROVE  /\ request'[r] \in RequestState
             /\ AnswersAlike(r) /\ Informed(r)'
  <2>1. request[r] \in RequestState /\ Informed(r)
        /\ program' = program /\ Embedding
    BY DEF DeployInv, StateOK, RequestsKnow, SetReplayStore
  <2>2. CASE UnderWay(r)
    <3>1. request'[r] = [request[r] EXCEPT !.unset = request[r].unset \/ store = None]
      BY <2>2 DEF SetReplayStore
    <3>2. request'[r] \in RequestState
      BY <2>1, <3>1 DEF RequestState
    <3>3. /\ AnswersAlike(r)
          /\ request'[r].rings = request[r].rings /\ request'[r].got = request[r].got
          /\ request'[r].raised = request[r].raised
          /\ request'[r].unset = (request[r].unset \/ store = None)
      BY <2>1, <3>1 DEF RequestState, AnswersAlike
    <3> QED  BY <1>2, <2>1, <3>2, <3>3 DEF Informed, Embedding, UnderWay, AnswersAlike
  <2>3. CASE ~UnderWay(r)
    <3>1. request'[r] = request[r]
      BY <2>3 DEF SetReplayStore
    <3> QED  BY <1>2, <2>1, <2>3, <3>1 DEF Informed, Embedding, UnderWay, AnswersAlike
  <2> QED  BY <2>2, <2>3
<1>4. request' \in [Request -> RequestState]
  BY <1>3 DEF SetReplayStore
<1>5. Embedding /\ service.up /\ UNCHANGED <<content, call, load, program, making>>
  BY DEF SetReplayStore, cacheVars, sourceVars
<1> QED  BY <1>2, <1>3, <1>4, <1>5, SetterKeeps

\* The requests under way know that the limit was raised.
LEMMA SetMaxBodyBytesKeeps ==
  ASSUME DeployInv, NEW limit \in Limit, SetMaxBodyBytes(limit), CacheInv'
  PROVE  DeployInv'
<1>1. service \in ServiceRecord
  BY UpIsARecord DEF DeployInv, StateOK, SetMaxBodyBytes
<1> DEFINE new == LimitSet(limit)
<1>2. new \in Nat \ {0}
  BY <1>1, DeploymentAssumption DEF LimitSet, ServiceRecord
<1>3. /\ service' \in ServiceState /\ ServesAlike
      /\ service'.keyring = service.keyring /\ service'.replay = service.replay
      /\ service'.limit = new
  BY <1>1, <1>2 DEF SetMaxBodyBytes, ServiceState, ServiceRecord, ServesAlike
<1>4. ASSUME NEW r \in Request
      PROVE  /\ request'[r] \in RequestState
             /\ AnswersAlike(r) /\ Informed(r)'
  <2>1. request[r] \in RequestState /\ Informed(r)
        /\ program' = program /\ request[r].got \in Nat
    BY DEF DeployInv, StateOK, RequestsKnow, SetMaxBodyBytes, RequestState
  <2>2. CASE UnderWay(r)
    <3>1. request'[r] = [request[r] EXCEPT !.raised = request[r].raised \/ new > service.limit]
      BY <2>2 DEF SetMaxBodyBytes
    <3>2. request'[r] \in RequestState
      BY <2>1, <3>1 DEF RequestState
    <3>3. /\ AnswersAlike(r)
          /\ request'[r].rings = request[r].rings /\ request'[r].got = request[r].got
          /\ request'[r].raised = (request[r].raised \/ new > service.limit)
          /\ request'[r].unset = request[r].unset
      BY <2>1, <3>1 DEF RequestState, AnswersAlike
    <3>4. request[r].got > service.limit /\ ~(new > service.limit) => request[r].got > new
      BY <1>1, <1>2, <2>1 DEF ServiceRecord
    <3> QED  BY <1>3, <2>1, <3>2, <3>3, <3>4 DEF Informed, Embedding, UnderWay, AnswersAlike
  <2>3. CASE ~UnderWay(r)
    <3>1. request'[r] = request[r]
      BY <2>3 DEF SetMaxBodyBytes
    <3> QED  BY <1>3, <2>1, <2>3, <3>1 DEF Informed, Embedding, UnderWay, AnswersAlike
  <2> QED  BY <2>2, <2>3
<1>5. request' \in [Request -> RequestState]
  BY <1>4 DEF SetMaxBodyBytes
<1>6. Embedding /\ service.up /\ UNCHANGED <<content, call, load, program, making>>
  BY DEF SetMaxBodyBytes, cacheVars, sourceVars
<1> QED  BY <1>3, <1>4, <1>5, <1>6, SetterKeeps

\* Each step of the daemon's sets what its stage says.
LEMMA DaemonKeeps ==
  ASSUME DeployInv, Daemon, CacheInv'
  PROVE  DeployInv'
<1> USE DEF DeployInv
<1>1. /\ UNCHANGED <<content, call, load, making, request>>
      /\ ~Embedding /\ program.at # "stopped"
  BY DEF Daemon, cacheVars, sourceVars
<1>2. program \in [kind : {"daemon"}, key : {None, "unreadable"} \cup Ring, limit : Limit,
                  at : {"load", "limit", "listen", "up", "stopped"}]
  BY <1>1 DEF StateOK, ProgramState, Embedding
<1>3. program.at \in {"load", "limit", "listen"}
  BY <1>1, <1>2 DEF Daemon
<1>4. Quiet /\ Quiet'
  BY <1>1, <1>3 DEF Starting, Quiet
<1>5. RequestsKnow' /\ ClaimsAreMet'
  <2>1. \A r \in Request : request'[r].at = "new" /\ ~request'[r].unset
    BY <1>1, <1>4 DEF Quiet, RequestsKnow, Informed
  <2> QED
    BY <2>1 DEF RequestsKnow, Informed, UnderWay, ClaimsAreMet, ClaimsMet
<1>6. ASSUME NEW a \in {"limit", "listen", "up", "stopped"}, program' = [program EXCEPT !.at = a]
      PROVE  /\ program' \in ProgramState /\ ~Embedding' /\ program'.at = a
             /\ program'.key = program.key /\ program'.limit = program.limit
  BY <1>2, <1>6 DEF ProgramState, Embedding
<1>7. CASE program' = [program EXCEPT !.at = "stopped"] /\ service' = service
  <2>1. program' \in ProgramState /\ ~Embedding' /\ program'.at = "stopped"
    BY <1>6, <1>7
  <2>2. ~making.up
    <3>1. SUFFICES ASSUME making.up PROVE FALSE
      OBVIOUS
    <3>2. ~service.up /\ program.at = "load" /\ load = NoLoad
      BY <1>1, <3>1 DEF Starting
    <3>3. load.at = "none"
      BY <3>2 DEF NoLoad
    <3> QED  BY <3>2, <3>3 DEF Daemon
  <2> QED
    BY <1>1, <1>4, <1>5, <1>7, <2>1, <2>2
    DEF StateOK, OwnerMakes, CopyIsContent, Starting, ServedIsFingerprinted, Served, DaemonSets
<1>8. ASSUME NEW keyring \in Ring \cup {None}, NEW limit \in Nat \ {0},
             NEW a \in {"limit", "listen", "up"}, program' = [program EXCEPT !.at = a],
             service.up, service' = [service EXCEPT !.keyring = keyring, !.limit = limit],
             program.key = keyring,
             limit = (IF a # "limit" /\ program.limit > 0 THEN program.limit ELSE DefaultLimit)
      PROVE  DeployInv'
  <2>1. /\ program' \in ProgramState /\ ~Embedding' /\ program'.at = a
        /\ program'.key = program.key /\ program'.limit = program.limit
    BY <1>6, <1>8
  <2>2. service \in ServiceRecord
    BY <1>8, UpIsARecord DEF StateOK
  <2>3. /\ service' \in ServiceState /\ service'.up /\ ServesAlike
        /\ service'.keyring = keyring /\ service'.limit = limit
    BY <1>8, <2>2 DEF ServiceState, ServiceRecord, ServesAlike
  <2>4. ~making.up
    BY <1>1, <1>8 DEF Starting
  <2>5. StateOK' /\ OwnerMakes' /\ CopyIsContent' /\ ServedIsFingerprinted'
    BY <1>1, <1>8, <2>1, <2>3, <2>4
    DEF StateOK, OwnerMakes, CopyIsContent, ServedIsFingerprinted, Served, ServesAlike
  <2>6. Starting'
    BY <1>1, <1>4, <1>8, <2>3, <2>4 DEF Starting
  <2>7. DaemonSets'
    BY <1>8, <2>1, <2>3 DEF DaemonSets
  <2> QED  BY <1>5, <2>5, <2>6, <2>7
<1>9. CASE program.at = "load" /\ ~(load.at = "ended" /\ load.outcome # "loaded")
  <2>1. service.up /\ service.limit = DefaultLimit
    BY <1>1, <1>9 DEF Daemon, DaemonSets
  <2>2. service \in ServiceRecord
    BY <2>1, UpIsARecord DEF StateOK
  <2>3. CASE KeyRead(program.key)
    <3>1. program.key \in Ring \cup {None}
      BY <1>2, <2>3 DEF KeyRead
    <3>2. service' = [service EXCEPT !.keyring = program.key]
          /\ program' = [program EXCEPT !.at = "limit"]
      BY <1>9, <2>1, <2>3, <3>1 DEF Daemon
    <3>3. service' = [service EXCEPT !.keyring = program.key, !.limit = DefaultLimit]
      BY <2>1, <2>2, <3>2 DEF ServiceRecord
    <3> QED  BY <1>8, <2>1, <3>1, <3>2, <3>3, DeploymentAssumption
  <2>4. CASE ~KeyRead(program.key)
    BY <1>7, <1>9, <2>1, <2>4 DEF Daemon
  <2> QED  BY <2>3, <2>4
<1>10. CASE program.at = "load" /\ load.at = "ended" /\ load.outcome # "loaded"
  <2>1. ~service.up
    BY <1>1, <1>10 DEF Starting, NoLoad
  <2> QED  BY <1>7, <1>10, <2>1 DEF Daemon
<1>11. CASE program.at = "limit"
  <2>1. /\ service.up /\ service.limit = DefaultLimit /\ service.keyring = program.key
        /\ program.key \in Ring \cup {None}
    BY <1>1, <1>11 DEF DaemonSets
  <2>2. service \in ServiceRecord
    BY <2>1, UpIsARecord DEF StateOK
  <2> DEFINE limit == IF program.limit > 0 THEN program.limit ELSE DefaultLimit
  <2>3. limit \in Nat \ {0}
    <3>1. program.limit \in Limit /\ Limit \subseteq Nat
      BY <1>2, DeploymentAssumption
    <3>2. program.limit \in Nat /\ DefaultLimit \in Nat \ {0}
      BY <3>1, DeploymentAssumption
    <3> QED  BY <3>2
  <2>4. service' = [service EXCEPT !.limit = limit] /\ program' = [program EXCEPT !.at = "listen"]
    BY <1>11, <2>1 DEF Daemon, LimitSet
  <2>5. service' = [service EXCEPT !.keyring = program.key, !.limit = limit]
    BY <2>1, <2>2, <2>4 DEF ServiceRecord
  <2> HIDE DEF limit
  <2> QED  BY <1>8, <2>1, <2>3, <2>4, <2>5 DEF limit
<1>12. CASE program.at = "listen"
  <2>1. /\ service.up /\ service.keyring = program.key /\ program.key \in Ring \cup {None}
        /\ service.limit = IF program.limit > 0 THEN program.limit ELSE DefaultLimit
    BY <1>1, <1>12 DEF DaemonSets
  <2>2. service \in ServiceRecord
    BY <2>1, UpIsARecord DEF StateOK
  <2>3. service' = service /\ service.limit \in Nat \ {0}
        /\ \E a \in {"up", "stopped"} : program' = [program EXCEPT !.at = a]
    BY <1>12, <2>2 DEF Daemon, ServiceRecord
  <2>4. CASE program' = [program EXCEPT !.at = "up"]
    <3>1. service' = [service EXCEPT !.keyring = program.key, !.limit = service.limit]
      BY <2>1, <2>2, <2>3 DEF ServiceRecord
    <3> QED  BY <1>8, <2>1, <2>3, <2>4, <3>1
  <2> QED  BY <1>7, <2>3, <2>4
<1> QED  BY <1>3, <1>9, <1>10, <1>11, <1>12

-----------------------------------------------------------------------------
(* The requests *)

\* What a step of a request leaves to be shown: what it is told.
LEMMA AnswerKeeps ==
  ASSUME DeployInv, CacheInv', NEW r \in Request, NEW q \in RequestState,
         request' = [request EXCEPT ![r] = q],
         UNCHANGED <<cacheVars, sourceVars, program, making, service, changes>>,
         service.up, ~making.up, ~Embedding => program.at = "up",
         Informed(r)', ClaimsMet(r)'
  PROVE  DeployInv'
<1> USE DEF DeployInv
<1>1. request'[r] = q /\ \A s \in Request \ {r} : request'[s] = request[s]
  BY DEF StateOK
<1>2. content' = content /\ call' = call /\ load' = load
  BY DEF cacheVars, sourceVars
<1>3. StateOK' /\ OwnerMakes' /\ CopyIsContent' /\ ServedIsFingerprinted' /\ DaemonSets'
  BY <1>2 DEF StateOK, OwnerMakes, CopyIsContent, ServedIsFingerprinted, Served, DaemonSets, Embedding
<1>4. Starting'
  BY <1>2 DEF Starting, Embedding
<1>5. RequestsKnow' /\ ClaimsAreMet'
  <2>1. ASSUME NEW s \in Request \ {r} PROVE Informed(s)' /\ ClaimsMet(s)'
    BY <1>1, <1>2 DEF RequestsKnow, Informed, UnderWay, Embedding, ClaimsAreMet, ClaimsMet
  <2> QED  BY <2>1 DEF RequestsKnow, ClaimsAreMet
<1> QED  BY <1>3, <1>4, <1>5

\* A request that has come has a service, and no new one is being made.
LEMMA UpWhenUnderWay ==
  ASSUME DeployInv, NEW r \in Request, request[r].at # "new"
  PROVE  service.up /\ ~making.up /\ (~Embedding => program.at = "up")
BY DEF DeployInv, Starting, Quiet

\* A request that is refused has nothing more to be told.
LEMMA EndsKeeps ==
  ASSUME DeployInv, CacheInv', NEW r \in Request, request[r].at # "new",
         NEW how \in {"toolong", "refused"}, Ends(r, how),
         UNCHANGED <<cacheVars, sourceVars, program, making, service, changes>>
  PROVE  DeployInv'
<1> DEFINE q == [Fresh EXCEPT !.at = how]
<1>1. q \in RequestState /\ q.at = how /\ ~q.unset
  BY DEF Fresh, RequestState
<1>2. request' = [request EXCEPT ![r] = q] /\ request'[r] = q
  BY DEF Ends, DeployInv, StateOK
<1>3. Informed(r)' /\ ClaimsMet(r)'
  BY <1>1, <1>2 DEF Informed, UnderWay, ClaimsMet
<1> HIDE DEF q
<1> QED  BY <1>1, <1>2, <1>3, UpWhenUnderWay, AnswerKeeps

\* A request that goes on keeps what it was told.
LEMMA GoesKeeps ==
  ASSUME DeployInv, CacheInv', NEW r \in Request, request[r].at # "new",
         NEW at \in {"decoded", "guarded", "verified", "claimed", "reserving", "malformed", "panicked"},
         Goes(r, at),
         UNCHANGED <<cacheVars, sourceVars, program, making, service, changes>>,
         at \in {"decoded", "guarded", "verified", "claimed", "reserving"} =>
           service.keyring \in request[r].rings,
         at \in {"verified", "claimed", "reserving"} => "trusting" \in request[r].rings,
         at \in {"claimed", "reserving"} =>
           /\ service.fingerprint = Issued
           /\ request[r].renamed \/ content[service.doc]["name"] = Issued["name"],
         at = "reserving" => service.replay # None \/ request[r].unset,
         at = "panicked" => request[r].unset,
         at = "malformed" => request[r].raised
  PROVE  DeployInv'
<1> DEFINE q == [request[r] EXCEPT !.at = at]
<1>1. request[r] \in RequestState /\ Informed(r)
  BY DEF DeployInv, StateOK, RequestsKnow
<1>2. /\ q \in RequestState /\ q.at = at /\ q.rings = request[r].rings
      /\ q.unset = request[r].unset /\ q.raised = request[r].raised /\ q.renamed = request[r].renamed
  BY <1>1 DEF RequestState
<1>3. request' = [request EXCEPT ![r] = q] /\ request'[r] = q
  BY DEF Goes, DeployInv, StateOK
<1>4. Informed(r)' /\ ClaimsMet(r)'
  BY <1>1, <1>2, <1>3 DEF Informed, UnderWay, Embedding, ClaimsMet, cacheVars
<1> HIDE DEF q
<1> QED  BY <1>2, <1>3, <1>4, UpWhenUnderWay, AnswerKeeps

\* Each step of a request.
LEMMA RequestStepKeeps ==
  ASSUME DeployInv, NEW r \in Request, RequestStep(r), CacheInv'
  PROVE  DeployInv'
<1>1. /\ request[r] \in RequestState /\ Informed(r) /\ ClaimsMet(r)
      /\ UNCHANGED <<cacheVars, sourceVars, program, making, service, changes>>
  BY DEF DeployInv, StateOK, RequestsKnow, ClaimsAreMet, RequestStep
<1>2. CASE Receive(r)
  <2> DEFINE q == [Fresh EXCEPT !.at = "body", !.got = ReadUpTo(service.limit, BodyLength[r]),
                               !.rings = {service.keyring}]
  <2>1. service.up /\ ~making.up /\ (~Embedding => program.at = "up")
        /\ request' = [request EXCEPT ![r] = q]
    BY <1>2 DEF Receive
  <2>2. service \in ServiceRecord
    BY <2>1, UpIsARecord DEF DeployInv, StateOK
  <2>3. /\ ReadUpTo(service.limit, BodyLength[r]) \in Nat
        /\ \/ ReadUpTo(service.limit, BodyLength[r]) > service.limit
           \/ ReadUpTo(service.limit, BodyLength[r]) = BodyLength[r]
    BY <2>2, DeploymentAssumption DEF ReadUpTo, ServiceRecord
  <2>4. /\ q \in RequestState /\ q.at = "body" /\ q.rings = {service.keyring} /\ ~q.unset
        /\ q.got = ReadUpTo(service.limit, BodyLength[r])
    BY <2>2, <2>3 DEF Fresh, RequestState, ServiceRecord
  <2>5. request'[r] = q
    BY <2>1 DEF DeployInv, StateOK
  <2> HIDE DEF q
  <2>6. Informed(r)' /\ ClaimsMet(r)'
    BY <1>1, <2>3, <2>4, <2>5 DEF Informed, UnderWay, ClaimsMet
  <2> QED  BY <1>1, <2>1, <2>4, <2>6, AnswerKeeps
<1>3. CASE CheckBody(r)
  <2>1. request[r].at = "body" /\ service.keyring \in request[r].rings
        /\ (request[r].raised \/ request[r].got > service.limit \/ request[r].got = BodyLength[r])
    BY <1>1, <1>3 DEF CheckBody, Informed, UnderWay
  <2>2. CASE request[r].got > service.limit /\ Ends(r, "toolong")
    BY <1>1, <2>1, <2>2, EndsKeeps
  <2>3. CASE request[r].got <= service.limit /\ request[r].got < BodyLength[r]
             /\ Goes(r, "malformed")
    <3>1. service.limit \in Nat /\ request[r].got \in Nat /\ BodyLength[r] \in Nat
      BY <1>1, <2>1, UpWhenUnderWay, UpIsARecord, DeploymentAssumption
      DEF RequestState, DeployInv, StateOK, ServiceRecord
    <3>2. request[r].raised
      BY <2>1, <2>3, <3>1
    <3> QED  BY <1>1, <2>1, <2>3, <3>2, GoesKeeps
  <2>4. CASE Goes(r, "decoded")
    BY <1>1, <2>1, <2>4, GoesKeeps
  <2> QED  BY <1>3, <2>2, <2>3, <2>4 DEF CheckBody
<1>4. CASE CheckKeyring(r)
  <2>1. request[r].at = "decoded" /\ service.keyring \in request[r].rings
    BY <1>1, <1>4 DEF CheckKeyring, Informed, UnderWay
  <2> QED  BY <1>1, <1>4, <2>1, EndsKeeps, GoesKeeps DEF CheckKeyring
<1>5. CASE Verify(r)
  <2>1. request[r].at = "guarded" /\ service.keyring \in request[r].rings
    BY <1>1, <1>5 DEF Verify, Informed, UnderWay
  <2> QED  BY <1>1, <1>5, <2>1, EndsKeeps, GoesKeeps DEF Verify, Verifies
<1>6. CASE CheckClaims(r)
  <2>1. /\ request[r].at = "verified"
        /\ service.keyring \in request[r].rings /\ "trusting" \in request[r].rings
    BY <1>1, <1>6 DEF CheckClaims, Informed, UnderWay
  <2>2. CASE Ends(r, "refused")
    BY <1>1, <2>1, <2>2, EndsKeeps
  <2>3. CASE ClaimsFit /\ Goes(r, "claimed")
    BY <1>1, <2>1, <2>3, GoesKeeps DEF ClaimsFit
  <2> QED  BY <1>6, <2>2, <2>3 DEF CheckClaims
<1>7. CASE CheckStore(r)
  <2>1. /\ request[r].at = "claimed"
        /\ service.keyring \in request[r].rings /\ "trusting" \in request[r].rings
        /\ service.fingerprint = Issued
        /\ request[r].renamed \/ content[service.doc]["name"] = Issued["name"]
    BY <1>1, <1>7 DEF CheckStore, Informed, UnderWay, ClaimsMet
  <2>2. CASE Ends(r, "refused")
    BY <1>1, <2>1, <2>2, EndsKeeps
  <2>3. CASE service.replay # None /\ Goes(r, "reserving")
    BY <1>1, <2>1, <2>3, GoesKeeps
  <2> QED  BY <1>7, <2>2, <2>3 DEF CheckStore, StoreIsSet
<1>8. CASE Reserve(r)
  <2>1. /\ request[r].at = "reserving" /\ service.keyring \in request[r].rings
        /\ "trusting" \in request[r].rings /\ (service.replay # None \/ request[r].unset)
        /\ service.fingerprint = Issued
        /\ request[r].renamed \/ content[service.doc]["name"] = Issued["name"]
    BY <1>1, <1>8 DEF Reserve, Informed, UnderWay, ClaimsMet
  <2>2. CASE Goes(r, "panicked") /\ service.replay = None
    BY <1>1, <2>1, <2>2, GoesKeeps
  <2>3. CASE Ends(r, "refused")
    BY <1>1, <2>1, <2>3, EndsKeeps
  <2>4. CASE request' = [request EXCEPT ![r].at = "admitted",
                                        ![r].schema = content[service.doc]["name"]]
    <3> DEFINE q == [request[r] EXCEPT !.at = "admitted", !.schema = content[service.doc]["name"]]
    <3>1. service.up
      BY <2>1, UpWhenUnderWay
    <3>2. content[service.doc]["name"] \in Version
      <4>1. service.doc \in Doc
        BY <3>1, UpIsARecord DEF DeployInv, StateOK, ServiceRecord
      <4> QED  BY <4>1 DEF DeployInv, CacheInv, CacheTypeOK, Sum, Part
    <3>3. /\ q \in RequestState /\ q.at = "admitted" /\ q.schema = content[service.doc]["name"]
          /\ q.rings = request[r].rings /\ q.unset = request[r].unset
          /\ q.renamed = request[r].renamed
      BY <1>1, <3>2 DEF RequestState
    <3>4. request' = [request EXCEPT ![r] = q] /\ request'[r] = q
      BY <2>4 DEF DeployInv, StateOK
    <3> HIDE DEF q
    <3>5. Informed(r)' /\ ClaimsMet(r)'
      BY <1>1, <2>1, <3>3, <3>4 DEF Informed, UnderWay, Embedding, ClaimsMet
    <3> QED  BY <1>1, <2>1, <3>3, <3>4, <3>5, UpWhenUnderWay, AnswerKeeps
  <2> QED  BY <1>8, <2>2, <2>3, <2>4 DEF Reserve
<1> QED  BY <1>2, <1>3, <1>4, <1>5, <1>6, <1>7, <1>8 DEF RequestStep

-----------------------------------------------------------------------------
(* The deployment *)

\* The invariant at first.
LEMMA DeployInitially == Init => DeployInv
<1> SUFFICES ASSUME Init PROVE DeployInv
  OBVIOUS
<1>1. StateOK /\ CacheInv
  BY StateInitially, CacheInitially DEF Init
<1>2. /\ ~making.up /\ ~service.up /\ load = NoLoad
      /\ \A c \in Caller : call[c].at = "idle"
      /\ \A r \in Request : request[r].at = "new" /\ ~request[r].unset
  BY IdleIsACall DEF Init, CacheInit, SourceInit, NotMaking, NoService, Fresh
<1>3. ~Embedding => program.at = "load"
  BY DEF Init, Embedding, Flags
<1>4. OwnerMakes /\ CopyIsContent /\ ServedIsFingerprinted
  BY <1>2, DeploymentAssumption DEF OwnerMakes, CopyIsContent, ServedIsFingerprinted
<1>5. Starting /\ DaemonSets
  BY <1>2, <1>3 DEF Starting, DaemonSets, Quiet
<1>6. RequestsKnow /\ ClaimsAreMet
  BY <1>2 DEF RequestsKnow, Informed, UnderWay, ClaimsAreMet, ClaimsMet
<1> QED  BY <1>1, <1>4, <1>5, <1>6 DEF DeployInv

\* Every step keeps the invariant.
LEMMA DeployStepKeeps == DeployInv /\ [Next]_deploymentVars => DeployInv'
<1> SUFFICES ASSUME DeployInv, [Next]_deploymentVars PROVE DeployInv'
  OBVIOUS
<1>1. CacheInv'
  BY StepIsACacheStep, CacheStepKeeps DEF DeployInv, StateOK
<1>2. CASE LoadConfig \/ Fingerprint \/ Elsewhere \/ Daemon
  BY <1>1, <1>2, LoadConfigKeeps, FingerprintKeeps, ElsewhereKeeps, DaemonKeeps
<1>3. ASSUME NEW d \in Doc, Copy(d) \/ ChangeDocument(d) PROVE DeployInv'
  BY <1>1, <1>3, CopyKeeps, ChangeDocumentKeeps
<1>4. ASSUME NEW ring \in Ring \cup {None}, SetCapabilityKeyring(ring) PROVE DeployInv'
  BY <1>1, <1>4, SetCapabilityKeyringKeeps
<1>5. ASSUME NEW store \in Store \cup {None}, SetReplayStore(store) PROVE DeployInv'
  BY <1>1, <1>5, SetReplayStoreKeeps
<1>6. ASSUME NEW limit \in Limit, SetMaxBodyBytes(limit) PROVE DeployInv'
  BY <1>1, <1>6, SetMaxBodyBytesKeeps
<1>7. ASSUME NEW r \in Request, RequestStep(r) PROVE DeployInv'
  BY <1>1, <1>7, RequestStepKeeps
<1>8. CASE UNCHANGED deploymentVars
  <2>1. UNCHANGED <<content, cached, call, edited, overtaken, load, idle, passed, used,
                    program, making, service, request, changes>>
    BY <1>8 DEF deploymentVars, cacheVars, sourceVars, serviceVars
  <2>2. StateOK' /\ OwnerMakes' /\ CopyIsContent' /\ Starting' /\ DaemonSets'
        /\ ServedIsFingerprinted'
    BY <2>1 DEF DeployInv, StateOK, OwnerMakes, CopyIsContent, CopiedOf, Starting, DaemonSets,
       ServedIsFingerprinted, Served, Quiet, Embedding
  <2>3. RequestsKnow' /\ ClaimsAreMet'
    BY <2>1 DEF DeployInv, RequestsKnow, Informed, UnderWay, ClaimsAreMet, ClaimsMet, Embedding
  <2> QED  BY <1>1, <2>2, <2>3 DEF DeployInv
<1> QED  BY <1>2, <1>3, <1>4, <1>5, <1>6, <1>7, <1>8 DEF Next

\* What the invariant says of a request that was admitted.
LEMMA AdmittedIsServed == DeployInv => AdmittedForWhatIsServed
<1> SUFFICES ASSUME DeployInv, NEW r \in Request, request[r].at = "admitted"
             PROVE  /\ request[r].renamed \/ request[r].schema = Issued["name"]
                    /\ \/ service.disturbed
                       \/ \A p \in Copied \ service.reached : service.copied[p] = Issued[p]
  BY DEF AdmittedForWhatIsServed
<1>1. service.up /\ ClaimsMet(r)
  BY UpWhenUnderWay DEF DeployInv, ClaimsAreMet
<1>2. ASSUME ~service.disturbed, NEW p \in Copied \ service.reached
      PROVE  service.copied[p] = Issued[p]
  <2>1. p \in Part \ service.reached /\ p # "name"
    BY DEF Copied
  <2>2. service.fingerprint[p] = Served[p]
    BY <1>1, <1>2, <2>1 DEF DeployInv, ServedIsFingerprinted
  <2>3. Served[p] = service.copied[p]
    BY <2>1 DEF Served
  <2> QED  BY <1>1, <2>2, <2>3 DEF ClaimsMet
<1> QED  BY <1>1, <1>2 DEF ClaimsMet

\* What the theorems below are taken from.
THEOREM DeploymentInvariant == Spec => []DeployInv
<1> QED  BY DeployInitially, DeployStepKeeps, PTL DEF Spec

\* A deployment implements the specification of the cache: New and the goroutines of the
\* program are callers of Public and owners of documents, and nothing else touches it.
THEOREM DeploymentUsesTheCache == Spec => CacheSpec
<1>1. Init => CacheInit
  BY DEF Init
<1>2. DeployInv /\ [Next]_deploymentVars => [CacheNext]_cacheVars
  BY StepIsACacheStep DEF DeployInv, StateOK
<1> QED  BY <1>1, <1>2, DeploymentInvariant, PTL DEF Spec, CacheSpec

\* The entries of the documents that services are made of are current, or overtaken.
THEOREM ServedDocumentsAreCurrent == Spec => []StaleOnlyIfOvertaken
<1> QED  BY DeploymentUsesTheCache, CacheIsCurrent, PTL

\* Every service that is made of a document between two invalidations of it has the same
\* fingerprint.
THEOREM ServicesAgree == Spec => SumStands
<1> QED  BY DeploymentUsesTheCache, CacheIsAgreedOn, PTL

\* It implements that of the loads of configs as well.
THEOREM DeploymentLoads == Spec => SourceSpec
<1>1. Init => SourceInit
  BY DEF Init
<1>2. [Next]_deploymentVars => [SourceNext \/ Done]_sourceVars
  BY StepIsASourceStep
<1> QED  BY <1>1, <1>2, PTL DEF Spec, SourceSpec

\* A service's config comes from addresses that were checked, if it comes from a URL with
\* a policy.
THEOREM LoadsAreChecked == Spec => []OnlyCheckedIsDialled
<1> QED  BY DeploymentLoads, DialsAreChecked, PTL

\* And it is never a part of a longer one.
THEOREM LongConfigsAreRefused == Spec => []TooLongIsSaid
<1> QED  BY DeploymentLoads, TooLongIsTold, PTL

\* The fingerprint of a service is that of what it serves, unless an edit came between while
\* it was made: later edits change its name and the elements of its parameters alone.
THEOREM FingerprintIsOfWhatIsServed == Spec => []ServedIsFingerprinted
<1>1. DeployInv => ServedIsFingerprinted
  BY DEF DeployInv
<1> QED  BY <1>1, DeploymentInvariant, PTL

\* A request is admitted for the name, methods and conditions that its token was issued
\* for, except for what an edit that was not coordinated with it may do to them.
THEOREM AdmittedAsIssued == Spec => []AdmittedForWhatIsServed
<1>1. DeployInv => AdmittedForWhatIsServed
  BY AdmittedIsServed
<1> QED  BY <1>1, DeploymentInvariant, PTL

\* While the keyrings change under the requests, each is admitted by one that it met.
THEOREM TrustIsMet == Spec => []AdmittedOnlyIfTrusted
<1>1. DeployInv => AdmittedOnlyIfTrusted
  BY DEF DeployInv, RequestsKnow, Informed, AdmittedOnlyIfTrusted
<1> QED  BY <1>1, DeploymentInvariant, PTL

\* A request that panics has met the removal of the store, and not in the daemon.
THEOREM PanicsAreExplained == Spec => []PanicsOnlyIfUnset
<1>1. DeployInv => PanicsOnlyIfUnset
  BY DEF DeployInv, RequestsKnow, Informed, PanicsOnlyIfUnset
<1> QED  BY <1>1, DeploymentInvariant, PTL

\* A body that is cut off has met a higher limit.
THEOREM CutsAreExplained == Spec => []CutOnlyIfRaised
<1>1. DeployInv => CutOnlyIfRaised
  BY DEF DeployInv, RequestsKnow, Informed, CutOnlyIfRaised
<1> QED  BY <1>1, DeploymentInvariant, PTL

\* The daemon answers with the key and the limit of its flags or not at all.
THEOREM DaemonKeepsItsFlags == Spec => []DaemonServesAsTold
<1>1. DeployInv => DaemonServesAsTold
  BY DEF DeployInv, Starting, DaemonSets, DaemonServesAsTold
<1> QED  BY <1>1, DeploymentInvariant, PTL

\* The four together: whenever the settings are changed under the requests of an embedding
\* program, and in the daemon, they explain what the requests come to.
THEOREM OutcomesAreExplained == Spec => []SettingsExplainOutcomes
<1>1. AdmittedOnlyIfTrusted /\ PanicsOnlyIfUnset /\ CutOnlyIfRaised /\ DaemonServesAsTold
        => SettingsExplainOutcomes
  BY DEF SettingsExplainOutcomes
<1> QED  BY <1>1, TrustIsMet, PanicsAreExplained, CutsAreExplained, DaemonKeepsItsFlags, PTL

-----------------------------------------------------------------------------
(* The latest of some lines, and lines in their order *)

Less == {ss \in Nat \X Nat : ss[1] < ss[2]}

\* Of numbers up to a bound there is a latest.
LEMMA LatestExists ==
  ASSUME NEW n \in Nat, NEW S \in SUBSET (0 .. n), S # {}
  PROVE  Latest(S) \in S /\ \A j \in S : j <= Latest(S)
<1> DEFINE T == {k \in 0 .. n : n - k \in S}
<1>1. T # {} /\ T \subseteq Nat
  <2>1. PICK j \in S : TRUE
    OBVIOUS
  <2>2. j \in 0 .. n
    BY <2>1
  <2>3. n - j \in 0 .. n /\ n - (n - j) = j
    BY <2>2
  <2>4. n - j \in T
    BY <2>1, <2>3
  <2>5. \A k \in T : k \in Nat
    OBVIOUS
  <2> QED
    BY <2>4, <2>5
<1>2. WF!IsWellFoundedOn(Less, Nat)
  BY WF!NatLessThanWellFounded, Zenon DEF Less, WF!OpToRel
<1>3. PICK k \in T : \A l \in T : ~ (<<l, k>> \in Less)
  <2> HIDE DEF T
  <2> QED
    BY <1>1, <1>2, WF!WFMin
<1>4. n - k \in S /\ \A j \in S : j <= n - k
  <2>1. ASSUME NEW j \in S PROVE j <= n - k
    <3>1. n - j \in T /\ j \in Nat /\ k \in Nat
      BY <1>3
    <3>2. ~ (<<n - j, k>> \in Less)
      BY <1>3, <3>1
    <3>3. ~ (n - j < k)
      BY <3>1, <3>2 DEF Less
    <3> QED
      BY <3>1, <3>3
  <2> QED
    BY <1>3, <2>1
<1> QED
  BY <1>4, Zenon DEF Latest

\* There is one latest.
LEMMA LatestIs ==
  ASSUME NEW S \in SUBSET Nat, NEW m \in S, \A j \in S : j <= m
  PROVE  Latest(S) = m
<1>1. \A i \in S : (\A j \in S : j <= i) => i = m
  OBVIOUS
<1>2. Latest(S) \in S /\ \A j \in S : j <= Latest(S)
  BY Zenon DEF Latest
<1> QED
  BY <1>1, <1>2

\* The members of X up to n.
Upto(X, n) == {i \in X : i <= n}

\* A part grows by at most the next number.
LEMMA OneMore ==
  ASSUME NEW X \in SUBSET Nat, NEW n \in Nat
  PROVE  Upto(X, n + 1) = IF n + 1 \in X THEN Upto(X, n) \cup {n + 1} ELSE Upto(X, n)
<1>0. \A i \in X : i \in Nat
  OBVIOUS
<1>1. /\ \A i \in X : i <= n + 1 <=> (i <= n \/ i = n + 1)
      /\ n + 1 <= n + 1
  BY <1>0
<1>2. CASE n + 1 \in X
  <2>1. \A i : i \in Upto(X, n + 1) <=> i \in Upto(X, n) \cup {n + 1}
    BY <1>1, <1>2, Zenon DEF Upto
  <2> QED
    BY <1>2, <2>1
<1>3. CASE n + 1 \notin X
  <2>1. \A i : i \in Upto(X, n + 1) <=> i \in Upto(X, n)
    BY <1>1, <1>3, Zenon DEF Upto
  <2> QED
    BY <1>3, <2>1
<1> QED
  BY <1>2, <1>3

\* No part has a line before the first.
LEMMA NoneYet ==
  ASSUME NEW X \in SUBSET (Nat \ {0})
  PROVE  Upto(X, 0) = {}
<1>1. \A i \in X : i \in Nat /\ i # 0
  OBVIOUS
<1>2. \A i \in X : ~ (i <= 0)
  BY <1>1
<1>3. \A i : i \notin Upto(X, 0)
  BY <1>2, Zenon DEF Upto
<1> QED
  BY <1>3

\* Places count from 1 to the number of members, and tell members apart.
LEMMA PlacesTellApart ==
  ASSUME NEW n \in Nat, NEW S \in SUBSET (1 .. n)
  PROVE  /\ IsFiniteSet(S) /\ Cardinality(S) \in Nat
         /\ \A i \in S : Place(S, i) \in 1 .. Cardinality(S)
         /\ \A i, j \in S : Place(S, i) = Place(S, j) => i = j
         /\ \A k \in 1 .. Cardinality(S) : \E i \in S : Place(S, i) = k
<1>1. IsFiniteSet(1 .. n)
  BY FS_Interval
<1>2. IsFiniteSet(S) /\ Cardinality(S) \in Nat
  BY <1>1, FS_Subset, FS_CardinalityType
<1> DEFINE To(i) == {j \in S : j <= i}
<1>3. ASSUME NEW i \in S
      PROVE  IsFiniteSet(To(i)) /\ Cardinality(To(i)) \in 1 .. Cardinality(S)
  <2>1. IsFiniteSet(To(i)) /\ Cardinality(To(i)) <= Cardinality(S)
    BY <1>2, FS_Subset
  <2>2. Cardinality(To(i)) \in Nat
    BY <2>1, FS_CardinalityType
  <2>3. i \in To(i)
    OBVIOUS
  <2>4. Cardinality(To(i)) # 0
    BY <2>1, <2>3, FS_EmptySet
  <2> QED
    BY <1>2, <2>1, <2>2, <2>4
<1>4. ASSUME NEW i \in S, NEW j \in S, Place(S, i) = Place(S, j), i <= j
      PROVE  i = j
  <2>1. To(i) \in SUBSET To(j)
    <3>1. \A k \in S : k \in Nat
      OBVIOUS
    <3>2. \A k \in To(i) : k \in To(j)
      BY <1>4, <3>1
    <3> QED
      BY <3>2
  <2>2. Cardinality(To(i)) = Cardinality(To(j))
    BY <1>4 DEF Place
  <2>3. To(i) = To(j)
    BY <1>3, <2>1, <2>2, FS_Subset
  <2>4. j \in To(i)
    BY <2>3
  <2> QED
    BY <1>4, <2>4
<1>5. \A i, j \in S : Place(S, i) = Place(S, j) => i = j
  BY <1>4
<1>6. \A i \in S : Place(S, i) \in 1 .. Cardinality(S)
  BY <1>3 DEF Place
<1> DEFINE place == [i \in S |-> Place(S, i)]
<1>7. place \in Injection(S, 1 .. Cardinality(S))
  BY <1>5, <1>6 DEF Injection, IsInjective
<1>8. IsFiniteSet(1 .. Cardinality(S)) /\ Cardinality(1 .. Cardinality(S)) = Cardinality(S)
  BY <1>2, FS_Interval
<1>9. place \in Surjection(S, 1 .. Cardinality(S))
  <2> HIDE DEF place
  <2> QED
    BY <1>7, <1>8, FS_Injection
<1>10. \A k \in 1 .. Cardinality(S) : \E i \in S : place[i] = k
  BY <1>9 DEF Surjection
<1> QED
  BY <1>2, <1>5, <1>6, <1>10

\* InOrder lists the members, each once.
LEMMA InOrderLists ==
  ASSUME NEW n \in Nat, NEW S \in SUBSET (1 .. n)
  PROVE  /\ InOrder(S) \in Seq(S) /\ Len(InOrder(S)) = Cardinality(S) /\ Cardinality(S) \in Nat
         /\ \A i \in S : Place(S, i) \in DOMAIN InOrder(S) /\ InOrder(S)[Place(S, i)] = i
         /\ \A k \in DOMAIN InOrder(S) : InOrder(S)[k] \in S /\ Place(S, InOrder(S)[k]) = k
<1>1. /\ Cardinality(S) \in Nat
      /\ \A i \in S : Place(S, i) \in 1 .. Cardinality(S)
      /\ \A i, j \in S : Place(S, i) = Place(S, j) => i = j
      /\ \A k \in 1 .. Cardinality(S) : \E i \in S : Place(S, i) = k
  BY PlacesTellApart
<1>2. ASSUME NEW k \in 1 .. Cardinality(S)
      PROVE  InOrder(S)[k] \in S /\ Place(S, InOrder(S)[k]) = k
  <2>1. InOrder(S)[k] = CHOOSE i \in {j \in S : Place(S, j) = k} : TRUE
    BY DEF InOrder
  <2>2. \E i : i \in {j \in S : Place(S, j) = k} /\ TRUE
    BY <1>1
  <2>3. (CHOOSE i \in {j \in S : Place(S, j) = k} : TRUE) \in {j \in S : Place(S, j) = k}
    BY <2>2, Zenon
  <2> QED
    BY <2>1, <2>3
<1>3. InOrder(S) \in [1 .. Cardinality(S) -> S]
  BY <1>2 DEF InOrder
<1>4. InOrder(S) \in Seq(S) /\ Len(InOrder(S)) = Cardinality(S)
  BY <1>1, <1>3, LenProperties
<1>5. DOMAIN InOrder(S) = 1 .. Cardinality(S)
  BY <1>3
<1>6. \A i \in S : InOrder(S)[Place(S, i)] = i
  BY <1>1, <1>2
<1> QED
  BY <1>1, <1>2, <1>4, <1>5, <1>6

\* A member after all others comes last.
LEMMA InOrderAppends ==
  ASSUME NEW n \in Nat, NEW S \in SUBSET (1 .. n)
  PROVE  InOrder(S \cup {n + 1}) = Append(InOrder(S), n + 1)
<1> DEFINE T == S \cup {n + 1}
<1>1. IsFiniteSet(S) /\ Cardinality(S) \in Nat /\ (\A i \in S : Place(S, i) \in 1 .. Cardinality(S))
  BY PlacesTellApart
<1>0. n + 1 \notin S /\ \A i \in S : i \in Nat /\ i <= n
  OBVIOUS
<1>2. Cardinality(T) = Cardinality(S) + 1
  BY <1>0, <1>1, FS_AddElement
<1>3. ASSUME NEW i \in S PROVE Place(T, i) = Place(S, i)
  <2>1. \A j : j \in {l \in T : l <= i} <=> j \in {l \in S : l <= i}
    BY <1>0
  <2> QED
    BY <2>1 DEF Place
<1>4. Place(T, n + 1) = Cardinality(S) + 1
  <2>0. \A j \in T : j <= n + 1
    BY <1>0
  <2>1. \A j : j \in {l \in T : l <= n + 1} <=> j \in T
    BY <2>0, Zenon
  <2> QED
    BY <1>2, <2>1 DEF Place
<1>5. ASSUME NEW k \in 1 .. Cardinality(S) PROVE InOrder(T)[k] = InOrder(S)[k]
  <2>0. k # Cardinality(S) + 1
    BY <1>1
  <2>1. {j \in T : Place(T, j) = k} = {j \in S : Place(S, j) = k}
    <3>1. \A j : j \in {l \in T : Place(T, l) = k} <=> j \in {l \in S : Place(S, l) = k}
      BY <1>3, <1>4, <2>0, Zenon
    <3> HIDE DEF T
    <3> QED
      BY <3>1, Zenon
  <2>2. k \in 1 .. Cardinality(T)
    BY <1>1, <1>2
  <2> HIDE DEF T
  <2>3. InOrder(T)[k] = CHOOSE i \in {j \in T : Place(T, j) = k} : TRUE
    BY <2>2 DEF InOrder
  <2>4. InOrder(S)[k] = CHOOSE i \in {j \in S : Place(S, j) = k} : TRUE
    BY DEF InOrder
  <2> QED
    BY <2>1, <2>3, <2>4, Zenon
<1>6. InOrder(T)[Cardinality(S) + 1] = n + 1
  <2>0. \A j \in S : Place(S, j) # Cardinality(S) + 1
    BY <1>1
  <2>1. {j \in T : Place(T, j) = Cardinality(S) + 1} = {n + 1}
    <3>1. \A j : j \in {l \in T : Place(T, l) = Cardinality(S) + 1} <=> j \in {n + 1}
      BY <1>3, <1>4, <2>0, Zenon
    <3> HIDE DEF T
    <3> QED
      BY <3>1, Zenon
  <2>2. Cardinality(S) + 1 \in 1 .. Cardinality(T)
    BY <1>1, <1>2
  <2> HIDE DEF T
  <2>3. InOrder(T)[Cardinality(S) + 1]
          = CHOOSE i \in {j \in T : Place(T, j) = Cardinality(S) + 1} : TRUE
    BY <2>2 DEF InOrder
  <2> QED
    BY <2>1, <2>3
<1>7. /\ InOrder(S) \in Seq(S) /\ Len(InOrder(S)) = Cardinality(S)
      /\ DOMAIN InOrder(S) = 1 .. Cardinality(S)
  BY InOrderLists, LenProperties
<1>8. /\ Append(InOrder(S), n + 1) \in [1 .. Cardinality(S) + 1 -> T]
      /\ \A k \in 1 .. Cardinality(S) : Append(InOrder(S), n + 1)[k] = InOrder(S)[k]
      /\ Append(InOrder(S), n + 1)[Cardinality(S) + 1] = n + 1
  <2>1. InOrder(S) \in Seq(T)
    BY <1>7
  <2>2. Append(InOrder(S), n + 1) \in Seq(T) /\ Len(Append(InOrder(S), n + 1)) = Cardinality(S) + 1
    BY <1>7, <2>1, AppendProperties
  <2>3. Append(InOrder(S), n + 1) \in [1 .. Cardinality(S) + 1 -> T]
    BY <2>2, LenProperties
  <2>4. /\ \A k \in 1 .. Len(InOrder(S)) : Append(InOrder(S), n + 1)[k] = InOrder(S)[k]
        /\ Append(InOrder(S), n + 1)[Len(InOrder(S)) + 1] = n + 1
    BY <2>1, AppendProperties
  <2> QED
    BY <1>7, <2>3, <2>4
<1>9. DOMAIN InOrder(T) = 1 .. Cardinality(S) + 1
  BY <1>2 DEF InOrder
<1>10. DOMAIN Append(InOrder(S), n + 1) = 1 .. Cardinality(S) + 1
  BY <1>8
<1>11. \A k \in 1 .. Cardinality(S) + 1 : InOrder(T)[k] = Append(InOrder(S), n + 1)[k]
  <2> TAKE k \in 1 .. Cardinality(S) + 1
  <2>1. k \in 1 .. Cardinality(S) \/ k = Cardinality(S) + 1
    BY <1>1
  <2> QED
    BY <1>5, <1>6, <1>8, <2>1
<1>12. InOrder(T) = [k \in 1 .. Cardinality(S) + 1 |-> InOrder(T)[k]]
  BY <1>2 DEF InOrder
<1>13. Append(InOrder(S), n + 1) = [k \in 1 .. Cardinality(S) + 1 |-> Append(InOrder(S), n + 1)[k]]
  BY <1>8
<1> HIDE DEF T
<1>14. InOrder(T) = Append(InOrder(S), n + 1)
  BY <1>11, <1>12, <1>13
<1> QED
  BY <1>14 DEF T

-----------------------------------------------------------------------------
(* The lines of a file and what they are nested under *)

Lines == 1 .. Len(file)

\* What ParserAssumption says of the lines of a file.
LEMMA LinesAreLines ==
  ASSUME file \in Seq(Line)
  PROVE  /\ Len(file) \in Nat /\ DOMAIN file = Lines
         /\ \A i \in Lines : file[i] \in Line /\ file[i].indent \in {0, 2, 4}
                             /\ (file[i].indent = 0 => file[i].value # "")
                             /\ file[i].value \in Value
<1>1. Len(file) \in Nat /\ DOMAIN file = Lines /\ \A i \in Lines : file[i] \in Line
  BY LenProperties DEF Lines
<1>2. ASSUME NEW l \in Line
      PROVE  l.indent \in {0, 2, 4} /\ (l.indent = 0 => l.value # "") /\ l.value \in Value
  <2>1. CASE l \in [indent : {0}, key : Key \cup {NoKey}, value : Value \ {""}]
    <3>1. l.indent \in {0} /\ l.value \in Value \ {""}
      BY <2>1, Zenon
    <3> QED
      BY <3>1, Zenon
  <2>2. CASE l \in [indent : {2, 4}, key : Key \cup {NoKey}, value : Value]
    <3>1. l.indent \in {2, 4} /\ l.value \in Value
      BY <2>2, Zenon
    <3>2. l.indent # 0 /\ l.indent \in {0, 2, 4}
      BY <3>1
    <3> QED
      BY <3>1, <3>2, Zenon
  <2> QED
    BY <2>1, <2>2 DEF Line
<1> QED
  BY <1>1, <1>2

\* The first lines of a file are lines of the file.
LEMMA FirstLines ==
  ASSUME file \in Seq(Line), NEW n \in 0 .. Len(file)
  PROVE  n \in Nat /\ \A i : i \in 1 .. n <=> i \in Lines /\ i <= n
<1>1. Len(file) \in Nat
  BY LinesAreLines
<1>2. n \in Nat /\ n <= Len(file)
  BY <1>1
<1> QED
  BY <1>1, <1>2 DEF Lines

\* The latest of the first n lines whose indentation is less than d.
Above(d, n) == Latest({0} \cup {j \in 1 .. n : file[j].indent < d})

\* It is one of them, or 0, and no later one is indented less.
LEMMA AboveIs ==
  ASSUME NEW d, NEW n \in Nat
  PROVE  /\ Above(d, n) \in 0 .. n
         /\ Above(d, n) # 0 => file[Above(d, n)].indent < d
         /\ \A j \in 1 .. n : file[j].indent < d => j <= Above(d, n)
<1> DEFINE S == {0} \cup {j \in 1 .. n : file[j].indent < d}
<1>1. S \in SUBSET (0 .. n) /\ S # {}
  <2>1. \A j \in 1 .. n : j \in 0 .. n
    OBVIOUS
  <2>2. 0 \in 0 .. n
    OBVIOUS
  <2> QED
    BY <2>1, <2>2, Zenon
<1> HIDE DEF S
<1>2. Latest(S) \in S /\ \A j \in S : j <= Latest(S)
  BY <1>1, LatestExists
<1> QED
  BY <1>1, <1>2 DEF S, Above

LEMMA AboveBefore ==
  ASSUME NEW d
  PROVE  Above(d, 0) = 0
BY AboveIs

\* The next line takes its place if it is indented less.
LEMMA AboveNext ==
  ASSUME NEW d, NEW n \in Nat
  PROVE  Above(d, n + 1) = IF file[n + 1].indent < d THEN n + 1 ELSE Above(d, n)
<1>1. /\ Above(d, n) \in 0 .. n
      /\ Above(d, n) # 0 => file[Above(d, n)].indent < d
      /\ \A j \in 1 .. n : file[j].indent < d => j <= Above(d, n)
  BY AboveIs
<1>2. /\ Above(d, n + 1) \in 0 .. n + 1
      /\ Above(d, n + 1) # 0 => file[Above(d, n + 1)].indent < d
      /\ \A j \in 1 .. n + 1 : file[j].indent < d => j <= Above(d, n + 1)
  BY AboveIs
<1>3. CASE file[n + 1].indent < d
  <2>1. n + 1 \in 1 .. n + 1
    OBVIOUS
  <2>2. n + 1 <= Above(d, n + 1)
    BY <1>2, <1>3, <2>1
  <2> QED
    BY <1>2, <1>3, <2>2
<1>4. CASE ~ (file[n + 1].indent < d)
  <2>1. Above(d, n + 1) # n + 1
    BY <1>2, <1>4
  <2>2. Above(d, n + 1) \in 0 .. n
    BY <1>2, <2>1
  <2>3. Above(d, n + 1) <= Above(d, n)
    BY <1>1, <1>2, <2>2
  <2>4. Above(d, n) <= Above(d, n + 1)
    BY <1>1, <1>2
  <2> QED
    BY <1>1, <1>4, <2>2, <2>3, <2>4
<1> QED
  BY <1>3, <1>4

\* A parent is the latest line before that is indented less.
LEMMA ParentIsAbove ==
  ASSUME NEW i \in Nat
  PROVE  Parent(i) = Above(file[i].indent, i - 1)
BY Zenon DEF Parent, Above

\* A line is nested under one before it, which is less indented.
LEMMA ParentIsBefore ==
  ASSUME NEW i \in Nat \ {0}
  PROVE  /\ Parent(i) \in 0 .. (i - 1)
         /\ Parent(i) # 0 => file[Parent(i)].indent < file[i].indent
<1>1. i - 1 \in Nat
  OBVIOUS
<1> QED
  BY <1>1, ParentIsAbove, AboveIs

\* The lines of the whole file that are top-level ones with a key, and those that are
\* nested under some.
Heads(key) == Tops(key, Len(file))
Within(P) == Under(P, Len(file))

LEMMA LinesOfFile ==
  ASSUME NEW key, NEW P, NEW X \in SUBSET Lines
  PROVE  Heads(key) \in SUBSET Lines /\ Within(P) \in SUBSET Lines
         /\ Having(key, X) \in SUBSET Lines
BY DEF Heads, Within, Tops, Under, Having, Lines

\* What the first n lines have of them.
LEMMA UptoOfTops ==
  ASSUME file \in Seq(Line), NEW n \in 0 .. Len(file), NEW key
  PROVE  Tops(key, n) = Upto(Heads(key), n)
<1>1. \A i : i \in 1 .. n <=> i \in Lines /\ i <= n
  BY FirstLines
<1>2. \A i : i \in Tops(key, n) <=> i \in Upto(Heads(key), n)
  BY <1>1, Zenon DEF Tops, Heads, Upto, Lines
<1> QED
  BY <1>2

\* As parents come first, the first lines nest what the file nests, as far as they go.
LEMMA UptoOfUnder ==
  ASSUME file \in Seq(Line), NEW n \in 0 .. Len(file), NEW P \in SUBSET Lines
  PROVE  Under(Upto(P, n), n) = Upto(Within(P), n)
<1>1. \A i : i \in 1 .. n <=> i \in Lines /\ i <= n
  BY FirstLines
<1>2. \A i \in 1 .. n : Parent(i) <= n
  <2> TAKE i \in 1 .. n
  <2>1. n \in Nat /\ i \in Nat \ {0}
    BY FirstLines
  <2>2. Parent(i) \in 0 .. (i - 1)
    BY <2>1, ParentIsBefore
  <2> QED
    BY <2>1, <2>2
<1>3. \A i : i \in Under(Upto(P, n), n) <=> i \in Upto(Within(P), n)
  BY <1>1, <1>2, Zenon DEF Under, Within, Upto, Lines
<1> QED
  BY <1>3

LEMMA UptoOfHaving ==
  ASSUME NEW n, NEW key, NEW X
  PROVE  Having(key, Upto(X, n)) = Upto(Having(key, X), n)
BY DEF Having, Upto

\* What lines are nested under one is in that place from the line on.
LEMMA UnderOne ==
  ASSUME file \in Seq(Line), NEW n \in 0 .. Len(file), NEW h \in 1 .. n
  PROVE  Under({h}, n) = Upto(Within({h}), n)
<1>1. Upto({h}, n) = {h} /\ {h} \in SUBSET Lines
  <2>1. n \in Nat /\ h \in Lines /\ h <= n
    BY FirstLines
  <2> QED
    BY <2>1 DEF Upto
<1> QED
  BY <1>1, UptoOfUnder

-----------------------------------------------------------------------------
(* What one more line adds to a value and to a list *)

\* The latest value is the next line's, if the line is one of them.
LEMMA LatestValueNext ==
  ASSUME NEW X \in SUBSET (Nat \ {0}), NEW n \in Nat
  PROVE  LatestValue(Upto(X, n + 1))
           = IF n + 1 \in X THEN file[n + 1].value ELSE LatestValue(Upto(X, n))
<1>1. CASE n + 1 \in X
  <2>1. n + 1 \in Upto(X, n + 1) /\ Upto(X, n + 1) \in SUBSET Nat
        /\ \A j \in Upto(X, n + 1) : j <= n + 1
    <3>1. n + 1 <= n + 1 /\ \A i \in X : i \in Nat
      OBVIOUS
    <3> QED
      BY <1>1, <3>1, Zenon DEF Upto
  <2>2. Latest(Upto(X, n + 1)) = n + 1
    BY <2>1, LatestIs
  <2> QED
    BY <1>1, <2>1, <2>2 DEF LatestValue
<1>2. CASE n + 1 \notin X
  BY <1>2, OneMore
<1> QED
  BY <1>1, <1>2

\* A list in order grows at its end.
LEMMA InOrderNext ==
  ASSUME file \in Seq(Line), NEW X \in SUBSET Lines, NEW n \in Nat
  PROVE  InOrder(Upto(X, n + 1))
           = IF n + 1 \in X THEN Append(InOrder(Upto(X, n)), n + 1) ELSE InOrder(Upto(X, n))
<1>1. X \in SUBSET Nat
  BY DEF Lines
<1>2. Upto(X, n + 1) = IF n + 1 \in X THEN Upto(X, n) \cup {n + 1} ELSE Upto(X, n)
  BY <1>1, OneMore
<1>3. Upto(X, n) \in SUBSET (1 .. n)
  <2>1. \A i \in X : i <= n => i \in 1 .. n
    <3>1. Len(file) \in Nat
      BY LinesAreLines
    <3>2. \A i \in X : i \in Nat \ {0}
      BY <3>1 DEF Lines
    <3> QED
      BY <3>2
  <2> QED
    BY <2>1, Zenon DEF Upto
<1> QED
  BY <1>2, <1>3, InOrderAppends

-----------------------------------------------------------------------------
(* The values of the members of a list *)

Listed(f, s) == [k \in DOMAIN s |-> f[s[k]]]
Image(f, S) == {f[x] : x \in S}

\* The values are as many as the members, and each is its member's.
LEMMA ListedIs ==
  ASSUME NEW S, NEW s \in Seq(S), NEW f
  PROVE  /\ Listed(f, s) \in Seq(Image(f, S))
         /\ Len(Listed(f, s)) = Len(s) /\ Len(s) \in Nat
         /\ DOMAIN Listed(f, s) = 1 .. Len(s) /\ DOMAIN s = 1 .. Len(s)
         /\ \A k \in 1 .. Len(s) : Listed(f, s)[k] = f[s[k]] /\ s[k] \in S
<1>1. Len(s) \in Nat /\ DOMAIN s = 1 .. Len(s) /\ \A k \in 1 .. Len(s) : s[k] \in S
  BY LenProperties
<1>2. /\ DOMAIN Listed(f, s) = 1 .. Len(s)
      /\ \A k \in 1 .. Len(s) : Listed(f, s)[k] = f[s[k]]
  BY <1>1, Zenon DEF Listed
<1>3. \A k \in 1 .. Len(s) : f[s[k]] \in Image(f, S)
  BY <1>1 DEF Image
<1>4. Listed(f, s) = [k \in 1 .. Len(s) |-> f[s[k]]]
  BY <1>1, Zenon DEF Listed
<1>5. Listed(f, s) \in [1 .. Len(s) -> Image(f, S)]
  BY <1>3, <1>4, Zenon
<1>6. Listed(f, s) \in Seq(Image(f, S)) /\ Len(Listed(f, s)) = Len(s)
  BY <1>1, <1>5, LenProperties
<1> QED
  BY <1>1, <1>2, <1>6

\* Two lists are one if they have the same members.
LEMMA SameList ==
  ASSUME NEW S, NEW T, NEW s \in Seq(S), NEW t \in Seq(T), Len(s) = Len(t),
         \A k \in 1 .. Len(s) : s[k] = t[k]
  PROVE  s = t
<1>1. /\ s = [k \in 1 .. Len(s) |-> s[k]]
      /\ t = [k \in 1 .. Len(t) |-> t[k]]
  BY LenProperties
<1>2. [k \in 1 .. Len(s) |-> s[k]] = [k \in 1 .. Len(t) |-> t[k]]
  BY Zenon
<1> QED
  BY <1>1, <1>2

\* A new member adds its value at the end.
LEMMA ListedAppends ==
  ASSUME NEW S, NEW s \in Seq(S), NEW f, NEW x
  PROVE  Listed(f, Append(s, x)) = Append(Listed(f, s), f[x])
<1> DEFINE U == S \cup {x}
           V == Image(f, U)
<1>1. s \in Seq(U) /\ x \in U
  OBVIOUS
<1>2. /\ Append(s, x) \in Seq(U) /\ Len(Append(s, x)) = Len(s) + 1 /\ Len(s) \in Nat
      /\ Append(s, x)[Len(s) + 1] = x
      /\ \A k \in 1 .. Len(s) : Append(s, x)[k] = s[k]
  BY <1>1, AppendProperties, LenProperties
<1>3. /\ Listed(f, s) \in Seq(V) /\ Len(Listed(f, s)) = Len(s)
      /\ \A k \in 1 .. Len(s) : Listed(f, s)[k] = f[s[k]]
  BY <1>1, ListedIs
<1>4. f[x] \in V
  BY <1>1 DEF Image
<1> HIDE DEF U
<1>5. /\ Listed(f, Append(s, x)) \in Seq(V)
      /\ Len(Listed(f, Append(s, x))) = Len(s) + 1
      /\ \A k \in 1 .. Len(s) + 1 : Listed(f, Append(s, x))[k] = f[Append(s, x)[k]]
  <2>1. Append(s, x) \in Seq(U)
    BY <1>2
  <2>2. \A t \in Seq(U) : /\ Listed(f, t) \in Seq(V) /\ Len(Listed(f, t)) = Len(t)
                          /\ \A k \in 1 .. Len(t) : Listed(f, t)[k] = f[t[k]]
    BY ListedIs
  <2>3. /\ Listed(f, Append(s, x)) \in Seq(V)
        /\ Len(Listed(f, Append(s, x))) = Len(Append(s, x))
        /\ \A k \in 1 .. Len(Append(s, x)) : Listed(f, Append(s, x))[k] = f[Append(s, x)[k]]
    BY <2>1, <2>2, Zenon
  <2> QED
    BY <1>2, <2>3, Zenon
<1> HIDE DEF V
<1>6. /\ Append(Listed(f, s), f[x]) \in Seq(V)
      /\ Len(Append(Listed(f, s), f[x])) = Len(s) + 1
      /\ Append(Listed(f, s), f[x])[Len(s) + 1] = f[x]
      /\ \A k \in 1 .. Len(s) : Append(Listed(f, s), f[x])[k] = Listed(f, s)[k]
  BY <1>3, <1>4, AppendProperties
<1>7. \A k \in 1 .. Len(s) + 1 : Listed(f, Append(s, x))[k] = Append(Listed(f, s), f[x])[k]
  <2> TAKE k \in 1 .. Len(s) + 1
  <2>1. k \in 1 .. Len(s) \/ k = Len(s) + 1
    BY <1>2
  <2> QED
    BY <1>2, <1>3, <1>5, <1>6, <2>1
<1> QED
  BY <1>5, <1>6, <1>7, SameList

\* Members that have the same values have one list of them.
LEMMA ListedAlike ==
  ASSUME NEW S, NEW s \in Seq(S), NEW f, NEW g, \A x \in S : f[x] = g[x]
  PROVE  Listed(f, s) = Listed(g, s)
<1>1. \A k \in DOMAIN s : s[k] \in S
  BY LenProperties
<1> QED
  BY <1>1, Zenon DEF Listed

\* Values that differ for the last member only.
LEMMA ListedButLast ==
  ASSUME NEW S, NEW s \in Seq(S), NEW x \in S, NEW k \in DOMAIN s, s[k] = x,
         \A l \in DOMAIN s : s[l] = x => l = k,
         NEW f, NEW g, \A y \in S : y # x => f[y] = g[y]
  PROVE  Listed(g, s) = [Listed(f, s) EXCEPT ![k] = g[x]]
<1>1. \A l \in DOMAIN s : s[l] \in S
  BY LenProperties
<1>2. \A l \in DOMAIN s : l # k => f[s[l]] = g[s[l]]
  BY <1>1
<1> QED
  BY <1>2, Zenon DEF Listed

-----------------------------------------------------------------------------
(* What a file declares, in parts that each depend on some of its lines *)

InSchema == Within(Heads("schema"))
RouteLines == Having("@route", InSchema)
ServiceLines == Having("service", InSchema)
MetadataLines == Having("@metadata", InSchema)
FieldLines(f) == Having(f, Within(MetadataLines))
RuleLines == Within(Heads("relations"))

SideKey(s) == IF s = "input" THEN "@args_input" ELSE "@args_output"

InMethod(h) == Within({h})
ExecLines(h) == Having("@exec", InMethod(h))
SideLines(h, s) == Having(SideKey(s), InMethod(h))
ArgumentLines(h, s) == Having("decl_args", Within(SideLines(h, s)))
FormatLines(h) == Having("decl_format", Within(SideLines(h, "output")))

CountAt(h, s, n) ==
  IF Upto(SideLines(h, s), n) = {} THEN -1 ELSE CountOf[LatestValue(Upto(SideLines(h, s), n))]

ArgumentsAt(h, s, n) ==
  IF Upto(ArgumentLines(h, s), n) = {} THEN <<>>
  ELSE ParamsOf[LatestValue(Upto(ArgumentLines(h, s), n))]

MethodAt(h, n) ==
  [ref |-> file[h].value,
   exec |-> LatestValue(Upto(ExecLines(h), n)),
   count |-> [s \in Side |-> CountAt(h, s, n)],
   args |-> [s \in Side |-> ArgumentsAt(h, s, n)],
   format |-> LatestValue(Upto(FormatLines(h), n))]

Values == [i \in Lines |-> file[i].value]
RuleOf == [i \in Lines |-> [name |-> file[i].key, condition |-> file[i].value]]
MethodOf(n) == [h \in Lines |-> MethodAt(h, n)]

DocumentAt(n) ==
  [name |-> LatestValue(Upto(Heads("schema"), n)),
   route |-> LatestValue(Upto(RouteLines, n)),
   metadata |-> [f \in Field |-> LatestValue(Upto(FieldLines(f), n))],
   services |-> Listed(Values, InOrder(Upto(ServiceLines, n))),
   methods |-> Listed(MethodOf(n), InOrder(Upto(Heads("method"), n))),
   relationsName |-> LatestValue(Upto(Heads("relations"), n)),
   relations |-> Listed(RuleOf, InOrder(Upto(RuleLines, n)))]

\* The lines that the parts depend on are lines of the file.
LEMMA PartsAreLines ==
  /\ \A key : Heads(key) \in SUBSET Lines
  /\ InSchema \in SUBSET Lines /\ RouteLines \in SUBSET Lines
  /\ ServiceLines \in SUBSET Lines /\ MetadataLines \in SUBSET Lines
  /\ RuleLines \in SUBSET Lines
  /\ \A f : FieldLines(f) \in SUBSET Lines
  /\ \A h : InMethod(h) \in SUBSET Lines /\ ExecLines(h) \in SUBSET Lines
            /\ FormatLines(h) \in SUBSET Lines
  /\ \A h, s : SideLines(h, s) \in SUBSET Lines /\ ArgumentLines(h, s) \in SUBSET Lines
<1>1. \A key, P : Heads(key) \in SUBSET Lines /\ Within(P) \in SUBSET Lines
  BY LinesOfFile
<1>2. \A key : \A X \in SUBSET Lines : Having(key, X) \in SUBSET Lines
  BY LinesOfFile
<1> QED
  BY <1>1, <1>2, Zenon DEF InSchema, RouteLines, ServiceLines, MetadataLines, RuleLines,
       FieldLines, InMethod, ExecLines, FormatLines, SideLines, ArgumentLines

\* A method by its parts is the method that the lines nest.
LEMMA MethodIs ==
  ASSUME file \in Seq(Line), NEW n \in 0 .. Len(file), NEW h \in 1 .. n
  PROVE  NestedMethod(h, n) = MethodAt(h, n)
<1>1. Under({h}, n) = Upto(InMethod(h), n)
  BY UnderOne DEF InMethod
<1>2. Having("@exec", Upto(InMethod(h), n)) = Upto(ExecLines(h), n)
  BY UptoOfHaving DEF ExecLines
<1>3. ASSUME NEW s \in Side
      PROVE  Having(SideKey(s), Upto(InMethod(h), n)) = Upto(SideLines(h, s), n)
  BY UptoOfHaving DEF SideLines
<1>4. ASSUME NEW s \in Side, NEW key
      PROVE  Having(key, Under(Upto(SideLines(h, s), n), n))
               = Upto(Having(key, Within(SideLines(h, s))), n)
  <2>1. SideLines(h, s) \in SUBSET Lines
    BY PartsAreLines
  <2> QED
    BY <2>1, UptoOfUnder, UptoOfHaving
<1>5. \A s \in Side : Having("decl_args", Under(Upto(SideLines(h, s), n), n))
                        = Upto(ArgumentLines(h, s), n)
  BY <1>4 DEF ArgumentLines
<1>6. "output" \in Side
  BY DEF Side
<1>7. Having("decl_format", Under(Upto(SideLines(h, "output"), n), n)) = Upto(FormatLines(h), n)
  BY <1>4, <1>6 DEF FormatLines
<1> DEFINE side(s) == Having(SideKey(s), Upto(InMethod(h), n))
           args(s) == Having("decl_args", Under(side(s), n))
<1>8. NestedMethod(h, n)
        = [ref |-> file[h].value,
           exec |-> LatestValue(Upto(ExecLines(h), n)),
           count |-> [s \in Side |-> IF side(s) = {} THEN -1 ELSE CountOf[LatestValue(side(s))]],
           args |-> [s \in Side |-> IF args(s) = {} THEN <<>> ELSE ParamsOf[LatestValue(args(s))]],
           format |-> LatestValue(Having("decl_format", Under(side("output"), n)))]
  BY <1>1, <1>2, Zenon DEF NestedMethod, SideKey
<1>9. /\ \A s \in Side : side(s) = Upto(SideLines(h, s), n)
      /\ \A s \in Side : args(s) = Upto(ArgumentLines(h, s), n)
      /\ Having("decl_format", Under(side("output"), n)) = Upto(FormatLines(h), n)
  BY <1>3, <1>5, <1>6, <1>7
<1> HIDE DEF side, args
<1>10. [s \in Side |-> IF side(s) = {} THEN -1 ELSE CountOf[LatestValue(side(s))]]
         = [s \in Side |-> CountAt(h, s, n)]
  BY <1>9, Zenon DEF CountAt
<1>11. [s \in Side |-> IF args(s) = {} THEN <<>> ELSE ParamsOf[LatestValue(args(s))]]
         = [s \in Side |-> ArgumentsAt(h, s, n)]
  BY <1>9, Zenon DEF ArgumentsAt
<1> QED
  BY <1>8, <1>9, <1>10, <1>11, Zenon DEF MethodAt

\* A document by its parts is the document that the lines nest.
LEMMA DocumentIs ==
  ASSUME file \in Seq(Line), NEW n \in 0 .. Len(file)
  PROVE  NestedDocument(n) = DocumentAt(n)
<1>1. \A key : Tops(key, n) = Upto(Heads(key), n)
  BY UptoOfTops
<1>2. Under(Tops("schema", n), n) = Upto(InSchema, n)
  BY <1>1, UptoOfUnder, PartsAreLines DEF InSchema
<1>3. Under(Tops("relations", n), n) = Upto(RuleLines, n)
  BY <1>1, UptoOfUnder, PartsAreLines DEF RuleLines
<1>4. /\ Having("service", Upto(InSchema, n)) = Upto(ServiceLines, n)
      /\ Having("@route", Upto(InSchema, n)) = Upto(RouteLines, n)
      /\ Having("@metadata", Upto(InSchema, n)) = Upto(MetadataLines, n)
  BY UptoOfHaving DEF ServiceLines, RouteLines, MetadataLines
<1>5. \A f : Having(f, Under(Upto(MetadataLines, n), n)) = Upto(FieldLines(f), n)
  BY UptoOfUnder, UptoOfHaving, PartsAreLines DEF FieldLines
<1> DEFINE services == InOrder(Upto(ServiceLines, n))
           methods == InOrder(Upto(Heads("method"), n))
           rules == InOrder(Upto(RuleLines, n))
<1>6. NestedDocument(n)
        = [name |-> LatestValue(Upto(Heads("schema"), n)),
           route |-> LatestValue(Upto(RouteLines, n)),
           metadata |-> [f \in Field |-> LatestValue(Upto(FieldLines(f), n))],
           services |-> [k \in DOMAIN services |-> file[services[k]].value],
           methods |-> [k \in DOMAIN methods |-> NestedMethod(methods[k], n)],
           relationsName |-> LatestValue(Upto(Heads("relations"), n)),
           relations |-> [k \in DOMAIN rules |->
                            [name |-> file[rules[k]].key, condition |-> file[rules[k]].value]]]
  BY <1>1, <1>2, <1>3, <1>4, <1>5, Zenon DEF NestedDocument
<1>7. ASSUME NEW X \in SUBSET Lines
      PROVE  \A k \in DOMAIN InOrder(Upto(X, n)) :
               InOrder(Upto(X, n))[k] \in Lines /\ InOrder(Upto(X, n))[k] \in 1 .. n
  <2>1. n \in Nat /\ \A i : i \in 1 .. n <=> i \in Lines /\ i <= n
    BY FirstLines
  <2>2. Upto(X, n) \in SUBSET (1 .. n)
    BY <2>1, Zenon DEF Upto
  <2>3. \A k \in DOMAIN InOrder(Upto(X, n)) : InOrder(Upto(X, n))[k] \in Upto(X, n)
    BY <2>1, <2>2, InOrderLists
  <2> QED
    BY <2>1, <2>2, <2>3, Zenon
<1>8. /\ \A k \in DOMAIN services : services[k] \in Lines
      /\ \A k \in DOMAIN methods : methods[k] \in Lines /\ methods[k] \in 1 .. n
      /\ \A k \in DOMAIN rules : rules[k] \in Lines
  BY <1>7, PartsAreLines
<1> HIDE DEF services, methods, rules
<1>9. [k \in DOMAIN services |-> file[services[k]].value] = Listed(Values, services)
  BY <1>8, Zenon DEF Listed, Values
<1>10. [k \in DOMAIN rules |-> [name |-> file[rules[k]].key, condition |-> file[rules[k]].value]]
         = Listed(RuleOf, rules)
  BY <1>8, Zenon DEF Listed, RuleOf
<1>11. [k \in DOMAIN methods |-> NestedMethod(methods[k], n)] = Listed(MethodOf(n), methods)
  <2>1. \A k \in DOMAIN methods : NestedMethod(methods[k], n) = MethodOf(n)[methods[k]]
    <3> TAKE k \in DOMAIN methods
    <3>1. NestedMethod(methods[k], n) = MethodAt(methods[k], n)
      BY <1>8, MethodIs
    <3> QED
      BY <1>8, <3>1 DEF MethodOf
  <2> QED
    BY <2>1, Zenon DEF Listed
<1> QED
  BY <1>6, <1>9, <1>10, <1>11, Zenon DEF DocumentAt, services, methods, rules

-----------------------------------------------------------------------------
(* What is said of the file is said of it after a step too *)

LEMMA FileKept ==
  ASSUME file' = file
  PROVE  /\ \A i : Parent(i)' = Parent(i)
         /\ \A n : NestedDocument(n)' = NestedDocument(n)
         /\ \A i : WellNested(i)' = WellNested(i)
         /\ \A d, n : Above(d, n)' = Above(d, n)
<1>1. \A i : Parent(i)' = Parent(i)
  BY DEF Parent
<1>2. \A key, n : Tops(key, n)' = Tops(key, n)
  BY DEF Tops
<1>3. \A P, n : Under(P, n)' = Under(P, n)
  BY <1>1 DEF Under
<1>4. \A key, X : Having(key, X)' = Having(key, X)
  BY DEF Having
<1>5. \A X : LatestValue(X)' = LatestValue(X)
  BY DEF LatestValue
<1>6. \A d, n : Above(d, n)' = Above(d, n)
  BY DEF Above
<1>7. \A h, n : NestedMethod(h, n)' = NestedMethod(h, n)
  <2> TAKE h, n
  <2> DEFINE lines == Under({h}, n)
             side(s) == Having(IF s = "input" THEN "@args_input" ELSE "@args_output", lines)
             args(s) == Having("decl_args", Under(side(s), n))
             exec == LatestValue(Having("@exec", lines))
             format == LatestValue(Having("decl_format", Under(side("output"), n)))
             counts == [s \in Side |-> IF side(s) = {} THEN -1 ELSE CountOf[LatestValue(side(s))]]
             lists == [s \in Side |-> IF args(s) = {} THEN <<>>
                                      ELSE ParamsOf[LatestValue(args(s))]]
  <2>1. lines' = lines
    BY <1>3
  <2>2. \A s : side(s)' = side(s)
    BY <1>4, <2>1
  <2>3. \A s : args(s)' = args(s)
    BY <1>3, <1>4, <2>2
  <2>4. exec' = exec
    BY <1>4, <1>5, <2>1
  <2>5. format' = format
    BY <1>3, <1>4, <1>5, <2>2
  <2>6. \A s : LatestValue(side(s))' = LatestValue(side(s))
               /\ LatestValue(args(s))' = LatestValue(args(s))
    BY <1>5, <2>2, <2>3
  <2> HIDE DEF side, args
  <2>7. counts' = counts
    BY <2>2, <2>6
  <2>8. lists' = lists
    BY <2>3, <2>6
  <2>9. NestedMethod(h, n) = [ref |-> file[h].value, exec |-> exec, count |-> counts,
                              args |-> lists, format |-> format]
    BY Zenon DEF NestedMethod, side, args
  <2>10. NestedMethod(h, n)' = [ref |-> file[h].value, exec |-> exec, count |-> counts,
                               args |-> lists, format |-> format]'
    BY Zenon DEF NestedMethod, side, args
  <2> HIDE DEF lines, exec, format, counts, lists
  <2> QED
    BY <2>4, <2>5, <2>7, <2>8, <2>9, <2>10
<1>8. \A n : NestedDocument(n)' = NestedDocument(n)
  BY <1>2, <1>3, <1>4, <1>5, <1>7 DEF NestedDocument
<1>9. \A i, S : FirstOf(i, S)' = FirstOf(i, S)
  BY DEF FirstOf
<1>10. \A i : LegalAtTop(i)' = LegalAtTop(i)
  BY <1>2, <1>9 DEF LegalAtTop
<1>11. \A i : LegalInSection(i)' = LegalInSection(i)
  BY <1>1, <1>3, <1>4, <1>9 DEF LegalInSection
<1>12. \A i : LegalNested(i)' = LegalNested(i)
  BY <1>1 DEF LegalNested
<1>13. \A i : WellNested(i)' = WellNested(i)
  BY <1>10, <1>11, <1>12 DEF WellNested
<1> QED
  BY <1>1, <1>6, <1>8, <1>13

-----------------------------------------------------------------------------
(* Where a parser stands after the first n lines, by the way they are nested *)

\* The last top-level line, and the last one that lines of depth 4 may be nested under.
TopAt(n) == Above(2, n)
OpenAt(n) == Above(4, n)

SectionAt(n) == IF TopAt(n) = 0 THEN "none" ELSE file[TopAt(n)].key

NestedIn(in, key) ==
  CASE in = "schema" /\ key = "@metadata" -> "metadata"
    [] in = "method" /\ key = "@args_input" -> "input"
    [] in = "method" /\ key = "@args_output" -> "output"
    [] OTHER -> "none"

NestedAt(n) ==
  IF OpenAt(n) = TopAt(n) THEN "none" ELSE NestedIn(SectionAt(n), file[OpenAt(n)].key)

LegalTo(n) == \A i \in 1 .. n : WellNested(i)

\* What a legal line of each depth is.
LEMMA LegalTop ==
  ASSUME file \in Seq(Line), NEW i \in Lines, WellNested(i), file[i].indent = 0
  PROVE  LegalAtTop(i) /\ file[i].key \in {"schema", "method", "relations"}
BY DEF WellNested, LegalAtTop, LegalInSection, LegalNested

LEMMA LegalSecond ==
  ASSUME file \in Seq(Line), NEW i \in Lines, WellNested(i), file[i].indent = 2
  PROVE  LegalInSection(i) /\ Parent(i) # 0
<1>1. LegalInSection(i)
  BY DEF WellNested, LegalAtTop, LegalNested
<1>2. LegalInSection(i) => Parent(i) # 0
  BY Zenon DEF LegalInSection
<1> QED
  BY <1>1, <1>2

LEMMA LegalThird ==
  ASSUME file \in Seq(Line), NEW i \in Lines, WellNested(i), file[i].indent = 4
  PROVE  LegalNested(i) /\ file[Parent(i)].indent = 2 /\ Parent(i) # 0
BY DEF WellNested, LegalAtTop, LegalInSection, LegalNested

\* The top-level line.
LEMMA TopIs ==
  ASSUME file \in Seq(Line), NEW n \in 0 .. Len(file)
  PROVE  /\ TopAt(n) \in 0 .. n
         /\ TopAt(n) # 0 => TopAt(n) \in Lines /\ file[TopAt(n)].indent = 0
         /\ \A j \in 1 .. n : file[j].indent = 0 => j <= TopAt(n)
<1>1. n \in Nat /\ \A i : i \in 1 .. n <=> i \in Lines /\ i <= n
  BY FirstLines
<1>2. /\ TopAt(n) \in 0 .. n
      /\ TopAt(n) # 0 => file[TopAt(n)].indent < 2
      /\ \A j \in 1 .. n : file[j].indent < 2 => j <= TopAt(n)
  BY <1>1, AboveIs DEF TopAt
<1>3. \A i \in Lines : file[i].indent \in {0, 2, 4}
  BY LinesAreLines
<1>4. TopAt(n) # 0 => TopAt(n) \in 1 .. n
  BY <1>1, <1>2
<1> QED
  BY <1>1, <1>2, <1>3, <1>4

\* The line that lines of depth 4 are nested under is the top-level one, or of depth 2
\* and nested under that.
LEMMA OpenIs ==
  ASSUME file \in Seq(Line), NEW n \in 0 .. Len(file), LegalTo(n), OpenAt(n) # TopAt(n)
  PROVE  /\ OpenAt(n) \in 1 .. n /\ OpenAt(n) \in Lines
         /\ file[OpenAt(n)].indent = 2 /\ Parent(OpenAt(n)) = TopAt(n) /\ TopAt(n) # 0
<1>1. n \in Nat /\ \A i : i \in 1 .. n <=> i \in Lines /\ i <= n
  BY FirstLines
<1>2. /\ OpenAt(n) \in 0 .. n
      /\ OpenAt(n) # 0 => file[OpenAt(n)].indent < 4
      /\ \A j \in 1 .. n : file[j].indent < 4 => j <= OpenAt(n)
  BY <1>1, AboveIs DEF OpenAt
<1>3. /\ TopAt(n) \in 0 .. n
      /\ TopAt(n) # 0 => TopAt(n) \in Lines /\ file[TopAt(n)].indent = 0
      /\ \A j \in 1 .. n : file[j].indent = 0 => j <= TopAt(n)
  BY TopIs
<1>4. \A i \in Lines : file[i].indent \in {0, 2, 4}
  BY LinesAreLines
<1>5. TopAt(n) <= OpenAt(n)
  <2>1. CASE TopAt(n) = 0
    BY <1>2, <2>1
  <2>2. CASE TopAt(n) # 0
    <3>1. TopAt(n) \in 1 .. n /\ file[TopAt(n)].indent < 4
      BY <1>1, <1>3, <2>2
    <3> QED
      BY <1>2, <3>1
  <2> QED
    BY <2>1, <2>2
<1>6. OpenAt(n) \in 1 .. n /\ OpenAt(n) > TopAt(n)
  BY <1>2, <1>3, <1>5
<1>7. OpenAt(n) \in Lines
  BY <1>1, <1>6
<1>8. file[OpenAt(n)].indent = 2
  <2>1. file[OpenAt(n)].indent \in {0, 2, 4} /\ file[OpenAt(n)].indent < 4
    BY <1>2, <1>4, <1>6, <1>7
  <2>2. file[OpenAt(n)].indent # 0
    <3>1. \A j \in 1 .. n : file[j].indent = 0 => ~ (j > TopAt(n))
      BY <1>3
    <3> QED
      BY <1>6, <3>1
  <2> QED
    BY <2>1, <2>2
<1>9. Parent(OpenAt(n)) = TopAt(n)
  <2> DEFINE p == OpenAt(n)
  <2>1. p \in Nat /\ p - 1 \in Nat /\ p <= n
    BY <1>6
  <2>2. Parent(p) = Above(2, p - 1)
    BY <1>8, <2>1, ParentIsAbove
  <2>3. /\ Above(2, p - 1) \in 0 .. (p - 1)
        /\ Above(2, p - 1) # 0 => file[Above(2, p - 1)].indent < 2
        /\ \A j \in 1 .. (p - 1) : file[j].indent < 2 => j <= Above(2, p - 1)
    BY <2>1, AboveIs
  <2>4. CASE TopAt(n) = 0
    <3>1. ASSUME Above(2, p - 1) # 0 PROVE FALSE
      <4>1. Above(2, p - 1) \in 1 .. n
        BY <2>1, <2>3, <3>1
      <4>2. file[Above(2, p - 1)].indent = 0
        BY <1>1, <1>4, <2>3, <3>1, <4>1
      <4>3. Above(2, p - 1) <= TopAt(n)
        BY <1>3, <4>1, <4>2
      <4> QED
        BY <2>4, <4>1, <4>3
    <3> QED
      BY <2>2, <2>4, <3>1
  <2>5. CASE TopAt(n) # 0
    <3>1. TopAt(n) \in 1 .. (p - 1)
      BY <1>3, <1>6, <2>1, <2>5
    <3>2. TopAt(n) <= Above(2, p - 1)
      BY <1>3, <2>3, <2>5, <3>1
    <3>3. Above(2, p - 1) \in 1 .. n /\ Above(2, p - 1) # 0
      BY <2>1, <2>3, <3>1, <3>2
    <3>4. file[Above(2, p - 1)].indent = 0
      BY <1>1, <1>4, <2>3, <3>3
    <3>5. Above(2, p - 1) <= TopAt(n)
      BY <1>3, <3>3, <3>4
    <3> QED
      BY <1>3, <2>2, <3>2, <3>3, <3>5
  <2> QED
    BY <2>4, <2>5
<1>10. Parent(OpenAt(n)) # 0
  BY <1>6, <1>7, <1>8, LegalSecond DEF LegalTo
<1> QED
  BY <1>6, <1>7, <1>8, <1>9, <1>10

\* The section is that of a declaration.
LEMMA SectionIs ==
  ASSUME file \in Seq(Line), NEW n \in 0 .. Len(file), LegalTo(n)
  PROVE  /\ SectionAt(n) \in {"none", "schema", "method", "relations"}
         /\ SectionAt(n) = "none" <=> TopAt(n) = 0
<1>1. CASE TopAt(n) = 0
  BY <1>1 DEF SectionAt
<1>2. CASE TopAt(n) # 0
  <2>1. TopAt(n) \in Lines /\ file[TopAt(n)].indent = 0 /\ TopAt(n) \in 0 .. n
    BY <1>2, TopIs
  <2>2. TopAt(n) \in 1 .. n
    BY <1>2, <2>1, FirstLines
  <2>3. file[TopAt(n)].key \in {"schema", "method", "relations"}
    BY <2>1, <2>2, LegalTop DEF LegalTo
  <2> QED
    BY <1>2, <2>3 DEF SectionAt
<1> QED
  BY <1>1, <1>2

\* What the next line is nested under.
LEMMA NextParent ==
  ASSUME file \in Seq(Line), NEW n \in Nat, n + 1 \in Lines
  PROVE  /\ file[n + 1].indent = 0 => Parent(n + 1) = 0
         /\ file[n + 1].indent = 2 => Parent(n + 1) = TopAt(n)
         /\ file[n + 1].indent = 4 => Parent(n + 1) = OpenAt(n)
<1>1. (n + 1) - 1 = n /\ n + 1 \in Nat
  OBVIOUS
<1>2. Parent(n + 1) = Above(file[n + 1].indent, n)
  BY <1>1, ParentIsAbove
<1>3. Above(0, n) = 0
  <2>1. /\ Above(0, n) \in 0 .. n
        /\ Above(0, n) # 0 => file[Above(0, n)].indent < 0
    BY AboveIs
  <2>2. Above(0, n) # 0 => Above(0, n) \in Lines
    <3>1. Len(file) \in Nat
      BY LinesAreLines
    <3> QED
      BY <2>1, <3>1 DEF Lines
  <2>3. \A i \in Lines : file[i].indent \in {0, 2, 4}
    BY LinesAreLines
  <2> QED
    BY <2>1, <2>2, <2>3
<1> QED
  BY <1>2, <1>3 DEF TopAt, OpenAt

\* Where the parser stands after the next line.
LEMMA NextTop ==
  ASSUME file \in Seq(Line), NEW n \in Nat, n + 1 \in Lines
  PROVE  /\ TopAt(n + 1) = IF file[n + 1].indent = 0 THEN n + 1 ELSE TopAt(n)
         /\ OpenAt(n + 1) = IF file[n + 1].indent = 4 THEN OpenAt(n) ELSE n + 1
<1>1. file[n + 1].indent \in {0, 2, 4}
  BY LinesAreLines
<1>2. /\ Above(2, n + 1) = IF file[n + 1].indent < 2 THEN n + 1 ELSE Above(2, n)
      /\ Above(4, n + 1) = IF file[n + 1].indent < 4 THEN n + 1 ELSE Above(4, n)
  BY AboveNext
<1> QED
  BY <1>1, <1>2 DEF TopAt, OpenAt

-----------------------------------------------------------------------------
(* What the parser takes where it stands is what is legal there *)

\* The parser has read the first lines, and they are legal.
Stands ==
  /\ file \in Seq(Line) /\ pos \in 1 .. (Len(file) + 1)
  /\ LegalTo(pos - 1)
  /\ doc = NestedDocument(pos - 1)
  /\ section = SectionAt(pos - 1) /\ nested = NestedAt(pos - 1)

\* Where a parser that stands is, and its document by its parts.
LEMMA StandsAt ==
  ASSUME Stands
  PROVE  /\ pos - 1 \in Nat /\ pos - 1 \in 0 .. Len(file) /\ pos \in Nat /\ (pos - 1) + 1 = pos
         /\ Len(file) \in Nat /\ doc = DocumentAt(pos - 1)
         /\ pos <= Len(file) => pos \in Lines
<1>1. Len(file) \in Nat /\ pos \in 1 .. (Len(file) + 1)
  BY LinesAreLines DEF Stands
<1>2. pos - 1 \in 0 .. Len(file) /\ pos - 1 \in Nat /\ pos \in Nat /\ (pos - 1) + 1 = pos
  BY <1>1
<1>3. doc = DocumentAt(pos - 1)
  BY <1>2, DocumentIs DEF Stands
<1> QED
  BY <1>1, <1>2, <1>3 DEF Lines

LEMMA LinesAreNumbers ==
  ASSUME file \in Seq(Line), NEW X \in SUBSET Lines
  PROVE  X \in SUBSET Nat /\ X \in SUBSET (Nat \ {0})
<1>1. Len(file) \in Nat
  BY LinesAreLines
<1>2. \A i \in X : i \in Nat \ {0}
  BY <1>1 DEF Lines
<1>3. \A i \in X : i \in Nat
  BY <1>2
<1> QED
  BY <1>2, <1>3, Zenon

\* A value has been given when it is not empty.
LEMMA GivenOrNot ==
  ASSUME NEW n \in Nat, NEW X, \A i \in Upto(X, n) : i \in 0 .. n /\ file[i].value # ""
  PROVE  LatestValue(Upto(X, n)) = "" <=> Upto(X, n) = {}
<1>1. Upto(X, n) # {} => Latest(Upto(X, n)) \in Upto(X, n)
  BY LatestExists
<1> QED
  BY <1>1, Zenon DEF LatestValue

\* The members up to n are among the first n lines.
LEMMA UptoIsBefore ==
  ASSUME file \in Seq(Line), NEW n \in Nat, NEW X \in SUBSET Lines
  PROVE  \A i \in Upto(X, n) : i \in 1 .. n /\ i \in Lines /\ i \in X
<1>1. Len(file) \in Nat
  BY LinesAreLines
<1>2. \A i \in X : i \in Nat \ {0}
  BY <1>1 DEF Lines
<1>3. \A i \in X : i <= n => i \in 1 .. n
  BY <1>2
<1> QED
  BY <1>3, Zenon DEF Upto

\* The next line is the first one of some if none is there yet.
LEMMA FirstOfThem ==
  ASSUME file \in Seq(Line), NEW n \in Nat, NEW X \in SUBSET Lines
  PROVE  FirstOf(n + 1, Upto(X, n + 1)) <=> Upto(X, n) = {}
<1>1. \A i \in Upto(X, n) : i \in 1 .. n
  BY UptoIsBefore
<1>2. Upto(X, n + 1) = IF n + 1 \in X THEN Upto(X, n) \cup {n + 1} ELSE Upto(X, n)
  <2>1. X \in SUBSET Nat
    BY LinesAreNumbers
  <2> QED
    BY <2>1, OneMore
<1>3. FirstOf(n + 1, Upto(X, n)) <=> Upto(X, n) = {}
  BY <1>1 DEF FirstOf
<1>4. FirstOf(n + 1, Upto(X, n + 1)) <=> FirstOf(n + 1, Upto(X, n))
  BY <1>2 DEF FirstOf
<1> QED
  BY <1>3, <1>4

\* A top-level line is allowed exactly when it is legal: the schema's name and the name of
\* the relations are empty as long as no such line has been read.
LEMMA AllowedAtTopIsLegal ==
  ASSUME Stands, pos <= Len(file), line.indent = 0
  PROVE  AllowedAtTop <=> WellNested(pos)
<1> DEFINE n == pos - 1
<1>1. /\ n \in Nat /\ n \in 0 .. Len(file) /\ n + 1 = pos /\ pos \in Lines
      /\ pos \in 0 .. Len(file) /\ file \in Seq(Line)
  BY StandsAt DEF Stands
<1> HIDE DEF n
<1>2. ASSUME NEW key
      PROVE  /\ Tops(key, pos) = Upto(Heads(key), n + 1)
             /\ LatestValue(Upto(Heads(key), n)) = "" <=> Upto(Heads(key), n) = {}
             /\ FirstOf(pos, Tops(key, pos)) <=> Upto(Heads(key), n) = {}
             /\ line.key # key => Tops(key, pos) = Upto(Heads(key), n)
  <2>1. Heads(key) \in SUBSET Lines
    BY PartsAreLines
  <2>2. Tops(key, pos) = Upto(Heads(key), n + 1)
    BY <1>1, UptoOfTops
  <2>3. \A i \in Upto(Heads(key), n) : i \in 0 .. n /\ file[i].value # ""
    <3>1. \A i \in Upto(Heads(key), n) : i \in 1 .. n /\ i \in Lines /\ i \in Heads(key)
      BY <1>1, <2>1, UptoIsBefore
    <3>2. \A i \in Heads(key) : file[i].indent = 0
      BY DEF Heads, Tops
    <3>3. \A i \in 1 .. n : i \in 0 .. n
      BY <1>1
    <3>4. \A i \in Lines : file[i].indent = 0 => file[i].value # ""
      BY <1>1, LinesAreLines
    <3> QED
      BY <3>1, <3>2, <3>3, <3>4
  <2>4. LatestValue(Upto(Heads(key), n)) = "" <=> Upto(Heads(key), n) = {}
    BY <1>1, <2>3, GivenOrNot
  <2>5. FirstOf(pos, Tops(key, pos)) <=> Upto(Heads(key), n) = {}
    BY <1>1, <2>1, <2>2, FirstOfThem
  <2>6. line.key # key => Tops(key, pos) = Upto(Heads(key), n)
    <3>1. line.key # key => n + 1 \notin Heads(key)
      BY <1>1 DEF Heads, Tops, line
    <3>2. Heads(key) \in SUBSET Nat
      BY <1>1, <2>1, LinesAreNumbers
    <3> QED
      BY <1>1, <2>2, <3>1, <3>2, OneMore
  <2> QED
    BY <2>2, <2>4, <2>5, <2>6
<1>3. /\ doc.name = LatestValue(Upto(Heads("schema"), n))
      /\ doc.relationsName = LatestValue(Upto(Heads("relations"), n))
  BY StandsAt DEF DocumentAt, n
<1>4. WellNested(pos) <=> LegalAtTop(pos)
  BY DEF WellNested, LegalInSection, LegalNested, line
<1>5. /\ doc.name = "" <=> FirstOf(pos, Tops("schema", pos))
      /\ doc.relationsName = "" <=> FirstOf(pos, Tops("relations", pos))
      /\ line.key # "schema" => (doc.name # "" <=> Tops("schema", pos) # {})
  BY <1>2, <1>3
<1> QED
  BY <1>4, <1>5, Zenon DEF AllowedAtTop, LegalAtTop, line

\* There is one schema in what has been read.
LEMMA OneSchema ==
  ASSUME file \in Seq(Line), NEW n \in 0 .. Len(file), LegalTo(n),
         NEW i \in Heads("schema"), NEW j \in Heads("schema"), i <= n, j <= n
  PROVE  i = j
<1>1. n \in Nat /\ \A k : k \in 1 .. n <=> k \in Lines /\ k <= n
  BY FirstLines
<1>2. Heads("schema") \in SUBSET Lines
  BY PartsAreLines
<1>3. i \in 1 .. n /\ j \in 1 .. n
  BY <1>1, <1>2
<1>4. ASSUME NEW k \in Heads("schema"), NEW l \in Heads("schema"), k \in 1 .. n, l \in 1 .. n
      PROVE  ~ (k < l)
  <2>1. SUFFICES ASSUME k < l PROVE FALSE
    OBVIOUS
  <2>2. file[l].indent = 0 /\ file[l].key = "schema" /\ file[k].indent = 0 /\ file[k].key = "schema"
    BY DEF Heads, Tops
  <2>3. l \in Lines /\ WellNested(l)
    BY <1>1, <1>4 DEF LegalTo
  <2>4. LegalAtTop(l)
    BY <2>2, <2>3, LegalTop
  <2>5. FirstOf(l, Tops("schema", l))
    BY <2>2, <2>4 DEF LegalAtTop
  <2>6. k \in Tops("schema", l)
    BY <1>1, <1>4, <2>1, <2>2 DEF Tops
  <2> QED
    BY <1>1, <1>4, <2>1, <2>5, <2>6 DEF FirstOf
<1>5. ~ (i < j) /\ ~ (j < i)
  BY <1>3, <1>4
<1> QED
  BY <1>3, <1>5

\* The lines of depth 2 are those nested under a top-level line.
LEMMA UnderTopIsSecond ==
  ASSUME file \in Seq(Line), NEW n \in 0 .. Len(file), LegalTo(n),
         NEW i \in 1 .. n, Parent(i) \in Lines, file[Parent(i)].indent = 0
  PROVE  file[i].indent = 2 /\ LegalInSection(i)
<1>1. n \in Nat /\ i \in Lines /\ i \in Nat \ {0}
  BY FirstLines
<1>2. WellNested(i) /\ file[i].indent \in {0, 2, 4}
  BY <1>1, LinesAreLines DEF LegalTo
<1>3. Parent(i) # 0 => file[Parent(i)].indent < file[i].indent
  BY <1>1, ParentIsBefore
<1>4. Parent(i) # 0
  <2>1. Len(file) \in Nat
    BY LinesAreLines
  <2> QED
    BY <2>1 DEF Lines
<1>5. file[i].indent # 0
  BY <1>3, <1>4
<1>6. file[i].indent # 4
  BY <1>1, <1>2, LegalThird
<1> QED
  BY <1>1, <1>2, <1>5, <1>6, LegalSecond

\* A route has been given if there is an @route line under the schema.
LEMMA RouteGiven ==
  ASSUME file \in Seq(Line), NEW n \in Nat, n + 1 \in Lines, LegalTo(n),
         TopAt(n) # 0, file[TopAt(n)].key = "schema"
  PROVE  LatestValue(Upto(RouteLines, n)) = ""
           <=> FirstOf(n + 1, Having("@route", Under({TopAt(n)}, n + 1)))
<1> DEFINE t == TopAt(n)
           X == Having("@route", Within({t}))
<1>1. Len(file) \in Nat /\ n \in 0 .. Len(file) /\ n + 1 \in 0 .. Len(file)
  <2>1. Len(file) \in Nat
    BY LinesAreLines
  <2>2. n + 1 \in 1 .. Len(file)
    BY DEF Lines
  <2> QED
    BY <2>1, <2>2
<1>2. t \in 0 .. n /\ t \in Lines /\ file[t].indent = 0 /\ t \in Heads("schema")
  BY <1>1, TopIs DEF Heads, Tops, Lines
<1>3. t \in 1 .. n + 1 /\ t <= n
  BY <1>1, <1>2
<1>4. X \in SUBSET Lines /\ RouteLines \in SUBSET Lines
  <2>1. Within({t}) \in SUBSET Lines
    BY LinesOfFile
  <2> QED
    BY <2>1, PartsAreLines, LinesOfFile
<1>5. Having("@route", Under({t}, n + 1)) = Upto(X, n + 1)
  <2>1. Under({t}, n + 1) = Upto(Within({t}), n + 1)
    BY <1>1, <1>3, UnderOne
  <2> QED
    BY <2>1, UptoOfHaving
<1>6. Upto(RouteLines, n) = Upto(X, n)
  <2>1. ASSUME NEW i PROVE i \in Upto(RouteLines, n) <=> i \in Upto(X, n)
    <3>1. i \in X <=> i \in Lines /\ Parent(i) = t /\ file[i].key = "@route"
      BY DEF Having, Within, Under, Lines
    <3>2. i \in RouteLines
            <=> i \in Lines /\ Parent(i) \in Heads("schema") /\ file[i].key = "@route"
      BY DEF RouteLines, InSchema, Having, Within, Under, Lines
    <3>3. ASSUME i \in Lines, i <= n, Parent(i) \in Heads("schema") PROVE Parent(i) = t
      <4>1. i \in Nat \ {0}
        BY <1>1, <3>3 DEF Lines
      <4>2. Parent(i) \in 0 .. (i - 1)
        BY <4>1, ParentIsBefore
      <4>3. Parent(i) <= n
        BY <3>3, <4>1, <4>2
      <4> HIDE DEF t
      <4> QED
        BY <1>1, <1>2, <1>3, <3>3, <4>3, OneSchema
    <3> QED
      BY <1>2, <3>1, <3>2, <3>3, Zenon DEF Upto
  <2> QED
    BY <2>1
<1>7. \A i \in Upto(X, n) : i \in 0 .. n /\ file[i].value # ""
  <2> TAKE i \in Upto(X, n)
  <2>1. i \in 1 .. n /\ i \in Lines /\ i \in X
    BY <1>4, UptoIsBefore
  <2>2. Parent(i) = t /\ file[i].key = "@route"
    BY <2>1 DEF Having, Within, Under
  <2>3. file[i].indent = 2 /\ LegalInSection(i)
    BY <1>1, <1>2, <2>1, <2>2, UnderTopIsSecond
  <2>4. file[Parent(i)].key = "schema"
    BY <2>2
  <2>5. file[i].value # ""
    BY <2>2, <2>3, <2>4, Zenon DEF LegalInSection
  <2>6. i \in 0 .. n
    BY <2>1
  <2> HIDE DEF X
  <2> QED
    BY <2>5, <2>6
<1> HIDE DEF t, X
<1>8. LatestValue(Upto(X, n)) = "" <=> Upto(X, n) = {}
  BY <1>7, GivenOrNot
<1>9. FirstOf(n + 1, Upto(X, n + 1)) <=> Upto(X, n) = {}
  BY <1>4, FirstOfThem
<1> QED
  BY <1>5, <1>6, <1>8, <1>9 DEF t

AllowedSecond ==
  \/ section = "schema" /\ AllowedInSchema
  \/ section = "method" /\ AllowedInMethod
  \/ section = "relations" /\ line.key # NoKey

\* A line of depth 2 is allowed exactly when it is legal: the section is its parent's key.
LEMMA AllowedSecondIsLegal ==
  ASSUME Stands, pos <= Len(file), line.indent = 2
  PROVE  AllowedSecond <=> WellNested(pos)
<1> DEFINE n == pos - 1
<1>1. /\ n \in Nat /\ n \in 0 .. Len(file) /\ n + 1 = pos /\ n + 1 \in Lines
      /\ file \in Seq(Line) /\ LegalTo(n) /\ section = SectionAt(n)
  BY StandsAt DEF Stands
<1>2. doc.route = LatestValue(Upto(RouteLines, n))
  BY StandsAt DEF DocumentAt
<1> HIDE DEF n
<1>3. WellNested(pos) <=> LegalInSection(pos)
  BY DEF WellNested, LegalAtTop, LegalNested, line
<1>4. Parent(pos) = TopAt(n)
  BY <1>1, NextParent DEF line
<1>5. CASE TopAt(n) = 0
  <2>1. section = "none"
    BY <1>1, <1>5 DEF SectionAt
  <2>2. ~ LegalInSection(pos)
    BY <1>4, <1>5, Zenon DEF LegalInSection
  <2> QED
    BY <1>3, <2>1, <2>2 DEF AllowedSecond
<1>6. CASE TopAt(n) # 0
  <2>1. section = file[Parent(pos)].key /\ Parent(pos) # 0
    BY <1>1, <1>4, <1>6 DEF SectionAt
  <2>2. section \in {"schema", "method", "relations"}
    BY <1>1, <1>6, SectionIs
  <2>3. CASE section = "schema"
    <3>1. doc.route = "" <=> FirstOf(pos, Having("@route", Under({Parent(pos)}, pos)))
      BY <1>1, <1>2, <1>4, <1>6, <2>1, <2>3, RouteGiven
    <3>2. LegalInSection(pos)
            <=> \/ line.key = "@metadata" /\ line.value = ""
                \/ line.key = "service" /\ line.value \in ServiceRef
                \/ /\ line.key = "@route" /\ line.value # ""
                   /\ FirstOf(pos, Having("@route", Under({Parent(pos)}, pos)))
      BY <2>1, <2>3, Zenon DEF LegalInSection, line
    <3> QED
      BY <1>3, <2>3, <3>1, <3>2, Zenon DEF AllowedSecond, AllowedInSchema
  <2>4. CASE section = "method"
    <3>1. LegalInSection(pos)
            <=> \/ line.key = "@exec" /\ line.value \in Mode
                \/ line.key \in {"@args_input", "@args_output"} /\ line.value \in DOMAIN CountOf
      BY <2>1, <2>4 DEF LegalInSection, line
    <3> QED
      BY <1>3, <2>4, <3>1 DEF AllowedSecond, AllowedInMethod
  <2>5. CASE section = "relations"
    <3>1. LegalInSection(pos) <=> line.key # NoKey
      BY <2>1, <2>5 DEF LegalInSection, line
    <3> QED
      BY <1>3, <2>5, <3>1 DEF AllowedSecond
  <2> QED
    BY <2>2, <2>3, <2>4, <2>5
<1> QED
  BY <1>5, <1>6

\* A line of depth 4 is allowed exactly when it is legal: the nested section is that of its
\* parent, in the section of its parent's parent.
LEMMA AllowedNestedIsLegal ==
  ASSUME Stands, pos <= Len(file), line.indent = 4
  PROVE  AllowedNested <=> WellNested(pos)
<1> DEFINE n == pos - 1
           p == OpenAt(n)
<1>1. /\ n \in Nat /\ n \in 0 .. Len(file) /\ n + 1 = pos /\ n + 1 \in Lines
      /\ file \in Seq(Line) /\ LegalTo(n) /\ section = SectionAt(n) /\ nested = NestedAt(n)
  BY StandsAt DEF Stands
<1> HIDE DEF n
<1>2. WellNested(pos) <=> LegalNested(pos)
  BY DEF WellNested, LegalAtTop, LegalInSection, line
<1>3. Parent(pos) = p
  BY <1>1, NextParent DEF line
<1>4. CASE p = TopAt(n)
  <2>1. nested = "none"
    BY <1>1, <1>4 DEF NestedAt
  <2>2. ~ AllowedNested
    BY <2>1 DEF AllowedNested, Side
  <2>3. ~ LegalNested(pos)
    <3>1. p = 0 \/ file[p].indent = 0
      BY <1>1, <1>4, TopIs
    <3> HIDE DEF p
    <3>2. LegalNested(pos) => p # 0 /\ file[p].indent = 2
      BY <1>3, Zenon DEF LegalNested
    <3> QED
      BY <3>1, <3>2
  <2> QED
    BY <1>2, <2>2, <2>3
<1>5. CASE p # TopAt(n)
  <2>1. /\ p \in 1 .. n /\ file[p].indent = 2 /\ Parent(p) = TopAt(n) /\ TopAt(n) # 0
    BY <1>1, <1>5, OpenIs
  <2>2. section = file[TopAt(n)].key
    BY <1>1, <2>1 DEF SectionAt
  <2>3. nested = NestedIn(section, file[p].key)
    BY <1>1, <1>5 DEF NestedAt
  <2>4. section \in {"schema", "method", "relations"}
    BY <1>1, <2>1, SectionIs
  <2>5. p # 0
    BY <1>1, <2>1
  <2> HIDE DEF p
  <2>6. LegalNested(pos)
          <=> CASE section = "schema" -> file[p].key = "@metadata" /\ line.key \in Field
                [] section = "method" ->
                     \/ /\ file[p].key \in {"@args_input", "@args_output"}
                        /\ line.key = "decl_args" /\ line.value \in DOMAIN ParamsOf
                     \/ /\ file[p].key = "@args_output"
                        /\ line.key = "decl_format" /\ line.value \in Format
                [] OTHER -> FALSE
    BY <1>3, <2>1, <2>2, <2>5, Zenon DEF LegalNested, line
  <2>7. CASE section = "schema"
    <3>1. nested = "metadata" <=> file[p].key = "@metadata"
      BY <2>3, <2>7 DEF NestedIn
    <3>2. LegalNested(pos) <=> file[p].key = "@metadata" /\ line.key \in Field
      BY <2>6, <2>7
    <3> QED
      BY <1>2, <2>7, <3>1, <3>2 DEF AllowedNested
  <2>8. CASE section = "method"
    <3>1. /\ nested = "input" <=> file[p].key = "@args_input"
          /\ nested = "output" <=> file[p].key = "@args_output"
      BY <2>3, <2>8 DEF NestedIn
    <3>2. LegalNested(pos)
            <=> \/ /\ file[p].key \in {"@args_input", "@args_output"}
                   /\ line.key = "decl_args" /\ line.value \in DOMAIN ParamsOf
                \/ /\ file[p].key = "@args_output"
                   /\ line.key = "decl_format" /\ line.value \in Format
      BY <2>6, <2>8
    <3>3. nested \in Side <=> file[p].key \in {"@args_input", "@args_output"}
      BY <3>1 DEF Side
    <3> QED
      BY <1>2, <2>8, <3>1, <3>2, <3>3, Zenon DEF AllowedNested
  <2>9. CASE section = "relations"
    <3>1. ~ LegalNested(pos)
      BY <2>6, <2>9
    <3> QED
      BY <1>2, <2>9, <3>1 DEF AllowedNested
  <2> QED
    BY <2>4, <2>7, <2>8, <2>9
<1> QED
  BY <1>4, <1>5

\* The parser allows a line, by its state, exactly when the line is legal where it is nested.
LEMMA AllowedIsLegal ==
  ASSUME Stands, pos <= Len(file)
  PROVE  /\ Allowed <=> WellNested(pos)
         /\ line.indent \in {0, 2, 4}
         /\ line.indent = 0 /\ Allowed => AllowedAtTop
         /\ line.indent = 2 /\ Allowed => AllowedSecond
         /\ line.indent = 4 /\ Allowed => AllowedNested
<1>1. line.indent \in {0, 2, 4}
  BY StandsAt, LinesAreLines DEF line, Stands
<1>2. line.indent = 0 => (Allowed <=> AllowedAtTop)
  BY DEF Allowed
<1>3. line.indent = 2 => (Allowed <=> AllowedSecond)
  BY DEF Allowed, AllowedSecond
<1>4. line.indent = 4 => (Allowed <=> AllowedNested)
  BY DEF Allowed
<1> QED
  BY <1>1, <1>2, <1>3, <1>4, AllowedAtTopIsLegal, AllowedSecondIsLegal, AllowedNestedIsLegal

-----------------------------------------------------------------------------
(* What the next line belongs to *)

\* A line is a member of a part by its parent, its indentation and its key.
LEMMA InWithin ==
  ASSUME NEW i \in Lines, NEW P
  PROVE  i \in Within(P) <=> Parent(i) \in P
BY DEF Within, Under, Lines

LEMMA InHeads ==
  ASSUME NEW i \in Lines, NEW key
  PROVE  i \in Heads(key) <=> file[i].indent = 0 /\ file[i].key = key
BY DEF Heads, Tops, Lines

LEMMA InHaving ==
  ASSUME NEW i, NEW key, NEW X
  PROVE  i \in Having(key, X) <=> i \in X /\ file[i].key = key
BY DEF Having

\* Top-level lines are nested under nothing.
LEMMA TopHasNoParent ==
  ASSUME file \in Seq(Line), NEW i \in Lines, file[i].indent = 0
  PROVE  Parent(i) \notin Lines
<1>1. \A k \in Lines : k \in Nat \ {0}
  BY LinesAreNumbers
<1>2. /\ Parent(i) \in 0 .. (i - 1)
      /\ Parent(i) # 0 => file[Parent(i)].indent < 0
  BY <1>1, ParentIsBefore
<1>3. \A k \in Lines : k # 0 /\ file[k].indent \in {0, 2, 4}
  <2>1. \A k \in Lines : file[k].indent \in {0, 2, 4}
    BY LinesAreLines
  <2> QED
    BY <1>1, <2>1
<1> QED
  BY <1>2, <1>3

\* A top-level line belongs to the heads with its key only.
LEMMA TopLine ==
  ASSUME file \in Seq(Line), NEW i \in Lines, file[i].indent = 0
  PROVE  /\ \A key : i \in Heads(key) <=> file[i].key = key
         /\ \A P \in SUBSET Lines : i \notin Within(P)
BY TopHasNoParent, InWithin, InHeads

\* A line of depth 2 belongs to what its parent declares only.
LEMMA SecondLine ==
  ASSUME file \in Seq(Line), NEW i \in Lines, file[i].indent = 2,
         NEW t \in Lines, Parent(i) = t, file[t].indent = 0
  PROVE  /\ \A key : i \notin Heads(key)
         /\ i \in InSchema <=> file[t].key = "schema"
         /\ i \in RuleLines <=> file[t].key = "relations"
         /\ \A h : i \in InMethod(h) <=> h = t
         /\ i \notin Within(MetadataLines)
         /\ \A h \in Lines : \A s : i \notin Within(SideLines(h, s))
<1>1. Parent(t) \notin Lines
  BY TopHasNoParent
<1>2. \A key : Heads(key) \in SUBSET Lines
  BY PartsAreLines
<1>3. \A key : i \notin Heads(key)
  BY InHeads
<1>4. \A key : t \in Heads(key) <=> file[t].key = key
  BY InHeads
<1>5. i \in InSchema <=> file[t].key = "schema"
  BY <1>4, InWithin DEF InSchema
<1>6. i \in RuleLines <=> file[t].key = "relations"
  BY <1>4, InWithin DEF RuleLines
<1>7. \A h : i \in InMethod(h) <=> h = t
  BY InWithin DEF InMethod
<1>8. t \notin MetadataLines
  <2>1. t \notin InSchema
    BY <1>1, <1>2, InWithin DEF InSchema
  <2> QED
    BY <2>1, InHaving DEF MetadataLines
<1>9. \A h \in Lines : \A s : t \notin SideLines(h, s)
  <2>1. \A h \in Lines : t \notin InMethod(h)
    BY <1>1, InWithin DEF InMethod
  <2> QED
    BY <2>1, InHaving DEF SideLines
<1>10. i \notin Within(MetadataLines)
  BY <1>8, InWithin
<1>11. \A h \in Lines : \A s : i \notin Within(SideLines(h, s))
  BY <1>9, InWithin
<1> QED
  BY <1>3, <1>5, <1>6, <1>7, <1>10, <1>11

\* A line of depth 4 belongs to what its parent and its parent's parent declare only.
LEMMA ThirdLine ==
  ASSUME file \in Seq(Line), NEW i \in Lines, file[i].indent = 4,
         NEW p \in Lines, Parent(i) = p, file[p].indent = 2,
         NEW t \in Lines, Parent(p) = t, file[t].indent = 0
  PROVE  /\ \A key : i \notin Heads(key)
         /\ i \notin InSchema /\ i \notin RuleLines
         /\ \A h \in Lines : file[h].indent = 0 => i \notin InMethod(h)
         /\ i \in Within(MetadataLines) <=> file[t].key = "schema" /\ file[p].key = "@metadata"
         /\ \A h, s : i \in Within(SideLines(h, s)) <=> h = t /\ file[p].key = SideKey(s)
<1>1. \A key : i \notin Heads(key) /\ p \notin Heads(key)
  BY InHeads
<1>2. i \notin InSchema /\ i \notin RuleLines
  BY <1>1, InWithin DEF InSchema, RuleLines
<1>3. \A h \in Lines : file[h].indent = 0 => i \notin InMethod(h)
  BY InWithin DEF InMethod
<1>4. p \in MetadataLines <=> file[t].key = "schema" /\ file[p].key = "@metadata"
  BY InWithin, InHeads, InHaving DEF MetadataLines, InSchema
<1>5. \A h, s : p \in SideLines(h, s) <=> h = t /\ file[p].key = SideKey(s)
  BY InWithin, InHaving DEF SideLines, InMethod
<1>6. i \in Within(MetadataLines) <=> file[t].key = "schema" /\ file[p].key = "@metadata"
  BY <1>4, InWithin
<1>7. \A h, s : i \in Within(SideLines(h, s)) <=> h = t /\ file[p].key = SideKey(s)
  BY <1>5, InWithin
<1> QED
  BY <1>1, <1>2, <1>3, <1>6, <1>7

-----------------------------------------------------------------------------
(* What one more line makes of the document *)

\* A part stays if the line is none of its lines.
LEMMA PartStays ==
  ASSUME file \in Seq(Line), NEW X \in SUBSET Lines, NEW n \in Nat, n + 1 \notin X
  PROVE  Upto(X, n + 1) = Upto(X, n)
BY LinesAreNumbers, OneMore

\* What a part says after the next line.
LEMMA ValueOfPart ==
  ASSUME file \in Seq(Line), NEW X \in SUBSET Lines, NEW n \in Nat
  PROVE  LatestValue(Upto(X, n + 1))
           = IF n + 1 \in X THEN file[n + 1].value ELSE LatestValue(Upto(X, n))
BY LinesAreNumbers, LatestValueNext

LEMMA ListOfPart ==
  ASSUME file \in Seq(Line), NEW X \in SUBSET Lines, NEW n \in Nat, NEW f
  PROVE  Listed(f, InOrder(Upto(X, n + 1)))
           = IF n + 1 \in X THEN Append(Listed(f, InOrder(Upto(X, n))), f[n + 1])
             ELSE Listed(f, InOrder(Upto(X, n)))
<1>1. Upto(X, n) \in SUBSET (1 .. n)
  BY UptoIsBefore
<1>2. InOrder(Upto(X, n)) \in Seq(Upto(X, n))
  BY <1>1, InOrderLists
<1>3. InOrder(Upto(X, n + 1))
        = IF n + 1 \in X THEN Append(InOrder(Upto(X, n)), n + 1) ELSE InOrder(Upto(X, n))
  BY InOrderNext
<1>4. Listed(f, Append(InOrder(Upto(X, n)), n + 1))
        = Append(Listed(f, InOrder(Upto(X, n))), f[n + 1])
  BY <1>2, ListedAppends
<1> QED
  BY <1>3, <1>4

\* A method with one more line.
LEMMA MethodNext ==
  ASSUME file \in Seq(Line), NEW n \in Nat, NEW h
  PROVE  MethodAt(h, n + 1)
           = [ref |-> file[h].value,
              exec |-> IF n + 1 \in ExecLines(h) THEN file[n + 1].value ELSE MethodAt(h, n).exec,
              count |-> [s \in Side |-> IF n + 1 \in SideLines(h, s) THEN CountOf[file[n + 1].value]
                                        ELSE MethodAt(h, n).count[s]],
              args |-> [s \in Side |-> IF n + 1 \in ArgumentLines(h, s)
                                       THEN ParamsOf[file[n + 1].value]
                                       ELSE MethodAt(h, n).args[s]],
              format |-> IF n + 1 \in FormatLines(h) THEN file[n + 1].value
                         ELSE MethodAt(h, n).format]
<1>1. /\ MethodAt(h, n).exec = LatestValue(Upto(ExecLines(h), n))
      /\ MethodAt(h, n).format = LatestValue(Upto(FormatLines(h), n))
      /\ \A s \in Side : MethodAt(h, n).count[s] = CountAt(h, s, n)
                         /\ MethodAt(h, n).args[s] = ArgumentsAt(h, s, n)
  BY DEF MethodAt
<1>2. ASSUME NEW X \in SUBSET Lines, n + 1 \in X
      PROVE  Upto(X, n + 1) # {} /\ LatestValue(Upto(X, n + 1)) = file[n + 1].value
  <2>1. n + 1 \in Upto(X, n + 1)
    BY <1>2 DEF Upto
  <2> QED
    BY <1>2, <2>1, ValueOfPart
<1>3. ASSUME NEW s \in Side
      PROVE  CountAt(h, s, n + 1) = IF n + 1 \in SideLines(h, s) THEN CountOf[file[n + 1].value]
                                    ELSE CountAt(h, s, n)
  <2>1. SideLines(h, s) \in SUBSET Lines
    BY PartsAreLines
  <2> QED
    BY <1>2, <2>1, PartStays DEF CountAt
<1>4. ASSUME NEW s \in Side
      PROVE  ArgumentsAt(h, s, n + 1)
               = IF n + 1 \in ArgumentLines(h, s) THEN ParamsOf[file[n + 1].value]
                 ELSE ArgumentsAt(h, s, n)
  <2>1. ArgumentLines(h, s) \in SUBSET Lines
    BY PartsAreLines
  <2> QED
    BY <1>2, <2>1, PartStays DEF ArgumentsAt
<1>5. /\ LatestValue(Upto(ExecLines(h), n + 1))
           = IF n + 1 \in ExecLines(h) THEN file[n + 1].value ELSE MethodAt(h, n).exec
      /\ LatestValue(Upto(FormatLines(h), n + 1))
           = IF n + 1 \in FormatLines(h) THEN file[n + 1].value ELSE MethodAt(h, n).format
  <2>1. ExecLines(h) \in SUBSET Lines /\ FormatLines(h) \in SUBSET Lines
    BY PartsAreLines
  <2> QED
    BY <1>1, <2>1, ValueOfPart
<1>6. /\ [s \in Side |-> CountAt(h, s, n + 1)]
           = [s \in Side |-> IF n + 1 \in SideLines(h, s) THEN CountOf[file[n + 1].value]
                             ELSE MethodAt(h, n).count[s]]
      /\ [s \in Side |-> ArgumentsAt(h, s, n + 1)]
           = [s \in Side |-> IF n + 1 \in ArgumentLines(h, s) THEN ParamsOf[file[n + 1].value]
                             ELSE MethodAt(h, n).args[s]]
  BY <1>1, <1>3, <1>4, Zenon
<1>7. MethodAt(h, n + 1)
        = [ref |-> file[h].value, exec |-> LatestValue(Upto(ExecLines(h), n + 1)),
           count |-> [s \in Side |-> CountAt(h, s, n + 1)],
           args |-> [s \in Side |-> ArgumentsAt(h, s, n + 1)],
           format |-> LatestValue(Upto(FormatLines(h), n + 1))]
  BY Zenon DEF MethodAt
<1> QED
  BY <1>5, <1>6, <1>7, Zenon

\* A method that the line is not nested in, at any depth, stays.
LEMMA MethodStays ==
  ASSUME file \in Seq(Line), NEW n \in Nat, NEW h \in Lines,
         n + 1 \notin InMethod(h), \A s : n + 1 \notin Within(SideLines(h, s))
  PROVE  MethodAt(h, n + 1) = MethodAt(h, n)
<1>1. n + 1 \notin ExecLines(h) /\ (\A s : n + 1 \notin SideLines(h, s))
  BY InHaving DEF ExecLines, SideLines
<1>2. n + 1 \notin FormatLines(h) /\ (\A s : n + 1 \notin ArgumentLines(h, s))
  BY InHaving DEF FormatLines, ArgumentLines
<1>3. /\ MethodAt(h, n).ref = file[h].value
      /\ MethodAt(h, n) = [ref |-> MethodAt(h, n).ref, exec |-> MethodAt(h, n).exec,
                           count |-> [s \in Side |-> MethodAt(h, n).count[s]],
                           args |-> [s \in Side |-> MethodAt(h, n).args[s]],
                           format |-> MethodAt(h, n).format]
  BY DEF MethodAt
<1>4. MethodAt(h, n + 1)
        = [ref |-> file[h].value, exec |-> MethodAt(h, n).exec,
           count |-> [s \in Side |-> MethodAt(h, n).count[s]],
           args |-> [s \in Side |-> MethodAt(h, n).args[s]],
           format |-> MethodAt(h, n).format]
  BY <1>1, <1>2, MethodNext
<1> QED
  BY <1>3, <1>4

\* A method of which only the first line is there is as it is declared.
LEMMA MethodDeclared ==
  ASSUME file \in Seq(Line), NEW n \in Nat, n + 1 \in Lines
  PROVE  MethodAt(n + 1, n + 1) = NewMethod(file[n + 1].value)
<1> DEFINE h == n + 1
<1>1. ASSUME NEW X \in SUBSET Lines, \A i \in X : Parent(i) >= h
      PROVE  Upto(X, h) = {}
  <2>1. \A i \in X : i > h
    <3> TAKE i \in X
    <3>1. i \in Nat \ {0}
      BY LinesAreNumbers
    <3>2. Parent(i) \in 0 .. (i - 1) /\ Parent(i) >= h
      BY <1>1, <3>1, ParentIsBefore
    <3> QED
      BY <3>1, <3>2
  <2>2. \A i \in X : i \in Nat
    BY LinesAreNumbers
  <2>3. \A i \in X : ~ (i <= h)
    BY <2>1, <2>2
  <2> HIDE DEF h
  <2>4. \A i : i \notin Upto(X, h)
    BY <2>3, Zenon DEF Upto
  <2> QED
    BY <2>4
<1>2. \A i \in InMethod(h) : i \in Lines /\ Parent(i) = h
  BY DEF InMethod, Within, Under, Lines
<1>3. \A i \in InMethod(h) : Parent(i) >= h
  BY <1>2
<1>4. ASSUME NEW s
      PROVE  \A i \in Within(SideLines(h, s)) : Parent(i) >= h
  <2> TAKE i \in Within(SideLines(h, s))
  <2>1. Parent(i) \in InMethod(h)
    BY DEF Within, Under, SideLines, Having
  <2>2. Parent(i) \in Nat \ {0} /\ Parent(Parent(i)) = h
    BY <1>2, <2>1, LinesAreNumbers
  <2>3. Parent(Parent(i)) \in 0 .. (Parent(i) - 1)
    BY <2>2, ParentIsBefore
  <2> QED
    BY <2>2, <2>3
<1>5. Upto(ExecLines(h), h) = {}
  <2>1. ExecLines(h) \in SUBSET Lines /\ \A i \in ExecLines(h) : i \in InMethod(h)
    BY PartsAreLines, InHaving DEF ExecLines
  <2> QED
    BY <1>1, <1>3, <2>1
<1>6. Upto(FormatLines(h), h) = {}
  <2>1. FormatLines(h) \in SUBSET Lines
        /\ \A i \in FormatLines(h) : i \in Within(SideLines(h, "output"))
    BY PartsAreLines, InHaving DEF FormatLines
  <2> QED
    BY <1>1, <1>4, <2>1
<1>7. ASSUME NEW s PROVE Upto(SideLines(h, s), h) = {} /\ Upto(ArgumentLines(h, s), h) = {}
  <2>1. /\ SideLines(h, s) \in SUBSET Lines /\ \A i \in SideLines(h, s) : i \in InMethod(h)
        /\ ArgumentLines(h, s) \in SUBSET Lines
        /\ \A i \in ArgumentLines(h, s) : i \in Within(SideLines(h, s))
    BY PartsAreLines, InHaving DEF SideLines, ArgumentLines
  <2> QED
    BY <1>1, <1>3, <1>4, <2>1
<1> HIDE DEF h
<1>8. LatestValue(Upto(ExecLines(h), h)) = "" /\ LatestValue(Upto(FormatLines(h), h)) = ""
  BY <1>5, <1>6 DEF LatestValue
<1>9. \A s : CountAt(h, s, h) = -1 /\ ArgumentsAt(h, s, h) = <<>>
  BY <1>7 DEF CountAt, ArgumentsAt
<1>10. /\ [s \in Side |-> CountAt(h, s, h)] = [s \in Side |-> -1]
       /\ [s \in Side |-> ArgumentsAt(h, s, h)] = [s \in Side |-> <<>>]
  BY <1>9, Zenon
<1>11. MethodAt(h, h) = NewMethod(file[h].value)
  BY <1>8, <1>10 DEF MethodAt, NewMethod
<1> QED
  BY <1>11 DEF h

\* The methods, if the line changes none and declares none.
LEMMA MethodsStay ==
  ASSUME file \in Seq(Line), NEW n \in Nat, n + 1 \notin Heads("method"),
         \A h \in Heads("method") : h <= n => MethodAt(h, n + 1) = MethodAt(h, n)
  PROVE  Listed(MethodOf(n + 1), InOrder(Upto(Heads("method"), n + 1)))
           = Listed(MethodOf(n), InOrder(Upto(Heads("method"), n)))
<1> DEFINE S == Upto(Heads("method"), n)
<1>1. Heads("method") \in SUBSET Lines
  BY PartsAreLines
<1>2. Upto(Heads("method"), n + 1) = S
  BY <1>1, PartStays
<1>3. S \in SUBSET (1 .. n) /\ \A h \in S : h \in Lines /\ h \in Heads("method") /\ h <= n
  BY <1>1, UptoIsBefore
<1>4. \A h \in S : MethodOf(n + 1)[h] = MethodOf(n)[h]
  BY <1>3 DEF MethodOf
<1> HIDE DEF S
<1>5. InOrder(S) \in Seq(S)
  BY <1>3, InOrderLists
<1>6. Listed(MethodOf(n + 1), InOrder(S)) = Listed(MethodOf(n), InOrder(S))
  BY <1>4, <1>5, ListedAlike
<1> QED
  BY <1>2, <1>6 DEF S

\* If it declares one.
LEMMA MethodsGrow ==
  ASSUME file \in Seq(Line), NEW n \in Nat, n + 1 \in Heads("method")
  PROVE  Listed(MethodOf(n + 1), InOrder(Upto(Heads("method"), n + 1)))
           = Append(Listed(MethodOf(n), InOrder(Upto(Heads("method"), n))),
                    NewMethod(file[n + 1].value))
<1> DEFINE S == Upto(Heads("method"), n)
           f == MethodOf(n + 1)
<1>1. Heads("method") \in SUBSET Lines /\ n + 1 \in Lines /\ file[n + 1].indent = 0
  BY PartsAreLines, InHeads
<1>2. Listed(f, InOrder(Upto(Heads("method"), n + 1))) = Append(Listed(f, InOrder(S)), f[n + 1])
  BY <1>1, ListOfPart
<1>3. f[n + 1] = NewMethod(file[n + 1].value)
  BY <1>1, MethodDeclared DEF MethodOf
<1>4. S \in SUBSET (1 .. n) /\ \A h \in S : h \in Lines
  BY <1>1, UptoIsBefore
<1>5. ASSUME NEW h \in S PROVE f[h] = MethodOf(n)[h]
  <2>1. n + 1 \notin InMethod(h) /\ \A s : n + 1 \notin Within(SideLines(h, s))
    <3>1. \A P \in SUBSET Lines : n + 1 \notin Within(P)
      BY <1>1, TopLine
    <3>2. {h} \in SUBSET Lines /\ \A s : SideLines(h, s) \in SUBSET Lines
      BY <1>4, PartsAreLines
    <3> QED
      BY <3>1, <3>2 DEF InMethod
  <2> QED
    BY <1>4, <2>1, MethodStays, LinesOfFile DEF MethodOf
<1> HIDE DEF S, f
<1>6. InOrder(S) \in Seq(S)
  BY <1>4, InOrderLists
<1>7. Listed(f, InOrder(S)) = Listed(MethodOf(n), InOrder(S))
  BY <1>5, <1>6, ListedAlike
<1> QED
  BY <1>2, <1>3, <1>7 DEF S, f

\* If it is nested in the last one.
LEMMA MethodsChange ==
  ASSUME file \in Seq(Line), NEW n \in Nat, n + 1 \notin Heads("method"),
         NEW t \in Heads("method"), t <= n, \A i \in 1 .. n : file[i].indent = 0 => i <= t,
         \A h \in Heads("method") : h <= n /\ h # t => MethodAt(h, n + 1) = MethodAt(h, n)
  PROVE  LET m == Listed(MethodOf(n), InOrder(Upto(Heads("method"), n)))
         IN /\ Len(m) \in Nat \ {0} /\ DOMAIN m = 1 .. Len(m)
            /\ m[Len(m)] = MethodAt(t, n)
            /\ Listed(MethodOf(n + 1), InOrder(Upto(Heads("method"), n + 1)))
                 = [m EXCEPT ![Len(m)] = MethodAt(t, n + 1)]
<1> DEFINE S == Upto(Heads("method"), n)
           s == InOrder(S)
           m == Listed(MethodOf(n), s)
           k == Cardinality(S)
<1>1. Heads("method") \in SUBSET Lines /\ t \in Lines
  BY PartsAreLines
<1>2. Upto(Heads("method"), n + 1) = S
  BY <1>1, PartStays
<1>3. S \in SUBSET (1 .. n)
      /\ \A h \in S : h \in Lines /\ h \in Heads("method") /\ h <= n /\ h \in 1 .. n
  BY <1>1, UptoIsBefore
<1>4. t \in S
  BY DEF Upto
<1>5. \A h \in S : h <= t
  <2>1. \A h \in S : file[h].indent = 0
    BY <1>3, InHeads
  <2> QED
    BY <1>3, <2>1
<1>6. Place(S, t) = k
  <2>1. {j \in S : j <= t} = S
    BY <1>5
  <2> QED
    BY <2>1 DEF Place
<1> HIDE DEF S
<1>7. /\ s \in Seq(S) /\ Len(s) = k /\ k \in Nat
      /\ k \in DOMAIN s /\ s[k] = t
      /\ \A l \in DOMAIN s : s[l] \in S /\ Place(S, s[l]) = l
  <2>1. /\ InOrder(S) \in Seq(S) /\ Len(InOrder(S)) = Cardinality(S) /\ Cardinality(S) \in Nat
        /\ \A i \in S : Place(S, i) \in DOMAIN InOrder(S) /\ InOrder(S)[Place(S, i)] = i
        /\ \A l \in DOMAIN InOrder(S) : InOrder(S)[l] \in S /\ Place(S, InOrder(S)[l]) = l
    BY <1>3, InOrderLists
  <2>2. Place(S, t) \in DOMAIN s /\ s[Place(S, t)] = t
    BY <1>4, <2>1
  <2>3. k \in DOMAIN s /\ s[k] = t
    BY <1>6, <2>2
  <2> QED
    BY <2>1, <2>3
<1>8. \A l \in DOMAIN s : s[l] = t => l = k
  BY <1>6, <1>7
<1> HIDE DEF s, k
<1>9. /\ Len(m) = k /\ DOMAIN m = 1 .. k /\ DOMAIN s = 1 .. k
      /\ \A l \in 1 .. k : m[l] = MethodOf(n)[s[l]]
  BY <1>7, ListedIs
<1>10. k \in Nat \ {0} /\ m[k] = MethodAt(t, n)
  <2>1. k \in 1 .. k
    BY <1>7, <1>9
  <2>2. m[k] = MethodOf(n)[t]
    BY <1>7, <1>9, <2>1
  <2>3. k # 0
    BY <1>7, <2>1
  <2> HIDE DEF m
  <2> QED
    BY <1>1, <1>7, <2>2, <2>3 DEF MethodOf
<1>11. \A h \in S : h # t => MethodOf(n)[h] = MethodOf(n + 1)[h]
  BY <1>3 DEF MethodOf
<1>12. Listed(MethodOf(n + 1), s) = [m EXCEPT ![k] = MethodOf(n + 1)[t]]
  BY <1>4, <1>7, <1>8, <1>11, ListedButLast
<1>13. MethodOf(n + 1)[t] = MethodAt(t, n + 1)
  BY <1>1 DEF MethodOf
<1> HIDE DEF m
<1>14. /\ Len(m) \in Nat \ {0} /\ DOMAIN m = 1 .. Len(m) /\ m[Len(m)] = MethodAt(t, n)
       /\ Listed(MethodOf(n + 1), InOrder(Upto(Heads("method"), n + 1)))
            = [m EXCEPT ![Len(m)] = MethodAt(t, n + 1)]
  BY <1>2, <1>9, <1>10, <1>12, <1>13 DEF s
<1> QED
  BY <1>14 DEF m, s, S

MethodsAt(n) == Listed(MethodOf(n), InOrder(Upto(Heads("method"), n)))

\* A document with these parts.
Made(name, route, metadata, services, methods, relationsName, relations) ==
  [name |-> name, route |-> route, metadata |-> metadata, services |-> services,
   methods |-> methods, relationsName |-> relationsName, relations |-> relations]

LEMMA DocumentIsMade ==
  ASSUME Stands
  PROVE  /\ doc = Made(doc.name, doc.route, doc.metadata, doc.services, doc.methods,
                       doc.relationsName, doc.relations)
         /\ doc.methods = MethodsAt(pos - 1)
         /\ doc.metadata = [f \in Field |-> doc.metadata[f]]
BY StandsAt DEF DocumentAt, Made, MethodsAt

\* The document after the next line: each part changes if the line is one of the part's.
LEMMA DocumentNext ==
  ASSUME Stands, pos <= Len(file)
  PROVE  NestedDocument(pos)
           = Made(IF pos \in Heads("schema") THEN line.value ELSE doc.name,
                  IF pos \in RouteLines THEN line.value ELSE doc.route,
                  [f \in Field |-> IF pos \in FieldLines(f) THEN line.value ELSE doc.metadata[f]],
                  IF pos \in ServiceLines THEN Append(doc.services, line.value) ELSE doc.services,
                  MethodsAt(pos),
                  IF pos \in Heads("relations") THEN line.value ELSE doc.relationsName,
                  IF pos \in RuleLines
                  THEN Append(doc.relations, [name |-> line.key, condition |-> line.value])
                  ELSE doc.relations)
<1> DEFINE n == pos - 1
<1>1. n \in Nat /\ n + 1 = pos /\ pos \in Lines /\ file \in Seq(Line) /\ pos \in 0 .. Len(file)
  BY StandsAt DEF Stands
<1>2. doc = DocumentAt(n)
  BY StandsAt
<1> HIDE DEF n
<1>3. NestedDocument(pos) = DocumentAt(pos)
  BY <1>1, DocumentIs
<1>4. /\ LatestValue(Upto(Heads("schema"), pos))
           = IF pos \in Heads("schema") THEN line.value ELSE LatestValue(Upto(Heads("schema"), n))
      /\ LatestValue(Upto(Heads("relations"), pos))
           = IF pos \in Heads("relations") THEN line.value
             ELSE LatestValue(Upto(Heads("relations"), n))
      /\ LatestValue(Upto(RouteLines, pos))
           = IF pos \in RouteLines THEN line.value ELSE LatestValue(Upto(RouteLines, n))
  BY <1>1, PartsAreLines, ValueOfPart DEF line
<1>5. \A f : LatestValue(Upto(FieldLines(f), pos))
               = IF pos \in FieldLines(f) THEN line.value ELSE LatestValue(Upto(FieldLines(f), n))
  BY <1>1, PartsAreLines, ValueOfPart DEF line
<1>6. Listed(Values, InOrder(Upto(ServiceLines, pos)))
        = IF pos \in ServiceLines
          THEN Append(Listed(Values, InOrder(Upto(ServiceLines, n))), line.value)
          ELSE Listed(Values, InOrder(Upto(ServiceLines, n)))
  <2>1. Values[pos] = line.value
    BY <1>1 DEF Values, line
  <2> QED
    BY <1>1, <2>1, PartsAreLines, ListOfPart
<1>7. Listed(RuleOf, InOrder(Upto(RuleLines, pos)))
        = IF pos \in RuleLines
          THEN Append(Listed(RuleOf, InOrder(Upto(RuleLines, n))),
                      [name |-> line.key, condition |-> line.value])
          ELSE Listed(RuleOf, InOrder(Upto(RuleLines, n)))
  <2>1. RuleOf[pos] = [name |-> line.key, condition |-> line.value]
    BY <1>1 DEF RuleOf, line
  <2> QED
    BY <1>1, <2>1, PartsAreLines, ListOfPart
<1>8. /\ doc.name = LatestValue(Upto(Heads("schema"), n))
      /\ doc.route = LatestValue(Upto(RouteLines, n))
      /\ \A f \in Field : doc.metadata[f] = LatestValue(Upto(FieldLines(f), n))
      /\ doc.services = Listed(Values, InOrder(Upto(ServiceLines, n)))
      /\ doc.relationsName = LatestValue(Upto(Heads("relations"), n))
      /\ doc.relations = Listed(RuleOf, InOrder(Upto(RuleLines, n)))
  BY <1>2 DEF DocumentAt
<1>9. [f \in Field |-> LatestValue(Upto(FieldLines(f), pos))]
        = [f \in Field |-> IF pos \in FieldLines(f) THEN line.value ELSE doc.metadata[f]]
  BY <1>5, <1>8, Zenon
<1>10. DocumentAt(pos)
         = Made(LatestValue(Upto(Heads("schema"), pos)), LatestValue(Upto(RouteLines, pos)),
                [f \in Field |-> LatestValue(Upto(FieldLines(f), pos))],
                Listed(Values, InOrder(Upto(ServiceLines, pos))), MethodsAt(pos),
                LatestValue(Upto(Heads("relations"), pos)),
                Listed(RuleOf, InOrder(Upto(RuleLines, pos))))
  BY Zenon DEF DocumentAt, Made, MethodsAt
<1> QED
  BY <1>3, <1>4, <1>6, <1>7, <1>8, <1>9, <1>10, Zenon

\* The methods after a line that declares none and is nested in none.
LEMMA MethodsUntouched ==
  ASSUME Stands, pos <= Len(file), pos \notin Heads("method"),
         \A h \in Heads("method") :
           pos \notin InMethod(h) /\ \A s : pos \notin Within(SideLines(h, s))
  PROVE  MethodsAt(pos) = doc.methods
<1> DEFINE n == pos - 1
<1>1. n \in Nat /\ n + 1 = pos /\ file \in Seq(Line)
  BY StandsAt DEF Stands
<1>2. doc.methods = MethodsAt(n)
  BY DocumentIsMade
<1> HIDE DEF n
<1>3. \A h \in Heads("method") : h \in Lines
  BY PartsAreLines
<1>4. \A h \in Heads("method") : MethodAt(h, n + 1) = MethodAt(h, n)
  BY <1>1, <1>3, MethodStays
<1> QED
  BY <1>1, <1>2, <1>4, MethodsStay DEF MethodsAt

\* The document after a top-level line.
LEMMA TopDocument ==
  ASSUME Stands, pos <= Len(file), line.indent = 0
  PROVE  NestedDocument(pos)
           = Made(IF line.key = "schema" THEN line.value ELSE doc.name,
                  doc.route, doc.metadata, doc.services,
                  IF line.key = "method" THEN Append(doc.methods, NewMethod(line.value))
                  ELSE doc.methods,
                  IF line.key = "relations" THEN line.value ELSE doc.relationsName,
                  doc.relations)
<1>1. /\ pos - 1 \in Nat /\ (pos - 1) + 1 = pos /\ pos \in Lines /\ file \in Seq(Line)
      /\ file[pos].indent = 0
  BY StandsAt DEF Stands, line
<1>2. /\ \A key : pos \in Heads(key) <=> line.key = key
      /\ \A P \in SUBSET Lines : pos \notin Within(P)
  BY <1>1, TopLine DEF line
<1>3. /\ pos \notin RouteLines /\ pos \notin ServiceLines /\ pos \notin RuleLines
      /\ \A f : pos \notin FieldLines(f)
  <2>1. pos \notin InSchema /\ pos \notin RuleLines /\ pos \notin Within(MetadataLines)
    BY <1>2, PartsAreLines DEF InSchema, RuleLines
  <2> QED
    BY <2>1, InHaving DEF RouteLines, ServiceLines, FieldLines
<1>4. CASE line.key = "method"
  <2>1. MethodsAt(pos) = Append(doc.methods, NewMethod(line.value))
    BY <1>1, <1>2, <1>4, DocumentIsMade, MethodsGrow DEF MethodsAt, line
  <2> QED
    BY <1>2, <1>3, <1>4, <2>1, DocumentNext, DocumentIsMade
<1>5. CASE line.key # "method"
  <2>1. \A h \in Heads("method") :
          pos \notin InMethod(h) /\ \A s : pos \notin Within(SideLines(h, s))
    <3> TAKE h \in Heads("method")
    <3>1. {h} \in SUBSET Lines /\ \A s : SideLines(h, s) \in SUBSET Lines
      BY PartsAreLines
    <3> QED
      BY <1>2, <3>1 DEF InMethod
  <2>2. MethodsAt(pos) = doc.methods
    BY <1>2, <1>5, <2>1, MethodsUntouched
  <2> QED
    BY <1>2, <1>3, <1>5, <2>2, DocumentNext, DocumentIsMade
<1> QED
  BY <1>4, <1>5

\* The top-level line that a section belongs to.
LEMMA SectionStands ==
  ASSUME Stands, section # "none"
  PROVE  LET t == TopAt(pos - 1)
         IN /\ t \in Lines /\ t \in 1 .. (pos - 1) /\ file[t].indent = 0 /\ file[t].key = section
            /\ \A i \in 1 .. (pos - 1) : file[i].indent = 0 => i <= t
<1> DEFINE n == pos - 1
<1>1. n \in Nat /\ n \in 0 .. Len(file) /\ section = SectionAt(n) /\ file \in Seq(Line)
  BY StandsAt DEF Stands
<1> HIDE DEF n
<1>2. TopAt(n) # 0 /\ section = file[TopAt(n)].key
  BY <1>1 DEF SectionAt
<1>3. /\ TopAt(n) \in 0 .. n /\ TopAt(n) \in Lines /\ file[TopAt(n)].indent = 0
      /\ \A j \in 1 .. n : file[j].indent = 0 => j <= TopAt(n)
  BY <1>1, <1>2, TopIs
<1>4. TopAt(n) \in 1 .. n
  BY <1>1, <1>2, <1>3
<1> QED
  BY <1>2, <1>3, <1>4 DEF n

\* The document after a line of depth 2 in the schema.
LEMMA SchemaDocument ==
  ASSUME Stands, pos <= Len(file), line.indent = 2, section = "schema"
  PROVE  NestedDocument(pos)
           = Made(doc.name,
                  IF line.key = "@route" THEN line.value ELSE doc.route,
                  doc.metadata,
                  IF line.key = "service" THEN Append(doc.services, line.value) ELSE doc.services,
                  doc.methods, doc.relationsName, doc.relations)
<1> DEFINE t == TopAt(pos - 1)
<1>1. /\ pos - 1 \in Nat /\ (pos - 1) + 1 = pos /\ pos \in Lines /\ file \in Seq(Line)
      /\ file[pos].indent = 2
  BY StandsAt DEF Stands, line
<1>2. t \in Lines /\ file[t].indent = 0 /\ file[t].key = "schema"
  BY SectionStands
<1>3. Parent(pos) = t
  BY <1>1, NextParent
<1> HIDE DEF t
<1>4. /\ \A key : pos \notin Heads(key)
      /\ pos \in InSchema /\ pos \notin RuleLines /\ pos \notin Within(MetadataLines)
      /\ \A h : pos \in InMethod(h) <=> h = t
      /\ \A h \in Lines : \A s : pos \notin Within(SideLines(h, s))
  BY <1>1, <1>2, <1>3, SecondLine
<1>5. /\ pos \in RouteLines <=> line.key = "@route"
      /\ pos \in ServiceLines <=> line.key = "service"
      /\ \A f : pos \notin FieldLines(f)
  BY <1>4, InHaving DEF RouteLines, ServiceLines, FieldLines, line
<1>6. MethodsAt(pos) = doc.methods
  <2>1. \A h \in Heads("method") : h \in Lines /\ h # t
    BY <1>2, InHeads, PartsAreLines
  <2> QED
    BY <1>4, <2>1, MethodsUntouched
<1> QED
  BY <1>4, <1>5, <1>6, DocumentNext, DocumentIsMade

\* The document after a rule.
LEMMA RelationsDocument ==
  ASSUME Stands, pos <= Len(file), line.indent = 2, section = "relations"
  PROVE  NestedDocument(pos)
           = Made(doc.name, doc.route, doc.metadata, doc.services, doc.methods,
                  doc.relationsName,
                  Append(doc.relations, [name |-> line.key, condition |-> line.value]))
<1> DEFINE t == TopAt(pos - 1)
<1>1. /\ pos - 1 \in Nat /\ (pos - 1) + 1 = pos /\ pos \in Lines /\ file \in Seq(Line)
      /\ file[pos].indent = 2
  BY StandsAt DEF Stands, line
<1>2. t \in Lines /\ file[t].indent = 0 /\ file[t].key = "relations"
  BY SectionStands
<1>3. Parent(pos) = t
  BY <1>1, NextParent
<1> HIDE DEF t
<1>4. /\ \A key : pos \notin Heads(key)
      /\ pos \notin InSchema /\ pos \in RuleLines /\ pos \notin Within(MetadataLines)
      /\ \A h : pos \in InMethod(h) <=> h = t
      /\ \A h \in Lines : \A s : pos \notin Within(SideLines(h, s))
  BY <1>1, <1>2, <1>3, SecondLine
<1>5. pos \notin RouteLines /\ pos \notin ServiceLines /\ \A f : pos \notin FieldLines(f)
  BY <1>4, InHaving DEF RouteLines, ServiceLines, FieldLines
<1>6. MethodsAt(pos) = doc.methods
  <2>1. \A h \in Heads("method") : h \in Lines /\ h # t
    BY <1>2, InHeads, PartsAreLines
  <2> QED
    BY <1>4, <2>1, MethodsUntouched
<1> QED
  BY <1>4, <1>5, <1>6, DocumentNext, DocumentIsMade

\* The current method, which is the last one, and what becomes of it.
LEMMA MethodDocument ==
  ASSUME Stands, pos <= Len(file), line.indent # 0, section = "method",
         \A h \in Heads("method") : h # TopAt(pos - 1) =>
           pos \notin InMethod(h) /\ \A s : pos \notin Within(SideLines(h, s)),
         pos \notin InSchema, pos \notin RuleLines, pos \notin Within(MetadataLines)
  PROVE  LET t == TopAt(pos - 1)
         IN /\ doc.methods[CurrentMethod] = MethodAt(t, pos - 1)
            /\ CurrentMethod \in DOMAIN doc.methods
            /\ NestedDocument(pos)
                 = Made(doc.name, doc.route, doc.metadata, doc.services,
                        [doc.methods EXCEPT ![CurrentMethod] = MethodAt(t, pos)],
                        doc.relationsName, doc.relations)
<1> DEFINE n == pos - 1
           t == TopAt(n)
<1>1. /\ n \in Nat /\ n + 1 = pos /\ pos \in Lines /\ file \in Seq(Line) /\ file[pos].indent # 0
  BY StandsAt DEF Stands, line
<1>2. /\ t \in Lines /\ t \in 1 .. n /\ file[t].indent = 0 /\ file[t].key = "method"
      /\ \A i \in 1 .. n : file[i].indent = 0 => i <= t
  BY SectionStands
<1>3. doc.methods = MethodsAt(n)
  BY DocumentIsMade
<1>4. \A h \in Heads("method") : h # t =>
        pos \notin InMethod(h) /\ \A s : pos \notin Within(SideLines(h, s))
  OBVIOUS
<1> HIDE DEF t, n
<1>5. t \in Heads("method") /\ t <= n /\ \A key : pos \notin Heads(key)
  BY <1>1, <1>2, InHeads
<1>6. \A h \in Heads("method") : h \in Lines
  BY PartsAreLines
<1>7. \A h \in Heads("method") : h <= n /\ h # t => MethodAt(h, n + 1) = MethodAt(h, n)
  BY <1>1, <1>4, <1>6, MethodStays
<1> DEFINE m == MethodsAt(n)
<1>8. /\ Len(m) \in Nat \ {0} /\ DOMAIN m = 1 .. Len(m) /\ m[Len(m)] = MethodAt(t, n)
      /\ MethodsAt(n + 1) = [m EXCEPT ![Len(m)] = MethodAt(t, n + 1)]
  BY <1>1, <1>2, <1>5, <1>7, MethodsChange DEF MethodsAt
<1> HIDE DEF m
<1>9. /\ doc.methods[CurrentMethod] = MethodAt(t, n) /\ CurrentMethod \in DOMAIN doc.methods
      /\ MethodsAt(pos) = [doc.methods EXCEPT ![CurrentMethod] = MethodAt(t, pos)]
  <2>1. doc.methods = m
    BY <1>3 DEF m
  <2>2. CurrentMethod = Len(m)
    BY <2>1 DEF CurrentMethod
  <2>3. Len(m) \in 1 .. Len(m)
    BY <1>8
  <2>4. MethodsAt(pos) = [m EXCEPT ![Len(m)] = MethodAt(t, pos)]
    BY <1>1, <1>8, Zenon
  <2> QED
    BY <1>8, <2>1, <2>2, <2>3, <2>4, Zenon
<1>10. pos \notin RouteLines /\ pos \notin ServiceLines /\ \A f : pos \notin FieldLines(f)
  BY InHaving DEF RouteLines, ServiceLines, FieldLines
<1>11. NestedDocument(pos)
         = Made(doc.name, doc.route, doc.metadata, doc.services,
                [doc.methods EXCEPT ![CurrentMethod] = MethodAt(t, pos)],
                doc.relationsName, doc.relations)
  BY <1>5, <1>9, <1>10, DocumentNext, DocumentIsMade
<1> QED
  BY <1>9, <1>11 DEF t, n

MadeMethod(ref, exec, count, args, format) ==
  [ref |-> ref, exec |-> exec, count |-> count, args |-> args, format |-> format]

LEMMA MethodIsMade ==
  ASSUME NEW h, NEW n
  PROVE  LET m == MethodAt(h, n)
         IN /\ m = MadeMethod(m.ref, m.exec, m.count, m.args, m.format)
            /\ m.ref = file[h].value
            /\ m.count = [s \in Side |-> m.count[s]] /\ m.args = [s \in Side |-> m.args[s]]
BY DEF MethodAt, MadeMethod

\* The document after a line of depth 2 in a method: the current method is the last one.
LEMMA MethodLineDocument ==
  ASSUME Stands, pos <= Len(file), line.indent = 2, section = "method"
  PROVE  LET m == doc.methods[CurrentMethod]
         IN /\ NestedDocument(pos)
                 = Made(doc.name, doc.route, doc.metadata, doc.services,
                        [doc.methods EXCEPT ![CurrentMethod] =
                           MadeMethod(m.ref, IF line.key = "@exec" THEN line.value ELSE m.exec,
                                      [s \in Side |-> IF line.key = SideKey(s)
                                                      THEN CountOf[line.value] ELSE m.count[s]],
                                      m.args, m.format)],
                        doc.relationsName, doc.relations)
            /\ m = MadeMethod(m.ref, m.exec, m.count, m.args, m.format)
            /\ m.count = [s \in Side |-> m.count[s]]
            /\ CurrentMethod \in DOMAIN doc.methods
<1> DEFINE n == pos - 1
           t == TopAt(n)
           m == MethodAt(t, n)
<1>1. /\ n \in Nat /\ n + 1 = pos /\ pos \in Lines /\ file \in Seq(Line) /\ file[pos].indent = 2
  BY StandsAt DEF Stands, line
<1>2. t \in Lines /\ file[t].indent = 0 /\ file[t].key = "method"
  BY SectionStands
<1>3. Parent(pos) = t
  BY <1>1, NextParent
<1>4. /\ pos \notin InSchema /\ pos \notin RuleLines /\ pos \notin Within(MetadataLines)
      /\ \A h : pos \in InMethod(h) <=> h = t
      /\ \A h \in Lines : \A s : pos \notin Within(SideLines(h, s))
  <2> HIDE DEF t
  <2> QED
    BY <1>1, <1>2, <1>3, SecondLine
<1>5. \A h \in Heads("method") : h # t =>
        pos \notin InMethod(h) /\ \A s : pos \notin Within(SideLines(h, s))
  BY <1>4, PartsAreLines
<1>6. /\ doc.methods[CurrentMethod] = m /\ CurrentMethod \in DOMAIN doc.methods
      /\ NestedDocument(pos)
           = Made(doc.name, doc.route, doc.metadata, doc.services,
                  [doc.methods EXCEPT ![CurrentMethod] = MethodAt(t, pos)],
                  doc.relationsName, doc.relations)
  BY <1>1, <1>4, <1>5, MethodDocument DEF line
<1> HIDE DEF n, t
<1>7. /\ pos \in ExecLines(t) <=> line.key = "@exec"
      /\ \A s : pos \in SideLines(t, s) <=> line.key = SideKey(s)
      /\ pos \notin FormatLines(t) /\ \A s : pos \notin ArgumentLines(t, s)
  BY <1>2, <1>4, InHaving DEF ExecLines, SideLines, FormatLines, ArgumentLines, line
<1>8. /\ m = MadeMethod(m.ref, m.exec, m.count, m.args, m.format)
      /\ m.ref = file[t].value
      /\ m.count = [s \in Side |-> m.count[s]] /\ m.args = [s \in Side |-> m.args[s]]
  BY MethodIsMade
<1>9. MethodAt(t, pos)
        = [ref |-> file[t].value,
           exec |-> IF pos \in ExecLines(t) THEN line.value ELSE m.exec,
           count |-> [s \in Side |-> IF pos \in SideLines(t, s) THEN CountOf[line.value]
                                     ELSE m.count[s]],
           args |-> [s \in Side |-> IF pos \in ArgumentLines(t, s) THEN ParamsOf[line.value]
                                    ELSE m.args[s]],
           format |-> IF pos \in FormatLines(t) THEN line.value ELSE m.format]
  BY <1>1, MethodNext DEF line
<1> HIDE DEF m
<1>10. MethodAt(t, pos)
         = MadeMethod(m.ref, IF line.key = "@exec" THEN line.value ELSE m.exec,
                      [s \in Side |-> IF line.key = SideKey(s) THEN CountOf[line.value]
                                      ELSE m.count[s]],
                      m.args, m.format)
  <2>1. /\ [s \in Side |-> IF pos \in SideLines(t, s) THEN CountOf[line.value] ELSE m.count[s]]
             = [s \in Side |-> IF line.key = SideKey(s) THEN CountOf[line.value] ELSE m.count[s]]
        /\ [s \in Side |-> IF pos \in ArgumentLines(t, s) THEN ParamsOf[line.value]
                           ELSE m.args[s]]
             = [s \in Side |-> m.args[s]]
    BY <1>7, Zenon
  <2> QED
    BY <1>7, <1>8, <1>9, <2>1, Zenon DEF MadeMethod
<1> QED
  BY <1>6, <1>8, <1>10, Zenon

\* The lines that a nested section belongs to.
LEMMA NestedStands ==
  ASSUME Stands, nested # "none"
  PROVE  LET t == TopAt(pos - 1)
             p == OpenAt(pos - 1)
         IN /\ t \in Lines /\ file[t].indent = 0 /\ file[t].key = section /\ section # "none"
            /\ p \in Lines /\ file[p].indent = 2 /\ Parent(p) = t
            /\ nested = NestedIn(section, file[p].key)
<1> DEFINE n == pos - 1
<1>1. /\ n \in Nat /\ n \in 0 .. Len(file) /\ file \in Seq(Line) /\ LegalTo(n)
      /\ section = SectionAt(n) /\ nested = NestedAt(n)
  BY StandsAt DEF Stands
<1> HIDE DEF n
<1>2. OpenAt(n) # TopAt(n) /\ nested = NestedIn(section, file[OpenAt(n)].key)
  BY <1>1 DEF NestedAt
<1>3. /\ OpenAt(n) \in Lines /\ file[OpenAt(n)].indent = 2 /\ Parent(OpenAt(n)) = TopAt(n)
      /\ TopAt(n) # 0
  BY <1>1, <1>2, OpenIs
<1>4. section # "none"
  BY <1>1, <1>3, SectionIs
<1>5. /\ TopAt(n) \in Lines /\ file[TopAt(n)].indent = 0 /\ file[TopAt(n)].key = section
  BY <1>4, SectionStands DEF n
<1> QED
  BY <1>2, <1>3, <1>4, <1>5 DEF n

\* The document after a field of the metadata.
LEMMA FieldDocument ==
  ASSUME Stands, pos <= Len(file), line.indent = 4, section = "schema", nested = "metadata"
  PROVE  NestedDocument(pos)
           = Made(doc.name, doc.route,
                  [f \in Field |-> IF line.key = f THEN line.value ELSE doc.metadata[f]],
                  doc.services, doc.methods, doc.relationsName, doc.relations)
<1> DEFINE t == TopAt(pos - 1)
           p == OpenAt(pos - 1)
<1>1. /\ pos - 1 \in Nat /\ (pos - 1) + 1 = pos /\ pos \in Lines /\ file \in Seq(Line)
      /\ file[pos].indent = 4
  BY StandsAt DEF Stands, line
<1>2. /\ t \in Lines /\ file[t].indent = 0 /\ file[t].key = "schema"
      /\ p \in Lines /\ file[p].indent = 2 /\ Parent(p) = t
      /\ nested = NestedIn(section, file[p].key)
  BY NestedStands
<1>3. Parent(pos) = p
  BY <1>1, NextParent
<1> HIDE DEF t, p
<1>4. file[p].key = "@metadata"
  BY <1>2 DEF NestedIn
<1>5. /\ \A key : pos \notin Heads(key)
      /\ pos \notin InSchema /\ pos \notin RuleLines
      /\ \A h \in Lines : file[h].indent = 0 => pos \notin InMethod(h)
      /\ pos \in Within(MetadataLines)
      /\ \A h, s : pos \in Within(SideLines(h, s)) <=> h = t /\ file[p].key = SideKey(s)
  BY <1>1, <1>2, <1>3, <1>4, ThirdLine
<1>6. /\ pos \notin RouteLines /\ pos \notin ServiceLines
      /\ \A f : pos \in FieldLines(f) <=> line.key = f
  BY <1>5, InHaving DEF RouteLines, ServiceLines, FieldLines, line
<1>7. MethodsAt(pos) = doc.methods
  <2>1. \A h \in Heads("method") : h \in Lines /\ file[h].indent = 0
    BY InHeads, PartsAreLines
  <2>2. \A s : file[p].key # SideKey(s)
    BY <1>4 DEF SideKey
  <2> QED
    BY <1>5, <2>1, <2>2, MethodsUntouched
<1>8. [f \in Field |-> IF pos \in FieldLines(f) THEN line.value ELSE doc.metadata[f]]
        = [f \in Field |-> IF line.key = f THEN line.value ELSE doc.metadata[f]]
  BY <1>6, Zenon
<1> QED
  BY <1>5, <1>6, <1>7, <1>8, DocumentNext

\* The document after a line of depth 4 in a method.
LEMMA SideDocument ==
  ASSUME Stands, pos <= Len(file), line.indent = 4, section = "method", nested \in Side
  PROVE  LET m == doc.methods[CurrentMethod]
         IN /\ NestedDocument(pos)
                 = Made(doc.name, doc.route, doc.metadata, doc.services,
                        [doc.methods EXCEPT ![CurrentMethod] =
                           MadeMethod(m.ref, m.exec, m.count,
                                      [s \in Side |-> IF s = nested /\ line.key = "decl_args"
                                                      THEN ParamsOf[line.value] ELSE m.args[s]],
                                      IF nested = "output" /\ line.key = "decl_format"
                                      THEN line.value ELSE m.format)],
                        doc.relationsName, doc.relations)
            /\ m = MadeMethod(m.ref, m.exec, m.count, m.args, m.format)
            /\ m.args = [s \in Side |-> m.args[s]]
            /\ CurrentMethod \in DOMAIN doc.methods
<1> DEFINE n == pos - 1
           t == TopAt(n)
           p == OpenAt(n)
           m == MethodAt(t, n)
<1>1. /\ n \in Nat /\ n + 1 = pos /\ pos \in Lines /\ file \in Seq(Line) /\ file[pos].indent = 4
  BY StandsAt DEF Stands, line
<1>2. /\ t \in Lines /\ file[t].indent = 0 /\ file[t].key = "method"
      /\ p \in Lines /\ file[p].indent = 2 /\ Parent(p) = t
      /\ nested = NestedIn(section, file[p].key)
  <2>1. nested # "none"
    BY DEF Side
  <2> QED
    BY <2>1, NestedStands
<1>3. Parent(pos) = p
  BY <1>1, NextParent
<1>4. \A s \in Side : file[p].key = SideKey(s) <=> s = nested
  <2> HIDE DEF p
  <2>1. nested = "input" <=> file[p].key = "@args_input"
    BY <1>2 DEF NestedIn
  <2>2. nested = "output" <=> file[p].key = "@args_output"
    BY <1>2 DEF NestedIn
  <2> QED
    BY <2>1, <2>2 DEF Side, SideKey
<1>5. file[p].key # "@metadata"
  <2>1. file[p].key = SideKey(nested)
    BY <1>4
  <2> QED
    BY <2>1 DEF SideKey
<1>6. /\ pos \notin InSchema /\ pos \notin RuleLines
      /\ \A h \in Lines : file[h].indent = 0 => pos \notin InMethod(h)
      /\ pos \notin Within(MetadataLines)
      /\ \A h, s : pos \in Within(SideLines(h, s)) <=> h = t /\ file[p].key = SideKey(s)
  <2> HIDE DEF t, p
  <2> QED
    BY <1>1, <1>2, <1>3, <1>5, ThirdLine
<1>7. \A h \in Heads("method") : h # t =>
        pos \notin InMethod(h) /\ \A s : pos \notin Within(SideLines(h, s))
  <2>1. \A h \in Heads("method") : h \in Lines /\ file[h].indent = 0
    BY InHeads, PartsAreLines
  <2> HIDE DEF t, p
  <2> QED
    BY <1>6, <2>1
<1>8. /\ doc.methods[CurrentMethod] = m /\ CurrentMethod \in DOMAIN doc.methods
      /\ NestedDocument(pos)
           = Made(doc.name, doc.route, doc.metadata, doc.services,
                  [doc.methods EXCEPT ![CurrentMethod] = MethodAt(t, pos)],
                  doc.relationsName, doc.relations)
  BY <1>1, <1>6, <1>7, MethodDocument DEF line
<1> HIDE DEF n, t, p
<1>9. /\ pos \notin ExecLines(t) /\ \A s : pos \notin SideLines(t, s)
      /\ pos \in FormatLines(t) <=> nested = "output" /\ line.key = "decl_format"
      /\ \A s \in Side : pos \in ArgumentLines(t, s) <=> s = nested /\ line.key = "decl_args"
  <2>1. pos \notin InMethod(t)
    BY <1>2, <1>6
  <2>2. \A s \in Side : pos \in Within(SideLines(t, s)) <=> s = nested
    BY <1>4, <1>6
  <2>3. "output" \in Side
    BY DEF Side
  <2> QED
    BY <2>1, <2>2, <2>3, InHaving DEF ExecLines, SideLines, FormatLines, ArgumentLines, line
<1>10. /\ m = MadeMethod(m.ref, m.exec, m.count, m.args, m.format)
       /\ m.ref = file[t].value
       /\ m.count = [s \in Side |-> m.count[s]] /\ m.args = [s \in Side |-> m.args[s]]
  BY MethodIsMade
<1>11. MethodAt(t, pos)
        = [ref |-> file[t].value,
           exec |-> IF pos \in ExecLines(t) THEN line.value ELSE m.exec,
           count |-> [s \in Side |-> IF pos \in SideLines(t, s) THEN CountOf[line.value]
                                     ELSE m.count[s]],
           args |-> [s \in Side |-> IF pos \in ArgumentLines(t, s) THEN ParamsOf[line.value]
                                    ELSE m.args[s]],
           format |-> IF pos \in FormatLines(t) THEN line.value ELSE m.format]
  BY <1>1, MethodNext DEF line
<1> HIDE DEF m
<1>12. MethodAt(t, pos)
         = MadeMethod(m.ref, m.exec, m.count,
                      [s \in Side |-> IF s = nested /\ line.key = "decl_args"
                                      THEN ParamsOf[line.value] ELSE m.args[s]],
                      IF nested = "output" /\ line.key = "decl_format" THEN line.value
                      ELSE m.format)
  <2>1. /\ [s \in Side |-> IF pos \in SideLines(t, s) THEN CountOf[line.value] ELSE m.count[s]]
             = [s \in Side |-> m.count[s]]
        /\ [s \in Side |-> IF pos \in ArgumentLines(t, s) THEN ParamsOf[line.value]
                           ELSE m.args[s]]
             = [s \in Side |-> IF s = nested /\ line.key = "decl_args" THEN ParamsOf[line.value]
                               ELSE m.args[s]]
    BY <1>9, Zenon
  <2> QED
    BY <1>9, <1>10, <1>11, <2>1, Zenon DEF MadeMethod
<1> QED
  BY <1>8, <1>10, <1>12, Zenon

-----------------------------------------------------------------------------
(* The steps *)

\* The parser stands after the line where the way it is nested says.
LEMMA StandsNext ==
  ASSUME Stands, pos <= Len(file), Allowed
  PROVE  /\ line.indent = 0 => SectionAt(pos) = line.key /\ NestedAt(pos) = "none"
         /\ line.indent = 2 =>
              SectionAt(pos) = section /\ NestedAt(pos) = NestedIn(section, line.key)
         /\ line.indent = 4 => SectionAt(pos) = section /\ NestedAt(pos) = nested
<1> DEFINE n == pos - 1
<1>1. /\ n \in Nat /\ n + 1 = pos /\ pos \in Lines /\ file \in Seq(Line)
      /\ section = SectionAt(n) /\ nested = NestedAt(n) /\ pos # 0 /\ pos > n
      /\ n \in 0 .. Len(file)
  BY StandsAt DEF Stands
<1> HIDE DEF n
<1>2. /\ TopAt(pos) = IF line.indent = 0 THEN pos ELSE TopAt(n)
      /\ OpenAt(pos) = IF line.indent = 4 THEN OpenAt(n) ELSE pos
  BY <1>1, NextTop DEF line
<1>3. line.indent = 0 => SectionAt(pos) = line.key /\ NestedAt(pos) = "none"
  BY <1>1, <1>2 DEF SectionAt, NestedAt, line
<1>4. line.indent # 0 => SectionAt(pos) = section
  BY <1>1, <1>2 DEF SectionAt
<1>5. line.indent = 2 => NestedAt(pos) = NestedIn(section, line.key)
  <2>1. TopAt(n) \in 0 .. n
    BY <1>1, TopIs
  <2>2. TopAt(n) # pos
    BY <1>1, <2>1
  <2> QED
    BY <1>2, <1>4, <2>2 DEF NestedAt, line
<1>6. line.indent = 4 => NestedAt(pos) = nested
  BY <1>1, <1>2, <1>4 DEF NestedAt
<1> QED
  BY <1>3, <1>4, <1>5, <1>6

\* Reading a line that is allowed.
LEMMA ReadingStands ==
  ASSUME Stands, pos <= Len(file), Allowed, file' = file, pos' = pos + 1,
         doc' = NestedDocument(pos), section' = SectionAt(pos), nested' = NestedAt(pos)
  PROVE  Stands'
<1>1. pos \in Nat /\ pos' - 1 = pos /\ pos' \in 1 .. (Len(file) + 1) /\ file \in Seq(Line)
  BY StandsAt DEF Stands
<1>2. \A i \in 1 .. pos : WellNested(i)
  <2>1. \A i \in 1 .. pos : i \in 1 .. (pos - 1) \/ i = pos
    BY <1>1
  <2> QED
    BY <2>1, AllowedIsLegal DEF Stands, LegalTo
<1>3. LegalTo(pos)
  BY <1>2 DEF LegalTo
<1>4. /\ \A n : SectionAt(n)' = SectionAt(n) /\ NestedAt(n)' = NestedAt(n)
      /\ \A n : NestedDocument(n)' = NestedDocument(n) /\ LegalTo(n)' = LegalTo(n)
  <2>1. /\ \A i : WellNested(i)' = WellNested(i)
        /\ \A n : TopAt(n)' = TopAt(n) /\ OpenAt(n)' = OpenAt(n)
        /\ \A n : NestedDocument(n)' = NestedDocument(n)
    BY FileKept DEF TopAt, OpenAt
  <2>2. \A n : SectionAt(n)' = SectionAt(n)
    BY <2>1 DEF SectionAt
  <2>3. \A n : NestedAt(n)' = NestedAt(n)
    BY <2>1, <2>2 DEF NestedAt
  <2>4. \A n : LegalTo(n)' = LegalTo(n)
    BY <2>1 DEF LegalTo
  <2> QED
    BY <2>1, <2>2, <2>3, <2>4
<1> QED
  BY <1>1, <1>3, <1>4 DEF Stands

\* Each action, one line.
LEMMA TopStep ==
  ASSUME Stands, DeclareSchema \/ DeclareMethod \/ DeclareRelations
  PROVE  Stands'
<1>1. Reading(0) /\ pos <= Len(file) /\ line.indent = 0 /\ Allowed /\ file' = file /\ pos' = pos + 1
  BY DEF Reading, DeclareSchema, DeclareMethod, DeclareRelations
<1>2. section' = SectionAt(pos) /\ nested' = NestedAt(pos)
  BY <1>1, StandsNext DEF DeclareSchema, DeclareMethod, DeclareRelations, NestedAtTop
<1>3. doc' = NestedDocument(pos)
  <2>1. CASE DeclareSchema
    BY <1>1, <2>1, TopDocument, DocumentIsMade DEF DeclareSchema, Made
  <2>2. CASE DeclareMethod
    BY <1>1, <2>2, TopDocument, DocumentIsMade DEF DeclareMethod, Made
  <2>3. CASE DeclareRelations
    BY <1>1, <2>3, TopDocument, DocumentIsMade DEF DeclareRelations, Made
  <2> QED
    BY <2>1, <2>2, <2>3
<1> QED
  BY <1>1, <1>2, <1>3, ReadingStands

LEMMA SchemaStep ==
  ASSUME Stands, OpenMetadata \/ AddService \/ SetRoute
  PROVE  Stands'
<1>1. /\ pos <= Len(file) /\ line.indent = 2 /\ Allowed /\ file' = file /\ pos' = pos + 1
      /\ section = "schema" /\ section' = section
  BY DEF Reading, OpenMetadata, AddService, SetRoute
<1>2. section' = SectionAt(pos) /\ NestedAt(pos) = NestedIn("schema", line.key)
  BY <1>1, StandsNext
<1>3. NestedDocument(pos)
           = Made(doc.name,
                  IF line.key = "@route" THEN line.value ELSE doc.route,
                  doc.metadata,
                  IF line.key = "service" THEN Append(doc.services, line.value) ELSE doc.services,
                  doc.methods, doc.relationsName, doc.relations)
  BY <1>1, SchemaDocument
<1>4. CASE OpenMetadata
  <2>1. nested' = NestedAt(pos)
    BY <1>2, <1>4 DEF OpenMetadata, NestedIn
  <2>2. doc' = NestedDocument(pos)
    BY <1>3, <1>4, DocumentIsMade DEF OpenMetadata
  <2> QED
    BY <1>1, <1>2, <2>1, <2>2, ReadingStands
<1>5. CASE AddService
  <2>1. nested' = NestedAt(pos)
    BY <1>2, <1>5 DEF AddService, NestedIn
  <2>2. doc' = NestedDocument(pos)
    <3> DEFINE services == Append(doc.services, line.value)
    <3>1. line.key = "service" /\ doc' = [doc EXCEPT !.services = services]
      BY <1>5 DEF AddService
    <3> HIDE DEF services
    <3>2. [doc EXCEPT !.services = services]
            = Made(doc.name, doc.route, doc.metadata, services, doc.methods,
                   doc.relationsName, doc.relations)
      BY DocumentIsMade DEF Made
    <3> QED
      BY <1>3, <3>1, <3>2 DEF services
  <2> QED
    BY <1>1, <1>2, <2>1, <2>2, ReadingStands
<1>6. CASE SetRoute
  <2>1. nested' = NestedAt(pos)
    BY <1>2, <1>6 DEF SetRoute, NestedIn
  <2>2. doc' = NestedDocument(pos)
    BY <1>3, <1>6, DocumentIsMade DEF SetRoute, Made
  <2> QED
    BY <1>1, <1>2, <2>1, <2>2, ReadingStands
<1> QED
  BY <1>4, <1>5, <1>6

LEMMA MethodStep ==
  ASSUME Stands, SetExec \/ OpenArguments
  PROVE  Stands'
<1> DEFINE m == doc.methods[CurrentMethod]
<1>1. /\ pos <= Len(file) /\ line.indent = 2 /\ Allowed /\ file' = file /\ pos' = pos + 1
      /\ section = "method" /\ section' = section
  BY DEF Reading, SetExec, OpenArguments
<1>2. section' = SectionAt(pos) /\ NestedAt(pos) = NestedIn("method", line.key)
  BY <1>1, StandsNext
<1>3. /\ NestedDocument(pos)
           = Made(doc.name, doc.route, doc.metadata, doc.services,
                  [doc.methods EXCEPT ![CurrentMethod] =
                     MadeMethod(m.ref, IF line.key = "@exec" THEN line.value ELSE m.exec,
                                [s \in Side |-> IF line.key = SideKey(s)
                                                THEN CountOf[line.value] ELSE m.count[s]],
                                m.args, m.format)],
                  doc.relationsName, doc.relations)
      /\ m = MadeMethod(m.ref, m.exec, m.count, m.args, m.format)
      /\ m.count = [s \in Side |-> m.count[s]]
      /\ CurrentMethod \in DOMAIN doc.methods
  BY <1>1, MethodLineDocument
<1>4. CASE SetExec
  <2>1. line.key = "@exec" /\ nested' = "none"
        /\ doc' = [doc EXCEPT !.methods[CurrentMethod].exec = line.value]
    BY <1>4 DEF SetExec
  <2>2. nested' = NestedAt(pos)
    BY <1>2, <2>1 DEF NestedIn
  <2>3. [s \in Side |-> IF line.key = SideKey(s) THEN CountOf[line.value] ELSE m.count[s]] = m.count
    <3>1. \A s : line.key # SideKey(s)
      BY <2>1 DEF SideKey
    <3> HIDE DEF m
    <3>2. [s \in Side |-> IF line.key = SideKey(s) THEN CountOf[line.value] ELSE m.count[s]]
            = [s \in Side |-> m.count[s]]
      BY <3>1, Zenon
    <3> QED
      BY <1>3, <3>2
  <2>4. [m EXCEPT !.exec = line.value]
          = MadeMethod(m.ref, line.value, m.count, m.args, m.format)
    <3> HIDE DEF m
    <3> QED
      BY <1>3 DEF MadeMethod
  <2>5. [doc EXCEPT !.methods[CurrentMethod].exec = line.value]
          = [doc EXCEPT !.methods =
               [doc.methods EXCEPT ![CurrentMethod] = [m EXCEPT !.exec = line.value]]]
    BY Zenon
  <2>6. doc' = NestedDocument(pos)
    <3> HIDE DEF m
    <3> QED
      BY <1>3, <2>1, <2>3, <2>4, <2>5, DocumentIsMade DEF Made
  <2> QED
    BY <1>1, <1>2, <2>2, <2>6, ReadingStands
<1>5. CASE OpenArguments
  <2> DEFINE side == SideOf(line.key)
             count == [s \in Side |-> IF line.key = SideKey(s) THEN CountOf[line.value]
                                      ELSE m.count[s]]
  <2>1. line.key \in {"@args_input", "@args_output"} /\ nested' = side
        /\ doc' = [doc EXCEPT !.methods[CurrentMethod].count[side] = CountOf[line.value]]
    BY <1>5 DEF OpenArguments
  <2>2. nested' = NestedAt(pos)
    BY <1>2, <2>1 DEF NestedIn, SideOf
  <2>3. \A s \in Side : line.key = SideKey(s) <=> s = side
    BY <2>1 DEF Side, SideKey, SideOf
  <2>4. side \in Side
    BY DEF Side, SideOf
  <2> HIDE DEF side
  <2>5. count = [m.count EXCEPT ![side] = CountOf[line.value]]
    <3> HIDE DEF m
    <3>1. [m.count EXCEPT ![side] = CountOf[line.value]]
            = [s \in Side |-> IF s = side THEN CountOf[line.value] ELSE m.count[s]]
      BY <1>3, <2>4
    <3> QED
      BY <2>3, <3>1, Zenon
  <2> HIDE DEF count
  <2>6. [m EXCEPT !.count = count] = MadeMethod(m.ref, m.exec, count, m.args, m.format)
    <3> HIDE DEF m
    <3> QED
      BY <1>3 DEF MadeMethod
  <2>7. [doc EXCEPT !.methods[CurrentMethod].count[side] = CountOf[line.value]]
          = [doc EXCEPT !.methods =
               [doc.methods EXCEPT ![CurrentMethod] =
                  [m EXCEPT !.count = [m.count EXCEPT ![side] = CountOf[line.value]]]]]
    BY Zenon
  <2>8. line.key # "@exec"
    BY <2>1
  <2>9. NestedDocument(pos)
           = Made(doc.name, doc.route, doc.metadata, doc.services,
                  [doc.methods EXCEPT ![CurrentMethod] =
                     MadeMethod(m.ref, m.exec, count, m.args, m.format)],
                  doc.relationsName, doc.relations)
    BY <1>3, <2>8 DEF count
  <2>10. doc' = NestedDocument(pos)
    <3> HIDE DEF m
    <3> QED
      BY <2>1, <2>5, <2>6, <2>7, <2>9, DocumentIsMade DEF Made
  <2> QED
    BY <1>1, <1>2, <2>2, <2>10, ReadingStands
<1> QED
  BY <1>4, <1>5

LEMMA RuleStep ==
  ASSUME Stands, AddRule
  PROVE  Stands'
<1>1. /\ pos <= Len(file) /\ line.indent = 2 /\ Allowed /\ file' = file /\ pos' = pos + 1
      /\ section = "relations" /\ section' = section /\ nested' = nested
      /\ doc' = [doc EXCEPT !.relations = Append(@, [name |-> line.key, condition |-> line.value])]
  BY DEF Reading, AddRule
<1>2. section' = SectionAt(pos) /\ NestedAt(pos) = NestedIn("relations", line.key)
  BY <1>1, StandsNext
<1>3. nested' = NestedAt(pos)
  <2>1. \A key : NestedIn("relations", key) = "none"
    BY DEF NestedIn
  <2>2. nested = "none" \/ nested = NestedIn(section, file[OpenAt(pos - 1)].key)
    BY DEF Stands, NestedAt
  <2> QED
    BY <1>1, <1>2, <2>1, <2>2
<1>4. doc' = NestedDocument(pos)
  <2> DEFINE rules == Append(doc.relations, [name |-> line.key, condition |-> line.value])
  <2>1. doc' = [doc EXCEPT !.relations = rules]
    BY <1>1
  <2>2. NestedDocument(pos) = Made(doc.name, doc.route, doc.metadata, doc.services, doc.methods,
                                   doc.relationsName, rules)
    BY <1>1, RelationsDocument
  <2> HIDE DEF rules
  <2>3. [doc EXCEPT !.relations = rules]
          = Made(doc.name, doc.route, doc.metadata, doc.services, doc.methods,
                 doc.relationsName, rules)
    BY DocumentIsMade DEF Made
  <2> QED
    BY <2>1, <2>2, <2>3
<1> QED
  BY <1>1, <1>2, <1>3, <1>4, ReadingStands

LEMMA FieldStep ==
  ASSUME Stands, SetField
  PROVE  Stands'
<1>1. /\ pos <= Len(file) /\ line.indent = 4 /\ Allowed /\ file' = file /\ pos' = pos + 1
      /\ section = "schema" /\ section' = section /\ nested' = nested
      /\ doc' = [doc EXCEPT !.metadata[line.key] = line.value]
  BY DEF Reading, SetField
<1>2. section' = SectionAt(pos) /\ nested' = NestedAt(pos)
  BY <1>1, StandsNext
<1>3. nested = "metadata" /\ line.key \in Field
  <2>1. AllowedNested
    BY <1>1, AllowedIsLegal
  <2> QED
    BY <1>1, <2>1 DEF AllowedNested
<1>4. doc' = NestedDocument(pos)
  <2> DEFINE metadata == [f \in Field |-> IF line.key = f THEN line.value ELSE doc.metadata[f]]
  <2>1. NestedDocument(pos) = Made(doc.name, doc.route, metadata, doc.services, doc.methods,
                                   doc.relationsName, doc.relations)
    BY <1>1, <1>3, FieldDocument
  <2>2. metadata = [doc.metadata EXCEPT ![line.key] = line.value]
    <3>1. doc.metadata = [f \in Field |-> doc.metadata[f]]
      BY DocumentIsMade
    <3>2. [doc.metadata EXCEPT ![line.key] = line.value]
            = [f \in Field |-> IF f = line.key THEN line.value ELSE doc.metadata[f]]
      BY <1>3, <3>1
    <3> QED
      BY <3>2, Zenon
  <2> HIDE DEF metadata
  <2>3. [doc EXCEPT !.metadata[line.key] = line.value] = [doc EXCEPT !.metadata = metadata]
    BY <2>2, Zenon
  <2>4. [doc EXCEPT !.metadata = metadata]
          = Made(doc.name, doc.route, metadata, doc.services, doc.methods, doc.relationsName,
                 doc.relations)
    BY DocumentIsMade DEF Made
  <2> QED
    BY <1>1, <2>1, <2>3, <2>4
<1> QED
  BY <1>1, <1>2, <1>4, ReadingStands

LEMMA SideStep ==
  ASSUME Stands, SetArguments \/ SetFormat
  PROVE  Stands'
<1> DEFINE m == doc.methods[CurrentMethod]
<1>1. /\ pos <= Len(file) /\ line.indent = 4 /\ Allowed /\ file' = file /\ pos' = pos + 1
      /\ section = "method" /\ section' = section /\ nested' = nested
  BY DEF Reading, SetArguments, SetFormat
<1>2. section' = SectionAt(pos) /\ nested' = NestedAt(pos)
  BY <1>1, StandsNext
<1>3. nested \in Side /\ (line.key = "decl_format" => nested = "output")
  <2>1. AllowedNested
    BY <1>1, AllowedIsLegal
  <2> QED
    BY <1>1, <2>1 DEF AllowedNested
<1>4. /\ NestedDocument(pos)
           = Made(doc.name, doc.route, doc.metadata, doc.services,
                  [doc.methods EXCEPT ![CurrentMethod] =
                     MadeMethod(m.ref, m.exec, m.count,
                                [s \in Side |-> IF s = nested /\ line.key = "decl_args"
                                                THEN ParamsOf[line.value] ELSE m.args[s]],
                                IF nested = "output" /\ line.key = "decl_format"
                                THEN line.value ELSE m.format)],
                  doc.relationsName, doc.relations)
      /\ m = MadeMethod(m.ref, m.exec, m.count, m.args, m.format)
      /\ m.args = [s \in Side |-> m.args[s]]
      /\ CurrentMethod \in DOMAIN doc.methods
  BY <1>1, <1>3, SideDocument
<1>5. CASE SetArguments
  <2> DEFINE args == [m.args EXCEPT ![nested] = ParamsOf[line.value]]
  <2>1. line.key = "decl_args"
        /\ doc' = [doc EXCEPT !.methods[CurrentMethod].args[nested] = ParamsOf[line.value]]
    BY <1>5 DEF SetArguments
  <2>2. args = [s \in Side |-> IF s = nested /\ line.key = "decl_args"
                               THEN ParamsOf[line.value] ELSE m.args[s]]
    <3> HIDE DEF m
    <3>1. args = [s \in Side |-> IF s = nested THEN ParamsOf[line.value] ELSE m.args[s]]
      BY <1>3, <1>4
    <3> QED
      BY <2>1, <3>1, Zenon
  <2>3. [doc EXCEPT !.methods[CurrentMethod].args[nested] = ParamsOf[line.value]]
          = [doc EXCEPT !.methods =
               [doc.methods EXCEPT ![CurrentMethod] = [m EXCEPT !.args = args]]]
    BY Zenon
  <2> HIDE DEF args
  <2>4. [m EXCEPT !.args = args] = MadeMethod(m.ref, m.exec, m.count, args, m.format)
    <3> HIDE DEF m
    <3> QED
      BY <1>4 DEF MadeMethod
  <2>5. NestedDocument(pos)
           = Made(doc.name, doc.route, doc.metadata, doc.services,
                  [doc.methods EXCEPT ![CurrentMethod] =
                     MadeMethod(m.ref, m.exec, m.count, args, m.format)],
                  doc.relationsName, doc.relations)
    BY <1>4, <2>1, <2>2
  <2>6. doc' = NestedDocument(pos)
    <3> HIDE DEF m
    <3> QED
      BY <2>1, <2>3, <2>4, <2>5, DocumentIsMade DEF Made
  <2> QED
    BY <1>1, <1>2, <2>6, ReadingStands
<1>6. CASE SetFormat
  <2>1. line.key = "decl_format"
        /\ doc' = [doc EXCEPT !.methods[CurrentMethod].format = line.value]
    BY <1>6 DEF SetFormat
  <2>2. [s \in Side |-> IF s = nested /\ line.key = "decl_args" THEN ParamsOf[line.value]
                        ELSE m.args[s]] = m.args
    <3> HIDE DEF m
    <3>1. line.key # "decl_args"
      BY <2>1
    <3>2. [s \in Side |-> IF s = nested /\ line.key = "decl_args" THEN ParamsOf[line.value]
                          ELSE m.args[s]] = [s \in Side |-> m.args[s]]
      BY <3>1, Zenon
    <3> QED
      BY <1>4, <3>2
  <2>3. [doc EXCEPT !.methods[CurrentMethod].format = line.value]
          = [doc EXCEPT !.methods =
               [doc.methods EXCEPT ![CurrentMethod] = [m EXCEPT !.format = line.value]]]
    BY Zenon
  <2>4. [m EXCEPT !.format = line.value] = MadeMethod(m.ref, m.exec, m.count, m.args, line.value)
    <3> HIDE DEF m
    <3> QED
      BY <1>4 DEF MadeMethod
  <2>5. NestedDocument(pos)
           = Made(doc.name, doc.route, doc.metadata, doc.services,
                  [doc.methods EXCEPT ![CurrentMethod] =
                     MadeMethod(m.ref, m.exec, m.count, m.args, line.value)],
                  doc.relationsName, doc.relations)
    BY <1>3, <1>4, <2>1, <2>2
  <2>6. doc' = NestedDocument(pos)
    <3> HIDE DEF m
    <3> QED
      BY <2>1, <2>3, <2>4, <2>5, DocumentIsMade DEF Made
  <2> QED
    BY <1>1, <1>2, <2>6, ReadingStands
<1> QED
  BY <1>5, <1>6

-----------------------------------------------------------------------------
(* The invariant, and the runs' properties *)

\* A parser that has ended has read the whole file or stands at a line that is
\* not legal.
Verdict ==
  /\ outcome \in {"reading", "unread", "accepted", "rejected"}
  /\ outcome = "accepted" => pos > Len(file) /\ Valid(doc)
  /\ outcome = "rejected" =>
       \/ pos <= Len(file) /\ ~ WellNested(pos)
       \/ pos > Len(file) /\ ~ Valid(doc)

ParserInv == Stands /\ Verdict

\* Before the first line nothing is declared.
LEMMA NothingDeclared ==
  ASSUME file \in Seq(Line)
  PROVE  NestedDocument(0) = EmptyDocument
<1>1. Len(file) \in Nat /\ 0 \in 0 .. Len(file)
  <2>1. Len(file) \in Nat
    BY LinesAreLines
  <2> QED
    BY <2>1
<1>2. ASSUME NEW X \in SUBSET Lines
      PROVE  Upto(X, 0) = {}
  BY LinesAreNumbers, NoneYet
<1>3. LatestValue({}) = ""
  BY DEF LatestValue
<1>4. \A f : Listed(f, InOrder({})) = <<>>
  <2> TAKE f
  <2>1. {} \in SUBSET (1 .. 0) /\ 0 \in Nat
    OBVIOUS
  <2>2. InOrder({}) \in Seq({}) /\ Len(InOrder({})) = Cardinality({})
    BY <2>1, InOrderLists
  <2>3. Listed(f, InOrder({})) \in Seq(Image(f, {})) /\ Len(Listed(f, InOrder({}))) = 0
    BY <2>2, FS_EmptySet, ListedIs
  <2> QED
    BY <2>3, EmptySeq
<1>5. NestedDocument(0) = DocumentAt(0)
  BY <1>1, DocumentIs
<1>6. /\ \A key : Upto(Heads(key), 0) = {}
      /\ Upto(RouteLines, 0) = {} /\ Upto(ServiceLines, 0) = {} /\ Upto(RuleLines, 0) = {}
      /\ \A f : Upto(FieldLines(f), 0) = {}
  BY <1>2, PartsAreLines
<1>7. DocumentAt(0)
        = [name |-> "", route |-> "", metadata |-> [f \in Field |-> ""], services |-> <<>>,
           methods |-> <<>>, relationsName |-> "", relations |-> <<>>]
  BY <1>3, <1>4, <1>6, Zenon DEF DocumentAt
<1> QED
  BY <1>5, <1>7 DEF EmptyDocument

\* The invariant at first.
LEMMA InitStands ==
  ASSUME ParserInit
  PROVE  ParserInv
<1>1. file \in Seq(Line) /\ pos = 1 /\ doc = EmptyDocument
      /\ section = "none" /\ nested = "none" /\ outcome = "reading"
  BY ParserAssumption DEF ParserInit
<1>2. Len(file) \in Nat /\ pos - 1 = 0 /\ pos \in 1 .. (Len(file) + 1)
  <2>1. Len(file) \in Nat
    BY <1>1, LinesAreLines
  <2> QED
    BY <1>1, <2>1
<1>3. LegalTo(0)
  BY DEF LegalTo
<1>4. SectionAt(0) = "none" /\ NestedAt(0) = "none"
  BY AboveBefore DEF SectionAt, NestedAt, TopAt, OpenAt
<1> QED
  BY <1>1, <1>2, <1>3, <1>4, NothingDeclared DEF ParserInv, Stands, Verdict

\* A step that reads no line.
LEMMA StandsStill ==
  ASSUME Stands, UNCHANGED <<file, pos, doc, section, nested>>
  PROVE  Stands' /\ WellNested(pos)' = WellNested(pos) /\ Valid(doc)' = Valid(doc)
<1>1. /\ \A i : WellNested(i)' = WellNested(i)
      /\ \A n : TopAt(n)' = TopAt(n) /\ OpenAt(n)' = OpenAt(n)
      /\ \A n : NestedDocument(n)' = NestedDocument(n)
  BY FileKept DEF TopAt, OpenAt
<1>2. \A n : SectionAt(n)' = SectionAt(n)
  BY <1>1 DEF SectionAt
<1>3. \A n : NestedAt(n)' = NestedAt(n)
  BY <1>1, <1>2 DEF NestedAt
<1>4. \A n : LegalTo(n)' = LegalTo(n)
  BY <1>1 DEF LegalTo
<1>5. Stands'
  BY <1>1, <1>2, <1>3, <1>4 DEF Stands
<1>6. Valid(doc)' = Valid(doc)
  OBVIOUS
<1> QED
  BY <1>1, <1>5, <1>6

\* The steps that read a line, and those that end the parse.
LEMMA InvStep ==
  ASSUME ParserInv, [ParserNext]_parserVars
  PROVE  ParserInv'
<1>1. Stands /\ Verdict /\ pos \in Nat /\ Len(file) \in Nat
  BY StandsAt DEF ParserInv
<1>2. CASE \/ DeclareSchema \/ DeclareMethod \/ DeclareRelations
           \/ OpenMetadata \/ AddService \/ SetRoute \/ SetExec \/ OpenArguments \/ AddRule
           \/ SetField \/ SetArguments \/ SetFormat
  <2>1. outcome' = "reading"
    BY <1>2 DEF DeclareSchema, DeclareMethod, DeclareRelations, OpenMetadata, AddService,
                SetRoute, SetExec, OpenArguments, AddRule, SetField, SetArguments,
                SetFormat, Reading
  <2>2. Stands'
    BY <1>1, <1>2, TopStep, SchemaStep, MethodStep, RuleStep, FieldStep, SideStep
  <2>3. Verdict'
    BY <2>1 DEF Verdict
  <2> QED
    BY <2>2, <2>3 DEF ParserInv
<1>3. CASE Reject
  <2>1. ~ WellNested(pos) /\ pos <= Len(file)
    BY <1>1, <1>3, AllowedIsLegal DEF Reject
  <2>2. Stands' /\ WellNested(pos)' = WellNested(pos)
    BY <1>1, <1>3, StandsStill DEF Reject
  <2> QED
    BY <1>3, <2>1, <2>2 DEF Reject, ParserInv, Verdict
<1>4. CASE FailToRead
  <2>1. Stands'
    BY <1>1, <1>4, StandsStill DEF FailToRead
  <2> QED
    BY <1>4, <2>1 DEF FailToRead, ParserInv, Verdict
<1>5. CASE Finish
  <2>1. Stands' /\ Valid(doc)' = Valid(doc)
    BY <1>1, <1>5, StandsStill DEF Finish
  <2> QED
    BY <1>5, <2>1 DEF Finish, ParserInv, Verdict
<1>6. CASE UNCHANGED parserVars
  <2>1. Stands' /\ WellNested(pos)' = WellNested(pos) /\ Valid(doc)' = Valid(doc)
    BY <1>1, <1>6, StandsStill DEF parserVars
  <2> QED
    BY <1>1, <1>6, <2>1 DEF parserVars, ParserInv, Verdict
<1> QED
  BY <1>2, <1>3, <1>4, <1>5, <1>6 DEF ParserNext

LEMMA ParserInvHolds == ParserSpec => []ParserInv
<1>1. ParserInit => ParserInv
  BY InitStands
<1>2. ParserInv /\ [ParserNext]_parserVars => ParserInv'
  BY InvStep
<1> QED
  BY <1>1, <1>2, PTL DEF ParserSpec

\* At every line, what the parser has built from its section, its nested section and
\* its pointer into the slice of methods (parser.go 66-70) is what the lines so far
\* declare by the way they are nested, whatever the file is.
THEOREM ReadsWhatIsNestedHolds == ParserSpec => []ReadsWhatIsNested
<1>1. ParserInv => ReadsWhatIsNested
  BY DEF ParserInv, Stands, ReadsWhatIsNested
<1> QED
  BY <1>1, ParserInvHolds, PTL

\* Parse (parser.go 22-63) accepts a file exactly when every line is legal where it is
\* nested and the document that the lines declare is valid.
THEOREM VerdictIsTheGrammarHolds == ParserSpec => []VerdictIsTheGrammar
<1>1. ASSUME ParserInv PROVE VerdictIsTheGrammar
  <2>1. /\ Stands /\ Verdict /\ pos \in 1 .. (Len(file) + 1) /\ Len(file) \in Nat
        /\ DOMAIN file = 1 .. Len(file)
    BY <1>1, StandsAt, LinesAreLines DEF ParserInv, Stands, Lines
  <2>2. pos > Len(file) =>
          /\ \A i \in DOMAIN file : WellNested(i)
          /\ doc = NestedDocument(Len(file))
    <3>1. pos > Len(file) => pos - 1 = Len(file)
      BY <2>1
    <3> QED
      BY <2>1, <3>1 DEF Stands, LegalTo
  <2>3. pos <= Len(file) => pos \in DOMAIN file
    BY <2>1
  <2> QED
    BY <2>1, <2>2, <2>3 DEF Verdict, VerdictIsTheGrammar
<1> QED
  BY <1>1, ParserInvHolds, PTL

\* The list of some lines has each of them once.
LEMMA ListHasAll ==
  ASSUME file \in Seq(Line), NEW X \in SUBSET Lines, NEW f, NEW list,
         list = Listed(f, InOrder(Upto(X, Len(file))))
  PROVE  /\ \A x \in X : Place(X, x) \in DOMAIN list /\ list[Place(X, x)] = f[x]
         /\ \A x, y \in X : Place(X, x) = Place(X, y) => x = y
         /\ \A k \in DOMAIN list : \E x \in X : Place(X, x) = k /\ list[k] = f[x]
<1>1. Len(file) \in Nat
  BY LinesAreLines
<1>2. Upto(X, Len(file)) = X
  <2>1. \A i \in X : i <= Len(file)
    BY <1>1 DEF Lines
  <2> QED
    BY <2>1, Zenon DEF Upto
<1>3. /\ InOrder(X) \in Seq(X)
      /\ \A i \in X : Place(X, i) \in DOMAIN InOrder(X) /\ InOrder(X)[Place(X, i)] = i
      /\ \A k \in DOMAIN InOrder(X) : InOrder(X)[k] \in X /\ Place(X, InOrder(X)[k]) = k
  BY <1>1, InOrderLists DEF Lines
<1>4. list = Listed(f, InOrder(X))
  BY <1>2
<1>5. /\ DOMAIN list = DOMAIN InOrder(X)
      /\ \A k \in DOMAIN InOrder(X) : list[k] = f[InOrder(X)[k]]
  BY <1>4, Zenon DEF Listed
<1>6. \A x \in X : Place(X, x) \in DOMAIN list /\ list[Place(X, x)] = f[x]
  BY <1>3, <1>5, Zenon
<1>7. \A x, y \in X : Place(X, x) = Place(X, y) => x = y
  BY <1>3, Zenon
<1>8. \A k \in DOMAIN list : \E x \in X : Place(X, x) = k /\ list[k] = f[x]
  BY <1>3, <1>5, Zenon
<1> QED
  BY <1>6, <1>7, <1>8

\* In an accepted document the service's maps of methods by reference and of conditions
\* by relation (resolver/service.go 122-130) lose nothing: a method is declared once, is
\* a service of the schema and has one condition, that is not empty.
THEOREM MethodsHaveOneConditionHolds == ParserSpec => []MethodsHaveOneCondition
<1>1. ASSUME ParserInv, outcome = "accepted"
      PROVE  \A m \in Heads("method") :
               /\ \A n \in Heads("method") : file[n].value = file[m].value => n = m
               /\ \E s \in ServiceLines : file[s].value = file[m].value
               /\ \E r \in RuleLines :
                    /\ file[r].value # ""
                    /\ \A q \in RuleLines : file[q].key = RelationOf[file[m].value] <=> q = r
  <2>1. /\ file \in Seq(Line) /\ doc = DocumentAt(Len(file)) /\ Valid(doc)
    <3>1. Stands /\ pos > Len(file) /\ Valid(doc) /\ pos \in 1 .. (Len(file) + 1)
      BY <1>1 DEF ParserInv, Verdict, Stands
    <3>2. Len(file) \in Nat /\ doc = DocumentAt(pos - 1) /\ file \in Seq(Line)
      BY <3>1, StandsAt DEF Stands
    <3>3. pos - 1 = Len(file)
      BY <3>1, <3>2
    <3> QED
      BY <3>1, <3>2, <3>3
  <2>2. /\ Heads("method") \in SUBSET Lines
        /\ ServiceLines \in SUBSET Lines /\ RuleLines \in SUBSET Lines
    BY PartsAreLines
  <2>3. /\ doc.methods = Listed(MethodOf(Len(file)), InOrder(Upto(Heads("method"), Len(file))))
        /\ doc.services = Listed(Values, InOrder(Upto(ServiceLines, Len(file))))
        /\ doc.relations = Listed(RuleOf, InOrder(Upto(RuleLines, Len(file))))
    BY <2>1 DEF DocumentAt
  <2>4. /\ \A h \in Heads("method") : MethodOf(Len(file))[h].ref = file[h].value
        /\ \A s \in ServiceLines : Values[s] = file[s].value
        /\ \A r \in RuleLines : RuleOf[r].name = file[r].key /\ RuleOf[r].condition = file[r].value
    BY <2>2 DEF MethodOf, MethodAt, Values, RuleOf
  <2>5. /\ \A m \in Heads("method") :
             /\ Place(Heads("method"), m) \in DOMAIN doc.methods
             /\ doc.methods[Place(Heads("method"), m)].ref = file[m].value
        /\ \A m, o \in Heads("method") :
             Place(Heads("method"), m) = Place(Heads("method"), o) => m = o
    BY <2>1, <2>2, <2>3, <2>4, ListHasAll
  <2>6. \A k \in DOMAIN doc.services : \E s \in ServiceLines : doc.services[k] = file[s].value
    BY <2>1, <2>2, <2>3, <2>4, ListHasAll
  <2>7. /\ \A r \in RuleLines :
             /\ Place(RuleLines, r) \in DOMAIN doc.relations
             /\ doc.relations[Place(RuleLines, r)].name = file[r].key
             /\ doc.relations[Place(RuleLines, r)].condition = file[r].value
        /\ \A r, q \in RuleLines : Place(RuleLines, r) = Place(RuleLines, q) => r = q
        /\ \A k \in DOMAIN doc.relations : \E r \in RuleLines : Place(RuleLines, r) = k
    BY <2>1, <2>2, <2>3, <2>4, ListHasAll
  <2>8. \A i, j \in DOMAIN doc.methods : doc.methods[i].ref = doc.methods[j].ref => i = j
    BY <2>1, Zenon DEF Valid, NoRepeat
  <2>9. \A i \in DOMAIN doc.methods :
          \E j \in DOMAIN doc.services : doc.services[j] = doc.methods[i].ref
    BY <2>1, Zenon DEF Valid
  <2>10. \A i \in DOMAIN doc.relations : doc.relations[i].condition # ""
    BY <2>1, Zenon DEF Valid
  <2>11. \A i, j \in DOMAIN doc.relations :
           doc.relations[i].name = doc.relations[j].name => i = j
    BY <2>1, Zenon DEF Valid, NoRepeat, DistinctRules
  <2>12. \A i \in DOMAIN doc.services :
           \E j \in DOMAIN doc.relations : doc.relations[j].name = RelationOf[doc.services[i]]
    BY <2>1, Zenon DEF Valid
  <2>13. ASSUME NEW m \in Heads("method")
        PROVE  /\ \A o \in Heads("method") : file[o].value = file[m].value => o = m
               /\ \E s \in ServiceLines : file[s].value = file[m].value
               /\ \E r \in RuleLines :
                    /\ file[r].value # ""
                    /\ \A q \in RuleLines : file[q].key = RelationOf[file[m].value] <=> q = r
    <3>1. \A o \in Heads("method") : file[o].value = file[m].value => o = m
      BY <2>5, <2>8
    <3>2. PICK j \in DOMAIN doc.services : doc.services[j] = file[m].value
      BY <2>5, <2>9
    <3>3. \E s \in ServiceLines : file[s].value = file[m].value
      BY <2>6, <3>2
    <3>4. PICK k \in DOMAIN doc.relations : doc.relations[k].name = RelationOf[file[m].value]
      BY <2>12, <3>2
    <3>5. PICK r \in RuleLines : Place(RuleLines, r) = k
      BY <2>7, <3>4, Zenon
    <3>6. file[r].value # "" /\ file[r].key = RelationOf[file[m].value]
      BY <2>7, <2>10, <3>4, <3>5
    <3>7. \A q \in RuleLines : file[q].key = RelationOf[file[m].value] => q = r
      <4> TAKE q \in RuleLines
      <4>1. HAVE file[q].key = RelationOf[file[m].value]
      <4>2. /\ Place(RuleLines, q) \in DOMAIN doc.relations
            /\ Place(RuleLines, r) \in DOMAIN doc.relations
            /\ doc.relations[Place(RuleLines, q)].name = doc.relations[Place(RuleLines, r)].name
        BY <2>7, <3>6, <4>1
      <4>3. Place(RuleLines, q) = Place(RuleLines, r)
        BY <2>11, <4>2
      <4> QED
        BY <2>7, <4>3, Zenon
    <3> QED
      BY <3>1, <3>3, <3>6, <3>7, Zenon
  <2> QED
    BY <2>13, Zenon
<1>2. ParserInv => MethodsHaveOneCondition
  BY <1>1, Zenon DEF MethodsHaveOneCondition, Heads, ServiceLines, InSchema, RuleLines, Within
<1> QED
  BY <1>2, ParserInvHolds, PTL
=============================================================================
