-------------------------- MODULE FingerprintCache --------------------------
(***************************************************************************)
(* The cache of document fingerprints, FingerprintCache of                 *)
(* internal/schema/schema.go: a sync.Map from a document, by its address,  *)
(* to the hash of its content, used by several goroutines while the        *)
(* document's owner edits it and invalidates the entry.  Hashing takes     *)
(* time: a document is read in two steps here, its relations last, and a   *)
(* fingerprint is what was read.                                           *)
(***************************************************************************)
EXTENDS Integers

CONSTANTS
  Caller,   \* goroutines that ask for fingerprints
  Doc,      \* addresses of documents
  Version,  \* what a part of a document may say
  First     \* what documents say at first

VARIABLES
  content,   \* document -> what each of its parts says
  cached,    \* document -> its entry
  call,      \* caller -> where its call of Public is, and what it has read so far
  edited,    \* document -> was it edited since it was last invalidated?
  overtaken  \* document -> was its entry stored by a call that an edit overtook?

cacheVars == <<content, cached, call, edited, overtaken>>

\* The elements of a method's parameters are a part apart from the rest of the method.
\* The names of the relations block and of the services, which nobody reads but to hash
\* them, are left out.
Part == {"name", "methods", "parameters", "relations"}

NoSum == <<>>
Sum == [Part -> Version]
ReadEarly == Part \ {"relations"}

Stage == {"idle", "first", "second", "store"}

Call == [at : Stage, doc : Doc, sum : {NoSum} \cup [ReadEarly -> Version] \cup Sum, whole : BOOLEAN]

Idle(d) == [at |-> "idle", doc |-> d, sum |-> NoSum, whole |-> TRUE]

ASSUME CacheAssumption == First \subseteq Sum

CacheInit ==
  /\ content \in [Doc -> First]
  /\ cached = [d \in Doc |-> NoSum]
  /\ call \in [Caller -> {Idle(d) : d \in Doc}]
  /\ edited = [d \in Doc |-> FALSE]
  /\ overtaken = [d \in Doc |-> FALSE]

-----------------------------------------------------------------------------

\* Public: the entry is returned if there is one.  Either way of returning, what is
\* returned is the entry as it is then.
Load(c, d) ==
  /\ call[c].at = "idle"
  /\ call' = [call EXCEPT ![c] =
       IF cached[d] # NoSum THEN Idle(d) ELSE [Idle(d) EXCEPT !.at = "first"]]
  /\ UNCHANGED <<content, cached, edited, overtaken>>

\* computePublicFingerprint
ReadFirst(c) ==
  /\ call[c].at = "first"
  /\ call' = [call EXCEPT ![c].at = "second", ![c].sum = [p \in ReadEarly |-> content[call[c].doc][p]]]
  /\ UNCHANGED <<content, cached, edited, overtaken>>

ReadSecond(c) ==
  /\ call[c].at = "second"
  /\ call' = [call EXCEPT ![c].at = "store",
       ![c].sum = [p \in Part |-> IF p \in ReadEarly THEN call[c].sum[p] ELSE content[call[c].doc][p]]]
  /\ UNCHANGED <<content, cached, edited, overtaken>>

\* A faulty variant: the sum is stored over one that is there.
StoreAnyway(c) ==
  LET d == call[c].doc IN
  /\ call[c].at = "store"
  /\ cached' = [cached EXCEPT ![d] = call[c].sum]
  /\ overtaken' = [overtaken EXCEPT ![d] = ~call[c].whole]
  /\ call' = [call EXCEPT ![c] = Idle(d)]
  /\ UNCHANGED <<content, edited>>

\* LoadOrStore: another call's sum is returned rather than this one's.
LoadOrStore(c) ==
  LET d == call[c].doc IN
  /\ call[c].at = "store"
  /\ IF cached[d] = NoSum
       THEN /\ cached' = [cached EXCEPT ![d] = call[c].sum]
            /\ overtaken' = [overtaken EXCEPT ![d] = ~call[c].whole]
       ELSE UNCHANGED <<cached, overtaken>>
  /\ call' = [call EXCEPT ![c] = Idle(d)]
  /\ UNCHANGED <<content, edited>>

\* A faulty variant: the entry stays.
KeepEntry(d) == cached

DeleteEntry(d) == [cached EXCEPT ![d] = NoSum]

Invalidate(d) ==
  /\ cached' = DeleteEntry(d)
  /\ edited' = [edited EXCEPT ![d] = FALSE]
  /\ overtaken' = [overtaken EXCEPT ![d] = FALSE]
  /\ UNCHANGED <<content, call>>

\* The owner of a document changes a part of it, and overtakes the calls that read it.
Edit(d, part, v) ==
  /\ content' = [content EXCEPT ![d] = [@ EXCEPT ![part] = v]]
  /\ edited' = [edited EXCEPT ![d] = TRUE]
  /\ call' = [c \in Caller |->
       IF call[c].at # "idle" /\ call[c].doc = d THEN [call[c] EXCEPT !.whole = FALSE] ELSE call[c]]
  /\ UNCHANGED <<cached, overtaken>>

CacheNext ==
  \/ \E c \in Caller : (\E d \in Doc : Load(c, d)) \/ ReadFirst(c) \/ ReadSecond(c) \/ LoadOrStore(c)
  \/ \E d \in Doc : Invalidate(d) \/ \E part \in Part, v \in Version : Edit(d, part, v)

CacheSpec == CacheInit /\ [][CacheNext]_cacheVars

-----------------------------------------------------------------------------

CacheTypeOK ==
  /\ content \in [Doc -> Sum]
  /\ cached \in [Doc -> Sum \cup {NoSum}]
  /\ call \in [Caller -> Call]
  /\ edited \in [Doc -> BOOLEAN]
  /\ overtaken \in [Doc -> BOOLEAN]

\* An entry is that of the document as it is, as long as its owner invalidates it after
\* an edit, unless it was stored by a call that was under way during an edit: a later
\* invalidation removes that one too, but one before the store does not help.
StaleOnlyIfOvertaken ==
  \A d \in Doc : cached[d] # NoSum /\ ~edited[d] /\ ~overtaken[d] => cached[d] = content[d]

\* Between two invalidations there is one fingerprint of a document: everyone who asked
\* for it got that one, whoever stored it.
SumStands ==
  [][\A d \in Doc : cached[d] # NoSum => cached'[d] \in {cached[d], NoSum}]_cacheVars
=============================================================================
