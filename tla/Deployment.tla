----------------------------- MODULE Deployment -----------------------------
(***************************************************************************)
(* A service from its config to its requests.  The document is loaded from *)
(* a URL or a file, New of internal/resolver/service.go copies some of it  *)
(* and asks for its fingerprint, and the service is given a keyring, a     *)
(* replay store and a limit by its setters: by the daemon clerm-resolver   *)
(* before it listens, by an embedding program at any time, requests under  *)
(* way or not.  Nor are the document's edits, or the setters, synchronized *)
(* with the requests; that strings and pointers are written and read       *)
(* whole, and in some one order, is assumed of the build, and that the     *)
(* replay stores are of one type.                                          *)
(***************************************************************************)
EXTENDS FingerprintCache, ConfigSource

CONSTANTS
  Request,      \* requests, all with one token
  Issued,       \* what the document said that the token was issued for
  BodyLength,   \* request -> the length of its body
  Limit,        \* the limits that it may be given; 0 stands for all that are not positive
  DefaultLimit, \* 1 MiB
  Owner,        \* the caller of New, one of Caller
  MaxChanges    \* bound: edits, invalidations and settings in all

None == "none"

ASSUME DeploymentAssumption ==
  /\ BodyLength \in [Request -> Nat] /\ Limit \subseteq Nat /\ DefaultLimit \in Nat \ {0}
  /\ Issued \in Sum /\ Owner \in Caller /\ MaxChanges \in Nat

VARIABLES
  program,   \* the daemon, with its flags, or an embedding program
  making,    \* the document that New makes a service of, and what it has copied
  service,   \* the service
  request,   \* request -> where its goroutine is
  changes    \* how much was changed

serviceVars == <<program, making, service, request, changes>>
deploymentVars == <<cacheVars, sourceVars, serviceVars>>

\* Keyrings: one with the token's key, and one without it.
Ring == {"trusting", "other"}

\* Replay stores are not told apart: what they answer is ReplayStore's.
Store == {"store"}

NoService == [up |-> FALSE]
NotMaking == [up |-> FALSE]
Fresh == [at |-> "new", got |-> 0, schema |-> NoSum, rings |-> {}, raised |-> FALSE,
          unset |-> FALSE, renamed |-> FALSE]

Flags ==
  [kind : {"daemon"}, key : {None, "unreadable"} \cup Ring, limit : Limit, at : {"load"}]

UnderWay(r) == request[r].at \in {"body", "decoded", "guarded", "verified", "claimed", "reserving"}
Quiet == \A r \in Request : request[r].at = "new"
Embedding == program.kind = "embedding"
Change == changes < MaxChanges /\ changes' = changes + 1

-----------------------------------------------------------------------------
(* The config, and New *)

\* Bound: a load comes before the changes and the service, and nothing else goes on
\* meanwhile: a load shares no state with them.
LoadConfig ==
  /\ SourceNext
  /\ ~service.up /\ ~making.up /\ changes = 0
  /\ ~Embedding => (Loading \/ load = NoLoad) /\ program.at = "load"
  /\ ~Embedding /\ load'.at = "asked" => load'.client = "pinned"
  /\ UNCHANGED <<cacheVars, serviceVars>>

\* What New copies, and what remains common to the copy and the document: a copied method
\* has the slices of its parameters, and so their arrays.  It keeps the document for its
\* name.
Copied == Part \ {"name"}
CopiedOf(d) == [p \in Copied |-> content[d][p]]

\* A faulty variant: conditions are looked up in the document, too.
SharedAndConditions == {"parameters", "relations"}

Shared == {"parameters"}

\* Of the document that was loaded, or of one that an embedding program has.
Copy(d) ==
  /\ ~making.up /\ Quiet
  /\ ~Embedding =>
       ~service.up /\ program.at = "load" /\ load.at = "ended" /\ load.outcome = "loaded"
  /\ call[Owner].at = "idle"
  /\ making' = [up |-> TRUE, doc |-> d, copied |-> CopiedOf(d), shares |-> TRUE, disturbed |-> FALSE]
  /\ Done
  /\ UNCHANGED <<cacheVars, program, service, request, changes>>

\* A step of Public for New; when it returns, so does New.
Fingerprint ==
  /\ making.up
  /\ Load(Owner, making.doc) \/ ReadFirst(Owner) \/ ReadSecond(Owner) \/ LoadOrStore(Owner)
  /\ IF call'[Owner].at = "idle"
       THEN /\ service' = [up |-> TRUE, doc |-> making.doc, copied |-> making.copied,
                           shares |-> making.shares, fingerprint |-> cached'[making.doc],
                           keyring |-> None, replay |-> "store", limit |-> DefaultLimit,
                           reached |-> {},
                           disturbed |-> making.disturbed \/ edited[making.doc] \/ overtaken'[making.doc]]
            /\ making' = NotMaking
       ELSE UNCHANGED <<service, making>>
  /\ UNCHANGED <<sourceVars, program, request, changes>>

\* Another goroutine of an embedding program.  Bound: it does not ask once requests come,
\* which do not ask either.
Elsewhere ==
  /\ Embedding /\ load = NoLoad /\ Quiet
  /\ \E c \in Caller \ {Owner} :
       (\E d \in Doc : Load(c, d)) \/ ReadFirst(c) \/ ReadSecond(c) \/ LoadOrStore(c)
  /\ UNCHANGED <<sourceVars, serviceVars>>

Has(s, d) == s.up /\ s.doc = d

\* The copy of s after an edit of d: what it shares is written with it, in place, until
\* the document is given other slices.
AfterEdit(s, d, part, v, inPlace) ==
  IF Has(s, d) /\ s.shares /\ part \in Shared
    THEN IF inPlace THEN [s EXCEPT !.copied = [@ EXCEPT ![part] = v]] ELSE [s EXCEPT !.shares = FALSE]
    ELSE s

\* What a later edit may change of a service: the name, which is read in the document, and
\* the elements of the parameters.
Reaches(d, part, inPlace) ==
  Has(service, d) /\ (part = "name" \/ (part = "parameters" /\ inPlace /\ service.shares))

\* What the owner of a document does to it, in place or not, a service of it up or not.
ChangeDocument(d) ==
  /\ Embedding /\ load = NoLoad /\ Change
  /\ \/ \E part \in Part, v \in Version, inPlace \in BOOLEAN :
          LET made == AfterEdit(making, d, part, v, inPlace)
              serving == AfterEdit(service, d, part, v, inPlace)
          IN /\ v # content[d][part] /\ Edit(d, part, v)
             /\ making' = IF Has(making, d) THEN [made EXCEPT !.disturbed = TRUE] ELSE making
             /\ service' = IF Reaches(d, part, inPlace) THEN [serving EXCEPT !.reached = @ \cup {part}]
                                                      ELSE serving
             /\ request' = [r \in Request |->
                  IF UnderWay(r) /\ part = "name" /\ service.doc = d
                    THEN [request[r] EXCEPT !.renamed = TRUE] ELSE request[r]]
     \/ Invalidate(d) /\ UNCHANGED <<making, service, request>>
  /\ UNCHANGED <<sourceVars, program>>

-----------------------------------------------------------------------------
(* The setters *)

SetCapabilityKeyring(ring) ==
  /\ Embedding /\ service.up /\ Change
  /\ service' = [service EXCEPT !.keyring = ring]
  /\ request' = [r \in Request |->
       IF UnderWay(r) THEN [request[r] EXCEPT !.rings = @ \cup {ring}] ELSE request[r]]
  /\ UNCHANGED <<cacheVars, sourceVars, program, making>>

SetReplayStore(store) ==
  /\ Embedding /\ service.up /\ Change
  /\ service' = [service EXCEPT !.replay = store]
  /\ request' = [r \in Request |->
       IF UnderWay(r) THEN [request[r] EXCEPT !.unset = @ \/ store = None] ELSE request[r]]
  /\ UNCHANGED <<cacheVars, sourceVars, program, making>>

\* A limit that is not positive is not taken.
LimitSet(limit) == IF limit > 0 THEN limit ELSE service.limit

SetMaxBodyBytes(limit) ==
  /\ Embedding /\ service.up /\ Change
  /\ service' = [service EXCEPT !.limit = LimitSet(limit)]
  /\ request' = [r \in Request |->
       IF UnderWay(r) THEN [request[r] EXCEPT !.raised = @ \/ LimitSet(limit) > service.limit]
                      ELSE request[r]]
  /\ UNCHANGED <<cacheVars, sourceVars, program, making>>

-----------------------------------------------------------------------------
(* The daemon, clerm-resolver: RunWithIO *)

\* A faulty variant: a key that cannot be read is as good as none.
AnyKeyWillDo(key) == TRUE

\* ReadPublicKeyFile returned no error, or no file was given.
KeyRead(key) == key # "unreadable"

\* The steps after New, each of which may end the daemon: the keyring with the key of
\* the flag, the limit, the listener.
Daemon ==
  /\ ~Embedding /\ program.at # "stopped"
  /\ CASE program.at = "load" /\ load.at = "ended" /\ load.outcome # "loaded" ->
            program' = [program EXCEPT !.at = "stopped"] /\ UNCHANGED service
       [] program.at = "load" /\ service.up ->
            IF KeyRead(program.key)
              THEN /\ service' = [service EXCEPT !.keyring =
                                    IF program.key \in Ring THEN program.key ELSE None]
                   /\ program' = [program EXCEPT !.at = "limit"]
              ELSE program' = [program EXCEPT !.at = "stopped"] /\ UNCHANGED service
       [] program.at = "limit" ->
            /\ service' = [service EXCEPT !.limit = LimitSet(program.limit)]
            /\ program' = [program EXCEPT !.at = "listen"]
       [] program.at = "listen" ->
            program' \in {[program EXCEPT !.at = a] : a \in {"up", "stopped"}} /\ UNCHANGED service
       [] OTHER -> FALSE
  /\ UNCHANGED <<cacheVars, sourceVars, making, request, changes>>

-----------------------------------------------------------------------------
(* A request: readPayload and resolveCapability, which read the settings once for each  *)
(* time the code names them.                                                            *)

Goes(r, at) == request' = [request EXCEPT ![r].at = at]
Ends(r, how) == request' = [request EXCEPT ![r] = [Fresh EXCEPT !.at = how]]

Receive(r) ==
  /\ request[r].at = "new" /\ service.up /\ ~making.up
  /\ ~Embedding => program.at = "up"
  /\ request' = [request EXCEPT ![r] = [Fresh EXCEPT
       !.at = "body", !.got = ReadUpTo(service.limit, BodyLength[r]), !.rings = {service.keyring}]]

\* The length of what was read against the limit again; a part of a frame is no frame.
CheckBody(r) ==
  /\ request[r].at = "body"
  /\ CASE request[r].got > service.limit -> Ends(r, "toolong")
       [] request[r].got <= service.limit /\ request[r].got < BodyLength[r] -> Goes(r, "malformed")
       [] OTHER -> Goes(r, "decoded")

CheckKeyring(r) ==
  /\ request[r].at = "decoded"
  /\ IF service.keyring = None THEN Ends(r, "refused") ELSE Goes(r, "guarded")

\* A faulty variant: the keyring is there, it was looked for before.
VerifiesUnless(ring) == ring # "other"

\* Keyring.Verify, which may be called on none by now.
Verifies(ring) == ring = "trusting"

Verify(r) ==
  /\ request[r].at = "guarded"
  /\ IF Verifies(service.keyring) THEN Goes(r, "verified") ELSE Ends(r, "refused")

\* Faulty variants: the fingerprint covers the name; names tell schemas apart.
HashFits == service.fingerprint = Issued
NameFits == content[service.doc]["name"] = Issued["name"]

\* The claims of the token on the schema, the name against that of the document as it is.
ClaimsFit == content[service.doc]["name"] = Issued["name"] /\ service.fingerprint = Issued

\* The token's other claims, its time and scope, are RequestPipeline's and Resolver's.
CheckClaims(r) ==
  /\ request[r].at = "verified"
  /\ Ends(r, "refused") \/ (ClaimsFit /\ Goes(r, "claimed"))

\* A faulty variant: there is always a store, New makes one.
StoreAlways(store) == TRUE

StoreIsSet(store) == store # None

CheckStore(r) ==
  /\ request[r].at = "claimed"
  /\ IF StoreIsSet(service.replay) THEN Goes(r, "reserving") ELSE Ends(r, "refused")

\* The method of a nil interface panics, and net/http recovers.  What a store answers is
\* ReplayStore's.  A request that it lets through is answered under the document's name.
Reserve(r) ==
  /\ request[r].at = "reserving"
  /\ IF service.replay = None THEN Goes(r, "panicked")
     ELSE \/ Ends(r, "refused")
          \/ request' = [request EXCEPT ![r].at = "admitted",
                                        ![r].schema = content[service.doc]["name"]]

RequestStep(r) ==
  /\ \/ Receive(r) \/ CheckBody(r) \/ CheckKeyring(r) \/ Verify(r) \/ CheckClaims(r)
     \/ CheckStore(r) \/ Reserve(r)
  /\ UNCHANGED <<cacheVars, sourceVars, program, making, service, changes>>

-----------------------------------------------------------------------------

Init ==
  /\ CacheInit /\ SourceInit
  /\ program \in {[kind |-> "embedding"]} \cup Flags
  /\ making = NotMaking /\ service = NoService /\ changes = 0
  /\ request = [r \in Request |-> Fresh]

Next ==
  \/ LoadConfig \/ Fingerprint \/ Elsewhere \/ Daemon
  \/ \E d \in Doc : Copy(d) \/ ChangeDocument(d)
  \/ \E ring \in Ring \cup {None} : SetCapabilityKeyring(ring)
  \/ \E store \in Store \cup {None} : SetReplayStore(store)
  \/ \E limit \in Limit : SetMaxBodyBytes(limit)
  \/ \E r \in Request : RequestStep(r)

\* Each step of a load has a time limit, in the default client.
Spec == Init /\ [][Next]_deploymentVars /\ WF_sourceVars(LoadStep)

-----------------------------------------------------------------------------

(* Properties *)

\* What a service serves.
Served == [p \in Part |-> IF p = "name" THEN content[service.doc]["name"] ELSE service.copied[p]]

\* The fingerprint that New took is that of what the service serves, in every part that no
\* later edit has reached, unless the document was edited while New ran, or before and not
\* invalidated, or the entry's caller was overtaken by an edit.
ServedIsFingerprinted ==
  service.up /\ ~service.disturbed =>
    \A p \in Part \ service.reached : service.fingerprint[p] = Served[p]

\* An admitted request is answered by what its token was issued for: under that name,
\* unless the document was renamed while it was under way, whatever the fingerprint says,
\* and by those methods and conditions, unless the fingerprint was of others or an edit of
\* the parameters reached them.
AdmittedForWhatIsServed ==
  \A r \in Request : request[r].at = "admitted" =>
    /\ request[r].renamed \/ request[r].schema = Issued["name"]
    /\ service.disturbed \/ \A p \in Copied \ service.reached : service.copied[p] = Issued[p]

\* A request is admitted only if a keyring that was set while it was under way has the
\* token's key.
AdmittedOnlyIfTrusted ==
  \A r \in Request : request[r].at = "admitted" => "trusting" \in request[r].rings

\* A request panics only if the replay store was taken away while it was under way.
PanicsOnlyIfUnset ==
  \A r \in Request : request[r].at = "panicked" => request[r].unset /\ Embedding

\* A body is cut off, which makes it malformed, only if the limit was raised while it
\* was read.
CutOnlyIfRaised ==
  \A r \in Request : request[r].at = "malformed" => request[r].raised

\* What the daemon answers, it answers with the key and the limit of its flags.
DaemonServesAsTold ==
  ~Embedding /\ ~Quiet =>
    /\ program.key \in Ring \cup {None} /\ service.keyring = program.key
    /\ service.limit = IF program.limit > 0 THEN program.limit ELSE DefaultLimit

\* A request reads each setting anew where it needs it: what becomes of it is still due to
\* settings that were there while it was under way.
SettingsExplainOutcomes ==
  AdmittedOnlyIfTrusted /\ PanicsOnlyIfUnset /\ CutOnlyIfRaised /\ DaemonServesAsTold
=============================================================================
