---------------------------- MODULE ConfigSource ----------------------------
(***************************************************************************)
(* A compiled config fetched from a URL, internal/resolver/source.go: the  *)
(* host of each hop is resolved, checked by the policy and dialled at the  *)
(* addresses it was resolved to, while the DNS may answer every lookup     *)
(* differently; the server may redirect.  The policy is                    *)
(* DenyPrivateHostPolicy.  HTTP itself, the dialler and the servers are    *)
(* not part of the repository.                                             *)
(***************************************************************************)
EXTENDS Integers, Sequences

CONSTANTS
  Host,          \* the hosts of URLs
  AddressOf,     \* those of them that are an address -> the address
  DeniedName,    \* those that are localhost
  Indirect,      \* those that are dialled under another name: IDNs, and what a proxy is for
  Addr, Blocked, \* addresses, and those that isBlockedIP is true of
  Answers,       \* what lookups may answer, sequences of addresses
  MaxRequests,   \* 10, those of one load
  PayloadLimit,  \* MaxPayloadBytes, or 8 MiB
  Lengths        \* of configs

ASSUME SourceAssumption ==
  /\ DOMAIN AddressOf \subseteq Host /\ \A host \in DOMAIN AddressOf : AddressOf[host] \in Addr
  /\ DeniedName \subseteq Host /\ Indirect \subseteq Host
  /\ Blocked \subseteq Addr /\ Answers \subseteq Seq(Addr)
  /\ MaxRequests \in Nat \ {0} /\ PayloadLimit \in Nat /\ Lengths \subseteq Nat

VARIABLES
  load,   \* where a load is
  idle,   \* the connections that its client keeps, each with its host
  passed, \* the hosts and addresses that the policy passed in this load
  used    \* the connections this load was served on, or is

sourceVars == <<load, idle, passed, used>>

\* A client without a policy, one whose transport can be told what to dial, another.
Client == {"plain", "pinned", "unpinned"}

NoLoad == [at |-> "none"]

SourceInit == load = NoLoad /\ idle = {} /\ passed = {} /\ used = {}

Loading == load.at \notin {"none", "ended"}

\* The load ends; the client and its connections are left to the collector.
End(outcome, length) ==
  /\ load' = [at |-> "ended", outcome |-> outcome, length |-> length]
  /\ idle' = {} /\ passed' = {} /\ used' = {}

-----------------------------------------------------------------------------

\* LoadConfigURLWithOptions, with a URL that url.Parse takes or not.
Start(client, host) ==
  /\ ~Loading
  /\ load' = [at |-> "asked", client |-> client, host |-> host, requests |-> 1, ips |-> <<>>]
  /\ UNCHANGED <<idle, passed, used>>

StartInvalid == ~Loading /\ End("invalid", 0)

\* DenyPrivateHostPolicy for a host that is an address or was resolved to some.
Denies(host, ips) ==
  \/ host \in DeniedName
  \/ IF host \in DOMAIN AddressOf THEN AddressOf[host] \in Blocked
                                  ELSE \E i \in DOMAIN ips : ips[i] \in Blocked

\* RoundTrip resolves the host, when the transport can dial what was resolved.
Resolve ==
  /\ load.at = "asked" /\ load.client = "pinned"
  /\ \E ips \in IF load.host \in DOMAIN AddressOf THEN { <<AddressOf[load.host]>> } ELSE Answers :
       IF ips = <<>> THEN End("failed", 0)
       ELSE load' = [load EXCEPT !.at = "resolved", !.ips = ips] /\ UNCHANGED <<idle, passed, used>>

\* RoundTrip asks the policy.
Check ==
  /\ load.at \in {"asked", "resolved"} /\ (load.client = "pinned" => load.at = "resolved")
  /\ IF load.client # "plain" /\ Denies(load.host, load.ips) THEN End("failed", 0)
     ELSE /\ load' = [load EXCEPT !.at = "checked"]
          /\ passed' = passed \cup {[host |-> load.host, addr |-> load.ips[i]] : i \in DOMAIN load.ips}
          /\ UNCHANGED <<idle, used>>

\* A connection that the client has to the host is taken again.
Reuse ==
  /\ load.at = "checked"
  /\ \E conn \in idle : conn.host = load.host /\ used' = used \cup {conn}
                        /\ load' = [load EXCEPT !.at = "connected"]
  /\ UNCHANGED <<idle, passed>>

Connected(addr) ==
  /\ load' = [load EXCEPT !.at = "connected"]
  /\ used' = used \cup {[host |-> load.host, addr |-> addr]}
  /\ UNCHANGED <<idle, passed>>

\* A faulty variant: only the host of the URL is pinned, not those of redirects.
FirstPinned == load.client = "pinned" /\ load.requests = 1

\* dialPinnedContext: matchesPinnedAddress says that it is the resolved host's address.
Pinned == load.client = "pinned" /\ load.host \notin Indirect

\* dialPinnedAddresses, one address: dial may fail, and a peer with another address is
\* hung up on; one whose address is not known is taken for it.
DialPinned ==
  /\ load.at = "checked" /\ Pinned
  /\ \/ Connected(Head(load.ips))
     \/ IF Len(load.ips) = 1 THEN End("failed", 0)
        ELSE load' = [load EXCEPT !.ips = Tail(@)] /\ UNCHANGED <<idle, passed, used>>

\* The dialler looks the name up itself.
DialName ==
  /\ load.at = "checked" /\ ~Pinned
  /\ \E ips \in IF load.host \in DOMAIN AddressOf THEN { <<AddressOf[load.host]>> } ELSE Answers :
       IF ips = <<>> THEN End("failed", 0) ELSE Connected(ips[1])

\* A faulty variant: a policy replaces the count of net/http.
FollowAlways == load.client = "plain" => load.requests < MaxRequests

\* CheckRedirect of clientWithURLPolicy, or that of net/http, before the policy.
MayFollow == load.requests < MaxRequests

\* The policy sees the host of a redirect only; the next RoundTrip sees the addresses.
\* The count stays at MaxRequests, which is all that is asked of it.
Redirect(host) ==
  /\ load.at = "connected"
  /\ IF ~MayFollow \/ (load.client # "plain" /\ Denies(host, <<>>)) THEN End("failed", 0)
     ELSE /\ load' = [load EXCEPT !.at = "asked", !.host = host, !.ips = <<>>,
                                  !.requests = IF @ < MaxRequests THEN @ + 1 ELSE @]
          /\ idle' \in {idle, idle \cup used}
          /\ UNCHANGED <<passed, used>>

-----------------------------------------------------------------------------

\* A faulty variant: nothing past the limit is read.
ReadToLimit(limit, length) == IF length > limit THEN limit ELSE length

\* io.ReadAll(io.LimitReader(..., limit + 1))
ReadUpTo(limit, length) == IF length > limit THEN limit + 1 ELSE length

\* What becomes of a config of which some has arrived, when its length may be declared.
\* clermcfg.Decode takes no part of a config for one.
OutcomeOf(length, arrived, declared) ==
  LET read == ReadUpTo(PayloadLimit, arrived)
  IN CASE declared /\ length > PayloadLimit -> "toolong"
       [] declared /\ length <= PayloadLimit /\ arrived < length -> "failed"
       [] ~declared /\ read > PayloadLimit -> "toolong"
       [] ~declared /\ read <= PayloadLimit /\ read < length -> "malformed"
       [] OTHER -> "loaded"

\* clermcfg.Decode may refuse a whole config as well.
Decoded(outcome) == {outcome} \cup IF outcome = "loaded" THEN {"malformed"} ELSE {}

\* A status of 400 and above, or a body.
Answer ==
  /\ load.at = "connected"
  /\ \/ \E outcome \in {"notfound", "failed"} : End(outcome, 0)
     \/ \E length \in Lengths, declared \in BOOLEAN : \E arrived \in 0 .. length :
          \E outcome \in Decoded(OutcomeOf(length, arrived, declared)) :
            End(outcome, IF arrived = length THEN length ELSE 0)

\* readConfigFile, whose file may not be there, or not readable, and may grow after Stat.
ReadFile(size, length) ==
  /\ ~Loading /\ size <= length
  /\ \/ End("failed", 0)
     \/ size > PayloadLimit /\ End("toolong", size)
     \/ /\ size <= PayloadLimit
        /\ \E outcome \in Decoded(OutcomeOf(length, length, FALSE)) : End(outcome, length)

\* A lookup, a dial or a read fails, or the client's time is up.
Fail == Loading /\ End("failed", 0)

LoadStep ==
  \/ Resolve \/ Check \/ Reuse \/ DialPinned \/ DialName \/ Answer \/ Fail
  \/ \E host \in Host : Redirect(host)

SourceNext ==
  \/ \E client \in Client, host \in Host : Start(client, host)
  \/ StartInvalid
  \/ \E length \in Lengths : \E size \in 0 .. length : ReadFile(size, length)
  \/ LoadStep

\* The caller has the outcome.
Done ==
  /\ ~Loading /\ load' = NoLoad
  /\ UNCHANGED <<idle, passed, used>>

SourceSpec == SourceInit /\ [][SourceNext \/ Done]_sourceVars

-----------------------------------------------------------------------------

Outcome == {"loaded", "invalid", "failed", "notfound", "toolong", "malformed"}

LoadState ==
  [at : {"none"}] \cup [at : {"ended"}, outcome : Outcome, length : Nat] \cup
  [at : {"asked", "resolved", "checked", "connected"}, client : Client, host : Host,
   requests : 1 .. MaxRequests, ips : Seq(Addr)]

\* A load with a policy and a transport that can be told what to dial is served by no
\* address that the policy has not passed, whatever the DNS said in the meantime, on a
\* connection of this hop or of one before, for hosts dialled under their own name.
OnlyCheckedIsDialled ==
  Loading /\ load.client = "pinned" =>
    \A conn \in used : conn.host \notin Indirect => conn \in passed /\ conn.addr \notin Blocked

\* A load comes to its end, however the servers redirect it.
LoadEnds == Loading ~> ~Loading

\* A config that is too long is refused for that and not as one that is malformed.
TooLongIsSaid ==
  load.at = "ended" /\ load.length > PayloadLimit => load.outcome = "toolong"
=============================================================================
