# CLERM: a TLA+ development

CLERM compiles schemas (`.clermfile`) to binary configs (`.clermcfg`), encodes single-method requests
(`.clerm`), and runs a resolver that checks a request's capability token and calls the handler bound
to its method. This directory models the parts of that program whose correctness depends on order,
time or concurrency, model-checks them with TLC on small instances and proves the central results
with TLAPS for every value of the constants.

Line numbers in the modules are those of the repository's files; `PROJECT.json` maps every definition
to the lines it stands for.

## 1. Inventory

| Component | State it keeps | Operations | What is hard | What makes it correct |
|---|---|---|---|---|
| Replay store (`internal/capability/replay.go`) | 256 shards, each a map token id -> expiry under a mutex; the sweeper's position | `Reserve`, `cleanupLoop` | the clock is read before the lock is taken; the sweeper reads it once for all shards | a reservation is neither dropped nor replaced before its expiry; lapsed ones go in the end |
| Resolution and capability admission (`internal/resolver/service.go` 231-263, 492-535; `internal/capability/token.go` 225-288) | none of its own; each request's goroutine holds a clock reading | `ResolveInvocationWithTarget`, `resolveCapability`, `AssertTimeWindow`, `TTL` | two clock readings and a reservation that are not atomic; wall time set back; restart; leeway | single use as far as it can go, no use after expiry, a token is consumed only by a request that is let through |
| Handler bindings (`service.go` 177-213, 274-299, 596-602) | a published map (atomic value), `handlerMu` | `Bind`, `Unbind`, lookup in `ExecuteInvocation` | copy-on-write with lock-free readers | linearizable; nobody is left waiting for the lock |
| HTTP service, middleware, daemon (`service.go` 431-490, 563-594; `daemon.go`) | the response under way | `ServeHTTP`, `readPayload`, `/v1/requests/decode`, `/v1/responses/encode` | the status is sent before the response is encoded; a token is spent before the handler runs | one outcome per request, and it says what happened |
| Invocation (`service.go` 337-418) | decoded arguments, decoded once | `Arguments`, `Command`, `RawArgument` | the error of the one decoding stays, and `Command` drops it | what is admitted is decoded |
| Service setters (`service.go` 158-170) | keyring, replay store, body limit | `SetCapabilityKeyring`, `SetReplayStore`, `SetMaxBodyBytes` | no synchronisation with requests, which read each field up to twice | a request is judged by settings that were there while it was under way |
| Config sources (`internal/resolver/source.go`) | a pinned resolution per hop, kept connections | `LoadConfigURLWithOptions`, redirects, dial | address checked first, dialled later; redirects | only checked addresses are dialled; a load ends; a long config is refused as long |
| Token codec and issuing (`token.go`) | - | `Issue`, `Validate`, `Encode`, `Decode`, `Verify` | 16-bit lengths; damage on the way | what is granted was issued, field for field |
| Schema, fingerprint cache (`internal/schema/schema.go`) | a concurrent map document -> fingerprint | `Public`, `Invalidate`, `Document.Validate` | compute then store, with edits and invalidations between; `New` copies first, and its copy shares arrays with the document | the fingerprint of a service is that of what it serves, in all that an edit cannot reach |
| Schema parser (`internal/schema/parser.go`) | section, current method, seen names | `Parse` | order of lines and sections | accepts exactly the documents that validate |
| Config codec (`internal/clermcfg/codec.go`) | the `Decoder`'s reused document | `Encode`, `Decode`, `DecodeCodec` | reuse after a failure | documents handed out share nothing |
| Request codec (`internal/clermreq/codec.go`) | the request's validated capability copy | `SetCapabilityRaw`, `Encode`, `Decode`, `ValidateAgainst` | a skipped validation; 16-bit lengths | only valid tokens are encoded |
| Response codec, wire values (`internal/clermresp`, `internal/clermwire`) | - | `BuildSuccess`, `BuildError`, `Encode`, `Decode` | lengths and types at the boundary; checks that do not parse | arguments and outcomes arrive; no failure is read as a success |
| Registry client (`registryrpc`) | - | `Search` ... `Invoke`, error mapping | codes mapped to statuses and back | the code raised is the code seen |
| Command line (`internal/app/clermcli`, `resolvercli`) | token files, request file | the commands | a write that breaks off; checks repeated from the service | only whole tokens are used; client and service check alike |
| Platform, netutil, jsonwire, facades, servers in other languages | - | helpers, aliases, examples | - | - |

How they interact. A request reaches `ServeHTTP` (or the middleware, or the daemon's decode endpoint) in a
goroutine of its own. `readPayload` reads it under the body limit; `ResolveInvocationWithTarget` decodes it
with the request codec, checks it against the method table and calls `resolveCapability`, which decodes and
verifies the token, reads the clock, checks window and claims, and calls `Reserve` of the replay store,
which all requests and the sweeper share. `ExecuteInvocation` then looks the handler up in the published
map, which `Bind` and `Unbind` replace at any time, and the response codec writes the answer. Configs come
from a file or from a config source, through the config codec and the schema's validation, once, when the
process starts. Nothing is persisted by the resolver: a restart begins with an empty replay store.

`PROJECT.json` lists every component with its status and every hazard at its line.

## 2. Modules

| Module | What it is |
|---|---|
| `ReplayGuard` | abstract: a reservation stands until its deadline has really passed |
| `ReplayStore` | `MemoryReplayStore`: `Enter`, `ReadClock`, `Commit` are the three stretches of `Reserve` (before the clock, the clock, under the lock); `SweepBegin`, `SweepShard` are the sweeper |
| `Resolver` | resolution and admission extends `ReplayStore`: `Receive`, `Verify`, `Judge`, `ReadStoreClock`, `Reserve` for a request's goroutine; `Tick`, `SetWallBack`, `Restart` for the world |
| `HandlerMap` | abstract: one map, every operation takes effect at one instant |
| `HandlerTable` | `Bind` and `Unbind` step by step (`Call`, `Lock`, `Copy`, `Store`, `Unlock`) and `ExecuteInvocation` (`Invoke`, `Lookup`, `Finish`) |
| `RequestPipeline` | from the HTTP request to its answer: `Receive`, `PassOn`, `Refuse`, `Resolve`, `Lookup`, `Return`, `Panic`, `Respond`, `Send` for `ServeHTTP`, `Middleware` and `ExecuteInvocation`; `Decode` and `Encode` for the daemon; `CallBind`, `ApplyBind`, `ReturnBind` for goroutines that bind meanwhile |
| `SchemaParser` | `Parse`, one action per declaration of the language (`DeclareSchema`, `AddService`, `SetExec`, `OpenArguments`, ...), `Reject`, `FailToRead` and `Finish`, with `Document.Validate` as `Valid`; the reference is `NestedDocument`, the document that the indentation declares |
| `Words` | the primitives of the codecs: a length keeps its low bits, and reading goes on where the last field ended |
| `ConfigCodec` | `Encode`; `decodeInto` field by field (`ReadHeader`, `ReadText`, `ReadListCount`, `ReadElement`, ...) into the document of a `Decoder` or a new one, `Finish` with the clone |
| `RequestFrame` | the frame of a request as `Encode` writes and `Decode` reads it |
| `RequestCodec` | over `RequestFrame`: `Encode`, `Decode`, `SetCapabilityRaw` and what the owner of a request may do to the exported field: `Assign`, `WriteField`, `FillBuffer` |
| `Values` | `clermwire`: the checks of arguments and outputs (`ValidateValue`), their decoding, `BuildValues` and `ValidateValues`, and `Conforms`, the schema that `clerm tools` prints |
| `TokenCodec` | `Issue`, `Encode`, `Decode`, the text form, `Verify` and what a token allows |
| `ResponseCodec` | the response builders, `ValidateAgainst`, `Encode` with what it refuses, `Decode` |
| `ErrorTexts` | codes, their texts and statuses, and how the client reads them back |
| `Exchange` | composes the five before: `IssueToken`, `OpenFile`, `WriteFile`, `GiveUp` (the token commands), `BuildRequest`, `Resolve`, `Respond`, `Read`, `Again`; `OtherRequest`, `Damage`, `RegistryRefuses` for the world |
| `FingerprintCache` | `Public` in four steps (`Load`, `ReadFirst`, `ReadSecond`, `LoadOrStore`), `Invalidate`, the owner's `Edit` |
| `ConfigSource` | one load, hop by hop: `Start`, `Resolve`, `Check`, `Reuse`, `DialPinned`, `DialName`, `Redirect`, `Answer`, `Fail`; `ReadFile` for a file |
| `Deployment` | composes `FingerprintCache` and `ConfigSource`: `LoadConfig`, `New` (`Copy`, then `Fingerprint` step by step), `ChangeDocument` for the document's owner, at any time, the setters, `Daemon`, and a request that reads the settings and the document's name (`Receive`, `CheckBody`, `CheckKeyring`, `Verify`, `CheckClaims`, `CheckStore`, `Reserve`) |
| `*_proofs` | the theorems about each; those of `SchemaParser` are in `Deployment_proofs`, with the cache of the documents it makes |
| `MC*` | the constants of the small instances |

State and code. `used` of `ReplayStore` is the union of the shards' maps, because a token always falls into
one shard; a missing entry is `Absent` (0), which no recorded expiry equals, since a lifetime of zero is
refused. `call[c]` holds the local variables of a goroutine inside `Reserve`, `sweep` those of the sweeper's
loop. What happens under a lock is one action: nothing else reads or writes the map meanwhile.

In `Resolver`, `ask[r]` is what a request brings: its token, and the checks it would fail. A check of the code
is a named fault; `Verify` and `Judge` apply the groups in the code's order, and the ones whose arithmetic
matters, the time window and the remaining lifetime, are computed from the token's times. The clocks tick
`TicksPerSecond` times in a second of the token, because `AssertTimeWindow` compares whole seconds and `TTL`
does not. The store's clock is `now`; the resolver's wall clock is `now - behind`. The two differ because a
Go time from `time.Now` carries a monotonic reading that `expiry.After(now)` uses, while the token's times
are compared by wall time. `judged[r]` keeps what both clocks showed at line 509; the code has only the
wall reading, the other is there for the properties. `won[r]` is the time of the reservation.

`RequestPipeline` composes what the other modules promise. The bindings are an instance of `HandlerMap`, which
`HandlerTable` implements; the replay store is the set `spent`, as `ReplayGuard` lets a reservation stand for the
lifetime of its token, to which the model keeps. `ask[r]` holds the endpoint, the token, the method, the target
and the first check the request fails; `result[r]` what `ExecuteInvocation` came to (its error, the code in the
error body, whether the answer can be encoded); `reply[r]` the status and the body that went out; `seen[r]` every
handler the method has had since the request arrived, which the code does not record. `Send` is the encoding
and the write: what cannot be encoded leaves the body empty, and a client that has gone loses it.

In `SchemaParser` a line is its indentation, key and value. What a value means is a constant for each function
that parses values (`ParseServiceRef`, `parseOptionalCount`, `parseParameters`, ...), defined for what the function
accepts, so that the proofs and the checks are about the order of lines and not about spelling. The pointer
`currentMethod` is the index of the last method. The text of errors is left out.

In `ConfigCodec` and `RequestCodec` a slice is an array and a length, and `arrays` holds what is in the arrays; the
first one is that of nil. `make`, `append` and the resizing functions say when an array is used again, and two
slices over one array see each other's writes. The spare room that `append` may give a new array is a choice. A
wire is a sequence of words; a byte, a two-byte number and the four magic bytes are one word, whose width `W` is
65536 in the code. In `ConfigCodec`, `docs["kept"]` is the document of the `Decoder`, `docs["new"]` that of a
`DecodeCodec`; `field` and `element` are where in the format the decoder is. In `RequestCodec`, `attached` and
`assigned` remember what the owner did; the code has no such variables.

In `Exchange` a message is the words that are sent. What JSON text a word stands for is `Lexeme`, and `Values` knows
text by its class only: `ValidateValue` looks at quotes, brackets and `strconv`, `InJSON` is what `encoding/json`
reads, and the two differ (`NaN`, `+5`, an array's brackets around anything). A signature is the place of what was
signed in `signed`, so a signature fits the payload and key it was made of. The variables are the consumer's files
(`files`, with what the token command still has to write in `writing`, and what it said it wrote in `reported`), the
request file, the service (`served`, `rings`, `reserved`), and the invocation, answer and view of one request at a time.
`issued` is every token issued, which nobody in the code knows. A decode of the arguments is `DecodedArguments`,
taken once, when the request is resolved: `sync.Once` lets no one see it half done, and its input does not change.

In `FingerprintCache` a document has four parts: its name, its methods, the elements of their parameters, its relations.
`computePublicFingerprint` reads them in two steps, the relations last; a sum is what it read. `edited` and `overtaken`
say what the owner has to answer for. In `ConfigSource`, `idle` and `used` are connections, `passed` what the policy has
passed.

In `Deployment`, `making` is a call of `New` that has copied and not yet returned. Its copy is as shallow as the code's:
lines 122-130 copy `Method` structs, so the copies have the document's slices of parameters, and conditions, which are
strings; the name is not copied but read in the document at lines 513 and 252. So `copied` has no name, `shares` says
that the document still has the same slices, and `AfterEdit` writes an edit of the parameters that is made in place
(`inPlace`) into the copy as well, until the owner gives the document other slices. `reached` are the parts that an
edit has reached in this way since `New` returned; `disturbed` says that the document was edited before that, without
an invalidation that came in time. `request[r]` keeps, for the properties, which keyrings were set while it was under
way (`rings`), whether the limit was raised (`raised`), the store taken away (`unset`) and the document renamed
(`renamed`). What a store answers is `ReplayStore`'s and `Resolver`'s subject, so here it lets a request through or not.

In `HandlerTable` a published map is a value, as the code never writes a map after `handlers.Store`.

## 3. Runs

| Run | Instance | Checks |
|---|---|---|
| `replay_store` | 2 requests, 2 tokens in 2 shards, lifetimes 0 to 3, time up to 3 | `GuardSpec`, the refinement of `ReplayGuard`; `LapsedIsSwept` |
| `resolver` | 3 requests, tokens valid 0-1 s and 2-3 s, 2 ticks a second, leeway 1 s, time up to 3 ticks, stall up to 2 ticks, 1 setback, 1 restart, requests that fail no check or one check of each group | `TypeOK`, `SecondAdmissionStraddlesExpiry`, `LeewayEndsAtExpiry`, `OnlyFlawlessRequestsReserve`, `ReplayHasAWinner` |
| `resolver_stall` | 2 requests, no setback, no restart | `SingleUse`, which the code does not meet (see 5) |
| `handler_table` | 2 binders, 1 executor, 2 methods and an unknown name, 2 handlers | `LinearSpec`, the refinement of `HandlerMap`; `BindersFinish` |
| `request_pipeline` | 2 requests on any endpoint, 1 token, 2 methods, 1 handler, 1 binder, an error code and the empty one, a failed content type or method check | `TypeOK`, `OneGrantPerToken`, `RefusalLeavesNoTrace`, `LookupIsCurrent`, `AnswerIsTheOutcome` |
| `schema_parser` | 2 sound files of 10 and 20 lines, each with every cut, swap and inserted line of 26, and insertions into the cut and swapped forms of the first: 5897 files | `ReadsWhatIsNested`, `VerdictIsTheGrammar`, `MethodsHaveOneCondition` |
| `config_codec` | words of 2 bits; 9 documents, two with lengths that do not fit, two with counts that are refused, one empty; configs of version 1, cut at every word, with one word changed, with a word too many; 2 configs one after the other, into either document | `DecodedIsSpelledOut`, `EncodedIsDecoded`, `ReturnedDocumentsStay` |
| `request_codec` | words of 2 bits, 2 tokens, a buffer of 2, 2 messages, 16 frames from elsewhere, 6 calls | `SentTokenIsAToken`, `AttachedTokenStays`, `SentIsDecoded`, `ReceivedIsSpelledOut` |
| `request_codec_owned` | the same | `AttachedTokenIsOwned`, which the code does not meet (see 5) |
| `request_pipeline_errors` | 1 request, 1 method | `GoErrorsBecomeResponses`, which the code does not meet (see 5) |
| `exchange` | words of 4 bits; 2 versions of a schema with 3 methods; 7 options that tokens are issued for, 1 token at a time in 1 file pair, writes that break off at 20 and 28 words; arguments of every lexeme; frames from elsewhere and with any one word changed; 13 outcomes; both endpoints | `BuiltTokenIsIssued`, `ReportedPairIsOnDisk`, `GrantedIsIssued`, `ClientChecksWhatServerChecks`, `ArgumentsArrive`, `BuiltConformsToTool`, `AnswerIsRead`, `FailureIsRead`, `CodeSurvives` |
| `deployment` | 1 document of 4 parts, each in 2 versions, of 2 kinds at first, 2 callers; 4 hosts (a name, a private address, localhost, an IDN), 3 requests a load, limit 1 and configs of 1 and 2; 1 request with a token for one of the documents, a replay store or none, 2 keyrings or none, limits 0, 1 and 3; 3 changes | `OnlyCheckedIsDialled`, `StaleOnlyIfOvertaken`, `ServedIsFingerprinted`, `AdmittedForWhatIsServed`, `SettingsExplainOutcomes`, `SumStands`, `LoadEnds` |

What the properties say, in order of weight:

- `SecondAdmissionStraddlesExpiry`: two requests are let through with one token only if the token had expired
  when the later one's reservation was recorded, and that one had read the clock before the expiry. This is
  the strongest form of single use the code meets when goroutines may pause and clocks may go back.
- `GuardSpec`: the store keeps every reservation to its expiry, though callers and the sweeper decide by old
  clock readings. (Their readings are old, never new, and an expiry before an old reading has passed.)
- `OnlyFlawlessRequestsReserve`, `ReplayHasAWinner`: a refused request leaves its token usable, and a refusal
  as a replay always has an admitted request behind it. These and the first are about one life of the process: a restart
  forgets the reservations, and a token that has not expired lets one more request through. That is in the model, and
  nothing in the code prevents it.
- `LeewayEndsAtExpiry`: `VerifyTime` accepts a token up to 30 s after its expiry, but nothing is left of its
  lifetime then and `Reserve` refuses it; the leeway works before `not_before` only.
- `OneGrantPerToken`, `RefusalLeavesNoTrace`: the token is reserved before the handler is looked up, on the path
  served here and by decoding for a host in another language. Only one request gets past it, and one that is
  told an error status spent nothing and looked nothing up, so it may be sent again.
- `AnswerIsTheOutcome`: 200 is sent before the answer is encoded. An answer that arrives is still the outcome:
  an error with its own code, or a success that is never empty.
- `LookupIsCurrent`: the handler found is one that the request's method, not its target, had meanwhile.
- `ReadsWhatIsNested`, `VerdictIsTheGrammar`: the parser's section, nested section and pointer into a growing slice
  amount to what the indentation says: every line belongs to the last line before it that is indented less.
  The reference has no state, only `Parent`. `MethodsHaveOneCondition`: what the resolver's maps rely on.
- `DecodedIsSpelledOut`: a document that a decoder returns is what the config spells out word for word, though it
  was read into a document left over from another config, perhaps one that broke off. `EncodedIsDecoded` is the
  other half. Together they end where lengths stop to fit: `Fits` says which documents come back.
- `ReturnedDocumentsStay`: no later decoding writes into what a caller was given.
- `SentTokenIsAToken`: `Encode` skips decoding a token it has seen. The copy it compares
  with is out of everybody's reach, so no bytes go out as a token that are none. `AttachedTokenStays`: unless the
  field was assigned, `SetCapabilityRaw` keeps a copy.
- `SentIsDecoded`, `ReceivedIsSpelledOut`: frames and requests correspond, for both versions.
- `LinearSpec`: `Bind`, `Unbind` and lookups are linearizable.
- `GrantedIsIssued`: whatever frame a token came in and whatever became of the bytes, the service grants only what was
  issued with a key it trusts, field for field. `BuiltTokenIsIssued`: `os.WriteFile` empties a file before it writes it;
  a capability file that is empty or breaks off gives `clerm request` no token. Both are about tokens whose
  fields fit their 16-bit lengths (`TokenFits`); one that does not is in the run.
- `ReportedPairIsOnDisk`: when a token command says where it wrote its pair, the pair is there. It says nothing of a
  command that fails between the files: the new refresh token is lost then, and the code has no remedy.
- `ClientChecksWhatServerChecks`: `clerm request` repeats the service's checks. What it writes for the document served
  is refused only for the keyring, the signature, the window, the target or a replay.
- `ArgumentsArrive`: the handler sees the values that were passed, each under its name. What
  `ValidateValue` admits, `DecodeValue` decodes: otherwise `Command`, which drops the error, would have no arguments.
- `BuiltConformsToTool`: what is taken is what the tool schema says. (Not the other way round: a string with `\/`
  conforms and `strconv.Unquote` refuses it.)
- `AnswerIsRead`, `FailureIsRead`, `CodeSurvives`: of the answer's way back. The decode endpoint drops the error of the
  JSON encoder, and a `NaN` would leave an empty command after the token was spent; `clerm request` lets no such
  argument through, other clients do. The response read is the one made of the
  outcome, no failure is read as a success but one of a handler that says nothing at all, and the client's error has
  the server's code, though two codes share a status.
- `OnlyCheckedIsDialled`: the DNS may answer every lookup differently, the server redirect, and the client keep
  connections; a pinned load is still served by no address that the policy has not passed. `LoadEnds`: a policy
  replaces `CheckRedirect`, and with it the count of net/http, so it has to count itself.
- `ServedIsFingerprinted`: `New` copies first and asks for the fingerprint later, from a cache by pointer. They belong
  together, unless the document was edited meanwhile, or before and not invalidated, or its entry was stored by
  a call that an edit overtook. Afterwards the service goes on sharing arrays of parameters and the name with the
  document: those two an edit may change under the fingerprint, and nothing else. `StaleOnlyIfOvertaken` says it of the
  cache: an invalidation does not help against a call that is still under way. `SumStands`: between invalidations
  everyone gets the same sum.
- `AdmittedForWhatIsServed`: what that means for a token. The request it admits is answered under the name that the
  token was issued for, though the name is compared at one time and read again later, unless it was changed between
  the two; and by the methods and conditions it was issued for, unless the service's fingerprint was of others or
  an edit of parameters reached them. It takes both comparisons, of the name as it is and of the fingerprint as it was:
  with either of them alone it does not hold.
- `SettingsExplainOutcomes` (`AdmittedOnlyIfTrusted`, `PanicsOnlyIfUnset`, `CutOnlyIfRaised`, `DaemonServesAsTold`):
  what else an unsynchronised setter can do to a request under way, and that the daemon, which sets everything before
  it listens, answers with the key and the limit of its flags.
- `LapsedIsSwept`, `BindersFinish`: liveness of the sweeper and of the lock.

Bounds and why they are enough. A violation of single use needs two requests and one expiry; the third request
adds an expired reservation that is taken over while another call is under way. A stall of 2 ticks and a
lifetime of 2 ticks let a call cross the token's expiry and the whole life of a reservation. Time stops at
3 ticks: the first token has expired by then (at 2 ticks, and in the third tick its leeway still holds), the
second becomes valid in its leeway. One shard in `resolver` makes tokens collide; the two shards of
`replay_store` put a boundary of the sweeper's loop between two tokens. Two binders are what a lost update
takes, and one lookup is enough to see one. In `request_pipeline` two requests
meet at one token, two methods tell a method from a target, one handler and its absence give a binding a value to
change between; the two checks are one that `Middleware` passes on and one it does not, the rest differ in their
status only. The files of `schema_parser` hold
every kind of line in every place of a sound file, and a value that each check refuses; two methods and a nested
declaration before each of them are what a stale pointer or section takes. In `config_codec` and
`request_codec` words of 2 bits bring every boundary of 16 bits within reach: a string or list of 4, the count 3.
Two configs are one to leave something behind and one to be disturbed by it. Six calls assign, attach, overwrite,
encode and decode once each.

In `exchange` a token is 29 words, and the two places to break off are one inside its methods and one before its signature; 4
bits are the least in which a length, a type and every lexeme have a word, and bring a string that does not fit
(17 words) within reach. One token, which tokens for the wrong key, version, method, target or time take turns
to be, meets each check; that more tokens do not disturb each other is the concern of `resolver`. An inline limit of 14
lies between the answers. In `deployment` requests do not meet: they share nothing but the store, which is the concern
of `replay_store` and `resolver`, so one is enough. Three changes are an edit that is overtaken, its invalidation and
an edit of what is served, or a setter or an edit between any two reads of a request; and 3 requests of a load are two
redirects (10 in the code). Two bounds cut the product of the parts: a config is loaded before anything is changed and
nothing else happens meanwhile, and other callers of the cache are quiet once requests come. Where the bounds end, the
theorems go on.

Deadlock is checked where the system never stops. In `replay_store` and `resolver` the sweeper always has a step; in
`handler_table` and `request_pipeline` a new call to `Bind` can always begin. In `schema_parser`, the codecs' runs,
`exchange` and `deployment` it is off: a parse ends, so does a bounded number of calls, a request whose command is
never answered, and a daemon that stops.

Fairness. `StoreFairness` is weak fairness of the sweeper: its goroutine is started with the store, its
ticker goes on firing and each shard's mutex is held only for a bounded stretch of code. `HandlerTable!Fairness`
has weak fairness for a goroutine that holds the lock, as the code between `Lock` and `Unlock` calls nothing
that blocks, and strong fairness for taking it: `sync.Mutex` turns to hand-off when a waiter has starved for
a millisecond. `Deployment` has weak
fairness for the steps of a load (`LoadStep`): the default client has time limits for the dial, the TLS
handshake and the whole request, so a lookup, a dial or a server that hangs fails in the end; a caller's own client
is assumed to have them too. No fairness is assumed of callers, requests, handlers or time. `Resolver` and
`RequestPipeline` have no liveness property: handlers may run for ever, and nothing in the code cuts them off.

## 4. Proofs

| Theorem | Module | Says |
|---|---|---|
| `StoreIsTyped`, `StoreImplementsGuard` | `Resolver_proofs` | types (as in run `resolver`, whose `TypeOK` includes them); the store implements `ReplayGuard` |
| `ResolverTypeOK`, `SecondAdmissionAfterExpiry`, `LeewayNeverAdmits`, `FlawlessOnly`, `ReplayIsReal` | `Resolver_proofs` | the invariants of run `resolver`, for any requests, tokens, windows, leeway, shards, stalls, setbacks and restarts |
| `SingleUseWithoutStall` | `Resolver_proofs` | with no stall and no setback, a token lets one request through |
| `TableTypeOK`, `TableIsLinearizable` | `HandlerTable_proofs` | types; the table implements `HandlerMap` for any number of goroutines, methods and handlers |
| `PipelineTypeOK`, `TokenGrantedOnce`, `ErrorStatusIsClean`, `LookupSeesCurrentBinding`, `AnswersAreOutcomes` | `RequestPipeline_proofs` | the invariants of run `request_pipeline`, for any requests, tokens, methods, handlers, codes and checks |
| `ReturnedIsKept` | `ConfigCodec_proofs` | `ReturnedDocumentsStay`, for any documents, damaged inputs, word size and number of decodes |
| `DecodedIsSpelledOutHolds`, `EncodedIsDecodedHolds` | `ConfigCodec_proofs` | the other two invariants of run `config_codec`, for the same |
| `SentTokenIsATokenHolds`, `AttachedTokenStaysHolds`, `SentIsDecodedHolds`, `ReceivedIsSpelledOutHolds` | `RequestCodec_proofs` | the invariants of run `request_codec`, for any messages, tokens, frames, size of a word and of the buffer, and number of calls |
| `BuiltTokenIsIssuedHolds`, `ReportedPairIsOnDiskHolds`, `GrantedIsIssuedHolds`, `ClientChecksWhatServerChecksHolds`, `ArgumentsArriveHolds`, `BuiltConformsToToolHolds`, `AnswerIsReadHolds`, `FailureIsReadHolds`, `CodeSurvivesHolds` | `Exchange_proofs` | the invariants of run `exchange`, for any schemas, keyrings, options, payloads, outcomes, size of a word, places to break off and number of tokens |
| `CacheIsCurrent`, `CacheIsAgreedOn` | `Deployment_proofs` | `StaleOnlyIfOvertaken`, `SumStands`, for any goroutines and documents |
| `DialsAreChecked`, `TooLongIsTold` | `Deployment_proofs` | `OnlyCheckedIsDialled`, and `TooLongIsSaid` (a config over the limit is refused as that, as one byte past it is read), for any hosts, addresses, answers, redirects and lengths |
| `DeploymentUsesTheCache`, `DeploymentLoads` | `Deployment_proofs` | a deployment implements `CacheSpec` and `SourceSpec` |
| `ServedDocumentsAreCurrent`, `ServicesAgree`, `LoadsAreChecked`, `LongConfigsAreRefused` | `Deployment_proofs` | the four properties above, of deployments |
| `ReadsWhatIsNestedHolds`, `VerdictIsTheGrammarHolds`, `MethodsHaveOneConditionHolds` | `Deployment_proofs` | the invariants of run `schema_parser`, for any files and any values that the functions for values accept |
| `FingerprintIsOfWhatIsServed`, `AdmittedAsIssued`, `OutcomesAreExplained` | `Deployment_proofs` | `ServedIsFingerprinted`, `AdmittedForWhatIsServed` and `SettingsExplainOutcomes`, for any requests, documents, edits, limits and number of changes |

Assumptions are those of the modules (`StoreAssumption`, `ResolverAssumption`, `HandlerAssumption`,
`PipelineAssumption`, `WordsAssumption`, `CodecAssumption`, `EncodeAssumption`, `FrameAssumption`,
`RequestAssumption`, `ValuesAssumption`, `TokenAssumption`, `ResponseAssumption`, `TextAssumption`,
`ExchangeAssumption`, `CacheAssumption`, `SourceAssumption`, `DeploymentAssumption`, `ParserAssumption`): the
times are natural numbers, the shard of a token is one of the shards, the values that mean "none" are not
tokens, handlers or goroutines, the inputs of a decoder are words, the lines of a file are indented by 0, 2 or
4, schemas, payloads and outcomes have the types that Go gives them, and the markers and codes that the formats
tell apart are different. TLC evaluates them in every run.

`Resolver_proofs`, the store. Its invariant adds to the types that a call inside `Reserve` has a positive lifetime
(`CallsHaveLifetime`: line 64 has refused the others, so no recorded expiry equals `Absent`) and that
clock readings lie in the past (`ReadingsArePast`). With it `Commit` maps to `Grant` (an entry that is not live
at an old reading is not held now), `SweepShard` to `Forget`, `StoreTick` to `Elapse` and all others to a stutter.

`Resolver_proofs`, the requests. None of the properties is inductive. The invariant `Inv` adds what a goroutine between its
reading and its reservation carries (`Judged`, `Reserving`: no fault, window and deadline as read, a lifetime
that reaches to the token's expiry from a reading that is not later than the store's), that a recorded expiry
is never before the token's (`ReservationsCover`), and `Settled`: once a token has let a request through, its
reservation covers the token's lifetime or the lifetime is over. When a second request is let through, the
entry is not live, so by `Settled` the lifetime is over, while the reading of that request was before it:
that is `SecondAdmissionStraddlesExpiry`. Steps that admit and refuse nobody share one lemma
(`NoVerdictKeepsProperties`).

`HandlerTable_proofs`. The lock is held exactly from `Lock` to `Unlock` (`MutexHeld`), so nothing is published
between a copy and its `Store` (`CopyIsFresh`), which makes `Store` the instant of a `Bind`, and `Copy` that of an
`Unbind` that changes nothing.

`RequestPipeline_proofs`. The invariant says that the spent tokens are those of the granted requests, one each
(`Grants`), and what is known of a request in each of its stages (`Progress`): a request that was only received
has left no trace, the binding of a method under way is in `seen`, and a result that has no error and no error
code can be encoded. A step of one request keeps the `Progress` of the others (`OthersKeepProgress`); steps that
grant nothing and steps that grant one request share a lemma each.

`ConfigCodec_proofs`. For `ReturnedIsKept` it does not matter what the decoders read, only which arrays they write. The
invariant says that the document being read into shares no array with a returned one (`Separate`; nil's array, which is
empty, does not count) and that the next element lies within its slice (`Within`), so that it is never written to
nil's. A slice that grows gets an array that nobody has, and a clone has three of its own (`CloneIsNew`); what
`DecodeCodec` returns was apart from the `Decoder`'s document, which stays in use.

The other two need what has been read. `Shaped` says that the reader is within the input, that each slice is within its
array and that no two slices of a document share one, so that an element that is written is the last of its own list
and of no other. `Read(e)` says, for every stage of a reading, that what has been read so far is what the document `e`
spells out up to there, and that the fields read agree with `e`. For `DecodedIsSpelledOut`, `Followed` says that there is
such a document as long as the reading goes on: each step changes one field of it (`With`) or adds an element to one list
(`ListGrows`), which leaves what was read before as it is (`ReadAlike`), and at the end it spells out the whole input
(`EndIsWhole`). For `EncodedIsDecoded`, `Owed(v, d)` goes the other way: if the input is what `d` is encoded to, the reading
keeps to `d`, no step of it fails, and what it returns is `d`.

`RequestFrame_proofs`. The lemmas about what is written and read, on which `ConfigCodec_proofs` and the two that follow
rest. The codecs are recursive functions over offsets and list positions; the induction theorems of the library take a
predicate, so `SetInduction` states induction for a set of numbers, from the well-foundedness of `<` (`LessIsWellFounded`).
`At(data, o, s)` says that the words of `s` stand in `data` from `o` on: what `PutString`, `PutBytes`, `PutMany` wrote
there is read, and the offset after it is the one after `s`; and a reading that succeeds found exactly what writing
its value gives. From these, field by field, `FrameIsDecoded` and `DecodedSpellsOut` for both versions. A string that
is too long for its length is outside the first and inside the second.

`RequestCodec_proofs`. `Apart` says which arrays the two slices of a request, the owner's buffer and nil may share: the
private copy is never the buffer's array, and the field is only after an assignment. So a write of the owner changes
no private copy, `ValidatedIsAToken` stays true without anybody looking, and comparing with the copy is as good as
decoding. `append` is the lemma `AppendedIs`: it writes one array, and that is the slice's own or a new one.

`Exchange_proofs`. `Inv` has one part for each thing that travels: `PoolInv` (the tokens issued and what was signed:
one place for each, so a signature finds its payload), `KeptInv` (a file holds a beginning of the line of an issued
token, whole once it is reported), `AskedInv` (a request built by `clerm request` is the frame of a valid message with
a token read from such a file), `ResolvedInv`, `AnsweredInv` and `ViewedInv`. A token says
how long each of its fields is, so what is read of the beginning of its text is that token or nothing
(`ReadTextIsWritten`), hence `BuiltTokenIsIssued`.
For `GrantedIsIssued`: a payload that is verified is one that was signed, tokens whose fields fit are told apart by
their bytes (`PayloadsDiffer`, `DecodedTokenIsEncoded`), so the token is the one issued. `ClientChecksWhatServerChecks`
goes through the list of checks one by one (`BuiltIsRefused`). `ArgumentsArrive` rests on `ValidAreDecoded`: what
`ValidateValue` takes, `DecodeValue` decodes, for every type and text. The response is read by `ErrorIsRead`,
`SuccessIsRead`, and the codes by `CodeIsRead`, which goes through the statuses.

`Deployment_proofs`, the cache. `CacheInv` adds what a call has read by its stage (`CallsReadOn`): as long as no edit has
overtaken it, that is the document's content, so what it stores is current.

`Deployment_proofs`, the sources. `SourceInv` adds that what is left to be dialled has been passed
(`LeftToDialIsChecked`), and that a connection the client keeps has been as well (`ConnectionsAreChecked`), so that it
may be taken again; the addresses of a host that is an address are that one (`ResolvedAsSpelled`), which is why the
policy, that looks at the host alone then, has looked at what is dialled. With no load there are no connections
(`NothingIsLeft`).

`Deployment_proofs`, the deployment. Every step of it is a step of the cache or leaves it alone, and the same for the
source, so their invariants are taken over (`DeploymentUsesTheCache`, `DeploymentLoads`). `DeployInv` adds that the
copy `New` has taken is the document's content unless it was disturbed (`CopyIsContent`), that no request is there
before the service (`Starting`), what the daemon has set by its stage (`DaemonSets`), what a request has seen of the
settings by its stage (`RequestsKnow`), and that a request past its claims has met a fingerprint and a name that are
those of its token, the name unless it was changed since (`ClaimsAreMet`). `EditedService` says what an edit leaves of a
service: its fingerprint, and of its copy all that is not in `reached`. So the fingerprint, that was the token's, is
still that of the rest of what is served when the request is admitted.

`Deployment_proofs`, the parser. The three properties compare what a parser has built, step by step and with three
variables to remember where it is, with `NestedDocument` and `WellNested`, which look at the whole file and know only
which line is nested under which. The invariant, `Stands`, has the two meet at every line: the document is that of the
first `pos - 1` lines, these are all legal, `section` is the key of the last top-level line (`SectionAt`), and `nested`
that of the last line of depth 2 if no top-level line follows it (`NestedAt`). So the last top-level line is the next
line's parent or its parent's parent (`NextParent`), and the parser, by its state, allows the next line exactly when
it is legal (`AllowedIsLegal`): a name is empty as long as the schema has not been declared, a route as long as none
has been given. Each part of the document depends on a set of lines (`RouteLines`, `RuleLines`, `ArgumentLines`, ...),
and the next line belongs to none or to one kind of them, by its parents (`TopLine`, `SecondLine`, `ThirdLine`); that
changes one field of the document (`DocumentNext`), the one that the action changes, and of the methods the last one
only, as the lines of a method follow it before the next (`MethodsStay`, `MethodsGrow`, `MethodsChange`). For the lists,
the lines of a part in their order are told apart by their places, counted up to their number (`InOrderLists`), so
that a new line is appended (`InOrderNext`). `Verdict` adds where a parser that has ended stands. That the resolver's
maps lose nothing then follows from `Valid`, as each list has each of its lines once (`ListHasAll`).

Only model-checked: `LapsedIsSwept`, `BindersFinish` and `LoadEnds`, as liveness under fairness is out of the prover's
reach. Every other property of the runs that pass is stated by a theorem.

Only proved: the types of `ReplayStore`, `HandlerTable` and `Deployment` (`DeploymentInvariant`), of `RequestCodec` and
`Exchange` (in `RequestInvariant` and `ExchangeInvariant`), `TooLongIsSaid`, `SingleUseWithoutStall`, and that a
deployment implements the cache and the source. `ConfigCodec` and `SchemaParser` state no type invariant.

## 5. Findings

- `resolver_stall`: one token lets two requests through. The first one uses it; the second one reads the clock
  at line 509 just before the token's expiry, pauses, and calls `Reserve` after the expiry with the lifetime
  computed before the pause. `Reserve` reads its own clock, finds the first reservation expired (or swept) and
  records a new one. `src/tests/integration/resolver/service_test.go` expects of every second use a
  "replay rejection". `SecondAdmissionAfterExpiry` proves that this is the only way it happens and
  `SingleUseWithoutStall` that the pause (or a clock set back) is needed.
- `request_codec_owned`: the comment of `SetCapabilityRaw` says that it stores an owned copy of the token. It
  appends to `CapabilityRaw[:0]`, so after an assignment to that exported field the copy is written into the
  assigned slice, and filling that slice again changes the token. `AttachedTokenStays` is what holds.
- `request_pipeline_errors`: `docs/resolver-go.md` says that Go errors become CLERM error responses once the method
  is resolved. `ServeHTTP` writes status 200 and drops the error of `clermresp.WriteTo`; an error code or message
  over 65535 bytes cannot be encoded, so the client gets 200 and an empty body. `AnswerIsTheOutcome` shows that
  an empty body never hides a success.

## 6. Assumptions, and what is not modelled

Assumed of what is not in `src/`: pointers, strings and interface values that a setter, or the owner of a document,
writes while a request reads them are written whole and in some one order (Go promises this for neither an interface,
a string nor an `int64` on every platform),
the replay stores a service is given are of one type, `net/http` reuses a connection for the host it was
made for only, and SHA-256 and Ed25519 do what they promise: a sum tells documents apart, and a signature fits the
payload and the key it was made of.

Not modelled:

- Policies for config URLs other than `DenyPrivateHostPolicy`, a caller's own `CheckRedirect` (which is asked in place of
  the count, and may be one that never stops), TLS names. `Indirect` hosts, which net/http dials under a name
  that is not the one resolved, are in the model and outside `OnlyCheckedIsDialled`.
- Edits of a document's parameters that are made through the service: `Service.Method` and an `Invocation` hand out the
  same slices, and a handler could write to them. In `Deployment` only the document's owner does. The names of the
  relations block and the list of services, which are hashed and read by nobody else, are not among the parts.
- How JSON is parsed and written, how numbers are rounded, the spelling of values in a `.clermfile`.
- The 16-bit wrap of a token's fields is in `TokenCodec`, and the properties of `Exchange` are stated for tokens
  that fit; a registry that issues longer ones is not part of the repository.
- Registering, searching and relationships: one JSON round trip each to a registry that is not in `src/`.
- `clerm compile`, `serve`, `benchmark`, `shellenv`, the help texts; key files; logging.
- The path of the daemon's socket: `daemonListener` removes what is there, and one daemon per path is assumed.
- Memory: the fingerprint cache keeps every document it was asked about (`schema.go` 246-274).
- The facades, which are aliases, and the servers in other languages, which are examples.

What could follow: a service that serves several consumers at once in `Exchange`.
