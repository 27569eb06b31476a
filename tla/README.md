# Verification of Gradia Guard

TLA+ models of `@gradia/guard`, the TLC instances that check them, and proofs checked by TLAPS.
Paths are relative to the repository; `sdk.ts` without a directory is `src/sdk.ts`.

Guard records what an AI system does as *evidence*: hash-chained files that a verifier, with no
access to the system, accepts or refuses. The code has two jobs that can go wrong together: mediate
an operation (admit it, perform it, withhold what must be withheld) and leave files that tell the
truth about it, whichever write fails, whoever crashes and however calls overlap. The models keep
these two jobs in one state, so that every property relates what happened to what the files say.

## Inventory

| component | state | operations | what makes it correct |
|---|---|---|---|
| SDK recorder, `sdk.ts` | manifest, open count, occurrences, frame chain, handles; `frames.ndjson`, `bundle.json` | begin decision or tool call, `markDispatched`, `succeed`, `fail`, `finalize` | an accepted bundle holds every operation handed out; a sealed one never changes; what was sealed is accepted |
| SDK readers, `sdk-verify.ts`, `actor-graph.ts`, `evidence-readiness.ts`, `inspect.ts`, `upload.ts` | what they read, in two reads | verdict; graph, readiness, upload after it | the verdict is sound and complete for the recorder; what follows it is about the bundle that was judged |
| Python SDK, `python/src/gradia_guard` | as the SDK recorder, plus the LangChain callback's tables and lock | as the SDK recorder; start and end callbacks on threads | as the SDK recorder; an accepted bundle tells how each call of the framework went |
| stdio access journal, `mcp-stdio-evidence.ts` | receipt list; `receipts.ndjson`, `bundle.json` on a disk that can lose unsynced data | `authorize`, `terminal`, `finalize`, `recover` | what a call returned for survives every crash; recovery invents nothing; publication is final |
| stdio proxy, session journal, tool adapter, `mcp-stdio-proxy.ts`, `mcp-session-evidence.ts`, `mcp-adapter.ts` | serial queue, pending exchange, output buffer, child, catalog epoch, both recorders | `invoke`, `interrupt`, `close`; output, notifications, timeout, exit | no write before durable authorization; answers go to their own call; a session call goes out under the pinned schemas; bundles agree; everything ends |
| gateway recorder and verifier, `gateway.ts`, `gateway-verify.ts` | as the SDK recorder, for model calls | `prepare`, `markDispatched`, `succeed`, `fail`, `finalize` | as the SDK recorder; a substituted model is never a success |
| HTTP egress dispatcher, `http-egress.ts`, `provider-adapters.ts` | boundary, recorder | `dispatch`, `finalize` | refused calls never reach the transport; the answer is withheld unless recorded |
| credentialless runtime, `credentialless-runtime.ts` | loopback server, counters, child; `runtime.json` | request handlers, the child's end, sealing | an admitted run hides nothing; a good run is admitted |
| MCP HTTP proxy and journal, `mcp-http-proxy.ts`, `mcp-http-evidence.ts` | concurrent handlers over one durable journal | handlers, `close`, `recover` | a response is never ahead of its durable receipt; no receipt lies about the tool; the two bundles agree; what is published verifies |
| managed identity, authenticated gateway, `managed-workload-identity.ts`, `authenticated-gateway.ts` | identity, pending exchange, sticky failure; ledger | `identity`, `recheck`, `dispatch`, `finalize` | nothing goes out under an identity that is not live, trusted and entitled; an exchange is never repeated |
| spool, frames, guarded run, `spool.ts`, `frames.ts`, `run.ts`, `verify.ts` | chain of output chunks of a child, listeners | spawn, chunks, error, close, signals | what verifies is the whole run; a run that resolved verifies; the run ends |
| runtime recorder, composition, `runtime-recorder.ts`, `runtime-evidence.ts`, `runtime-composition.ts` | a journal of receipts on a disk that can lose unsynced data, shared by processes in turn | `append`, `terminalize`, `finalize`, `recover`, compose | what was counted is published; a crash leaves what can be recovered; a composition keeps verifying |
| policy, workload identity, `policy.ts`, `workload-identity.ts` | none | pure functions | used by the dispatcher, the HTTP proxy and the gateway |
| container and Kubernetes inspection, compatibility tables, AG-UI verifier, proof packs, anchors, routing, doctor, CLI | none | static checks, archives, one request | - |

Interaction: the proxy calls the adapter, the adapter the SDK recorder, and the proxy the access
journal, all synchronously between awaits of one event loop; the child and recovering processes run
beside it. The credentialless runtime's handlers share the dispatcher, the gateway recorder and the
counters, and interleave at their awaits. Callers of the authenticated gateway share its identity and the
one exchange that renews it. Threads of a Python program share a recorder under its lock. Verifiers
and recoveries read the files at any time; compositions bind several bundles together.

What is hard in this code: state that is changed in memory before (or after) the file it describes;
calls that throw half way and whose object is used again; awaits between reading shared state and
acting on it; crashes between a write and its fsync; late and split answers of a child process; events
of a child (output, error, close) in any order. The `hazards` of `PROJECT.json` list them at their lines.

## Modules

| module | models | extends or instantiates |
|---|---|---|
| `EvidenceLedger` | what every recorder promises: admit, censor, record, seal | |
| `SdkVerifier` | frames of an SDK bundle and the verdict on them | |
| `SdkRecorder` | the SDK recorder, write by write | `SdkVerifier`, instance of `EvidenceLedger` |
| `SdkReader` | a reader in another process: verdict, actor graph, readiness, inspection, upload | `SdkRecorder` |
| `SdkRecorderProofs` | theorems about recorder and readers | `SdkReader` |
| `PythonRecorder` | the Python recorder, write by write | `SdkVerifier`, instance of `EvidenceLedger` |
| `LangChainCallback` | runs of LangChain and an application over one Python recorder | `PythonRecorder` |
| `LangChainCallbackProofs` | theorems about both Python modules | `LangChainCallback` |
| `McpStdioAccess` | the durable access journal, its owner and its recoveries | |
| `McpStdioProxy` | proxy (version 1), adapter and child over the journal | `McpStdioAccess` |
| `McpStdioSession` | the proxy in both versions: session, discovery, notifications, session journal | `McpStdioProxy` |
| `McpStdioProxyProofs` | theorems about the journal and the proxy, in both versions | `McpStdioSession` |
| `Policy`, `WorkloadIdentity` | routes of a policy and scopes; the window and the scopes of an identity | |
| `GatewayFrame` | what an attempt may end with, what its frame may say | |
| `GatewayRecorder` | the gateway recorder and its verifier | `GatewayFrame` |
| `HttpEgress` | routes, admission, what becomes of each answer, native calls | `GatewayFrame`, `Policy`, `WorkloadIdentity` |
| `CredentiallessRuntime` | loopback server, dispatcher, child and receipt over the recorder | `GatewayRecorder`, `HttpEgress`, instance of `EvidenceLedger` |
| `CredentiallessRuntimeProofs` | theorems about runtime and gateway recorder | `CredentiallessRuntime` |
| `AuthenticatedGateway` | concurrent calls under a renewed and re-checked identity | `Policy`, `WorkloadIdentity`, instance of `EvidenceLedger` |
| `AuthenticatedGatewayProofs` | theorems about it | `AuthenticatedGateway` |
| `McpHttpAccess` | the durable journal of the HTTP proxy, its owner and its recoveries | |
| `McpHttpRequest` | how a request is read, up to the first check that refuses it | |
| `McpHttpProxy` | request handlers, tool adapter and close over the journal | `McpHttpAccess`, `McpHttpRequest` |
| `McpHttpProxyProofs` | theorems about journal and proxy | `McpHttpProxy` |
| `GuardedRun` | a child under guard: listeners, pipes, signals, spool, verdict | |
| `GuardedRunProofs` | theorems about it | `GuardedRun` |
| `RuntimeEvidence`, `ContainerEnforcement` | verdicts on runtime receipts, on a measured container | |
| `RuntimeRecorder` | the runtime journal, its holders, crashes, and compositions over its bundle | both |
| `RuntimeRecorderProofs` | theorems about it | `RuntimeRecorder` |
| `MC*` | instances for TLC | |

How state and actions correspond to the code:

* **Digests.** A frame's digest is collision free and covers its predecessor's. In the recorders' models
  the number a frame has in its chain stands for its digest; in the journals, where two
  processes may append to one file, a line stands for the whole list it ends. Signatures, canonical
  JSON and content references are left out, and an occurrence digest is the logical id and attempt it
  binds, except that a caller may name any predecessor, right or wrong.
* **A call that writes is several steps**, one per file write, because any of them may throw and the
  object lives on (`HostFails`: a write that fails, wholly or in part, a failing fsync, or the clock adjusted). The
  recorders are synchronous, so no other call of the process starts meanwhile (`call`); a reader may look at the
  files at any of these steps. A process that dies
  is one that takes no further step, and its files are those of the last step. In the journals a write
  and its fsync are two steps, since a host crash in between loses or tears the line.
* **In-memory and on-disk state are separate variables** (`manifest` and `disk`, `memory` and
  `journal`), as are the frame chain's own counter and the manifest's, which the code keeps apart and
  compares. `sdk.ts` advances the chain before the append that may fail: so does `Emit`. `core.py`
  numbers a frame when it is built and uses the number up after the sync: so does `WriteLine`.
* **The event loop of the stdio proxy**: `AtRest` is the point where the next event may be taken. What follows
  an event up to the next await happens without another event in between, although it may be
  several steps because the journal's writes are.
* **The actor graph** is walked one decision a step (`Walk`), although the loop of the code runs through: the recorder is another
  process and may write between any two of its iterations. The rows of the actors and the depths are carried along as in the code.
* **The version 2 session**: control calls (`initialize`, `tools/list`) go through the same exchange, so they share the
  pending slot, the timer and the failure of the session. `epoch` counts `list_changed`; `vouched` remembers, for the
  property only, whose listing the child answered with the pinned tools. Of the session journal the number of rows matters.
  What a chunk of output does is said at once of all the lines it completes, without a loop (`Event`).
* **The runtime's handlers**: everything between two awaits is one turn. `Dispatch` is the turn that ends
  at the transport's await, `Settle` ... `Return` the one that begins there. What an answer becomes is computed by
  `HttpEgress` (`EndingOf`) from what the answer is. Whether `succeed` or `fail` takes it (`Accepted`) and whether the frame
  check takes the frame (`FrameSound`) are two judgements in the code as in the model, and the attempt is closed between them.
  Of the reasons a decision records, the frame keeps one, whether they name the caller's identity (`identified`): `authorize` puts it
  there only if the identity check passed (`http-egress.ts:395-410`), and `verifyCredentiallessRuntime` refuses a run whose *first* frame
  lacks it (lines 431-433), as `Admitted` does (`FirstNamesIdentity`). The other digests that verifier compares (policy,
  configuration, boundary, command, environment) are constants of one run, and of the process bundle what counts is how the child ended (`exit`).
* **The HTTP proxy's handlers**: each action of `McpHttpProxy` is what a handler does between two awaits (body,
  identity check, tool), except that its last turn is a journal append (`Persist`, then the steps of
  `McpHttpAccess`), then `Reply`; `Free` keeps other turns out until it is over. `McpHttpRequest` computes from the
  head and the message of a request which check refuses it first; only that answer is kept. Without a managed identity the
  identity wait is a microtask, and `checking` is then too short for another turn: the model allows more than
  that configuration does. The SDK recorder is reduced to what it has of each operation (`op`) and whether it can
  still record (`adapter`); its own writes are the subject of `SdkRecorder`.
* **The authenticated gateway**: a caller's stages are its awaits (identity, check, upstream). The one pending exchange is
  shared; its promise, its failure and the reset of `pending` are one step, because they are one turn in the code. The
  gateway recorder is taken as the abstract ledger here, which `CredentiallessRuntime` shows it to implement; no write fails in this module.
* **The guarded run**: `Data`, `SpawnFails`, `Close` and the signal listeners are the guard's callbacks; the child, and
  whoever inherited its pipes (`held`), act at any time. `alive` is false once a listener threw or an unlistened signal came.
* **The runtime journal**: `mishaps` remembers what went wrong (an overlap, a short write, a failed sync, a lost directory entry), so
  that each property says which of it its promise survives.
* **Python**: a thread holds the recorder's lock for one call, so calls are turns there too, but the start callback makes two of them
  (`begin`, then `mark_dispatched`) under the callback's own lock, and other threads' calls come in between.
* **External**: the application, LangChain (performs a call whose start callback returned, then calls one end callback), the
  MCP child (answers each request at most once, in one chunk or two,
  prints unrelated lines, changes its tools, exits), the provider, the trust service, the network, the operating system.
* **Left out**: timestamps of the journals and the gateway; the SDK models keep their clock because those recorders
  close an operation before they compare the times, or do not compare them. Media types and field schemas.
* **Faulty variants.** A definition `X_Y` beside `X` is a plausible mistake in `X`; substituting it
  makes the property it is listed with in `PROJECT.json` fail.

## What is checked

| run | instance | shows |
|---|---|---|
| `sdk_recorder` | 2 operations or 2 attempts, 2 actors, 1 fault, a reader beside the recorder | handles closed means sealable (`NothingStranded`), and what is sealed verifies (`FinalizedVerifies`); a bundle that verifies is complete (`VerifiedIsComplete`) and final (`VerdictStable`); the verdict, the inspection and the actor graph of a reader are about one bundle (`ReaderIsConsistent`), a bundle that verified has a graph and it tells what happened (`GraphIsFaithful`); `LedgerSpec` |
| `python` | 2 runs of LangChain, an application, 2 operations, 1 fault | a bundle that verifies tells how every call of the framework went (`VerdictTellsCalls`); a session without a fault can be sealed and verifies (`GoodSessionVerifies`); `PythonLedgerSpec` |
| `proxy_crash` | 2 calls, 2 successive recoveries, 1 fault, 2 crashes | no byte reaches the child ahead of durable evidence (`DispatchIsCovered`); interrupted sessions can be recovered (`Recoverable`); nothing is invented (`NothingInvented`); bundles extend what the owner counted (`BundleComplete`) |
| `proxy_session` | 2 calls, both versions, 1 unrelated line, fairness | `CompletedWasAnswered`, `BundlesAgree`, `CloseSucceeds`, `SessionCallIsPinned`, `InterruptIsFinal`, `SessionEnds` |
| `runtime` | 2 overlapping requests, 2 attempts, 13 kinds of answer, a call the identity never covers, one instant at which it has run out, 1 failing write | a run that went well, and whose first recorded call passed its identity check, is admitted (`GoodRunIsAdmitted`); `ResponseIsRecorded`, `AdmittedIsComplete`, `SealHidesNothing` |
| `http_proxy` | 2 overlapping requests, 2 racing recoveries, 1 fault, 2 crashes | no response is ahead of its durable receipt (`ResponseIsDurable`); bundles are true (`UpstreamIsTrue`), agree (`BundlesAgree`) and verify (`SealedVerifies`); `CloseSucceeds`, `NoCallAfterClose` |
| `identity` | 2 callers, a clock of 5 instants, fairness | `DispatchIsTrusted`, `IssuanceIsLinear`, `NeverExpiresInFlight`, `CallsEnd` |
| `guarded_run` | 2 channels of 2 chunks, 2 signals, 1 fault, fairness | `VerifiedRunIsWhole`, `ResolvedRunVerifies`, `RunEnds` |
| `runtime_journal` | 3 processes, 3 receipts, 1 fault, crashes | `CountedIsPublished`, `JournalIsRecoverable`, `CompositionHolds` |
| `runtime_native` | 2 requests | finding 1 |
| `runtime_model` | 2 requests | finding 2 |
| `http_short` | 2 requests, short writes | finding 3 |

Each property's comment in its module says what it is about; `hazards` says which hazard it is for. Each module also
has a type invariant (`TypeOK`, `ProxyTypeOK`, `RuntimeTypeOK`, ...). No run lists it: it is a conjunct of the module's inductive
invariant and proved with it.

**Bounds.** `MaxFaults`, `MaxCrashes`, `MaxNoise`, `MaxChain`, `MaxOperations`, `MaxFrames`, `MaxTime`, `MaxAttempts`, `MaxChunks`,
`MaxReceipts`, `MaxRows`, `MaxCount`, `Stamps`, `Times` and the sets of requests, callers, processes, messages and answers are the only ones.

* Two calls are what it takes for one call's late answer, stale buffer, missing terminal receipt, reused id or shared renewal to
  meet another. One failed write is enough to make memory and files differ, and everything afterwards runs on that
  difference. Two crashes let a recovery be interrupted too. A clock of two instants can stand still, advance, and step back.
* `sdk_recorder` and `python` have a state constraint, `Bounded`: several operations with a clock that stands still, or one (with
  its retry, in `sdk_recorder`) with a clock that moves. Clocks matter to the frames of one operation and the seal after them; lineage and the open
  count matter between operations.
* `proxy_session` has no faults or crashes, since its liveness and agreement properties are about races; `proxy_crash` has
  no unrelated output and version 1 only. `MaxRows = 10` lets a session of two calls fill its journal, or not. A tool list is one page.
* In `proxy_crash` recoveries follow one another (`Overlap = FALSE`), as they do in `runtime_journal`: the code leaves it to the operator to wait for the
  process that is replaced, and the promises are stated for one who does. Several theorems (`PublicationIsFinal`, `OutcomesAreReported`, `CompletionsWereAnswered`,
  `CallsArePinned`, ...) are about overlapping recoveries as well. In `http_proxy` recoveries do race, and a second crash can fall between them.
* The 13 answers of `MCExchange` are one for each way an answer can go wrong, and good ones of two providers; the requests of `McpHttpRequest`
  are enumerated once, by kind of head and message, and only their outcome is in the state.
* `ShortWrites` switches on writes that take part of a line: off in `http_proxy`, so that its properties say what holds of whole
  writes, and on in `http_short`.

**Fairness.** *Stdio proxy*: the event loop keeps running, a started timer fires, synchronous recorder calls return, a
signal that can end the child does, and in version 2 the check of the session's identity returns. Nothing is assumed of the child's
answers, of the caller or of recoveries. The half of `SessionEnds` that is about `close` needs `HeedsTerm`: `close` waits for the exit after one
SIGTERM (`mcp-stdio-proxy.ts:194-198`) and sends nothing stronger, so a child that ignores it keeps
`close` waiting. The other half needs no such assumption: the response timeout rejects the exchange itself.
*Identity*: time passes, and a fetch gives up when its time is over; the application's token source is not
assumed to answer, and `CallsEnd` says so. *Guarded run*: the guard's event loop runs, data that is in a pipe is delivered, and `close`
comes once the child is gone and its pipes are closed.

**Deadlock checking is off** because every one of these systems may stop: a sealed recorder, a closed
session, a returned runtime, a run that ended.

## Findings

1. *Overlapping native calls share an id* (`runtime_native`, `credentialless-runtime.ts:590`). The logical
   request id is `nativeProvider + 1`, read before the `await` of `dispatch`; the counter is increased
   after it. The second of two overlapping native calls is refused as a duplicate, answered 400 and
   counted as malformed, which poisons the admission of the run. `README.md:660` promises that one
   application call corresponds to one admitted Guard call.
2. *A substitution by an unpinned model is not recorded* (`runtime_model`, `gateway.ts:126`). `succeed` refuses
   a resolved model that is no exact pin before it closes the attempt: no `identity_mismatch` receipt,
   against `README.md:1091`, and the open attempt keeps the bundle from ever being finalized. The response
   is withheld all the same.

3. *A receipt may be torn and the request answered all the same* (`http_short`, `mcp-http-evidence.ts:879`).
   `appendDurableLine` ignores how many bytes `writeSync` took. A short write throws nothing: the torn line is
   synced, counted and answered, against `README.md:399`, and `close` reports success for a directory that does
   not verify. The stdio journal writes in a loop until the line is whole.

Smaller observations that the models make precise, and that the properties take into account.

* *SDK recorder*: after a failed write or a clock step an operation can be stranded open (`sdk.ts:157`; hence the hypotheses of
  `NothingStranded`); a `finalize` whose write failed cannot be repeated (`sdk.ts:422`). Readiness calls a bundle without any tool call
  `evidence_ready` for `tool.request` and `tool.result`. Inspection and upload read the bundle again without comparing it with what was verified,
  and are right only because a bundle that verifies never changes (`VerdictStable`).
* *Python*: the same, and more of it. A second `finalize` after a failed one returns as if it had sealed (`core.py:489`); the
  times of a frame are not looked at before it is written, so a clock that steps back gives a sealed bundle that does not verify; a failed manifest write leaves
  `bundle.json.tmp` behind and every later one trips over it (`core.py:702`); `succeed` closes the operation before it looks
  at its output (`core.py:303-311`), and an end callback takes its operation away before the output is serialized
  (`frameworks.py:81-84`): when that raises, the recorder can never be finalized. All of these lose evidence; none makes a bundle verify
  that should not.
* *Stdio journal*: a failed fsync can leave a line that the recorder does not count, and the journal then forks and is refused by recovery
  (hence `faults = 0` in `Recoverable`); a torn last line makes recovery refuse the whole journal
  (`mcp-stdio-evidence.ts:542`); recovery of a session that is still alive is not excluded (`mcp-stdio-evidence.ts:273`).
* *Stdio proxy*: `close` fails when the only call of a session was malformed (hence the conclusion of `CloseSucceeds`), and when the session journal is full,
  after both bundles were sealed; a failed fsync of the session journal leaves a row that memory does not count. A `list_changed` that arrives
  between the last look at the epoch and the write of the call is not acted on: what `SessionCallIsPinned` promises is that the child named the pinned tools since the call's turn came.
* *Gateway*: an informational status (a custom transport may report one) or token counts whose sum is no safe integer are refused
  by `fail` and `succeed`, and leave the attempt open; a clock that runs backwards between dispatch and finish makes the frame check refuse after
  the attempt is closed. `credentialHeaders` is awaited outside the transport's timer (`http-egress.ts:458`). A native call asks for all the
  scopes of the policy's route.
* *Managed identity*: the first ambiguous exchange disables the client for good, by design; callers that hold a live identity go on only if they do
  not call `identity()` again.
* *HTTP proxy*: a client that hangs up while its tool runs makes `close` fail, for good
  (`mcp-http-proxy.ts:151-154`; hence the conclusion of `CloseSucceeds` there); after a failed sync of the directory `finalize` throws
  with the bundle in place, and handlers of hung-up clients may still append past it (hence `faults = 0` in `SealedVerifies`);
  recovery publishes lines it has not synced (hence that property's second alternative); nothing bounds the wait for a
  tool, so no liveness is stated. A body that is `null`, a target that is no URL, or arguments with a non-finite number are answered 500 as internal failures.
* *Guarded run*: a signal is forwarded once, a second one of the kind ends the guard; a `kill` that is not permitted raises `error`, and the run is sealed as aborted while
  the child lives; the child is recorded as started even if the spawn fails later.
* *Runtime journal*: a failed fsync, or a line that is cut, makes the journal unrecoverable, although the comment at `runtime-recorder.ts:67` expects a
  recovery after a crash; the time a composition claims for itself is not compared with anything; a container is inspected and probed
  at different instants.

## What is proved

Every safety property of a run that expects to pass is a theorem; only liveness is left to TLC. A theorem holds for
every value of the constants under the modules' `ASSUME`s. Most of these give the constants their types; those that say more are

* for every module: a value that stands for "nothing" is not one of the values it stands beside;
* `ProxyAssumption` of the stdio proxy: the adapter can report at least `completed`, `tool_failure` and `blocked`;
* `GatewayAssumption` of the authenticated gateway and `EgressAssumption`: time limits are positive, and routes and identities are what the
  constructors of the code accept (`PolicySound`, `ClaimsSound`);
* `LogicalAssumption` of the credentialless runtime: finitely many requests, and as logical ids the child's names and the numbers the server can generate;
* `CallbackAssumption` of the LangChain callback: the ids of runs are logical ids, and an operation can be tried at least once;
* `RecorderAssumption` of the runtime recorder: an inspected container is on networks of its inspection.

What only holds under a hypothesis has it in its statement: `~Overlap` in `DispatchesAreCovered`, `SessionDispatchesAreCovered` and `ClosesSucceed` (and, inside the property, in `BundleComplete` and
`Recoverable`), `~ShortWrites` in `ResponsesAreDurable`, `faults = 0` or the named mishaps inside a property. The run `http_short`
shows what happens without the second.

The proofs are by one inductive invariant per system, stated as a conjunction of named parts at the end of the model's module, with one lemma per
action or per part, and each property follows from it. The invariants were checked with TLC on the instances of the runs before they were proved.

**SDK recorder and readers** (`SdkRecorderProofs`), for any number of operations, retries, failed writes and clock steps.
* `TypeCorrect`: among others, the open count never falls below zero.
* `VerdictSound`: a bundle that verifies holds every operation handed out (`VerifiedIsComplete`).
* `VerdictIsStable`: no call changes the files of a bundle that verifies (`VerdictStable`).
* `ImplementsLedger`: the recorder implements `EvidenceLedger`.
* `VerdictComplete`, `NoneIsStranded`: while the host works, what was sealed verifies (`FinalizedVerifies`) and the open count is exactly
  what is still open (`NothingStranded`).
* `ReadersAreConsistent`: a reader's several reads are of one bundle (`ReaderIsConsistent`).
* `GraphsAreFaithful`: a bundle that verified has an actor graph, and the graph tells what the application did (`GraphIsFaithful`).

`VerifiedIsComplete` is not inductive: it is about files, and what keeps them right is the open count
in memory. Type correctness is not inductive either: the count is decremented. The invariant `Sound`
joins them. Its core, `Accounting`, is an inequality: the live operations, plus one for an action on its
way to being counted, are at most the open count. A call that throws leaves the count too high, never
too low; that is why a recorder with a failed write may be stuck but cannot lie. `SealSound` then says that once
the manifest is final there is no live operation and no call that writes a frame, so a verdict on a
final manifest stays. For the refinement, `owed` is the set of live operations, `recorded` the occurrences with an
action in the log, `sealed` a final manifest on disk; a line written is the abstract step, everything else stutters.

The other direction, that the verdict does not refuse what went well, needs equalities. Without a fault the counts are exact (`CountsExact`), and
`Whole`, the log with the line that is being written, is at every instant all a verifier asks for, except that an open operation lacks its action
(`WholeInv`). With the open count at zero nothing lacks it. Readers (`ReaderInv`) read a final manifest before anything else; from then on
no file changes, so a second read is the first.

The graph's invariant (`GraphSound`) says of the decisions met so far what the graph in the end says of all: the edges are those of their parents, each depth
is one more than its parent's, and each counter of a row is the number of decisions or edges it stands for. `VisitSound` shows that one decision more
keeps this, and that none of the three ways to throw is taken: in a log that verifies the next decision's own action, its parent, and its parent's action
are there, the parent before it. That the log's decisions are what the application was handed, and the dates of its actions those of its dispatches, is
about the recorder (`Logged`, with `StartedSound`): it is not in the log, but nothing the recorder still can do changes it once the manifest is final (`SealedIsStable`).

**Python SDK and LangChain callback** (`LangChainCallbackProofs`), for any runs, threads, applications and faults.
* `TypeCorrect`, for both modules.
* `VerdictsTellCalls`: a bundle that verifies has the end of every call the framework performed, as it was told (`VerdictTellsCalls`).
* `ImplementsLedger`: the same abstract ledger (`PythonLedgerSpec`).
* `VerdictIsStable`: no call changes the files of a bundle that verifies (`VerdictStable`; no run keeps it, TLC checked it once on the instance of `python`).
* `GoodSessionsVerify`: without a fault and without a lost operation the open count is exact, and what was sealed verifies (`GoodSessionVerifies`).

The inequality of the SDK recorder is also that of the Python one, although a line may be in the file here without being counted (`WriteLine` uses
its number up after the sync). It is joined with where each run of the framework is (`RunSound`): a run that was called has a
dispatched handle; that handle stays in the open count, and so in the way of `finalize`, until the end of the run
is in the log, even if its end callback raises. `ToldSound` says that this end is what the framework told.

`GoodSessionsVerify` needs equalities here too, for a recorder that can lose an operation while the host works: `succeed` closes its handle before it looks
at the output, and an end callback that raises drops the handle it took. `WholeInv` therefore counts what is live, lost operations (`Lost`) included, as what the open count is made of (`CountsExact`), and
asks of the log only that what is not live has its action (`AdmittedWhole`). With nothing lost the live ones are those still open. `TimesSound` carries what the verifier asks of the times, which this recorder does not look at.

**Stdio access journal** (`McpStdioProxyProofs`, first part), for any number of requests, recovering processes, faults and crashes.
* `TypeCorrect`.
* `PublicationIsFinal`: whoever's `finalize` returned finds its list in the bundle, with overlapping
  recoveries too (`PublishedIsKept`). This one has no run: the instances TLC can check have no overlap.
* `OutcomesAreReported`: nothing is invented, with overlapping recoveries too (`NothingInvented`).
* `BundlesAreComplete`: without overlap, a bundle extends what the owner counted and is closed (`BundleComplete`).
* `SessionsAreRecoverable`: without overlap and failed writes, a session whose processes ended, however often it was interrupted, has a bundle that verifies,
  a journal that `recover` accepts, or a partial last line (`Recoverable`).

The invariant says what memory guarantees about the file: `Durable`, a line being synced is in the journal and the
list the owner counts is a durable line; `Inherited`, without overlap the only running process has read a
journal whose last line extends the owner's list, which holds because a readable journal is one chain
(`Chained`) and a torn or forked one is refused; `Published`, between the link and the return of `finalize` the bundle is
the process's own list, and once it returned the directory entry is durable; `AllHonest`, every outcome anywhere was reported.
`RecoveryInv` adds that, without faults, the journal is one well-formed chain that ends in what its holder counts, unless a crash tore the
last line, and then nobody holds it (`JournalSound`).

**Stdio proxy** (`McpStdioProxyProofs`, second part), over the same journal. For version 1 (`ProxySpec`):
* `ProxyTypeCorrect`.
* `DispatchesAreCovered`: without overlap, what reached the child was durably authorized before, and no bundle denies it (`DispatchIsCovered`).
* `CompletionsWereAnswered`: a bundle says completed only of what the child answered and the adapter recorded, with overlapping recoveries too (`CompletedWasAnswered`).
* `SessionBundlesAgree`: after a close without faults access bundle and SDK operations tell the same (`BundlesAgree`).
* `InterruptsAreFinal`: in a failed session nothing completes any more (`InterruptIsFinal`, an action property).

`ProxyIInv` joins the journal's invariant with the proxy's side of it. Every receipt the owner's recorder holds *or is writing* matches what the
SDK recorder knows of its operation (`ReceiptSound`); one request is active, and it is the pending one while it waits (`OneActive`); an answer
in the pipe or in the buffer is one the child gave (`ChunksAnswer`), so whichever request takes it was answered under its id
(`OperationSound`). A published bundle extends the owner's list, and that list no longer grows, because `close` finalizes with nothing
active and nothing queued (`CloseSound`, `BundleSound`).

For the proxy in both versions, with its control calls, notifications, discoveries and session journal (`SessionSpec`):
* `CallsArePinned`: a version 2 call reaches the child only if, since its turn came, the child itself named the pinned tools (`SessionCallIsPinned`).
* `ClosesSucceed`: without overlap, `close` fails only after a failed write, an invocation that threw, a session that never opened, or with a full session journal (`CloseSucceeds`).
* `SessionDispatchesAreCovered`, `SessionCompletionsWereAnswered`, `SessionBundlesTellTheSame`, `SessionFailureIsFinal`: what version 1 keeps, version 2 keeps.

What an invocation does to recorders, adapter and verdicts is the same in both versions, whatever made its answer come. `InvocationInv` is what that takes; each
version shows that each of its steps is a `Move` of the invocations (`ProxyMoves`, `SessionMoves`), and `InvocationStep` is proved once. `SessionIInv` adds the session. `OneControl` is
its core: until the session fails there is at most one control message on its way, as a question or as an answer, and only while the proxy waits for it. So an
answer that lets a call through (`Pinned`) was given to the listing that very call waits for (`ControlSound`). That the other lines are the child's answers is
`LinesAnswer`. For `close`: an invocation that is done left no operation or authorization open (`Ended`), and without overlap and failed writes nobody else publishes, so the owner's `finalize` returns (`Sealing`).

**Authenticated gateway** (`AuthenticatedGatewayProofs`), for any number of callers, renewals and instants.
* `DispatchesAreTrusted` (`DispatchIsTrusted`), `IssuanceStaysLinear` (`IssuanceIsLinear`), `ChecksEndInTime` (`NeverExpiresInFlight`), and
  `ImplementsLedger`: the gateway implements `EvidenceLedger` too (no run checks this one).

As long as the client has not failed, the service has issued exactly what the client holds, plus one if its answer is under way, which is why a request id
is never used again (`ExchangeSound`); once it failed it never asks again. An attestation is younger than the window from the revocation on (`CallSound`), and an identity
that was handed out outlives the deadline of its check if the margin covers it (`Outlives`).

**Guarded run** (`GuardedRunProofs`), for any channels, chunks, signals and faults.
* `VerifiedRunsAreWhole` (`VerifiedRunIsWhole`), `ResolvedRunsVerify` (`ResolvedRunVerifies`).

The hard part is the order of the child's events. The invariant says that a frame that ends the run is the last frame ever built (`LogSound`); that the chunks of
a channel are recorded without a gap, up to the one being written (`ChunkSound`); and that such a frame is only built when
the pipes are drained, if it says how the child exited (`EndSound`).

**Runtime recorder** (`RuntimeRecorderProofs`), for any processes, receipts, crashes and mishaps.
* `PublishedIsComplete` (`CountedIsPublished`), `CrashesAreRecoverable` (`JournalIsRecoverable`), `CompositionsHold` (`CompositionHolds`).

The one process that holds the journal has every counted receipt in memory (`Holds`), and a journal that would be accepted is what it wrote: a line that joined
another one, or a number used twice, leaves a journal that is refused. `FileSound` says the same of what a crash leaves, for the next holder.

**HTTP proxy and journal** (`McpHttpProxyProofs`), for any overlapping requests, racing recoveries, faults and crashes.
* `ResponsesAreDurable`, without short writes (`ResponseIsDurable`); `UpstreamReportsAreTrue` (`UpstreamIsTrue`); `BundlesVerify`
  (`SealedVerifies`); `ClosedBundlesAgree` (`BundlesAgree`); `CloseFailsForClients` (`CloseSucceeds`); `ClosedCallsNothing` (`NoCallAfterClose`).

`Held` is about what was answered: it is in the memory of every process that could publish. `Truth` is about receipts: wherever one is, its request
is over and it was told what really happened to the tool. `Story` says that each outcome the SDK recorder has is in the journal or being written; `ToolSound` and
`ClosingSound` say how far calls and the close are; `CountSound` that each request that is over is in each of its counters once. Only `SealedVerifies` needs
to know the whole file: without a fault it is one chain but for a partial last line (`ChainSound`).

**Credentialless runtime and gateway recorder** (`CredentiallessRuntimeProofs`), for any overlapping requests, attempts, answers and faults.
* `RuntimeTypeCorrect`.
* `ResponsesAreRecorded` (`ResponseIsRecorded`) and `SealsHideNothing` (`SealHidesNothing`), whatever fails.
* `AdmittedRunsAreComplete` (`AdmittedIsComplete`) and `GoodRunsAreAdmitted` (`GoodRunIsAdmitted`).
* `ImplementsLedger`: the recorder behind the server implements `EvidenceLedger` (`GatewayLedgerSpec`; no run keeps it, TLC checked it once on the instance of `runtime`).
  Owed is the occurrence of an attempt that was handed out and has no terminal frame in the log, recorded one that has.

`AttemptSound` ties each attempt to its request and its frame to the answer it got; `OpenSound` is the inequality again: the attempts that are open, or lost their frame, are
at most the open count, so a gateway that lost one cannot be sealed. `ParentSound` and `ReceiptSound` bring this to `runtime.json`, which
is written after the last handler ended. `GoodRunIsAdmitted` is again the direction that needs equalities (`LogWhole`, `CountsWhole`, `RefusalsWhole`): each
attempt has both its frames, each is counted once, and only what was not let through is refused. It cannot do without the condition on the first
recorded call: when the identity check refused that one, the child is told so in order, every frame is sound, and the verifier still
refuses the run. A later call may be refused for its identity. That the first frame is a decision at all follows from `LogWhole`: an action comes after its decision.

**Only model-checked.**
* Liveness: `SessionEnds`, `CallsEnd`, `RunEnds`. What a step under fairness enables is out of the prover's reach.
* What the runs that expect a violation check is false, and has no theorem.

## Plan

The models are complete as far as this code has state worth modelling, and every safety property the runs check is proved. What could still be added:

* An abstract ledger of receipts that the stdio, HTTP and runtime journals all implement, with a crash as one of its steps.

## Not modelled, and why

* *Container and Kubernetes inspection and proofs* (`container-*.ts`, `kubernetes-enforcement.ts`, the proof scripts): they check static configuration, or
  start containers and probe them; nothing of theirs evolves. What makes an inspection acceptable to a composition is modelled (`ContainerEnforcement`).
* *Kubernetes identity exchange*: an HTTP handler over the Kubernetes API without state between requests; the gateway's model has a
  trust service that may answer in any of its ways.
* *AG-UI*: a verifier of event sequences and parsers of event streams, over their text. A model would be the program once more. (One thing reading it showed:
  the parser takes `\r\r\n` for one line end or two, depending on where a chunk ends.)
* *Proof packs, anchors, the network half of upload*: archives of verified bundles, one request each, no state.
* *Governance router, capabilities, logical actions, compatibility tables, doctor, compare, CLI*: tables and reports.
* *Cryptography, canonical JSON*: assumed. *The session journal's file*: nothing recovers it; its rows are counted.
* *The entries of the stdio and HTTP journals' directories* are durable from the start in the models, not in the code
  (at `mcp-stdio-evidence.ts:246` and `mcp-http-evidence.ts:267` the entry of `receipts.ndjson` is made after the directory was synced for
  `header.json`, and not synced before the bundle's is); the runtime journal's model has it volatile.
* *Clock skew*: `Skew` is 0 in the instances (`runtime`) and the gateway's one clock has none (`identity`).
