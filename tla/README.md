# krm-stream: TLA+ models, checks and proofs

krm-stream brings Kubernetes objects to a browser and keeps them current. A **gateway** (Go, `gateway/`)
turns a Kubernetes watch into a stream of snapshot cycles over SSE; a **client** (TypeScript,
`packages/krm-stream/`) applies such a stream, or a native Kubernetes watch, to a **store** that also holds
the user's unsaved edits. This directory models the parts of that system where an order of events nobody
wrote a test for decides whether it is correct.

`PROJECT.json` is the index: components, runs, the source lines behind every definition (`map`), the mutants
that show each property can fail, findings, hazards and theorems.

## Inventory

| Part | State it keeps | Operations | Talks to |
|---|---|---|---|
| **Shared scope** `shared.go` | cache of one upstream watch, subscribers with a pending snapshot and a bounded queue | subscribe, pump, fan-out, overflow, die, leave, Next, Stop | upstream `Watcher`, one reader per stream, SharedBackend (forget) |
| **Shared backend** `shared.go` | scopes, openings in flight, backoff, per scope key | Watch, settle, collect, abandon, forget | upstream `Backend`, shared scopes |
| **Stream loop** `stream.go` | per stream: cycles, quick ends, redaction revisions; per cycle: emitted versions, digests | Stream, cycle, emitError | Authorizer, Backend, Sink |
| **Reauthorization** `reauthorize.go` | the gate's mutex, one ticker goroutine per cycle | check, refuse, cancel, join | stream loop, Sink, Authorizer |
| Projection `project.go`, `projection_policy.go` | none | project, SelectProjection | stream loop, hosts |
| **SSE serving** `sse.go`, `event.go`, `handler.go` | a poisonable sink, sequence numbers, heartbeat goroutine | Emit, comment, Heartbeat, ServeStream, refuse | stream loop, timed check, HTTP |
| **Scope and patch validation** `scope.go`, `patch.go` | none | ScopeFromQuery, Validate, ValidateMergePatch | handler, hosts |
| **Kubernetes backend** `kube/backend.go` | which API versions refused a streaming list | Watch, Next, translate, classify | API server |
| **Access review** `kube/authz.go` | none | Authorize: a review per verb | API server |
| **Connection lifecycle** `lifecycle.ts` | status, retry budget, health timer, terminal and failure flags | run, publish, close, hooks | transport, host callbacks |
| **Native connector** `native.ts`, `http.ts` | the checkpoint to resume from | watchOnce, deliver | API server, lifecycle, store |
| **SSE transport** `sse.ts`, `connection.ts` | expected sequence number, decoder buffer | streamOnce | gateway, lifecycle, store |
| **Store** `store.ts`, `merge.ts`, `path.ts` | per object: server, draft, redactions, conflicts; per snapshot: seen uids | snapshot, upsert, remove, edits, save and reconciliation | a transport, the host UI |
| **Save hosts** `kube/examples/conditionalsave`, `comparison/save.go`, `comparison/native.go` | none | preflight GET, conditional PATCH, second look | API server, store |
| **Shared stream host** `kube/examples/sharedstream` | a session per request | session check, subject, fixed scope | handler, API server |

Bold parts are modelled. The hard behaviours are: a Go `select` between channels after a lock is released
(shared scope); several goroutines that may each be the last to let go of an upstream (shared backend); a
mutex around disclosure with a timer on the other side (reauthorization); host callbacks that close the
connection from within it, and a resume position that must match what was applied through every kind of
failure (lifecycle and native connector); server events that interleave with edits (store); three goroutines
that share one response, one of which may be blocked in a write (SSE serving); two requests that must be one
snapshot (Kubernetes backend); and a read, a write and another read of an object that others delete and
recreate meanwhile (save hosts).

What makes each part correct:

- shared scope: a subscriber sees a complete snapshot and then every change, or is told it did not;
- shared backend: one upstream per scope, never leaked, never hammered;
- stream loop: the consumer converges on the world, over a well-formed wire, without useless loops;
- reauthorization: nothing is disclosed past a pending or failed check, and a revoked caller is cut off;
- lifecycle and native connector: the checkpoint is what the store holds; close means silence, and an end;
- store: edits are never lost, and nothing else survives the server; conflicts are exact; withheld values
  are never written;
- SSE serving and transport: the client applies a prefix of what was written, learns the true end, and
  everybody leaves;
- admission: nothing is streamed to a request that one of the gates should have stopped;
- Kubernetes backend: the Watcher contract, by either way of opening; errors are terminal exactly when a
  retry cannot help;
- saving: an update lands on what its author saw, at most once, and the answer about it is true.

## Modules

| Module | Models | Composed with |
|---|---|---|
| `SharedScope` | one `sharedScope` with its subscribers and readers | a nondeterministic upstream |
| `SharedScopeProofs` | proofs about it | |
| `SharedBackend` | `SharedBackend` for one key, over incarnations of openings and scopes | a scope's subscriber count and end |
| `SharedBackendProofs` | proofs about it | |
| `StreamLoop` | `Stream`, `cycle`, `authorizedCycle` | the API server's objects, a Backend, a consumer that follows spec/v1.md §5 |
| `StreamLoopProofs` | proofs about it | |
| `NativeWatch` | `runConnection` over `watchOnce` | an API server with compaction, a store's membership |
| `NativeWatchProofs` | proofs about it | |
| `DraftMerge` | one resource of a store: merge and edits | a server that sends any projected object |
| `DraftMergeProofs` | proofs about it | |
| `WatchContract` | what `seams.go` asks of a Backend and its Watcher: the abstract specification | |
| `KubeBackend` | the `Backend` over an API server, for several streams; refines `WatchContract` | an API server with a history |
| `KubeBackendProofs` | proofs about it, the refinement of `WatchContract` among them | |
| `Admission` | what a request must get past: session, scope, allowlist, authorizer, projection | run by `EventStream` |
| `EventStream` | one HTTP response: handler, loop, heartbeat, timed check, sink, client | `Admission`; a lossy network, a client that may stall |
| `MCEventStream` | the hosts and the requests TLC tries it with | `EventStream` |
| `EventStreamProofs` | proofs about it and about `Admission` | |
| `PatchGuard` | `patch.go`, and RFC 7386 as the API server applies it | used by `SaveFlow` |
| `SaveFlow` | store, reconciling read, and three hosts that save | an object written, deleted and recreated by others |
| `SaveFlowProofs` | proofs about it and about `PatchGuard` | |

**SharedScope.** A step is one critical section of `sharedScope.mu` or `SharedBackend.mu`, or one channel
operation. `pump`, and `rd[c]` for each reader, are program counters: `Next` is `NextPending*` (under the
lock) and then `Select*` (after it), so everything the pump does between the two is explored. `leave` and
`die` are three steps each, as in the code. An object is the revision of its last change. `view` is what a
reader has been handed; `overtaken` records that a live event came ahead of its snapshot. The pump fans out a
deletion whether or not the cache holds the object; `Stray` bounds which upstream changes may be such a one.
`NeverOlder` is about states that are shown one over another: a deletion shows none, and an object that comes
back after it is handed to a reader anew (what a stream makes of that is `StreamLoop`'s `NoGhosts`).

**SharedBackend.** An incarnation is an opening and the scope it becomes. `share` counts
`sharedOpening.subs` not yet collected, `members` a scope's subscribers. Time is a counter that only
`Tick` advances. A caller whose context is done before it looks at the maps takes no step at all: `Watch`
returns its error and has touched nothing. Other keys act on this one only by the sweep in `recordFailureLocked` (`OtherKeySweeps`).
`lastEarly` and `lastFailed` are history: when an early end was last counted, its count being kept for a
period, and when the upstream last proved to be failing.

**StreamLoop.** `place` is where the loop is, `ticker` where the reauthorization goroutine is; `out` is an
event handed to `Emit`, which waits for the gate. An object has a resourceVersion, visible content and a
withheld value. The Backend snapshots the world when it opens and may replay older states; with
`Overtaking` it may also hand a live event over ahead of its snapshot, which is what `SharedScope` shows a
shared watch can do. The consumer applies the wire as the store does. That a cycle has lasted for
`minUsefulCycle` may become true while the loop reads or while it waits at the join (`Lasts`), where it is asked.

**NativeWatch.** JavaScript interleaves only at awaits and inside callbacks; a step is one await that comes
back or one callback, and every callback may return, close or throw (`Host`). `past[r]` is the collection at
resourceVersion r. Refusals fall into what the code tells apart: transient (408, 429, 5xx), expired (410, or
an error without a code), refused. `attempts`, `fresh` and `lost` are history: the connections since the last
healthy period, whether the health timer was armed by the connection that is live, and whether the server refused the position or sent what
could not be read, with no listed body since. `CheckpointIsHeld` uses the last, so that a 410 which kept the
checkpoint would show at the next resumption; `BudgetHolds` uses `fresh`, so that a health timer which outlived
its connection would show when it restores the budget of another. A bookmark may come without a
resourceVersion, and then drops the checkpoint. The last `publish`, too, calls a host that may throw or close.

**DraftMerge.** An object is a map of maps of scalars, with Secret data withheld. `typed` and `moved` are
history: what the user last wrote, and where the server has moved since.

**WatchContract and KubeBackend.** The contract's state is the API server's history, a phase, what the events
so far say (`told`) and the resourceVersion reached (`at`): a snapshot is some state no older than the call,
told completely before the boundary, and then every change of the scope once and in order. `KubeBackend` has a
program counter per stream (`asking`, `refused`, `listing`, `rewatching`, `open`), so that the server changes,
and the other streams read and write the memory, between any two requests. `told` and `at` are kept per stream
as history and are the refinement mapping with `Phase`; the streams are alike, so one of them (`Observed`) is
shown to implement the contract while the others run. The API server orders a LIST arbitrarily, filters by
selector, and answers a WATCH from what followed its resourceVersion; an unselected object writes too. Errors
are sets of facts (what the predicates of apierrors, net and x509 would say of them), so that `classify` and
`isSendInitialEventsRefused` are translated as the code has them and not as a table. `TerminalIsPermanent` says
of each fault, where a stream ends over it, whether the consumer is told to give up: the faults a retry cannot
cure, those it may, an event `translate` can make nothing of ("a bug in our wiring, not a condition to recover
from"), and those nothing classifies, which are terminal at the opening and a resynchronisation on an open watch.

**Admission and EventStream.** `Init` ranges over hosts (a scope policy and an authorizer) and requests.
`Admission` has each gate twice: as the code decides it (`Handler` with `ScopeFromQuery` and `Validate`,
`AuthorizerRefuses`, `SelectProjection`) and as a host that wrote its policy down expects it, gate after gate
(`Askable`, `Reviewable`, `Entitled`). The reference is written another way: bad values as what may not occur, the
fixed object as a record to compare with, and the allowlist as "an entry that serves the scope, and none before it
names the resource", where the code takes the first that does. `MCEventStream` has four hosts: the shared stream
host with its one fixed object, two allowlists (one of them with two entries for one resource, of which the first
is the stricter, and a resource whose scope was not set), and a host without a list; and the requests that differ
from one for the shared object in at most two parameters of the query, each for every session, subject and
projection. (`ScopePolicy` with both `Resources` and `AnyResource` is refused by `Validate` here; `Handler` panics
on it at construction.) After `Decide` only what is still to be asked is kept, with the reference's opinion of the
request. A cycle asks the authorizer (its own refusals, then a review per verb) and the projection policy, and may
find no client (`NoClient`); the timed check asks both verbs and the projection again. `granted` is history: what
has been asked and granted since the authorization, or the last timed check, began; a cycle that is opened after
`RESYNC_REQUIRED` was announced needs all of it anew.

`op[w]` is `SSESink.operation` of the loop and of the heartbeat: `enter` waits for the lock, `write` holds it.
`gate` is `authorizationSink.mu`. A write that fails may leave nothing, part of a frame (`Torn`) or, when only the
flush or the clearing of the deadline failed, all of it. The intermediary may lose any number of frames. `fault` is
history: the network, the client or the session interfered. Events are states, retryable errors and terminal
ones; which states is `StreamLoop`'s subject.

**PatchGuard and SaveFlow.** A patch is a function from leaf paths to a value, null or `{}`; a document maps
the leaves that matter: an editable one, kubectl's last-applied annotation, a status. `host` is the route
(conditional save, the comparison host's save endpoint, its native proxy) and the projection the editor is
shown; the save endpoint's krm-full/v1 variant differs from the first only in the kind and is left out. The
draft is not kept: `captureSave` saves any value the user could have put there, and what else a caller could
send. The store's `captureSave` names a UID and a version or throws, so the one unconditional request is a patch
that takes `metadata` away; the native proxy refuses it for its missing precondition before it looks at the rest. `Resource.revision` is a counter that never repeats, so a captured reconciliation only records whether
it is still the resource's (`fresh`). An editor captures the next save when the last was answered
(`docs/saving.md`), and a request whose answer was lost may be sent again. A refused request leaves nothing
behind and frees its slot. The API server checks the version before the UID, keeps status out of a patch of
the object, and refuses a value its schema does not have there.

## Runs

| Run | Question | Bounds |
|---|---|---|
| `scope_safety` | is anything lost, partial, unexplained, reordered or unowned; does everyone wake and learn of the end? | 2 subscribers, 1 uid, depth 2, 3 changes, the third of which may be a stray deletion |
| `scope_overtake` | *violation*: snapshot before live | 1 subscriber |
| `backend_sharing` | is the upstream shared, owned and released? | 2 callers, 2 openings |
| `backend_backoff` | is a failing upstream left alone, and not for too long? | 1 caller, 3 openings, 4 ticks, a hint beyond the cap; early ends carry none (every hint: `LeftAlone`) |
| `stream_cycles` | does the consumer converge, on a well-formed wire, behind the gate? | 1 uid, 2 contents, 3 changes, 3 cycles, timed checks |
| `stream_ghost` | *violation*: no ghosts, over a backend that overtakes | 1 uid, 2 changes, 1 cycle |
| `native_resume` | is the checkpoint right, and does a closed stream end? | 2 uids, 4 versions, 1 retry |
| `store_edits` | do drafts and conflicts follow the edits? | 2 maps, one withheld, 2 fields, 2 values |
| `store_removed` | *violation*: a removed map stays removed | 2 maps, 2 fields, 1 value |
| `kube_watch` | does the backend keep the contract, its memory and its error codes? | 2 streams, 2 selected uids and 1 other, 2 writes, 13 faults and a garbled event |
| `request` | is a request admitted rightly, and does its response end rightly? | 4 hosts, requests that differ in up to 2 parameters, 2 state events, 1 revocation |
| `saves` | does a save land where it should, and is the answer true? | 3 hosts, 2 requests, 2 incarnations, 3 writes, 1 resync, 1 read |

The bounds are the least that make the cases happen: a queue of two can be partly read, replay an older event
and overflow; two subscribers are a warm and a cold joiner, or a last leaver and a racing one; three changes
write, delete and recreate; three openings are a failing one, its retry and a late end; three cycles are a
quick end, a recovery and a second quick end; four versions are a listed state, a change, a compaction and
another change; two values make base, ours and theirs pairwise different together with absence; two streams
are one that learns of a refusal and one that read the memory before; two writes fall before and after a LIST;
two parameters are one gate that must stop a request and one that must not have; one revocation is a verb or a
view withdrawn between any two questions; two state events are one lost and one that must not be applied; two save requests are one and its resend.
`scope_safety` and `stream_cycles` have one object: the loop's maps, and the properties about them, are per
uid, and what the scope's invariants say across objects is proved for any number of them. Deadlock checking is
off: each of these systems may rightly stop (everyone has left, the stream has ended, the bound is reached).
Symmetry is used for `saves` only, over its two interchangeable requests, and no liveness is checked there.

**Fairness.** Only steps the code takes on its own are fair: goroutines that can run do, a deferred `Stop`
runs, `die` finishes, a ticker fires, a check has a timeout, the event loop runs what is ready. An upstream
whose context is cancelled returns (the Backend contract). Nothing obliges an upstream to send, a consumer
to quit, or a host to close. `Settles` in particular must hold on a server that never says another word. In
`EventStream` acquiring the sink's lock and the gate is strongly fair, because a `sync.Mutex` does not starve
a waiter, and a blocked write ends at the deadline `WriteTimeout` sets; nobody promises that the client reads.

Every property of a passing run has a mutant in `PROJECT.json`, a definition changed the way a plausible bug
would change the code (a dropped wake-up, a first waiter attached and not the others, a checkpoint set before
the snapshot is applied, the base not shifted), under which TLC refutes it.

## Proofs

A `*Proofs` module extends the module it is about. It states an inductive invariant `IInv`, proves that `Init`
establishes it and that every action keeps it, and derives each property from it; action properties are proved
from `IInv` and the step. Every `IInv` was first checked by TLC under the constants of the module's run. The
theorems hold for all values of the constants that the modules' `ASSUME`s allow.

| Theorem | What it establishes | The part of the invariant that carries it |
|---|---|---|
| `SharedScopeProofs`: `NothingIsLost`, `UpstreamIsOwned`, `EndsAreExplained`, `SnapshotsAreComplete`, `TypeCorrect` | the scope's safety, for any subscribers, uids, queue depth and number of changes | `Control` |
| `SharedScopeProofs`: `NeverGoesBack` | `NeverOlder` | `Ascending` |
| `SharedBackendProofs`: `SharesHeld`, `OneUpstreamInUse`, `LeftAlone` | every safety property of `backend_sharing` and `backend_backoff`, for any callers, openings, delays and hints | `Counted`, `Released`, `Backoffs` |
| `StreamLoopProofs`: `Grammatical`, `Bounded`, `Gatekeeping`, `RedactionsTell` | `WireGrammar`, `NoTightLoop`, `NothingPastTheGate`, `RedactionTellsChange` | `Grammar`, `Counted`, `Gated`, `Redaction` |
| `StreamLoopProofs`: `NoGhostsInOrder` | `NoGhosts`, over a Backend that does not overtake | `InStep`, `Queued` |
| `NativeWatchProofs`: `CheckpointHeld`, `LiveComplete`, `BudgetKept`, `OnlyGonePruned`, `NothingAfter` | every safety property of `native_resume` | `History`, `Snapshot`, `Complete`, `Budget` |
| `DraftMergeProofs`: `EditsSurvive`, `ConflictsExact`, `WithheldStaysOut`, `TypeCorrect` | every safety property of `store_edits` | `EditsDiffer` |
| `KubeBackendProofs`: `EveryStreamImplementsContract`, `ContractImplemented` | every stream refines `WatchContract` | `StreamOK`, `History` |
| `KubeBackendProofs`: `MemoryEarned`, `TerminalPermanent` | `MemoryIsEarned`, `TerminalIsPermanent` | `Memory` |
| `EventStreamProofs`: `PrefixApplied`, `NothingAfterTorn`, `EndIsTrue`, `GatesHold` | every safety property of `request` | `Numbered`, `Delivered`, `Truthful`, `Vetted`, `Authorized` |
| `EventStreamProofs`: `HandlerIsExact`, `RefusalsAreExact` | every gate decides what the reference says of it, for any policy and request | (facts about `Admission`) |
| `SaveFlowProofs`: `AnswersTrue`, `Drained`, `LandsRightly`, `NeverBack` | every property of `saves` | `Saves`, `Quiet`, `LastIsCurrent`, `Reading` |

**SharedScope.** `NothingLost` is not inductive alone. `Control` says who can be in `subs` and in which state,
that a subscriber awaiting its snapshot has been handed nothing, that only a synced cache is handed out, that an
error is the last thing a queue is sent, that a leaver in its tail has marked the scope dead, and that a
cancelled pump belongs to a dead scope. The core of the argument is four lemmas about `CatchesUp` (the last
queued event about an object, or the base under the queue, is the cache's state): unchanged queues keep it, a
fresh snapshot establishes it, appending a change keeps it, and so does reading the head once pending is empty.
The exception for overtaken readers is needed exactly in the last one. `Ascending`, for `NeverOlder`: revisions
grow along a queue and beyond everything its reader holds or is about to be handed, and as long as nothing was
overtaken a reader holds nothing of an object that is still in its snapshot.

**SharedBackend.** `Counted` sets each counter against a number of callers: an unsettled opening's `waiters`
against those who wait, the uncollected subscriptions against those who wait or are about to release, and a
scope's members against these and its readers. `Joins` and `MovesOn` say which counts a caller's step changes, and by one, and
`settle` turns one count into another at once. `Placed` says what a caller's place tells of its incarnation: one
who is about to withdraw has left no waiter behind, so the opening stays without one and nobody joins it again.
`Released` names who cancels an upstream that is in neither map. For the backoff the point is what is registered
when: while a failing upstream is to be left alone there is no opening and no scope (`Backoffs`), so an end that
comes then belongs to an obsolete incarnation and is not accounted for; and a count of early ends that is to
last a period is under an entry that no sweep takes before.

**StreamLoop.** The grammar follows from where the loop is: each place allows certain phases of the consumer,
and the boundary is emitted once because the mark is gone when it was. `NoTightLoop` counts: a useless cycle has
been counted as a quick end, or will be at its join. Redactions: what a consumer holds has a revision the stream
remembers and has not gone beyond, with the withheld value it stands for; a reset does not forget it.
`NoGhostsInOrder` needs more, and an assumption. For each object the last thing that happened to it is in the
queue, or in what is left of the snapshot, or has been handled (`Current`); a queued event is newer than all of
what was handled, or it is a stale replay at the head (`Queued`); and the digests say what the consumer holds,
once it has what is being emitted (`Showing`). `~Overtaking` is what makes the second hold: `stream_ghost` shows
the theorem false without it, and `scope_overtake` that the shared watch does not provide it.

**NativeWatch.** The history is the anchor: a version in the past is one of its own resourceVersion or of an
earlier one. While a snapshot is delivered, what was seen is held as listed and the rest is still to do
(`Snapshot`), so that the store is complete when the WATCH is accepted; an abort is the only way out of that. A
checkpoint exists only over a complete store, and every connection but the first was paid for by a retry. A
health timer runs only for a connection that has been live, for whatever ends a connection clears it.

**DraftMerge.** The strengthening says that a remembered edit differs from the server (else the merge would take
it for untouched, which is the heart of the base shift), that only edited leaves have moved, and that a
projected object carries nothing of a Secret's data. Two lemmas do the work: `UpsertKeeps`, for any projected
object and redactions, and `EditKeeps`, for any edit of a map that writes editable leaves.

**KubeBackend.** `Pending` says that the boundary is at a place of a queue and before it stand exactly the
objects of the scope at some resourceVersion that were not told yet; `Live`, that behind it stands every change
of the scope after that, and no other, in order and once. A stream is before the boundary in its queue (LIST),
before it in its feed (streaming list), or behind it (`Opened`), and each case maps to a state of the contract.
`Stretches` (a stretch of history with no change in scope leaves the scope alone) is what lets a filtered watch
skip resourceVersions. The run refines the contract for the one stream it observes; the theorem is for every
stream, for the streams are alike and each is disturbed by the others only through the memory.

**EventStream.** A frame stands on the response where its number says (`Numbered`), because a number is taken
under the sink's lock and a writer that failed poisons the sink; `Delivered` follows the frames through the
network, and `Undisturbed` says that nothing is missing if nothing interfered. `Truthful`: until the loop
leaves, only an interference ends the request or fails the sink. The proof splits by the writer and by the part
of the handler that moves, each part with the variables it can disturb. `HandlerIsExact` is proved for any
allowlist: the first entry that matches is an index, not a recursion. `RefusalsAreExact` says that of an askable
request the authorizer refuses by itself exactly those the cluster must not be asked about, and the projection
policy exactly the views the host does not have. `GatesHold` carries both through `Decide` (`Vetted`) and adds what
was granted since when (`Authorized`); it speaks of any hosts and requests of the declared types.

**SaveFlow and PatchGuard.** What a user captured was on display, and what the stream showed of an incarnation
at a version is what it was (`Known`), since a version, once left, never returns. So a save that passes the API
server's version check meets exactly what its author saw; one that was refused or landed cannot be made again
(`Past`), which is why an answer stays true whoever writes later. `MachineryUntouched`, about `PatchGuard`:
applying a patch that was validated leaves a machinery path as it was, or puts `{}` there, and the API server's
schema refuses the `{}`. For the store: the last event on the wire about an incarnation tells the present
(`LastIsCurrent`); an incarnation the wire is silent about is as the store has it (`Quiet`); and a read that may
still be merged is no older than what the store holds (`Reading`).

**Assumptions.** They are the ones the modules name. A queue has room for an event; `SecretKeys \subseteq Keys`;
markers are no values; `Contents` and `Streams` are not empty; `Uids` of `KubeBackend` is finite and not empty;
the faults do not have the names of the four ends that no request brought; numbers are natural, with at least one
resourceVersion or incarnation where the code starts at one. `EventStream` assumes a WriteTimeout (see *Not
modelled*), and of its policies and requests only that they have the declared types (`AdmissionAssumption`). `~Overtaking` is a hypothesis of one
theorem, not of a module.

**Only model-checked.** Liveness (`SnapshotReachesReader`, `EveryoneIsTold`, `RevokedIsCutOff`, `Settles`,
`UpstreamsReleased`, `EverybodyLeaves`), because fairness is beyond the prover; the runs that expect a
violation. Every safety and action property of a passing run is a theorem. The model of `SaveFlow` writes one-leaf patches and documents as functions over `Leaves` rather
than with `:>` and `@@`, which the provers cannot use.

## Findings

1. `scope_overtake`: `sharedWatcher.Next` can hand a live event over ahead of the snapshot
   (`gateway/shared.go:631-643`).
2. `stream_ghost`: given that, the stream loop resurrects a deleted object: `WatchDeleted` forgets
   `emitted[uid]`, so the snapshot's older state is not recognised as stale (`gateway/stream.go:344`).
3. `store_removed`: a map removed with `removeKey` is back, empty, after the next watch event
   (`packages/krm-stream/src/store.ts:261-267`, `merge.ts:218-229`).

Noted while modelling, without a run of their own:

- a subscriber with a full, open queue at `die` is ended by `offer` with RESYNC_REQUIRED, and `end` keeps the
  first reason, so the upstream's typed error does not reach it (`gateway/shared.go:580-588`; `NoSilentEnd`
  accepts either reason);
- a last `leave` racing `die` forgets the scope first, so that an UPSTREAM_UNAVAILABLE the pump met is not
  recorded for the backoff (`FailingUpstreamLeftAlone` is about recorded failures of registered scopes);
- an early end over an entry that is older than a period counts without renewing `until`, so that the sweep
  another key's failure runs forgets it at once; and a second early end that meets a quiet entry sweeps its own
  count (`gateway/shared.go:257-262`, `330-342`). Either way a later early end is tolerated again, although "a
  second in a row backs off" (`shared.go:30`, with `:334` on the count being kept for a period). A model with
  `MaxInc = 4`, `MaxTime = 5` and no hints reaches it; `FailingUpstreamLeftAlone` is about early ends whose
  count is kept (`Kept`);
- `validatePatchObject` passes `{}` over as a no-op (`gateway/patch.go:109`). Under RFC 7386 it replaces a
  scalar or creates an empty object, so `{}` at a protected path is not refused here; in `SaveFlow` the API
  server's schema refuses it, and `NoLostUpdate` holds because of that;
- `remapListConflicts` indexes surviving keys while the merge indexes the output, which differ when an entry
  is deleted locally (`merge.ts:130-143`).

## Not modelled

Byte-level work (SSE and JSON decoding, marshalling, digests), observers and diagnostics, URL building, schema
lookups, the comparison host's counters, workload and forced disconnects, command-line tools and the
conformance corpus: they keep no state the system's correctness rests on, or only exercise it. Associative
lists and maps nested deeper than two levels in drafts: their merge is recursive on data and their conflicts
are addressed by index. OrderingLenient is left out: resourceVersions are orderable in the models. Delays are
nondeterministic: neither jitter nor the length of a backoff in the client is modelled. HTTP serving without a
WriteTimeout (and so without timed checks) is left out: nothing then bounds a write.

## Plan

1. `SharedScope` against `WatchContract`: a shared watch keeps it unless its reader was overtaken. It needs the
   history of the cache in the model; `Control` and `Ascending` are most of the invariant.
2. **KeyedList** and an extension of `DraftMerge`: associative lists, conflict remapping, `revert` by
   position; nested maps.
