---------------------------- MODULE NativeWatch ----------------------------
(***************************************************************************)
(* A browser's connectNativeWatch (packages/krm-stream/src/native.ts) under *)
(* the connection lifecycle of lifecycle.ts, between an API server and the  *)
(* store that consumes its events.                                          *)
(*                                                                          *)
(* JavaScript runs one task at a time: what happens between two awaits is   *)
(* interrupted by nobody, but every callback into the host (the consumer, a *)
(* subscriber, onError) may close the stream or throw.  A step is one such  *)
(* callback, or one await that comes back.                                  *)
(*                                                                          *)
(* past[r] is the collection as it was at resourceVersion r: each uid's     *)
(* current resourceVersion, or Absent.                                      *)
(***************************************************************************)
EXTENDS Naturals

CONSTANTS
    Uids,        \* object uids
    MaxRetries,  \* ResourceStreamOptions.maxRetries
    MaxRev       \* bound: the last resourceVersion

ASSUME MaxRetriesAssumption == MaxRetries \in Nat
ASSUME MaxRevAssumption == MaxRev \in Nat \ {0}

VARIABLES
    rev,         \* API server: its resourceVersion
    past,        \* API server: the collection at every resourceVersion so far
    floor,       \* API server: the oldest resourceVersion it can watch from
    place,       \* where run and watchOnce are
    status,      \* ConnectionState.status
    retries,     \* ConnectionState.retries
    terminal,    \* runConnection's terminal
    aborted,     \* its controller's signal
    failed,      \* its failure: the host's own code threw
    timer,       \* its healthTimer is running
    checkpoint,  \* Position.checkpoint; NoCheckpoint when the next connection must LIST
    resumed,     \* watchOnce's resumeFrom is set
    pos,         \* how far the LIST, and then the WATCH, has come
    todo,        \* members of the collection not yet delivered
    held,        \* store: the objects it holds
    seen,        \* store: #seen
    open,        \* store: a snapshot is open (#seen is not null)
    attempts,    \* history: connections since the last sustained healthy period
    fresh,       \* history: the running timer is this connection's
    lost         \* history: the position was refused or mistrusted, and no LIST came since

serverVars == <<rev, past, floor>>
lifeVars   == <<status, retries, terminal, aborted, failed, timer>>
watchVars  == <<checkpoint, resumed, pos, todo>>
storeVars  == <<held, seen, open>>
historyVars == <<attempts, fresh, lost>>
vars == <<serverVars, place, lifeVars, watchVars, storeVars, historyVars>>

Absent == 0
NoCheckpoint == 0
Revs == 0 .. MaxRev
Empty == [u \in Uids |-> Absent]

\* What a host callback does: return, close the stream, throw.
Host == {"returns", "closes", "throws"}

\* A refused response whose body is being read for its message: the refusal passes, or
\* is final.
Refusing == {"excused", "rejected"}
\* Where run and watchOnce are suspended at an await.
Awaiting == Refusing \cup {"top", "listing", "body", "opening", "watching", "returned",
                           "waiting"}
Places == Awaiting \cup {"resetting", "adding", "accepted", "leaving", "done"}

TypeOK ==
    /\ rev \in Revs \ {0} /\ floor \in Revs /\ past \in [Revs -> [Uids -> Revs]]
    /\ place \in Places
    /\ status \in {"connecting", "syncing", "live", "retrying", "closed", "terminal",
                   "exhausted"}
    /\ retries \in 0 .. MaxRetries
    /\ terminal \in BOOLEAN /\ aborted \in BOOLEAN /\ failed \in BOOLEAN
    /\ timer \in BOOLEAN
    /\ checkpoint \in Revs /\ pos \in Revs /\ resumed \in BOOLEAN
    /\ todo \in [Uids -> Revs]
    /\ held \in [Uids -> Revs] /\ seen \in SUBSET Uids /\ open \in BOOLEAN
    /\ attempts \in 0 .. MaxRetries + 2 /\ fresh \in BOOLEAN /\ lost \in BOOLEAN

Init ==
    /\ rev = 1 /\ floor = 0 /\ past = [r \in Revs |-> Empty]
    /\ place = "top" /\ status = "connecting" /\ retries = 0
    /\ terminal = FALSE /\ aborted = FALSE /\ failed = FALSE /\ timer = FALSE
    /\ checkpoint = NoCheckpoint /\ resumed = FALSE /\ pos = 0 /\ todo = Empty
    /\ held = Empty /\ seen = {} /\ open = FALSE
    /\ attempts = 0 /\ fresh = FALSE /\ lost = FALSE

-----------------------------------------------------------------------------
\* The API server.

Advance(now) ==
    /\ rev < MaxRev
    /\ rev' = rev + 1
    /\ past' = [r \in Revs |-> IF r > rev THEN now ELSE past[r]]
    /\ UNCHANGED <<floor, place, lifeVars, watchVars, storeVars, historyVars>>

Write(u) == Advance([past[rev] EXCEPT ![u] = rev + 1])
Remove(u) == past[rev][u] # Absent /\ Advance([past[rev] EXCEPT ![u] = Absent])
\* Something outside the collection changes.
Elsewhere == Advance(past[rev])

\* History older than r is compacted.
Compact(r) ==
    /\ r > floor /\ r <= rev
    /\ floor' = r
    /\ UNCHANGED <<rev, past, place, lifeVars, watchVars, storeVars, historyVars>>

\* r is where the next change after pos is, or a later point with none between.
Quiet(r) == \A q \in Revs : pos < q /\ q <= r => past[q] = past[pos]
ChangesAt(r) == pos < r /\ r <= rev /\ Quiet(r - 1) /\ past[r] # past[pos]

-----------------------------------------------------------------------------
\* lifecycle.ts: what its closures do.

\* call: a callback that throws fails the stream, one that closes aborts it.
Called(h) ==
    /\ aborted' = (aborted \/ h # "returns")
    /\ failed' = (failed \/ h = "throws")

\* publish, whose subscribers are called; close and fail clear the timer.
Publish(s, h, t) ==
    /\ status' = s
    /\ Called(h)
    /\ timer' = (t /\ h = "returns")

\* error: a terminal one is remembered.
Report(isTerminal, h) ==
    /\ terminal' = (terminal \/ isTerminal)
    /\ Called(h)
    /\ timer' = (timer /\ ~isTerminal /\ h = "returns")
    /\ UNCHANGED <<status, retries>>

Silent == UNCHANGED lifeVars

\* The loop's top: connecting is published, and watchOnce begins with a LIST or,
\* with a checkpoint, the WATCH from it.
Connect(h) ==
    /\ place = "top" /\ ~aborted
    /\ Publish("connecting", h, timer)
    /\ place' = IF h # "returns" THEN "leaving"
                ELSE IF checkpoint = NoCheckpoint THEN "listing" ELSE "opening"
    /\ resumed' = (checkpoint # NoCheckpoint)
    /\ pos' = checkpoint
    /\ attempts' = IF h # "returns" \/ attempts > MaxRetries + 1 THEN attempts
                   ELSE attempts + 1
    /\ fresh' = FALSE
    /\ UNCHANGED <<serverVars, retries, terminal, checkpoint, todo, storeVars, lost>>

\* The loop's condition fails.
Stops ==
    /\ place = "top" /\ aborted
    /\ place' = "leaving"
    /\ Silent
    /\ UNCHANGED <<serverVars, watchVars, storeVars, historyVars>>

\* run, once the transport has resolved: stop, or wait and come back.
StopsForGood == terminal

\* The retry budget is spent.
BudgetSpent == retries >= MaxRetries

Ends ==
    /\ place = "returned"
    /\ aborted \/ StopsForGood \/ BudgetSpent
    /\ place' = "leaving" /\ timer' = FALSE
    /\ UNCHANGED <<serverVars, status, retries, terminal, aborted, failed, watchVars,
                   storeVars, historyVars>>

\* clearHealthTimer: a timer that outlived its connection would speak for the next.
TimerRunsOn == timer
TimerCleared == FALSE

Retry(h) ==
    /\ place = "returned"
    /\ ~aborted /\ ~StopsForGood /\ ~BudgetSpent
    /\ place' = "waiting" /\ retries' = retries + 1
    /\ Publish("retrying", h, TimerCleared)
    /\ UNCHANGED <<serverVars, terminal, watchVars, storeVars, historyVars>>

\* The backoff elapses, or an abort cuts it short.
Waited ==
    /\ place = "waiting"
    /\ place' = "top"
    /\ Silent
    /\ UNCHANGED <<serverVars, watchVars, storeVars, historyVars>>

\* The final state is published and the handle's closed promise settles.
Finish(h) ==
    /\ place = "leaving"
    /\ place' = "done"
    /\ Publish(IF aborted THEN "closed" ELSE IF StopsForGood THEN "terminal" ELSE "exhausted",
               h, FALSE)
    /\ UNCHANGED <<serverVars, retries, terminal, watchVars, storeVars, historyVars>>

\* synced's timer: a continuous live period restores the retry budget.
HealthyFires(h) ==
    /\ timer /\ place \in Awaiting
    /\ \/ /\ ~aborted /\ status = "live"
          /\ retries' = 0
          /\ Publish("live", h, FALSE)
          /\ attempts' = IF fresh THEN 1 ELSE attempts
       \/ /\ aborted \/ status # "live"
          /\ timer' = FALSE
          /\ UNCHANGED <<status, retries, aborted, failed, attempts>>
    /\ UNCHANGED <<serverVars, place, terminal, watchVars, storeVars, fresh, lost>>

\* The host calls close(), or aborts its signal, while the stream awaits.
Close ==
    /\ place \in Awaiting /\ ~aborted
    /\ aborted' = TRUE /\ timer' = FALSE
    /\ UNCHANGED <<serverVars, place, status, retries, terminal, failed, watchVars,
                   storeVars, historyVars>>

-----------------------------------------------------------------------------
\* native.ts, watchOnce: the connection ends.

\* The abort settles whatever the connection awaits: nothing is reported.
AbortableButReader == Refusing \cup {"listing", "body", "opening"}
Abortable == Refusing \cup {"listing", "body", "opening", "watching"}

Aborted ==
    /\ aborted /\ place \in Abortable
    /\ place' = "returned"
    /\ Silent
    /\ UNCHANGED <<serverVars, watchVars, storeVars, historyVars>>

\* EOF, or the network fails: the position stands.
Drops ==
    /\ ~aborted /\ place \in {"listing", "body", "opening", "watching"}
    /\ place' = "returned"
    /\ Silent
    /\ UNCHANGED <<serverVars, watchVars, storeVars, historyVars>>

\* What a refused response or an ERROR event says: a transient condition (408, 429,
\* 5xx), expiry (410) or an error without a code, or a refusal.
Refusals == {"transient", "expired", "refused"}
KeepsCheckpoint(kind) == kind = "transient"
CheckpointAfter(kind) == IF KeepsCheckpoint(kind) THEN checkpoint ELSE NoCheckpoint

\* refused: the position is dropped at once, the error reported once the body is read
\* or its time is up.
Refused(kind) ==
    /\ ~aborted /\ place \in {"listing", "opening"}
    /\ place' = IF kind = "refused" THEN "rejected" ELSE "excused"
    /\ checkpoint' = CheckpointAfter(kind) /\ lost' = (lost \/ kind # "transient")
    /\ Silent
    /\ UNCHANGED <<serverVars, resumed, pos, todo, storeVars, attempts, fresh>>

Explained(h) ==
    /\ ~aborted /\ place \in Refusing
    /\ place' = "returned"
    /\ Report(place = "rejected", h)
    /\ UNCHANGED <<serverVars, watchVars, storeVars, historyVars>>

\* An ERROR event on the open watch.
ErrorFrame(kind, h) ==
    /\ ~aborted /\ place = "watching"
    /\ place' = "returned"
    /\ checkpoint' = CheckpointAfter(kind) /\ lost' = (lost \/ kind # "transient")
    /\ Report(kind = "refused", h)
    /\ UNCHANGED <<serverVars, resumed, pos, todo, storeVars, attempts, fresh>>

\* The watch ends inside a frame: reported, and the position stands.
Truncated(h) ==
    /\ ~aborted /\ place = "watching"
    /\ place' = "returned"
    /\ Report(FALSE, h)
    /\ UNCHANGED <<serverVars, watchVars, storeVars, historyVars>>

\* malformed: what was delivered cannot be trusted, so the position is lost.
Mistrusted(h) ==
    /\ place' = "returned"
    /\ checkpoint' = NoCheckpoint /\ lost' = TRUE
    /\ Report(FALSE, h)
    /\ UNCHANGED <<serverVars, resumed, pos, todo, storeVars, attempts, fresh>>

\* readCollection: not a collection, or an item without identity or type, or a uid twice.
MalformedCollection(h) == ~aborted /\ place = "body" /\ Mistrusted(h)
\* The decoder or deliver: not a frame, or an object without identity or type.
MalformedFrame(h) == ~aborted /\ place = "watching" /\ Mistrusted(h)

-----------------------------------------------------------------------------
\* watchOnce: LIST, then WATCH.

\* hooks.opened.
OpenedLive == "live"
Opened == "syncing"

\* The server answers the LIST with the collection as it is now.
Listed(h) ==
    /\ ~aborted /\ place = "listing"
    /\ place' = "body" /\ pos' = rev
    /\ Publish(Opened, h, timer)
    /\ UNCHANGED <<serverVars, retries, terminal, checkpoint, resumed, todo, storeVars,
                   historyVars>>

\* readCollection on one page of it: a terminal error, never a snapshot.
PageAccepted(h) ==
    /\ ~aborted /\ place = "body"
    /\ place' = "resetting" /\ todo' = Empty
    /\ Publish("syncing", h, FALSE)
    /\ UNCHANGED <<serverVars, retries, terminal, checkpoint, resumed, pos, storeVars,
                   historyVars>>
PageArrives(h) ==
    /\ ~aborted /\ place = "body"
    /\ place' = "returned"
    /\ Report(TRUE, h)
    /\ UNCHANGED <<serverVars, watchVars, storeVars, historyVars>>

\* The checkpoint while a listed snapshot is being applied.
CheckpointAtOnce == pos
WhileListing == checkpoint

\* The body is complete: hooks.reset, before anything is delivered.
BodyArrives(h) ==
    /\ ~aborted /\ place = "body"
    /\ place' = "resetting" /\ todo' = past[pos]
    /\ checkpoint' = WhileListing /\ lost' = FALSE
    /\ Publish("syncing", h, FALSE)
    /\ UNCHANGED <<serverVars, retries, terminal, resumed, pos, storeVars, attempts, fresh>>

\* Nothing is delivered after a close.
AfterClose == TRUE
MayDeliver == ~aborted

\* A synchronous check of the signal finds it aborted: the connection returns.
Cut ==
    /\ aborted /\ place \in {"resetting", "adding"}
    /\ place' = "returned"
    /\ Silent
    /\ UNCHANGED <<serverVars, watchVars, storeVars, historyVars>>

\* consume, and what the host's callback does to the stream.
Consumed(h) ==
    /\ Called(h)
    /\ timer' = (timer /\ h = "returns")
    /\ UNCHANGED <<status, retries, terminal>>

\* consume(reset): the store's beginSnapshot.
DeliverReset(h) ==
    /\ MayDeliver /\ place = "resetting"
    /\ place' = "adding"
    /\ Consumed(h)
    /\ seen' = {} /\ open' = TRUE
    /\ UNCHANGED <<serverVars, watchVars, held, historyVars>>

DeliverAdded(u, h) ==
    /\ MayDeliver /\ place = "adding" /\ todo[u] # Absent
    /\ Consumed(h)
    /\ held' = [held EXCEPT ![u] = todo[u]] /\ seen' = seen \cup {u}
    /\ todo' = [todo EXCEPT ![u] = Absent]
    /\ UNCHANGED <<serverVars, place, checkpoint, resumed, pos, open, historyVars>>

\* Every member is delivered: the WATCH is requested from the collection's version.
RequestWatch ==
    /\ ~aborted /\ place = "adding" /\ todo = Empty
    /\ place' = "opening"
    /\ Silent
    /\ UNCHANGED <<serverVars, watchVars, storeVars, historyVars>>

\* The WATCH from pos is accepted.  After a LIST: consume(synced), the store's
\* endSnapshot, and the checkpoint begins.
WatchAccepted(h) ==
    /\ ~aborted /\ place = "opening" /\ ~resumed /\ pos >= floor
    /\ place' = IF h = "returns" THEN "accepted" ELSE "returned"
    /\ Consumed(h)
    /\ held' = [u \in Uids |-> IF u \in seen THEN held[u] ELSE Absent]
    /\ seen' = {} /\ open' = FALSE
    /\ checkpoint' = IF h = "returns" THEN pos ELSE checkpoint
    /\ UNCHANGED <<serverVars, resumed, pos, todo, historyVars>>

WatchResumed ==
    /\ ~aborted /\ place = "opening" /\ resumed /\ pos >= floor
    /\ place' = "accepted"
    /\ Silent
    /\ UNCHANGED <<serverVars, watchVars, storeVars, historyVars>>

\* hooks.synced: live, and the health timer starts.  The budget is not restored yet.
GoLive(h) ==
    /\ place = "accepted"
    /\ place' = "watching"
    /\ Publish("live", h, TRUE)
    /\ fresh' = ~timer
    /\ UNCHANGED <<serverVars, retries, terminal, watchVars, storeVars, attempts, lost>>

\* advance: the checkpoint follows what was applied, unless the stream is closing;
\* an object without a resourceVersion leaves none.
AdvanceTo(r, h, versioned) ==
    checkpoint' = IF h # "returns" THEN checkpoint
                  ELSE IF versioned THEN r ELSE NoCheckpoint

\* An ADDED, MODIFIED or DELETED frame: the next change of the collection.
Frame(r, h, versioned) ==
    /\ ~aborted /\ place = "watching" /\ ChangesAt(r)
    /\ pos' = r
    /\ held' = [u \in Uids |-> IF past[r][u] # past[r - 1][u] THEN past[r][u] ELSE held[u]]
    /\ Consumed(h)
    /\ AdvanceTo(r, h, versioned)
    /\ UNCHANGED <<serverVars, place, resumed, todo, seen, open, historyVars>>

\* A BOOKMARK: only the position moves, or is lost with one that names none.
Bookmark(r, versioned) ==
    /\ ~aborted /\ place = "watching" /\ pos < r /\ r <= rev /\ Quiet(r)
    /\ pos' = r
    /\ AdvanceTo(r, "returns", versioned)
    /\ Silent
    /\ UNCHANGED <<serverVars, place, resumed, todo, storeVars, historyVars>>

-----------------------------------------------------------------------------
Server == (\E u \in Uids : Write(u) \/ Remove(u)) \/ Elsewhere \/ \E r \in Revs : Compact(r)

\* The steps that need nobody else: run's and watchOnce's own.
Own(h) ==
    \/ Connect(h) \/ Stops \/ Explained(h) \/ Ends \/ Retry(h) \/ Waited \/ Finish(h)
    \/ Aborted \/ Cut \/ DeliverReset(h) \/ RequestWatch \/ GoLive(h)
    \/ \E u \in Uids : DeliverAdded(u, h)

\* What the network and the host do to them.
Answer(h) ==
    \/ Listed(h) \/ PageArrives(h) \/ BodyArrives(h) \/ WatchAccepted(h) \/ WatchResumed
    \/ \E k \in Refusals : Refused(k) \/ ErrorFrame(k, h)
    \/ Drops \/ Truncated(h) \/ MalformedCollection(h) \/ MalformedFrame(h)
    \/ \E r \in Revs, v \in BOOLEAN : Bookmark(r, v) \/ Frame(r, h, v)

Next ==
    \/ Server \/ Close
    \/ \E h \in Host : Own(h) \/ Answer(h) \/ HealthyFires(h)

\* The event loop runs what is ready.  The server may stay silent for ever, and no
\* host has to close anything.
Fairness == WF_vars(\E h \in Host : Own(h))

Spec == Init /\ [][Next]_vars /\ Fairness

-----------------------------------------------------------------------------
\* The checkpoint always names what the store holds: it is exactly the collection
\* as of that resourceVersion, so a resumed WATCH misses nothing and repeats
\* nothing, through drops, refusals, expiry and snapshots cut short.  And a position the
\* server refused for good, or malformed input made doubtful, is never watched from again
\* (refused, "an expired or refused position is never asked for again").
CheckpointIsHeld ==
    /\ TypeOK
    /\ checkpoint # NoCheckpoint /\ ~aborted => held = past[checkpoint] /\ ~open
    /\ lost => ~(place = "opening" /\ resumed)

\* "live" is published only over a complete store: everything up to the watch's
\* position is applied and no snapshot is open (watchOnce, hooks.synced).
LiveIsComplete ==
    status = "live" /\ ~aborted => held = past[pos] /\ ~open

\* An object leaves the store only if the API server removed that very version or a
\* later one: an interrupted or partial snapshot prunes nothing.
OnlyTheGoneArePruned ==
    [][\A u \in Uids : held[u] # Absent /\ held'[u] = Absent =>
          \E r \in Revs : held[u] < r /\ r <= rev /\ past[r][u] = Absent]_vars

\* Nothing reaches the consumer once the stream is closed or has failed, and after a
\* terminal error no further connection is attempted.
NothingAfterClose ==
    [][/\ aborted => UNCHANGED <<held, seen, open>>
       /\ terminal => attempts' <= attempts]_vars

\* Between two sustained healthy periods there are at most maxRetries reconnects,
\* however many of them got as far as live: a healthy period is one of the connection that
\* is live, never the time since an earlier one.
BudgetHolds == attempts <= MaxRetries + 1

\* A closed, failed or terminal stream comes to an end: whatever it was awaiting is
\* released and its closed promise settles.
Settles == aborted \/ terminal ~> place = "done"
=============================================================================
