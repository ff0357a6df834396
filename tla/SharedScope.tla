---------------------------- MODULE SharedScope ----------------------------
(***************************************************************************)
(* One sharedScope of gateway/shared.go: an upstream watch, the cache it    *)
(* warms, and the subscribers that read from it.                            *)
(*                                                                          *)
(* Three kinds of process run here: the pump goroutine (the single reader   *)
(* of the upstream and writer of the cache), one reader per subscriber      *)
(* (sharedWatcher.Next and Stop, called by the stream loop), and the        *)
(* upstream itself, whose events and errors are the pump's inputs.  A step  *)
(* is one critical section of sharedScope.mu or SharedBackend.mu, or one    *)
(* channel operation; what the code does between two of them interleaves.   *)
(*                                                                          *)
(* An object state is the revision the upstream gave it; Absent stands for  *)
(* no object (and, in an event, for a deletion).                            *)
(***************************************************************************)
EXTENDS Naturals, Sequences

CONSTANTS
    Subs,        \* subscriber identities; each attaches at most once
    Uids,        \* object uids
    QueueDepth,  \* SharedOptions.QueueDepth: capacity of subscriber.ch
    MaxRev,      \* bound: upstream changes per behaviour
    Stray        \* bound: which of them may delete an object the cache does not hold

ASSUME QueueDepthAssumption == QueueDepth \in Nat \ {0}
ASSUME MaxRevAssumption == MaxRev \in Nat
ASSUME ErrorAssumption == "error" \notin Uids

VARIABLES
    published,  \* SharedBackend.scopes[key] is this scope
    cancelled,  \* the upstream's context has been cancelled
    dead,       \* sharedScope.dead
    synced,     \* sharedScope.synced
    cache,      \* sharedScope.cache: uid -> current revision, or Absent
    subs,       \* sharedScope.subs
    rev,        \* upstream: the last revision it issued
    pump,       \* where the pump goroutine is
    cause,      \* the error the pump is dying of
    rd,         \* where each subscriber's reader is
    awaiting,   \* subscriber.awaiting
    snap,       \* subscriber.pending: the added events it still holds
    mark,       \* subscriber.pending: the boundary bookmark is still in it
    ready,      \* subscriber.ready holds its one signal
    ch,         \* subscriber.ch
    closed,     \* subscriber.closed
    reason,     \* subscriber.reason
    view,       \* reader: the object states it has been handed
    framed,     \* reader: it has been handed the boundary bookmark
    overtaken   \* history: a live event was handed over ahead of the snapshot

scopeVars == <<published, cancelled, dead, synced, cache, subs>>
pumpVars  == <<rev, pump, cause>>
queueVars == <<awaiting, snap, mark, ready, ch, closed, reason>>
readVars  == <<rd, view, framed, overtaken>>
vars == <<scopeVars, pumpVars, queueVars, readVars>>

Absent == 0
Revs == Absent .. MaxRev
\* How an upstream ends: a plain close, an error die passes on (a StreamError of
\* any code), the cancellation of its own context.
Causes == {"closed", "typed", "canceled"}
Reasons == {"none", "resync"} \cup Causes
Events == [uid : Uids \cup {"error"}, ver : Revs]
NoObjects == [u \in Uids |-> Absent]

\* The reader's places.  "outside": has not called Watch.  "found": Watch saw
\* the scope in the map.  "checking": about to run nextPending.  "selecting":
\* in Next's select.  "stopping": Next failed or the consumer is done, Stop is
\* due.  "forgetting", "cancelling": the tail of leave.  "gone": finished.
ReaderPlaces == {"outside", "found", "checking", "selecting", "stopping",
                 "forgetting", "cancelling", "gone"}
PumpPlaces == {"reading", "forgetting", "cancelling", "ending", "stopped"}

\* A reader that holds a subscription and is still pulling events from it.
Reading(c) == rd[c] \in {"checking", "selecting"}
\* A reader between a successful subscription and its leave.
Holding(c) == rd[c] \in {"checking", "selecting", "stopping"}

TypeOK ==
    /\ published \in BOOLEAN /\ cancelled \in BOOLEAN
    /\ dead \in BOOLEAN /\ synced \in BOOLEAN
    /\ cache \in [Uids -> Revs]
    /\ subs \in SUBSET Subs
    /\ rev \in Revs
    /\ pump \in PumpPlaces
    /\ cause \in Reasons
    /\ rd \in [Subs -> ReaderPlaces]
    /\ awaiting \in [Subs -> BOOLEAN]
    /\ snap \in [Subs -> [Uids -> Revs]]
    /\ mark \in [Subs -> BOOLEAN]
    /\ ready \in [Subs -> BOOLEAN]
    /\ ch \in [Subs -> Seq(Events)]
    /\ \A c \in Subs : Len(ch[c]) <= QueueDepth
    /\ closed \in [Subs -> BOOLEAN]
    /\ reason \in [Subs -> Reasons]
    /\ view \in [Subs -> [Uids -> Revs]]
    /\ framed \in [Subs -> BOOLEAN]
    /\ overtaken \in [Subs -> BOOLEAN]

-----------------------------------------------------------------------------
\* SharedBackend.settle: the upstream opened; the scope is published with one
\* subscriber attached for every waiter of the opening, all of them cold.
Init ==
    /\ subs \in (SUBSET Subs) \ {{}}
    /\ published = TRUE /\ cancelled = FALSE /\ dead = FALSE /\ synced = FALSE
    /\ cache = NoObjects
    /\ rev = 0 /\ pump = "reading" /\ cause = "none"
    /\ rd = [c \in Subs |-> IF c \in subs THEN "checking" ELSE "outside"]
    /\ awaiting = [c \in Subs |-> TRUE]
    /\ snap = [c \in Subs |-> NoObjects]
    /\ mark = [c \in Subs |-> FALSE]
    /\ ready = [c \in Subs |-> FALSE]
    /\ ch = [c \in Subs |-> <<>>]
    /\ closed = [c \in Subs |-> FALSE]
    /\ reason = [c \in Subs |-> "none"]
    /\ view = [c \in Subs |-> NoObjects]
    /\ framed = [c \in Subs |-> FALSE]
    /\ overtaken = [c \in Subs |-> FALSE]

\* The non-blocking send on subscriber.ready, whose buffer holds one signal.
NotWoken(T) == ready
Woken(T) == [c \in Subs |-> ready[c] \/ c \in T]

\* deliverSnapshotLocked for every subscriber of D: its pending becomes the
\* whole cache and the boundary bookmark, and its ready signal is set.
DeliverSnapshot(D) ==
    LET T == {c \in D : ~closed[c]} IN
    /\ snap' = [c \in Subs |-> IF c \in T THEN cache ELSE snap[c]]
    /\ mark' = [c \in Subs |-> mark[c] \/ c \in T]
    /\ awaiting' = [c \in Subs |-> awaiting[c] /\ c \notin T]
    /\ ready' = Woken(T)

\* A joiner is snapshotted at once when the cache is warm.
AlwaysWarm(c) == {c}
WarmJoiner(c) == IF synced THEN {c} ELSE {}

\* SharedBackend.Watch, its map lookup: the scope is there.
Lookup(c) ==
    /\ rd[c] = "outside" /\ published
    /\ rd' = [rd EXCEPT ![c] = "found"]
    /\ UNCHANGED <<scopeVars, pumpVars, queueVars, view, framed, overtaken>>

\* sharedScope.subscribe: attach, warm from the cache if it is complete; a
\* scope that died since the lookup answers ErrWatchClosed instead.
Subscribe(c) ==
    /\ rd[c] = "found"
    /\ \/ /\ dead
          /\ rd' = [rd EXCEPT ![c] = "gone"]
          /\ UNCHANGED <<subs, queueVars>>
       \/ /\ ~dead
          /\ rd' = [rd EXCEPT ![c] = "checking"]
          /\ subs' = subs \cup {c}
          /\ DeliverSnapshot(WarmJoiner(c))
          /\ UNCHANGED <<ch, closed, reason>>
    /\ UNCHANGED <<published, cancelled, dead, synced, cache, pumpVars, view,
                   framed, overtaken>>

-----------------------------------------------------------------------------
\* The pump: one upstream event per critical section.

\* subscriber.ch has no room left.
FullOffByOne(c) == Len(ch[c]) > QueueDepth
Full(c) == Len(ch[c]) >= QueueDepth

\* subscriber.offer of ev to every open subscriber of D.
Enqueue(D, ev) ==
    ch' = [c \in Subs |-> IF c \in D /\ ~closed[c] /\ ~Full(c)
                          THEN Append(ch[c], ev) ELSE ch[c]]

\* subscriber.end, idempotent: the open subscribers of D close with reason r[c].
EndWithoutReason(D, r) ==
    /\ closed' = [c \in Subs |-> closed[c] \/ c \in D]
    /\ UNCHANGED reason
DropInsteadOfEnd(D, r) == UNCHANGED <<closed, reason>>
End(D, r) ==
    /\ closed' = [c \in Subs |-> closed[c] \/ c \in D]
    /\ reason' = [c \in Subs |-> IF c \in D /\ ~closed[c] THEN r[c] ELSE reason[c]]

\* fanOutLocked's recipients: the pending snapshot of the others already
\* contains the event.
Everyone == subs
Snapshotted == {c \in subs : ~awaiting[c]}

\* An added, modified (v is the new revision) or deleted (v = Absent) event: the
\* cache is updated and the event fanned out.  A full queue ends its subscriber
\* with RESYNC_REQUIRED instead of blocking the pump.
Pumped(u, v) ==
    /\ pump = "reading" /\ rev < MaxRev
    /\ rev' = rev + 1
    /\ cache' = [cache EXCEPT ![u] = v]
    /\ Enqueue(Snapshotted, [uid |-> u, ver |-> v])
    /\ End({c \in Snapshotted : Full(c)}, [c \in Subs |-> "resync"])
    /\ UNCHANGED <<published, cancelled, dead, synced, subs, pump, cause,
                   awaiting, snap, mark, ready, readVars>>

PumpUpsert(u) == Pumped(u, rev + 1)
PumpDelete(u) == Pumped(u, Absent)

\* The bookmark that ends the initial events: everyone still waiting is
\* handed the cache.  (A routine bookmark changes nothing.)
PumpBookmark ==
    /\ pump = "reading"
    /\ synced' = TRUE
    /\ DeliverSnapshot({c \in subs : awaiting[c]})
    /\ UNCHANGED <<published, cancelled, dead, cache, subs, pumpVars, ch, closed,
                   reason, readVars>>

\* The upstream ends: its Next failed, it sent an error event, a partial
\* object or a tombstone without identity.  "canceled" is its answer to the
\* cancellation of its own context.
PumpFail(e) ==
    /\ pump = "reading"
    /\ e = "canceled" => cancelled
    /\ pump' = "forgetting" /\ cause' = e
    /\ UNCHANGED <<scopeVars, rev, queueVars, readVars>>

\* die, first part: SharedBackend.forget, a no-op for an obsolete scope.
DieForget ==
    /\ pump = "forgetting"
    /\ pump' = "cancelling" /\ published' = FALSE
    /\ UNCHANGED <<cancelled, dead, synced, cache, subs, rev, cause, queueVars,
                   readVars>>

DieCancel ==
    /\ pump = "cancelling"
    /\ pump' = "ending" /\ cancelled' = TRUE
    /\ UNCHANGED <<published, dead, synced, cache, subs, rev, cause, queueVars,
                   readVars>>

\* What die tells the subscribers: a plain close is lost continuity.
Reported == IF cause = "closed" THEN "resync" ELSE cause

\* die ends every subscriber, the ones whose queue is full too.
EndedWithRoom == {c \in subs : ~Full(c)}
Ended == subs

\* die, last part: every subscriber is offered the error and its queue is
\* closed with the reason, unless a full queue just closed it with its own.
DieEnd ==
    /\ pump = "ending"
    /\ pump' = "stopped" /\ dead' = TRUE /\ subs' = {}
    /\ Enqueue(subs, [uid |-> "error", ver |-> Absent])
    /\ End(Ended, [c \in Subs |-> IF Full(c) THEN "resync" ELSE Reported])
    /\ UNCHANGED <<published, cancelled, synced, cache, rev, cause, awaiting,
                   snap, mark, ready, readVars>>

-----------------------------------------------------------------------------
\* The reader: sharedWatcher.Next is nextPending under the lock, then a select.

PendingEmpty(c) == snap[c] = NoObjects /\ ~mark[c]

\* nextPending returns one of the snapshot's added events (a Go map's order is
\* arbitrary), or, after the last of them, the boundary bookmark.
NextPendingAdded(c, u) ==
    /\ rd[c] = "checking" /\ snap[c][u] # Absent
    /\ view' = [view EXCEPT ![c][u] = snap[c][u]]
    /\ snap' = [snap EXCEPT ![c][u] = Absent]
    /\ UNCHANGED <<scopeVars, pumpVars, awaiting, mark, ready, ch, closed, reason,
                   rd, framed, overtaken>>

NextPendingBookmark(c) ==
    /\ rd[c] = "checking" /\ snap[c] = NoObjects /\ mark[c]
    /\ mark' = [mark EXCEPT ![c] = FALSE]
    /\ framed' = [framed EXCEPT ![c] = TRUE]
    /\ UNCHANGED <<scopeVars, pumpVars, awaiting, snap, ready, ch, closed, reason,
                   rd, view, overtaken>>

\* nextPending found nothing; the lock is released before the select begins.
NextPendingNone(c) ==
    /\ rd[c] = "checking" /\ PendingEmpty(c)
    /\ rd' = [rd EXCEPT ![c] = "selecting"]
    /\ UNCHANGED <<scopeVars, pumpVars, queueVars, view, framed, overtaken>>

SelectReady(c) ==
    /\ rd[c] = "selecting" /\ ready[c]
    /\ ready' = [ready EXCEPT ![c] = FALSE]
    /\ rd' = [rd EXCEPT ![c] = "checking"]
    /\ UNCHANGED <<scopeVars, pumpVars, awaiting, snap, mark, ch, closed, reason,
                   view, framed, overtaken>>

\* select takes an event off the queue; an error event ends the consumer.
SelectEvent(c) ==
    /\ rd[c] = "selecting" /\ ch[c] # <<>>
    /\ LET ev == Head(ch[c]) IN
       \/ /\ ev.uid # "error"
          /\ view' = [view EXCEPT ![c][ev.uid] = ev.ver]
          /\ overtaken' = [overtaken EXCEPT ![c] = @ \/ ~PendingEmpty(c)]
          /\ rd' = [rd EXCEPT ![c] = "checking"]
       \/ /\ ev.uid = "error"
          /\ rd' = [rd EXCEPT ![c] = "stopping"]
          /\ UNCHANGED <<view, overtaken>>
    /\ ch' = [ch EXCEPT ![c] = Tail(@)]
    /\ UNCHANGED <<scopeVars, pumpVars, awaiting, snap, mark, ready, closed,
                   reason, framed>>

\* select finds the queue drained and closed: Next returns the reason, or
\* ErrWatchClosed when there is none.
SelectClosed(c) ==
    /\ rd[c] = "selecting" /\ ch[c] = <<>> /\ closed[c]
    /\ rd' = [rd EXCEPT ![c] = "stopping"]
    /\ UNCHANGED <<scopeVars, pumpVars, queueVars, view, framed, overtaken>>

\* The consumer's context ends, or it stops reading for a reason of its own.
Quit(c) ==
    /\ Reading(c)
    /\ rd' = [rd EXCEPT ![c] = "stopping"]
    /\ UNCHANGED <<scopeVars, pumpVars, queueVars, view, framed, overtaken>>

\* leave's `empty`: c is the last subscriber of a live scope.
AnyLeaver(c) == ~dead
LastOut(c) == subs \ {c} = {} /\ ~dead

\* The subscriber of a reader that has left is garbage: no one can read it.
Drop(c) ==
    /\ snap' = [snap EXCEPT ![c] = NoObjects]
    /\ mark' = [mark EXCEPT ![c] = FALSE]
    /\ ready' = [ready EXCEPT ![c] = FALSE]
    /\ ch' = [ch EXCEPT ![c] = <<>>]
    /\ view' = [view EXCEPT ![c] = NoObjects]
    /\ framed' = [framed EXCEPT ![c] = FALSE]
    /\ overtaken' = [overtaken EXCEPT ![c] = FALSE]

\* Stop, leave's critical section: the last subscriber out marks the scope dead.
Leave(c) ==
    /\ rd[c] = "stopping"
    /\ subs' = subs \ {c}
    /\ closed' = [closed EXCEPT ![c] = TRUE]
    /\ dead' = (dead \/ LastOut(c))
    /\ rd' = [rd EXCEPT ![c] = IF LastOut(c) THEN "forgetting" ELSE "gone"]
    /\ Drop(c)
    /\ UNCHANGED <<published, cancelled, synced, cache, pumpVars, awaiting, reason>>

LeaveForget(c) ==
    /\ rd[c] = "forgetting"
    /\ rd' = [rd EXCEPT ![c] = "cancelling"]
    /\ published' = FALSE
    /\ UNCHANGED <<cancelled, dead, synced, cache, subs, pumpVars, queueVars, view,
                   framed, overtaken>>

LeaveCancel(c) ==
    /\ rd[c] = "cancelling"
    /\ rd' = [rd EXCEPT ![c] = "gone"]
    /\ cancelled' = TRUE
    /\ UNCHANGED <<published, dead, synced, cache, subs, pumpVars, queueVars, view,
                   framed, overtaken>>

-----------------------------------------------------------------------------
Deletable(u) == cache[u] # Absent \/ rev + 1 \in Stray
PumpEvent ==
    \/ \E u \in Uids : PumpUpsert(u) \/ (Deletable(u) /\ PumpDelete(u))
    \/ PumpBookmark
Die == DieForget \/ DieCancel \/ DieEnd
NextPending(c) == (\E u \in Uids : NextPendingAdded(c, u))
                     \/ NextPendingBookmark(c) \/ NextPendingNone(c)
Select(c) == SelectReady(c) \/ SelectEvent(c) \/ SelectClosed(c)
Stop(c) == Leave(c) \/ LeaveForget(c) \/ LeaveCancel(c)

Next ==
    \/ PumpEvent
    \/ \E e \in Causes : PumpFail(e)
    \/ Die
    \/ \E c \in Subs : \/ Lookup(c) \/ Subscribe(c)
                       \/ NextPending(c) \/ Select(c)
                       \/ Quit(c) \/ Stop(c)

\* The goroutines keep running: a reader that can proceed does (the stream loop
\* calls Next again as soon as it has handled an event), Stop and die finish, and
\* an upstream whose context was cancelled answers.  Nothing obliges the upstream
\* to send anything, a consumer to quit, or anyone to subscribe.
Fairness ==
    /\ WF_vars(Die)
    /\ WF_vars(PumpFail("canceled"))
    /\ \A c \in Subs : /\ WF_vars(Subscribe(c))
                       /\ WF_vars(NextPending(c) \/ Select(c))
                       /\ WF_vars(Stop(c))

Spec == Init /\ [][Next]_vars /\ Fairness

-----------------------------------------------------------------------------
\* What the reader will hold for u once it has read its snapshot ...
Base(c, u) == IF snap[c][u] # Absent THEN snap[c][u] ELSE view[c][u]

\* ... and then its queue: the last queued event about u, or else the base, is
\* the cache's state of u.
CatchesUp(c, u) ==
    \/ \E i \in DOMAIN ch[c] :
          /\ ch[c][i] = [uid |-> u, ver |-> cache[u]]
          /\ \A j \in DOMAIN ch[c] : j > i => ch[c][j].uid # u
    \/ /\ \A i \in DOMAIN ch[c] : ch[c][i].uid # u
       /\ Base(c, u) = cache[u]

\* No update is lost between the pump and a reader: as long as its queue is
\* open, reading on brings a subscriber that has its snapshot to exactly the
\* cache's state, whatever deliveries, joins, overflows and reads interleaved
\* (deliverSnapshotLocked, fanOutLocked, offer, Next).  A reader whose select
\* took a live event ahead of its snapshot is excepted: see SnapshotBeforeLive.
NothingLost ==
    \A c \in subs : ~awaiting[c] /\ ~closed[c] /\ ~overtaken[c]
                      => \A u \in Uids : CatchesUp(c, u)

\* A queue that ends under a reader says why: overflow and death both record a
\* reason before the close, so Next never turns a lost event into a bare
\* ErrWatchClosed, and the upstream's own cancellation is never that reason.
NoSilentEnd ==
    \A c \in Subs : Reading(c) /\ closed[c] => reason[c] \notin {"none", "canceled"}

\* A reader is handed objects and a boundary bookmark only from a cache the
\* upstream has declared complete; a joiner of a cold scope waits.
NoPartialSnapshot ==
    \A c \in Subs : framed[c] \/ view[c] # NoObjects => synced

\* The upstream watch lives exactly as long as someone needs it: a scope that
\* is not dead has a subscriber, one that is dead has none, and the upstream's
\* context is cancelled only for a dead scope or one whose pump is dying.
UpstreamOwned ==
    /\ dead <=> subs = {}
    /\ cancelled => dead \/ pump \in {"ending", "stopped"}

\* An object never goes back in a reader's hands: no delivery replaces a state
\* by an older one, unless the snapshot was overtaken.
NeverOlder ==
    [][\A c \in Subs, u \in Uids :
          ~overtaken[c] /\ view'[c][u] # Absent => view'[c][u] >= view[c][u]]_vars

\* A snapshot put in a subscriber's pending wakes its reader, even one already
\* parked in the select: it gets the boundary bookmark, or an end.
SnapshotReachesReader ==
    \A c \in Subs : mark[c] ~> (framed[c] \/ ~Reading(c))

\* Once the pump has met an error, nobody stays parked on the scope.
EveryoneIsTold ==
    pump = "forgetting" ~> \A c \in Subs : ~Reading(c)

\* shared.go, Next and subscriber.pending: the whole snapshot is handed over
\* before any live event.
SnapshotBeforeLive == \A c \in Subs : ~overtaken[c]
=============================================================================
