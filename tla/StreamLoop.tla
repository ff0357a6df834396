----------------------------- MODULE StreamLoop -----------------------------
(***************************************************************************)
(* One consumer's stream: Gateway.Stream, authorizedCycle and cycle of      *)
(* gateway/stream.go and gateway/reauthorize.go, between an upstream watch  *)
(* (a Backend) and a consumer that applies the wire events as spec/v1.md    *)
(* §5 prescribes.                                                           *)
(*                                                                          *)
(* Two goroutines run: the loop, which opens snapshot cycles and relays     *)
(* their events, and the reauthorization ticker, which takes the gate       *)
(* around every check.  An object is its resourceVersion, what the          *)
(* projection shows of it (vis) and what it withholds (sec).                *)
(***************************************************************************)
EXTENDS Naturals, Sequences

CONSTANTS
    Uids,       \* object uids
    Contents,   \* visible contents, and withheld values, of an object
    Reauth,     \* StreamConfig.ReauthorizationInterval > 0
    Overtaking, \* the Backend may hand over a live event ahead of its snapshot
    MaxRev,     \* bound: changes of the world
    MaxCycles   \* bound: snapshot cycles per stream

ASSUME ContentsAssumption == Contents # {}
ASSUME BooleanAssumption == Reauth \in BOOLEAN /\ Overtaking \in BOOLEAN
ASSUME BoundAssumption == MaxRev \in Nat /\ MaxCycles \in Nat

VARIABLES
    world,      \* the API server's objects
    rev,        \* its last resourceVersion
    allowed,    \* the caller is entitled to the scope
    snapLeft,   \* Backend: snapshot objects not yet handed over
    markLeft,   \* Backend: the InitialEventsEnd bookmark not yet handed over
    queue,      \* Backend: live events not yet handed over
    place,      \* where Stream and cycle are
    cycles,     \* snapshot cycles begun
    quickEnds,  \* Stream's quickEnds
    lasted,     \* syncTracker.lastedPast(minUsefulCycle)
    emitted,    \* cycle's emitted: uid -> resourceVersion, 0 when absent
    digests,    \* cycle's digests: uid -> digest, NoDigest when absent
    revisions,  \* Stream's revisions: uid -> redactionState, rev 0 when absent
    out,        \* the event cycle is about to Emit
    err,        \* the error cycle returned
    ticker,     \* where the reauthorization goroutine is
    cancelled,  \* cycleCtx is cancelled
    authErr,    \* what the reauthorization goroutine sent on done
    held,       \* consumer: the objects it holds
    seen,       \* consumer: the uids of the current snapshot
    phase,      \* consumer: where it is in the wire grammar
    barren      \* history: cycles begun since the last one that was of use

upVars     == <<snapLeft, markLeft, queue>>
loopVars   == <<place, cycles, quickEnds, lasted, err>>
cycleVars  == <<emitted, digests, revisions, out>>
authVars   == <<ticker, cancelled, authErr>>
clientVars == <<held, seen, phase>>
worldVars  == <<world, rev, allowed>>
vars == <<worldVars, upVars, loopVars, cycleVars, authVars, clientVars, barren>>

Revs == 0 .. MaxRev
Objects == [rv : Revs, vis : Contents, sec : Contents, live : BOOLEAN]
Nothing(v) == [rv |-> 0, vis |-> v, sec |-> v, live |-> FALSE]
NoObject == Nothing(CHOOSE v \in Contents : TRUE)
NoDigest == <<>>
NoEvent == [type |-> "none"]

Recoverable == {"closed", "resync"}
Errors == Recoverable \cup {"unavailable", "terminal", "canceled"}

TypeOK ==
    /\ world \in [Uids -> Objects] /\ rev \in Revs /\ allowed \in BOOLEAN
    /\ snapLeft \in [Uids -> Objects] /\ markLeft \in BOOLEAN
    /\ queue \in Seq([uid : Uids, obj : Objects])
    /\ place \in {"announcing", "opening", "resetting", "reading", "joining", "ended"}
    /\ cycles \in 0 .. MaxCycles /\ quickEnds \in 0 .. 1 /\ lasted \in BOOLEAN
    /\ emitted \in [Uids -> Revs]
    /\ \A u \in Uids : digests[u] = NoDigest \/ digests[u] \in Contents \X Nat
    /\ revisions \in [Uids -> [val : Contents, rev : Nat]]
    /\ err \in Errors \cup {"none"} /\ authErr \in Errors \cup {"none"}
    /\ ticker \in {"off", "waiting", "checking", "stopped"}
    /\ cancelled \in BOOLEAN
    /\ held \in [Uids -> [rv : Revs, vis : Contents, sec : Contents, red : Nat]]
    /\ seen \in SUBSET Uids
    /\ phase \in {"idle", "snapshot", "live", "broken", "closed"}
    /\ barren \in 0 .. MaxCycles

NoRevision == [val |-> NoObject.sec, rev |-> 0]
NotHeld == [rv |-> 0, vis |-> NoObject.vis, sec |-> NoObject.sec, red |-> 0]
Holds(u) == held[u].red # 0

Init ==
    /\ world = [u \in Uids |-> NoObject] /\ rev = 0 /\ allowed = TRUE
    /\ snapLeft = [u \in Uids |-> NoObject] /\ markLeft = FALSE /\ queue = <<>>
    /\ place = "opening" /\ cycles = 0 /\ quickEnds = 0 /\ lasted = FALSE
    /\ emitted = [u \in Uids |-> 0]
    /\ digests = [u \in Uids |-> NoDigest]
    /\ revisions = [u \in Uids |-> NoRevision]
    /\ out = NoEvent /\ err = "none"
    /\ ticker = "off" /\ cancelled = FALSE /\ authErr = "none"
    /\ held = [u \in Uids |-> NotHeld] /\ seen = {} /\ phase = "idle"
    /\ barren = 0

-----------------------------------------------------------------------------
\* The world and the Backend.

Watching == place \in {"resetting", "reading"}
Notify(u, o) == queue' = IF Watching THEN Append(queue, [uid |-> u, obj |-> o]) ELSE queue

\* An object is created or changed: what the projection shows, what it
\* withholds, both or neither.
Write(u, v, s) ==
    /\ rev < MaxRev
    /\ rev' = rev + 1
    /\ LET o == [rv |-> rev + 1, vis |-> v, sec |-> s, live |-> TRUE] IN
       world' = [world EXCEPT ![u] = o] /\ Notify(u, o)
    /\ UNCHANGED <<allowed, snapLeft, markLeft, loopVars, cycleVars, authVars,
                   clientVars, barren>>

\* It is deleted, or leaves the selector; the tombstone has a resourceVersion.
Remove(u) ==
    /\ rev < MaxRev /\ world[u].live
    /\ rev' = rev + 1
    /\ LET o == [world[u] EXCEPT !.rv = rev + 1, !.live = FALSE] IN
       world' = [world EXCEPT ![u] = o] /\ Notify(u, o)
    /\ UNCHANGED <<allowed, snapLeft, markLeft, loopVars, cycleVars, authVars,
                   clientVars, barren>>

\* An upstream that relists replays an older version of a present object.
Replay(u, r) ==
    /\ Watching /\ queue = <<>> /\ snapLeft[u] = NoObject
    /\ world[u].live /\ r > 0 /\ r < world[u].rv
    /\ queue' = <<[uid |-> u, obj |-> [NoObject EXCEPT !.rv = r, !.live = TRUE]]>>
    /\ UNCHANGED <<worldVars, snapLeft, markLeft, loopVars, cycleVars, authVars,
                   clientVars, barren>>

Revoke ==
    /\ allowed /\ allowed' = FALSE
    /\ UNCHANGED <<world, rev, upVars, loopVars, cycleVars, authVars, clientVars, barren>>

-----------------------------------------------------------------------------
\* The consumer (spec/v1.md §5): reset marks everything unseen, an upsert
\* replaces, synced prunes what the cycle did not name.

Reset ==
    /\ seen' = {} /\ held' = held
    /\ phase' = IF phase = "idle" THEN "snapshot" ELSE "broken"
Upsert(u, o) ==
    /\ seen' = (IF phase = "snapshot" THEN seen \cup {u} ELSE seen)
    /\ held' = [held EXCEPT ![u] = o]
    /\ phase' = IF phase \in {"snapshot", "live"} THEN phase ELSE "broken"
Drop(u) ==
    /\ seen' = seen /\ held' = [held EXCEPT ![u] = NotHeld]
    /\ phase' = IF phase \in {"snapshot", "live"} THEN phase ELSE "broken"
Synced ==
    /\ seen' = {} /\ held' = [u \in Uids |-> IF u \in seen THEN held[u] ELSE NotHeld]
    /\ phase' = IF phase = "snapshot" THEN "live" ELSE "broken"
Resync ==
    /\ seen' = seen /\ held' = held
    /\ phase' = IF phase # "closed" THEN "idle" ELSE "broken"
Error ==
    /\ seen' = seen /\ held' = held
    /\ phase' = IF phase # "closed" THEN "closed" ELSE "broken"

-----------------------------------------------------------------------------
\* Stream: the top of the loop.

\* A cycle that is not the first is announced by RESYNC_REQUIRED.
Announce ==
    /\ place = "announcing"
    /\ place' = "opening"
    /\ Resync
    /\ UNCHANGED <<worldVars, upVars, cycles, quickEnds, lasted, err, cycleVars,
                   authVars, barren>>

\* Authorize, SelectProjection or Clients refuses: the error ends the stream.
OpenRefused ==
    /\ place = "opening"
    /\ place' = "ended"
    /\ Error
    /\ UNCHANGED <<worldVars, upVars, cycles, quickEnds, lasted, err, cycleVars,
                   authVars, barren>>

\* The redaction revisions survive into the next cycle.
CarryNothing == [u \in Uids |-> NoRevision]
CarriedOver == revisions

\* Watch opens: the snapshot is the world as it is now, the per-cycle state is
\* new, and the reauthorization goroutine starts.
OpenWatch ==
    /\ place = "opening" /\ allowed /\ cycles < MaxCycles
    /\ place' = "resetting" /\ cycles' = cycles + 1 /\ barren' = barren + 1
    /\ snapLeft' = [u \in Uids |-> IF world[u].live THEN world[u] ELSE NoObject]
    /\ markLeft' = TRUE /\ queue' = <<>>
    /\ emitted' = [u \in Uids |-> 0]
    /\ digests' = [u \in Uids |-> NoDigest]
    /\ revisions' = CarriedOver
    /\ lasted' = FALSE /\ err' = "none"
    /\ ticker' = (IF Reauth THEN "waiting" ELSE "off")
    /\ cancelled' = FALSE /\ authErr' = "none"
    /\ UNCHANGED <<worldVars, quickEnds, out, clientVars>>

\* Watch fails: a scope that died under the lookup, a failing upstream.
OpenFails(e) ==
    /\ place = "opening" /\ allowed /\ cycles < MaxCycles
    /\ place' = "joining" /\ cycles' = cycles + 1 /\ barren' = barren + 1
    /\ lasted' = FALSE /\ err' = e
    /\ ticker' = (IF Reauth THEN "waiting" ELSE "off")
    /\ cancelled' = FALSE /\ authErr' = "none"
    /\ UNCHANGED <<worldVars, upVars, quickEnds, cycleVars, clientVars>>

-----------------------------------------------------------------------------
\* cycle: one upstream event in, at most one wire event out.

\* authorizationSink: no event passes while a check holds the gate, nor after
\* the check has cancelled the cycle.
GateOpen == TRUE
GateFree == ticker # "checking"

EmitReset ==
    /\ place = "resetting" /\ GateFree /\ ~cancelled
    /\ place' = "reading"
    /\ Reset
    /\ UNCHANGED <<worldVars, upVars, cycles, quickEnds, lasted, err, cycleVars,
                   authVars, barren>>

\* isStale, on resourceVersions that can be ordered.
NeverStale(u, o) == FALSE
Stale(u, o) == emitted[u] # 0 /\ o.rv < emitted[u]

\* observeRedactions: the revision of the withheld value, bumped when it changed.
Observed(u, o) ==
    LET prev == revisions[u] IN
    IF prev.rev = 0 THEN [val |-> o.sec, rev |-> 1]
    ELSE IF prev.val # o.sec THEN [val |-> o.sec, rev |-> prev.rev + 1]
    ELSE prev

\* visibleDigest: the projected object without its resourceVersion, and the
\* redaction revisions.
VisibleDigest(o, r) == <<o.vis, r.rev>>

\* cycle's handling of an added, modified or deleted event.
Handle(u, o) ==
    \/ /\ Stale(u, o)
       /\ UNCHANGED cycleVars
    \/ /\ ~Stale(u, o) /\ o.live
       /\ LET r == Observed(u, o)
              d == VisibleDigest(o, r) IN
          /\ emitted' = [emitted EXCEPT ![u] = o.rv]
          /\ revisions' = [revisions EXCEPT ![u] = r]
          /\ digests' = [digests EXCEPT ![u] = d]
          /\ out' = IF digests[u] = d THEN NoEvent
                    ELSE [type |-> "upsert", uid |-> u,
                          obj |-> [rv |-> o.rv, vis |-> o.vis, sec |-> o.sec,
                                   red |-> r.rev]]
    \/ /\ ~Stale(u, o) /\ ~o.live
       /\ out' = [type |-> "deleted", uid |-> u]
       /\ emitted' = [emitted EXCEPT ![u] = o.rv]
       /\ UNCHANGED <<digests, revisions>>

Pulling == place = "reading" /\ out = NoEvent /\ ~cancelled

\* Next hands over a snapshot object.
TakeSnapshot(u) ==
    /\ Pulling /\ snapLeft[u] # NoObject
    /\ snapLeft' = [snapLeft EXCEPT ![u] = NoObject]
    /\ Handle(u, snapLeft[u])
    /\ UNCHANGED <<worldVars, markLeft, queue, loopVars, authVars, clientVars, barren>>

\* Next hands over the InitialEventsEnd bookmark, after the last of them.
TakeBookmark ==
    /\ Pulling /\ markLeft /\ \A u \in Uids : snapLeft[u] = NoObject
    /\ markLeft' = FALSE
    /\ out' = [type |-> "synced"]
    /\ UNCHANGED <<worldVars, snapLeft, queue, loopVars, emitted, digests, revisions,
                   authVars, clientVars, barren>>

\* Next hands over a live event.
TakeLive ==
    /\ Pulling /\ queue # <<>>
    /\ Overtaking \/ ~markLeft
    /\ queue' = Tail(queue)
    /\ Handle(Head(queue).uid, Head(queue).obj)
    /\ UNCHANGED <<worldVars, snapLeft, markLeft, loopVars, authVars, clientVars, barren>>

\* Emit of what was taken, and what cycle forgets after it: a deleted uid's
\* state, and at the boundary the revisions of uids the cycle did not emit.
EmitOut ==
    /\ place = "reading" /\ out # NoEvent /\ GateFree /\ ~cancelled
    /\ out' = NoEvent
    /\ \/ /\ out.type = "upsert"
          /\ Upsert(out.uid, out.obj)
          /\ UNCHANGED <<emitted, digests, revisions>>
       \/ /\ out.type = "deleted"
          /\ Drop(out.uid)
          /\ emitted' = [emitted EXCEPT ![out.uid] = 0]
          /\ digests' = [digests EXCEPT ![out.uid] = NoDigest]
          /\ revisions' = [revisions EXCEPT ![out.uid] = NoRevision]
       \/ /\ out.type = "synced"
          /\ Synced
          /\ revisions' = [u \in Uids |-> IF emitted[u] = 0 THEN NoRevision
                                          ELSE revisions[u]]
          /\ UNCHANGED <<emitted, digests>>
    /\ UNCHANGED <<worldVars, upVars, loopVars, authVars, barren>>

\* minUsefulCycle has passed since the cycle synced; it is over when lastedPast asks.
Lasts ==
    /\ place \in {"reading", "joining"} /\ phase = "live" /\ ~lasted
    /\ lasted' = TRUE
    /\ UNCHANGED <<worldVars, upVars, place, cycles, quickEnds, err, cycleVars, authVars,
                   clientVars, barren>>

\* The cycle ends: Next failed or handed over an error, a partial object or a
\* tombstone without identity; or (canceled) Emit or Next saw cycleCtx end.
CycleEnds(e) ==
    /\ Watching
    /\ IF e = "canceled" THEN cancelled ELSE place = "reading" /\ out = NoEvent
    /\ place' = "joining" /\ err' = e
    /\ snapLeft' = [u \in Uids |-> NoObject] /\ markLeft' = FALSE /\ queue' = <<>>
    /\ out' = NoEvent
    /\ UNCHANGED <<worldVars, cycles, quickEnds, lasted, emitted, digests, revisions,
                   authVars, clientVars, barren>>

-----------------------------------------------------------------------------
\* authorizedCycle's goroutine.

\* The ticker fires (perhaps as the cycle ends) and the check takes the gate.
CheckBegins ==
    /\ ticker = "waiting"
    /\ ticker' = "checking"
    /\ UNCHANGED <<worldVars, upVars, loopVars, cycleVars, cancelled, authErr, clientVars,
                   barren>>

CheckPasses ==
    /\ ticker = "checking" /\ allowed /\ ~cancelled
    /\ ticker' = "waiting"
    /\ UNCHANGED <<worldVars, upVars, loopVars, cycleVars, cancelled, authErr, clientVars,
                   barren>>

\* The check refuses, or cannot be answered in time: the cycle is cancelled before
\* the gate is released.  Only an unreachable authority may be retried.
RefuseWithoutCancel(e) ==
    /\ ticker = "checking"
    /\ ticker' = "stopped" /\ authErr' = e
    /\ UNCHANGED <<worldVars, upVars, loopVars, cycleVars, cancelled, clientVars, barren>>
CheckRefuses(e) ==
    /\ ticker = "checking"
    /\ ticker' = "stopped" /\ authErr' = e /\ cancelled' = TRUE
    /\ UNCHANGED <<worldVars, upVars, loopVars, cycleVars, clientVars, barren>>

\* The cycle is over: the goroutine stops, and a check the teardown cancelled is
\* not a refusal.
TickerStops ==
    /\ ticker \in {"waiting", "checking"} /\ cancelled
    /\ ticker' = "stopped"
    /\ UNCHANGED <<worldVars, upVars, loopVars, cycleVars, cancelled, authErr, clientVars,
                   barren>>

\* cycle has returned: cancel, so that the goroutine comes to an end.
CancelCycle ==
    /\ place = "joining" /\ ~cancelled
    /\ cancelled' = TRUE
    /\ UNCHANGED <<worldVars, upVars, loopVars, cycleVars, ticker, authErr, clientVars,
                   barren>>

Joined == place = "joining" /\ cancelled /\ ticker \in {"off", "stopped"}
Verdict == IF authErr # "none" THEN authErr ELSE err

\* syncTracker.lastedPast: it synced and then stayed live.
SyncedIsEnough == phase = "live"
WasUseful == lasted

\* `quickEnds++; quickEnds > 1`.
TooQuick == quickEnds > 0

\* The loop goes round with cycles > 0.
Silently == "opening"
GoesRound == "announcing"

\* Stream's verdict on a cycle: recover with a new one, ...
Recover ==
    /\ Joined /\ Verdict \in Recoverable
    /\ WasUseful \/ ~TooQuick
    /\ quickEnds' = IF WasUseful THEN 0 ELSE quickEnds + 1
    /\ barren' = IF lasted THEN 0 ELSE barren
    /\ place' = GoesRound
    /\ UNCHANGED <<worldVars, upVars, cycles, lasted, err, cycleVars, authVars, clientVars>>

\* ... or emit the error that ends the stream.
GiveUp ==
    /\ Joined
    /\ Verdict \in Recoverable => ~WasUseful /\ TooQuick
    /\ place' = "ended"
    /\ Error
    /\ UNCHANGED <<worldVars, upVars, cycles, quickEnds, lasted, err, cycleVars, authVars,
                   barren>>

\* The consumer goes away, or a write fails and poisons the sink: the request's
\* context ends, and with it the stream, without an event.
Disconnect ==
    /\ place # "ended"
    /\ place' = "ended" /\ phase' = "closed"
    /\ ticker' = (IF ticker = "off" THEN "off" ELSE "stopped") /\ cancelled' = TRUE
    /\ UNCHANGED <<worldVars, upVars, cycles, quickEnds, lasted, err, cycleVars, authErr,
                   held, seen, barren>>

-----------------------------------------------------------------------------
Loop == \/ Announce \/ OpenRefused \/ OpenWatch \/ EmitReset
        \/ (\E u \in Uids : TakeSnapshot(u)) \/ TakeBookmark \/ TakeLive \/ EmitOut
        \/ CycleEnds("canceled") \/ CancelCycle \/ Recover \/ GiveUp
Check == CheckPasses \/ TickerStops \/ \E e \in {"unavailable", "terminal"} : CheckRefuses(e)

Next ==
    \/ \E u \in Uids : \/ \E v, s \in Contents : Write(u, v, s)
                       \/ Remove(u)
                       \/ \E r \in Revs : Replay(u, r)
    \/ Revoke
    \/ Loop \/ Lasts
    \/ \E e \in Errors : OpenFails(e) \/ CycleEnds(e)
    \/ CheckBegins \/ Check
    \/ Disconnect

\* The two goroutines run, the ticker fires, and a check is answered (it has a
\* timeout).  Nobody promises that the upstream sends or ends.
Fairness == WF_vars(Loop) /\ WF_vars(CheckBegins) /\ WF_vars(Check)

Spec == Init /\ [][Next]_vars /\ Fairness

-----------------------------------------------------------------------------
\* The primary invariant (spec/v1.md §6): whenever a live cycle has caught up,
\* the consumer holds exactly the world's objects, as the projection shows them,
\* whatever ends, resyncs, replays and suppressed events came before.
NoGhosts ==
    place = "reading" /\ phase = "live" /\ out = NoEvent /\ queue = <<>>
        => \A u \in Uids : /\ Holds(u) <=> world[u].live
                           /\ Holds(u) => /\ held[u].vis = world[u].vis
                                          /\ held[u].sec = world[u].sec

\* The wire is a sequence of cycles, each reset, objects, synced, objects, every
\* cycle but the first announced, and nothing follows an error that ends it.
WireGrammar == TypeOK /\ phase # "broken"

\* While a consumer keeps an object, an unchanged redaction revision means an
\* unchanged withheld value, across resyncs too (observeRedactions).
RedactionTellsChange ==
    [][\A u \in Uids : Holds(u) /\ Holds(u)' /\ held'[u].red = held[u].red
                          => held'[u].sec = held[u].sec]_vars

\* No event reaches the consumer while its entitlement is being checked, and no
\* object after a check has refused it.
NothingPastTheGate ==
    [][/\ ticker = "checking" => UNCHANGED <<held, seen>>
       /\ authErr # "none" /\ place \in {"resetting", "reading"}
             => UNCHANGED <<held, seen>>]_vars

\* A stream whose cycles are of no use is not reopened in a loop: two of them in a
\* row end the connection.
NoTightLoop == barren <= 2

\* A caller that loses its entitlement is cut off, wherever its cycle is: a check
\* refuses it, or the next cycle does, even on a stream that has nothing to say.
RevokedIsCutOff == ~allowed /\ Reauth ~> place = "ended"
=============================================================================
