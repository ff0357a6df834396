--------------------------- MODULE SharedBackend ---------------------------
(***************************************************************************)
(* SharedBackend of gateway/shared.go, for one scope key: who may open the  *)
(* upstream watch, who waits for it, who owns it, and how long a failing    *)
(* upstream is left alone.                                                  *)
(*                                                                          *)
(* Every opening of the upstream is an incarnation: a sharedOpening while   *)
(* the call is out and, if it succeeds, the sharedScope it becomes.  What a *)
(* scope delivers is the subject of SharedScope; here it is the number of   *)
(* its subscribers and how it ends.  A step is one critical section of      *)
(* SharedBackend.mu or sharedScope.mu, or the cancellation that follows it. *)
(* Keys share nothing but the sweep of quiet backoff entries, which the     *)
(* failure of another key's upstream may run at any time.                   *)
(***************************************************************************)
EXTENDS Naturals, FiniteSets

CONSTANTS
    Callers,    \* concurrent callers of Watch
    RetryMin,   \* sharedRetryMin
    RetryMax,   \* sharedRetryMax
    MinUseful,  \* minUsefulCycle
    Hints,      \* Retry-After hints an upstream may send; 0 is none
    MaxInc,     \* bound: openings per behaviour
    MaxTime     \* bound: the clock's last tick

ASSUME CallersAssumption == IsFiniteSet(Callers)
ASSUME RetryAssumption ==
    RetryMin \in Nat \ {0} /\ RetryMax \in Nat /\ RetryMin <= RetryMax
ASSUME TimeAssumption == MinUseful \in Nat /\ MaxTime \in Nat \ {0}
ASSUME HintsAssumption == Hints \subseteq Nat
ASSUME MaxIncAssumption == MaxInc \in Nat

VARIABLES
    now,        \* SharedBackend.now()
    openings,   \* SharedBackend.openings[key]: an incarnation, or None
    scopes,     \* SharedBackend.scopes[key]: an incarnation, or None
    backoff,    \* SharedBackend.backoff[key]; until = 0 when there is no entry
    started,    \* incarnations begun so far
    up,         \* upstream of each incarnation: its Watch call, then its watcher
    done,       \* sharedOpening.done is closed
    waiters,    \* sharedOpening.waiters
    share,      \* Len(sharedOpening.subs): subscriptions not yet collected
    members,    \* Len(sharedScope.subs)
    dead,       \* sharedScope.dead
    syncedAt,   \* sharedScope.syncedAt; 0 until synced
    cancelled,  \* the incarnation's context is cancelled
    pump,       \* where the scope's pump is
    end,        \* the scopeEnd die is about to account for
    pc,         \* where each caller is
    at,         \* the incarnation it waits for or reads from
    useful,     \* caller: what usefulLocked said as it left
    lastEarly,  \* history: when a registered scope last ended early, if its count is kept
    lastFailed  \* history: when the upstream last proved to be failing

backendVars == <<openings, scopes, backoff, started>>
openingVars == <<done, waiters, share>>
scopeVars   == <<members, dead, syncedAt, pump, end>>
upVars      == <<up, cancelled>>
callerVars  == <<pc, at, useful>>
histVars    == <<lastEarly, lastFailed>>
vars == <<now, backendVars, openingVars, scopeVars, upVars, callerVars, histVars>>

None == 0
Incs == 1 .. MaxInc
Times == 0 .. MaxTime
NoBackoff == [until |-> 0, delay |-> 0, early |-> 0]
Kinds == {"unavailable", "early", "other"}
Least(a, b) == IF a <= b THEN a ELSE b

Ends == [useful : BOOLEAN, kind : Kinds, hint : Hints \cup {0}]
NoEnd == [useful |-> FALSE, kind |-> "other", hint |-> 0]

TypeOK ==
    /\ now \in Times \ {0}
    /\ openings \in Incs \cup {None} /\ scopes \in Incs \cup {None}
    /\ backoff \in [until : Nat, delay : 0 .. RetryMax, early : Nat]
    /\ started \in 0 .. MaxInc
    /\ up \in [Incs -> {"none", "calling", "open", "stopped"}]
    /\ done \in [Incs -> BOOLEAN]
    /\ waiters \in [Incs -> Nat]
    /\ share \in [Incs -> Nat]
    /\ members \in [Incs -> Nat]
    /\ dead \in [Incs -> BOOLEAN]
    /\ syncedAt \in [Incs -> Times]
    /\ cancelled \in [Incs -> BOOLEAN]
    /\ pump \in [Incs -> {"none", "reading", "forgetting", "cancelling", "ending",
                          "stopped"}]
    /\ end \in [Incs -> Ends]
    /\ pc \in [Callers -> {"idle", "waiting", "subscribing", "subscribed",
                           "releasing", "withdrawing", "forgetting", "cancelling"}]
    /\ at \in [Callers -> Incs \cup {None}]
    /\ useful \in [Callers -> BOOLEAN]
    /\ lastEarly \in Times /\ lastFailed \in Times

Init ==
    /\ now = 1
    /\ openings = None /\ scopes = None /\ backoff = NoBackoff /\ started = 0
    /\ up = [i \in Incs |-> "none"]
    /\ done = [i \in Incs |-> FALSE]
    /\ waiters = [i \in Incs |-> 0]
    /\ share = [i \in Incs |-> 0]
    /\ members = [i \in Incs |-> 0]
    /\ dead = [i \in Incs |-> FALSE]
    /\ syncedAt = [i \in Incs |-> 0]
    /\ cancelled = [i \in Incs |-> FALSE]
    /\ pump = [i \in Incs |-> "none"]
    /\ end = [i \in Incs |-> NoEnd]
    /\ pc = [c \in Callers |-> "idle"]
    /\ at = [c \in Callers |-> None]
    /\ useful = [c \in Callers |-> FALSE]
    /\ lastEarly = 0 /\ lastFailed = 0

\* The caller's Watch or Stop goes on at place p, or (idle) is over.
Goto(c, p) ==
    /\ pc' = [pc EXCEPT ![c] = p]
    /\ at' = [at EXCEPT ![c] = IF p = "idle" THEN None ELSE @]

-----------------------------------------------------------------------------
\* The backoff.

\* recordFailureLocked's sweep: an entry quiet for a full period is forgotten.
Quiet(b) == b.until # 0 /\ now > b.until + RetryMax
Swept(b) == IF Quiet(b) THEN NoBackoff ELSE b

\* recordFailureLocked, from an entry b and with a Retry-After hint: start or
\* double the delay, honour a longer hint, both up to RetryMax.
RecordFailure(b, hint) ==
    LET s == Swept(b)
        d == IF s.delay = 0 THEN RetryMin ELSE Least(2 * s.delay, RetryMax)
        wait == IF hint > d THEN Least(hint, RetryMax) ELSE d
    IN  [s EXCEPT !.delay = d, !.until = now + wait]

\* recordEarlyEndLocked: the first early end only starts the count.
TolerateTwo(b) ==
    IF b.until = 0 THEN [NoBackoff EXCEPT !.until = now, !.early = 1]
    ELSE LET e == [b EXCEPT !.early = @ + 1] IN
         IF e.early < 3 THEN e ELSE RecordFailure(e, 0)
RecordEarlyEnd(b) ==
    IF b.until = 0 THEN [NoBackoff EXCEPT !.until = now, !.early = 1]
    ELSE LET e == [b EXCEPT !.early = @ + 1] IN
         IF e.early < 2 THEN e ELSE RecordFailure(e, 0)

\* forget's switch: a useful end resets the entry, then the end is recorded.
Accounted(b, e) ==
    LET r == IF e.useful THEN NoBackoff ELSE b IN
    CASE e.kind = "unavailable" -> RecordFailure(r, e.hint)
      [] e.kind = "early"       -> RecordEarlyEnd(r)
      [] OTHER                  -> r

\* recordEarlyEndLocked keeps the count of early ends for a period when its entry is new,
\* or just renewed by a failure; it does not renew an older entry, nor count past a sweep.
Kept == backoff'.early > 0 /\ backoff'.until >= now

\* forget: only the registered scope is dropped and accounted for.
ForgetAny(i, e) ==
    /\ scopes' = None
    /\ backoff' = Accounted(backoff, e)
    /\ UNCHANGED histVars
Forget(i, e) ==
    \/ /\ scopes = i
       /\ scopes' = None
       /\ backoff' = Accounted(backoff, e)
       /\ lastEarly' = IF e.kind = "early" THEN IF Kept THEN now ELSE 0
                       ELSE IF e.useful THEN 0 ELSE lastEarly
       /\ lastFailed' = IF \/ e.kind = "unavailable"
                           \/ /\ e.kind = "early" /\ lastEarly # 0 /\ ~e.useful
                              /\ now <= lastEarly + RetryMax
                        THEN now ELSE lastFailed
    \/ /\ scopes # i
       /\ UNCHANGED <<scopes, backoff, histVars>>

\* backoffRemainingLocked is positive.
BackingOff == backoff.until > now

-----------------------------------------------------------------------------
\* Watch: one critical section of SharedBackend.mu decides how.  (A caller whose context is
\* done before it gets there returns, and has touched nothing.)

\* A scope is published: subscribe to it, after the lock is released.
WatchScope(c) ==
    /\ pc[c] = "idle" /\ scopes # None
    /\ pc' = [pc EXCEPT ![c] = "subscribing"]
    /\ at' = [at EXCEPT ![c] = scopes]
    /\ UNCHANGED <<now, backendVars, openingVars, scopeVars, upVars, useful, histVars>>

\* An opening is under way: wait for it.
WatchOpening(c) ==
    /\ pc[c] = "idle" /\ scopes = None /\ openings # None
    /\ pc' = [pc EXCEPT ![c] = "waiting"]
    /\ at' = [at EXCEPT ![c] = openings]
    /\ waiters' = [waiters EXCEPT ![openings] = @ + 1]
    /\ UNCHANGED <<now, backendVars, done, share, scopeVars, upVars, useful, histVars>>

\* The upstream is failing: the caller is told when to come back.
WatchRefused(c) ==
    /\ pc[c] = "idle" /\ scopes = None /\ openings = None /\ BackingOff
    /\ UNCHANGED vars

\* beginOpeningLocked, and the opener is its first waiter.
WatchBegin(c) ==
    /\ pc[c] = "idle" /\ scopes = None /\ openings = None /\ ~BackingOff
    /\ started < MaxInc
    /\ started' = started + 1
    /\ openings' = started'
    /\ pc' = [pc EXCEPT ![c] = "waiting"]
    /\ at' = [at EXCEPT ![c] = started']
    /\ waiters' = [waiters EXCEPT ![started'] = 1]
    /\ up' = [up EXCEPT ![started'] = "calling"]
    /\ UNCHANGED <<now, scopes, backoff, done, share, scopeVars, cancelled, useful,
                   histVars>>

-----------------------------------------------------------------------------
\* settle: the upstream's Watch call returned.

\* Nobody waits any more: the watcher is stopped, and nothing else is touched.
SettleAbandoned(i) ==
    /\ up[i] = "calling" /\ openings # i
    /\ up' = [up EXCEPT ![i] = "stopped"]
    /\ cancelled' = [cancelled EXCEPT ![i] = TRUE]
    /\ UNCHANGED <<now, backendVars, openingVars, scopeVars, callerVars, histVars>>

\* It failed: UPSTREAM_UNAVAILABLE with a hint, or (kind other) anything else.
SettleFailed(i, kind, hint) ==
    /\ up[i] = "calling" /\ openings = i
    /\ openings' = None
    /\ done' = [done EXCEPT ![i] = TRUE]
    /\ up' = [up EXCEPT ![i] = "stopped"]
    /\ cancelled' = [cancelled EXCEPT ![i] = TRUE]
    /\ backoff' = IF kind = "unavailable" THEN RecordFailure(backoff, hint) ELSE backoff
    /\ lastFailed' = IF kind = "unavailable" THEN now ELSE lastFailed
    /\ UNCHANGED <<now, scopes, started, waiters, share, scopeVars, callerVars, lastEarly>>

\* It opened: the scope is published with one subscription per waiter.
AttachOne(i) == 1
AttachAll(i) == waiters[i]

SettleOpen(i) ==
    /\ up[i] = "calling" /\ openings = i
    /\ openings' = None /\ scopes' = i
    /\ done' = [done EXCEPT ![i] = TRUE]
    /\ up' = [up EXCEPT ![i] = "open"]
    /\ share' = [share EXCEPT ![i] = AttachAll(i)]
    /\ members' = [members EXCEPT ![i] = AttachAll(i)]
    /\ pump' = [pump EXCEPT ![i] = "reading"]
    /\ UNCHANGED <<now, backoff, started, waiters, dead, syncedAt, end, cancelled,
                   callerVars, histVars>>

\* The incarnation's opening returned an error (sharedOpening.err).
Failed(i) == done[i] /\ pump[i] = "none"

-----------------------------------------------------------------------------
\* The caller, waiting, subscribed, leaving.

\* collect: the failure, or one of the subscriptions attached for the waiters.
Collect(c) ==
    LET i == at[c] IN
    /\ pc[c] = "waiting" /\ done[i]
    /\ Goto(c, IF Failed(i) THEN "idle" ELSE "subscribed")
    /\ share' = [share EXCEPT ![i] = IF Failed(i) THEN @ ELSE @ - 1]
    /\ UNCHANGED <<now, backendVars, done, waiters, scopeVars, upVars, useful,
                   histVars>>

\* abandon, the opening not settled: the last waiter out unregisters it.
AbandonNoCancel(c) ==
    LET i == at[c] IN
    /\ pc[c] = "waiting" /\ ~done[i]
    /\ waiters' = [waiters EXCEPT ![i] = @ - 1]
    /\ openings' = IF waiters[i] = 1 THEN None ELSE openings
    /\ Goto(c, "idle")
    /\ UNCHANGED <<now, scopes, backoff, started, done, share, scopeVars, upVars, useful,
                   histVars>>
Abandon(c) ==
    LET i == at[c] IN
    /\ pc[c] = "waiting" /\ ~done[i]
    /\ waiters' = [waiters EXCEPT ![i] = @ - 1]
    /\ openings' = IF waiters[i] = 1 /\ openings = i THEN None ELSE openings
    /\ Goto(c, IF waiters[i] = 1 THEN "withdrawing" ELSE "idle")
    /\ UNCHANGED <<now, scopes, backoff, started, done, share, scopeVars, upVars, useful,
                   histVars>>

\* ... and cancels it, after the lock is released.
Withdraw(c) ==
    /\ pc[c] = "withdrawing"
    /\ cancelled' = [cancelled EXCEPT ![at[c]] = TRUE]
    /\ Goto(c, "idle")
    /\ UNCHANGED <<now, backendVars, openingVars, scopeVars, up, useful, histVars>>

\* abandon, the opening settled first: the waiter owns a share, and gives it up.
AbandonSettled(c) ==
    /\ pc[c] = "waiting" /\ done[at[c]]
    /\ Goto(c, "releasing")
    /\ UNCHANGED <<now, backendVars, openingVars, scopeVars, upVars, useful, histVars>>

\* subscribe: attach, unless the scope died since the lookup (ErrWatchClosed).
Subscribe(c) ==
    LET i == at[c] IN
    /\ pc[c] = "subscribing"
    /\ members' = [members EXCEPT ![i] = IF dead[i] THEN @ ELSE @ + 1]
    /\ Goto(c, IF dead[i] THEN "idle" ELSE "subscribed")
    /\ UNCHANGED <<now, backendVars, openingVars, dead, syncedAt, pump, end, upVars,
                   useful, histVars>>

\* usefulLocked.
Useful(i) == syncedAt[i] # 0 /\ now >= syncedAt[i] + MinUseful

\* leave's `empty`: the caller's is the last subscription of a live scope.
LastMember(i) == ~dead[i] /\ members[i] = 1

\* leave's critical section, for a reader that is done or was told it is over.
\* die has emptied a dead scope's subs already.
LeaveScope(c) ==
    LET i == at[c] IN
    /\ members' = [members EXCEPT ![i] = IF dead[i] THEN @ ELSE @ - 1]
    /\ dead' = [dead EXCEPT ![i] = @ \/ LastMember(i)]
    /\ useful' = [useful EXCEPT ![c] = LastMember(i) /\ Useful(i)]
    /\ Goto(c, IF LastMember(i) THEN "forgetting" ELSE "idle")
    /\ UNCHANGED <<now, backendVars, done, waiters, syncedAt, pump, end, upVars,
                   histVars>>

Leave(c) == pc[c] = "subscribed" /\ LeaveScope(c) /\ UNCHANGED share

\* abandon's collect and Stop; a failed opening has nothing to stop.
Release(c) ==
    /\ pc[c] = "releasing"
    /\ \/ /\ Failed(at[c])
          /\ Goto(c, "idle")
          /\ UNCHANGED <<now, backendVars, openingVars, scopeVars, upVars, useful,
                         histVars>>
       \/ /\ ~Failed(at[c])
          /\ share' = [share EXCEPT ![at[c]] = @ - 1]
          /\ LeaveScope(c)

\* leave, once empty: forget the scope (no failure, but a useful watch still
\* resets the backoff), then cancel its upstream.
LeaveForget(c) ==
    /\ pc[c] = "forgetting"
    /\ Forget(at[c], [NoEnd EXCEPT !.useful = useful[c]])
    /\ Goto(c, "cancelling")
    /\ useful' = [useful EXCEPT ![c] = FALSE]
    /\ UNCHANGED <<now, openings, started, openingVars, scopeVars, upVars>>

LeaveCancel(c) ==
    /\ pc[c] = "cancelling"
    /\ cancelled' = [cancelled EXCEPT ![at[c]] = TRUE]
    /\ Goto(c, "idle")
    /\ UNCHANGED <<now, backendVars, openingVars, scopeVars, up, useful, histVars>>

-----------------------------------------------------------------------------
\* The scope's pump.

\* The upstream's initial events end.
Sync(i) ==
    /\ pump[i] = "reading" /\ syncedAt[i] = 0
    /\ syncedAt' = [syncedAt EXCEPT ![i] = now]
    /\ UNCHANGED <<now, backendVars, openingVars, members, dead, pump, end, upVars,
                   callerVars, histVars>>

\* die classifies the end: UPSTREAM_UNAVAILABLE; a close or RESYNC_REQUIRED,
\* early unless the watch was of use; anything else, its cancellation included.
Die(i, kind, hint) ==
    /\ pump[i] = "reading"
    /\ pump' = [pump EXCEPT ![i] = "forgetting"]
    /\ end' = [end EXCEPT ![i] =
                 [useful |-> Useful(i), hint |-> hint,
                  kind   |-> IF kind = "early" /\ Useful(i) THEN "other" ELSE kind]]
    /\ UNCHANGED <<now, backendVars, openingVars, members, dead, syncedAt, upVars,
                   callerVars, histVars>>

DieForget(i) ==
    /\ pump[i] = "forgetting"
    /\ Forget(i, end[i])
    /\ pump' = [pump EXCEPT ![i] = "cancelling"]
    /\ end' = [end EXCEPT ![i] = NoEnd]
    /\ UNCHANGED <<now, openings, started, openingVars, members, dead, syncedAt,
                   upVars, callerVars>>

DieCancel(i) ==
    /\ pump[i] = "cancelling"
    /\ pump' = [pump EXCEPT ![i] = "ending"]
    /\ cancelled' = [cancelled EXCEPT ![i] = TRUE]
    /\ UNCHANGED <<now, backendVars, openingVars, members, dead, syncedAt, end, up,
                   callerVars, histVars>>

\* die's last part; then pump returns and its deferred Stop runs.  Nothing reads
\* syncedAt any more: a later leave finds the scope dead, so it is reset.
DieEnd(i) ==
    /\ pump[i] = "ending"
    /\ pump' = [pump EXCEPT ![i] = "stopped"]
    /\ dead' = [dead EXCEPT ![i] = TRUE]
    /\ members' = [members EXCEPT ![i] = 0]
    /\ up' = [up EXCEPT ![i] = "stopped"]
    /\ syncedAt' = [syncedAt EXCEPT ![i] = 0]
    /\ UNCHANGED <<now, backendVars, openingVars, end, cancelled, callerVars, histVars>>

-----------------------------------------------------------------------------
Tick ==
    /\ now < MaxTime
    /\ now' = now + 1
    /\ UNCHANGED <<backendVars, openingVars, scopeVars, upVars, callerVars, histVars>>

\* Another key's recordFailureLocked sweeps this key's entry too.
OtherKeySweeps ==
    /\ Quiet(backoff)
    /\ backoff' = NoBackoff
    /\ UNCHANGED <<now, openings, scopes, started, openingVars, scopeVars, upVars,
                   callerVars, histVars>>

Watch(c) == WatchScope(c) \/ WatchOpening(c) \/ WatchRefused(c) \/ WatchBegin(c)
Stop(c) == LeaveForget(c) \/ LeaveCancel(c) \/ Withdraw(c) \/ Release(c)
Dying(i) == DieForget(i) \/ DieCancel(i) \/ DieEnd(i)

Next ==
    \/ Tick \/ OtherKeySweeps
    \/ \E c \in Callers : \/ Watch(c) \/ Collect(c) \/ Subscribe(c)
                          \/ Abandon(c) \/ AbandonSettled(c)
                          \/ Leave(c) \/ Stop(c)
    \/ \E i \in Incs : \/ SettleAbandoned(i) \/ SettleOpen(i)
                       \/ SettleFailed(i, "other", 0)
                       \/ \E h \in Hints : SettleFailed(i, "unavailable", h)
                       \/ Sync(i)
                       \/ Die(i, "other", 0) \/ Die(i, "early", 0)
                       \/ \E h \in Hints : Die(i, "unavailable", h)
                       \/ Dying(i)

\* Started goroutines and deferred calls run; a caller whose scope is dead is told
\* so and leaves; an upstream whose context is cancelled returns from its call or
\* ends its watch (the Backend contract).  Nothing else is promised.
Fairness ==
    /\ \A c \in Callers : /\ WF_vars(Collect(c) \/ AbandonSettled(c))
                          /\ WF_vars(Subscribe(c))
                          /\ WF_vars(Stop(c))
                          /\ WF_vars(pc[c] = "subscribed" /\ dead[at[c]] /\ Leave(c))
    /\ \A i \in Incs : /\ WF_vars(cancelled[i] /\ SettleAbandoned(i))
                       /\ WF_vars(cancelled[i] /\ Die(i, "other", 0))
                       /\ WF_vars(Dying(i))

Spec == Init /\ [][Next]_vars /\ Fairness

-----------------------------------------------------------------------------
Waiting(i) == {c \in Callers : pc[c] = "waiting" /\ at[c] = i}
Owed(i) == {c \in Callers : pc[c] \in {"waiting", "releasing"} /\ at[c] = i}
Subscribed(i) == {c \in Callers : pc[c] = "subscribed" /\ at[c] = i}

\* An unsettled opening counts exactly its waiters and is registered as long as
\* it has one, so nobody waits for an opening no one will settle; once it has
\* opened there is one uncollected subscription for each caller that has yet to
\* take or release its own, so collect never runs out (settle, collect, abandon).
EveryWaiterHasAShare ==
    TypeOK /\ \A i \in Incs :
        /\ ~done[i] => waiters[i] = Cardinality(Waiting(i))
        /\ openings = i <=> ~done[i] /\ waiters[i] > 0
        /\ done[i] /\ ~Failed(i) => share[i] = Cardinality(Owed(i))

\* A live scope's subscribers are the callers that hold one and the shares still
\* to be collected, and there is at least one: the scope never holds an upstream
\* watch without someone who will release it (settle, subscribe, leave, die).
EveryScopeIsHeld ==
    \A i \in Incs : pump[i] # "none" /\ ~dead[i] =>
        /\ members[i] = share[i] + Cardinality(Subscribed(i))
        /\ members[i] > 0

\* Both: whoever waits or subscribes is counted once, and whatever is open is held by
\* someone who will release it.
SharesAreHeld == EveryWaiterHasAShare /\ EveryScopeIsHeld

\* At most one upstream watch is in use.  Any other is abandoned: it is
\* cancelled, its pump is dying, or someone is on the way to cancel it.
OneUpstream ==
    /\ openings = None \/ scopes = None
    /\ \A i \in Incs : up[i] \in {"calling", "open"} /\ i \notin {openings, scopes} =>
          \/ cancelled[i]
          \/ pump[i] \in {"forgetting", "cancelling"}
          \/ \E c \in Callers : at[c] = i /\ pc[c] \in {"withdrawing", "cancelling"}

\* The upstream is left alone for at least RetryMin after it proved to be
\* failing: an UPSTREAM_UNAVAILABLE of an opening or of the registered scope, or an
\* early end within RetryMax of one whose count is kept for that period, with no useful
\* watch between.  No late end of an obsolete scope, and no sweep, lifts that wait
\* (forget, recordFailureLocked); nor does such an end start one.  And it is never left
\* alone for longer than RetryMax, whatever it hints.
FailingUpstreamLeftAlone ==
    [][/\ started' # started /\ lastFailed # 0 => now >= lastFailed + RetryMin
       /\ backoff'.until <= now' + RetryMax]_vars

\* When every caller has gone for good, every upstream call has returned and
\* every upstream watch is stopped.
UpstreamsReleased ==
    <>[](\A c \in Callers : pc[c] = "idle")
        => <>[](\A i \in Incs : up[i] \in {"none", "stopped"})
=============================================================================
