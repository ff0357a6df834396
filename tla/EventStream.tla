---------------------------- MODULE EventStream ----------------------------
(***************************************************************************)
(* One HTTP request of a stream, end to end: gateway/handler.go admits it,  *)
(* serveHTTP of gateway/sse.go runs it, and sse.ts reads it.  Three         *)
(* goroutines share the response: the stream loop, the heartbeat, and the   *)
(* timed reauthorization check.  The loop emits through the check's gate    *)
(* (authorizationSink), the sequence numbers (sequenceSink) and the sink's  *)
(* lock (SSESink.operation); the heartbeat takes the lock only.  Between    *)
(* server and client is an intermediary that may lose a frame.              *)
(*                                                                          *)
(* What the events say is StreamLoop's subject: here an event is a state, an *)
(* error to retry after, or a terminal error.                               *)
(***************************************************************************)
EXTENDS Admission

CONSTANTS
    Policies,       \* the hosts: their scope policy and their authorizer
    Requests,       \* the requests made of them
    WriteTimeout,   \* StreamConfig.WriteTimeout > 0
    MaxSeq          \* bound: state events of a connection

ASSUME AdmissionAssumption == Policies \subseteq ScopePolicies /\ Requests \subseteq RequestTypes

\* validateHTTPServing: timed checks require a write bound.
ASSUME ServingAssumption == WriteTimeout = TRUE
ASSUME BoundAssumption == MaxSeq \in Nat

VARIABLES
    request,    \* the host's policy and the request; once decided, what is left to decide
    place,      \* where the handler's goroutine is
    verdict,    \* the error it is to send
    op,         \* SSESink.operation of the loop and of the heartbeat
    frame,      \* what the loop is writing
    seq,        \* sequenceSink.seq
    failed,     \* SSESink.failed
    ctx,        \* the request's context is done
    cycleCtx,   \* the cycle's context is done
    gate,       \* who holds authorizationSink.mu
    check,      \* where the timed check is
    authErr,    \* what it sent on done
    beat,       \* where the heartbeat is
    grants,     \* the verbs the cluster grants the caller, and the view its host does
    granted,    \* history: what was asked and granted since the last check of all began
    written,    \* history: frames put on the response
    wire,       \* frames on their way to the client
    client,     \* what streamOnce has come to
    applied,    \* frames the client took
    stalled,    \* the client has stopped reading
    fault       \* history: the network, the client or the session's end interfered

hostVars   == <<request, grants, granted>>
loopVars   == <<place, verdict, frame, seq>>
sinkVars   == <<op, failed, written, wire>>
checkVars  == <<gate, check, authErr, cycleCtx>>
clientVars == <<client, applied, stalled>>
vars == <<hostVars, loopVars, sinkVars, checkVars, clientVars, beat, ctx, fault>>

\* An authorization: a review of each verb, and the choice of a projection.
Reviewing == {"list", "watch"}
Asking == Reviewing \cup {"projection"}
AfterReview(verb) == IF verb = "list" THEN "watch" ELSE "projection"

Event(n, kind) == [seq |-> n, kind |-> kind]
Headers == Event(0, "headers")
Torn == Event(0, "torn")
ErrorKind(v) == IF v.terminal THEN "terminal" ELSE "retry"

Init ==
    /\ request \in [policy : Policies, asked : Requests]
    /\ grants = Asking /\ granted = {}
    /\ place = "handler" /\ verdict = Admitted /\ frame = Headers /\ seq = 0
    /\ op = [w \in {"loop", "beat"} |-> "none"] /\ failed = FALSE
    /\ written = <<>> /\ wire = <<>>
    /\ gate = "free" /\ check = "off" /\ authErr = Admitted /\ cycleCtx = FALSE
    /\ client = "reading" /\ applied = <<>> /\ stalled = FALSE
    /\ beat = "off" /\ ctx = FALSE /\ fault = FALSE

-----------------------------------------------------------------------------
\* SSESink.operation, under the sink's lock.

Writing(w) == op[w] = "write"
LockFree == \A w \in DOMAIN op : ~Writing(w)

\* The context an operation is given: the cycle's for an event of a cycle.
CtxDone(w) == ctx \/ (w = "loop" /\ place = "emitting" /\ cycleCtx)

\* A failed sink stays failed; a finished context fails it, and cancels the request.
Enter(w) ==
    /\ op[w] = "enter" /\ LockFree
    /\ \/ /\ failed
          /\ op' = [op EXCEPT ![w] = "err"]
          /\ UNCHANGED <<failed, ctx>>
       \/ /\ ~failed /\ CtxDone(w)
          /\ op' = [op EXCEPT ![w] = "err"]
          /\ failed' = TRUE /\ ctx' = TRUE
       \/ /\ ~failed /\ ~CtxDone(w)
          /\ op' = [op EXCEPT ![w] = "write"]
          /\ UNCHANGED <<failed, ctx>>
    /\ UNCHANGED <<hostVars, loopVars, written, wire, checkVars, clientVars, beat, fault>>

\* Write, Flush and the clearing of the deadline succeed.  A heartbeat is a comment,
\* and the headers are not a frame.
WriteSucceeds(w) ==
    /\ Writing(w) /\ ~stalled
    /\ op' = [op EXCEPT ![w] = "ok"]
    /\ LET f == IF w = "loop" /\ frame # Headers THEN <<frame>> ELSE <<>> IN
       written' = written \o f /\ wire' = wire \o f
    /\ UNCHANGED <<hostVars, loopVars, failed, checkVars, clientVars, beat, ctx, fault>>

\* One of them fails: before the frame, in the middle of it, or after all of it.
Left(w) == {<<>>, <<Torn>>} \cup IF w = "loop" /\ frame # Headers THEN {<<frame>>} ELSE {}
FailQuietly(w) ==
    /\ op' = [op EXCEPT ![w] = "err"]
    /\ fault' = TRUE
    /\ \E f \in Left(w) : written' = written \o f /\ wire' = wire \o f
    /\ UNCHANGED <<hostVars, loopVars, failed, ctx, checkVars, clientVars, beat>>
FailWrite(w) ==
    /\ op' = [op EXCEPT ![w] = "err"]
    /\ failed' = TRUE /\ ctx' = TRUE /\ fault' = TRUE
    /\ \E f \in Left(w) : written' = written \o f /\ wire' = wire \o f
    /\ UNCHANGED <<hostVars, loopVars, checkVars, clientVars, beat>>
WriteFails(w) == Writing(w) /\ FailWrite(w)

\* sink.before set a write deadline, and it passes.
Unbounded(w) == FALSE
Bounded(w) == WriteTimeout
DeadlinePasses(w) == Writing(w) /\ stalled /\ Bounded(w) /\ FailWrite(w)

Begin(w) == op' = [op EXCEPT ![w] = "enter"]
Took(w, result) == op[w] = result /\ op' = [op EXCEPT ![w] = "none"]

-----------------------------------------------------------------------------
\* Handler and serveHTTP.

\* What Stream will ask of an admitted request, in every cycle: the authorizer's own
\* refusals and the static projection answer the same each time.  (What the reference says
\* of the request is for the property.)
Unasked(p, r) == IF AuthorizerRefuses(p, r) THEN Forbidden ELSE Admitted
Decided(p, r) == [unasked    |-> Unasked(p, r),
                  projection |-> SelectProjection(r.projection),
                  askable    |-> Askable(p, r),
                  reviewable |-> Reviewable(p, r),
                  entitled   |-> Entitled(p, r)]

\* The request is decided: refuse streams one event, ServeStream a stream.  Either
\* way serveHTTP writes the headers first.
Decide ==
    /\ place = "handler"
    /\ place' = "headers"
    /\ verdict' = Handler(request.policy, request.asked)
    /\ request' = Decided(request.policy, request.asked)
    /\ Begin("loop")
    /\ UNCHANGED <<grants, granted, frame, seq, failed, written, wire, checkVars, clientVars,
                   beat, ctx, fault>>

\* CheckHTTPStreaming: a writer that cannot flush or be bounded aborts the request.
TransportRejected ==
    /\ place = "handler"
    /\ place' = "returned" /\ fault' = TRUE
    /\ request' = Decided(request.policy, request.asked)
    /\ UNCHANGED <<grants, granted, verdict, frame, seq, sinkVars, checkVars, clientVars, beat,
                   ctx>>

\* The headers are out: the heartbeat starts, and the handler runs.
HeadersSent ==
    /\ place = "headers" /\ Took("loop", "ok")
    /\ beat' = "waiting"
    /\ place' = IF verdict = Admitted THEN "subject" ELSE "erring"
    /\ UNCHANGED <<hostVars, verdict, frame, seq, failed, written, wire, checkVars,
                   clientVars, ctx, fault>>
HeadersFailed ==
    /\ place = "headers" /\ Took("loop", "err")
    /\ place' = "returned"
    /\ UNCHANGED <<hostVars, verdict, frame, seq, failed, written, wire, checkVars,
                   clientVars, beat, ctx, fault>>

\* sequenceSink.Emit: the number is spent whether or not the frame arrives.
Emit(kind) ==
    /\ seq' = seq + 1
    /\ frame' = Event(seq + 1, kind)
    /\ Begin("loop")

\* emitError, and refuse: the error is the last event.
EmitError ==
    /\ place = "erring"
    /\ place' = "sending"
    /\ Emit(ErrorKind(verdict))
    /\ UNCHANGED <<hostVars, verdict, failed, written, wire, checkVars, clientVars, beat, ctx,
                   fault>>
ErrorEmitted ==
    /\ place = "sending" /\ \E r \in {"ok", "err"} : Took("loop", r)
    /\ place' = "leaving"
    /\ UNCHANGED <<hostVars, verdict, frame, seq, failed, written, wire, checkVars, clientVars,
                   beat, ctx, fault>>

\* run has returned: cancel, and wait for the heartbeat.
Leave ==
    /\ place = "leaving" /\ ~ctx
    /\ ctx' = TRUE
    /\ UNCHANGED <<hostVars, loopVars, sinkVars, checkVars, clientVars, beat, fault>>
Return ==
    /\ place = "leaving" /\ ctx /\ beat = "stopped"
    /\ place' = "returned"
    /\ UNCHANGED <<hostVars, verdict, frame, seq, sinkVars, checkVars, clientVars, beat,
                   ctx, fault>>

\* Heartbeat: a tick is a comment; an error, or the end of the context, ends it.
HeartbeatTicks ==
    /\ beat = "waiting"
    /\ beat' = "writing" /\ Begin("beat")
    /\ UNCHANGED <<hostVars, loopVars, failed, written, wire, checkVars, clientVars, ctx, fault>>
HeartbeatWritten ==
    /\ beat = "writing" /\ Took("beat", "ok")
    /\ beat' = "waiting"
    /\ UNCHANGED <<hostVars, loopVars, failed, written, wire, checkVars, clientVars, ctx, fault>>
HeartbeatStops ==
    /\ \/ beat = "writing" /\ Took("beat", "err")
       \/ beat = "waiting" /\ ctx /\ UNCHANGED op
    /\ beat' = "stopped" /\ ctx' = TRUE
    /\ UNCHANGED <<hostVars, loopVars, failed, written, wire, checkVars, clientVars, fault>>

-----------------------------------------------------------------------------
\* Stream: each cycle begins with the authorizer and the projection policy, ...

FailWith(v) == place' = "erring" /\ verdict' = v

\* ... the host's own refusals first, ...
CheckSubject ==
    /\ place = "subject"
    /\ \/ request.unasked # Admitted /\ FailWith(request.unasked)
       \/ request.unasked = Admitted /\ place' = "list" /\ UNCHANGED verdict
    /\ UNCHANGED <<hostVars, frame, seq, sinkVars, checkVars, clientVars, beat, ctx, fault>>

\* ... then a review of each verb, ...
Granted(answer, s) == {s} \cap IF answer = "allowed" THEN grants ELSE {}
Review(answer) ==
    /\ place \in Reviewing
    /\ granted' = granted \cup Granted(answer, place)
    /\ LET v == ReviewVerdict(answer, place \in grants) IN
       \/ v # Admitted /\ FailWith(v)
       \/ v = Admitted /\ place' = AfterReview(place) /\ UNCHANGED verdict
    /\ UNCHANGED <<request, grants, frame, seq, sinkVars, checkVars, clientVars, beat, ctx, fault>>

\* ... then the projection.  A host's own policy may refuse it later, or fail.
Project(answer) ==
    /\ place = "projection"
    /\ granted' = granted \cup Granted(answer, place)
    /\ LET v == IF request.projection # Admitted THEN request.projection
                ELSE ReviewVerdict(answer, place \in grants) IN
       \/ v # Admitted /\ FailWith(v)
       \/ v = Admitted /\ place' = "opening" /\ UNCHANGED verdict
    /\ UNCHANGED <<request, grants, frame, seq, sinkVars, checkVars, clientVars, beat, ctx, fault>>

\* Clients: the host has no backend for the caller.
Unreachable == Verdict("UPSTREAM_UNAVAILABLE", FALSE)
NoClient(v) ==
    /\ place = "opening" /\ FailWith(v)
    /\ UNCHANGED <<hostVars, frame, seq, sinkVars, checkVars, clientVars, beat, ctx, fault>>

\* authorizedCycle: a new gate, and the goroutine of the timed check.
OpenCycle ==
    /\ place = "opening"
    /\ place' = "cycle" /\ check' = "waiting"
    /\ cycleCtx' = FALSE /\ authErr' = Admitted /\ gate' = "free"
    /\ UNCHANGED <<hostVars, verdict, frame, seq, sinkVars, clientVars, beat, ctx, fault>>

\* cycle emits an event: through the gate, which a finished context closes.
GateRefuses == ctx \/ cycleCtx
EnterGate ==
    /\ place = "cycle" /\ gate = "free" /\ seq < MaxSeq /\ ~GateRefuses
    /\ place' = "emitting" /\ gate' = "loop"
    /\ Emit("state")
    /\ UNCHANGED <<hostVars, verdict, failed, written, wire, check, authErr, cycleCtx,
                   clientVars, beat, ctx, fault>>
EventEmitted ==
    /\ place = "emitting" /\ Took("loop", "ok")
    /\ place' = "cycle" /\ gate' = "free"
    /\ UNCHANGED <<hostVars, verdict, frame, seq, failed, written, wire, check, authErr,
                   cycleCtx, clientVars, beat, ctx, fault>>
EventFailed ==
    /\ place = "emitting" /\ Took("loop", "err")
    /\ place' = "joining" /\ gate' = "free" /\ verdict' = Internal
    /\ UNCHANGED <<hostVars, frame, seq, failed, written, wire, check, authErr, cycleCtx,
                   clientVars, beat, ctx, fault>>

\* cycle ends: the upstream failed, lost continuity, or a context is done.
Recoverable == Verdict("RESYNC_REQUIRED", FALSE)
CycleEnds(v) ==
    /\ place = "cycle"
    /\ v = Admitted => GateRefuses
    /\ v = Recoverable => seq < MaxSeq
    /\ place' = "joining" /\ verdict' = v
    /\ UNCHANGED <<hostVars, frame, seq, sinkVars, checkVars, clientVars, beat, ctx, fault>>

\* authorizedCycle: cancel, and wait for the check.
CancelCycle ==
    /\ place = "joining" /\ ~cycleCtx
    /\ cycleCtx' = TRUE
    /\ UNCHANGED <<hostVars, loopVars, sinkVars, gate, check, authErr, clientVars, beat, ctx,
                   fault>>
\* What Stream makes of the ending: nothing more once the request is over, else the
\* check's error before the cycle's; continuity is announced and recovered in band.
Join ==
    /\ place = "joining" /\ cycleCtx /\ check = "stopped"
    /\ LET v == IF authErr # Admitted THEN authErr ELSE verdict IN
       \/ /\ ctx /\ place' = "leaving" /\ verdict' = v
       \/ /\ ~ctx /\ v = Recoverable /\ place' = "announcing" /\ verdict' = Admitted
       \/ /\ ~ctx /\ v # Recoverable /\ FailWith(v)
    /\ check' = "off" /\ granted' = {}
    /\ UNCHANGED <<request, grants, frame, seq, sinkVars, gate, authErr, cycleCtx, clientVars, beat,
                   ctx, fault>>
Announce ==
    /\ place = "announcing" /\ op["loop"] = "none"
    /\ place' = "announced"
    /\ Emit("state")
    /\ UNCHANGED <<hostVars, verdict, failed, written, wire, checkVars, clientVars, beat, ctx,
                   fault>>
AnnouncedUnasked ==
    /\ place = "announced"
    /\ \/ Took("loop", "ok") /\ place' = "opening"
       \/ Took("loop", "err") /\ place' = "leaving"
    /\ UNCHANGED <<hostVars, verdict, frame, seq, failed, written, wire, checkVars, clientVars,
                   beat, ctx, fault>>
Announced ==
    /\ place = "announced"
    /\ \/ Took("loop", "ok") /\ place' = "subject"
       \/ Took("loop", "err") /\ place' = "leaving"
    /\ UNCHANGED <<hostVars, verdict, frame, seq, failed, written, wire, checkVars, clientVars,
                   beat, ctx, fault>>

-----------------------------------------------------------------------------
\* The timed check: it holds the gate from its first review to its verdict, which is
\* the projection's.
CheckBegins ==
    /\ check = "waiting" /\ gate = "free"
    /\ gate' = "check" /\ check' = "list" /\ granted' = {}
    /\ UNCHANGED <<request, grants, loopVars, sinkVars, authErr, cycleCtx, clientVars, beat, ctx,
                   fault>>
CheckPasses(answer) ==
    /\ check \in Asking /\ ~ctx /\ ~cycleCtx
    /\ ReviewVerdict(answer, check \in grants) = Admitted
    /\ granted' = granted \cup Granted(answer, check)
    /\ \/ check \in Reviewing /\ check' = AfterReview(check) /\ UNCHANGED gate
       \/ check = "projection" /\ check' = "waiting" /\ gate' = "free"
    /\ UNCHANGED <<request, grants, loopVars, sinkVars, authErr, cycleCtx, clientVars, beat, ctx,
                   fault>>

\* A refusal, or no answer in time, cancels the cycle while the gate is still held.
\* Only an unreachable authority may be retried.
ReleaseThenCancel(answer) ==
    /\ check \in Asking \cup {"cancel"}
    /\ \/ /\ check \in Asking
          /\ ReviewVerdict(answer, check \in grants) # Admitted
          /\ authErr' = ReviewVerdict(answer, check \in grants)
          /\ gate' = "free" /\ check' = "cancel" /\ UNCHANGED cycleCtx
       \/ /\ check = "cancel"
          /\ cycleCtx' = TRUE /\ check' = "stopped"
          /\ UNCHANGED <<authErr, gate>>
    /\ UNCHANGED <<hostVars, loopVars, sinkVars, clientVars, beat, ctx, fault>>
CheckRefuses(answer) ==
    /\ check \in Asking
    /\ LET v == ReviewVerdict(answer, check \in grants) IN
       /\ v # Admitted
       /\ authErr' = v
    /\ cycleCtx' = TRUE /\ gate' = "free" /\ check' = "stopped"
    /\ UNCHANGED <<hostVars, loopVars, sinkVars, clientVars, beat, ctx, fault>>

\* The cycle is over: the goroutine ends; a check it interrupts is no refusal.
CheckStops ==
    /\ check \in {"waiting"} \cup Asking /\ (ctx \/ cycleCtx)
    /\ check' = "stopped"
    /\ gate' = IF gate = "check" THEN "free" ELSE gate
    /\ UNCHANGED <<hostVars, loopVars, sinkVars, authErr, cycleCtx, clientVars, beat, ctx, fault>>

-----------------------------------------------------------------------------
\* The cluster, the network and the client.

\* What is granted changes once (the bound), while a question may still follow.
Revoke(verb) ==
    /\ verb \in grants /\ grants = Asking
    /\ place \notin {"handler", "headers", "erring", "sending", "leaving", "returned"}
    /\ grants' = grants \ {verb}
    /\ UNCHANGED <<request, granted, loopVars, sinkVars, checkVars, clientVars, beat, ctx, fault>>

\* The client goes, or the session's deadline (sharedstream.Handler) passes.
ContextEnds ==
    /\ ~ctx /\ place \notin {"handler", "returned"}
    /\ ctx' = TRUE /\ fault' = TRUE
    /\ UNCHANGED <<hostVars, loopVars, sinkVars, checkVars, clientVars, beat>>

\* An intermediary loses a frame, or mangles it so that parseFrame skips it, and may do so
\* again.  (A frame nobody will read is lost on nobody.)
Lose(i) ==
    /\ i \in DOMAIN wire /\ client = "reading" /\ ~stalled
    /\ wire' = SubSeq(wire, 1, i - 1) \o SubSeq(wire, i + 1, Len(wire))
    /\ fault' = TRUE
    /\ UNCHANGED <<hostVars, loopVars, op, failed, written, checkVars, clientVars, beat, ctx>>

\* The client stops reading: what it does not take blocks the next write.
Stall ==
    /\ client = "reading" /\ ~stalled
    /\ stalled' = TRUE
    /\ UNCHANGED <<hostVars, loopVars, sinkVars, checkVars, client, applied, beat, ctx, fault>>

\* StreamSequence.observe.
AnyNumber(f) == TRUE
InSequence(f) == f.seq = Len(applied) + 1

\* streamOnce's deliver: the sequence first, then the event; an incomplete frame is
\* never delivered.
Deliver ==
    /\ client = "reading" /\ ~stalled /\ wire # <<>> /\ Head(wire) # Torn
    /\ wire' = Tail(wire)
    /\ \/ /\ ~InSequence(Head(wire))
          /\ client' = "gap" /\ UNCHANGED applied
       \/ /\ InSequence(Head(wire))
          /\ applied' = Append(applied, Head(wire))
          /\ client' = IF Head(wire).kind = "terminal" THEN "terminal" ELSE "reading"
    /\ UNCHANGED <<hostVars, loopVars, op, failed, written, checkVars, stalled, beat, ctx, fault>>

\* The response ends: the caller decides about the next connection.
EndOfStream ==
    /\ client = "reading" /\ ~stalled /\ place = "returned"
    /\ wire \in {<<>>, <<Torn>>}
    /\ client' = "eof"
    /\ UNCHANGED <<hostVars, loopVars, sinkVars, checkVars, applied, stalled, beat, ctx, fault>>

-----------------------------------------------------------------------------
Loop ==
    \/ Decide \/ HeadersSent \/ HeadersFailed \/ EmitError \/ ErrorEmitted \/ Leave \/ Return
    \/ CheckSubject \/ (\E a \in Answers : Review(a) \/ Project(a)) \/ OpenCycle
    \/ EventEmitted \/ EventFailed \/ CycleEnds(Admitted) \/ CancelCycle \/ Join
    \/ Announce \/ Announced
Check == CheckStops \/ \E a \in Answers : CheckPasses(a) \/ CheckRefuses(a)
Writes(w) == Enter(w) \/ WriteSucceeds(w) \/ DeadlinePasses(w)

Next ==
    \/ Loop \/ TransportRejected
    \/ EnterGate
    \/ (\E v \in {Recoverable, Internal, Unreachable} : CycleEnds(v))
    \/ (\E v \in {Internal, Unreachable} : NoClient(v))
    \/ HeartbeatTicks \/ HeartbeatWritten \/ HeartbeatStops
    \/ CheckBegins \/ Check
    \/ \E w \in {"loop", "beat"} : Writes(w) \/ WriteFails(w)
    \/ \E verb \in Asking : Revoke(verb)
    \/ ContextEnds \/ (\E i \in DOMAIN wire : Lose(i)) \/ Stall
    \/ Deliver \/ EndOfStream

\* The goroutines run, the tickers fire, a review is answered within its timeout, and a
\* blocked write ends at its deadline.  sync.Mutex does not starve a waiter, so the check
\* gets the gate and a writer the sink.  Nobody promises that the client reads.
Fairness ==
    /\ WF_vars(Loop) /\ WF_vars(Check) /\ SF_vars(CheckBegins)
    /\ WF_vars(HeartbeatWritten \/ HeartbeatStops)
    /\ \A w \in {"loop", "beat"} : SF_vars(Enter(w)) /\ WF_vars(Writes(w))

Spec == Init /\ [][Next]_vars /\ Fairness

-----------------------------------------------------------------------------
\* The client applies a prefix of what was written, whatever the intermediary loses:
\* never an event beyond one it did not see (StreamSequence, "close and reconnect rather
\* than applying a possibly stale tail").
AppliedIsPrefix ==
    /\ Len(applied) <= Len(written)
    /\ applied = SubSeq(written, 1, Len(applied))

\* A frame cut short is the last thing on the response: the goroutine that waited for the
\* lock meanwhile does not write after it (SSESink.operation, "cannot revive it").
TornIsLast == \A i \in DOMAIN written : written[i] = Torn => i = Len(written)

\* The client learns the truth about the end.  It sees a gap only if the network lost
\* something; and a request that ends with an error, by a timed check's refusal above all,
\* has that error as its last event unless the network, the client or the session ended it
\* first: a cancelled cycle never poisons the sink it shares with the error.
TruthfulEnd ==
    /\ client = "gap" => fault
    /\ place = "returned" /\ ~fault
          => /\ written # <<>>
             /\ written[Len(written)].kind = ErrorKind(verdict)

\* No gate is skipped: the authorizer is asked about a request that session, syntax and
\* allowlist let through, the cluster about one the authorizer did not refuse by itself,
\* and a cycle, like every event in it, follows both verbs and the view having been granted
\* since its authorization, or the last timed check, began (Handler, Stream: "re-checked on
\* EVERY cycle, not once at open", authorizedCycle).
NoGateIsSkipped ==
    /\ place = "subject" => request.askable
    /\ place \in Asking => request.reviewable
    /\ place \in {"opening", "emitting"} => request.entitled /\ granted = Asking

\* A request that is over, or whose caller lost its access, comes to an end with both of
\* its goroutines, even if the client has stopped reading with the connection open.
EverybodyLeaves ==
    ctx \/ grants # Asking ~> place = "returned" /\ beat \in {"off", "stopped"}
=============================================================================
