---------------------------- MODULE KubeBackend ----------------------------
(***************************************************************************)
(* gateway/kube/backend.go: the Backend over one API server, serving        *)
(* several streams of one GroupVersion and scope.  Watch asks for a         *)
(* streaming list; a server that cannot serve one refuses it, the Backend   *)
(* remembers that for every later stream, lists, watches from the list and  *)
(* plays the list as a synthesized snapshot (prologueWatcher).              *)
(*                                                                          *)
(* The API server is external: it keeps a history, filters by the selector  *)
(* of a request, refuses, expires, reports errors and closes as it likes.   *)
(***************************************************************************)
EXTENDS Naturals, Sequences, FiniteSets, SequencesExt

CONSTANTS
    Streams,    \* the streams this Backend serves
    Uids,       \* the objects of the API server
    Wanted,     \* the ones the scope's selectors match
    Present,    \* the objects that exist when the first stream opens
    Faults,     \* the ways a request may fail
    MaxRev      \* bound: resourceVersions

ASSUME StreamsAssumption == Streams # {}
ASSUME ScopeAssumption ==
    IsFiniteSet(Uids) /\ Uids # {} /\ Wanted \subseteq Uids /\ Present \subseteq Uids
\* The labels of an end that no request or ERROR event brought.
ASSUME FaultsAssumption == Faults \cap {"none", "closed", "canceled", "garbled"} = {}
ASSUME BoundAssumption == MaxRev \in Nat \ {0}

VARIABLES
    log,            \* API server: [uid, world] for each resourceVersion
    streaming,      \* API server: it serves streaming lists
    listThenWatch,  \* Backend.listThenWatch[gv]
    pc,             \* where each stream's Watch or Watcher is
    list,           \* resourceVersion of the LIST
    queue,          \* prologueWatcher.queue
    feed,           \* ResultChan of the upstream watch
    err,            \* how the stream ended
    told,           \* what the events handed over so far say
    at,             \* the resourceVersion reached
    synced,         \* the boundary has been handed over
    refused         \* history: the server refused this stream a streaming list

serverVars == <<log, streaming>>
vars == <<serverVars, listThenWatch, pc, list, queue, feed, err, told, at, synced, refused>>

Revs == 1 .. MaxRev
Now == Len(log)
Nothing == [u \in Uids |-> 0]

-----------------------------------------------------------------------------
\* Errors.  What the predicates of apierrors, net and x509 say of each: a refused
\* redirect and an untrusted certificate arrive wrapped in a *url.Error, which is a
\* net.Error too.
Facts(f) ==
    CASE f = "redirect"        -> {"redirect", "net"}
      [] f = "untrusted"       -> {"cert", "net"}
      [] f = "network"         -> {"net"}
      [] f = "refused422"      -> {"status", "invalid", "sendInitialEvents"}
      [] f = "refused403"      -> {"status", "forbidden", "sendInitialEvents"}
      [] f = "expired"         -> {"status", "expired"}
      [] f = "unauthorized"    -> {"status", "unauthorized"}
      [] f = "forbidden"       -> {"status", "forbidden"}
      [] f = "notFound"        -> {"status", "notFound"}
      [] f = "tooManyRequests" -> {"status", "tooManyRequests"}
      [] f = "serverError"     -> {"status", "code5xx"}
      [] f = "invalid"         -> {"status", "invalid"}
      [] OTHER                 -> {}

\* isSendInitialEventsRefused: liberal about the status, strict about the field.
AnyForbiddenRefused(f) == Facts(f) \cap {"invalid", "badRequest", "forbidden"} # {}
IsSendInitialEventsRefused(f) ==
    /\ Facts(f) \cap {"invalid", "badRequest", "forbidden"} # {}
    /\ "sendInitialEvents" \in Facts(f)

\* classifyStatus, and the constructors of seams.go.
Verdict(code, terminal) == [code |-> code, terminal |-> terminal]
None == Verdict("NONE", FALSE)
NoError == [fault |-> "none", verdict |-> None]
ClassifyStatus(f) ==
    LET is(x) == x \in Facts(f) IN
    CASE ~is("status")          -> None
      [] is("expired")          -> Verdict("RESYNC_REQUIRED", FALSE)
      [] is("unauthorized")     -> Verdict("UNAUTHENTICATED", TRUE)
      [] is("forbidden")        -> Verdict("FORBIDDEN", TRUE)
      [] is("notFound")         -> Verdict("SCOPE_INVALID", TRUE)
      [] is("tooManyRequests")  -> Verdict("UPSTREAM_UNAVAILABLE", FALSE)
      [] is("code5xx")          -> Verdict("UPSTREAM_UNAVAILABLE", FALSE)
      [] OTHER                  -> None

\* unavailable: a transport failure, which a certificate nobody trusts is not.
Unavailable(f) == "cert" \notin Facts(f) /\ "net" \in Facts(f)

\* asStreamError of what classify returns unchanged.
Internal == Verdict("INTERNAL", TRUE)

\* classify: the redirect first, or it would pass for a transport failure.
ClassifyTransportFirst(f) ==
    IF ClassifyStatus(f) # None THEN ClassifyStatus(f)
    ELSE IF Unavailable(f) THEN Verdict("UPSTREAM_UNAVAILABLE", FALSE)
    ELSE Internal
Classify(f) ==
    IF "redirect" \in Facts(f) THEN Internal
    ELSE IF ClassifyStatus(f) # None THEN ClassifyStatus(f)
    ELSE IF Unavailable(f) THEN Verdict("UPSTREAM_UNAVAILABLE", FALSE)
    ELSE Internal

\* watchError: an ERROR event that cannot be classified loses continuity, no more.
WatchError(f) ==
    IF ClassifyStatus(f) # None THEN ClassifyStatus(f) ELSE Verdict("RESYNC_REQUIRED", FALSE)

-----------------------------------------------------------------------------
\* Requests: the options of a LIST or WATCH, and how the API server answers them.

\* selectors: label selector, and a name as a field selector.
Selectors == [wanted |-> Wanted, from |-> 0, initial |-> FALSE]
StreamingListOptions == [Selectors EXCEPT !.initial = TRUE]
WatchFromNow(s) == [Selectors EXCEPT !.from = Now]
WatchFromList(s) == [Selectors EXCEPT !.from = list[s]]

Added(u, v)    == [type |-> "added", uid |-> u, rv |-> v]
ChangeEvent(v) == [type |-> IF log[v].world[log[v].uid] = 0 THEN "deleted" ELSE "modified",
                   uid |-> log[v].uid, rv |-> v]
BookmarkEnd    == [type |-> "initialEventsEnd"]
Bookmark       == [type |-> "bookmark"]
ErrorEvent     == [type |-> "error"]   \* or an event nothing can be made of
Closed         == [type |-> "closed"]

\* The objects a request sees at resourceVersion v, in some order.
Matching(o, v) == {u \in o.wanted : log[v].world[u] # 0}
Snapshot(o, v) == {[i \in DOMAIN q |-> Added(q[i], log[v].world[q[i]])] :
                      q \in SetToSeqs(Matching(o, v))}

\* The changes it sees after resourceVersion v, in their order.
Changes(o, v) == {w \in v + 1 .. Now : log[w].uid \in o.wanted}
InOrder(S) == {q \in SetToSeqs(S) : \A i, j \in DOMAIN q : i < j => q[i] < q[j]}
Since(o, v) == {[i \in DOMAIN q |-> ChangeEvent(q[i])] : q \in InOrder(Changes(o, v))}

\* A WATCH: the initial events of a streaming list, or what came after `from`.
WatchAnswers(o) ==
    IF o.initial THEN {Append(q, BookmarkEnd) : q \in Snapshot(o, Now)}
    ELSE Since(o, o.from)

Init ==
    /\ log = <<[uid |-> CHOOSE u \in Uids : TRUE,
                world |-> [u \in Uids |-> IF u \in Present THEN 1 ELSE 0]]>>
    /\ streaming \in BOOLEAN
    /\ listThenWatch = FALSE
    /\ pc = [s \in Streams |-> "idle"]
    /\ list = [s \in Streams |-> 0]
    /\ queue = [s \in Streams |-> <<>>]
    /\ feed = [s \in Streams |-> <<>>]
    /\ err = [s \in Streams |-> NoError]
    /\ told = [s \in Streams |-> Nothing]
    /\ at = [s \in Streams |-> 0]
    /\ synced = [s \in Streams |-> FALSE]
    /\ refused = [s \in Streams |-> FALSE]

\* An object is created, changed or deleted; every open watch is told.
Write(u, v) ==
    /\ Now < MaxRev
    /\ v = 0 => log[Now].world[u] # 0
    /\ log' = Append(log, [uid |-> u, world |-> [log[Now].world EXCEPT ![u] = v]])
    /\ feed' = [s \in Streams |->
                  IF pc[s] = "open" /\ u \in Wanted
                  THEN Append(feed[s], [type |-> IF v = 0 THEN "deleted" ELSE "modified",
                                        uid |-> u, rv |-> Now + 1])
                  ELSE feed[s]]
    /\ UNCHANGED <<streaming, listThenWatch, pc, list, queue, err, told, at, synced, refused>>

\* The server is replaced by one that serves streaming lists.
Upgrade ==
    /\ ~streaming /\ streaming' = TRUE
    /\ UNCHANGED <<log, listThenWatch, pc, list, queue, feed, err, told, at, synced, refused>>

\* On an open watch: a routine bookmark, an error event or a close.
Push(s, e) ==
    /\ pc[s] = "open"
    /\ \A i \in DOMAIN feed[s] : feed[s][i].type \notin {"bookmark", "error", "closed"}
    /\ feed' = [feed EXCEPT ![s] = Append(@, e)]
    /\ UNCHANGED <<serverVars, listThenWatch, pc, list, queue, err, told, at, synced, refused>>

-----------------------------------------------------------------------------
\* Watch.

Goto(s, p) == pc' = [pc EXCEPT ![s] = p]
EndWith(s, f, e) ==
    /\ Goto(s, "ended")
    /\ err' = [err EXCEPT ![s] = [fault |-> f, verdict |-> e]]
    /\ queue' = [queue EXCEPT ![s] = <<>>]
    /\ feed' = [feed EXCEPT ![s] = <<>>]
    /\ list' = [list EXCEPT ![s] = 0]
    /\ told' = [told EXCEPT ![s] = Nothing]
    /\ at' = [at EXCEPT ![s] = 0]
    /\ synced' = [synced EXCEPT ![s] = FALSE]

\* Watch looks the memory up under mu and lets go of it.
Watch(s) ==
    /\ pc[s] \in {"idle", "ended"}
    /\ Goto(s, IF listThenWatch THEN "listing" ELSE "asking")
    /\ told' = [told EXCEPT ![s] = Nothing]
    /\ at' = [at EXCEPT ![s] = Now]
    /\ synced' = [synced EXCEPT ![s] = FALSE]
    /\ err' = [err EXCEPT ![s] = NoError]
    /\ UNCHANGED <<serverVars, listThenWatch, list, queue, feed, refused>>

\* The streaming list opens: a channelWatcher.
StreamingList(s) ==
    /\ pc[s] = "asking" /\ streaming
    /\ Goto(s, "open")
    /\ \E q \in WatchAnswers(StreamingListOptions) : feed' = [feed EXCEPT ![s] = q]
    /\ at' = [at EXCEPT ![s] = Now]
    /\ UNCHANGED <<serverVars, listThenWatch, list, queue, err, told, synced, refused>>

\* It fails: with the one refusal that means list-then-watch, or with an error that is
\* not this code's to paper over.
StreamingListFails(s, f) ==
    /\ pc[s] = "asking"
    /\ "sendInitialEvents" \in Facts(f) => ~streaming
    /\ \/ /\ IsSendInitialEventsRefused(f)
          /\ Goto(s, "refused")
          /\ UNCHANGED <<err, queue, feed, list, told, at, synced>>
       \/ ~IsSendInitialEventsRefused(f) /\ EndWith(s, f, Classify(f))
    /\ refused' = [refused EXCEPT ![s] = @ \/ "sendInitialEvents" \in Facts(f)]
    /\ UNCHANGED <<serverVars, listThenWatch>>

\* rememberListThenWatch, under mu.
RememberListThenWatch(s) ==
    /\ pc[s] = "refused"
    /\ listThenWatch' = TRUE
    /\ Goto(s, "listing")
    /\ UNCHANGED <<serverVars, list, queue, feed, err, told, at, synced, refused>>

\* The LIST, a consistent read, and the snapshot synthesized from it.
List(s) ==
    /\ pc[s] = "listing"
    /\ Goto(s, "rewatching")
    /\ list' = [list EXCEPT ![s] = Now]
    /\ \E q \in Snapshot(Selectors, Now) : queue' = [queue EXCEPT ![s] = Append(q, BookmarkEnd)]
    /\ UNCHANGED <<serverVars, listThenWatch, feed, err, told, at, synced, refused>>

\* The WATCH from the list's resourceVersion: a prologueWatcher.
Rewatch(s) ==
    /\ pc[s] = "rewatching"
    /\ Goto(s, "open")
    /\ \E q \in WatchAnswers(WatchFromList(s)) : feed' = [feed EXCEPT ![s] = q]
    /\ at' = [at EXCEPT ![s] = list[s]]
    /\ UNCHANGED <<serverVars, listThenWatch, list, queue, err, told, synced, refused>>

\* Either request fails; the WATCH also because the list's resourceVersion has expired.
RequestFails(s, f) ==
    /\ pc[s] \in {"listing", "rewatching"}
    /\ "sendInitialEvents" \notin Facts(f)
    /\ EndWith(s, f, Classify(f))
    /\ UNCHANGED <<serverVars, listThenWatch, refused>>

-----------------------------------------------------------------------------
\* Next.

\* What an event tells: translate, and the reading of it in cycle.
Hear(s, e) ==
    \/ /\ e.type \in {"added", "modified", "deleted"}
       /\ told' = [told EXCEPT ![s][e.uid] = IF e.type = "deleted" THEN 0 ELSE e.rv]
       /\ at' = [at EXCEPT ![s] = IF synced[s] THEN e.rv ELSE @]
       /\ UNCHANGED synced
    \/ /\ e.type = "initialEventsEnd"
       /\ synced' = [synced EXCEPT ![s] = TRUE]
       /\ UNCHANGED <<told, at>>
    \/ /\ e.type = "bookmark"
       /\ UNCHANGED <<told, at, synced>>

\* prologueWatcher.Next while its queue lasts.
NextQueued(s) ==
    /\ pc[s] = "open" /\ queue[s] # <<>>
    /\ queue' = [queue EXCEPT ![s] = Tail(@)]
    /\ Hear(s, Head(queue[s]))
    /\ UNCHANGED <<serverVars, listThenWatch, pc, list, feed, err, refused>>

\* channelWatcher.Next, also behind an exhausted prologue.
NextLive(s) ==
    /\ pc[s] = "open" /\ queue[s] = <<>> /\ feed[s] # <<>>
    /\ LET e == Head(feed[s]) IN
       \/ /\ e.type \notin {"error", "closed"}
          /\ feed' = [feed EXCEPT ![s] = Tail(@)]
          /\ Hear(s, e)
          /\ UNCHANGED <<pc, list, queue, err>>
       \/ /\ e.type = "error"
          /\ \E f \in Faults : /\ "net" \notin Facts(f)
                              /\ EndWith(s, f, WatchError(f))
       \/ e.type = "error" /\ EndWith(s, "garbled", Internal)
       \/ /\ e.type = "closed"
          /\ EndWith(s, "closed", Verdict("CLOSED", FALSE))
    /\ UNCHANGED <<serverVars, listThenWatch, refused>>

\* The cycle's context ends, before Watch has returned or in Next.
Cancel(s) ==
    /\ pc[s] \notin {"idle", "refused", "ended"}
    /\ EndWith(s, "canceled", Verdict("CANCELED", FALSE))
    /\ UNCHANGED <<serverVars, listThenWatch, refused>>

Server ==
    \/ \E u \in Uids, v \in {0, Now + 1} : Write(u, v)
    \/ Upgrade
    \/ \E s \in Streams : \E e \in {Bookmark, ErrorEvent, Closed} : Push(s, e)
Stream(s) ==
    \/ Watch(s) \/ StreamingList(s) \/ RememberListThenWatch(s) \/ List(s) \/ Rewatch(s)
    \/ (\E f \in Faults : StreamingListFails(s, f) \/ RequestFails(s, f))
    \/ NextQueued(s) \/ NextLive(s) \/ Cancel(s)

Next == Server \/ \E s \in Streams : Stream(s)

Spec == Init /\ [][Next]_vars

-----------------------------------------------------------------------------
TypeOK ==
    /\ DOMAIN log = 1 .. Now /\ Now \in Revs
    /\ \A v \in 1 .. Now : log[v].uid \in Uids /\ log[v].world \in [Uids -> 0 .. v]
    /\ streaming \in BOOLEAN /\ listThenWatch \in BOOLEAN
    /\ pc \in [Streams -> {"idle", "asking", "refused", "listing", "rewatching", "open",
                           "ended"}]
    /\ list \in [Streams -> 0 .. Now] /\ at \in [Streams -> 0 .. Now]
    /\ told \in [Streams -> [Uids -> 0 .. Now]]
    /\ synced \in [Streams -> BOOLEAN] /\ refused \in [Streams -> BOOLEAN]

\* Whichever way a stream was opened, and whatever changes between its requests, its
\* Watcher keeps the promise of seams.go: a complete state no older than the Watch call,
\* then the boundary, then every change of the scope once and in order.  (Streams are
\* alike: one of them stands for all.)
Phase(s) ==
    IF pc[s] \in {"idle", "ended"} THEN pc[s]
    ELSE IF pc[s] # "open" THEN "asking"
    ELSE IF synced[s] THEN "live" ELSE "snapshot"
Observed == CHOOSE s \in Streams : TRUE
Contract == INSTANCE WatchContract
            WITH phase <- Phase(Observed), told <- told[Observed], at <- at[Observed]
ImplementsContract == Contract!Spec

\* The fallback memory is a fact about the server and not about a caller: it is set only
\* if the server refused somebody's streaming list, and a stream it refused never asks for
\* one again, though all of them read and write the memory concurrently.
MemoryIsEarned ==
    /\ TypeOK
    /\ listThenWatch => \E s \in Streams : refused[s]
    /\ \A s \in Streams : refused[s] => pc[s] # "asking"

\* The consumer is told to give up exactly when opening again cannot help (backend.go on
\* classify, watchError and unavailable): the caller is refused, the resource is not served,
\* the configuration or the wiring is wrong; never for what a retry or a new snapshot may
\* cure.  What nothing classifies is given up at the opening, where it is likely to be met
\* again, and answered with a new snapshot on an open watch, where it need not be.
Transient == {"closed", "canceled", "expired", "tooManyRequests", "serverError", "network"}
Permanent == {"unauthorized", "forbidden", "refused403", "notFound", "redirect", "untrusted",
              "garbled"}
Unclassified == {"refused422", "invalid", "other"}
GivesUpRightly(s) ==
    /\ err'[s].fault \in Permanent => err'[s].verdict.terminal
    /\ err'[s].fault \in Transient => ~err'[s].verdict.terminal
    /\ err'[s].fault \in Unclassified => (err'[s].verdict.terminal <=> pc[s] # "open")
EndsRightly == \A s \in Streams : pc[s] # "ended" /\ pc'[s] = "ended" => GivesUpRightly(s)
TerminalIsPermanent == [][EndsRightly]_vars
=============================================================================
