--------------------------- MODULE WatchContract ---------------------------
(***************************************************************************)
(* What gateway/seams.go asks of a Backend and its Watcher, for one stream: *)
(* "the objects currently in scope arrive as WatchAdded, terminated by a    *)
(* WatchBookmark whose InitialEventsEnd is true, and everything after that  *)
(* bookmark is live".  StreamLoop and SharedScope take it for granted of    *)
(* the upstream; KubeBackend is shown to implement it.                      *)
(***************************************************************************)
EXTENDS Naturals, Sequences

CONSTANTS
    Uids,       \* the objects of the API server
    Wanted      \* the ones the scope selects

VARIABLES
    log,        \* the API server's history: [uid, world] for each resourceVersion
    phase,      \* where the stream is
    told,       \* what the events handed over so far say: uid -> resourceVersion, 0 gone
    at          \* the resourceVersion the stream has reached, 0 when there is no stream

vars == <<log, phase, told, at>>

Nothing == [u \in Uids |-> 0]

\* The scope's objects at resourceVersion v.
InScope(v) == [u \in Uids |-> IF u \in Wanted THEN log[v].world[u] ELSE 0]

Init ==
    /\ Len(log) = 1 /\ log[1].world \in [Uids -> {0, 1}]
    /\ phase = "idle" /\ told = Nothing /\ at = 0

\* Somebody writes to the API server.
Change ==
    /\ Len(log') = Len(log) + 1
    /\ SubSeq(log', 1, Len(log)) = log
    /\ UNCHANGED <<phase, told, at>>

\* The gateway calls Watch: what it sees is to be no older than this moment.
Ask ==
    /\ phase \in {"idle", "ended"}
    /\ phase' = "asking" /\ told' = Nothing /\ at' = Len(log)
    /\ UNCHANGED log

\* Watch returns a Watcher on some state since then.
Answer ==
    /\ phase = "asking"
    /\ phase' = "snapshot" /\ at' \in at .. Len(log)
    /\ UNCHANGED <<log, told>>

\* Next hands over an object of that state, ...
Tell(u) ==
    /\ phase = "snapshot"
    /\ told[u] = 0 /\ InScope(at)[u] # 0
    /\ told' = [told EXCEPT ![u] = InScope(at)[u]]
    /\ UNCHANGED <<log, phase, at>>

\* ... the boundary once all of them are told, ...
Boundary ==
    /\ phase = "snapshot" /\ told = InScope(at)
    /\ phase' = "live"
    /\ UNCHANGED <<log, told, at>>

\* ... and then each change of the scope in turn, skipping none.
Follow ==
    /\ phase = "live"
    /\ at' \in at + 1 .. Len(log)
    /\ \A v \in at .. at' - 1 : InScope(v) = told
    /\ told' = InScope(at')
    /\ UNCHANGED <<log, phase>>

\* Watch fails, or Next reports an error, a close or the end of its context.
End ==
    /\ phase \notin {"idle", "ended"}
    /\ phase' = "ended" /\ told' = Nothing /\ at' = 0
    /\ UNCHANGED log

Next == Change \/ Ask \/ Answer \/ (\E u \in Uids : Tell(u)) \/ Boundary \/ Follow \/ End

Spec == Init /\ [][Next]_vars
=============================================================================
