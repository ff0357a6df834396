------------------------- MODULE SharedScopeProofs -------------------------
(***************************************************************************)
(* Proofs about SharedScope, for any set of subscribers and uids, any queue *)
(* depth and any number of upstream changes.                                *)
(***************************************************************************)
EXTENDS SharedScope, TLAPS

\* A reader in the tail of leave has marked the scope dead.
LeaverKilled ==
    \A c \in Subs : rd[c] \in {"forgetting", "cancelling"} => dead

\* A dying pump has a cause, and its own cancellation only for a dead scope.
CauseKnown ==
    /\ pump # "reading" => cause # "none"
    /\ cause = "canceled" => dead

\* Who is in subs, and in which state someone who never subscribed is.
Membership ==
    /\ \A c \in subs : Holding(c)
    /\ \A c \in Subs : rd[c] \in {"outside", "found"} =>
          awaiting[c] /\ ~closed[c] /\ ch[c] = <<>>

\* A subscriber awaiting its snapshot has been handed nothing but, at most, the
\* error of a dying scope.
AwaitingIsEmpty ==
    \A c \in Subs : awaiting[c] =>
        /\ snap[c] = NoObjects /\ ~mark[c]
        /\ view[c] = NoObjects /\ ~framed[c]
        /\ \A i \in DOMAIN ch[c] : ch[c][i].uid = "error"

\* Only a complete cache is handed out.
SnapshottedIsSynced == \A c \in Subs : ~awaiting[c] => synced

\* An error event is the last thing a queue is sent.
OpenQueueIsLive ==
    \A c \in Subs : ~closed[c] => \A i \in DOMAIN ch[c] : ch[c][i].uid # "error"

\* The part of the inductive invariant that is about control.
Control ==
    /\ UpstreamOwned
    /\ LeaverKilled
    /\ CauseKnown
    /\ Membership
    /\ AwaitingIsEmpty
    /\ SnapshottedIsSynced
    /\ OpenQueueIsLive
    /\ NoSilentEnd

\* The inductive invariant.
IInv == TypeOK /\ Control /\ NothingLost

USE QueueDepthAssumption, MaxRevAssumption, ErrorAssumption

\* deliverSnapshotLocked keeps the types of a subscriber's pending.
LEMMA DeliverType ==
    ASSUME TypeOK, NEW D \in SUBSET Subs, DeliverSnapshot(D)
    PROVE  /\ snap' \in [Subs -> [Uids -> Revs]]
           /\ mark' \in [Subs -> BOOLEAN]
           /\ awaiting' \in [Subs -> BOOLEAN]
           /\ ready' \in [Subs -> BOOLEAN]
BY DEF TypeOK, DeliverSnapshot, Woken

\* offer keeps a queue a sequence of events no longer than QueueDepth.
LEMMA EnqueueType ==
    ASSUME TypeOK, NEW D \in SUBSET Subs, NEW ev \in Events, Enqueue(D, ev)
    PROVE  /\ ch' \in [Subs -> Seq(Events)]
           /\ \A c \in Subs : Len(ch'[c]) <= QueueDepth
<1>1. ASSUME NEW c \in Subs
      PROVE  /\ Append(ch[c], ev) \in Seq(Events)
             /\ Len(Append(ch[c], ev)) = Len(ch[c]) + 1
             /\ Len(ch[c]) \in Nat
  BY DEF TypeOK
<1> QED
  BY <1>1 DEF TypeOK, Enqueue, Full

\* end keeps the types of closed and reason.
LEMMA EndType ==
    ASSUME TypeOK, NEW D \in SUBSET Subs, NEW r \in [Subs -> Reasons], End(D, r)
    PROVE  /\ closed' \in [Subs -> BOOLEAN]
           /\ reason' \in [Subs -> Reasons]
BY DEF TypeOK, End

\* A change pumped into the cache and fanned out keeps the type invariant.
LEMMA PumpedType ==
    ASSUME TypeOK, NEW u \in Uids, NEW v \in Revs, Pumped(u, v)
    PROVE  TypeOK'
<1>1. rev' \in Revs /\ cache' \in [Uids -> Revs]
  BY DEF TypeOK, Pumped, Revs, Absent
<1>2. [uid |-> u, ver |-> v] \in Events
  BY DEF Events
<1>3. Snapshotted \in SUBSET Subs /\ {c \in Snapshotted : Full(c)} \in SUBSET Subs
  BY DEF TypeOK, Snapshotted
<1>4. [c \in Subs |-> "resync"] \in [Subs -> Reasons]
  BY DEF Reasons
<1>5. /\ ch' \in [Subs -> Seq(Events)]
      /\ \A c \in Subs : Len(ch'[c]) <= QueueDepth
  BY <1>2, <1>3, EnqueueType DEF Pumped
<1>6. closed' \in [Subs -> BOOLEAN] /\ reason' \in [Subs -> Reasons]
  BY <1>3, <1>4, EndType DEF Pumped
<1> QED
  BY <1>1, <1>5, <1>6 DEF TypeOK, Pumped, readVars

\* Every step of the pump, of a reader and of the upstream keeps the type invariant.
LEMMA TypeInductive == TypeOK /\ [Next]_vars => TypeOK'
<1> SUFFICES ASSUME TypeOK, [Next]_vars PROVE TypeOK'
  OBVIOUS
<1> USE DEF scopeVars, pumpVars, queueVars, readVars
<1>1. ASSUME NEW u \in Uids, PumpUpsert(u) PROVE TypeOK'
  <2>1. rev + 1 \in Revs
    BY <1>1 DEF PumpUpsert, Pumped, TypeOK, Revs, Absent
  <2> QED
    BY <1>1, <2>1, PumpedType DEF PumpUpsert
<1>2. ASSUME NEW u \in Uids, PumpDelete(u) PROVE TypeOK'
  <2>1. Absent \in Revs
    BY DEF Revs, Absent
  <2> QED
    BY <1>2, <2>1, PumpedType DEF PumpDelete
<1>3. CASE PumpBookmark
  <2>1. {c \in subs : awaiting[c]} \in SUBSET Subs
    BY DEF TypeOK
  <2> QED
    BY <1>3, <2>1, DeliverType DEF PumpBookmark, TypeOK
<1>4. ASSUME NEW e \in Causes, PumpFail(e) PROVE TypeOK'
  BY <1>4 DEF PumpFail, TypeOK, PumpPlaces, Reasons
<1>5. CASE DieForget \/ DieCancel
  BY <1>5 DEF DieForget, DieCancel, TypeOK, PumpPlaces
<1>6. CASE DieEnd
  <2>1. [uid |-> "error", ver |-> Absent] \in Events
    BY DEF Events, Revs, Absent
  <2>2. [c \in Subs |-> IF Full(c) THEN "resync" ELSE Reported] \in [Subs -> Reasons]
    BY DEF TypeOK, Reported, Reasons, Causes
  <2>3. subs \in SUBSET Subs /\ Ended \in SUBSET Subs
    BY DEF TypeOK, Ended
  <2>4. /\ ch' \in [Subs -> Seq(Events)]
        /\ \A c \in Subs : Len(ch'[c]) <= QueueDepth
    BY <1>6, <2>1, <2>3, EnqueueType DEF DieEnd
  <2>5. closed' \in [Subs -> BOOLEAN] /\ reason' \in [Subs -> Reasons]
    BY <1>6, <2>2, <2>3, EndType DEF DieEnd
  <2> QED
    BY <1>6, <2>4, <2>5 DEF DieEnd, TypeOK, PumpPlaces
<1>7. ASSUME NEW c \in Subs, Lookup(c) \/ Quit(c) \/ LeaveForget(c) \/ LeaveCancel(c)
      PROVE  TypeOK'
  BY <1>7 DEF Lookup, Quit, LeaveForget, LeaveCancel, TypeOK, ReaderPlaces
<1>8. ASSUME NEW c \in Subs, Subscribe(c) PROVE TypeOK'
  <2>1. CASE dead
    BY <1>8, <2>1 DEF Subscribe, TypeOK, ReaderPlaces
  <2>2. CASE ~dead
    <3>1. WarmJoiner(c) \in SUBSET Subs /\ DeliverSnapshot(WarmJoiner(c))
      BY <1>8, <2>2 DEF Subscribe, WarmJoiner
    <3>2. subs' \in SUBSET Subs /\ rd' \in [Subs -> ReaderPlaces]
      BY <1>8, <2>2 DEF Subscribe, TypeOK, ReaderPlaces
    <3> QED
      BY <1>8, <2>2, <3>1, <3>2, DeliverType DEF Subscribe, TypeOK
  <2> QED BY <2>1, <2>2 DEF TypeOK
<1>9. ASSUME NEW c \in Subs, NEW u \in Uids, NextPendingAdded(c, u) PROVE TypeOK'
  <2>1. snap[c][u] \in Revs /\ Absent \in Revs
    BY DEF TypeOK, Revs, Absent
  <2>2. /\ view' \in [Subs -> [Uids -> Revs]]
        /\ snap' \in [Subs -> [Uids -> Revs]]
    BY <1>9, <2>1 DEF NextPendingAdded, TypeOK
  <2> QED
    BY <1>9, <2>2 DEF NextPendingAdded, TypeOK
<1>10. ASSUME NEW c \in Subs, NextPendingBookmark(c) \/ NextPendingNone(c) PROVE TypeOK'
  BY <1>10 DEF NextPendingBookmark, NextPendingNone, TypeOK, ReaderPlaces
<1>11. ASSUME NEW c \in Subs, SelectReady(c) \/ SelectClosed(c) PROVE TypeOK'
  BY <1>11 DEF SelectReady, SelectClosed, TypeOK, ReaderPlaces
<1>12. ASSUME NEW c \in Subs, SelectEvent(c) PROVE TypeOK'
  <2> DEFINE ev == Head(ch[c])
  <2>1. /\ ev \in Events
        /\ Tail(ch[c]) \in Seq(Events)
        /\ Len(Tail(ch[c])) <= QueueDepth
    BY <1>12 DEF SelectEvent, TypeOK
  <2>2. /\ ch' \in [Subs -> Seq(Events)]
        /\ \A k \in Subs : Len(ch'[k]) <= QueueDepth
    BY <1>12, <2>1 DEF SelectEvent, TypeOK
  <2>3. CASE ev.uid # "error"
    <3>1. ev.uid \in Uids /\ ev.ver \in Revs
      BY <2>1, <2>3 DEF Events
    <3>2. view' = [view EXCEPT ![c][ev.uid] = ev.ver]
      BY <1>12, <2>3 DEF SelectEvent
    <3> HIDE DEF ev
    <3>3. view' \in [Subs -> [Uids -> Revs]]
      BY <3>1, <3>2 DEF TypeOK
    <3> USE DEF ev
    <3> QED
      BY <1>12, <2>2, <2>3, <3>3 DEF SelectEvent, TypeOK, ReaderPlaces, PendingEmpty
  <2>4. CASE ev.uid = "error"
    BY <1>12, <2>2, <2>4 DEF SelectEvent, TypeOK, ReaderPlaces
  <2> QED
    BY <2>3, <2>4
<1>13. ASSUME NEW c \in Subs, Leave(c) PROVE TypeOK'
  <2>1. NoObjects \in [Uids -> Revs]
    BY DEF NoObjects, Revs, Absent
  <2>2. /\ ch' \in [Subs -> Seq(Events)]
        /\ \A k \in Subs : Len(ch'[k]) <= QueueDepth
    BY <1>13 DEF Leave, Drop, TypeOK
  <2>3. /\ snap' \in [Subs -> [Uids -> Revs]]
        /\ view' \in [Subs -> [Uids -> Revs]]
    BY <1>13, <2>1 DEF Leave, Drop, TypeOK
  <2>4. /\ rd' \in [Subs -> ReaderPlaces] /\ subs' \in SUBSET Subs
        /\ dead' \in BOOLEAN
    BY <1>13 DEF Leave, TypeOK, ReaderPlaces, LastOut
  <2> QED
    BY <1>13, <2>2, <2>3, <2>4 DEF Leave, Drop, TypeOK
<1>14. CASE UNCHANGED vars
  BY <1>14 DEF vars, TypeOK
<1> QED
  BY <1>1, <1>2, <1>3, <1>4, <1>5, <1>6, <1>7, <1>8, <1>9, <1>10, <1>11, <1>12,
     <1>13, <1>14
     DEF Next, PumpEvent, Die, NextPending, Select, Stop

\* A new scope satisfies the type invariant.
LEMMA InitTypeOK == Init => TypeOK
<1> SUFFICES ASSUME Init PROVE TypeOK
  OBVIOUS
<1>1. NoObjects \in [Uids -> Revs] /\ 0 \in Revs
  BY DEF NoObjects, Revs, Absent
<1>2. ch \in [Subs -> Seq(Events)] /\ \A c \in Subs : Len(ch[c]) <= QueueDepth
  BY DEF Init
<1> QED
  BY <1>1, <1>2 DEF Init, TypeOK, Reasons, ReaderPlaces, PumpPlaces

\* Every variable of the scope keeps its type, and no queue outgrows its depth.
THEOREM TypeCorrect == Spec => []TypeOK
BY InitTypeOK, TypeInductive, PTL DEF Spec

\* A reader that goes on reading, or begins to stop, disturbs none of these.
LEMMA ReaderMoves ==
    ASSUME TypeOK, Control, NEW c \in Subs, Reading(c),
           NEW p \in {"checking", "selecting", "stopping"},
           rd' = [rd EXCEPT ![c] = p],
           \A k \in Subs \ {c} : ch'[k] = ch[k],
           UNCHANGED <<subs, dead, awaiting, closed, reason>>
    PROVE  Membership' /\ LeaverKilled' /\ NoSilentEnd'
<1>1. \A k \in Subs : rd'[k] = IF k = c THEN p ELSE rd[k]
  BY DEF TypeOK
<1>2. Membership'
  BY <1>1 DEF Control, Membership, Holding, TypeOK
<1>3. LeaverKilled'
  BY <1>1 DEF Control, LeaverKilled
<1>4. NoSilentEnd'
  BY <1>1 DEF Control, NoSilentEnd, Reading
<1> QED BY <1>2, <1>3, <1>4

\* Every step keeps Control: who holds the scope, and what each queue can contain.
LEMMA ControlInductive == TypeOK /\ Control /\ [Next]_vars => Control'
<1> SUFFICES ASSUME TypeOK, Control, [Next]_vars PROVE Control'
  OBVIOUS
<1> USE DEF scopeVars, pumpVars, queueVars, readVars
<1> USE DEF Control, UpstreamOwned, LeaverKilled, CauseKnown, Membership, Holding,
            AwaitingIsEmpty, SnapshottedIsSynced, OpenQueueIsLive, NoSilentEnd, Reading
<1>1. ASSUME NEW u \in Uids, NEW v, Pumped(u, v) PROVE Control'
  <2>1. AwaitingIsEmpty' /\ SnapshottedIsSynced'
    BY <1>1 DEF Pumped, Enqueue, Snapshotted, TypeOK
  <2>2. OpenQueueIsLive'
    BY <1>1 DEF Pumped, Enqueue, End, Snapshotted, Full, TypeOK
  <2>3. Membership' /\ NoSilentEnd'
    BY <1>1 DEF Pumped, Enqueue, End, Snapshotted, Full, TypeOK
  <2> QED
    BY <1>1, <2>1, <2>2, <2>3 DEF Pumped
<1>2. CASE PumpBookmark
  <2>1. AwaitingIsEmpty' /\ SnapshottedIsSynced' /\ Membership'
    BY <1>2 DEF PumpBookmark, DeliverSnapshot, TypeOK
  <2>2. OpenQueueIsLive' /\ NoSilentEnd'
    BY <1>2 DEF PumpBookmark
  <2> QED
    BY <1>2, <2>1, <2>2 DEF PumpBookmark
<1>3. ASSUME NEW e \in Causes, PumpFail(e) PROVE Control'
  BY <1>3 DEF PumpFail, Causes, TypeOK
<1>4. CASE DieForget \/ DieCancel
  BY <1>4 DEF DieForget, DieCancel
<1>5. CASE DieEnd
  <2>1. ASSUME NEW c \in Subs, awaiting'[c], NEW i \in DOMAIN ch'[c]
        PROVE  ch'[c][i].uid = "error"
    <3>1. CASE ch'[c] = ch[c]
      BY <1>5, <2>1, <3>1 DEF DieEnd
    <3>2. CASE ch'[c] = Append(ch[c], [uid |-> "error", ver |-> Absent])
      BY <1>5, <2>1, <3>2 DEF DieEnd, TypeOK
    <3> QED BY <1>5, <3>1, <3>2 DEF DieEnd, Enqueue
  <2>2. OpenQueueIsLive' /\ Membership'
    <3>1. \A c \in Subs : ~closed'[c] => ~closed[c] /\ c \notin subs
      BY <1>5 DEF DieEnd, End, Ended, TypeOK
    <3>2. \A c \in Subs : c \notin subs => ch'[c] = ch[c] /\ closed'[c] = closed[c]
      BY <1>5 DEF DieEnd, Enqueue, End, Ended, TypeOK
    <3> QED BY <1>5, <3>1, <3>2 DEF DieEnd
  <2>3. NoSilentEnd'
    BY <1>5 DEF DieEnd, End, Ended, Reported, TypeOK
  <2> QED
    BY <1>5, <2>1, <2>2, <2>3 DEF DieEnd
<1>6. ASSUME NEW c \in Subs, Lookup(c) \/ LeaveForget(c) \/ LeaveCancel(c)
      PROVE  Control'
  <2>1. Membership' /\ NoSilentEnd'
    <3>1. CASE Lookup(c)
      BY <3>1 DEF Lookup, TypeOK
    <3>2. CASE LeaveForget(c)
      BY <3>2 DEF LeaveForget, TypeOK
    <3>3. CASE LeaveCancel(c)
      BY <3>3 DEF LeaveCancel, TypeOK
    <3> QED BY <1>6, <3>1, <3>2, <3>3
  <2>2. LeaverKilled' /\ UpstreamOwned'
    BY <1>6 DEF Lookup, LeaveForget, LeaveCancel, TypeOK
  <2>3. CauseKnown' /\ AwaitingIsEmpty' /\ SnapshottedIsSynced' /\ OpenQueueIsLive'
    BY <1>6 DEF Lookup, LeaveForget, LeaveCancel
  <2> QED BY <2>1, <2>2, <2>3
<1>14. ASSUME NEW c \in Subs, Quit(c) PROVE Control'
  <2>1. Membership' /\ LeaverKilled' /\ NoSilentEnd'
    BY <1>14, ReaderMoves DEF Quit
  <2> QED
    BY <1>14, <2>1 DEF Quit
<1>7. ASSUME NEW c \in Subs, Subscribe(c) PROVE Control'
  <2>1. CASE dead
    BY <1>7, <2>1 DEF Subscribe, TypeOK
  <2>2. CASE ~dead
    <3>1. Membership' /\ NoSilentEnd' /\ UpstreamOwned'
      BY <1>7, <2>2 DEF Subscribe, DeliverSnapshot, WarmJoiner, TypeOK
    <3>2. AwaitingIsEmpty' /\ SnapshottedIsSynced' /\ OpenQueueIsLive'
      BY <1>7, <2>2 DEF Subscribe, DeliverSnapshot, WarmJoiner, TypeOK
    <3> QED
      BY <1>7, <2>2, <3>1, <3>2 DEF Subscribe, TypeOK
  <2> QED BY <2>1, <2>2
<1>8. ASSUME NEW c \in Subs, NEW u \in Uids, NextPendingAdded(c, u) PROVE Control'
  BY <1>8 DEF NextPendingAdded, TypeOK, NoObjects
<1>9. ASSUME NEW c \in Subs, NextPendingBookmark(c) \/ NextPendingNone(c) PROVE Control'
  <2>1. CASE NextPendingBookmark(c)
    BY <2>1 DEF NextPendingBookmark, TypeOK
  <2>2. CASE NextPendingNone(c)
    <3>1. Membership' /\ LeaverKilled' /\ NoSilentEnd'
      BY <2>2, ReaderMoves DEF NextPendingNone
    <3> QED
      BY <2>2, <3>1 DEF NextPendingNone
  <2> QED BY <1>9, <2>1, <2>2
<1>10. ASSUME NEW c \in Subs, SelectReady(c) \/ SelectClosed(c) PROVE Control'
  <2>1. Membership' /\ NoSilentEnd' /\ LeaverKilled'
    BY <1>10, ReaderMoves DEF SelectReady, SelectClosed
  <2> QED
    BY <1>10, <2>1 DEF SelectReady, SelectClosed
<1>11. ASSUME NEW c \in Subs, SelectEvent(c) PROVE Control'
  <2> DEFINE ev == Head(ch[c])
  <2>1. /\ ch' = [ch EXCEPT ![c] = Tail(ch[c])]
        /\ ev = ch[c][1] /\ 1 \in DOMAIN ch[c]
        /\ \A i \in DOMAIN Tail(ch[c]) : i + 1 \in DOMAIN ch[c] /\ Tail(ch[c])[i] = ch[c][i + 1]
    BY <1>11 DEF SelectEvent, TypeOK
  <2>2. OpenQueueIsLive'
    BY <1>11, <2>1 DEF SelectEvent, TypeOK
  <2>3. AwaitingIsEmpty'
    <3>1. \A k \in Subs : awaiting[k] => view'[k] = view[k]
      BY <1>11, <2>1 DEF SelectEvent, TypeOK
    <3> QED BY <1>11, <2>1, <3>1 DEF SelectEvent, TypeOK
  <2>4. Membership' /\ NoSilentEnd' /\ LeaverKilled'
    <3>1. \A k \in Subs \ {c} : ch'[k] = ch[k]
      BY <2>1 DEF TypeOK
    <3> QED
      BY <1>11, <3>1, ReaderMoves DEF SelectEvent
  <2> QED
    BY <1>11, <2>2, <2>3, <2>4 DEF SelectEvent
<1>12. ASSUME NEW c \in Subs, Leave(c) PROVE Control'
  BY <1>12 DEF Leave, Drop, LastOut, TypeOK
<1>13. CASE UNCHANGED vars
  BY <1>13 DEF vars
<1> QED
  BY <1>1, <1>2, <1>3, <1>4, <1>5, <1>6, <1>7, <1>8, <1>9, <1>10, <1>11, <1>12, <1>13, <1>14
     DEF Next, PumpEvent, PumpUpsert, PumpDelete, Die, NextPending, Select, Stop

-----------------------------------------------------------------------------
\* A step that changes neither the queue of c, nor the cached state of u, nor
\* what c holds or is about to be handed of u, leaves c catching up on u.
LEMMA StillCatchesUp ==
    ASSUME NEW c \in Subs, NEW u \in Uids, CatchesUp(c, u),
           ch'[c] = ch[c], cache'[u] = cache[u], Base(c, u)' = Base(c, u)
    PROVE  CatchesUp(c, u)'
BY DEF CatchesUp

\* A new snapshot is the cache itself.
LEMMA SnapshotCatchesUp ==
    ASSUME TypeOK, Control, NEW c \in Subs, NEW u \in Uids,
           awaiting[c], ~closed[c],
           snap'[c] = cache, UNCHANGED <<ch, cache, view>>
    PROVE  CatchesUp(c, u)'
<1>1. \A i \in DOMAIN ch[c] : FALSE
  BY DEF Control, AwaitingIsEmpty, OpenQueueIsLive
<1>2. view[c][u] = Absent
  BY DEF Control, AwaitingIsEmpty, NoObjects
<1> QED
  BY <1>1, <1>2 DEF CatchesUp, Base

\* Appending the event that changed the cache.
LEMMA AppendCatchesUp ==
    ASSUME TypeOK, NEW c \in Subs, NEW u \in Uids, NEW v \in Revs, NEW w \in Uids,
           CatchesUp(c, w),
           ch'[c] = Append(ch[c], [uid |-> u, ver |-> v]),
           cache' = [cache EXCEPT ![u] = v],
           UNCHANGED <<snap, view>>
    PROVE  CatchesUp(c, w)'
<1> DEFINE n == Len(ch[c])
<1>1. /\ n \in Nat /\ DOMAIN ch[c] = 1 .. n
      /\ DOMAIN ch'[c] = 1 .. n + 1
      /\ ch'[c][n + 1] = [uid |-> u, ver |-> v]
      /\ \A i \in 1 .. n : ch'[c][i] = ch[c][i]
  BY DEF TypeOK
<1> HIDE DEF n
<1>2. cache'[w] = IF w = u THEN v ELSE cache[w]
  BY DEF TypeOK
<1>3. CASE w = u
  BY <1>1, <1>2, <1>3 DEF CatchesUp
<1>4. CASE w # u
  <2>1. ch'[c][n + 1].uid # w
    BY <1>1, <1>4
  <2>2. Base(c, w)' = Base(c, w)
    BY DEF Base
  <2> QED
    BY <1>1, <1>2, <1>4, <2>1, <2>2 DEF CatchesUp
<1> QED BY <1>3, <1>4

\* Reading the head of the queue once the snapshot is drained.
LEMMA HeadCatchesUp ==
    ASSUME TypeOK, NEW c \in Subs, NEW w \in Uids, CatchesUp(c, w), PendingEmpty(c),
           ch[c] # <<>>, Head(ch[c]).uid \in Uids,
           ch' = [ch EXCEPT ![c] = Tail(ch[c])],
           view' = [view EXCEPT ![c][Head(ch[c]).uid] = Head(ch[c]).ver],
           UNCHANGED <<snap, cache>>
    PROVE  CatchesUp(c, w)'
<1> DEFINE n == Len(ch[c])
           ev == Head(ch[c])
<1>1. /\ n \in Nat \ {0} /\ DOMAIN ch[c] = 1 .. n
      /\ DOMAIN ch'[c] = 1 .. n - 1
      /\ ev = ch[c][1]
      /\ \A i \in 1 .. n - 1 : ch'[c][i] = ch[c][i + 1]
  BY DEF TypeOK
<1>2. view'[c] = [view[c] EXCEPT ![ev.uid] = ev.ver]
  BY DEF TypeOK
<1>3. snap'[c][w] = Absent /\ snap[c][w] = Absent
  BY DEF PendingEmpty, NoObjects
<1>4. view'[c][w] = IF w = ev.uid THEN ev.ver ELSE view[c][w]
  BY <1>2 DEF TypeOK
<1>5. ev \in Events
  BY DEF TypeOK
<1> HIDE DEF n, ev
<1>6. CASE \E i \in 2 .. n : ch[c][i] = [uid |-> w, ver |-> cache[w]]
                              /\ \A j \in 1 .. n : j > i => ch[c][j].uid # w
  <2> PICK i \in 2 .. n : /\ ch[c][i] = [uid |-> w, ver |-> cache[w]]
                          /\ \A j \in 1 .. n : j > i => ch[c][j].uid # w
    BY <1>6
  <2>1. i - 1 \in 1 .. n - 1 /\ ch'[c][i - 1] = [uid |-> w, ver |-> cache'[w]]
    BY <1>1
  <2>2. \A j \in 1 .. n - 1 : j > i - 1 => ch'[c][j].uid # w
    <3> TAKE j \in 1 .. n - 1
    <3>1. j + 1 \in 1 .. n /\ ch'[c][j] = ch[c][j + 1] /\ (j > i - 1 => j + 1 > i)
      BY <1>1
    <3> QED BY <3>1
  <2> QED BY <1>1, <2>1, <2>2 DEF CatchesUp
<1>7. CASE /\ ev = [uid |-> w, ver |-> cache[w]]
           /\ \A j \in 2 .. n : ch[c][j].uid # w
  <2>1. \A j \in 1 .. n - 1 : ch'[c][j].uid # w
    <3> TAKE j \in 1 .. n - 1
    <3>1. j + 1 \in 2 .. n /\ ch'[c][j] = ch[c][j + 1]
      BY <1>1
    <3> QED BY <1>7, <3>1
  <2>2. view'[c][w] = cache'[w]
    BY <1>4, <1>7
  <2> QED BY <1>1, <1>3, <2>1, <2>2 DEF CatchesUp, Base
<1>8. CASE (\A j \in 1 .. n : ch[c][j].uid # w) /\ view[c][w] = cache[w]
  <2>1. ev.uid # w
    BY <1>1, <1>8
  <2>2. view'[c][w] = cache'[w]
    BY <1>4, <1>8, <2>1
  <2>3. \A j \in 1 .. n - 1 : ch'[c][j].uid # w
    <3> TAKE j \in 1 .. n - 1
    <3>1. j + 1 \in 1 .. n /\ ch'[c][j] = ch[c][j + 1]
      BY <1>1
    <3> QED BY <1>8, <3>1
  <2> QED BY <1>1, <1>3, <2>2, <2>3 DEF CatchesUp, Base
<1>9. ASSUME NEW i \in 1 .. n, ch[c][i] = [uid |-> w, ver |-> cache[w]],
             \A j \in 1 .. n : j > i => ch[c][j].uid # w
      PROVE  CatchesUp(c, w)'
  <2>1. CASE i = 1
    BY <1>1, <1>7, <1>9, <2>1
  <2>2. CASE i # 1
    BY <1>1, <1>6, <1>9, <2>2
  <2> QED BY <2>1, <2>2
<1> QED
  BY <1>1, <1>3, <1>8, <1>9 DEF CatchesUp, Base

\* Every step keeps NothingLost: a reader catches up with the cache after it as before.
LEMMA TrackingInductive ==
    TypeOK /\ Control /\ NothingLost /\ [Next]_vars => NothingLost'
<1> SUFFICES ASSUME TypeOK, Control, NothingLost, [Next]_vars,
                    NEW c \in subs', ~awaiting'[c], ~closed'[c], ~overtaken'[c],
                    NEW w \in Uids
             PROVE  CatchesUp(c, w)'
  BY DEF NothingLost
<1> USE DEF scopeVars, pumpVars, queueVars, readVars
<1>0. c \in Subs
  BY TypeInductive DEF TypeOK
\* Before the step c was tracked too, unless the step snapshots it.
<1>1. c \in subs /\ ~awaiting[c] /\ ~closed[c] /\ ~overtaken[c] => CatchesUp(c, w)
  BY DEF NothingLost
<1>2. ASSUME NEW u \in Uids, NEW v \in Revs, Pumped(u, v) PROVE CatchesUp(c, w)'
  <2>1. /\ c \in subs /\ ~awaiting[c] /\ ~closed[c] /\ ~overtaken[c]
        /\ ch'[c] = Append(ch[c], [uid |-> u, ver |-> v])
    BY <1>0, <1>2 DEF Pumped, Enqueue, End, Snapshotted, Full, TypeOK
  <2> QED
    BY <1>0, <1>1, <1>2, <2>1, AppendCatchesUp DEF Pumped
<1>3. CASE PumpBookmark
  <2>1. c \in subs /\ ~closed[c] /\ ~overtaken[c]
    BY <1>3 DEF PumpBookmark
  <2>2. CASE awaiting[c]
    <3>1. snap'[c] = cache
      BY <1>0, <1>3, <2>1, <2>2 DEF PumpBookmark, DeliverSnapshot
    <3> QED
      BY <1>0, <1>3, <2>1, <2>2, <3>1, SnapshotCatchesUp DEF PumpBookmark
  <2>3. CASE ~awaiting[c]
    <3>1. snap'[c] = snap[c]
      BY <1>0, <1>3, <2>3 DEF PumpBookmark, DeliverSnapshot, TypeOK
    <3> QED
      BY <1>0, <1>1, <1>3, <2>1, <2>3, <3>1, StillCatchesUp DEF PumpBookmark, Base
  <2> QED BY <2>2, <2>3
<1>4. ASSUME NEW k \in Subs, Subscribe(k) PROVE CatchesUp(c, w)'
  <2>1. ~closed[c] /\ ~overtaken[c]
    BY <1>4 DEF Subscribe
  <2>2. CASE c = k /\ ~dead
    <3>1. awaiting[c]
      BY <1>0, <1>4, <2>2 DEF Subscribe, Control, Membership
    <3>2. snap'[c] = cache
      BY <1>0, <1>4, <2>1, <2>2, <3>1 DEF Subscribe, DeliverSnapshot, TypeOK
    <3> QED
      BY <1>0, <1>4, <2>1, <2>2, <3>1, <3>2, SnapshotCatchesUp DEF Subscribe
  <2>3. CASE c # k \/ dead
    <3>1. c \in subs /\ ~awaiting[c] /\ snap'[c] = snap[c]
      BY <1>0, <1>4, <2>3 DEF Subscribe, DeliverSnapshot, WarmJoiner, TypeOK, Control,
                              UpstreamOwned
    <3> QED
      BY <1>0, <1>1, <1>4, <2>1, <3>1, StillCatchesUp DEF Subscribe, Base
  <2> QED BY <2>2, <2>3
<1>5. CASE DieEnd
  BY <1>5 DEF DieEnd
<1>6. ASSUME NEW k \in Subs, NEW u \in Uids, NextPendingAdded(k, u) PROVE CatchesUp(c, w)'
  <2>1. Base(c, w)' = Base(c, w)
    <3>1. CASE c = k /\ w = u
      BY <1>0, <1>6, <3>1 DEF NextPendingAdded, Base, TypeOK
    <3>2. CASE c # k \/ w # u
      BY <1>0, <1>6, <3>2 DEF NextPendingAdded, Base, TypeOK
    <3> QED BY <3>1, <3>2
  <2> QED
    BY <1>0, <1>1, <1>6, <2>1, StillCatchesUp DEF NextPendingAdded
<1>7. ASSUME NEW k \in Subs, SelectEvent(k) PROVE CatchesUp(c, w)'
  <2>1. c \in subs /\ ~awaiting[c] /\ ~closed[c] /\ ~overtaken[c]
    BY <1>0, <1>7 DEF SelectEvent, TypeOK
  <2>2. CASE c = k
    <3>1. ch[c] # <<>> /\ Head(ch[c]) = ch[c][1] /\ 1 \in DOMAIN ch[c]
          /\ Head(ch[c]) \in Events
      BY <1>0, <1>7, <2>2 DEF SelectEvent, TypeOK
    <3>2. Head(ch[c]).uid # "error" /\ Head(ch[c]).uid \in Uids
      BY <1>0, <2>1, <3>1 DEF Control, OpenQueueIsLive, Events
    <3>3. PendingEmpty(c)
      BY <1>0, <1>7, <2>2, <3>2 DEF SelectEvent, TypeOK
    <3> QED
      BY <1>0, <1>1, <1>7, <2>1, <2>2, <3>1, <3>2, <3>3, HeadCatchesUp DEF SelectEvent
  <2>3. CASE c # k
    <3>1. ch'[c] = ch[c] /\ view'[c] = view[c]
      BY <1>0, <1>7, <2>3 DEF SelectEvent, TypeOK
    <3> QED
      BY <1>0, <1>1, <1>7, <2>1, <3>1, StillCatchesUp DEF SelectEvent, Base
  <2> QED BY <2>2, <2>3
<1>8. ASSUME NEW k \in Subs, Leave(k) PROVE CatchesUp(c, w)'
  <2>1. c # k /\ c \in subs
    BY <1>8 DEF Leave
  <2>2. /\ ~awaiting[c] /\ ~closed[c] /\ ~overtaken[c]
        /\ ch'[c] = ch[c] /\ view'[c] = view[c] /\ snap'[c] = snap[c]
    BY <1>0, <1>8, <2>1 DEF Leave, Drop, TypeOK
  <2> QED
    BY <1>0, <1>1, <1>8, <2>1, <2>2, StillCatchesUp DEF Leave, Base
\* The remaining steps touch none of the variables the tracking is about.
<1>9. CASE UNCHANGED <<subs, awaiting, closed, overtaken, ch, snap, view, cache>>
  BY <1>0, <1>1, <1>9, StillCatchesUp DEF Base
<1>10. ASSUME NEW e \in Causes, PumpFail(e) PROVE CatchesUp(c, w)'
  BY <1>9, <1>10 DEF PumpFail
<1>11. CASE DieForget \/ DieCancel
  BY <1>9, <1>11 DEF DieForget, DieCancel
<1>12. ASSUME NEW k \in Subs, Lookup(k) \/ Quit(k) \/ LeaveForget(k) \/ LeaveCancel(k)
       PROVE  CatchesUp(c, w)'
  BY <1>9, <1>12 DEF Lookup, Quit, LeaveForget, LeaveCancel
<1>13. ASSUME NEW k \in Subs, \/ NextPendingBookmark(k) \/ NextPendingNone(k)
                              \/ SelectReady(k) \/ SelectClosed(k)
       PROVE  CatchesUp(c, w)'
  BY <1>9, <1>13 DEF NextPendingBookmark, NextPendingNone, SelectReady, SelectClosed
<1>14. CASE UNCHANGED vars
  BY <1>9, <1>14 DEF vars
<1>15. ASSUME NEW u \in Uids, PumpUpsert(u) \/ PumpDelete(u) PROVE CatchesUp(c, w)'
  <2>1. Absent \in Revs /\ (rev < MaxRev => rev + 1 \in Revs)
    BY DEF TypeOK, Revs, Absent
  <2> QED
    BY <1>2, <1>15, <2>1 DEF PumpUpsert, PumpDelete, Pumped
<1> QED
  BY <1>3, <1>4, <1>5, <1>6, <1>7, <1>8, <1>10, <1>11, <1>12, <1>13, <1>14, <1>15
     DEF Next, PumpEvent, Die, NextPending, Select, Stop

\* The inductive invariant holds in every reachable state.
LEMMA InvariantHolds == Spec => []IInv
<1>1. Init => IInv
  <2> SUFFICES ASSUME Init PROVE IInv
    OBVIOUS
  <2>1. TypeOK
    BY InitTypeOK
  <2>2. Control
    <3>1. UpstreamOwned /\ LeaverKilled /\ CauseKnown
      BY DEF Init, UpstreamOwned, LeaverKilled, CauseKnown
    <3>2. Membership
      BY DEF Init, Membership, Holding
    <3>3. AwaitingIsEmpty /\ OpenQueueIsLive
      BY DEF Init, AwaitingIsEmpty, OpenQueueIsLive
    <3>4. SnapshottedIsSynced /\ NoSilentEnd
      BY DEF Init, SnapshottedIsSynced, NoSilentEnd
    <3> QED BY <3>1, <3>2, <3>3, <3>4 DEF Control
  <2>3. NothingLost
    BY <2>1 DEF Init, NothingLost, TypeOK
  <2> QED BY <2>1, <2>2, <2>3 DEF IInv
<1>2. IInv /\ [Next]_vars => IInv'
  BY TypeInductive, ControlInductive, TrackingInductive DEF IInv
<1> QED
  BY <1>1, <1>2, PTL DEF Spec

\* Reading on brings every snapshotted subscriber with an open queue to exactly
\* the cache's state (deliverSnapshotLocked, fanOutLocked, offer, Next).
THEOREM NothingIsLost == Spec => []NothingLost
<1>1. IInv => NothingLost
  BY DEF IInv
<1> QED BY <1>1, InvariantHolds, PTL

\* The upstream watch is owned: a scope that is not dead has a subscriber, and
\* its context is cancelled only when nobody can be reading (leave, die).
THEOREM UpstreamIsOwned == Spec => []UpstreamOwned
<1>1. IInv => UpstreamOwned
  BY DEF IInv, Control
<1> QED BY <1>1, InvariantHolds, PTL

\* A queue that ends under its reader always carries a reason, never nil and
\* never the scope's own cancellation (end, offer, die).
THEOREM EndsAreExplained == Spec => []NoSilentEnd
<1>1. IInv => NoSilentEnd
  BY DEF IInv, Control
<1> QED BY <1>1, InvariantHolds, PTL

\* No reader is handed objects or a boundary from an incomplete cache
\* (attachLocked, deliverSnapshotLocked).
THEOREM SnapshotsAreComplete == Spec => []NoPartialSnapshot
<1>1. IInv => NoPartialSnapshot
  BY DEF IInv, Control, NoPartialSnapshot, AwaitingIsEmpty, SnapshottedIsSynced, TypeOK
<1> QED BY <1>1, InvariantHolds, PTL

-----------------------------------------------------------------------------
\* Revisions grow along a queue, and beyond whatever its reader holds or is about to be
\* handed of the snapshot; and nothing is held of an object still in the snapshot, unless
\* a live event overtook it.
AscendingFor(c) ==
    /\ \A u \in Uids : view[c][u] <= rev /\ snap[c][u] <= rev
    /\ \A i \in DOMAIN ch[c] :
          /\ ch[c][i].ver <= rev
          /\ ch[c][i].uid = "error" => ch[c][i].ver = Absent
    /\ \A i \in DOMAIN ch[c] : ch[c][i].ver # Absent =>
          \A u \in Uids : view[c][u] < ch[c][i].ver /\ snap[c][u] < ch[c][i].ver
    /\ \A i, j \in DOMAIN ch[c] : j < i /\ ch[c][i].ver # Absent => ch[c][j].ver < ch[c][i].ver
    /\ \A u \in Uids : ~overtaken[c] /\ snap[c][u] # Absent => view[c][u] = Absent
Ascending == (\A u \in Uids : cache[u] <= rev) /\ \A c \in Subs : AscendingFor(c)

\* A queue is a sequence of events, and their revisions are numbers.
LEMMA QueueType ==
    ASSUME TypeOK, NEW c \in Subs
    PROVE  /\ Len(ch[c]) \in Nat /\ DOMAIN ch[c] = 1 .. Len(ch[c])
           /\ \A i \in DOMAIN ch[c] : ch[c][i] \in Events /\ ch[c][i].ver \in Nat
<1>1. \A i \in DOMAIN ch[c] : ch[c][i] \in Events
  BY DEF TypeOK
<1>2. \A e \in Events : e.ver \in Nat
  BY DEF Events, Revs, Absent
<1> QED
  BY <1>1, <1>2 DEF TypeOK

\* What does not concern c leaves its queue ascending.
LEMMA StillAscending ==
    ASSUME NEW c \in Subs, AscendingFor(c), rev' = rev,
           ch'[c] = ch[c], view'[c] = view[c], snap'[c] = snap[c], overtaken'[c] = overtaken[c]
    PROVE  AscendingFor(c)'
BY DEF AscendingFor

\* A queue stays ascending when a deletion, an error or the next revision is appended to it.
LEMMA AppendAscends ==
    ASSUME TypeOK, TypeOK', NEW c \in Subs, AscendingFor(c), NEW ev \in Events,
           ch'[c] = Append(ch[c], ev), UNCHANGED <<view, snap, overtaken>>,
           \/ ev.ver = Absent /\ rev' = rev
           \/ ev.ver = Absent /\ ev.uid # "error" /\ rev' = rev + 1
           \/ ev.ver = rev + 1 /\ ev.uid # "error" /\ rev' = rev + 1
    PROVE  AscendingFor(c)'
<1> DEFINE n == Len(ch[c])
<1>1. /\ n \in Nat /\ DOMAIN ch[c] = 1 .. n
      /\ DOMAIN ch'[c] = 1 .. n + 1
      /\ ch'[c][n + 1] = ev
      /\ \A i \in 1 .. n : ch'[c][i] = ch[c][i] /\ ch[c][i].ver \in Nat
      /\ rev \in Nat /\ rev' \in Nat /\ rev <= rev'
  BY QueueType DEF TypeOK, Revs, Absent
<1>2. \A u \in Uids : /\ view[c][u] \in Nat /\ snap[c][u] \in Nat
                      /\ view'[c][u] = view[c][u] /\ snap'[c][u] = snap[c][u]
  BY DEF TypeOK, Revs, Absent
<1> HIDE DEF n
<1>3. /\ \A u \in Uids : view'[c][u] <= rev' /\ snap'[c][u] <= rev'
      /\ \A i \in DOMAIN ch'[c] :
            /\ ch'[c][i].ver <= rev'
            /\ ch'[c][i].uid = "error" => ch'[c][i].ver = Absent
  BY <1>1, <1>2 DEF AscendingFor, Absent
<1>4. ASSUME NEW i \in DOMAIN ch'[c], ch'[c][i].ver # Absent, NEW u \in Uids
      PROVE  view'[c][u] < ch'[c][i].ver /\ snap'[c][u] < ch'[c][i].ver
  <2>1. CASE i \in 1 .. n
    BY <1>1, <1>2, <1>4, <2>1 DEF AscendingFor
  <2>2. CASE i = n + 1
    BY <1>1, <1>2, <1>4, <2>2 DEF AscendingFor
  <2> QED
    BY <1>1, <2>1, <2>2
<1>5. ASSUME NEW i \in DOMAIN ch'[c], NEW j \in DOMAIN ch'[c], j < i, ch'[c][i].ver # Absent
      PROVE  ch'[c][j].ver < ch'[c][i].ver
  <2>1. j \in 1 .. n
    BY <1>1, <1>5
  <2>2. CASE i \in 1 .. n
    BY <1>1, <1>5, <2>1, <2>2 DEF AscendingFor
  <2>3. CASE i = n + 1
    <3>1. ev.ver = rev + 1 /\ ch'[c][i] = ev /\ ch'[c][j] = ch[c][j]
      BY <1>1, <1>5, <2>1, <2>3
    <3>2. ch[c][j].ver <= rev /\ ch[c][j].ver \in Nat
      BY <1>1, <2>1 DEF AscendingFor
    <3> QED
      BY <1>1, <3>1, <3>2
  <2> QED
    BY <1>1, <2>2, <2>3
<1>6. \A u \in Uids : ~overtaken'[c] /\ snap'[c][u] # Absent => view'[c][u] = Absent
  BY DEF AscendingFor
<1> QED
  BY <1>3, <1>4, <1>5, <1>6 DEF AscendingFor

\* A snapshot of the cache, for one who has been handed nothing yet.
LEMMA SnapshotAscends ==
    ASSUME TypeOK, Control, Ascending, NEW c \in Subs, awaiting[c], snap'[c] = cache,
           UNCHANGED <<ch, rev, view, overtaken>>
    PROVE  AscendingFor(c)'
<1>1. /\ \A u \in Uids : view[c][u] = Absent /\ cache[u] <= rev
      /\ \A i \in DOMAIN ch[c] : ch[c][i].uid = "error" /\ ch[c][i].ver = Absent
  BY DEF Control, AwaitingIsEmpty, NoObjects, Ascending, AscendingFor
<1> QED
  BY <1>1 DEF Ascending, AscendingFor

\* Nothing held, nothing queued.
LEMMA EmptyAscends ==
    ASSUME rev \in Nat, NEW c \in Subs, snap[c] = NoObjects, view[c] = NoObjects, ch[c] = <<>>
    PROVE  AscendingFor(c)
BY DEF AscendingFor, NoObjects, Absent

\* Every step keeps the queues ascending.
LEMMA AscendingInductive == TypeOK /\ Control /\ Ascending /\ [Next]_vars => Ascending'
<1> SUFFICES ASSUME TypeOK, Control, Ascending, [Next]_vars
             PROVE  Ascending'
  OBVIOUS
<1> USE DEF scopeVars, pumpVars, queueVars, readVars
<1>0. TypeOK'
  BY TypeInductive
<1>1. \A c \in Subs : AscendingFor(c)
  BY DEF Ascending
<1>2. ASSUME UNCHANGED <<cache, rev, ch, view, snap, overtaken>>
      PROVE  Ascending'
  BY <1>1, <1>2, StillAscending DEF Ascending
<1>3. ASSUME NEW u \in Uids, PumpUpsert(u) \/ PumpDelete(u)
      PROVE  Ascending'
  <2>1. PICK v \in {Absent, rev + 1} : Pumped(u, v)
    BY <1>3 DEF PumpUpsert, PumpDelete
  <2>2. /\ rev' = rev + 1 /\ rev \in Nat /\ rev < MaxRev /\ cache' = [cache EXCEPT ![u] = v]
        /\ UNCHANGED <<view, snap, overtaken>>
    BY <2>1 DEF Pumped, TypeOK, Revs, Absent
  <2>3. \A w \in Uids : cache'[w] <= rev'
    BY <2>2 DEF Ascending, TypeOK, Revs, Absent
  <2>4. [uid |-> u, ver |-> v] \in Events
    BY <2>2 DEF Events, Revs, Absent
  <2>5. ASSUME NEW c \in Subs
        PROVE  AscendingFor(c)'
    <3>1. CASE ch'[c] = Append(ch[c], [uid |-> u, ver |-> v])
      BY <1>0, <1>1, <2>2, <2>4, <3>1, AppendAscends
    <3>2. CASE ch'[c] = ch[c]
      <4>1. \A w \in Uids : view[c][w] \in Nat /\ snap[c][w] \in Nat
        BY DEF TypeOK, Revs, Absent
      <4>2. \A i \in DOMAIN ch[c] : ch[c][i].ver \in Nat
        BY QueueType
      <4> QED
        BY <1>1, <2>2, <3>2, <4>1, <4>2 DEF AscendingFor
    <3> QED
      BY <2>1, <3>1, <3>2 DEF Pumped, Enqueue
  <2> QED
    BY <2>3, <2>5 DEF Ascending
<1>4. ASSUME NEW D \in SUBSET Subs, DeliverSnapshot(D), \A c \in D : awaiting[c],
             UNCHANGED <<cache, rev, ch, view, overtaken>>
      PROVE  Ascending'
  <2>1. ASSUME NEW c \in Subs
        PROVE  AscendingFor(c)'
    <3>1. CASE c \in D /\ ~closed[c]
      <4>1. snap'[c] = cache /\ awaiting[c]
        BY <1>4, <3>1 DEF DeliverSnapshot
      <4> QED
        BY <1>4, <4>1, SnapshotAscends
    <3>2. CASE ~(c \in D /\ ~closed[c])
      <4>1. snap'[c] = snap[c]
        BY <1>4, <3>2 DEF DeliverSnapshot
      <4> QED
        BY <1>1, <1>4, <4>1, StillAscending
    <3> QED
      BY <3>1, <3>2
  <2> QED
    BY <1>4, <2>1 DEF Ascending
<1>5. CASE PumpBookmark
  <2>1. {c \in subs : awaiting[c]} \in SUBSET Subs
    BY DEF TypeOK
  <2> QED
    BY <1>4, <1>5, <2>1 DEF PumpBookmark
<1>6. ASSUME NEW c \in Subs, Subscribe(c)
      PROVE  Ascending'
  <2>1. CASE dead
    BY <1>2, <1>6, <2>1 DEF Subscribe, Control, UpstreamOwned
  <2>2. CASE ~dead
    <3>1. /\ WarmJoiner(c) \in SUBSET Subs /\ \A d \in WarmJoiner(c) : awaiting[d]
      BY <1>6 DEF Subscribe, WarmJoiner, Control, Membership
    <3> QED
      BY <1>4, <1>6, <2>2, <3>1 DEF Subscribe
  <2> QED
    BY <2>1, <2>2
<1>7. CASE DieEnd
  <2> DEFINE ev == [uid |-> "error", ver |-> Absent]
  <2>1. ev \in Events
    BY DEF Events, Revs, Absent
  <2>2. ASSUME NEW c \in Subs
        PROVE  AscendingFor(c)'
    <3>1. CASE ch'[c] = Append(ch[c], ev)
      BY <1>0, <1>1, <1>7, <2>1, <3>1, AppendAscends DEF DieEnd
    <3>2. CASE ch'[c] = ch[c]
      BY <1>1, <1>7, <3>2, StillAscending DEF DieEnd
    <3> QED
      BY <1>7, <3>1, <3>2 DEF DieEnd, Enqueue
  <2> QED
    BY <1>7, <2>2 DEF DieEnd, Ascending
\* A step of c's reader.
<1>8. ASSUME NEW c \in Subs, AscendingFor(c)', UNCHANGED <<cache, rev>>,
             \A d \in Subs \ {c} : /\ ch'[d] = ch[d] /\ view'[d] = view[d]
                                   /\ snap'[d] = snap[d] /\ overtaken'[d] = overtaken[d]
      PROVE  Ascending'
  BY <1>1, <1>8, StillAscending DEF Ascending
<1>9. ASSUME NEW c \in Subs, NEW u \in Uids, NextPendingAdded(c, u)
      PROVE  Ascending'
  <2>1. /\ UNCHANGED <<cache, rev, ch, overtaken>>
        /\ \A d \in Subs \ {c} : view'[d] = view[d] /\ snap'[d] = snap[d]
        /\ \A w \in Uids : view'[c][w] = IF w = u THEN snap[c][u] ELSE view[c][w]
        /\ \A w \in Uids : snap'[c][w] = IF w = u THEN Absent ELSE snap[c][w]
    BY <1>9 DEF NextPendingAdded, TypeOK
  <2>2. /\ rev \in Nat
        /\ \A i \in DOMAIN ch[c] : ch[c][i].ver \in Nat
    BY QueueType DEF TypeOK, Revs, Absent
  <2>3. AscendingFor(c)'
    BY <1>1, <2>1, <2>2 DEF AscendingFor, Absent
  <2> QED
    BY <1>8, <2>1, <2>3
<1>10. ASSUME NEW c \in Subs, SelectEvent(c)
       PROVE  Ascending'
  <2> DEFINE n == Len(ch[c])
             ev == Head(ch[c])
  <2>1. /\ n \in Nat \ {0} /\ DOMAIN ch[c] = 1 .. n
        /\ DOMAIN ch'[c] = 1 .. n - 1
        /\ ev = ch[c][1] /\ ev \in Events
        /\ \A i \in 1 .. n - 1 : ch'[c][i] = ch[c][i + 1]
        /\ \A i \in 1 .. n : ch[c][i].ver \in Nat
    <3>1. ch[c] # <<>> /\ ch' = [ch EXCEPT ![c] = Tail(@)] /\ ch[c] \in Seq(Events)
      BY <1>10 DEF SelectEvent, TypeOK
    <3>2. ch'[c] = Tail(ch[c])
      BY <3>1 DEF TypeOK
    <3>3. n \in Nat \ {0} /\ DOMAIN ch[c] = 1 .. n /\ ev = ch[c][1]
      BY <3>1
    <3>4. DOMAIN ch'[c] = 1 .. n - 1 /\ \A i \in 1 .. n - 1 : ch'[c][i] = ch[c][i + 1]
      <4>1. ch'[c] \in Seq(Events)
        BY <1>0 DEF TypeOK
      <4>2. Len(Tail(ch[c])) = Len(ch[c]) - 1
        BY <3>1
      <4>3. ch'[c] \in Seq(Events) /\ Len(ch'[c]) = n - 1
        BY <3>2, <4>1, <4>2
      <4>4. \A i \in 1 .. n - 1 : Tail(ch[c])[i] = ch[c][i + 1]
        BY <3>1
      <4> QED
        BY <3>2, <4>3, <4>4
    <3> QED
      BY <3>3, <3>4, QueueType
  <2>2. /\ UNCHANGED <<cache, rev, snap>>
        /\ \A d \in Subs \ {c} : /\ ch'[d] = ch[d] /\ view'[d] = view[d]
                                 /\ overtaken'[d] = overtaken[d]
        /\ overtaken[c] => overtaken'[c]
    BY <1>10 DEF SelectEvent, TypeOK
  <2>3. ev.uid # "error" => /\ ev.uid \in Uids
                            /\ view' = [view EXCEPT ![c][ev.uid] = ev.ver]
                            /\ ~overtaken'[c] => snap[c] = NoObjects
    BY <1>10, <2>1 DEF SelectEvent, TypeOK, PendingEmpty, Events
  <2>4. ev.uid = "error" => view' = view
    BY <1>10 DEF SelectEvent
  <2> HIDE DEF n, ev
  <2>5. \A w \in Uids : /\ view'[c][w] = view[c][w] \/ view'[c][w] = ev.ver
                        /\ view[c][w] \in Nat /\ snap[c][w] \in Nat
    BY <2>3, <2>4 DEF TypeOK, Revs, Absent
  <2>6. \A i \in 1 .. n - 1 : i + 1 \in 1 .. n /\ 1 \in 1 .. n /\ 1 < i + 1
    BY <2>1
  <2>7. ASSUME NEW i \in 1 .. n - 1, ch'[c][i].ver # Absent, NEW w \in Uids
        PROVE  view'[c][w] < ch'[c][i].ver /\ snap'[c][w] < ch'[c][i].ver
    <3>1. /\ view[c][w] < ch[c][i + 1].ver /\ snap[c][w] < ch[c][i + 1].ver
          /\ ev.ver < ch[c][i + 1].ver
      BY <1>1, <2>1, <2>6, <2>7 DEF AscendingFor
    <3> QED
      BY <2>1, <2>2, <2>5, <3>1
  <2>8. ASSUME NEW i \in 1 .. n - 1, NEW j \in 1 .. n - 1, j < i, ch'[c][i].ver # Absent
        PROVE  ch'[c][j].ver < ch'[c][i].ver
    <3>1. i + 1 \in DOMAIN ch[c] /\ j + 1 \in DOMAIN ch[c] /\ j + 1 < i + 1
      BY <2>1, <2>6, <2>8
    <3>2. ch[c][i + 1].ver # Absent => ch[c][j + 1].ver < ch[c][i + 1].ver
      BY <1>1, <3>1 DEF AscendingFor
    <3> QED
      BY <2>1, <2>8, <3>2
  <2>9. \A w \in Uids : view'[c][w] <= rev' /\ snap'[c][w] <= rev'
    BY <1>1, <2>1, <2>2, <2>5, <2>6 DEF AscendingFor
  <2>10. \A i \in 1 .. n - 1 : /\ ch'[c][i].ver <= rev'
                               /\ ch'[c][i].uid = "error" => ch'[c][i].ver = Absent
    BY <1>1, <2>1, <2>2, <2>6 DEF AscendingFor
  <2>11. ASSUME NEW w \in Uids, ~overtaken'[c], snap'[c][w] # Absent
         PROVE  view'[c][w] = Absent
    BY <1>1, <2>2, <2>3, <2>4, <2>11 DEF AscendingFor, NoObjects
  <2>12. AscendingFor(c)'
    BY <2>1, <2>7, <2>8, <2>9, <2>10, <2>11 DEF AscendingFor
  <2> QED
    BY <1>8, <2>2, <2>12
<1>11. ASSUME NEW c \in Subs, Leave(c)
       PROVE  Ascending'
  <2>1. /\ UNCHANGED <<cache, rev>> /\ rev' \in Nat
        /\ snap'[c] = NoObjects /\ view'[c] = NoObjects /\ ch'[c] = <<>>
        /\ \A d \in Subs \ {c} : /\ ch'[d] = ch[d] /\ view'[d] = view[d]
                                 /\ snap'[d] = snap[d] /\ overtaken'[d] = overtaken[d]
    BY <1>11 DEF Leave, Drop, TypeOK, Revs, Absent
  <2>2. AscendingFor(c)'
    BY <2>1, EmptyAscends DEF AscendingFor, NoObjects, Absent
  <2> QED
    BY <1>8, <2>1, <2>2
<1>12. ASSUME NEW c \in Subs,
              \/ Lookup(c) \/ Quit(c) \/ LeaveForget(c) \/ LeaveCancel(c)
              \/ NextPendingBookmark(c) \/ NextPendingNone(c) \/ SelectReady(c) \/ SelectClosed(c)
       PROVE  Ascending'
  BY <1>2, <1>12 DEF Lookup, Quit, LeaveForget, LeaveCancel, NextPendingBookmark,
                     NextPendingNone, SelectReady, SelectClosed
<1>13. CASE DieForget \/ DieCancel \/ UNCHANGED vars \/ \E e \in Causes : PumpFail(e)
  BY <1>2, <1>13 DEF DieForget, DieCancel, PumpFail, vars
<1> QED
  BY <1>3, <1>5, <1>6, <1>7, <1>9, <1>10, <1>11, <1>12, <1>13
     DEF Next, PumpEvent, Die, NextPending, Select, Stop

\* An object never goes back in a reader's hands, unless its snapshot was overtaken
\* (fanOutLocked's order, deliverSnapshotLocked, Next).
THEOREM NeverGoesBack == Spec => NeverOlder
<1> DEFINE A == \A c \in Subs, u \in Uids :
                   ~overtaken[c] /\ view'[c][u] # Absent => view'[c][u] >= view[c][u]
<1>1. Init => Ascending
  <2> SUFFICES ASSUME Init
               PROVE  Ascending
    OBVIOUS
  <2>1. \A c \in Subs : snap[c] = NoObjects /\ view[c] = NoObjects /\ ch[c] = <<>>
    BY DEF Init
  <2>2. rev \in Nat /\ \A u \in Uids : cache[u] <= rev
    BY DEF Init, NoObjects, Absent
  <2> QED
    BY <2>1, <2>2, EmptyAscends DEF Ascending
<1>2. IInv /\ Ascending /\ [Next]_vars => Ascending'
  BY AscendingInductive DEF IInv
<1>3. IInv /\ Ascending /\ [Next]_vars => [A]_vars
  <2> SUFFICES ASSUME IInv, Ascending, [Next]_vars, NEW c \in Subs, NEW u \in Uids,
                      ~overtaken[c], view'[c][u] # Absent
               PROVE  view'[c][u] >= view[c][u]
    OBVIOUS
  <2> USE DEF scopeVars, pumpVars, queueVars, readVars
  <2>1. TypeOK /\ AscendingFor(c) /\ view[c][u] \in Nat /\ view[c] \in [Uids -> Nat]
    BY DEF IInv, Ascending, TypeOK, Revs, Absent
  <2>2. CASE view'[c][u] = view[c][u]
    BY <2>1, <2>2
  <2>3. ASSUME NEW w \in Uids, NextPendingAdded(c, w)
        PROVE  view'[c][u] >= view[c][u]
    <3>1. /\ view'[c][u] = IF w = u THEN snap[c][u] ELSE view[c][u]
          /\ snap[c][w] # Absent /\ snap[c][u] \in Nat
      BY <2>1, <2>3 DEF NextPendingAdded, TypeOK, Revs, Absent
    <3> QED
      BY <2>1, <3>1 DEF AscendingFor, Absent
  <2>4. ASSUME SelectEvent(c)
        PROVE  view'[c][u] >= view[c][u]
    <3>1. /\ 1 \in DOMAIN ch[c] /\ ch[c][1] \in Events /\ Head(ch[c]) = ch[c][1]
          /\ view'[c][u] = view[c][u] \/ view'[c][u] = ch[c][1].ver
      BY <2>1, <2>4 DEF SelectEvent, TypeOK
    <3>2. ch[c][1].ver \in Nat
      BY <3>1 DEF Events, Revs, Absent
    <3> QED
      BY <2>1, <3>1, <3>2 DEF AscendingFor
  <2>5. CASE Leave(c)
    BY <2>1, <2>5 DEF Leave, Drop, TypeOK, NoObjects
  <2>6. ASSUME NEW d \in Subs, d # c,
               (\E w \in Uids : NextPendingAdded(d, w)) \/ SelectEvent(d) \/ Leave(d)
        PROVE  view'[c][u] = view[c][u]
    BY <2>1, <2>6 DEF NextPendingAdded, SelectEvent, Leave, Drop, TypeOK
  <2>7. ASSUME UNCHANGED view
        PROVE  view'[c][u] = view[c][u]
    BY <2>7
  <2>8. CASE UNCHANGED vars \/ PumpEvent \/ Die \/ \E e \in Causes : PumpFail(e)
    BY <2>2, <2>7, <2>8 DEF vars, PumpEvent, PumpUpsert, PumpDelete, Pumped, PumpBookmark, PumpFail,
                            Die, DieForget, DieCancel, DieEnd
  <2>9. ASSUME NEW d \in Subs,
               \/ Lookup(d) \/ Subscribe(d) \/ NextPendingBookmark(d) \/ NextPendingNone(d)
               \/ SelectReady(d) \/ SelectClosed(d) \/ Quit(d) \/ LeaveForget(d) \/ LeaveCancel(d)
        PROVE  view'[c][u] = view[c][u]
    BY <2>7, <2>9 DEF Lookup, Subscribe, NextPendingBookmark, NextPendingNone, SelectReady,
                      SelectClosed, Quit, LeaveForget, LeaveCancel
  <2> QED
    BY <2>2, <2>3, <2>4, <2>5, <2>6, <2>8, <2>9 DEF Next, NextPending, Select, Stop
<1> HIDE DEF A
<1>4. Spec => [][A]_vars
  BY <1>1, <1>2, <1>3, InvariantHolds, PTL DEF Spec
<1> QED
  BY <1>4 DEF A, NeverOlder
=============================================================================
