-------------------------- MODULE StreamLoopProofs --------------------------
(***************************************************************************)
(* Proofs about StreamLoop, for any set of objects, any contents and any    *)
(* number of cycles: the wire grammar, the bound on barren cycles, the      *)
(* gate, the redaction revisions, and, of a Backend that does not overtake  *)
(* its own snapshot, the primary invariant of the protocol.                 *)
(***************************************************************************)
EXTENDS StreamLoop, SequenceTheorems, TLAPS

-----------------------------------------------------------------------------
\* The inductive invariant of every stream.

Shown == [rv : Revs, vis : Contents, sec : Contents, red : Nat]
Outs  == {NoEvent} \cup [type : {"upsert"}, uid : Uids, obj : Shown]
         \cup [type : {"deleted"}, uid : Uids] \cup [type : {"synced"}]
Digest(v, n) == <<v, n>>
Digests == {NoDigest} \cup {Digest(v, n) : v \in Contents, n \in Nat}

\* The type invariant, by the parts of the stream, and of the variables it leaves out.
WorldOK ==
    /\ world \in [Uids -> Objects] /\ rev \in Revs /\ allowed \in BOOLEAN
    /\ snapLeft \in [Uids -> Objects] /\ markLeft \in BOOLEAN
    /\ queue \in Seq([uid : Uids, obj : Objects])
LoopOK ==
    /\ place \in {"announcing", "opening", "resetting", "reading", "joining", "ended"}
    /\ cycles \in 0 .. MaxCycles /\ quickEnds \in 0 .. 1 /\ lasted \in BOOLEAN
    /\ err \in Errors \cup {"none"} /\ barren \in 0 .. MaxCycles
AuthOK ==
    /\ authErr \in Errors \cup {"none"} /\ cancelled \in BOOLEAN
    /\ ticker \in {"off", "waiting", "checking", "stopped"}
CycleOK ==
    /\ emitted \in [Uids -> Revs] /\ digests \in [Uids -> Digests]
    /\ revisions \in [Uids -> [val : Contents, rev : Nat]] /\ out \in Outs
ClientOK ==
    /\ held \in [Uids -> Shown] /\ seen \in SUBSET Uids
    /\ phase \in {"idle", "snapshot", "live", "broken", "closed"}
Shape == WorldOK /\ LoopOK /\ AuthOK /\ CycleOK /\ ClientOK

\* Where Stream is says where the wire is.
Grammar ==
    /\ place = "announcing" => phase \in {"idle", "snapshot", "live"}
    /\ place \in {"opening", "resetting"} => phase = "idle"
    /\ place = "reading" => phase \in {"snapshot", "live"}
    /\ place = "joining" => phase \in {"idle", "snapshot", "live"}
    /\ place = "ended" => phase = "closed"
    /\ place \notin {"reading", "ended"} => out = NoEvent
    /\ place = "resetting" => markLeft
    /\ place = "reading" /\ phase = "live" => ~markLeft /\ out.type # "synced"
    /\ place = "reading" /\ out.type = "synced" => ~markLeft

\* A cycle that was of no use is a quick end, or will be counted as one.
Counted ==
    /\ barren <= cycles
    /\ barren <= IF place \in {"announcing", "opening"} THEN quickEnds ELSE quickEnds + 1

\* A check that refused has cancelled the cycle.
Gated == authErr # "none" => cancelled

\* Objects that exist, or did, have a resourceVersion.
Versions ==
    /\ \A u \in Uids : world[u].live => world[u].rv # 0
    /\ \A u \in Uids : snapLeft[u] # NoObject => snapLeft[u].live /\ snapLeft[u].rv # 0
    /\ \A i \in 1 .. Len(queue) : queue[i].obj.rv # 0

\* What a consumer holds has a revision that Stream remembers and has not gone beyond.
Remembered(u) ==
    Holds(u) => /\ revisions[u].rev # 0 /\ held[u].red <= revisions[u].rev
                /\ held[u].red = revisions[u].rev => held[u].sec = revisions[u].val
Redaction ==
    /\ \A u \in Uids : Remembered(u)
    /\ place = "reading" /\ phase = "snapshot" => \A u \in seen : Holds(u) => emitted[u] # 0
    /\ out.type = "upsert" => /\ revisions[out.uid].val = out.obj.sec
                              /\ revisions[out.uid].rev = out.obj.red
                              /\ out.obj.red # 0 /\ emitted[out.uid] # 0

IInv == Shape /\ Grammar /\ Counted /\ Gated /\ Versions /\ Redaction

-----------------------------------------------------------------------------
\* ... and of one whose Backend does not overtake its snapshot.

Deleting(u) == out.type = "deleted" /\ out.uid = u
Upserting(u) == out.type = "upsert" /\ out.uid = u

\* The last thing that happened to u is in the queue, ...
Coming(u) == \E i \in 1 .. Len(queue) : queue[i].uid = u /\ queue[i].obj = world[u]

\* ... or it has been handled.
Handled(u) ==
    IF world[u].live
    THEN /\ emitted[u] = world[u].rv /\ ~Deleting(u)
         /\ digests[u] = Digest(world[u].vis, revisions[u].rev)
         /\ revisions[u].val = world[u].sec
    ELSE digests[u] = NoDigest \/ Deleting(u)
Current(u) ==
    \/ Coming(u)
    \/ snapLeft[u] # NoObject /\ snapLeft[u] = world[u]
    \/ snapLeft[u] = NoObject /\ Handled(u)

\* A queued event is news, or it is a replay, at the head, of what is stale.
News(u, o) ==
    o.rv > emitted[u] /\ Coming(u) /\ (snapLeft[u] # NoObject => o.rv > snapLeft[u].rv)
Queued ==
    /\ \A i \in 1 .. Len(queue) :
          /\ queue[i].obj.rv <= world[queue[i].uid].rv
          /\ \/ i = 1 /\ Stale(queue[i].uid, queue[i].obj) /\ ~Deleting(queue[i].uid)
             \/ News(queue[i].uid, queue[i].obj)
    /\ \A i, j \in 1 .. Len(queue) :
          i < j /\ queue[i].uid = queue[j].uid => queue[i].obj.rv < queue[j].obj.rv

\* What is left of the snapshot has not been handled, and is older than the queue.
Listed(u) ==
    snapLeft[u] # NoObject => /\ emitted[u] = 0 /\ digests[u] = NoDigest /\ markLeft
                              /\ snapLeft[u].rv <= world[u].rv /\ ~Deleting(u)

\* The digests say what the consumer holds, once it has what is being emitted.
Showing(u) ==
    /\ Upserting(u) => digests[u] = Digest(out.obj.vis, out.obj.red)
    /\ digests[u] # NoDigest =>
          /\ emitted[u] # 0 /\ revisions[u].rev # 0
          /\ \/ Deleting(u) \/ Upserting(u)
             \/ /\ held[u].red = revisions[u].rev /\ held[u].sec = revisions[u].val
                /\ digests[u] = Digest(held[u].vis, revisions[u].rev)
                /\ phase = "snapshot" => u \in seen
    /\ digests[u] = NoDigest =>
          /\ phase = "live" => ~Holds(u)
          /\ phase = "snapshot" /\ u \in seen => ~Holds(u)

Tracked(u) == Current(u) /\ Listed(u) /\ Showing(u) /\ emitted[u] <= world[u].rv
InStep ==
    Watching =>
        /\ Queued
        /\ \A u \in Uids : Tracked(u)
        /\ place = "resetting" => \A u \in Uids : emitted[u] = 0 /\ digests[u] = NoDigest
Ordered == \A u \in Uids : world[u].rv <= rev

SInv == IInv /\ Ordered /\ InStep

USE ContentsAssumption, BooleanAssumption, BoundAssumption

-----------------------------------------------------------------------------
\* Types.

Entries == [uid : Uids, obj : Objects]

\* The absent object is an object, without a resourceVersion.
LEMMA NoObjectType ==
    /\ NoObject \in Objects /\ NoObject.rv = 0 /\ NoObject.live = FALSE
    /\ NoObject.vis \in Contents /\ NoObject.sec \in Contents
<1>1. (CHOOSE v \in Contents : TRUE) \in Contents
  BY ContentsAssumption
<1>2. 0 \in Revs
  BY BoundAssumption DEF Revs
<1> QED
  BY <1>1, <1>2 DEF NoObject, Nothing, Objects

\* So are the absent revision and what is not held.
LEMMA NothingType ==
    /\ NoRevision \in [val : Contents, rev : Nat] /\ NoRevision.rev = 0
    /\ NotHeld \in Shown /\ NotHeld.red = 0 /\ 0 \in Revs
<1>1. 0 \in Revs
  BY BoundAssumption DEF Revs
<1> QED
  BY <1>1, NoObjectType DEF NoRevision, NotHeld, Shown

\* resourceVersions are numbers.
LEMMA Numbers == Revs \subseteq Nat
BY BoundAssumption DEF Revs

\* The parts of an object.
LEMMA ObjectType ==
    ASSUME NEW o \in Objects
    PROVE  o.rv \in Revs /\ o.vis \in Contents /\ o.sec \in Contents /\ o.live \in BOOLEAN
BY DEF Objects

\* An event of the queue.
LEMMA EntryType ==
    ASSUME NEW u \in Uids, NEW o \in Objects
    PROVE  /\ [uid |-> u, obj |-> o] \in Entries
           /\ [uid |-> u, obj |-> o].uid = u /\ [uid |-> u, obj |-> o].obj = o
BY DEF Entries

\* A digest tells what is shown and which revision, and is never the absent one.
LEMMA DigestTells ==
    /\ \A v, n : Digest(v, n) # NoDigest
    /\ \A v, n, w, m : Digest(v, n) = Digest(w, m) => v = w /\ n = m
    /\ \A v \in Contents, n \in Nat : Digest(v, n) \in Digests
    /\ NoDigest \in Digests
BY DEF Digest, NoDigest, Digests

\* An event joins the queue at its end, ...
LEMMA QueueGrows ==
    ASSUME NEW q \in Seq(Entries), NEW e \in Entries
    PROVE  /\ Append(q, e) \in Seq(Entries) /\ Len(q) \in Nat
           /\ Len(Append(q, e)) = Len(q) + 1
           /\ \A i \in 1 .. Len(q) : Append(q, e)[i] = q[i]
           /\ Append(q, e)[Len(q) + 1] = e
BY AppendProperties, LenProperties

\* ... and is taken at its head.
LEMMA QueueTail ==
    ASSUME NEW q \in Seq(Entries), q # <<>>
    PROVE  /\ Tail(q) \in Seq(Entries) /\ Len(q) \in Nat \ {0}
           /\ Head(q) = q[1] /\ Head(q) \in Entries
           /\ Len(Tail(q)) = Len(q) - 1
           /\ \A i \in 1 .. Len(q) - 1 : Tail(q)[i] = q[i + 1]
BY HeadTailProperties, EmptySeq

\* Head of the queue.
LEMMA HeadType ==
    ASSUME WorldOK, queue # <<>>
    PROVE  /\ Head(queue) = queue[1] /\ Head(queue).uid \in Uids /\ Head(queue).obj \in Objects
           /\ Tail(queue) \in Seq(Entries)
BY QueueTail DEF WorldOK, Entries

-----------------------------------------------------------------------------
\* The type invariant, part by part.

\* The API server and the Backend stay well typed.
LEMMA WorldNext ==
    ASSUME WorldOK, [Next]_vars
    PROVE  WorldOK'
<1> USE DEF Entries
<1>1. CASE UNCHANGED <<worldVars, upVars>>
  BY <1>1 DEF WorldOK, worldVars, upVars
<1>2. ASSUME NEW u \in Uids, NEW o \in Objects, rev' \in Revs, allowed' = allowed,
             world' = [world EXCEPT ![u] = o], Notify(u, o), UNCHANGED <<snapLeft, markLeft>>
      PROVE  WorldOK'
  <2>1. queue' \in Seq(Entries)
    BY <1>2, EntryType, QueueGrows DEF Notify, WorldOK
  <2> QED
    BY <1>2, <2>1 DEF WorldOK
<1>3. ASSUME NEW u \in Uids, NEW v \in Contents, NEW s \in Contents, Write(u, v, s)
      PROVE  WorldOK'
  <2>1. rev + 1 \in Revs
    BY <1>3 DEF Write, WorldOK, Revs
  <2>2. [rv |-> rev + 1, vis |-> v, sec |-> s, live |-> TRUE] \in Objects
    BY <2>1 DEF Objects
  <2> QED
    BY <1>2, <1>3, <2>1, <2>2 DEF Write
<1>4. ASSUME NEW u \in Uids, Remove(u)
      PROVE  WorldOK'
  <2>1. rev + 1 \in Revs
    BY <1>4 DEF Remove, WorldOK, Revs
  <2>2. [world[u] EXCEPT !.rv = rev + 1, !.live = FALSE] \in Objects
    BY <2>1 DEF Objects, WorldOK
  <2> QED
    BY <1>2, <1>4, <2>1, <2>2 DEF Remove
<1>5. ASSUME NEW u \in Uids, NEW r \in Revs, Replay(u, r)
      PROVE  WorldOK'
  <2> DEFINE o == [NoObject EXCEPT !.rv = r, !.live = TRUE]
  <2>1. o \in Objects
    BY NoObjectType DEF Objects
  <2>2. queue' = <<[uid |-> u, obj |-> o]>>
    BY <1>5 DEF Replay
  <2> HIDE DEF o
  <2>3. queue' \in Seq(Entries)
    BY <2>1, <2>2, EntryType
  <2> QED
    BY <1>5, <2>3 DEF Replay, WorldOK, worldVars
<1>6. CASE Revoke
  BY <1>6 DEF Revoke, WorldOK, upVars
<1>7. CASE OpenWatch
  <2>1. snapLeft' \in [Uids -> Objects]
    BY <1>7, NoObjectType DEF OpenWatch, WorldOK
  <2> QED
    BY <1>7, <2>1, EmptySeq DEF OpenWatch, WorldOK, worldVars
<1>8. ASSUME NEW u \in Uids, TakeSnapshot(u)
      PROVE  WorldOK'
  BY <1>8, NoObjectType DEF TakeSnapshot, WorldOK, worldVars
<1>9. CASE TakeBookmark
  BY <1>9 DEF TakeBookmark, WorldOK, worldVars
<1>10. CASE TakeLive
  BY <1>10, HeadType DEF TakeLive, WorldOK, worldVars
<1>11. ASSUME NEW e, CycleEnds(e)
       PROVE  WorldOK'
  BY <1>11, NoObjectType, EmptySeq DEF CycleEnds, WorldOK, worldVars
<1>12. CASE Announce \/ OpenRefused \/ EmitReset \/ EmitOut \/ CancelCycle \/ Recover \/ GiveUp
  BY <1>1, <1>12 DEF Announce, OpenRefused, EmitReset, EmitOut, CancelCycle, Recover, GiveUp
<1>13. CASE CheckBegins \/ Check \/ Disconnect \/ Lasts
  BY <1>1, <1>13 DEF CheckBegins, Check, CheckPasses, TickerStops, CheckRefuses, Disconnect, Lasts
<1>14. ASSUME NEW e \in Errors, OpenFails(e)
       PROVE  WorldOK'
  BY <1>1, <1>14 DEF OpenFails
<1>15. CASE UNCHANGED vars
  BY <1>1, <1>15 DEF vars
<1> QED
  BY <1>3, <1>4, <1>5, <1>6, <1>7, <1>8, <1>9, <1>10, <1>11, <1>12, <1>13, <1>14, <1>15
     DEF Next, Loop

\* Stream counts every cycle of no use as a quick end, and stops at the second.
LEMMA LoopNext ==
    ASSUME LoopOK, Counted, AuthOK, [Next]_vars
    PROVE  LoopOK' /\ Counted'
<1>1. CASE UNCHANGED <<loopVars, barren>>
  BY <1>1 DEF LoopOK, Counted, loopVars
<1>2. CASE Announce \/ OpenRefused \/ EmitReset \/ Disconnect
  BY <1>2 DEF Announce, OpenRefused, EmitReset, Disconnect, LoopOK, Counted
<1>3. ASSUME NEW e \in Errors \cup {"none"}, place = "opening", cycles < MaxCycles,
             place' \in {"resetting", "joining"}, cycles' = cycles + 1, barren' = barren + 1,
             quickEnds' = quickEnds, lasted' = FALSE, err' = e
      PROVE  LoopOK' /\ Counted'
  <2>1. /\ cycles \in Nat /\ MaxCycles \in Nat /\ barren \in Nat /\ quickEnds \in 0 .. 1
        /\ barren <= cycles /\ barren <= quickEnds
    BY <1>3 DEF LoopOK, Counted
  <2>2. cycles' \in 0 .. MaxCycles /\ barren' \in 0 .. MaxCycles
    BY <1>3, <2>1
  <2>3. Counted'
    BY <1>3, <2>1 DEF Counted
  <2> QED
    BY <1>3, <2>2, <2>3 DEF LoopOK
<1>4. CASE OpenWatch
  BY <1>3, <1>4 DEF OpenWatch
<1>5. ASSUME NEW e \in Errors, OpenFails(e)
      PROVE  LoopOK' /\ Counted'
  BY <1>3, <1>5 DEF OpenFails
<1>6. CASE Lasts
  BY <1>6 DEF Lasts, LoopOK, Counted
<1>7. ASSUME NEW e \in Errors, CycleEnds(e)
      PROVE  LoopOK' /\ Counted'
  BY <1>7 DEF CycleEnds, Watching, LoopOK, Counted
<1>8. CASE Recover
  BY <1>8 DEF Recover, Joined, GoesRound, WasUseful, TooQuick, LoopOK, Counted
<1>9. CASE GiveUp
  BY <1>9 DEF GiveUp, Joined, LoopOK, Counted
<1>10. CASE \/ TakeBookmark \/ TakeLive \/ EmitOut \/ CancelCycle \/ Revoke
            \/ \E u \in Uids : TakeSnapshot(u)
  BY <1>1, <1>10 DEF TakeBookmark, TakeLive, EmitOut, CancelCycle, Revoke, TakeSnapshot
<1>11. ASSUME NEW u \in Uids, \/ \E v, s \in Contents : Write(u, v, s)
                              \/ Remove(u) \/ \E r \in Revs : Replay(u, r)
       PROVE  LoopOK' /\ Counted'
  BY <1>1, <1>11 DEF Write, Remove, Replay
<1>12. CASE CheckBegins \/ Check
  BY <1>1, <1>12 DEF CheckBegins, Check, CheckPasses, TickerStops, CheckRefuses
<1>13. CASE UNCHANGED vars
  BY <1>1, <1>13 DEF vars
<1>14. "canceled" \in Errors
  BY DEF Errors
<1> QED
  BY <1>2, <1>4, <1>5, <1>6, <1>7, <1>8, <1>9, <1>10, <1>11, <1>12, <1>13, <1>14 DEF Next, Loop

\* A refusal cancels the cycle before the gate is free, and only a new cycle undoes it.
LEMMA AuthNext ==
    ASSUME AuthOK, Gated, [Next]_vars
    PROVE  AuthOK' /\ Gated'
<1>1. CASE UNCHANGED authVars
  BY <1>1 DEF AuthOK, Gated, authVars
<1>2. CASE OpenWatch \/ \E e \in Errors : OpenFails(e)
  BY <1>2 DEF OpenWatch, OpenFails, AuthOK, Gated
<1>3. CASE CheckBegins \/ CheckPasses \/ TickerStops \/ CancelCycle \/ Disconnect
  BY <1>3 DEF CheckBegins, CheckPasses, TickerStops, CancelCycle, Disconnect, AuthOK, Gated
<1>4. ASSUME NEW e \in {"unavailable", "terminal"}, CheckRefuses(e)
      PROVE  AuthOK' /\ Gated'
  BY <1>4 DEF CheckRefuses, AuthOK, Gated, Errors
<1>5. CASE Announce \/ OpenRefused \/ EmitReset \/ TakeBookmark \/ TakeLive \/ EmitOut
           \/ Recover \/ GiveUp \/ Lasts \/ Revoke
  BY <1>1, <1>5 DEF Announce, OpenRefused, EmitReset, TakeBookmark, TakeLive, EmitOut, Recover,
                    GiveUp, Lasts, Revoke
<1>6. ASSUME NEW u \in Uids, \/ \E v, s \in Contents : Write(u, v, s)
                             \/ Remove(u) \/ (\E r \in Revs : Replay(u, r))
                             \/ TakeSnapshot(u)
      PROVE  AuthOK' /\ Gated'
  BY <1>1, <1>6 DEF Write, Remove, Replay, TakeSnapshot
<1>7. ASSUME NEW e, CycleEnds(e)
      PROVE  AuthOK' /\ Gated'
  BY <1>1, <1>7 DEF CycleEnds
<1>8. CASE UNCHANGED vars
  BY <1>1, <1>8 DEF vars
<1> QED
  BY <1>2, <1>3, <1>4, <1>5, <1>6, <1>7, <1>8 DEF Next, Loop, Check

\* What handling an event does to the cycle's state.
LEMMA ObservedType ==
    ASSUME CycleOK, NEW u \in Uids, NEW o \in Objects
    PROVE  /\ Observed(u, o) \in [val : Contents, rev : Nat]
           /\ Observed(u, o).val = o.sec /\ Observed(u, o).rev # 0
           /\ revisions[u].rev # 0 =>
                /\ Observed(u, o).rev >= revisions[u].rev
                /\ Observed(u, o).rev = revisions[u].rev => revisions[u].val = o.sec
<1>1. o.sec \in Contents /\ revisions[u] \in [val : Contents, rev : Nat]
  BY ObjectType DEF CycleOK
<1> QED
  BY <1>1 DEF Observed

\* Handling an event keeps the cycle's maps well typed.
LEMMA HandleType ==
    ASSUME CycleOK, NEW u \in Uids, NEW o \in Objects, Handle(u, o)
    PROVE  CycleOK'
<1>1. CASE Stale(u, o)
  BY <1>1 DEF Handle, CycleOK, cycleVars
<1>2. CASE ~Stale(u, o) /\ o.live
  <2> DEFINE r == Observed(u, o)
             d == VisibleDigest(o, r)
             e == [type |-> "upsert", uid |-> u,
                   obj |-> [rv |-> o.rv, vis |-> o.vis, sec |-> o.sec, red |-> r.rev]]
  <2>1. r \in [val : Contents, rev : Nat] /\ r.rev \in Nat
    BY ObservedType
  <2>2. o.rv \in Revs /\ o.vis \in Contents /\ o.sec \in Contents
    BY ObjectType
  <2>3. /\ emitted' = [emitted EXCEPT ![u] = o.rv] /\ revisions' = [revisions EXCEPT ![u] = r]
        /\ digests' = [digests EXCEPT ![u] = d] /\ (out' = NoEvent \/ out' = e)
    BY <1>2 DEF Handle
  <2> HIDE DEF r
  <2>4. d \in Digests
    BY <2>1, <2>2, DigestTells DEF VisibleDigest, Digest
  <2>5. e \in Outs /\ NoEvent \in Outs
    BY <2>1, <2>2 DEF Outs, Shown
  <2> HIDE DEF d, e
  <2> QED
    BY <2>1, <2>2, <2>3, <2>4, <2>5 DEF CycleOK
<1>3. CASE ~Stale(u, o) /\ ~o.live
  <2>1. /\ emitted' = [emitted EXCEPT ![u] = o.rv] /\ UNCHANGED <<digests, revisions>>
        /\ out' = [type |-> "deleted", uid |-> u]
    BY <1>3 DEF Handle
  <2>2. o.rv \in Revs /\ out' \in Outs
    BY <2>1, ObjectType DEF Outs
  <2> QED
    BY <2>1, <2>2 DEF CycleOK
<1> QED
  BY <1>1, <1>2, <1>3 DEF Handle

\* So does every other step.
LEMMA CycleNext ==
    ASSUME CycleOK, WorldOK, [Next]_vars
    PROVE  CycleOK'
<1>1. CASE UNCHANGED cycleVars
  BY <1>1 DEF CycleOK, cycleVars
<1>2. CASE OpenWatch
  <2>1. emitted' \in [Uids -> Revs] /\ digests' \in [Uids -> Digests]
    BY <1>2, NothingType, DigestTells DEF OpenWatch
  <2> QED
    BY <1>2, <2>1 DEF OpenWatch, CarriedOver, CycleOK
<1>3. ASSUME NEW u \in Uids, TakeSnapshot(u)
      PROVE  CycleOK'
  BY <1>3, HandleType DEF TakeSnapshot, WorldOK
<1>4. CASE TakeLive
  BY <1>4, HandleType, HeadType DEF TakeLive
<1>5. CASE TakeBookmark
  <2>1. out' \in Outs
    BY <1>5 DEF TakeBookmark, Outs
  <2> QED
    BY <1>5, <2>1 DEF TakeBookmark, CycleOK
<1>6. CASE EmitOut
  <2>1. out' \in Outs
    BY <1>6 DEF EmitOut, Outs
  <2>2. CASE out.type = "upsert" /\ UNCHANGED <<emitted, digests, revisions>>
    BY <2>1, <2>2 DEF CycleOK
  <2>3. CASE /\ emitted' = [emitted EXCEPT ![out.uid] = 0]
             /\ digests' = [digests EXCEPT ![out.uid] = NoDigest]
             /\ revisions' = [revisions EXCEPT ![out.uid] = NoRevision]
    <3>1. emitted' \in [Uids -> Revs] /\ revisions' \in [Uids -> [val : Contents, rev : Nat]]
      BY <2>3, NothingType DEF CycleOK
    <3>2. digests' \in [Uids -> Digests]
      BY <2>3, DigestTells DEF CycleOK
    <3> QED
      BY <2>1, <3>1, <3>2 DEF CycleOK
  <2>4. CASE /\ revisions' = [u \in Uids |-> IF emitted[u] = 0 THEN NoRevision ELSE revisions[u]]
             /\ UNCHANGED <<emitted, digests>>
    <3>1. revisions' \in [Uids -> [val : Contents, rev : Nat]]
      BY <2>4, NothingType DEF CycleOK
    <3> QED
      BY <2>1, <2>4, <3>1 DEF CycleOK
  <2> QED
    BY <1>6, <2>2, <2>3, <2>4 DEF EmitOut
<1>7. ASSUME NEW e, CycleEnds(e)
      PROVE  CycleOK'
  BY <1>7 DEF CycleEnds, CycleOK, Outs
<1>8. CASE Announce \/ OpenRefused \/ EmitReset \/ CancelCycle \/ Recover \/ GiveUp \/ Lasts
           \/ Revoke
  BY <1>1, <1>8 DEF Announce, OpenRefused, EmitReset, CancelCycle, Recover, GiveUp, Lasts,
                    Revoke
<1>9. CASE CheckBegins \/ Check \/ Disconnect \/ \E e \in Errors : OpenFails(e)
  BY <1>1, <1>9 DEF CheckBegins, Check, CheckPasses, TickerStops, CheckRefuses, Disconnect,
                    OpenFails
<1>10. ASSUME NEW u \in Uids, \/ \E v, s \in Contents : Write(u, v, s)
                              \/ Remove(u) \/ (\E r \in Revs : Replay(u, r))
       PROVE  CycleOK'
  BY <1>1, <1>10 DEF Write, Remove, Replay
<1>11. CASE UNCHANGED vars
  BY <1>1, <1>11 DEF vars
<1> QED
  BY <1>2, <1>3, <1>4, <1>5, <1>6, <1>7, <1>8, <1>9, <1>10, <1>11 DEF Next, Loop

\* A cycle that is read from has at most one event in hand.
LEMMA HandleOut ==
    ASSUME NEW u, NEW o, Handle(u, o), out = NoEvent
    PROVE  \/ out' = NoEvent
           \/ ~Stale(u, o) /\ o.live /\ out'.type = "upsert" /\ out'.uid = u
           \/ ~Stale(u, o) /\ ~o.live /\ out'.type = "deleted" /\ out'.uid = u
BY DEF Handle, cycleVars

\* Every step keeps the consumer's phase where the loop takes it to be.
LEMMA GrammarNext ==
    ASSUME Shape, Grammar, [Next]_vars
    PROVE  Grammar'
<1>0. NoEvent.type = "none"
  BY DEF NoEvent
<1>1. CASE UNCHANGED <<place, phase, out, markLeft>>
  BY <1>1 DEF Grammar
<1>2. CASE Announce
  BY <1>2 DEF Announce, Resync, Grammar, cycleVars, upVars
<1>3. CASE OpenRefused
  BY <1>3 DEF OpenRefused, Error, Grammar, cycleVars, upVars
<1>4. CASE OpenWatch
  BY <1>4 DEF OpenWatch, Grammar, clientVars
<1>5. ASSUME NEW e \in Errors, OpenFails(e)
      PROVE  Grammar'
  BY <1>5 DEF OpenFails, Grammar, clientVars, cycleVars, upVars
<1>6. CASE EmitReset
  BY <1>0, <1>6 DEF EmitReset, Reset, Grammar, cycleVars, upVars
<1>7. ASSUME NEW u \in Uids, NEW o, Pulling, Handle(u, o),
             UNCHANGED <<markLeft, loopVars, clientVars>>
      PROVE  Grammar'
  <2>1. out'.type # "synced"
    BY <1>0, <1>7, HandleOut DEF Pulling
  <2> QED
    BY <1>7, <2>1 DEF Pulling, Grammar, loopVars, clientVars
<1>8. ASSUME NEW u \in Uids, TakeSnapshot(u)
      PROVE  Grammar'
  BY <1>7, <1>8 DEF TakeSnapshot
<1>9. CASE TakeLive
  BY <1>7, <1>9, HeadType DEF TakeLive, Shape
<1>10. CASE TakeBookmark
  BY <1>10 DEF TakeBookmark, Pulling, Grammar, loopVars, clientVars
<1>11. CASE EmitOut
  <2>1. place = "reading" /\ place' = place /\ markLeft' = markLeft /\ out' = NoEvent
    BY <1>11 DEF EmitOut, loopVars, upVars
  <2>2. CASE out.type = "synced"
    <3>1. phase' = "live"
      BY <1>11, <2>1, <2>2 DEF EmitOut, Synced, Grammar
    <3> QED
      BY <1>0, <2>1, <2>2, <3>1 DEF Grammar
  <2>3. CASE out.type # "synced"
    <3>1. phase' = phase
      BY <1>11, <2>1, <2>3 DEF EmitOut, Upsert, Drop, Grammar
    <3> QED
      BY <1>0, <2>1, <3>1 DEF Grammar
  <2> QED
    BY <2>2, <2>3
<1>12. ASSUME NEW e, CycleEnds(e)
       PROVE  Grammar'
  BY <1>0, <1>12 DEF CycleEnds, Watching, Grammar, clientVars
<1>13. CASE Recover
  BY <1>13 DEF Recover, Joined, GoesRound, Grammar, cycleVars, upVars, clientVars
<1>14. CASE GiveUp
  BY <1>14 DEF GiveUp, Joined, Error, Grammar, cycleVars, upVars
<1>15. CASE Disconnect
  BY <1>15 DEF Disconnect, Grammar, cycleVars, upVars
<1>16. CASE CheckBegins \/ Check \/ Lasts \/ CancelCycle \/ Revoke
  BY <1>1, <1>16 DEF CheckBegins, Check, CheckPasses, TickerStops, CheckRefuses, Lasts,
                     CancelCycle, Revoke, loopVars, clientVars, cycleVars, upVars
<1>17. ASSUME NEW u \in Uids, \/ \E v, s \in Contents : Write(u, v, s)
                              \/ Remove(u) \/ (\E r \in Revs : Replay(u, r))
       PROVE  Grammar'
  BY <1>1, <1>17 DEF Write, Remove, Replay, loopVars, clientVars, cycleVars
<1>18. CASE UNCHANGED vars
  BY <1>1, <1>18 DEF vars, loopVars, clientVars, cycleVars, upVars
<1> QED
  BY <1>2, <1>3, <1>4, <1>5, <1>6, <1>8, <1>9, <1>10, <1>11, <1>12, <1>13, <1>14, <1>15, <1>16,
     <1>17, <1>18 DEF Next, Loop

\* The consumer stays well typed.
LEMMA ClientNext ==
    ASSUME Shape, Grammar, [Next]_vars
    PROVE  ClientOK'
<1>1. CASE UNCHANGED clientVars
  BY <1>1 DEF Shape, ClientOK, clientVars
<1>2. CASE Announce \/ OpenRefused \/ EmitReset \/ GiveUp \/ Disconnect
  BY <1>2 DEF Announce, Resync, OpenRefused, Error, EmitReset, Reset, GiveUp, Disconnect, Shape,
              ClientOK
<1>3. CASE EmitOut
  <2>1. CASE out.type = "upsert" /\ Upsert(out.uid, out.obj)
    <3>1. out.uid \in Uids /\ out.obj \in Shown
      BY <2>1 DEF Shape, CycleOK, Outs, NoEvent
    <3> QED
      BY <2>1, <3>1 DEF Upsert, Shape, ClientOK
  <2>2. CASE out.type = "deleted" /\ Drop(out.uid)
    <3>1. out.uid \in Uids
      BY <2>2 DEF Shape, CycleOK, Outs, NoEvent
    <3> QED
      BY <2>2, <3>1, NothingType DEF Drop, Shape, ClientOK
  <2>3. CASE Synced
    <3>1. held' \in [Uids -> Shown]
      BY <2>3, NothingType DEF Synced, Shape, ClientOK
    <3> QED
      BY <2>3, <3>1 DEF Synced, Shape, ClientOK
  <2> QED
    BY <1>3, <2>1, <2>2, <2>3 DEF EmitOut
<1>4. CASE OpenWatch \/ TakeBookmark \/ TakeLive \/ CancelCycle \/ Recover \/ Lasts \/ Revoke
  BY <1>1, <1>4 DEF OpenWatch, TakeBookmark, TakeLive, CancelCycle, Recover, Lasts, Revoke
<1>5. ASSUME NEW u \in Uids, \/ \E v, s \in Contents : Write(u, v, s)
                             \/ Remove(u) \/ (\E r \in Revs : Replay(u, r))
                             \/ TakeSnapshot(u)
      PROVE  ClientOK'
  BY <1>1, <1>5 DEF Write, Remove, Replay, TakeSnapshot
<1>6. ASSUME NEW e, CycleEnds(e) \/ OpenFails(e)
      PROVE  ClientOK'
  BY <1>1, <1>6 DEF CycleEnds, OpenFails
<1>7. CASE CheckBegins \/ Check
  BY <1>1, <1>7 DEF CheckBegins, Check, CheckPasses, TickerStops, CheckRefuses
<1>8. CASE UNCHANGED vars
  BY <1>1, <1>8 DEF vars
<1> QED
  BY <1>2, <1>3, <1>4, <1>5, <1>6, <1>7, <1>8 DEF Next, Loop

-----------------------------------------------------------------------------
\* Resource versions and redaction revisions.

\* No object is ever in the world, a snapshot or the queue without a resourceVersion.
LEMMA VersionsNext ==
    ASSUME WorldOK, Versions, [Next]_vars
    PROVE  Versions'
<1>1. CASE UNCHANGED <<world, snapLeft, queue>>
  BY <1>1 DEF Versions
<1>0. queue \in Seq(Entries) /\ Len(queue) \in Nat
  BY LenProperties DEF WorldOK, Entries
<1>2. ASSUME NEW u \in Uids, NEW o \in Objects, o.rv # 0, world' = [world EXCEPT ![u] = o],
             Notify(u, o), UNCHANGED snapLeft
      PROVE  Versions'
  <2>1. CASE queue' = queue
    BY <1>2, <2>1 DEF Versions, WorldOK
  <2>2. CASE queue' = Append(queue, [uid |-> u, obj |-> o])
    <3>1. /\ Len(queue') = Len(queue) + 1 /\ queue'[Len(queue) + 1].obj = o
          /\ \A i \in 1 .. Len(queue) : queue'[i] = queue[i]
      BY <1>0, <2>2, EntryType, QueueGrows
    <3>2. \A i \in 1 .. Len(queue') : i \in 1 .. Len(queue) \/ i = Len(queue) + 1
      BY <1>0, <3>1
    <3>3. \A i \in 1 .. Len(queue') : queue'[i].obj.rv # 0
      BY <1>2, <3>1, <3>2 DEF Versions
    <3> QED
      BY <1>2, <3>3 DEF Versions, WorldOK
  <2> QED
    BY <1>2, <2>1, <2>2 DEF Notify
<1>3. ASSUME NEW u \in Uids, NEW v \in Contents, NEW s \in Contents, Write(u, v, s)
      PROVE  Versions'
  <2>1. rev + 1 \in Revs /\ rev + 1 # 0
    BY <1>3 DEF Write, WorldOK, Revs
  <2>2. [rv |-> rev + 1, vis |-> v, sec |-> s, live |-> TRUE] \in Objects
    BY <2>1 DEF Objects
  <2> QED
    BY <1>2, <1>3, <2>1, <2>2 DEF Write
<1>4. ASSUME NEW u \in Uids, Remove(u)
      PROVE  Versions'
  <2> DEFINE o == [world[u] EXCEPT !.rv = rev + 1, !.live = FALSE]
  <2>1. rev + 1 \in Revs /\ rev + 1 # 0
    BY <1>4 DEF Remove, WorldOK, Revs
  <2>2. o \in Objects /\ o.rv = rev + 1
    BY <2>1 DEF Objects, WorldOK
  <2> QED
    BY <1>2, <1>4, <2>1, <2>2 DEF Remove
<1>5. ASSUME NEW u \in Uids, NEW r \in Revs, Replay(u, r)
      PROVE  Versions'
  <2> DEFINE o == [NoObject EXCEPT !.rv = r, !.live = TRUE]
  <2>1. o.rv = r /\ r # 0
    BY <1>5, NoObjectType, Numbers DEF Objects, Replay
  <2>2. queue' = <<[uid |-> u, obj |-> o]>>
    BY <1>5 DEF Replay
  <2> HIDE DEF o
  <2>3. \A i \in 1 .. Len(queue') : queue'[i].obj = o
    BY <2>2
  <2> QED
    BY <1>5, <2>1, <2>3 DEF Replay, worldVars, Versions
<1>6. CASE OpenWatch
  <2>1. Len(queue') = 0 /\ world' = world
    BY <1>6, EmptySeq DEF OpenWatch, worldVars
  <2>2. \A u \in Uids : snapLeft'[u] = IF world[u].live THEN world[u] ELSE NoObject
    BY <1>6 DEF OpenWatch
  <2> QED
    BY <2>1, <2>2 DEF Versions
<1>7. ASSUME NEW u \in Uids, TakeSnapshot(u)
      PROVE  Versions'
  BY <1>7 DEF TakeSnapshot, Versions, WorldOK, worldVars
<1>8. CASE TakeLive
  <2>1. queue # <<>> /\ queue' = Tail(queue)
    BY <1>8 DEF TakeLive
  <2>2. /\ Len(queue') = Len(queue) - 1 /\ \A i \in 1 .. Len(queue) - 1 : queue'[i] = queue[i + 1]
    BY <1>0, <2>1, QueueTail
  <2>3. \A i \in 1 .. Len(queue') : i + 1 \in 1 .. Len(queue) /\ queue'[i] = queue[i + 1]
    BY <1>0, <2>2
  <2> QED
    BY <1>8, <2>3 DEF TakeLive, Versions, worldVars
<1>9. ASSUME NEW e, CycleEnds(e)
      PROVE  Versions'
  <2>1. Len(queue') = 0 /\ world' = world
    BY <1>9, EmptySeq DEF CycleEnds, worldVars
  <2> QED
    BY <1>9, <2>1 DEF CycleEnds, Versions
<1>10. CASE Announce \/ OpenRefused \/ EmitReset \/ EmitOut \/ CancelCycle \/ Recover \/ GiveUp
            \/ TakeBookmark \/ Revoke
  BY <1>1, <1>10 DEF Announce, OpenRefused, EmitReset, EmitOut, CancelCycle, Recover, GiveUp,
                     TakeBookmark, Revoke, worldVars, upVars
<1>11. CASE CheckBegins \/ Check \/ Disconnect \/ Lasts \/ \E e \in Errors : OpenFails(e)
  BY <1>1, <1>11 DEF CheckBegins, Check, CheckPasses, TickerStops, CheckRefuses, Disconnect,
                     Lasts, OpenFails, worldVars, upVars
<1>12. CASE UNCHANGED vars
  BY <1>1, <1>12 DEF vars, worldVars, upVars
<1> QED
  BY <1>3, <1>4, <1>5, <1>6, <1>7, <1>8, <1>9, <1>10, <1>11, <1>12 DEF Next, Loop

\* Handling an event bumps the revision of a withheld value that changed.
LEMMA HandleRedaction ==
    ASSUME CycleOK, ClientOK, Redaction, NEW u \in Uids, NEW o \in Objects, o.rv # 0,
           Handle(u, o), Pulling, UNCHANGED <<loopVars, clientVars>>
    PROVE  Redaction'
<1>1. CASE Stale(u, o)
  BY <1>1 DEF Handle, cycleVars, loopVars, clientVars, Redaction, Remembered, Holds
<1>2. CASE ~Stale(u, o) /\ o.live
  <2> DEFINE r == Observed(u, o)
  <2>1. /\ r.val = o.sec /\ r.rev # 0 /\ r.rev \in Nat
        /\ revisions[u].rev # 0 => /\ r.rev >= revisions[u].rev
                                   /\ r.rev = revisions[u].rev => revisions[u].val = o.sec
    BY ObservedType
  <2>2. /\ emitted' = [emitted EXCEPT ![u] = o.rv] /\ revisions' = [revisions EXCEPT ![u] = r]
        /\ out' = NoEvent \/ out' = [type |-> "upsert", uid |-> u,
                          obj |-> [rv |-> o.rv, vis |-> o.vis, sec |-> o.sec, red |-> r.rev]]
        /\ UNCHANGED <<held, seen, phase, place>>
    BY <1>2 DEF Handle, clientVars, loopVars
  <2> HIDE DEF r
  <2>3. /\ emitted'[u] = o.rv /\ revisions'[u] = r
        /\ \A w \in Uids : w # u => emitted'[w] = emitted[w] /\ revisions'[w] = revisions[w]
    BY <2>2 DEF CycleOK
  <2>4. ASSUME NEW w \in Uids
        PROVE  Remembered(w)'
    <3>1. CASE w # u
      BY <2>2, <2>3, <3>1 DEF Redaction, Remembered, Holds
    <3>2. CASE w = u
      <4>1. SUFFICES ASSUME Holds(u)
                     PROVE  /\ r.rev # 0 /\ held[u].red <= r.rev
                            /\ held[u].red = r.rev => held[u].sec = r.val
        BY <2>2, <2>3, <3>2 DEF Remembered, Holds
      <4>2. /\ revisions[u].rev # 0 /\ held[u].red <= revisions[u].rev
            /\ held[u].red = revisions[u].rev => held[u].sec = revisions[u].val
        BY <4>1 DEF Redaction, Remembered
      <4>3. held[u].red \in Nat /\ revisions[u].rev \in Nat
        BY DEF ClientOK, CycleOK, Shown
      <4> QED
        BY <2>1, <4>2, <4>3
    <3> QED
      BY <3>1, <3>2
  <2>5. place' = "reading" /\ phase' = "snapshot" =>
           \A w \in seen' : Holds(w)' => emitted'[w] # 0
    BY <2>2, <2>3 DEF Redaction, Holds, ClientOK
  <2>6. out'.type = "upsert" => /\ revisions'[out'.uid].val = out'.obj.sec
                                /\ revisions'[out'.uid].rev = out'.obj.red
                                /\ out'.obj.red # 0 /\ emitted'[out'.uid] # 0
    BY <2>1, <2>2, <2>3 DEF NoEvent
  <2> QED
    BY <2>4, <2>5, <2>6 DEF Redaction
<1>3. CASE ~Stale(u, o) /\ ~o.live
  <2>1. /\ emitted' = [emitted EXCEPT ![u] = o.rv] /\ revisions' = revisions
        /\ out'.type # "upsert" /\ UNCHANGED <<held, seen, phase, place>>
    BY <1>3 DEF Handle, clientVars, loopVars
  <2>2. emitted'[u] # 0 /\ \A w \in Uids : w # u => emitted'[w] = emitted[w]
    BY <2>1 DEF CycleOK
  <2> QED
    BY <2>1, <2>2 DEF Redaction, Remembered, Holds, ClientOK
<1> QED
  BY <1>1, <1>2, <1>3

\* What the consumer holds is never ahead of what Stream remembers of it.
LEMMA RedactionNext ==
    ASSUME Shape, Grammar, Versions, Redaction, [Next]_vars
    PROVE  Redaction'
<1>1. CASE UNCHANGED <<held, revisions, place, phase, seen, emitted, out>>
  BY <1>1 DEF Redaction, Remembered, Holds
<1>2. ASSUME UNCHANGED <<held, revisions, emitted, out>>, place' # "reading"
      PROVE  Redaction'
  BY <1>2 DEF Redaction, Remembered, Holds
<1>3. CASE Announce \/ OpenRefused \/ Recover \/ GiveUp \/ Disconnect
  BY <1>2, <1>3 DEF Announce, Resync, OpenRefused, Error, Recover, GoesRound, GiveUp, Disconnect,
                    cycleVars, clientVars
<1>4. ASSUME NEW e \in Errors, OpenFails(e)
      PROVE  Redaction'
  BY <1>2, <1>4 DEF OpenFails, cycleVars, clientVars
<1>5. CASE OpenWatch
  <2>1. /\ UNCHANGED <<held, revisions, out>> /\ place' = "resetting" /\ out.type # "upsert"
    BY <1>5 DEF OpenWatch, CarriedOver, clientVars, Grammar, NoEvent
  <2> QED
    BY <2>1 DEF Redaction, Remembered, Holds
<1>6. CASE EmitReset
  BY <1>6 DEF EmitReset, Reset, cycleVars, Redaction, Remembered, Holds
<1>7. ASSUME NEW u \in Uids, TakeSnapshot(u)
      PROVE  Redaction'
  <2>1. snapLeft[u] \in Objects /\ snapLeft[u].rv # 0
    BY <1>7 DEF TakeSnapshot, Shape, WorldOK, Versions
  <2> QED
    BY <1>7, <2>1, HandleRedaction DEF TakeSnapshot, Shape
<1>8. CASE TakeLive
  <2>1. /\ Head(queue).uid \in Uids /\ Head(queue).obj \in Objects /\ Head(queue) = queue[1]
        /\ 1 \in 1 .. Len(queue)
    BY <1>8, HeadType, QueueTail DEF TakeLive, Shape, WorldOK, Entries
  <2>2. Head(queue).obj.rv # 0
    BY <2>1 DEF Versions
  <2> QED
    BY <1>8, <2>1, <2>2, HandleRedaction DEF TakeLive, Shape
<1>9. CASE TakeBookmark
  BY <1>9 DEF TakeBookmark, loopVars, clientVars, Redaction, Remembered, Holds
<1>10. CASE EmitOut
  <2>1. out'.type # "upsert" /\ place' = place /\ place = "reading"
    BY <1>10 DEF EmitOut, NoEvent, loopVars
  <2>2. CASE out.type = "upsert"
    <3> DEFINE u == out.uid
    <3>1. /\ u \in Uids /\ UNCHANGED <<emitted, revisions>>
          /\ held' = [held EXCEPT ![u] = out.obj] /\ phase' = phase
          /\ seen' = (IF phase = "snapshot" THEN seen \cup {u} ELSE seen)
      BY <1>10, <2>1, <2>2 DEF EmitOut, Upsert, Shape, CycleOK, Outs, NoEvent, Grammar
    <3>2. held'[u] = out.obj /\ \A w \in Uids : w # u => held'[w] = held[w]
      BY <3>1 DEF Shape, ClientOK
    <3>3. /\ revisions[u].val = out.obj.sec /\ revisions[u].rev = out.obj.red
          /\ out.obj.red # 0 /\ emitted[u] # 0 /\ out.obj.red \in Nat
      BY <2>2 DEF Redaction, Shape, CycleOK, Outs, Shown, NoEvent
    <3>4. ASSUME NEW w \in Uids
          PROVE  Remembered(w)'
      BY <3>1, <3>2, <3>3 DEF Redaction, Remembered, Holds
    <3>5. place' = "reading" /\ phase' = "snapshot" =>
             \A w \in seen' : Holds(w)' => emitted'[w] # 0
      BY <2>1, <3>1, <3>2, <3>3 DEF Redaction, Holds, Shape, ClientOK
    <3> QED
      BY <2>1, <3>4, <3>5 DEF Redaction
  <2>3. CASE out.type = "deleted"
    <3> DEFINE u == out.uid
    <3>1. /\ u \in Uids /\ emitted' = [emitted EXCEPT ![u] = 0]
          /\ revisions' = [revisions EXCEPT ![u] = NoRevision]
          /\ held' = [held EXCEPT ![u] = NotHeld] /\ phase' = phase /\ seen' = seen
      BY <1>10, <2>1, <2>3 DEF EmitOut, Drop, Shape, CycleOK, Outs, NoEvent, Grammar
    <3>2. /\ held'[u].red = 0
          /\ \A w \in Uids : w # u => /\ held'[w] = held[w] /\ emitted'[w] = emitted[w]
                                      /\ revisions'[w] = revisions[w]
      BY <3>1, NothingType DEF Shape, ClientOK, CycleOK
    <3>3. \A w \in Uids : Remembered(w)'
      BY <3>2 DEF Redaction, Remembered, Holds
    <3>4. place' = "reading" /\ phase' = "snapshot" =>
             \A w \in seen' : Holds(w)' => emitted'[w] # 0
      BY <2>1, <3>1, <3>2 DEF Redaction, Holds, Shape, ClientOK
    <3> QED
      BY <2>1, <3>3, <3>4 DEF Redaction
  <2>4. CASE out.type = "synced"
    <3>1. /\ phase = "snapshot" /\ phase' = "live" /\ emitted' = emitted
          /\ \A w \in Uids : /\ held'[w] = IF w \in seen THEN held[w] ELSE NotHeld
                             /\ revisions'[w] = IF emitted[w] = 0 THEN NoRevision
                                                ELSE revisions[w]
      BY <1>10, <2>1, <2>4 DEF EmitOut, Synced, Grammar
    <3>2. \A w \in Uids : Remembered(w)'
      BY <2>1, <3>1, NothingType DEF Redaction, Remembered, Holds
    <3> QED
      BY <2>1, <3>1, <3>2 DEF Redaction
  <2> QED
    BY <1>10, <2>2, <2>3, <2>4 DEF EmitOut
<1>11. ASSUME NEW e, CycleEnds(e)
       PROVE  Redaction'
  BY <1>11 DEF CycleEnds, clientVars, Redaction, Remembered, Holds, NoEvent
<1>12. CASE CheckBegins \/ Check \/ Lasts \/ CancelCycle \/ Revoke
  BY <1>1, <1>12 DEF CheckBegins, Check, CheckPasses, TickerStops, CheckRefuses, Lasts,
                     CancelCycle, Revoke, loopVars, clientVars, cycleVars
<1>13. ASSUME NEW u \in Uids, \/ \E v, s \in Contents : Write(u, v, s)
                              \/ Remove(u) \/ (\E r \in Revs : Replay(u, r))
       PROVE  Redaction'
  BY <1>1, <1>13 DEF Write, Remove, Replay, loopVars, clientVars, cycleVars
<1>14. CASE UNCHANGED vars
  BY <1>1, <1>14 DEF vars, loopVars, clientVars, cycleVars
<1> QED
  BY <1>3, <1>4, <1>5, <1>6, <1>7, <1>8, <1>9, <1>10, <1>11, <1>12, <1>13, <1>14 DEF Next, Loop

-----------------------------------------------------------------------------
\* The invariant, and what it gives.

\* The invariant holds at first.
LEMMA Initially == Init => IInv
<1> SUFFICES ASSUME Init
             PROVE  IInv
  OBVIOUS
<1> USE DEF Init
<1>1. WorldOK
  <2>1. world \in [Uids -> Objects] /\ snapLeft \in [Uids -> Objects]
    BY NoObjectType
  <2>2. queue \in Seq([uid : Uids, obj : Objects])
    BY EmptySeq
  <2> QED
    BY <2>1, <2>2, NothingType DEF WorldOK
<1>2. LoopOK /\ Counted
  <2>1. cycles \in 0 .. MaxCycles /\ quickEnds \in 0 .. 1 /\ barren \in 0 .. MaxCycles
    OBVIOUS
  <2>2. Counted
    BY DEF Counted
  <2> QED
    BY <2>1, <2>2 DEF LoopOK
<1>8. AuthOK /\ Gated
  BY DEF AuthOK, Gated
<1>3. CycleOK
  <2>1. emitted \in [Uids -> Revs] /\ revisions \in [Uids -> [val : Contents, rev : Nat]]
    BY NothingType
  <2>2. digests \in [Uids -> Digests] /\ out \in Outs
    BY DigestTells DEF Outs
  <2> QED
    BY <2>1, <2>2 DEF CycleOK
<1>4. ClientOK
  BY NothingType DEF ClientOK
<1>5. Grammar
  BY DEF Grammar
<1>6. Versions
  <2>1. Len(queue) = 0
    BY EmptySeq
  <2> QED
    BY <2>1, NoObjectType DEF Versions
<1>7. Redaction
  BY NothingType DEF Redaction, Remembered, Holds, NoEvent
<1> QED
  BY <1>1, <1>2, <1>3, <1>4, <1>5, <1>6, <1>7, <1>8 DEF IInv, Shape

\* Every step keeps it.
LEMMA Inductive == IInv /\ [Next]_vars => IInv'
<1> SUFFICES ASSUME IInv, [Next]_vars
             PROVE  IInv'
  OBVIOUS
<1>1. Shape /\ Grammar /\ Counted /\ Gated /\ Versions /\ Redaction
  BY DEF IInv
<1>2. WorldOK /\ LoopOK /\ AuthOK /\ CycleOK /\ ClientOK
  BY <1>1 DEF Shape
<1>3. WorldOK' /\ Versions'
  BY <1>1, <1>2, WorldNext, VersionsNext
<1>4. LoopOK' /\ Counted' /\ AuthOK' /\ Gated'
  BY <1>1, <1>2, LoopNext, AuthNext
<1>5. CycleOK' /\ ClientOK'
  BY <1>1, <1>2, CycleNext, ClientNext
<1>6. Grammar' /\ Redaction'
  BY <1>1, GrammarNext, RedactionNext
<1> QED
  BY <1>3, <1>4, <1>5, <1>6 DEF IInv, Shape

\* Stream, authorizedCycle and cycle keep the invariant, however the world, the
\* Backend, the ticker and the connection interleave with them.
THEOREM Invariant == Spec => []IInv
<1>1. Init => IInv
  BY Initially
<1>2. IInv /\ [Next]_vars => IInv'
  BY Inductive
<1> QED
  BY <1>1, <1>2, PTL DEF Spec

\* What Stream writes is always a sequence of cycles, each announced, reset and
\* synced in order, with nothing after the error that ends it.
THEOREM Grammatical == Spec => []WireGrammar
<1>1. IInv => WireGrammar
  <2> SUFFICES ASSUME IInv
               PROVE  WireGrammar
    OBVIOUS
  <2>1. \A u \in Uids : digests[u] = NoDigest \/ digests[u] \in Contents \X Nat
    <3>1. \A d \in Digests : d = NoDigest \/ d \in Contents \X Nat
      BY DEF Digests, Digest
    <3> QED
      BY <3>1 DEF IInv, Shape, CycleOK
  <2>2. TypeOK
    BY <2>1 DEF IInv, Shape, WorldOK, LoopOK, AuthOK, CycleOK, ClientOK, Shown, TypeOK
  <2>3. phase # "broken"
    BY DEF IInv, Shape, LoopOK, Grammar
  <2> QED
    BY <2>2, <2>3 DEF WireGrammar
<1> QED
  BY <1>1, Invariant, PTL

\* `quickEnds > 1` bounds the cycles Stream opens in a row without any of them
\* being of use, whatever ends them.
THEOREM Bounded == Spec => []NoTightLoop
<1>1. IInv => NoTightLoop
  BY DEF IInv, Shape, LoopOK, Counted, NoTightLoop
<1> QED
  BY <1>1, Invariant, PTL

-----------------------------------------------------------------------------
\* What a step may never do.

\* Only an event through the gate changes what the consumer holds.
LEMMA StoreSteps ==
    ASSUME [Next]_vars
    PROVE  UNCHANGED <<held, seen>> \/ EmitReset \/ EmitOut
<1>1. CASE UNCHANGED clientVars
  BY <1>1 DEF clientVars
<1>2. CASE Announce \/ OpenRefused \/ GiveUp \/ Disconnect
  BY <1>2 DEF Announce, Resync, OpenRefused, Error, GiveUp, Disconnect
<1>3. CASE OpenWatch \/ TakeBookmark \/ TakeLive \/ CancelCycle \/ Recover \/ Lasts \/ Revoke
  BY <1>1, <1>3 DEF OpenWatch, TakeBookmark, TakeLive, CancelCycle, Recover, Lasts, Revoke
<1>4. ASSUME NEW u \in Uids, \/ \E v, s \in Contents : Write(u, v, s)
                             \/ Remove(u) \/ (\E r \in Revs : Replay(u, r))
                             \/ TakeSnapshot(u)
      PROVE  UNCHANGED clientVars
  BY <1>4 DEF Write, Remove, Replay, TakeSnapshot
<1>5. ASSUME NEW e, CycleEnds(e) \/ OpenFails(e)
      PROVE  UNCHANGED clientVars
  BY <1>5 DEF CycleEnds, OpenFails
<1>6. CASE CheckBegins \/ Check
  BY <1>1, <1>6 DEF CheckBegins, Check, CheckPasses, TickerStops, CheckRefuses
<1>7. CASE UNCHANGED vars
  BY <1>1, <1>7 DEF vars
<1> QED
  BY <1>1, <1>2, <1>3, <1>4, <1>5, <1>6, <1>7 DEF Next, Loop

\* authorizationSink holds back every event while a check is out, and every object
\* once one has refused.
THEOREM Gatekeeping == Spec => NothingPastTheGate
<1>1. IInv /\ [Next]_vars =>
        [/\ ticker = "checking" => UNCHANGED <<held, seen>>
         /\ authErr # "none" /\ place \in {"resetting", "reading"}
               => UNCHANGED <<held, seen>>]_vars
  BY StoreSteps DEF IInv, Gated, EmitReset, EmitOut, GateFree
<1> QED
  BY <1>1, Invariant, PTL DEF Spec, NothingPastTheGate

\* observeRedactions and what cycle prunes of its memory never let a changed withheld
\* value pass under an unchanged revision.
THEOREM RedactionsTell == Spec => RedactionTellsChange
<1>1. IInv /\ [Next]_vars =>
        [\A u \in Uids : Holds(u) /\ Holds(u)' /\ held'[u].red = held[u].red
                            => held'[u].sec = held[u].sec]_vars
  <2> SUFFICES ASSUME IInv, [Next]_vars, NEW u \in Uids, Holds(u), Holds(u)',
                      held'[u].red = held[u].red
               PROVE  held'[u].sec = held[u].sec
    OBVIOUS
  <2>1. CASE held'[u] = held[u]
    BY <2>1
  <2>2. CASE EmitReset
    BY <2>2 DEF EmitReset, Reset
  <2>3. CASE EmitOut
    <3>1. ASSUME out.type = "upsert", Upsert(out.uid, out.obj), out.uid = u
          PROVE  held'[u].sec = held[u].sec
      <4>1. held'[u] = out.obj
        BY <3>1 DEF Upsert, IInv, Shape, ClientOK
      <4>2. revisions[u].val = out.obj.sec /\ revisions[u].rev = out.obj.red
        BY <3>1 DEF IInv, Redaction
      <4> QED
        BY <4>1, <4>2 DEF IInv, Redaction, Remembered
    <3>2. ASSUME out.type = "upsert", Upsert(out.uid, out.obj), out.uid # u
          PROVE  held'[u] = held[u]
      BY <3>2 DEF Upsert, IInv, Shape, ClientOK
    <3>3. ASSUME Drop(out.uid)
          PROVE  held'[u] = held[u]
      BY <3>3, NothingType DEF Drop, Holds, IInv, Shape, ClientOK
    <3>4. ASSUME Synced
          PROVE  held'[u] = held[u]
      BY <3>4, NothingType DEF Synced, Holds
    <3> QED
      BY <2>1, <2>3, <3>1, <3>2, <3>3, <3>4 DEF EmitOut
  <2> QED
    BY <2>1, <2>2, <2>3, StoreSteps
<1> QED
  BY <1>1, Invariant, PTL DEF Spec, RedactionTellsChange

-----------------------------------------------------------------------------
\* The consumer in step with the world, when the Backend does not overtake.

\* The numbers among the state.
LEMMA Kinds ==
    ASSUME Shape
    PROVE  /\ \A u \in Uids : /\ emitted[u] \in Nat /\ world[u].rv \in Nat
                              /\ snapLeft[u].rv \in Nat /\ world[u].live \in BOOLEAN
                              /\ revisions[u].rev \in Nat /\ held[u].red \in Nat
           /\ queue \in Seq(Entries) /\ Len(queue) \in Nat /\ rev \in Nat
           /\ \A i \in 1 .. Len(queue) : queue[i].uid \in Uids /\ queue[i].obj.rv \in Nat
<1>1. ASSUME NEW u \in Uids
      PROVE  /\ emitted[u] \in Nat /\ world[u].rv \in Nat
             /\ snapLeft[u].rv \in Nat /\ world[u].live \in BOOLEAN
             /\ revisions[u].rev \in Nat /\ held[u].red \in Nat
  <2>1. world[u] \in Objects /\ snapLeft[u] \in Objects
    BY DEF Shape, WorldOK
  <2>2. emitted[u] \in Revs /\ revisions[u] \in [val : Contents, rev : Nat] /\ held[u] \in Shown
    BY DEF Shape, CycleOK, ClientOK
  <2> QED
    BY <2>1, <2>2, Numbers DEF Objects, Shown
<1>2. queue \in Seq(Entries) /\ Len(queue) \in Nat /\ rev \in Nat
  BY LenProperties, Numbers DEF Shape, WorldOK, Entries
<1>3. ASSUME NEW i \in 1 .. Len(queue)
      PROVE  queue[i].uid \in Uids /\ queue[i].obj.rv \in Nat
  <2>1. queue[i] \in Entries
    BY <1>2, ElementOfSeq
  <2> QED
    BY <2>1, Numbers DEF Entries, Objects
<1> QED
  BY <1>1, <1>2, <1>3

\* The world's resourceVersions never run ahead of its counter.
LEMMA OrderedNext ==
    ASSUME Shape, Ordered, [Next]_vars
    PROVE  Ordered'
<1>1. CASE UNCHANGED <<world, rev>>
  BY <1>1 DEF Ordered
<1>2. ASSUME NEW u \in Uids, NEW o, o.rv = rev + 1, rev' = rev + 1,
             world' = [world EXCEPT ![u] = o]
      PROVE  Ordered'
  BY <1>2, Kinds DEF Ordered, Shape, WorldOK
<1>3. ASSUME NEW u \in Uids, NEW v \in Contents, NEW s \in Contents, Write(u, v, s)
      PROVE  Ordered'
  BY <1>2, <1>3 DEF Write
<1>4. ASSUME NEW u \in Uids, Remove(u)
      PROVE  Ordered'
  <2> DEFINE o == [world[u] EXCEPT !.rv = rev + 1, !.live = FALSE]
  <2>1. o.rv = rev + 1
    BY DEF Shape, WorldOK, Objects
  <2> QED
    BY <1>2, <1>4, <2>1 DEF Remove
<1>5. ASSUME NEW u \in Uids, (\E r \in Revs : Replay(u, r)) \/ TakeSnapshot(u)
      PROVE  Ordered'
  <2>1. ASSUME NEW r \in Revs, Replay(u, r)
        PROVE  UNCHANGED <<world, rev>>
    BY <2>1 DEF Replay, worldVars
  <2>2. ASSUME TakeSnapshot(u)
        PROVE  UNCHANGED <<world, rev>>
    BY <2>2 DEF TakeSnapshot, worldVars
  <2> QED
    BY <1>1, <1>5, <2>1, <2>2
<1>6. CASE Announce \/ OpenRefused \/ OpenWatch \/ EmitReset \/ EmitOut \/ CancelCycle \/ Recover
           \/ GiveUp \/ TakeBookmark \/ TakeLive \/ Revoke
  BY <1>1, <1>6 DEF Announce, OpenRefused, OpenWatch, EmitReset, EmitOut, CancelCycle, Recover,
                    GiveUp, TakeBookmark, TakeLive, Revoke, worldVars
<1>7. CASE CheckBegins \/ Check \/ Disconnect \/ Lasts
  BY <1>1, <1>7 DEF CheckBegins, Check, CheckPasses, TickerStops, CheckRefuses, Disconnect,
                    Lasts, worldVars
<1>8. ASSUME NEW e, CycleEnds(e) \/ OpenFails(e)
      PROVE  Ordered'
  BY <1>1, <1>8 DEF CycleEnds, OpenFails, worldVars
<1>9. CASE UNCHANGED vars
  BY <1>1, <1>9 DEF vars, worldVars
<1> QED
  BY <1>3, <1>4, <1>5, <1>6, <1>7, <1>8, <1>9 DEF Next, Loop

\* A change of the world is news to a cycle that watches it.
LEMMA NotifiedInStep ==
    ASSUME SInv, Watching, NEW u \in Uids, NEW o \in Objects, o.rv = rev + 1,
           world' = [world EXCEPT ![u] = o], Notify(u, o),
           UNCHANGED <<snapLeft, markLeft, place, emitted, digests, revisions, out,
                       held, seen, phase>>
    PROVE  InStep'
<1>1. /\ Shape /\ Ordered /\ Queued /\ \A w \in Uids : Tracked(w)
      /\ place = "resetting" => \A w \in Uids : emitted[w] = 0 /\ digests[w] = NoDigest
  BY DEF SInv, IInv, InStep
<1>2. world'[u] = o /\ \A w \in Uids : w # u => world'[w] = world[w]
  BY <1>1 DEF Shape, WorldOK
<1>3. /\ Len(queue') = Len(queue) + 1
      /\ queue'[Len(queue) + 1].uid = u /\ queue'[Len(queue) + 1].obj = o
      /\ \A i \in 1 .. Len(queue) : queue'[i] = queue[i]
  <2>1. queue' = Append(queue, [uid |-> u, obj |-> o])
    BY DEF Notify
  <2> QED
    BY <1>1, <2>1, Kinds, EntryType, QueueGrows
<1>4. \A i \in 1 .. Len(queue') : i \in 1 .. Len(queue) \/ i = Len(queue) + 1
  BY <1>1, <1>3, Kinds
<1>5. Len(queue) + 1 \in 1 .. Len(queue') /\ \A i \in 1 .. Len(queue) : i \in 1 .. Len(queue')
  BY <1>1, <1>3, Kinds
<1>6. Coming(u)'
  BY <1>2, <1>3, <1>5 DEF Coming
<1>7. \A w \in Uids : Coming(w) => Coming(w)'
  BY <1>2, <1>3, <1>5, <1>6 DEF Coming
<1>8. \A w \in Uids : world[w].rv <= rev /\ world[w].rv <= world'[w].rv
  BY <1>1, <1>2, Kinds DEF Ordered
<1>13. \A n, m \in Nat : n <= m /\ m <= rev => n < o.rv
  <2>1. rev \in Nat /\ o.rv = rev + 1
    BY <1>1, Kinds
  <2> DEFINE r == o.rv
  <2>2. r = rev + 1
    BY <2>1
  <2> HIDE DEF r
  <2>3. \A n, m \in Nat : n <= m /\ m <= rev => n < r
    BY <2>1, <2>2
  <2> QED
    BY <2>3 DEF r
<1>9. ASSUME NEW w \in Uids
      PROVE  Tracked(w)'
  <2>1. Current(w)'
    BY <1>1, <1>2, <1>6, <1>7 DEF Tracked, Current, Handled, Deleting
  <2>2. Listed(w)'
    BY <1>1, <1>2, <1>8, Kinds DEF Tracked, Listed, Deleting
  <2>3. Showing(w)'
    BY <1>1 DEF Tracked, Showing, Deleting, Upserting, Holds
  <2>4. emitted'[w] <= world'[w].rv
    BY <1>1, <1>2, <1>8, Kinds DEF Tracked
  <2> QED
    BY <2>1, <2>2, <2>3, <2>4 DEF Tracked
<1>10. ASSUME NEW i \in 1 .. Len(queue')
       PROVE  /\ queue'[i].obj.rv <= world'[queue'[i].uid].rv
              /\ \/ i = 1 /\ Stale(queue[i].uid, queue[i].obj)' /\ ~Deleting(queue[i].uid)'
                 \/ News(queue[i].uid, queue[i].obj)'
  <2>1. CASE i \in 1 .. Len(queue)
    <3>1. /\ queue[i].uid \in Uids /\ queue[i].obj.rv \in Nat /\ queue'[i] = queue[i]
          /\ queue[i].obj.rv <= world[queue[i].uid].rv
          /\ \/ i = 1 /\ Stale(queue[i].uid, queue[i].obj) /\ ~Deleting(queue[i].uid)
             \/ News(queue[i].uid, queue[i].obj)
      BY <1>1, <1>3, <2>1, Kinds DEF Queued
    <3>2. queue'[i].obj.rv <= world'[queue'[i].uid].rv
      BY <1>1, <1>2, <1>8, <3>1, Kinds
    <3> QED
      BY <1>7, <3>1, <3>2 DEF Stale, Deleting, News
  <2>2. CASE i = Len(queue) + 1
    <3>1. queue'[i].uid = u /\ queue'[i].obj = o
      BY <1>3, <2>2
    <3>2. o.rv > emitted[u] /\ (snapLeft[u] # NoObject => o.rv > snapLeft[u].rv)
      <4>1. /\ emitted[u] \in Nat /\ world[u].rv \in Nat /\ snapLeft[u].rv \in Nat
            /\ rev \in Nat /\ world[u].rv <= rev
        BY <1>1, <1>8, Kinds
      <4>2. /\ emitted[u] <= world[u].rv
            /\ snapLeft[u] # NoObject => snapLeft[u].rv <= world[u].rv
        BY <1>1 DEF Tracked, Listed
      <4> QED
        BY <1>13, <4>1, <4>2
    <3>3. o.rv <= world'[u].rv
      BY <1>1, <1>2, Kinds
    <3> QED
      BY <1>6, <3>1, <3>2, <3>3 DEF News
  <2> QED
    BY <1>4, <2>1, <2>2
<1>11. ASSUME NEW i \in 1 .. Len(queue'), NEW j \in 1 .. Len(queue'), i < j,
              queue'[i].uid = queue'[j].uid
       PROVE  queue'[i].obj.rv < queue'[j].obj.rv
  <2>1. i \in 1 .. Len(queue) /\ (j \in 1 .. Len(queue) \/ j = Len(queue) + 1)
    BY <1>1, <1>3, <1>4, <1>11, Kinds
  <2>2. CASE j \in 1 .. Len(queue)
    BY <1>1, <1>3, <1>11, <2>1, <2>2 DEF Queued
  <2>3. CASE j = Len(queue) + 1
    <3>1. queue[i].uid = u /\ queue[i].obj.rv <= world[u].rv /\ queue[i].obj.rv \in Nat
      BY <1>1, <1>3, <1>11, <2>1, <2>3, Kinds DEF Queued
    <3>2. world[u].rv \in Nat /\ rev \in Nat /\ world[u].rv <= rev
      BY <1>1, <1>8, Kinds
    <3>3. queue'[i] = queue[i] /\ queue'[j].obj = o
      BY <1>3, <2>1, <2>3
    <3> QED
      BY <1>13, <3>1, <3>2, <3>3
  <2> QED
    BY <2>1, <2>2, <2>3
<1>12. Queued'
  BY <1>10, <1>11 DEF Queued
<1> QED
  BY <1>1, <1>9, <1>12 DEF InStep

\* A replayed version finds the newer one handled, and is stale.
LEMMA ReplayInStep ==
    ASSUME SInv, NEW u \in Uids, NEW r \in Revs, Replay(u, r)
    PROVE  InStep'
<1>1. /\ Shape /\ Queued /\ \A w \in Uids : Tracked(w)
      /\ place = "resetting" => \A w \in Uids : emitted[w] = 0 /\ digests[w] = NoDigest
  BY DEF SInv, IInv, InStep, Replay
<1>2. /\ Len(queue) = 0 /\ snapLeft[u] = NoObject /\ world[u].live /\ r < world[u].rv
      /\ UNCHANGED <<world, snapLeft, markLeft, place, emitted, digests, revisions, out,
                     held, seen, phase>>
  BY EmptySeq DEF Replay, worldVars, loopVars, cycleVars, clientVars
<1>3. \A w \in Uids : ~Coming(w)
  BY <1>2 DEF Coming
<1>4. emitted[u] = world[u].rv /\ ~Deleting(u)
  BY <1>1, <1>2, <1>3 DEF Tracked, Current, Handled
<1>5. Len(queue') = 1 /\ queue'[1].uid = u /\ queue'[1].obj.rv = r
  <2> DEFINE o == [NoObject EXCEPT !.rv = r, !.live = TRUE]
  <2>1. o.rv = r
    BY NoObjectType DEF Objects
  <2>2. queue' = <<[uid |-> u, obj |-> o]>>
    BY DEF Replay
  <2> HIDE DEF o
  <2> QED
    BY <2>1, <2>2
<1>6. \A i \in 1 .. Len(queue') : i = 1
  BY <1>5
<1>7. r \in Nat /\ world[u].rv \in Nat
  BY <1>1, Kinds, Numbers
<1>8. Queued'
  <2>1. ASSUME NEW i \in 1 .. Len(queue')
        PROVE  /\ i = 1 /\ queue'[i].uid = u
               /\ queue'[i].obj.rv <= world'[u].rv
               /\ emitted'[u] # 0 /\ queue'[i].obj.rv < emitted'[u] /\ ~Deleting(u)'
    BY <1>2, <1>4, <1>5, <1>6, <1>7 DEF Deleting
  <2>2. \A i, j \in 1 .. Len(queue') : ~(i < j)
    BY <1>6
  <2> QED
    BY <2>1, <2>2 DEF Queued, Stale
<1>9. ASSUME NEW w \in Uids
      PROVE  Tracked(w)'
  BY <1>1, <1>2, <1>3 DEF Tracked, Current, Handled, Listed, Showing, Deleting, Upserting, Holds
<1> QED
  BY <1>1, <1>2, <1>8, <1>9 DEF InStep

\* A new cycle has the world in its snapshot and nothing in its memory.
LEMMA OpenInStep ==
    ASSUME SInv, OpenWatch
    PROVE  InStep'
<1>1. Shape /\ Grammar /\ Versions
  BY DEF SInv, IInv
<1>2. /\ Len(queue') = 0 /\ markLeft' = TRUE /\ out' = NoEvent /\ phase' = "idle"
      /\ world' = world
      /\ \A w \in Uids : /\ snapLeft'[w] = IF world[w].live THEN world[w] ELSE NoObject
                         /\ emitted'[w] = 0 /\ digests'[w] = NoDigest
  BY <1>1, EmptySeq DEF OpenWatch, worldVars, clientVars, Grammar
<1>3. Queued'
  BY <1>2 DEF Queued
<1>4. ASSUME NEW w \in Uids
      PROVE  Tracked(w)'
  <2>1. Current(w)'
    BY <1>2, NoObjectType DEF Current, Handled
  <2>2. Listed(w)' /\ emitted'[w] <= world'[w].rv
    BY <1>1, <1>2, Kinds DEF Listed, Deleting, NoEvent
  <2>3. Showing(w)'
    BY <1>2 DEF Showing, Upserting, NoEvent
  <2> QED
    BY <2>1, <2>2, <2>3 DEF Tracked
<1> QED
  BY <1>2, <1>3, <1>4 DEF InStep

\* A reset begins a snapshot of which nothing has been named.
LEMMA ResetInStep ==
    ASSUME SInv, EmitReset
    PROVE  InStep'
<1>1. /\ Shape /\ Queued /\ \A w \in Uids : Tracked(w)
      /\ \A w \in Uids : emitted[w] = 0 /\ digests[w] = NoDigest
      /\ phase = "idle"
  BY DEF SInv, IInv, InStep, EmitReset, Watching, Grammar
<1>2. /\ place' = "reading" /\ seen' = {} /\ phase' = "snapshot"
      /\ UNCHANGED <<world, snapLeft, markLeft, queue, emitted, digests, revisions, out, held>>
  BY <1>1 DEF EmitReset, Reset, worldVars, upVars, cycleVars
<1>3. Queued'
  BY <1>1, <1>2 DEF Queued, Stale, News, Coming, Deleting
<1>4. ASSUME NEW w \in Uids
      PROVE  Tracked(w)'
  BY <1>1, <1>2 DEF Tracked, Current, Coming, Handled, Listed, Showing, Deleting, Upserting, Holds
<1> QED
  BY <1>2, <1>3, <1>4 DEF InStep

\* The bookmark is the last thing of the snapshot.
LEMMA BookmarkInStep ==
    ASSUME SInv, TakeBookmark
    PROVE  InStep'
<1>1. Shape /\ Queued /\ \A w \in Uids : Tracked(w)
  BY DEF SInv, IInv, InStep, TakeBookmark, Pulling, Watching
<1>2. /\ place = "reading" /\ out = NoEvent /\ out'.type = "synced"
      /\ \A w \in Uids : snapLeft[w] = NoObject
      /\ UNCHANGED <<world, snapLeft, queue, place, emitted, digests, revisions, held, seen,
                     phase>>
  BY DEF TakeBookmark, Pulling, worldVars, loopVars, clientVars
<1>3. out.type = "none"
  BY <1>2 DEF NoEvent
<1>4. Queued'
  BY <1>1, <1>2, <1>3 DEF Queued, Stale, News, Coming, Deleting
<1>5. ASSUME NEW w \in Uids
      PROVE  Tracked(w)'
  BY <1>1, <1>2, <1>3
     DEF Tracked, Current, Coming, Handled, Listed, Showing, Deleting, Upserting, Holds
<1> QED
  BY <1>2, <1>4, <1>5 DEF InStep

\* A snapshot object is the first that the cycle hears of its uid.
LEMMA SnapshotInStep ==
    ASSUME SInv, NEW u \in Uids, TakeSnapshot(u)
    PROVE  InStep'
<1> DEFINE o == snapLeft[u]
           r == Observed(u, o)
<1>1. Shape /\ Queued /\ (\A w \in Uids : Tracked(w)) /\ Versions /\ CycleOK
  BY DEF SInv, IInv, InStep, TakeSnapshot, Pulling, Watching, Shape
<1>2. /\ o # NoObject /\ o \in Objects /\ o.live /\ o.rv # 0 /\ emitted[u] = 0
      /\ digests[u] = NoDigest /\ o.rv <= world[u].rv
  BY <1>1 DEF TakeSnapshot, Versions, Tracked, Listed, Shape, WorldOK
<1>3. /\ place = "reading" /\ out = NoEvent /\ Handle(u, o)
      /\ snapLeft' = [snapLeft EXCEPT ![u] = NoObject]
      /\ UNCHANGED <<world, markLeft, queue, place, held, seen, phase>>
  BY DEF TakeSnapshot, Pulling, worldVars, loopVars, clientVars
<1>4. r.val = o.sec /\ r.rev # 0
  BY <1>1, <1>2, ObservedType
<1>5. ~Stale(u, o)
  BY <1>2 DEF Stale
<1>6. /\ emitted' = [emitted EXCEPT ![u] = o.rv] /\ revisions' = [revisions EXCEPT ![u] = r]
      /\ digests' = [digests EXCEPT ![u] = Digest(o.vis, r.rev)]
      /\ out' = [type |-> "upsert", uid |-> u,
                 obj |-> [rv |-> o.rv, vis |-> o.vis, sec |-> o.sec, red |-> r.rev]]
  <2> DEFINE d == VisibleDigest(o, r)
  <2>1. d = Digest(o.vis, r.rev) /\ d # digests[u]
    BY <1>2, DigestTells DEF VisibleDigest, Digest
  <2>2. /\ emitted' = [emitted EXCEPT ![u] = o.rv] /\ revisions' = [revisions EXCEPT ![u] = r]
        /\ digests' = [digests EXCEPT ![u] = d]
        /\ out' = IF digests[u] = d THEN NoEvent
                    ELSE [type |-> "upsert", uid |-> u,
                          obj |-> [rv |-> o.rv, vis |-> o.vis, sec |-> o.sec, red |-> r.rev]]
    BY <1>2, <1>3, <1>5 DEF Handle
  <2> HIDE DEF d, r
  <2> QED
    BY <2>1, <2>2
<1> HIDE DEF r
<1>7. /\ emitted'[u] = o.rv /\ revisions'[u] = r /\ digests'[u] = Digest(o.vis, r.rev)
      /\ snapLeft'[u] = NoObject
      /\ \A w \in Uids : w # u => /\ emitted'[w] = emitted[w] /\ revisions'[w] = revisions[w]
                                  /\ digests'[w] = digests[w] /\ snapLeft'[w] = snapLeft[w]
  BY <1>1, <1>3, <1>6 DEF CycleOK, Shape, WorldOK
<1>8. out.type = "none" /\ out'.type = "upsert" /\ out'.uid = u
      /\ out'.obj.vis = o.vis /\ out'.obj.red = r.rev
  BY <1>3, <1>6 DEF NoEvent
<1>9. \A w \in Uids : /\ ~Deleting(w) /\ ~Deleting(w)' /\ ~Upserting(w)
                      /\ Coming(w) <=> Coming(w)'
  BY <1>3, <1>8 DEF Deleting, Upserting, Coming
<1>10. Tracked(u)'
  <2>1. Current(u)'
    <3>1. CASE Coming(u)
      BY <1>9, <3>1 DEF Current
    <3>2. CASE o = world[u]
      BY <1>2, <1>3, <1>4, <1>7, <1>9, <3>2 DEF Current, Handled
    <3> QED
      BY <1>1, <1>2, <3>1, <3>2 DEF Tracked, Current
  <2>2. Listed(u)' /\ emitted'[u] <= world'[u].rv
    BY <1>2, <1>3, <1>7 DEF Listed
  <2>3. Showing(u)'
    BY <1>2, <1>4, <1>7, <1>8, DigestTells DEF Showing, Upserting
  <2> QED
    BY <2>1, <2>2, <2>3 DEF Tracked
<1>11. ASSUME NEW w \in Uids, w # u
       PROVE  Tracked(w)'
  <2>1. Tracked(w)
    BY <1>1
  <2>2. ~Upserting(w)'
    BY <1>8, <1>11 DEF Upserting
  <2> QED
    BY <1>3, <1>7, <1>9, <1>11, <2>1, <2>2
       DEF Tracked, Current, Handled, Listed, Showing, Holds
<1>12. Queued'
  <2>1. ASSUME NEW i \in 1 .. Len(queue)
        PROVE  /\ queue[i].obj.rv <= world[queue[i].uid].rv
               /\ \/ i = 1 /\ Stale(queue[i].uid, queue[i].obj)' /\ ~Deleting(queue[i].uid)'
                  \/ News(queue[i].uid, queue[i].obj)'
    <3>1. /\ queue[i].uid \in Uids
          /\ queue[i].obj.rv <= world[queue[i].uid].rv
          /\ \/ i = 1 /\ Stale(queue[i].uid, queue[i].obj) /\ ~Deleting(queue[i].uid)
             \/ News(queue[i].uid, queue[i].obj)
      BY <1>1, Kinds DEF Queued
    <3>2. CASE queue[i].uid = u
      <4>1. News(u, queue[i].obj)
        BY <1>2, <3>1, <3>2 DEF Stale
      <4> QED
        BY <1>2, <1>3, <1>7, <1>9, <3>1, <3>2, <4>1 DEF News
    <3>3. CASE queue[i].uid # u
      BY <1>3, <1>7, <1>9, <3>1, <3>3 DEF News, Stale
    <3> QED
      BY <3>2, <3>3
  <2> QED
    BY <1>1, <1>3, <2>1 DEF Queued
<1> QED
  BY <1>3, <1>10, <1>11, <1>12 DEF InStep

\* Taking the head of the queue leaves what is to come, unless that was it.
LEMMA TailComing ==
    ASSUME Shape, queue # <<>>, queue' = Tail(queue), world' = world, NEW w \in Uids,
           Coming(w), ~(queue[1].uid = w /\ queue[1].obj = world[w])
    PROVE  Coming(w)'
<1>1. /\ Len(queue) \in Nat \ {0} /\ Len(queue') = Len(queue) - 1
      /\ \A i \in 1 .. Len(queue) - 1 : queue'[i] = queue[i + 1]
  BY Kinds, QueueTail
<1>2. PICK k \in 1 .. Len(queue) : queue[k].uid = w /\ queue[k].obj = world[w]
  BY DEF Coming
<1>3. k # 1
  BY <1>2
<1>4. k - 1 \in 1 .. Len(queue') /\ queue'[k - 1] = queue[k]
  <2>1. k - 1 \in 1 .. Len(queue) - 1 /\ (k - 1) + 1 = k
    BY <1>1, <1>3
  <2> QED
    BY <1>1, <2>1
<1> QED
  BY <1>2, <1>4 DEF Coming

\* What the rest of the queue has to say is news once the head has been handled,
\* whether the head was stale or news itself.
LEMMA TailQueued ==
    ASSUME Shape, Queued, queue # <<>>, queue' = Tail(queue), UNCHANGED <<world, snapLeft>>,
           \A w \in Uids : w # queue[1].uid => emitted'[w] = emitted[w],
           \/ Stale(queue[1].uid, queue[1].obj) /\ emitted'[queue[1].uid] = emitted[queue[1].uid]
           \/ emitted'[queue[1].uid] = queue[1].obj.rv
    PROVE  Queued'
<1>1. /\ Len(queue) \in Nat \ {0} /\ Len(queue') = Len(queue) - 1
      /\ \A i \in 1 .. Len(queue) - 1 : queue'[i] = queue[i + 1]
  BY Kinds, QueueTail
<1>2. \A i \in 1 .. Len(queue') :
         /\ i + 1 \in 1 .. Len(queue) /\ queue'[i] = queue[i + 1]
         /\ 1 \in 1 .. Len(queue) /\ 1 < i + 1 /\ i + 1 # 1
  BY <1>1
<1>3. ASSUME NEW i \in 1 .. Len(queue')
      PROVE  /\ queue'[i].obj.rv <= world'[queue'[i].uid].rv
             /\ News(queue[i].uid, queue[i].obj)'
  <2>0. SUFFICES ASSUME NEW u, NEW w, NEW o, u = queue[1].uid, w = queue[i + 1].uid,
                        o = queue[i + 1].obj
                 PROVE  /\ queue'[i].obj.rv <= world'[queue'[i].uid].rv
                        /\ News(queue[i].uid, queue[i].obj)'
    OBVIOUS
  <2>1. /\ u \in Uids /\ w \in Uids /\ o.rv \in Nat /\ queue[1].obj.rv \in Nat
        /\ queue'[i].uid = w /\ queue'[i].obj = o
        /\ emitted[u] \in Nat /\ world[w].rv \in Nat
    BY <1>2, <2>0, Kinds
  <2>2. /\ o.rv <= world[w].rv /\ News(w, o)
        /\ u = w => queue[1].obj.rv < o.rv
    BY <1>2, <2>0 DEF Queued
  <2>3. u = w => queue[1].obj.rv < world[u].rv /\ o.rv > emitted'[u]
    <3>1. CASE u = w /\ emitted'[u] = emitted[u]
      BY <2>0, <2>1, <2>2, <3>1 DEF News
    <3>2. CASE u = w /\ emitted'[u] = queue[1].obj.rv
      BY <2>0, <2>1, <2>2, <3>2
    <3> QED
      BY <2>0, <3>1, <3>2
  <2>4. Coming(w)'
    <3>1. ~(u = w /\ queue[1].obj = world[w])
      BY <2>1, <2>3
    <3> QED
      BY <2>0, <2>1, <2>2, <3>1, TailComing DEF News
  <2>5. o.rv > emitted'[w]
    BY <2>0, <2>1, <2>2, <2>3 DEF News
  <2> QED
    BY <2>1, <2>2, <2>4, <2>5 DEF News
<1>4. ASSUME NEW i \in 1 .. Len(queue'), NEW j \in 1 .. Len(queue'), i < j,
             queue'[i].uid = queue'[j].uid
      PROVE  queue'[i].obj.rv < queue'[j].obj.rv
  <2>1. i + 1 < j + 1
    BY <1>4, <1>1
  <2> QED
    BY <1>2, <1>4, <2>1 DEF Queued
<1> QED
  BY <1>3, <1>4 DEF Queued

\* A live event is handled, or dropped as stale.
LEMMA LiveInStep ==
    ASSUME SInv, ~Overtaking, TakeLive
    PROVE  InStep'
<1>0. SUFFICES ASSUME NEW u, NEW o, u = queue[1].uid, o = queue[1].obj
              PROVE  InStep'
  OBVIOUS
<1> DEFINE r == Observed(u, o)
<1>1. Shape /\ Queued /\ (\A w \in Uids : Tracked(w)) /\ Versions /\ CycleOK /\ WorldOK
  BY DEF SInv, IInv, InStep, TakeLive, Pulling, Watching, Shape
<1>2. /\ place = "reading" /\ out = NoEvent /\ queue # <<>> /\ queue' = Tail(queue) /\ ~markLeft
      /\ UNCHANGED <<world, snapLeft, markLeft, place, held, seen, phase>>
  BY DEF TakeLive, Pulling, worldVars, loopVars, clientVars
<1>3. /\ u \in Uids /\ o \in Objects /\ Handle(u, o) /\ 1 \in 1 .. Len(queue)
  BY <1>0, <1>1, <1>2, HeadType, Kinds, QueueTail DEF TakeLive
<1>4. /\ o.rv # 0 /\ o.rv \in Nat /\ o.rv <= world[u].rv
      /\ (Stale(u, o) \/ News(u, o))
      /\ emitted[u] \in Nat /\ world[u].rv \in Nat /\ emitted[u] <= world[u].rv
  BY <1>0, <1>1, <1>3, Kinds DEF Versions, Queued, Tracked
<1>5. \A w \in Uids : snapLeft[w] = NoObject
  BY <1>1, <1>2 DEF Tracked, Listed
<1>6. out.type = "none" /\ \A w \in Uids : ~Deleting(w) /\ ~Upserting(w)
  BY <1>2 DEF NoEvent, Deleting, Upserting
<1>7. \A w \in Uids : Coming(w) /\ ~(u = w /\ o = world[w]) => Coming(w)'
  BY <1>0, <1>1, <1>2, TailComing
<1>8. ASSUME UNCHANGED <<emitted[u], digests[u], revisions[u], out>>, Stale(u, o)
      PROVE  Tracked(u)'
  <2>1. o # world[u]
    BY <1>4, <1>8 DEF Stale
  <2>2. Coming(u) => Coming(u)'
    BY <1>3, <1>7, <2>1
  <2> QED
    BY <1>1, <1>2, <1>3, <1>8, <2>2
       DEF Tracked, Current, Handled, Listed, Showing, Deleting, Upserting, Holds
<1>9. ASSUME NEW w \in Uids, w # u, UNCHANGED <<emitted[w], digests[w], revisions[w]>>,
             ~Deleting(w)', ~Upserting(w)'
      PROVE  Tracked(w)'
  <2>1. Tracked(w) /\ (Coming(w) => Coming(w)')
    BY <1>1, <1>7, <1>9
  <2> QED
    BY <1>2, <1>6, <1>9, <2>1 DEF Tracked, Current, Handled, Listed, Showing, Holds
<1>10. CASE Stale(u, o)
  <2>1. UNCHANGED <<emitted, digests, revisions, out>>
    BY <1>3, <1>10 DEF Handle, cycleVars
  <2>2. Queued'
    BY <1>0, <1>1, <1>2, <1>10, <2>1, TailQueued
  <2>3. \A w \in Uids : ~Deleting(w)' /\ ~Upserting(w)'
    BY <1>6, <2>1 DEF Deleting, Upserting
  <2>4. \A w \in Uids : Tracked(w)'
    BY <1>3, <1>8, <1>9, <1>10, <2>1, <2>3
  <2> QED
    BY <1>2, <2>2, <2>4 DEF InStep
<1>11. CASE ~Stale(u, o) /\ o.live
  <2> DEFINE d == Digest(o.vis, r.rev)
  <2>1. /\ r.val = o.sec /\ r.rev # 0
        /\ revisions[u].rev # 0 /\ r.rev = revisions[u].rev => revisions[u].val = o.sec
    BY <1>1, <1>3, ObservedType
  <2>2. /\ emitted' = [emitted EXCEPT ![u] = o.rv] /\ revisions' = [revisions EXCEPT ![u] = r]
        /\ digests' = [digests EXCEPT ![u] = d]
        /\ out' = IF digests[u] = d THEN NoEvent
                    ELSE [type |-> "upsert", uid |-> u,
                          obj |-> [rv |-> o.rv, vis |-> o.vis, sec |-> o.sec, red |-> r.rev]]
    BY <1>3, <1>11 DEF Handle, VisibleDigest, Digest
  <2>3. News(u, o)
    BY <1>4, <1>11
  <2> HIDE DEF r
  <2>4. /\ emitted'[u] = o.rv /\ revisions'[u] = r /\ digests'[u] = d
        /\ \A w \in Uids : w # u => /\ emitted'[w] = emitted[w] /\ revisions'[w] = revisions[w]
                                    /\ digests'[w] = digests[w]
    BY <1>1, <1>3, <2>2 DEF CycleOK
  <2>5. /\ digests[u] = d => out'.type = "none"
        /\ digests[u] # d => /\ out'.type = "upsert" /\ out'.uid = u
                             /\ out'.obj.vis = o.vis /\ out'.obj.red = r.rev
    BY <2>2 DEF NoEvent
  <2>6. \A w \in Uids : ~Deleting(w)' /\ (w # u => ~Upserting(w)')
    BY <2>5 DEF Deleting, Upserting
  <2>7. Queued'
    BY <1>0, <1>1, <1>2, <2>4, TailQueued
  <2>8. Current(u)'
    <3>1. CASE o = world[u]
      BY <1>2, <1>3, <1>5, <1>11, <2>1, <2>4, <2>6, <3>1 DEF Current, Handled
    <3>2. CASE o # world[u]
      BY <1>3, <1>7, <2>3, <3>2 DEF News, Current
    <3> QED
      BY <3>1, <3>2
  <2>9. Listed(u)' /\ emitted'[u] <= world'[u].rv
    BY <1>2, <1>3, <1>4, <1>5, <2>4 DEF Listed
  <2>10. Showing(u)'
    <3>1. CASE digests[u] # d
      BY <1>4, <2>1, <2>4, <2>5, <3>1, DigestTells DEF Showing, Upserting
    <3>2. CASE digests[u] = d
      <4>1. /\ revisions[u].rev # 0 /\ held[u].red = revisions[u].rev
            /\ held[u].sec = revisions[u].val
            /\ d = Digest(held[u].vis, revisions[u].rev)
            /\ phase = "snapshot" => u \in seen
        BY <1>1, <1>3, <1>6, <3>2, DigestTells DEF Tracked, Showing
      <4>2. r.rev = revisions[u].rev
        BY <4>1, DigestTells
      <4>3. ~Upserting(u)'
        BY <2>5, <3>2 DEF Upserting
      <4> QED
        BY <1>2, <1>4, <2>1, <2>4, <4>1, <4>2, <4>3, DigestTells DEF Showing
    <3> QED
      BY <3>1, <3>2
  <2>11. Tracked(u)'
    BY <2>8, <2>9, <2>10 DEF Tracked
  <2>12. \A w \in Uids : Tracked(w)'
    BY <1>9, <2>4, <2>6, <2>11
  <2> QED
    BY <1>2, <2>7, <2>12 DEF InStep
<1>12. CASE ~Stale(u, o) /\ ~o.live
  <2>1. /\ emitted' = [emitted EXCEPT ![u] = o.rv] /\ UNCHANGED <<digests, revisions>>
        /\ out' = [type |-> "deleted", uid |-> u]
    BY <1>3, <1>12 DEF Handle
  <2>2. /\ emitted'[u] = o.rv /\ \A w \in Uids : w # u => emitted'[w] = emitted[w]
    BY <1>1, <1>3, <2>1 DEF CycleOK
  <2>3. /\ Deleting(u)' /\ \A w \in Uids : ~Upserting(w)' /\ (w # u => ~Deleting(w)')
    BY <2>1 DEF Deleting, Upserting
  <2>4. News(u, o)
    BY <1>4, <1>12
  <2>5. Queued'
    BY <1>0, <1>1, <1>2, <2>2, TailQueued
  <2>6. Current(u)'
    <3>1. CASE o = world[u]
      BY <1>2, <1>3, <1>5, <1>12, <2>3, <3>1 DEF Current, Handled
    <3>2. CASE o # world[u]
      BY <1>3, <1>7, <2>4, <3>2 DEF News, Current
    <3> QED
      BY <3>1, <3>2
  <2>7. Listed(u)' /\ emitted'[u] <= world'[u].rv
    BY <1>2, <1>3, <1>4, <1>5, <2>2 DEF Listed
  <2>8. Showing(u)'
    BY <1>1, <1>2, <1>3, <1>4, <2>1, <2>2, <2>3 DEF Tracked, Showing, Holds
  <2>9. Tracked(u)'
    BY <2>6, <2>7, <2>8 DEF Tracked
  <2>10. \A w \in Uids : Tracked(w)'
    BY <1>9, <2>1, <2>2, <2>3, <2>9
  <2> QED
    BY <1>2, <2>5, <2>10 DEF InStep
<1> QED
  BY <1>10, <1>11, <1>12

\* What is emitted is what the digests already say.
LEMMA EmitInStep ==
    ASSUME SInv, EmitOut
    PROVE  InStep'
<1>1. /\ Shape /\ Grammar /\ Versions /\ Redaction
      /\ Queued /\ \A w \in Uids : Tracked(w)
  BY DEF SInv, IInv, InStep, EmitOut, Watching
<1>2. /\ place = "reading" /\ out' = NoEvent
      /\ UNCHANGED <<world, snapLeft, markLeft, queue, place>>
  BY DEF EmitOut, worldVars, upVars, loopVars
<1>3. \A w \in Uids : /\ ~Deleting(w)' /\ ~Upserting(w)'
                      /\ Coming(w) <=> Coming(w)'
  BY <1>2 DEF Deleting, Upserting, Coming, NoEvent
<1>4. CASE out.type = "upsert"
  <2>0. SUFFICES ASSUME NEW u, u = out.uid
                 PROVE  InStep'
    OBVIOUS
  <2>1. /\ u \in Uids /\ UNCHANGED <<emitted, digests, revisions>>
        /\ held' = [held EXCEPT ![u] = out.obj] /\ phase' = phase
        /\ seen' = (IF phase = "snapshot" THEN seen \cup {u} ELSE seen)
    BY <1>1, <1>4, <2>0 DEF EmitOut, Upsert, Shape, CycleOK, Outs, NoEvent, Grammar
  <2>2. held'[u] = out.obj /\ \A w \in Uids : w # u => held'[w] = held[w]
    BY <1>1, <2>1 DEF Shape, ClientOK
  <2>3. revisions[u].val = out.obj.sec /\ revisions[u].rev = out.obj.red
    BY <1>1, <1>4, <2>0 DEF Redaction
  <2>4. \A w \in Uids : ~Deleting(w) /\ (w # u => ~Upserting(w)) /\ (w = u => Upserting(w))
    BY <1>4, <2>0 DEF Deleting, Upserting
  <2>5. Queued'
    BY <1>1, <1>2, <1>3, <2>1, Kinds DEF Queued, Stale, News
  <2>6. ASSUME NEW w \in Uids
        PROVE  Current(w)' /\ Listed(w)' /\ emitted'[w] <= world'[w].rv
    BY <1>1, <1>2, <1>3, <2>1, <2>4 DEF Tracked, Current, Handled, Listed
  <2>7. Showing(u)'
    <3>1. digests[u] = Digest(out.obj.vis, out.obj.red) /\ digests[u] # NoDigest
      BY <1>1, <2>1, <2>4, DigestTells DEF Tracked, Showing
    <3>2. emitted[u] # 0 /\ revisions[u].rev # 0
      BY <1>1, <2>1, <3>1 DEF Tracked, Showing
    <3> QED
      BY <1>3, <2>1, <2>2, <2>3, <3>1, <3>2 DEF Showing
  <2>8. ASSUME NEW w \in Uids, w # u
        PROVE  Showing(w)'
    <3>1. Showing(w) /\ (w \in seen' <=> w \in seen)
      BY <1>1, <2>1, <2>8 DEF Tracked
    <3> QED
      BY <1>3, <2>1, <2>2, <2>4, <2>8, <3>1 DEF Showing, Holds
  <2>9. \A w \in Uids : Tracked(w)'
    BY <2>6, <2>7, <2>8 DEF Tracked
  <2> QED
    BY <1>2, <2>5, <2>9 DEF InStep
<1>5. CASE out.type = "deleted"
  <2>0. SUFFICES ASSUME NEW u, u = out.uid
                 PROVE  InStep'
    OBVIOUS
  <2>1. /\ u \in Uids /\ emitted' = [emitted EXCEPT ![u] = 0]
        /\ digests' = [digests EXCEPT ![u] = NoDigest]
        /\ revisions' = [revisions EXCEPT ![u] = NoRevision]
        /\ held' = [held EXCEPT ![u] = NotHeld] /\ phase' = phase /\ seen' = seen
    BY <1>1, <1>5, <2>0 DEF EmitOut, Drop, Shape, CycleOK, Outs, NoEvent, Grammar
  <2>2. /\ held'[u].red = 0 /\ emitted'[u] = 0 /\ digests'[u] = NoDigest
        /\ \A w \in Uids : w # u => /\ held'[w] = held[w] /\ emitted'[w] = emitted[w]
                                    /\ revisions'[w] = revisions[w]
                                    /\ digests'[w] = digests[w]
    BY <1>1, <2>1, NothingType DEF Shape, ClientOK, CycleOK
  <2>3. Deleting(u) /\ \A w \in Uids : ~Upserting(w) /\ (w # u => ~Deleting(w))
    BY <1>5, <2>0 DEF Deleting, Upserting
  <2>4. Queued'
    <3>1. ASSUME NEW i \in 1 .. Len(queue)
          PROVE  /\ queue[i].obj.rv <= world[queue[i].uid].rv
                 /\ \/ i = 1 /\ Stale(queue[i].uid, queue[i].obj)' /\ ~Deleting(queue[i].uid)'
                    \/ News(queue[i].uid, queue[i].obj)'
      <4>1. /\ queue[i].uid \in Uids /\ queue[i].obj.rv \in Nat /\ emitted[u] \in Nat
            /\ queue[i].obj.rv <= world[queue[i].uid].rv
            /\ \/ i = 1 /\ Stale(queue[i].uid, queue[i].obj) /\ ~Deleting(queue[i].uid)
               \/ News(queue[i].uid, queue[i].obj)
        BY <1>1, <2>1, Kinds DEF Queued
      <4>2. CASE queue[i].uid = u
        <5>1. News(u, queue[i].obj)
          BY <2>3, <4>1, <4>2
        <5>2. queue[i].obj.rv > 0
          BY <4>1, <5>1 DEF News
        <5> QED
          BY <1>2, <1>3, <2>2, <4>1, <4>2, <5>1, <5>2 DEF News
      <4>3. CASE queue[i].uid # u
        BY <1>2, <1>3, <2>2, <4>1, <4>3 DEF News, Stale
      <4> QED
        BY <4>2, <4>3
    <3> QED
      BY <1>1, <1>2, <3>1 DEF Queued
  <2>5. Tracked(u)'
    <3>1. snapLeft[u] = NoObject
      BY <1>1, <2>1, <2>3 DEF Tracked, Listed
    <3>2. Current(u)'
      BY <1>1, <1>2, <1>3, <2>1, <2>2, <2>3, <3>1 DEF Tracked, Current, Handled
    <3>3. Listed(u)' /\ emitted'[u] <= world'[u].rv
      BY <1>1, <1>2, <2>1, <2>2, <3>1, Kinds DEF Listed
    <3>4. Showing(u)'
      BY <1>3, <2>1, <2>2 DEF Showing, Holds
    <3> QED
      BY <3>2, <3>3, <3>4 DEF Tracked
  <2>6. ASSUME NEW w \in Uids, w # u
        PROVE  Tracked(w)'
    <3>1. Tracked(w)
      BY <1>1
    <3> QED
      BY <1>2, <1>3, <2>1, <2>2, <2>3, <2>6, <3>1
         DEF Tracked, Current, Handled, Listed, Showing, Holds
  <2> QED
    BY <1>2, <2>4, <2>5, <2>6 DEF InStep
<1>6. CASE out.type = "synced"
  <2>1. /\ phase = "snapshot" /\ phase' = "live" /\ UNCHANGED <<emitted, digests>> /\ ~markLeft
        /\ \A w \in Uids : /\ held'[w] = IF w \in seen THEN held[w] ELSE NotHeld
                           /\ revisions'[w] = IF emitted[w] = 0 THEN NoRevision
                                              ELSE revisions[w]
    BY <1>1, <1>2, <1>6 DEF EmitOut, Synced, Grammar
  <2>2. \A w \in Uids : snapLeft[w] = NoObject
    BY <1>1, <2>1 DEF Tracked, Listed
  <2>3. \A w \in Uids : ~Upserting(w) /\ ~Deleting(w)
    BY <1>6 DEF Deleting, Upserting
  <2>4. Queued'
    BY <1>1, <1>2, <1>3, <2>1, Kinds DEF Queued, Stale, News
  <2>5. ASSUME NEW w \in Uids
        PROVE  Tracked(w)'
    <3>1. Tracked(w) /\ (world[w].live => world[w].rv # 0)
      BY <1>1 DEF Versions
    <3>2. Current(w)'
      BY <1>2, <1>3, <2>1, <2>2, <2>3, <3>1 DEF Tracked, Current, Handled
    <3>3. Listed(w)' /\ emitted'[w] <= world'[w].rv
      BY <1>2, <2>1, <2>2, <3>1 DEF Tracked, Listed
    <3>4. Showing(w)'
      <4>1. CASE digests[w] # NoDigest
        BY <1>3, <2>1, <2>3, <3>1, <4>1 DEF Tracked, Showing
      <4>2. CASE digests[w] = NoDigest
        BY <1>3, <2>1, <3>1, <4>2, NothingType DEF Tracked, Showing, Holds
      <4> QED
        BY <4>1, <4>2
    <3> QED
      BY <3>2, <3>3, <3>4 DEF Tracked
  <2> QED
    BY <1>2, <2>4, <2>5 DEF InStep
<1> QED
  BY <1>4, <1>5, <1>6 DEF EmitOut

\* Every step keeps the consumer in step.
LEMMA InStepNext ==
    ASSUME SInv, ~Overtaking, [Next]_vars
    PROVE  InStep'
<1>1. CASE UNCHANGED <<world, snapLeft, markLeft, queue, place, emitted, digests, revisions, out,
                       held, seen, phase>>
  BY <1>1 DEF SInv, InStep, Watching, Queued, Tracked, Stale, News, Coming, Current, Handled,
              Listed, Showing, Deleting, Upserting, Holds
<1>2. CASE ~Watching'
  BY <1>2 DEF InStep
<1>3. ASSUME NEW u \in Uids, NEW v \in Contents, NEW s \in Contents, Write(u, v, s)
      PROVE  InStep'
  <2> DEFINE o == [rv |-> rev + 1, vis |-> v, sec |-> s, live |-> TRUE]
  <2>1. rev + 1 \in Revs
    BY <1>3 DEF Write, SInv, IInv, Shape, WorldOK, Revs
  <2>2. o \in Objects /\ o.rv = rev + 1
    BY <2>1 DEF Objects
  <2>3. /\ world' = [world EXCEPT ![u] = o] /\ Notify(u, o)
        /\ UNCHANGED <<snapLeft, markLeft, place, emitted, digests, revisions, out, held, seen,
                       phase>>
    BY <1>3 DEF Write, loopVars, cycleVars, clientVars
  <2> HIDE DEF o
  <2>4. CASE Watching
    BY <2>2, <2>3, <2>4, NotifiedInStep
  <2>5. CASE ~Watching
    BY <1>2, <2>3, <2>5 DEF Watching
  <2> QED
    BY <2>4, <2>5
<1>4. ASSUME NEW u \in Uids, Remove(u)
      PROVE  InStep'
  <2> DEFINE o == [world[u] EXCEPT !.rv = rev + 1, !.live = FALSE]
  <2>1. rev + 1 \in Revs
    BY <1>4 DEF Remove, SInv, IInv, Shape, WorldOK, Revs
  <2>2. o \in Objects /\ o.rv = rev + 1
    BY <2>1 DEF Objects, SInv, IInv, Shape, WorldOK
  <2>3. /\ world' = [world EXCEPT ![u] = o] /\ Notify(u, o)
        /\ UNCHANGED <<snapLeft, markLeft, place, emitted, digests, revisions, out, held, seen,
                       phase>>
    BY <1>4 DEF Remove, loopVars, cycleVars, clientVars
  <2>4. CASE Watching
    BY <2>2, <2>3, <2>4, NotifiedInStep
  <2>5. CASE ~Watching
    BY <1>2, <2>3, <2>5 DEF Watching
  <2> QED
    BY <2>4, <2>5
<1>5. ASSUME NEW u \in Uids, TakeSnapshot(u) \/ (\E r \in Revs : Replay(u, r))
      PROVE  InStep'
  BY <1>5, ReplayInStep, SnapshotInStep
<1>6. CASE OpenWatch \/ EmitReset \/ TakeBookmark \/ TakeLive \/ EmitOut
  BY <1>6, OpenInStep, ResetInStep, BookmarkInStep, LiveInStep, EmitInStep
<1>7. CASE Announce \/ OpenRefused \/ Recover \/ GiveUp \/ Disconnect
  BY <1>2, <1>7 DEF Announce, OpenRefused, Recover, GoesRound, GiveUp, Disconnect, Watching
<1>8. ASSUME NEW e, OpenFails(e) \/ CycleEnds(e)
      PROVE  InStep'
  BY <1>2, <1>8 DEF OpenFails, CycleEnds, Watching
<1>9. CASE Revoke \/ Lasts \/ CancelCycle \/ CheckBegins \/ Check
  BY <1>1, <1>9 DEF Revoke, Lasts, CancelCycle, CheckBegins, Check, CheckPasses, TickerStops,
                    CheckRefuses, worldVars, upVars, loopVars, cycleVars, clientVars
<1>10. CASE UNCHANGED vars
  BY <1>1, <1>10 DEF vars, worldVars, upVars, loopVars, cycleVars, clientVars
<1> QED
  BY <1>3, <1>4, <1>5, <1>6, <1>7, <1>8, <1>9, <1>10 DEF Next, Loop

\* A cycle that has nothing more to hear has shown the consumer the world.
LEMMA CaughtUp == SInv => NoGhosts
<1> SUFFICES ASSUME SInv, place = "reading", phase = "live", out = NoEvent, queue = <<>>
             PROVE  \A u \in Uids : /\ Holds(u) <=> world[u].live
                                    /\ Holds(u) => /\ held[u].vis = world[u].vis
                                                   /\ held[u].sec = world[u].sec
  BY DEF NoGhosts
<1> TAKE u \in Uids
<1>1. Shape /\ Tracked(u) /\ ~markLeft
  BY DEF SInv, IInv, InStep, Watching, Grammar
<1>2. ~Coming(u) /\ ~Deleting(u) /\ ~Upserting(u)
  <2>1. Len(queue) = 0
    BY EmptySeq
  <2> QED
    BY <2>1 DEF Coming, Deleting, Upserting, NoEvent
<1>3. Handled(u)
  BY <1>1, <1>2 DEF Tracked, Listed, Current
<1>4. CASE world[u].live
  <2>1. /\ digests[u] = Digest(world[u].vis, revisions[u].rev) /\ revisions[u].val = world[u].sec
        /\ digests[u] # NoDigest
    BY <1>3, <1>4, DigestTells DEF Handled
  <2>2. /\ revisions[u].rev # 0 /\ held[u].red = revisions[u].rev
        /\ held[u].sec = revisions[u].val
        /\ digests[u] = Digest(held[u].vis, revisions[u].rev)
    BY <1>1, <1>2, <2>1 DEF Tracked, Showing
  <2>3. Holds(u)
    BY <2>2 DEF Holds
  <2>4. held[u].vis = world[u].vis /\ held[u].sec = world[u].sec
    BY <2>1, <2>2 DEF Digest
  <2> QED
    BY <1>4, <2>3, <2>4
<1>5. CASE ~world[u].live
  <2>1. ~Holds(u)
    BY <1>1, <1>2, <1>3, <1>5 DEF Handled, Tracked, Showing
  <2> QED
    BY <1>5, <2>1
<1> QED
  BY <1>4, <1>5

\* The primary invariant of the protocol (spec/v1.md, section 6), for every world,
\* history and number of cycles, of a Backend that hands over its snapshot before any
\* live event, as shared.go promises of its watchers.  With one that does not, the run
\* StreamLoop_ghost finds the consumer left with a ghost.
THEOREM NoGhostsInOrder ==
    ASSUME ~Overtaking
    PROVE  Spec => []NoGhosts
<1>1. Init => SInv
  <2> SUFFICES ASSUME Init
               PROVE  SInv
    OBVIOUS
  <2>1. Ordered
    <3>1. ASSUME NEW u \in Uids
          PROVE  world[u].rv = 0
      BY NoObjectType DEF Init
    <3>2. rev = 0
      BY DEF Init
    <3>3. \A u \in Uids : world[u].rv <= rev
      <4>1. 0 <= rev
        BY <3>2
      <4> QED
        BY <3>1, <4>1
    <3> QED
      BY <3>3 DEF Ordered
  <2>2. InStep
    BY DEF Init, InStep, Watching
  <2> QED
    BY <2>1, <2>2, Initially DEF SInv
<1>2. SInv /\ [Next]_vars => SInv'
  <2> SUFFICES ASSUME SInv, [Next]_vars
               PROVE  SInv'
    OBVIOUS
  <2>1. IInv /\ Shape /\ Ordered
    BY DEF SInv, IInv
  <2>2. IInv'
    BY <2>1, Inductive
  <2>3. Ordered'
    BY <2>1, OrderedNext
  <2>4. InStep'
    BY InStepNext
  <2> QED
    BY <2>2, <2>3, <2>4 DEF SInv
<1>3. SInv => NoGhosts
  BY CaughtUp
<1> QED
  BY <1>1, <1>2, <1>3, PTL DEF Spec
=============================================================================
