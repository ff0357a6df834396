-------------------------- MODULE SaveFlowProofs --------------------------
(***************************************************************************)
(* Proofs about SaveFlow and PatchGuard, for any number of requests, values,*)
(* writes, incarnations, snapshots and reads.                               *)
(***************************************************************************)
EXTENDS SaveFlow, SequenceTheorems, TLAPS

Values == Vals \cup {Absent, Empty, CHOOSE v \in Vals : TRUE}
Docs == [Leaves -> Values]
Events == [type : {"upsert", "deleted", "reset", "synced"}, uid : Nat, rv : Nat,
           view : Docs \cup {None}]
Resources == [rv : Nat, view : Docs] \cup {None}

\* All that the rest of the system can be out of step with: the cluster, as shown.
Now == [uid |-> obj.uid, rv |-> obj.rv, view |-> View(obj.doc), rev |-> rev, uids |-> uids]

\* An object that exists has the latest resourceVersion: every write is its own.
Clustered ==
    /\ host \in Hosts
    /\ rev \in Nat /\ uids \in Uids
    /\ obj.uid = 0 => obj = Gone
    /\ obj.uid # 0 => /\ obj.uid \in 1..uids
                      /\ obj = [uid |-> obj.uid, rv |-> rev, doc |-> obj.doc]
                      /\ obj.doc \in Docs

\* view is what incarnation u showed at rv, as far as the present can tell.
Known(now, u, rv, view) ==
    /\ u \in 1..now.uids /\ rv \in Nat /\ rv <= now.rev
    /\ u = now.uid /\ rv = now.rv => view = now.view

\* A save of i can no longer be made: neither part of this ever comes back.
Past(now, i) == now.uid # i.uid \/ now.rv # i.rv

\* The record still has what its author captured, and may be sent again.
Live(s) == s.stage \in {"sent", "patch", "recheck"} \/ s.answer \in {"saved", "unknown"}

Whole(s) ==
    s = [stage |-> s.stage, intent |-> s.intent, answer |-> s.answer, landed |-> s.landed]

\* What was captured was on display, and the patch puts no strange values anywhere.
Intended(now, i) ==
    /\ Known(now, i.uid, i.rv, i.base)
    /\ \A p \in DOMAIN i.patch : i.patch[p] \in Values \cup {Null}

\* A request that is past its checks has a patch that keeps clear of the machinery; one
\* that lost a race, or landed, is past for good.
SaveHolds(now, s) ==
    /\ Whole(s)
    /\ s.stage \in {"idle", "sent", "patch", "recheck", "answered"}
    /\ s.landed \in BOOLEAN
    /\ s.stage # "answered" => ~s.landed
    /\ s.stage # "idle" => /\ s.intent.uid \in 1..now.uids /\ s.intent.rv \in Nat
                           /\ s.intent.rv <= now.rev
    /\ Live(s) => Intended(now, s.intent)
    /\ s.stage = "patch" => validatePatchObject(s.intent.patch, machineryPaths)
    /\ s.stage = "recheck" => Past(now, s.intent)
    /\ s.stage = "answered" =>
          /\ s.answer = "saved" => s.landed
          /\ s.landed => s.answer \in {"saved", "unknown"} /\ Past(now, s.intent)
          /\ s.answer \in {"replaced", "notfound"} => now.uid # s.intent.uid
          /\ s.answer = "conflict" => Past(now, s.intent)

Saves == save = [q \in Attempts |-> save[q]] /\ \A q \in Attempts : SaveHolds(Now, save[q])

\* The store holds what the stream showed.
Stored ==
    /\ wire \in Seq(Events)
    /\ held \in [Uids -> Resources]
    /\ snapshots \in Nat
    /\ seen = Closed \/ seen \in SUBSET Uids
    /\ \A u \in Uids : held[u] # None => Known(Now, u, held[u].rv, held[u].view)

WireHolds(now, e) ==
    /\ e.type = "upsert" => Known(now, e.uid, e.rv, e.view) /\ e.view # None
    /\ e.type = "deleted" => e.uid \in 1..now.uids
    /\ e.type \in {"reset", "synced"} => e.uid = 0

\* A reset is only ever the first event on the wire: it replaced all the others.
Wired ==
    /\ \A i \in DOMAIN wire : WireHolds(Now, wire[i])
    /\ \A i \in DOMAIN wire : wire[i].type = "reset" => i = 1

Current(now, e) ==
    IF e.type = "upsert" THEN e.uid = now.uid /\ e.view = now.view ELSE e.uid # now.uid
Silent(w, u) == \A i \in DOMAIN w : w[i].uid # u
Mended(w) == \A i \in DOMAIN w : w[i].type # "reset"
Holds(now, h, u) == IF u = now.uid THEN h[u] # None /\ h[u].view = now.view ELSE h[u] = None

\* The last event on the wire about an incarnation tells the present.
LastIsCurrent ==
    \A i \in DOMAIN wire :
        wire[i].uid # 0 /\ (\A j \in DOMAIN wire : j > i => wire[j].uid # wire[i].uid)
          => Current(Now, wire[i])

\* An incarnation the wire says nothing of is as the store has it, or about to be: gone,
\* if a snapshot is to come or is in progress without it.
Quiet ==
    \A u \in Uids : Silent(wire, u) =>
        IF ~Mended(wire) THEN u # obj.uid
        ELSE IF seen = Closed \/ u \in seen THEN Holds(Now, held, u)
        ELSE u # obj.uid

Shown == View(recon.response.doc)

\* A read that may still be merged is no older than what the store holds, and shows the
\* present unless the wire has an event about it.
Reading ==
    /\ recon = [stage |-> recon.stage, uid |-> recon.uid, fresh |-> recon.fresh,
                snapshots |-> recon.snapshots, response |-> recon.response, count |-> recon.count]
    /\ recon.stage \in {"idle", "asked", "read"}
    /\ recon.fresh \in BOOLEAN
    /\ recon.snapshots \in Nat /\ recon.snapshots <= snapshots
    /\ recon.stage # "idle" => recon.uid \in 1..uids /\ recon.uid \in Uids
    /\ recon.stage = "read" =>
          /\ recon.response.doc \in Docs
          /\ Known(Now, recon.response.uid, recon.response.rv, Shown)
          /\ recon.fresh /\ recon.response.uid = recon.uid /\ held[recon.uid] # None
                => held[recon.uid].rv <= recon.response.rv
          /\ /\ Mended(wire) /\ snapshots = recon.snapshots /\ recon.fresh
             /\ recon.response.uid = recon.uid /\ recon.uid = obj.uid /\ Silent(wire, recon.uid)
             => Shown = Now.view

\* The inductive invariant.
IInv == Clustered /\ Saves /\ Stored /\ Wired /\ LastIsCurrent /\ Quiet /\ Reading

-----------------------------------------------------------------------------
\* How the cluster moves on: nothing it has left behind returns.
Moves(w, x) ==
    /\ x.rev \in Nat /\ x.uids \in Nat /\ w.rev <= x.rev /\ w.uids <= x.uids
    /\ \/ x.uid = w.uid /\ x.rv = w.rv /\ x.view = w.view
       \/ x.rv > w.rev /\ (x.uid = w.uid \/ x.uid > w.uids)
       \/ x.uid = 0

Bounded(w) == w.uid \in Nat /\ w.rv \in Nat /\ w.rev \in Nat /\ w.uids \in Nat

\* What is known stays so, ...
LEMMA KnownKept ==
    ASSUME NEW w, NEW x, NEW u, NEW rv, NEW view, Bounded(w), Bounded(x), Moves(w, x),
           Known(w, u, rv, view)
    PROVE  Known(x, u, rv, view)
<1>1. u \in 1..x.uids /\ rv \in Nat /\ rv <= x.rev
  BY DEF Bounded, Moves, Known
<1>2. ASSUME u = x.uid, rv = x.rv PROVE view = x.view
  <2>1. CASE x.uid = w.uid /\ x.rv = w.rv /\ x.view = w.view
    BY <1>2, <2>1 DEF Known
  <2>2. CASE x.rv > w.rev
    BY <1>2, <2>2 DEF Known, Bounded
  <2>3. CASE x.uid = 0
    BY <1>2, <2>3 DEF Known, Bounded
  <2> QED
    BY <2>1, <2>2, <2>3 DEF Moves
<1> QED
  BY <1>1, <1>2 DEF Known

\* ... what is past stays so, ...
LEMMA PastKept ==
    ASSUME NEW w, NEW x, NEW i, Bounded(w), Bounded(x), Moves(w, x),
           i.uid \in 1..w.uids, i.rv \in Nat, i.rv <= w.rev
    PROVE  /\ Past(w, i) => Past(x, i)
           /\ w.uid # i.uid => x.uid # i.uid
BY DEF Past, Moves, Bounded

\* ... and so do the records of the requests, ...
LEMMA SaveKept ==
    ASSUME NEW w, NEW x, NEW s, Bounded(w), Bounded(x), Moves(w, x), SaveHolds(w, s)
    PROVE  SaveHolds(x, s)
<1>1. s.stage # "idle" => /\ s.intent.uid \in 1..w.uids /\ s.intent.rv \in Nat
                          /\ s.intent.rv <= w.rev
  BY DEF SaveHolds
<1>2. s.stage # "idle" => /\ Past(w, s.intent) => Past(x, s.intent)
                          /\ w.uid # s.intent.uid => x.uid # s.intent.uid
  BY <1>1, PastKept
<1>3. s.stage # "idle" => /\ s.intent.uid \in 1..x.uids /\ s.intent.rv \in Nat
                          /\ s.intent.rv <= x.rev
  BY <1>1 DEF Moves, Bounded
<1>4. Live(s) => Intended(x, s.intent)
  BY KnownKept DEF SaveHolds, Intended
<1> QED
  BY <1>2, <1>3, <1>4 DEF SaveHolds

\* ... and the events on the wire.
LEMMA EventKept ==
    ASSUME NEW w, NEW x, NEW e, Bounded(w), Bounded(x), Moves(w, x), WireHolds(w, e)
    PROVE  WireHolds(x, e)
<1>1. e.type = "upsert" => Known(x, e.uid, e.rv, e.view)
  BY KnownKept DEF WireHolds
<1> QED
  BY <1>1 DEF WireHolds, Moves, Bounded

-----------------------------------------------------------------------------
\* Which host and projection are in use never changes, nor does what depends on it.
LEMMA HostStays ==
    ASSUME host' = host
    PROVE  /\ Leaves' = Leaves /\ Docs' = Docs /\ Events' = Events /\ Resources' = Resources
           /\ Content' = Content /\ Hidden' = Hidden
           /\ \A d : View(d)' = View(d)
<1>1. Content' = Content /\ Hidden' = Hidden
  BY DEF Content, Hidden
<1>2. Leaves' = Leaves
  BY <1>1 DEF Leaves
<1>3. Docs' = Docs
  BY <1>2 DEF Docs
<1>4. Events' = Events /\ Resources' = Resources
  BY <1>3 DEF Events, Resources
<1>5. \A d : View(d)' = View(d)
  BY <1>1 DEF View
<1> QED
  BY <1>1, <1>2, <1>3, <1>4, <1>5

\* The parts of the present ...
LEMMA NowIs ==
    /\ Now.uid = obj.uid /\ Now.rv = obj.rv /\ Now.view = View(obj.doc)
    /\ Now.rev = rev /\ Now.uids = uids
BY DEF Now

\* ... are numbers.
LEMMA NowBounded == ASSUME Clustered PROVE Bounded(Now)
<1>1. obj.uid \in Nat /\ obj.rv \in Nat
  BY DEF Clustered, Gone, Uids
<1> QED
  BY <1>1, NowIs DEF Bounded, Clustered, Uids

\* A projected document is a document.
LEMMA ViewsAreDocs == ASSUME NEW d \in Docs PROVE View(d) \in Docs
BY DEF View, Docs, Values

\* An absent object has no document.
LEMMA Constants == None \notin Docs /\ (Gone.uid = 0 /\ Gone.rv = 0 /\ Gone.doc = None)
<1>1. \A d \in Docs : LastApplied \in DOMAIN d
  BY DEF Docs, Leaves
<1>2. LastApplied \notin DOMAIN None
  BY DEF None
<1> QED
  BY <1>1, <1>2 DEF Gone

\* A change of the cluster is on the wire, or does not show.
Told(e) ==
    /\ wire' = Append(wire, e)
    /\ e \in Events /\ e.type \in {"upsert", "deleted"} /\ e.uid \in Uids
    /\ WireHolds(Now', e) /\ Current(Now', e)
    /\ \A u \in Uids \ {e.uid} : u # obj.uid /\ u # obj'.uid
Untold ==
    /\ wire' = wire /\ obj'.uid = obj.uid /\ Now'.view = Now.view

ClusterStep ==
    /\ host' = host /\ Clustered' /\ Moves(Now, Now')
    /\ Untold \/ \E e : Told(e)

\* A write that shows is told; one that does not show changes no view.
LEMMA CommitIsClusterStep ==
    ASSUME Clustered, obj # Gone, host' = host, NEW doc \in Docs, Commit(doc)
    PROVE  ClusterStep
<1>1. obj.uid # 0 /\ obj.uid \in 1..uids /\ obj.rv = rev /\ obj.doc \in Docs /\ uids \in Uids
      /\ obj = [uid |-> obj.uid, rv |-> rev, doc |-> obj.doc] /\ rev \in Nat
  BY DEF Clustered
<1>2. obj' = [uid |-> obj.uid, rv |-> rev + 1, doc |-> doc] /\ rev' = rev + 1 /\ uids' = uids
  BY <1>1 DEF Commit
<1>3. Clustered'
  <2>1. Docs' = Docs
    BY HostStays
  <2> QED
    BY <1>1, <1>2, <2>1 DEF Clustered, Uids
<1>4. /\ Now'.uid = obj.uid /\ Now'.rv = rev + 1 /\ Now'.view = View(doc)
      /\ Now'.rev = rev + 1 /\ Now'.uids = uids
  <2>1. Hidden' = Hidden /\ obj'.doc = doc
    BY <1>2, HostStays
  <2>2. Now'.view = View(doc)
    BY <2>1 DEF Now, View
  <2> QED
    BY <1>2, <2>2 DEF Now
<1>5. Moves(Now, Now')
  BY <1>1, <1>4, NowIs DEF Moves, Uids
<1>6. CASE View(doc) = View(obj.doc)
  BY <1>2, <1>3, <1>4, <1>5, <1>6, NowIs DEF ClusterStep, Untold, Commit
<1>7. CASE View(doc) # View(obj.doc)
  <2> DEFINE e == [type |-> "upsert", uid |-> obj.uid, rv |-> rev + 1, view |-> View(doc)]
  <2>1. Upsert(obj') = e
    BY <1>2 DEF Upsert
  <2>2. wire' = Append(wire, e)
    BY <1>2, <1>7, <2>1, HostStays DEF Commit
  <2>3. e \in Events
    BY <1>1, ViewsAreDocs DEF Events, Uids
  <2>4. WireHolds(Now', e) /\ Current(Now', e)
    BY <1>1, <1>4, ViewsAreDocs, Constants DEF WireHolds, Known, Current, Uids
  <2>5. e.uid \in Uids /\ \A u \in Uids \ {e.uid} : u # obj.uid /\ u # obj'.uid
    BY <1>1, <1>2, BoundsAssumption DEF Uids
  <2>6. Told(e)
    BY <2>2, <2>3, <2>4, <2>5 DEF Told
  <2> QED
    BY <1>3, <1>5, <2>6 DEF ClusterStep
<1> QED
  BY <1>6, <1>7

\* The writes of others, ...
LEMMA WriteIsClusterStep ==
    ASSUME Clustered, Write
    PROVE  ClusterStep /\ UNCHANGED <<storeVars, recon, save>>
<1>1. PICK p \in {Content, IF host.route = "conditionalsave" THEN LastApplied ELSE Phase},
           v \in Vals :
         Commit([obj.doc EXCEPT ![p] = v])
  BY DEF Write
<1>2. obj # Gone /\ UNCHANGED <<host, storeVars, recon, save>>
  BY DEF Write
<1>3. obj.doc \in Docs
  BY <1>2 DEF Clustered
<1>4. p \in Leaves /\ v \in Values
  BY DEF Leaves, Values
<1>5. [obj.doc EXCEPT ![p] = v] \in Docs
  BY <1>3, <1>4 DEF Docs
<1>6. ClusterStep
  BY <1>1, <1>2, <1>5, CommitIsClusterStep
<1> QED
  BY <1>2, <1>6

\* ... their deletions, ...
LEMMA DeleteIsClusterStep ==
    ASSUME Clustered, Delete
    PROVE  ClusterStep /\ UNCHANGED <<storeVars, recon, save>>
<1>1. obj.uid # 0 /\ obj.uid \in 1..uids /\ uids \in Uids /\ rev \in Nat
  BY DEF Clustered, Delete
<1>2. /\ obj' = Gone /\ rev' = rev + 1 /\ uids' = uids /\ host' = host
      /\ wire' = Append(wire, Marker("deleted", obj.uid))
      /\ UNCHANGED <<storeVars, recon, save>>
  BY DEF Delete
<1>3. obj'.uid = 0 /\ obj'.rv = 0 /\ Now'.uid = 0 /\ Now'.rv = 0
      /\ Now'.rev = rev + 1 /\ Now'.uids = uids
  BY <1>2, Constants DEF Now
<1>4. Clustered'
  BY <1>1, <1>2, <1>3 DEF Clustered, Uids
<1>5. Moves(Now, Now')
  BY <1>1, <1>3, NowIs DEF Moves, Uids
<1> DEFINE e == [type |-> "deleted", uid |-> obj.uid, rv |-> 0, view |-> None]
<1>6. wire' = Append(wire, e) /\ e \in Events
  BY <1>1, <1>2 DEF Marker, Events
<1>7. WireHolds(Now', e) /\ Current(Now', e)
  BY <1>1, <1>3 DEF WireHolds, Current
<1>8. e.uid \in Uids /\ \A u \in Uids \ {e.uid} : u # obj.uid /\ u # obj'.uid
  BY <1>1, <1>3, BoundsAssumption DEF Uids
<1>9. Told(e)
  BY <1>6, <1>7, <1>8 DEF Told
<1> QED
  BY <1>2, <1>4, <1>5, <1>9 DEF ClusterStep

\* ... and re-creations move the cluster on and concern nobody else yet.
LEMMA RecreateIsClusterStep ==
    ASSUME Clustered, Recreate
    PROVE  ClusterStep /\ UNCHANGED <<storeVars, recon, save>>
<1>1. obj.uid = 0 /\ uids \in Uids /\ uids < MaxUid /\ rev \in Nat
  BY Constants DEF Clustered, Recreate
<1>2. /\ obj' = Fresh(uids + 1, rev + 1) /\ rev' = rev + 1 /\ uids' = uids + 1 /\ host' = host
      /\ wire' = Append(wire, Upsert(obj'))
      /\ UNCHANGED <<storeVars, recon, save>>
  BY DEF Recreate
<1>3. obj' = [uid |-> uids + 1, rv |-> rev + 1, doc |-> obj'.doc] /\ obj'.doc \in Docs
  BY <1>2 DEF Fresh, Docs, Values
<1>4. /\ Now'.uid = uids + 1 /\ Now'.rv = rev + 1 /\ Now'.view = View(obj'.doc)
      /\ Now'.rev = rev + 1 /\ Now'.uids = uids + 1
  <2>1. Hidden' = Hidden
    BY <1>2, HostStays
  <2>2. Now'.view = View(obj'.doc)
    BY <2>1 DEF Now, View
  <2> QED
    BY <1>2, <1>3, <2>2 DEF Now
<1>5. uids + 1 \in Uids /\ uids + 1 \in 1..uids'
  BY <1>1, <1>2, BoundsAssumption DEF Uids
<1>6. Clustered'
  <2>1. Docs' = Docs
    BY <1>2, HostStays
  <2> QED
    BY <1>1, <1>2, <1>3, <1>5, <2>1 DEF Clustered, Uids
<1>7. Moves(Now, Now')
  BY <1>1, <1>4, NowIs DEF Moves, Uids
<1> DEFINE e == [type |-> "upsert", uid |-> uids + 1, rv |-> rev + 1, view |-> View(obj'.doc)]
<1>8. wire' = Append(wire, e) /\ e \in Events
  <2>1. Upsert(obj') = e
    BY <1>3 DEF Upsert
  <2>2. View(obj'.doc) \in Docs
    BY <1>3, ViewsAreDocs
  <2> QED
    BY <1>1, <1>2, <2>1, <2>2 DEF Events, Uids
<1>9. WireHolds(Now', e) /\ Current(Now', e)
  <2>1. View(obj'.doc) \in Docs
    BY <1>3, ViewsAreDocs
  <2> QED
    BY <1>1, <1>4, <2>1, Constants DEF WireHolds, Known, Current, Uids
<1>10. e.uid \in Uids /\ \A u \in Uids \ {e.uid} : u # obj.uid /\ u # obj'.uid
  BY <1>1, <1>3, <1>5, BoundsAssumption DEF Uids
<1>11. Told(e)
  BY <1>8, <1>9, <1>10 DEF Told
<1> QED
  BY <1>2, <1>6, <1>7, <1>11 DEF ClusterStep

-----------------------------------------------------------------------------
\* An event joins the wire at its end.
LEMMA Appended ==
    ASSUME NEW S, NEW s \in Seq(S), NEW e \in S
    PROVE  /\ Append(s, e) \in Seq(S)
           /\ Len(s) \in Nat /\ Len(s) + 1 \in DOMAIN Append(s, e) /\ Append(s, e)[Len(s) + 1] = e
           /\ \A i \in DOMAIN s : i \in DOMAIN Append(s, e) /\ Append(s, e)[i] = s[i]
                             /\ i < Len(s) + 1
           /\ \A i \in DOMAIN Append(s, e) : i \in DOMAIN s \/ i = Len(s) + 1
OBVIOUS

\* When the cluster moves on the store stays right about the past, ...
LEMMA ClusterKeepsStored ==
    ASSUME Clustered, Stored, ClusterStep, UNCHANGED storeVars
    PROVE  Stored'
<1>1. host' = host /\ Clustered' /\ Moves(Now, Now') /\ Bounded(Now) /\ Bounded(Now')
  <2>1. Clustered' => Bounded(Now)'
    BY NowBounded, PTL
  <2> QED
    BY <2>1, NowBounded DEF ClusterStep, Bounded
<1>2. Events' = Events /\ Resources' = Resources
  BY <1>1, HostStays
<1>3. wire' \in Seq(Events)
  BY Appended DEF ClusterStep, Untold, Told, Stored
<1>4. held' = held /\ snapshots' = snapshots /\ seen' = seen
  BY DEF storeVars
<1>5. ASSUME NEW u \in Uids, held[u] # None PROVE Known(Now', u, held[u].rv, held[u].view)
  <2>1. Known(Now, u, held[u].rv, held[u].view)
    BY <1>5 DEF Stored
  <2> QED
    BY <1>1, <2>1, KnownKept
<1> QED
  BY <1>2, <1>3, <1>4, <1>5 DEF Stored

\* ... the wire stays in order, ...
LEMMA ClusterKeepsWired ==
    ASSUME Clustered, Stored, Wired, ClusterStep
    PROVE  Wired'
<1>1. Clustered' /\ Moves(Now, Now') /\ Bounded(Now) /\ Bounded(Now')
  <2>1. Clustered' => Bounded(Now)'
    BY NowBounded, PTL
  <2> QED
    BY <2>1, NowBounded DEF ClusterStep, Bounded
<1>2. ASSUME NEW i \in DOMAIN wire PROVE WireHolds(Now', wire[i])
  BY <1>1, EventKept DEF Wired
<1>3. ASSUME NEW i \in DOMAIN wire, wire[i].type = "reset" PROVE i = 1
  BY <1>3 DEF Wired
<1>4. CASE Untold
  BY <1>2, <1>3, <1>4 DEF Wired, Untold
<1>5. ASSUME NEW e, Told(e) PROVE Wired'
  <2>1. wire' = Append(wire, e) /\ e \in Events /\ WireHolds(Now', e) /\ e.type # "reset"
    BY <1>5 DEF Told
  <2>2. ASSUME NEW i \in DOMAIN wire' PROVE WireHolds(Now', wire'[i])
    BY <1>2, <2>1, <2>2, Appended DEF Stored
  <2>3. ASSUME NEW i \in DOMAIN wire', wire'[i].type = "reset" PROVE i = 1
    BY <1>3, <2>1, <2>3, Appended DEF Stored
  <2> QED
    BY <2>2, <2>3 DEF Wired
<1> QED
  BY <1>4, <1>5 DEF ClusterStep

\* ... its last event about an incarnation is current again, ...
LEMMA ClusterKeepsLast ==
    ASSUME Clustered, Stored, Wired, LastIsCurrent, ClusterStep
    PROVE  LastIsCurrent'
<1>1. Now.uid = obj.uid /\ Now'.uid = obj'.uid
  BY DEF Now
<1>2. CASE Untold
  BY <1>1, <1>2 DEF LastIsCurrent, Untold, Current
<1>3. ASSUME NEW e, Told(e) PROVE LastIsCurrent'
  <2>1. /\ wire' = Append(wire, e) /\ e \in Events /\ Current(Now', e) /\ wire \in Seq(Events)
        /\ \A u \in Uids \ {e.uid} : u # obj.uid /\ u # obj'.uid
    BY <1>3 DEF Told, Stored
  <2> SUFFICES ASSUME NEW i \in DOMAIN wire', wire'[i].uid # 0,
                      \A j \in DOMAIN wire' : j > i => wire'[j].uid # wire'[i].uid
               PROVE  Current(Now', wire'[i])
    BY DEF LastIsCurrent
  <2>2. CASE i = Len(wire) + 1
    BY <2>1, <2>2, Appended
  <2>3. CASE i \in DOMAIN wire
    <3>1. wire'[i] = wire[i] /\ wire[i].uid # e.uid
      BY <2>1, <2>3, Appended
    <3>2. \A j \in DOMAIN wire : j > i => wire[j].uid # wire[i].uid
      BY <2>1, <2>3, <3>1, Appended
    <3>3. Current(Now, wire[i])
      BY <2>3, <3>1, <3>2 DEF LastIsCurrent
    <3>4. wire[i].uid \in Uids \ {e.uid}
      <4>1. WireHolds(Now, wire[i]) /\ wire[i] \in Events
        BY <2>1, <2>3 DEF Wired
      <4>2. wire[i].uid \in 1..uids
        BY <3>1, <4>1, NowIs DEF WireHolds, Known, Events
      <4> QED
        BY <3>1, <4>2, BoundsAssumption DEF Clustered, Uids
    <3> QED
      BY <1>1, <2>1, <3>1, <3>3, <3>4 DEF Current
  <2> QED
    BY <2>1, <2>2, <2>3, Appended
<1> QED
  BY <1>2, <1>3 DEF ClusterStep

\* ... what it does not mention has not moved, ...
LEMMA ClusterKeepsQuiet ==
    ASSUME Clustered, Stored, Quiet, ClusterStep, UNCHANGED storeVars
    PROVE  Quiet'
<1>1. Now.uid = obj.uid /\ Now'.uid = obj'.uid /\ held' = held /\ seen' = seen
  BY DEF Now, storeVars
<1>2. CASE Untold
  BY <1>1, <1>2 DEF Quiet, Untold, Holds
<1>3. ASSUME NEW e, Told(e) PROVE Quiet'
  <2>1. /\ wire' = Append(wire, e) /\ e \in Events /\ e.type # "reset" /\ wire \in Seq(Events)
        /\ \A u \in Uids \ {e.uid} : u # obj.uid /\ u # obj'.uid
    BY <1>3 DEF Told, Stored
  <2>2. Mended(wire') <=> Mended(wire)
    BY <2>1, Appended DEF Mended
  <2>3. ASSUME NEW u \in Uids, Silent(wire', u)
        PROVE  Silent(wire, u) /\ u # e.uid
    BY <2>1, <2>3, Appended DEF Silent
  <2> QED
    BY <1>1, <2>1, <2>2, <2>3 DEF Quiet, Holds
<1> QED
  BY <1>2, <1>3 DEF ClusterStep

\* ... and a read that it outdates has an event coming.
LEMMA ClusterKeepsReading ==
    ASSUME Clustered, Stored, Reading, ClusterStep, UNCHANGED <<storeVars, recon>>
    PROVE  Reading'
<1>1. /\ host' = host /\ Clustered' /\ Moves(Now, Now') /\ Bounded(Now) /\ Bounded(Now')
      /\ Now.uid = obj.uid /\ Now'.uid = obj'.uid /\ Now.uids = uids /\ Now'.uids = uids'
  <2>1. Clustered' => Bounded(Now)'
    BY NowBounded, PTL
  <2> QED
    BY <2>1, NowBounded DEF ClusterStep, Bounded, Now
<1>2. held' = held /\ snapshots' = snapshots /\ seen' = seen /\ recon' = recon
  BY DEF storeVars
<1>3. Docs' = Docs /\ Shown' = Shown
  <2>1. Hidden' = Hidden /\ Docs' = Docs
    BY <1>1, HostStays
  <2> QED
    BY <1>2, <2>1 DEF Shown, View
<1>4. recon.stage = "read" => Known(Now', recon.response.uid, recon.response.rv, Shown)
  BY <1>1, KnownKept DEF Reading
<1>5. recon.stage # "idle" => recon.uid \in 1..uids'
  BY <1>1 DEF Reading, Moves, Bounded
<1>6. ASSUME recon.stage = "read", Mended(wire'), snapshots = recon.snapshots, recon.fresh,
             recon.response.uid = recon.uid, recon.uid = obj'.uid, Silent(wire', recon.uid)
      PROVE  Shown = Now'.view
  <2>1. CASE Untold
    BY <1>6, <2>1 DEF Untold, Reading
  <2>2. ASSUME NEW e, Told(e) PROVE FALSE
    <3>1. wire' = Append(wire, e) /\ e \in Events /\ wire \in Seq(Events)
      BY <2>2 DEF Told, Stored
    <3>2. recon.uid # e.uid
      BY <1>6, <3>1, Appended DEF Silent
    <3>3. recon.uid \in Uids
      BY <1>6 DEF Reading
    <3> QED
      BY <1>6, <2>2, <3>2, <3>3 DEF Told
  <2> QED
    BY <2>1, <2>2 DEF ClusterStep
<1> QED
  BY <1>2, <1>3, <1>4, <1>5, <1>6 DEF Reading

-----------------------------------------------------------------------------
\* When the cluster stands still so does all that is relative to it.
LEMMA Still ==
    ASSUME Clustered, UNCHANGED <<host, clusterVars>>
    PROVE  /\ Clustered' /\ Now' = Now /\ Moves(Now, Now') /\ Bounded(Now)
           /\ Docs' = Docs /\ Events' = Events /\ Resources' = Resources /\ Content' = Content
           /\ obj' = obj /\ rev' = rev /\ uids' = uids
<1>1. host' = host /\ obj' = obj /\ rev' = rev /\ uids' = uids
  BY DEF clusterVars
<1>2. Docs' = Docs /\ Events' = Events /\ Resources' = Resources /\ Content' = Content
      /\ Hidden' = Hidden
  BY <1>1, HostStays
<1>3. Clustered'
  BY <1>1, <1>2 DEF Clustered
<1>4. Now' = Now
  BY <1>1, <1>2 DEF Now, View
<1>5. Bounded(Now)
  BY NowBounded
<1>6. Moves(Now, Now')
  BY <1>4, <1>5 DEF Moves, Bounded
<1> QED
  BY <1>1, <1>2, <1>3, <1>4, <1>5, <1>6

\* Nothing then happens to the store, ...
LEMMA StillKeepsStore ==
    ASSUME Clustered, Stored, Wired, LastIsCurrent, Quiet,
           UNCHANGED <<host, clusterVars, wire, storeVars>>
    PROVE  Clustered' /\ Stored' /\ Wired' /\ LastIsCurrent' /\ Quiet'
<1>1. wire' = wire /\ held' = held /\ snapshots' = snapshots /\ seen' = seen
  BY DEF storeVars
<1>2. Clustered' /\ Now' = Now /\ Docs' = Docs /\ Events' = Events /\ Resources' = Resources
      /\ obj' = obj
  BY Still
<1>3. Stored'
  BY <1>1, <1>2 DEF Stored
<1>4. Wired'
  BY <1>1, <1>2 DEF Wired
<1>5. LastIsCurrent'
  BY <1>1, <1>2 DEF LastIsCurrent
<1>6. Quiet'
  BY <1>1, <1>2 DEF Quiet
<1> QED
  BY <1>2, <1>3, <1>4, <1>5, <1>6

\* ... or to the read.
LEMMA StillKeepsReading ==
    ASSUME Clustered, Reading, UNCHANGED <<host, clusterVars, wire, storeVars, recon>>
    PROVE  Reading'
<1>1. wire' = wire /\ held' = held /\ snapshots' = snapshots /\ recon' = recon
  BY DEF storeVars
<1>2. Now' = Now /\ Docs' = Docs /\ obj' = obj /\ uids' = uids
  BY Still
<1>3. Shown' = Shown
  BY <1>1, HostStays DEF Shown, View
<1> QED
  BY <1>1, <1>2, <1>3 DEF Reading

\* Requests nobody touches stay in order, ...
LEMMA SavesKept ==
    ASSUME Clustered, Clustered', Moves(Now, Now'), Saves, save' = save
    PROVE  Saves'
<1>1. Bounded(Now) /\ Bounded(Now')
  <2>1. Clustered' => Bounded(Now)'
    BY NowBounded, PTL
  <2> QED
    BY <2>1, NowBounded DEF Bounded
<1>2. ASSUME NEW q \in Attempts PROVE SaveHolds(Now', save[q])
  BY <1>1, SaveKept DEF Saves
<1> QED
  BY <1>2 DEF Saves

\* ... and all of them do if the one that changes does.
LEMMA SaveChanged ==
    ASSUME Clustered, Clustered', Moves(Now, Now'), Saves, NEW q \in Attempts, NEW s,
           save' = [save EXCEPT ![q] = s], SaveHolds(Now', s)
    PROVE  Saves'
<1>1. Bounded(Now) /\ Bounded(Now')
  <2>1. Clustered' => Bounded(Now)'
    BY NowBounded, PTL
  <2> QED
    BY <2>1, NowBounded DEF Bounded
<1>2. save = [r \in Attempts |-> save[r]]
  BY DEF Saves
<1>3. save' = [r \in Attempts |-> IF r = q THEN s ELSE save[r]]
  BY <1>2
<1>4. ASSUME NEW r \in Attempts PROVE SaveHolds(Now', save'[r])
  <2>1. CASE r = q
    BY <1>3, <2>1
  <2>2. CASE r # q
    <3>1. SaveHolds(Now', save[r])
      BY <1>1, SaveKept DEF Saves
    <3>2. save'[r] = save[r]
      BY <1>3, <2>2
    <3> QED
      BY <3>1, <3>2
  <2> QED
    BY <2>1, <2>2
<1>5. save' = [r \in Attempts |-> save'[r]]
  BY <1>3
<1> QED
  BY <1>4, <1>5 DEF Saves

-----------------------------------------------------------------------------
\* What Resync puts on the wire, written out.
LEMMA Joined ==
    ASSUME NEW S, NEW a \in S, NEW b \in S, NEW c \in S
    PROVE  /\ <<a>> \o <<>> \o <<c>> = <<a, c>> /\ <<a, c>> \in Seq(S)
           /\ <<a>> \o <<b>> \o <<c>> = <<a, b, c>> /\ <<a, b, c>> \in Seq(S)
<1>1. <<a>> \in Seq(S) /\ <<b>> \in Seq(S) /\ <<c>> \in Seq(S) /\ <<>> \in Seq(S)
  OBVIOUS
<1>2. <<a, c>> \in Seq(S) /\ Len(<<a, c>>) = 2 /\ <<a, b>> \in Seq(S)
  OBVIOUS
<1>3. <<a, b, c>> \in Seq(S) /\ Len(<<a, b, c>>) = 3
  OBVIOUS
<1>4. <<a>> \o <<>> = <<a>>
  BY <1>1, ConcatEmptySeq
<1>5. ASSUME NEW d \in S PROVE <<a>> \o <<d>> = <<a, d>>
  <2> DEFINE t == <<a>> \o <<d>>
  <2>1. <<d>> \in Seq(S) /\ Len(<<d>>) = 1 /\ Len(<<a>>) = 1
    OBVIOUS
  <2>2. t \in Seq(S) /\ Len(t) = 2
        /\ \A i \in 1..2 : t[i] = IF i <= 1 THEN <<a>>[i] ELSE <<d>>[i - 1]
    BY <1>1, <2>1, ConcatProperties
  <2>3. <<a, d>> \in Seq(S) /\ Len(<<a, d>>) = 2
    OBVIOUS
  <2>4. \A i \in 1..2 : t[i] = <<a, d>>[i]
    BY <2>2
  <2> HIDE DEF t
  <2>5. t = <<a, d>>
    BY <2>2, <2>3, <2>4, SeqEqual
  <2> QED
    BY <2>5 DEF t
<1>6. <<a, b>> \o <<c>> = <<a, b, c>>
  <2> DEFINE t == <<a, b>> \o <<c>>
  <2>1. Len(<<a, b>>) = 2 /\ Len(<<c>>) = 1
    OBVIOUS
  <2>2. t \in Seq(S) /\ Len(t) = 3
        /\ \A i \in 1..3 : t[i] = IF i <= 2 THEN <<a, b>>[i] ELSE <<c>>[i - 2]
    BY <1>1, <1>2, <2>1, ConcatProperties
  <2>3. \A i \in 1..3 : t[i] = <<a, b, c>>[i]
    BY <2>2
  <2> HIDE DEF t
  <2>4. t = <<a, b, c>>
    BY <1>3, <2>2, <2>3, SeqEqual
  <2> QED
    BY <2>4 DEF t
<1>7. <<a>> \o <<>> \o <<c>> = <<a, c>> /\ <<a>> \o <<b>> \o <<c>> = <<a, b, c>>
  BY <1>4, <1>5, <1>6, Zenon
<1> QED
  BY <1>2, <1>3, <1>7

\* A new snapshot accounts for every incarnation: the present one is in it, no other is.
LEMMA ResyncKeeps ==
    ASSUME Clustered, Stored, Wired, LastIsCurrent, Quiet, Reading, Resync
    PROVE  Clustered' /\ Stored' /\ Wired' /\ LastIsCurrent' /\ Quiet' /\ Reading'
<1> DEFINE reset == [type |-> "reset", uid |-> 0, rv |-> 0, view |-> None]
           synced == [type |-> "synced", uid |-> 0, rv |-> 0, view |-> None]
           now == [type |-> "upsert", uid |-> obj.uid, rv |-> obj.rv, view |-> View(obj.doc)]
<1>1. host' = host /\ held' = held /\ snapshots' = snapshots /\ seen' = seen /\ recon' = recon
      /\ UNCHANGED clusterVars
  BY DEF storeVars, Resync
<1>2. Clustered' /\ Now' = Now /\ Docs' = Docs /\ Events' = Events /\ Resources' = Resources
      /\ obj' = obj /\ uids' = uids
  BY <1>1, Still
<1>3. IF obj.uid = 0 THEN wire' = <<reset, synced>> ELSE wire' = <<reset, now, synced>>
  <2>1. obj = Gone <=> obj.uid = 0
    BY Constants DEF Clustered
  <2> DEFINE S == {reset, now, synced}
  <2> HIDE DEF reset, now, synced
  <2>2. /\ <<reset>> \o <<>> \o <<synced>> = <<reset, synced>>
        /\ <<reset>> \o <<now>> \o <<synced>> = <<reset, now, synced>>
    <3>1. reset \in S /\ now \in S /\ synced \in S
      OBVIOUS
    <3> HIDE DEF S
    <3> QED
      BY <3>1, Joined
  <2>3. Marker("reset", 0) = reset /\ Marker("synced", 0) = synced /\ Upsert(obj) = now
    BY DEF Marker, Upsert, reset, synced, now
  <2>4. wire' = <<reset>> \o (IF obj.uid = 0 THEN <<>> ELSE <<now>>) \o <<synced>>
    BY <2>1, <2>3 DEF Resync
  <2>5. CASE obj.uid = 0
    BY <2>5, <2>2, <2>4
  <2>6. CASE obj.uid # 0
    BY <2>6, <2>2, <2>4
  <2> QED
    BY <2>5, <2>6
<1>4. reset \in Events /\ synced \in Events
  BY DEF Events
<1>5. obj.uid # 0 => now \in Events /\ WireHolds(Now, now) /\ Current(Now, now)
  <2> SUFFICES ASSUME obj.uid # 0
               PROVE  now \in Events /\ WireHolds(Now, now) /\ Current(Now, now)
    OBVIOUS
  <2>1. obj.uid \in 1..uids /\ uids \in Uids /\ obj.rv = rev /\ rev \in Nat /\ obj.doc \in Docs
    BY DEF Clustered
  <2>2. View(obj.doc) \in Docs
    BY <2>1, ViewsAreDocs
  <2> QED
    BY <2>1, <2>2, NowIs, Constants DEF Events, WireHolds, Known, Current, Uids
<1>6. wire' \in Seq(Events)
  <2>1. CASE obj.uid = 0
    <3>1. wire' = <<reset, synced>>
      BY <1>3, <2>1
    <3> HIDE DEF reset, synced
    <3> QED
      BY <1>4, <3>1, Joined
  <2>2. CASE obj.uid # 0
    <3>1. wire' = <<reset, now, synced>>
      BY <1>3, <2>2
    <3> HIDE DEF reset, synced, now
    <3> QED
      BY <1>4, <1>5, <2>2, <3>1, Joined
  <2> QED
    BY <2>1, <2>2
<1>7. ASSUME NEW i \in DOMAIN wire'
      PROVE  \/ i = 1 /\ wire'[i] = reset
             \/ wire'[i] = synced /\ i # 1
             \/ wire'[i] = now /\ i # 1 /\ obj.uid # 0
  <2>1. CASE obj.uid = 0
    <3>1. wire' = <<reset, synced>>
      BY <1>3, <2>1
    <3> QED
      BY <3>1
  <2>2. CASE obj.uid # 0
    <3>1. wire' = <<reset, now, synced>>
      BY <1>3, <2>2
    <3> QED
      BY <3>1, <2>2
  <2> QED
    BY <2>1, <2>2
<1>8. ~Mended(wire')
  <2>1. 1 \in DOMAIN wire' /\ wire'[1] = reset
    BY <1>3
  <2> QED
    BY <2>1 DEF Mended
<1>9. ASSUME NEW u \in Uids, Silent(wire', u) PROVE u # obj.uid
  <2> SUFFICES ASSUME u = obj.uid PROVE FALSE
    OBVIOUS
  <2>1. obj.uid # 0
    BY BoundsAssumption DEF Uids
  <2>2. 2 \in DOMAIN wire' /\ wire'[2] = now
    BY <1>3, <2>1
  <2> QED
    BY <1>9, <2>2 DEF Silent
<1>10. Stored'
  BY <1>1, <1>2, <1>6 DEF Stored
<1>11. Wired'
  <2>1. ASSUME NEW i \in DOMAIN wire' PROVE WireHolds(Now, wire'[i])
    BY <1>5, <1>7 DEF WireHolds
  <2>2. ASSUME NEW i \in DOMAIN wire', wire'[i].type = "reset" PROVE i = 1
    BY <1>7, <2>2
  <2> QED
    BY <1>2, <2>1, <2>2 DEF Wired
<1>12. LastIsCurrent'
  <2>1. ASSUME NEW i \in DOMAIN wire', wire'[i].uid # 0 PROVE Current(Now, wire'[i])
    BY <1>5, <1>7, <2>1
  <2> QED
    BY <1>2, <2>1 DEF LastIsCurrent
<1>13. Quiet'
  BY <1>2, <1>8, <1>9 DEF Quiet
<1>14. Reading'
  <2>1. Shown' = Shown
    BY <1>1, HostStays DEF Shown, View
  <2> QED
    BY <1>1, <1>2, <1>8, <2>1 DEF Reading
<1> QED
  BY <1>2, <1>10, <1>11, <1>12, <1>13, <1>14

\* An event is taken from the head of the wire.
LEMMA Cut ==
    ASSUME NEW S, NEW s \in Seq(S), s # <<>>
    PROVE  /\ Tail(s) \in Seq(S) /\ 1 \in DOMAIN s /\ Head(s) = s[1] /\ Head(s) \in S
           /\ \A i \in DOMAIN Tail(s) : /\ i \in Nat /\ i + 1 \in DOMAIN s /\ i + 1 # 1
                                        /\ Tail(s)[i] = s[i + 1]
           /\ \A i \in DOMAIN s : \/ i = 1
                                  \/ /\ i \in Nat /\ i - 1 \in DOMAIN Tail(s)
                                     /\ Tail(s)[i - 1] = s[i]
OBVIOUS

\* What is left of the wire stays in order, and has no reset, ...
LEMMA TailKeeps ==
    ASSUME Clustered, Stored, Wired, LastIsCurrent, UNCHANGED <<host, clusterVars>>,
           wire # <<>>, wire' = Tail(wire)
    PROVE  wire' \in Seq(Events) /\ Wired' /\ LastIsCurrent' /\ Mended(wire')
<1>1. Now' = Now
  BY Still
<1>2. wire \in Seq(Events)
  BY DEF Stored
<1>3. wire' \in Seq(Events)
  BY <1>2, Cut
<1>4. ASSUME NEW i \in DOMAIN wire'
      PROVE  i + 1 \in DOMAIN wire /\ i + 1 # 1 /\ wire'[i] = wire[i + 1] /\ i \in Nat
  BY <1>2, Cut
<1>5. ASSUME NEW i \in DOMAIN wire' PROVE WireHolds(Now, wire'[i]) /\ wire'[i].type # "reset"
  <2>1. WireHolds(Now, wire[i + 1])
    BY <1>4 DEF Wired
  <2>2. wire[i + 1].type # "reset"
    BY <1>4 DEF Wired
  <2> QED
    BY <1>4, <2>1, <2>2
<1>6. Wired' /\ Mended(wire')
  BY <1>1, <1>5 DEF Wired, Mended
<1>7. LastIsCurrent'
  <2> SUFFICES ASSUME NEW i \in DOMAIN wire', wire'[i].uid # 0,
                      \A j \in DOMAIN wire' : j > i => wire'[j].uid # wire'[i].uid
               PROVE  Current(Now, wire'[i])
    BY <1>1 DEF LastIsCurrent
  <2>1. ASSUME NEW j \in DOMAIN wire, j > i + 1 PROVE wire[j].uid # wire[i + 1].uid
    <3>1. j # 1 /\ i \in Nat
      BY <1>4, <2>1
    <3>2. j \in Nat /\ j - 1 \in DOMAIN wire' /\ wire'[j - 1] = wire[j]
      BY <1>2, <3>1, Cut
    <3>3. j - 1 > i
      BY <2>1, <3>1, <3>2
    <3> QED
      BY <1>4, <3>2, <3>3
  <2> QED
    BY <1>4, <2>1 DEF LastIsCurrent
<1> QED
  BY <1>3, <1>6, <1>7

\* ... and what came off it is current if nothing follows about it.
LEMMA HeadTells ==
    ASSUME Clustered, Stored, Wired, LastIsCurrent, wire # <<>>
    PROVE  LET e == Head(wire) w == Tail(wire) IN
           /\ e \in Events /\ WireHolds(Now, e)
           /\ e.uid # 0 /\ Silent(w, e.uid) => Current(Now, e)
           /\ \A u : Silent(w, u) /\ u # e.uid => Silent(wire, u)
           /\ Mended(wire) <=> e.type # "reset"
<1> DEFINE e == Head(wire) w == Tail(wire)
<1>1. wire \in Seq(Events)
  BY DEF Stored
<1>2. 1 \in DOMAIN wire /\ e = wire[1] /\ e \in Events
  BY <1>1, Cut
<1>3. WireHolds(Now, e)
  BY <1>2 DEF Wired
<1>4. ASSUME NEW j \in DOMAIN wire, j # 1
      PROVE  j - 1 \in DOMAIN w /\ w[j - 1] = wire[j]
  BY <1>1, <1>4, Cut
<1>5. ASSUME e.uid # 0, Silent(w, e.uid) PROVE Current(Now, e)
  <2>1. ASSUME NEW j \in DOMAIN wire, j > 1 PROVE wire[j].uid # e.uid
    BY <1>4, <1>5, <2>1 DEF Silent
  <2> QED
    BY <1>2, <1>5, <2>1 DEF LastIsCurrent
<1>6. ASSUME NEW u, Silent(w, u), u # e.uid PROVE Silent(wire, u)
  BY <1>2, <1>4, <1>6 DEF Silent
<1>7. Mended(wire) <=> e.type # "reset"
  BY <1>2 DEF Mended, Wired
<1> QED
  BY <1>2, <1>3, <1>5, <1>6, <1>7

-----------------------------------------------------------------------------
\* A resource that is held is one.
LEMMA Held == \A rv, view : [rv |-> rv, view |-> view] # None
BY DEF None

\* Applying an upsert, ...
LEMMA UpsertKeeps ==
    ASSUME Clustered, Stored, Wired, LastIsCurrent, Quiet, Reading,
           UNCHANGED <<host, clusterVars>>, wire # <<>>, wire' = Tail(wire),
           applyServerEvent(Head(wire))
    PROVE  Stored' /\ Quiet' /\ Reading'
<1> DEFINE e == Head(wire)
           new == [rv |-> e.rv, view |-> e.view]
<1>1. /\ wire' \in Seq(Events) /\ Mended(wire')
      /\ Now' = Now /\ Docs' = Docs /\ Events' = Events /\ Resources' = Resources
      /\ obj' = obj /\ uids' = uids /\ Now.uid = obj.uid /\ Now.uids = uids
  BY TailKeeps, Still, NowIs
<1>2. /\ e \in Events /\ WireHolds(Now, e)
      /\ e.uid # 0 /\ Silent(wire', e.uid) => Current(Now, e)
      /\ \A u : Silent(wire', u) /\ u # e.uid => Silent(wire, u)
      /\ Mended(wire) <=> e.type # "reset"
  BY HeadTells
<1>3. /\ e.type = "upsert" /\ held' = [held EXCEPT ![e.uid] = new]
      /\ seen' = IF seen = Closed THEN seen ELSE seen \cup {e.uid}
      /\ recon' = [recon EXCEPT !.fresh = @ /\ recon.uid # e.uid]
      /\ snapshots' = snapshots
  BY DEF applyServerEvent, upsert
<1> HIDE DEF e, new
<1>4. e.uid \in Uids /\ e.uid # 0 /\ Known(Now, e.uid, e.rv, e.view)
  <2>1. e.uid \in 1..uids /\ uids \in 1..MaxUid
    BY <1>1, <1>2, <1>3 DEF WireHolds, Known, Clustered, Uids
  <2> QED
    BY <1>2, <1>3, <2>1, BoundsAssumption DEF Uids, WireHolds
<1>5. new \in Resources /\ new # None /\ new.rv = e.rv /\ new.view = e.view
  <2>1. e.view \in Docs /\ e.rv \in Nat
    BY <1>2, <1>3 DEF Events, WireHolds
  <2>2. new \in [rv : Nat, view : Docs]
    BY <2>1 DEF new
  <2> QED
    BY <2>2, Held DEF new, Resources
<1>6. /\ held' \in [Uids -> Resources] /\ held'[e.uid] = new
      /\ \A u \in Uids \ {e.uid} : held'[u] = held[u]
  BY <1>3, <1>4, <1>5 DEF Stored
<1>7. /\ seen' = Closed <=> seen = Closed
      /\ seen' = Closed \/ seen' \in SUBSET Uids
      /\ seen # Closed => e.uid \in seen' /\ \A u \in Uids \ {e.uid} : u \in seen' <=> u \in seen
  <2>1. e.uid \notin Closed
    BY <1>4 DEF Closed
  <2> QED
    BY <1>3, <1>4, <2>1 DEF Stored
<1>8. Stored'
  BY <1>1, <1>3, <1>4, <1>5, <1>6, <1>7 DEF Stored
<1>9. Quiet'
  <2> SUFFICES ASSUME NEW u \in Uids, Silent(wire', u)
               PROVE  IF seen' = Closed \/ u \in seen' THEN Holds(Now, held', u)
                      ELSE u # obj.uid
    BY <1>1 DEF Quiet
  <2>1. CASE u = e.uid
    <3>1. Current(Now, e)
      BY <1>2, <1>4, <2>1
    <3>2. Holds(Now, held', u)
      BY <1>3, <1>5, <1>6, <2>1, <3>1 DEF Current, Holds
    <3> QED
      BY <1>7, <2>1, <3>2
  <2>2. CASE u # e.uid
    <3>1. Silent(wire, u) /\ Mended(wire)
      BY <1>2, <1>3, <2>2
    <3>2. IF seen = Closed \/ u \in seen THEN Holds(Now, held, u) ELSE u # obj.uid
      BY <3>1 DEF Quiet
    <3> QED
      BY <1>6, <1>7, <2>2, <3>2 DEF Holds
  <2> QED
    BY <2>1, <2>2
<1>10. Reading'
  <2>1. /\ recon'.stage = recon.stage /\ recon'.uid = recon.uid
        /\ recon'.snapshots = recon.snapshots /\ recon'.response = recon.response
        /\ recon' = [stage |-> recon'.stage, uid |-> recon'.uid, fresh |-> recon'.fresh,
                     snapshots |-> recon'.snapshots, response |-> recon'.response,
                     count |-> recon'.count]
    BY <1>3 DEF Reading
  <2>2. recon'.fresh \in BOOLEAN /\ (recon'.fresh => recon.fresh /\ recon.uid # e.uid)
    BY <1>3 DEF Reading
  <2>3. Shown' = Shown
    BY <2>1, HostStays DEF Shown, View
  <2>4. ASSUME recon.stage = "read", recon'.fresh, recon.response.uid = recon.uid,
               held'[recon.uid] # None
        PROVE  held'[recon.uid].rv <= recon.response.rv
    BY <1>6, <2>2, <2>4 DEF Reading
  <2>5. ASSUME recon.stage = "read", snapshots = recon.snapshots, recon'.fresh,
               recon.response.uid = recon.uid, recon.uid = obj.uid, Silent(wire', recon.uid)
        PROVE  Shown = Now.view
    <3>1. Silent(wire, recon.uid) /\ Mended(wire) /\ recon.fresh
      BY <1>2, <1>3, <2>2, <2>5
    <3> QED
      BY <2>5, <3>1 DEF Reading
  <2> QED
    BY <1>1, <1>3, <2>1, <2>2, <2>3, <2>4, <2>5 DEF Reading
<1> QED
  BY <1>8, <1>9, <1>10

\* ... a deletion, ...
LEMMA RemoveKeeps ==
    ASSUME Clustered, Stored, Wired, LastIsCurrent, Quiet, Reading,
           UNCHANGED <<host, clusterVars>>, wire # <<>>, wire' = Tail(wire),
           removeResource(Head(wire))
    PROVE  Stored' /\ Quiet' /\ Reading'
<1> DEFINE e == Head(wire)
<1>1. /\ wire' \in Seq(Events) /\ Mended(wire')
      /\ Now' = Now /\ Docs' = Docs /\ Events' = Events /\ Resources' = Resources
      /\ obj' = obj /\ uids' = uids /\ Now.uid = obj.uid /\ Now.uids = uids
  BY TailKeeps, Still, NowIs
<1>2. /\ e \in Events /\ WireHolds(Now, e)
      /\ e.uid # 0 /\ Silent(wire', e.uid) => Current(Now, e)
      /\ \A u : Silent(wire', u) /\ u # e.uid => Silent(wire, u)
      /\ Mended(wire) <=> e.type # "reset"
  BY HeadTells
<1>3. /\ e.type = "deleted" /\ held' = [held EXCEPT ![e.uid] = None]
      /\ seen' = seen /\ recon' = recon /\ snapshots' = snapshots
  BY DEF removeResource
<1> HIDE DEF e
<1>4. e.uid \in Uids /\ e.uid # 0
  <2>1. e.uid \in 1..uids /\ uids \in 1..MaxUid
    BY <1>1, <1>2, <1>3 DEF WireHolds, Clustered, Uids
  <2> QED
    BY <2>1, BoundsAssumption DEF Uids
<1>5. /\ held' \in [Uids -> Resources] /\ held'[e.uid] = None
      /\ \A u \in Uids \ {e.uid} : held'[u] = held[u]
  BY <1>3, <1>4 DEF Stored, Resources
<1>6. Stored'
  BY <1>1, <1>3, <1>5 DEF Stored
<1>7. Quiet'
  <2> SUFFICES ASSUME NEW u \in Uids, Silent(wire', u)
               PROVE  IF seen = Closed \/ u \in seen THEN Holds(Now, held', u)
                      ELSE u # obj.uid
    BY <1>1, <1>3 DEF Quiet
  <2>1. CASE u = e.uid
    BY <1>1, <1>2, <1>3, <1>4, <1>5, <2>1 DEF Current, Holds
  <2>2. CASE u # e.uid
    <3>1. Silent(wire, u) /\ Mended(wire)
      BY <1>2, <1>3, <2>2
    <3> QED
      BY <1>5, <2>2, <3>1 DEF Quiet, Holds
  <2> QED
    BY <2>1, <2>2
<1>8. Reading'
  <2>1. Shown' = Shown
    BY <1>3, HostStays DEF Shown, View
  <2>2. ASSUME recon.stage = "read", recon.fresh, recon.response.uid = recon.uid,
               held'[recon.uid] # None
        PROVE  held'[recon.uid].rv <= recon.response.rv
    BY <1>5, <2>2 DEF Reading
  <2>3. ASSUME recon.stage = "read", snapshots = recon.snapshots, recon.fresh,
               recon.response.uid = recon.uid, recon.uid = obj.uid, Silent(wire', recon.uid)
        PROVE  Shown = Now.view
    <3>1. recon.uid # e.uid
      BY <1>1, <1>2, <1>3, <1>4, <2>3 DEF Current
    <3>2. Silent(wire, recon.uid) /\ Mended(wire)
      BY <1>2, <1>3, <2>3, <3>1
    <3> QED
      BY <2>3, <3>2 DEF Reading
  <2> QED
    BY <1>1, <1>3, <2>1, <2>2, <2>3 DEF Reading
<1> QED
  BY <1>6, <1>7, <1>8

\* ... the start of a snapshot ...
LEMMA BeginKeeps ==
    ASSUME Clustered, Stored, Wired, LastIsCurrent, Quiet, Reading,
           UNCHANGED <<host, clusterVars>>, wire # <<>>, wire' = Tail(wire),
           beginSnapshot(Head(wire))
    PROVE  Stored' /\ Quiet' /\ Reading'
<1> DEFINE e == Head(wire)
<1>1. /\ wire' \in Seq(Events) /\ Mended(wire')
      /\ Now' = Now /\ Docs' = Docs /\ Events' = Events /\ Resources' = Resources
      /\ obj' = obj /\ uids' = uids
  BY TailKeeps, Still
<1>2. /\ WireHolds(Now, e)
      /\ \A u : Silent(wire', u) /\ u # e.uid => Silent(wire, u)
      /\ Mended(wire) <=> e.type # "reset"
  BY HeadTells
<1>3. /\ e.type = "reset" /\ held' = held /\ recon' = recon
      /\ seen' = {} /\ snapshots' = snapshots + 1
  BY DEF beginSnapshot
<1> HIDE DEF e
<1>4. e.uid = 0
  BY <1>2, <1>3 DEF WireHolds
<1>5. Stored'
  BY <1>1, <1>3 DEF Stored
<1>6. Quiet'
  <2> SUFFICES ASSUME NEW u \in Uids, Silent(wire', u)
               PROVE  u # obj.uid /\ ~(seen' = Closed \/ u \in seen')
    BY <1>1 DEF Quiet
  <2>1. Silent(wire, u) /\ ~Mended(wire)
    BY <1>2, <1>3, <1>4 DEF Uids
  <2> QED
    BY <1>3, <2>1 DEF Quiet, Closed
<1>7. Reading'
  <2>1. Shown' = Shown
    BY <1>3, HostStays DEF Shown, View
  <2>2. snapshots' \in Nat /\ recon.snapshots <= snapshots' /\ snapshots' # recon.snapshots
    BY <1>3 DEF Reading, Stored
  <2> QED
    BY <1>1, <1>3, <2>1, <2>2 DEF Reading
<1> QED
  BY <1>5, <1>6, <1>7

\* ... and its end keep store and read right.
LEMMA EndKeeps ==
    ASSUME Clustered, Stored, Wired, LastIsCurrent, Quiet, Reading,
           UNCHANGED <<host, clusterVars>>, wire # <<>>, wire' = Tail(wire),
           endSnapshot(Head(wire))
    PROVE  Stored' /\ Quiet' /\ Reading'
<1> DEFINE e == Head(wire)
<1>1. /\ wire' \in Seq(Events) /\ Mended(wire')
      /\ Now' = Now /\ Docs' = Docs /\ Events' = Events /\ Resources' = Resources
      /\ obj' = obj /\ uids' = uids /\ Now.uid = obj.uid
  BY TailKeeps, Still, NowIs
<1>2. /\ WireHolds(Now, e)
      /\ \A u : Silent(wire', u) /\ u # e.uid => Silent(wire, u)
      /\ Mended(wire) <=> e.type # "reset"
  BY HeadTells
<1>3. /\ e.type = "synced" /\ recon' = recon /\ seen' = Closed /\ snapshots' = snapshots
      /\ held' = IF seen = Closed THEN held
                 ELSE [u \in Uids |-> IF u \in seen THEN held[u] ELSE None]
  BY DEF endSnapshot
<1> HIDE DEF e
<1>4. e.uid = 0 /\ Mended(wire)
  BY <1>2, <1>3 DEF WireHolds
<1>5. /\ held' \in [Uids -> Resources]
      /\ \A u \in Uids : held'[u] = IF seen = Closed \/ u \in seen THEN held[u] ELSE None
  BY <1>3 DEF Stored, Resources
<1>6. Stored'
  BY <1>1, <1>3, <1>5 DEF Stored
<1>7. ASSUME NEW u \in Uids, Silent(wire', u) PROVE Silent(wire, u)
  BY <1>2, <1>4, <1>7 DEF Uids
<1>8. Quiet'
  <2> SUFFICES ASSUME NEW u \in Uids, Silent(wire', u) PROVE Holds(Now, held', u)
    BY <1>1, <1>3 DEF Quiet
  <2>1. IF seen = Closed \/ u \in seen THEN Holds(Now, held, u) ELSE u # obj.uid
    BY <1>4, <1>7 DEF Quiet
  <2> QED
    BY <1>1, <1>5, <2>1 DEF Holds
<1>9. Reading'
  <2>1. Shown' = Shown
    BY <1>3, HostStays DEF Shown, View
  <2>2. ASSUME recon.stage = "read", recon.fresh, recon.response.uid = recon.uid,
               held'[recon.uid] # None
        PROVE  held'[recon.uid].rv <= recon.response.rv
    BY <1>5, <2>2 DEF Reading
  <2>3. recon.stage = "read" /\ Silent(wire', recon.uid) => Silent(wire, recon.uid)
    BY <1>7 DEF Reading
  <2> QED
    BY <1>1, <1>3, <1>4, <2>1, <2>2, <2>3 DEF Reading
<1> QED
  BY <1>6, <1>8, <1>9

-----------------------------------------------------------------------------
\* A captured reconciliation names a resource that is held.
LEMMA CaptureKeeps ==
    ASSUME Clustered, Stored, captureReconciliation
    PROVE  Reading'
<1>1. PICK u \in Uids :
         /\ held[u] # None
         /\ recon' = [stage |-> "asked", uid |-> u, fresh |-> TRUE, snapshots |-> snapshots,
                      response |-> Gone, count |-> recon.count + 1]
  BY DEF captureReconciliation
<1>2. snapshots' = snapshots /\ uids' = uids
  BY DEF captureReconciliation, storeVars, clusterVars
<1>3. u \in 1..uids /\ snapshots \in Nat
  BY <1>1, NowIs DEF Stored, Known
<1>4. Uids' = Uids
  BY DEF Uids
<1> QED
  BY <1>1, <1>2, <1>3, <1>4 DEF Reading

\* One that is over says nothing.
LEMMA ForgottenIsReading ==
    ASSUME Stored, snapshots' = snapshots, NEW n, recon' = [NoRead EXCEPT !.count = n]
    PROVE  Reading'
<1>1. recon' = [stage |-> "idle", uid |-> 0, fresh |-> FALSE, snapshots |-> 0,
                response |-> Gone, count |-> n]
  BY DEF NoRead
<1>2. PICK b \in BOOLEAN :
         recon' = [stage |-> "idle", uid |-> 0, fresh |-> b, snapshots |-> 0,
                   response |-> Gone, count |-> n]
  BY <1>1, Zenon
<1>3. snapshots' \in Nat
  BY DEF Stored
<1>4. recon'.stage = "idle" /\ recon'.snapshots = 0
  BY <1>2
<1>5. recon'.fresh \in BOOLEAN
  BY <1>2
<1>6. recon' = [stage |-> recon'.stage, uid |-> recon'.uid, fresh |-> recon'.fresh,
                snapshots |-> recon'.snapshots, response |-> recon'.response,
                count |-> recon'.count]
  BY <1>2
<1>7. recon'.snapshots \in Nat /\ recon'.snapshots <= snapshots'
  BY <1>3, <1>4
<1> QED
  BY <1>4, <1>5, <1>6, <1>7 DEF Reading

\* The host reads the present.
LEMMA HostReadKeeps ==
    ASSUME Clustered, Stored, Reading, HostRead
    PROVE  Reading'
<1>1. /\ recon.stage = "asked" /\ UNCHANGED <<host, clusterVars>>
      /\ wire' = wire /\ held' = held /\ snapshots' = snapshots
  BY DEF HostRead, storeVars
<1>2. /\ Now' = Now /\ Docs' = Docs /\ obj' = obj /\ uids' = uids /\ host' = host
      /\ Now.uid = obj.uid /\ Now.rv = obj.rv /\ Now.rev = rev /\ Now.uids = uids
      /\ Now.view = View(obj.doc)
  BY <1>1, Still, NowIs
<1>3. CASE obj = Gone
  <2>1. recon' = [NoRead EXCEPT !.count = recon.count]
    BY <1>3 DEF HostRead
  <2> QED
    BY <1>1, <2>1, ForgottenIsReading
<1>4. CASE obj # Gone
  <2>1. recon' = [recon EXCEPT !.stage = "read", !.response = obj]
    BY <1>4 DEF HostRead
  <2>2. /\ recon'.stage = "read" /\ recon'.uid = recon.uid /\ recon'.fresh = recon.fresh
        /\ recon'.snapshots = recon.snapshots /\ recon'.response = obj
        /\ recon' = [stage |-> recon'.stage, uid |-> recon'.uid, fresh |-> recon'.fresh,
                     snapshots |-> recon'.snapshots, response |-> recon'.response,
                     count |-> recon'.count]
    BY <2>1 DEF Reading
  <2>3. obj.uid \in 1..uids /\ obj.rv = rev /\ rev \in Nat /\ obj.doc \in Docs
    BY <1>4 DEF Clustered
  <2>4. Shown' = Now.view
    <3>1. Hidden' = Hidden /\ recon'.response.doc = obj.doc
      BY <1>2, <2>2, HostStays
    <3> QED
      BY <1>2, <3>1 DEF Shown, View
  <2>5. Known(Now, obj.uid, obj.rv, Now.view)
    BY <1>2, <2>3 DEF Known
  <2>6. recon.uid \in 1..uids /\ recon.uid \in Uids /\ recon.fresh \in BOOLEAN
        /\ recon.snapshots \in Nat /\ recon.snapshots <= snapshots
    BY <1>1 DEF Reading
  <2>7. held[recon.uid] # None => held[recon.uid].rv <= rev
    BY <1>2, <2>6 DEF Stored, Known
  <2> QED
    BY <1>1, <1>2, <2>2, <2>3, <2>4, <2>5, <2>6, <2>7 DEF Reading
<1> QED
  BY <1>3, <1>4

\* Merging a read is safe: the guard of captureReconciliation leaves only current ones.
LEMMA ReconcileKeeps ==
    ASSUME Clustered, Stored, Wired, LastIsCurrent, Quiet, Reading, Reconcile
    PROVE  Clustered' /\ Stored' /\ Wired' /\ LastIsCurrent' /\ Quiet' /\ Reading'
<1>1. /\ recon.stage = "read" /\ UNCHANGED <<host, clusterVars>>
      /\ wire' = wire /\ snapshots' = snapshots /\ seen' = seen
      /\ recon' = [NoRead EXCEPT !.count = recon.count]
  BY DEF Reconcile
<1>2. /\ Clustered' /\ Now' = Now /\ Docs' = Docs /\ Events' = Events /\ Resources' = Resources
      /\ obj' = obj /\ Now.uid = obj.uid
  BY <1>1, Still, NowIs
<1>3. Reading'
  BY <1>1, ForgottenIsReading
<1>4. Wired' /\ LastIsCurrent'
  BY <1>1, <1>2 DEF Wired, LastIsCurrent
<1>5. CASE ~StillCurrent
  <2>1. held' = held
    BY <1>5 DEF Reconcile
  <2>2. Stored'
    BY <1>1, <1>2, <2>1 DEF Stored
  <2>3. Quiet'
    BY <1>1, <1>2, <2>1 DEF Quiet
  <2> QED
    BY <1>2, <1>3, <1>4, <2>2, <2>3
<1>6. CASE StillCurrent
  <2> DEFINE new == [rv |-> recon.response.rv, view |-> Shown]
             v == recon.uid
  <2>1. seen = Closed /\ snapshots = recon.snapshots /\ recon.response.uid = v
        /\ held[v] # None /\ recon.fresh /\ v \in Uids
    BY <1>1, <1>6 DEF StillCurrent, Reading
  <2>2. held' = [held EXCEPT ![v] = new]
    BY <1>6, <2>1 DEF Reconcile, upsert, Shown
  <2>3. Known(Now, v, new.rv, new.view) /\ recon.response.doc \in Docs
    BY <1>1, <2>1 DEF Reading
  <2>4. new \in Resources /\ new # None
    <3>1. Shown \in Docs /\ recon.response.rv \in Nat
      BY <2>3, ViewsAreDocs DEF Shown, Known
    <3> QED
      BY <3>1, Held DEF Resources
  <2>5. new.view = Shown
    OBVIOUS
  <2> HIDE DEF new
  <2>6. held' \in [Uids -> Resources] /\ held'[v] = new
        /\ \A u \in Uids \ {v} : held'[u] = held[u]
    BY <2>1, <2>2, <2>4 DEF Stored
  <2>7. Stored'
    BY <1>1, <1>2, <2>3, <2>4, <2>6 DEF Stored
  <2>8. Quiet'
    <3> SUFFICES ASSUME NEW u \in Uids, Silent(wire, u)
                 PROVE  IF Mended(wire) THEN Holds(Now, held', u) ELSE u # obj.uid
      BY <1>1, <1>2, <2>1 DEF Quiet
    <3>1. IF Mended(wire) THEN Holds(Now, held, u) ELSE u # obj.uid
      BY <2>1 DEF Quiet
    <3>2. CASE u # v
      BY <2>6, <3>1, <3>2 DEF Holds
    <3>3. CASE u = v /\ Mended(wire)
      <4>1. u = obj.uid
        BY <1>2, <2>1, <3>1, <3>3 DEF Holds
      <4>2. Shown = Now.view
        BY <1>1, <2>1, <3>3, <4>1 DEF Reading
      <4> QED
        BY <1>2, <2>4, <2>5, <2>6, <3>3, <4>1, <4>2 DEF Holds
    <3> QED
      BY <3>1, <3>2, <3>3
  <2> QED
    BY <1>2, <1>3, <1>4, <2>7, <2>8
<1> QED
  BY <1>5, <1>6

-----------------------------------------------------------------------------
\* A validated patch leaves a machinery path as it was, or leaves {} there.
LEMMA MachineryUntouched ==
    ASSUME NEW doc, NEW patch, validatePatchObject(patch, machineryPaths),
           NEW q \in machineryPaths, q \in DOMAIN doc
    PROVE  MergePatch(doc, patch)[q] = doc[q] \/ MergePatch(doc, patch)[q] = Empty
<1>1. CASE ~ \E p \in DOMAIN patch : IsPrefix(p, q)
  BY <1>1 DEF MergePatch
<1>2. CASE \E p \in DOMAIN patch : IsPrefix(p, q)
  <2> DEFINE p == CHOOSE c \in DOMAIN patch : IsPrefix(c, q)
  <2>1. p \in DOMAIN patch /\ IsPrefix(p, q)
    BY <1>2
  <2>2. MergePatch(doc, patch)[q] = MergeLeaf(doc[q], patch, p, q)
    BY <1>2 DEF MergePatch
  <2> HIDE DEF p
  <2>3. patch[p] = Empty
    BY <2>1 DEF validatePatchObject, pointersOverlap
  <2>4. Empty # Null
    BY DEF Empty, Null
  <2> QED
    BY <2>2, <2>3, <2>4 DEF MergeLeaf
<1> QED
  BY <1>1, <1>2

\* A patched document is a document, ...
LEMMA MergedIsDoc ==
    ASSUME NEW doc \in Docs, NEW patch,
           \A p \in DOMAIN patch : patch[p] \in Values \cup {Null}
    PROVE  MergePatch(doc, patch) \in Docs
<1>1. DOMAIN doc = Leaves /\ \A q \in Leaves : doc[q] \in Values
  BY DEF Docs
<1>2. ASSUME NEW q \in Leaves PROVE MergePatch(doc, patch)[q] \in Values
  <2>1. CASE ~ \E p \in DOMAIN patch : IsPrefix(p, q)
    BY <1>1, <2>1 DEF MergePatch
  <2>2. CASE \E p \in DOMAIN patch : IsPrefix(p, q)
    <3> DEFINE p == CHOOSE c \in DOMAIN patch : IsPrefix(c, q)
    <3>1. p \in DOMAIN patch
      BY <2>2
    <3>2. MergePatch(doc, patch)[q] = MergeLeaf(doc[q], patch, p, q)
      BY <1>1, <2>2 DEF MergePatch
    <3> HIDE DEF p
    <3>3. Absent \in Values
      BY DEF Values
    <3> QED
      BY <1>1, <3>1, <3>2, <3>3 DEF MergeLeaf
  <2> QED
    BY <2>1, <2>2
<1>3. MergePatch(doc, patch) = [q \in Leaves |-> MergePatch(doc, patch)[q]]
  BY <1>1 DEF MergePatch
<1> HIDE DEF MergePatch
<1> QED
  BY <1>2, <1>3 DEF Docs

\* ... also as the API server has it.
LEMMA PatchedIsDoc ==
    ASSUME obj.doc \in Docs, NEW i,
           \A p \in DOMAIN i.patch : i.patch[p] \in Values \cup {Null}
    PROVE  Patched(i) \in Docs
<1> DEFINE doc == MergePatch(obj.doc, i.patch)
<1>1. doc \in Docs
  BY MergedIsDoc
<1>2. Patched(i) = [doc EXCEPT ![Phase] = obj.doc[Phase]]
  BY DEF Patched
<1>3. Phase \in Leaves
  BY DEF Leaves
<1> HIDE DEF doc
<1> QED
  BY <1>1, <1>2, <1>3 DEF Docs

\* A validated patch that the API server accepts leaves the hidden leaves alone.
LEMMA PatchedKeepsHidden ==
    ASSUME obj.doc \in Docs, NEW i, validatePatchObject(i.patch, machineryPaths),
           \A p \in DOMAIN i.patch : i.patch[p] \in Values \cup {Null},
           Acceptable(Patched(i))
    PROVE  Patched(i)[LastApplied] = obj.doc[LastApplied] /\ Patched(i)[Phase] = obj.doc[Phase]
<1> DEFINE doc == MergePatch(obj.doc, i.patch)
<1>1. doc \in Docs
  BY MergedIsDoc
<1>2. Patched(i) = [doc EXCEPT ![Phase] = obj.doc[Phase]]
  BY DEF Patched
<1>3. Phase \in Leaves /\ LastApplied \in Leaves /\ LastApplied # Phase
      /\ LastApplied \in machineryPaths
  BY DEF Leaves, machineryPaths, LastApplied, Phase
<1>4. doc[LastApplied] = obj.doc[LastApplied] \/ doc[LastApplied] = Empty
  <2>1. LastApplied \in DOMAIN obj.doc
    BY <1>3 DEF Docs
  <2> QED
    BY <1>3, <2>1, MachineryUntouched
<1> HIDE DEF doc
<1>5. DOMAIN doc = Leaves
  BY <1>1 DEF Docs
<1>6. Patched(i)[Phase] = obj.doc[Phase] /\ Patched(i)[LastApplied] = doc[LastApplied]
      /\ DOMAIN Patched(i) = Leaves
  BY <1>2, <1>3, <1>5
<1>7. doc[LastApplied] # Empty
  BY <1>3, <1>6 DEF Acceptable
<1> QED
  BY <1>4, <1>6, <1>7

-----------------------------------------------------------------------------
\* The fields of a record after a step, ...
LEMMA RecordStep ==
    ASSUME NEW s, Whole(s), NEW x
    PROVE  [s EXCEPT !.stage = x]
             = [stage |-> x, intent |-> s.intent, answer |-> s.answer, landed |-> s.landed]
<1>1. PICK t : t = [s EXCEPT !.stage = x]
  OBVIOUS
<1>2. Whole(t) /\ t.stage = x /\ t.intent = s.intent /\ t.answer = s.answer /\ t.landed = s.landed
  BY <1>1 DEF Whole
<1> QED
  BY <1>1, <1>2 DEF Whole

\* ... a send, ...
LEMMA RecordSend ==
    ASSUME NEW s, Whole(s), NEW x, NEW y
    PROVE  [s EXCEPT !.stage = x, !.intent = y]
             = [stage |-> x, intent |-> y, answer |-> s.answer, landed |-> s.landed]
<1>1. PICK t : t = [s EXCEPT !.stage = x, !.intent = y]
  OBVIOUS
<1>2. Whole(t) /\ t.stage = x /\ t.intent = y /\ t.answer = s.answer /\ t.landed = s.landed
  BY <1>1 DEF Whole
<1> QED
  BY <1>1, <1>2 DEF Whole

\* ... a lost answer, ...
LEMMA RecordLose ==
    ASSUME NEW s, Whole(s), NEW x, NEW y
    PROVE  [s EXCEPT !.stage = x, !.answer = y]
             = [stage |-> x, intent |-> s.intent, answer |-> y, landed |-> s.landed]
<1>1. PICK t : t = [s EXCEPT !.stage = x, !.answer = y]
  OBVIOUS
<1>2. Whole(t) /\ t.stage = x /\ t.intent = s.intent /\ t.answer = y /\ t.landed = s.landed
  BY <1>1 DEF Whole
<1> QED
  BY <1>1, <1>2 DEF Whole

\* ... a save that landed, ...
LEMMA RecordLand ==
    ASSUME NEW s, Whole(s), NEW x, NEW y, NEW z
    PROVE  [s EXCEPT !.stage = x, !.answer = y, !.landed = z]
             = [stage |-> x, intent |-> s.intent, answer |-> y, landed |-> z]
<1>1. PICK t : t = [s EXCEPT !.stage = x, !.answer = y, !.landed = z]
  OBVIOUS
<1>2. Whole(t) /\ t.stage = x /\ t.intent = s.intent /\ t.answer = y /\ t.landed = z
  BY <1>1 DEF Whole
<1> QED
  BY <1>1, <1>2 DEF Whole

\* ... and an answer.
LEMMA RecordAnswer ==
    ASSUME NEW s, Whole(s), NEW x, NEW y, NEW z
    PROVE  [s EXCEPT !.stage = x, !.answer = y, !.intent = z]
             = [stage |-> x, intent |-> z, answer |-> y, landed |-> s.landed]
<1>1. PICK t : t = [s EXCEPT !.stage = x, !.answer = y, !.intent = z]
  OBVIOUS
<1>2. Whole(t) /\ t.stage = x /\ t.answer = y /\ t.landed = s.landed /\ t.intent = z
  BY <1>1 DEF Whole
<1> QED
  BY <1>1, <1>2 DEF Whole

\* The same of the requests: a send, ...
LEMMA SendIs ==
    ASSUME Saves, NEW q \in Attempts, NEW i, Send(q, i)
    PROVE  /\ save[q].stage = "idle"
           /\ save' = [save EXCEPT ![q] = [stage |-> "sent", intent |-> i,
                                           answer |-> save[q].answer, landed |-> save[q].landed]]
<1>1. save = [r \in Attempts |-> save[r]] /\ Whole(save[q])
  BY DEF Saves, SaveHolds
<1>2. save[q].stage = "idle"
      /\ save' = [save EXCEPT ![q].stage = "sent", ![q].intent = i]
  BY DEF Send
<1>3. save' = [save EXCEPT ![q] = [save[q] EXCEPT !.stage = "sent", !.intent = i]]
  BY <1>1, <1>2
<1>4. [save[q] EXCEPT !.stage = "sent", !.intent = i]
         = [stage |-> "sent", intent |-> i, answer |-> save[q].answer, landed |-> save[q].landed]
  BY <1>1, RecordSend
<1> QED
  BY <1>2, <1>3, <1>4

\* ... a step, ...
LEMMA StepIs ==
    ASSUME Saves, NEW q \in Attempts, NEW stage, Step(q, stage)
    PROVE  save' = [save EXCEPT ![q] = [stage |-> stage, intent |-> save[q].intent,
                                        answer |-> save[q].answer, landed |-> save[q].landed]]
<1>1. Whole(save[q])
  BY DEF Saves, SaveHolds
<1>2. save' = [save EXCEPT ![q] = [save[q] EXCEPT !.stage = stage]]
  BY DEF Step
<1> QED
  BY <1>1, <1>2, RecordStep

\* ... an answer, ...
LEMMA AnswerIs ==
    ASSUME Saves, NEW q \in Attempts, NEW answer, Answer(q, answer)
    PROVE  save' = [save EXCEPT ![q] = [stage |-> "answered",
                                        intent |-> [uid |-> save[q].intent.uid,
                                                    rv |-> save[q].intent.rv],
                                        answer |-> answer, landed |-> save[q].landed]]
<1>1. Whole(save[q])
  BY DEF Saves, SaveHolds
<1>2. save' = [save EXCEPT ![q] =
                  [save[q] EXCEPT !.stage = "answered", !.answer = answer,
                                  !.intent = [uid |-> save[q].intent.uid,
                                              rv |-> save[q].intent.rv]]]
  BY DEF Answer
<1>3. \A z : [save[q] EXCEPT !.stage = "answered", !.answer = answer, !.intent = z]
                = [stage |-> "answered", intent |-> z, answer |-> answer,
                   landed |-> save[q].landed]
  BY <1>1, RecordAnswer
<1> QED
  BY <1>2, <1>3, Zenon

\* ... a save that landed, ...
LEMMA LandIs ==
    ASSUME Saves, NEW q \in Attempts, NEW answer,
           save' = [save EXCEPT ![q] = [@ EXCEPT !.stage = "answered", !.answer = answer,
                                                 !.landed = TRUE]]
    PROVE  save' = [save EXCEPT ![q] = [stage |-> "answered", intent |-> save[q].intent,
                                        answer |-> answer, landed |-> TRUE]]
<1>1. Whole(save[q])
  BY DEF Saves, SaveHolds
<1>2. \A z : [save[q] EXCEPT !.stage = "answered", !.answer = answer, !.landed = z]
                = [stage |-> "answered", intent |-> save[q].intent, answer |-> answer,
                   landed |-> z]
  BY <1>1, RecordLand
<1>3. [save[q] EXCEPT !.stage = "answered", !.answer = answer, !.landed = TRUE]
         = [stage |-> "answered", intent |-> save[q].intent, answer |-> answer, landed |-> TRUE]
  BY <1>2, Zenon
<1> QED
  BY <1>3, Zenon

\* ... and a lost answer.
LEMMA LoseIs ==
    ASSUME Saves, NEW q \in Attempts,
           save' = [save EXCEPT ![q].stage = "answered", ![q].answer = "unknown"]
    PROVE  save' = [save EXCEPT ![q] = [stage |-> "answered", intent |-> save[q].intent,
                                        answer |-> "unknown", landed |-> save[q].landed]]
<1>1. save = [r \in Attempts |-> save[r]] /\ Whole(save[q])
  BY DEF Saves, SaveHolds
<1>2. save' = [save EXCEPT ![q] = [save[q] EXCEPT !.stage = "answered", !.answer = "unknown"]]
  BY <1>1
<1>3. [save[q] EXCEPT !.stage = "answered", !.answer = "unknown"]
         = [stage |-> "answered", intent |-> save[q].intent, answer |-> "unknown",
            landed |-> save[q].landed]
  BY <1>1, RecordLose
<1> QED
  BY <1>2, <1>3

-----------------------------------------------------------------------------
\* Sending what was on display keeps the requests in order, ...
LEMMA SendKeeps ==
    ASSUME Clustered, Saves, UNCHANGED <<host, clusterVars>>, NEW q \in Attempts, NEW i,
           Send(q, i), Intended(Now, i)
    PROVE  Saves'
<1> DEFINE s == [stage |-> "sent", intent |-> i,
                 answer |-> save[q].answer, landed |-> save[q].landed]
<1>1. Clustered' /\ Now' = Now /\ Moves(Now, Now')
  BY Still
<1>2. save[q].stage = "idle" /\ save' = [save EXCEPT ![q] = s]
  BY SendIs
<1>3. save[q].landed \in BOOLEAN /\ ~save[q].landed
  BY <1>2 DEF Saves, SaveHolds
<1>4. SaveHolds(Now, s)
  BY <1>3 DEF SaveHolds, Whole, Intended, Known
<1> HIDE DEF s
<1> QED
  BY <1>1, <1>2, <1>4, SaveChanged

\* ... so does a step of a checked or outdated one, ...
LEMMA StepKeeps ==
    ASSUME Clustered, Saves, UNCHANGED <<host, clusterVars>>, NEW q \in Attempts,
           NEW stage \in {"patch", "recheck"}, Step(q, stage),
           save[q].stage \in {"sent", "patch"},
           stage = "patch" => validatePatchObject(save[q].intent.patch, machineryPaths),
           stage = "recheck" => Past(Now, save[q].intent)
    PROVE  Saves'
<1> DEFINE s == [stage |-> stage, intent |-> save[q].intent,
                 answer |-> save[q].answer, landed |-> save[q].landed]
<1>1. Clustered' /\ Now' = Now /\ Moves(Now, Now')
  BY Still
<1>2. save' = [save EXCEPT ![q] = s]
  BY StepIs
<1>3. save[q].landed \in BOOLEAN /\ ~save[q].landed /\ SaveHolds(Now, save[q])
  BY DEF Saves, SaveHolds
<1>4. Intended(Now, save[q].intent)
  BY <1>3 DEF SaveHolds, Live
<1>5. SaveHolds(Now, s)
  BY <1>3, <1>4 DEF SaveHolds, Whole, Intended, Known
<1> HIDE DEF s
<1> QED
  BY <1>1, <1>2, <1>5, SaveChanged

\* ... an answer that is true now, ...
LEMMA AnswerKeeps ==
    ASSUME Clustered, Saves, UNCHANGED <<host, clusterVars>>, NEW q \in Attempts,
           NEW answer \in {"replaced", "notfound", "conflict"}, Answer(q, answer),
           save[q].stage \in {"sent", "patch", "recheck"},
           answer # "conflict" => Now.uid # save[q].intent.uid,
           answer = "conflict" => Past(Now, save[q].intent)
    PROVE  Saves'
<1> DEFINE s == [stage |-> "answered",
                 intent |-> [uid |-> save[q].intent.uid, rv |-> save[q].intent.rv],
                 answer |-> answer, landed |-> save[q].landed]
<1>1. Clustered' /\ Now' = Now /\ Moves(Now, Now')
  BY Still
<1>2. save' = [save EXCEPT ![q] = s]
  BY AnswerIs
<1>3. save[q].landed \in BOOLEAN /\ ~save[q].landed /\ SaveHolds(Now, save[q])
  BY DEF Saves, SaveHolds
<1>4. save[q].intent.uid \in 1..Now.uids /\ save[q].intent.rv \in Nat
      /\ save[q].intent.rv <= Now.rev
  BY <1>3 DEF SaveHolds
<1>5. SaveHolds(Now, s)
  BY <1>3, <1>4 DEF SaveHolds, Whole, Live, Past
<1> HIDE DEF s
<1> QED
  BY <1>1, <1>2, <1>5, SaveChanged

\* ... a refusal, ...
LEMMA RefuseKeeps ==
    ASSUME Clustered, Saves, UNCHANGED <<host, clusterVars>>, NEW q \in Attempts, Refuse(q)
    PROVE  Saves'
<1>1. Clustered' /\ Now' = Now /\ Moves(Now, Now')
  BY Still
<1>2. save' = [save EXCEPT ![q] = Idle]
  BY DEF Refuse
<1>3. SaveHolds(Now, Idle)
  BY DEF SaveHolds, Whole, Idle, Live
<1> QED
  BY <1>1, <1>2, <1>3, SaveChanged

\* ... a lost answer, ...
LEMMA LoseKeeps ==
    ASSUME Clustered, Saves, UNCHANGED <<host, clusterVars>>, NEW q \in Attempts,
           save' = [save EXCEPT ![q].stage = "answered", ![q].answer = "unknown"],
           save[q].stage = "patch"
    PROVE  Saves'
<1> DEFINE s == [stage |-> "answered", intent |-> save[q].intent,
                 answer |-> "unknown", landed |-> save[q].landed]
<1>1. Clustered' /\ Now' = Now /\ Moves(Now, Now')
  BY Still
<1>2. save' = [save EXCEPT ![q] = s]
  BY LoseIs
<1>3. save[q].landed \in BOOLEAN /\ ~save[q].landed /\ SaveHolds(Now, save[q])
  BY DEF Saves, SaveHolds
<1>4. Intended(Now, save[q].intent)
  BY <1>3 DEF SaveHolds, Live
<1>5. SaveHolds(Now, s)
  BY <1>3, <1>4 DEF SaveHolds, Whole, Intended, Known
<1> HIDE DEF s
<1> QED
  BY <1>1, <1>2, <1>5, SaveChanged

\* ... and a save that lands: its version is past from then on.
LEMMA LandKeeps ==
    ASSUME Clustered, Saves, NEW q \in Attempts, save[q].stage = "patch",
           obj # Gone, obj.rv = save[q].intent.rv, host' = host,
           Commit(Patched(save[q].intent)), NEW answer \in {"saved", "unknown"},
           save' = [save EXCEPT ![q] = [@ EXCEPT !.stage = "answered", !.answer = answer,
                                                 !.landed = TRUE]]
    PROVE  ClusterStep /\ Saves'
<1> DEFINE s == [stage |-> "answered", intent |-> save[q].intent,
                 answer |-> answer, landed |-> TRUE]
<1>1. save' = [save EXCEPT ![q] = s]
  BY LandIs
<1>2. SaveHolds(Now, save[q])
  BY DEF Saves
<1>3. Intended(Now, save[q].intent) /\ save[q].intent.uid \in 1..Now.uids
      /\ save[q].intent.rv \in Nat /\ save[q].intent.rv <= Now.rev
  BY <1>2 DEF SaveHolds, Live
<1>4. Patched(save[q].intent) \in Docs
  BY <1>3, PatchedIsDoc DEF Clustered, Intended
<1>5. ClusterStep
  BY <1>4, CommitIsClusterStep
<1>6. Clustered' /\ Moves(Now, Now') /\ Bounded(Now) /\ Bounded(Now')
  <2>1. Clustered' => Bounded(Now)'
    BY NowBounded, PTL
  <2> QED
    BY <1>5, <2>1, NowBounded DEF ClusterStep, Bounded
<1>7. SaveHolds(Now', save[q])
  BY <1>2, <1>6, SaveKept
<1>8. Intended(Now', save[q].intent) /\ save[q].intent.uid \in 1..Now'.uids
      /\ save[q].intent.rv \in Nat /\ save[q].intent.rv <= Now'.rev
  BY <1>7 DEF SaveHolds, Live
<1>9. Past(Now', save[q].intent)
  <2>1. obj = [uid |-> obj.uid, rv |-> rev, doc |-> obj.doc] /\ rev \in Nat
    BY DEF Clustered
  <2>2. obj'.rv = rev + 1
    BY <2>1 DEF Commit
  <2>3. Now'.rv = rev + 1 /\ Now.rev = rev
    BY <2>2 DEF Now
  <2> QED
    BY <1>3, <2>1, <2>3 DEF Past
<1>10. SaveHolds(Now', s)
  <2>1. \A yes \in BOOLEAN :
           SaveHolds(Now', [stage |-> "answered", intent |-> save[q].intent,
                            answer |-> answer, landed |-> yes])
           \/ ~yes
    BY <1>8, <1>9 DEF SaveHolds, Whole
  <2> QED
    BY <2>1, Zenon
<1> HIDE DEF s
<1>11. Saves'
  BY <1>1, <1>6, <1>10, SaveChanged
<1> QED
  BY <1>5, <1>11

-----------------------------------------------------------------------------
\* The store's part of the invariant.
Others == Stored /\ Wired /\ LastIsCurrent /\ Quiet /\ Reading

\* The store and the wire when the cluster moves on, ...
LEMMA ClusterKeepsOthers ==
    ASSUME Clustered, Others, ClusterStep, UNCHANGED <<storeVars, recon>>
    PROVE  Clustered' /\ Others'
<1>1. UNCHANGED storeVars
  OBVIOUS
<1>2. Clustered'
  BY DEF ClusterStep
<1>3. Stored' /\ Wired' /\ LastIsCurrent' /\ Quiet' /\ Reading'
  BY <1>1, ClusterKeepsStored, ClusterKeepsWired, ClusterKeepsLast, ClusterKeepsQuiet,
     ClusterKeepsReading DEF Others
<1> QED
  BY <1>2, <1>3 DEF Others

\* ... when nothing does, ...
LEMMA StillKeepsOthers ==
    ASSUME Clustered, Others, UNCHANGED <<host, clusterVars, wire, storeVars, recon>>
    PROVE  Clustered' /\ Others'
BY StillKeepsStore, StillKeepsReading DEF Others

\* ... and when an event is applied.
LEMMA DeliverKeeps ==
    ASSUME Clustered, Others, Deliver
    PROVE  Clustered' /\ Others'
<1>1. UNCHANGED <<host, clusterVars>> /\ wire # <<>> /\ wire' = Tail(wire)
  BY DEF Deliver
<1>2. Clustered'
  BY <1>1, Still
<1>3. Wired' /\ LastIsCurrent'
  BY <1>1, TailKeeps DEF Others
<1>4. Stored' /\ Quiet' /\ Reading'
  <2>1. CASE applyServerEvent(Head(wire))
    BY <1>1, <2>1, UpsertKeeps DEF Others
  <2>2. CASE removeResource(Head(wire))
    BY <1>1, <2>2, RemoveKeeps DEF Others
  <2>3. CASE beginSnapshot(Head(wire))
    BY <1>1, <2>3, BeginKeeps DEF Others
  <2>4. CASE endSnapshot(Head(wire))
    BY <1>1, <2>4, EndKeeps DEF Others
  <2> QED
    BY <2>1, <2>2, <2>3, <2>4 DEF Deliver
<1> QED
  BY <1>2, <1>3, <1>4 DEF Others

-----------------------------------------------------------------------------
\* Steps that are a request's alone.
Alone == UNCHANGED <<host, clusterVars, wire, storeVars, recon>>

\* captureSave captures what is on display.
LEMMA CaptureSaveKeeps ==
    ASSUME Clustered, Saves, Stored, NEW q \in Attempts, captureSave(q)
    PROVE  Saves' /\ Alone
<1>1. PICK u \in Uids :
         /\ held[u] # None
         /\ \E p \in {At(Content, v) : v \in Vals \ {held[u].view[Content]}} \cup OtherPatches :
               Send(q, [uid |-> u, rv |-> held[u].rv, patch |-> p,
                        conditional |-> p # At(<<"metadata">>, Null), base |-> held[u].view])
  BY DEF captureSave
<1>2. PICK p \in {At(Content, v) : v \in Vals \ {held[u].view[Content]}} \cup OtherPatches :
         Send(q, [uid |-> u, rv |-> held[u].rv, patch |-> p,
                  conditional |-> p # At(<<"metadata">>, Null), base |-> held[u].view])
  BY <1>1
<1>3. PICK c \in BOOLEAN :
         Send(q, [uid |-> u, rv |-> held[u].rv, patch |-> p, conditional |-> c,
                  base |-> held[u].view])
  BY <1>2, Zenon
<1> DEFINE i == [uid |-> u, rv |-> held[u].rv, patch |-> p, conditional |-> c,
                 base |-> held[u].view]
<1>4. Known(Now, u, held[u].rv, held[u].view)
  BY <1>1 DEF Stored
<1>5. \A leaf \in DOMAIN p : p[leaf] \in Values \cup {Null}
  BY <1>2 DEF OtherPatches, At, Values
<1>6. Intended(Now, i)
  BY <1>4, <1>5 DEF Intended
<1>7. Send(q, i)
  BY <1>3
<1> HIDE DEF i
<1>8. Alone
  BY <1>7 DEF Send, Alone
<1>9. Saves'
  BY <1>6, <1>7, <1>8, SendKeeps DEF Alone
<1> QED
  BY <1>8, <1>9

\* A resend sends what was captured then.
LEMMA ResendKeeps ==
    ASSUME Clustered, Saves, NEW q \in Attempts, Resend(q)
    PROVE  Saves' /\ Alone
<1>1. PICK r \in Attempts \ {q} :
         /\ save[r].stage \notin {"idle", "answered"} \/ save[r].answer \in {"saved", "unknown"}
         /\ Send(q, save[r].intent)
  BY DEF Resend
<1>2. Intended(Now, save[r].intent)
  BY <1>1 DEF Saves, SaveHolds, Live
<1>3. Alone
  BY <1>1 DEF Send, Alone
<1>4. Saves'
  BY <1>1, <1>2, <1>3, SendKeeps DEF Alone
<1> QED
  BY <1>3, <1>4

\* What the preflight GET finds is true, and a request it lets through is valid.
LEMMA PreflightKeeps ==
    ASSUME Clustered, Saves, NEW q \in Attempts, Preflight(q)
    PROVE  Saves' /\ Alone
<1>1. save[q].stage = "sent"
  BY DEF Preflight
<1>2. Now.uid = obj.uid /\ SaveHolds(Now, save[q])
  BY NowIs DEF Saves
<1>3. CASE obj = Gone /\ Answer(q, "notfound")
  <2>1. Now.uid # save[q].intent.uid
    BY <1>1, <1>2, <1>3, Constants DEF SaveHolds
  <2>2. Alone
    BY <1>3 DEF Answer, Alone
  <2>3. Saves'
    BY <1>1, <1>3, <2>1, <2>2, AnswerKeeps DEF Alone
  <2> QED
    BY <2>2, <2>3
<1>4. CASE Refuse(q)
  BY <1>4, RefuseKeeps DEF Refuse, Alone
<1>5. CASE save[q].intent.uid # obj.uid /\ Answer(q, "replaced")
  <2>1. Alone
    BY <1>5 DEF Answer, Alone
  <2>2. Saves'
    BY <1>1, <1>2, <1>5, <2>1, AnswerKeeps DEF Alone
  <2> QED
    BY <2>1, <2>2
<1>6. CASE /\ ValidateMergePatch(host.projection, save[q].intent.patch)
           /\ Step(q, "patch")
  <2>1. validatePatchObject(save[q].intent.patch, machineryPaths)
    BY <1>6 DEF ValidateMergePatch, validatePatchObject, projectionProtectedPaths
  <2>2. Alone
    BY <1>6 DEF Step, Alone
  <2>3. Saves'
    BY <1>1, <1>6, <2>1, <2>2, StepKeeps DEF Alone
  <2> QED
    BY <2>2, <2>3
<1> QED
  BY <1>3, <1>4, <1>5, <1>6, Zenon DEF Preflight

\* What the native proxy forwards is valid.
LEMMA ForwardKeeps ==
    ASSUME Clustered, Saves, NEW q \in Attempts, Forward(q)
    PROVE  Saves' /\ Alone
<1>1. save[q].stage = "sent"
  BY DEF Forward
<1>2. CASE Refuse(q)
  BY <1>2, RefuseKeeps DEF Refuse, Alone
<1>3. CASE /\ ValidateNativeMergePatch(save[q].intent.patch, save[q].intent.conditional)
           /\ Step(q, "patch")
  <2>1. validatePatchObject(save[q].intent.patch, machineryPaths)
    BY <1>3 DEF ValidateNativeMergePatch
  <2>2. Alone
    BY <1>3 DEF Step, Alone
  <2>3. Saves'
    BY <1>1, <1>3, <2>1, <2>2, StepKeeps DEF Alone
  <2> QED
    BY <2>2, <2>3
<1> QED
  BY <1>2, <1>3, Zenon DEF Forward

\* The second look only tells apart what is past.
LEMMA RecheckKeeps ==
    ASSUME Clustered, Saves, NEW q \in Attempts, Recheck(q)
    PROVE  Saves' /\ Alone
<1>1. save[q].stage = "recheck"
  BY DEF Recheck
<1>2. Now.uid = obj.uid /\ SaveHolds(Now, save[q])
  BY NowIs DEF Saves
<1>3. Past(Now, save[q].intent) /\ save[q].intent.uid \in 1..Now.uids
  BY <1>1, <1>2 DEF SaveHolds
<1>4. PICK answer \in {"notfound", "replaced", "conflict"} :
         /\ Answer(q, answer)
         /\ answer # "conflict" => Now.uid # save[q].intent.uid
  <2>1. CASE Answer(q, "conflict")
    BY <2>1
  <2>2. CASE obj = Gone /\ Answer(q, "notfound")
    BY <1>2, <1>3, <2>2, Constants
  <2>3. CASE obj.uid # save[q].intent.uid /\ Answer(q, "replaced")
    BY <1>2, <2>3
  <2> QED
    BY <2>1, <2>2, <2>3, Zenon DEF Recheck
<1>5. Alone
  BY <1>4 DEF Answer, Alone
<1>6. Saves'
  BY <1>1, <1>3, <1>4, <1>5, AnswerKeeps DEF Alone
<1> QED
  BY <1>5, <1>6

\* The PATCH: written, or nothing but the request's own business.
LEMMA PatchKeeps ==
    ASSUME Clustered, Saves, NEW q \in Attempts, Patch(q)
    PROVE  /\ Saves'
           /\ Alone \/ (ClusterStep /\ UNCHANGED <<storeVars, recon>>)
<1> DEFINE i == save[q].intent
<1>1. save[q].stage = "patch"
  BY DEF Patch
<1>2. Now.uid = obj.uid /\ Now.rv = obj.rv /\ SaveHolds(Now, save[q])
  BY NowIs DEF Saves
<1>3. CASE obj = Gone /\ Answer(q, "notfound")
  <2>1. Now.uid # save[q].intent.uid
    BY <1>1, <1>2, <1>3, Constants DEF SaveHolds
  <2>2. Alone
    BY <1>3 DEF Answer, Alone
  <2>3. Saves'
    BY <1>1, <1>3, <2>1, <2>2, AnswerKeeps DEF Alone
  <2> QED
    BY <2>2, <2>3
<1>4. CASE /\ save' = [save EXCEPT ![q].stage = "answered", ![q].answer = "unknown"]
           /\ Alone
  BY <1>1, <1>4, LoseKeeps DEF Alone
<1>5. CASE Refuse(q)
  BY <1>5, RefuseKeeps DEF Refuse, Alone
<1>6. CASE /\ obj.rv # Precondition(i) \/ obj.uid # i.uid
           /\ IF host.route = "native" THEN Answer(q, "conflict") ELSE Step(q, "recheck")
  <2>1. Past(Now, save[q].intent)
    BY <1>2, <1>6 DEF Past, Precondition
  <2>2. CASE Answer(q, "conflict")
    <3>1. Alone
      BY <2>2 DEF Answer, Alone
    <3> QED
      BY <1>1, <2>1, <2>2, <3>1, AnswerKeeps DEF Alone
  <2>3. CASE Step(q, "recheck")
    <3>1. Alone
      BY <2>3 DEF Step, Alone
    <3> QED
      BY <1>1, <2>1, <2>3, <3>1, StepKeeps DEF Alone
  <2> QED
    BY <1>6, <2>2, <2>3
<1>7. CASE /\ obj # Gone /\ obj.rv = Precondition(i)
           /\ Commit(Patched(i))
           /\ \E answer \in {"saved", "unknown"} :
                 save' = [save EXCEPT ![q] = [@ EXCEPT !.stage = "answered", !.answer = answer,
                                                       !.landed = TRUE]]
           /\ UNCHANGED <<host, storeVars, recon>>
  <2>1. PICK answer \in {"saved", "unknown"} :
           save' = [save EXCEPT ![q] = [@ EXCEPT !.stage = "answered", !.answer = answer,
                                                 !.landed = TRUE]]
    BY <1>7
  <2>2. obj # Gone /\ obj.rv = save[q].intent.rv /\ host' = host
        /\ Commit(Patched(save[q].intent)) /\ UNCHANGED <<storeVars, recon>>
    BY <1>7 DEF Precondition
  <2>3. ClusterStep /\ Saves'
    BY <1>1, <2>1, <2>2, LandKeeps
  <2> QED
    BY <2>2, <2>3
<1> QED
  BY <1>3, <1>4, <1>5, <1>6, <1>7, Zenon DEF Patch, Alone

-----------------------------------------------------------------------------
\* The invariant holds at first, ...
LEMMA InitHolds == Init => IInv
<1> SUFFICES ASSUME Init PROVE IInv
  OBVIOUS
<1>1. obj = Fresh(1, 1) /\ rev = 1 /\ uids = 1 /\ host \in Hosts /\ 1 \in Uids
  BY BoundsAssumption DEF Init, Uids
<1>2. obj = [uid |-> 1, rv |-> 1, doc |-> obj.doc] /\ obj.doc \in Docs
  BY <1>1 DEF Fresh, Docs, Values
<1>3. Clustered
  BY <1>1, <1>2 DEF Clustered
<1>4. Now.uid = 1 /\ Now.rv = 1 /\ Now.view = View(obj.doc) /\ Now.rev = 1 /\ Now.uids = 1
  BY <1>1, <1>2, NowIs
<1>5. Saves
  <2>1. SaveHolds(Now, Idle)
    BY DEF SaveHolds, Whole, Idle, Live
  <2>2. save = [q \in Attempts |-> Idle]
    BY DEF Init
  <2> QED
    BY <2>1, <2>2 DEF Saves
<1> DEFINE new == [rv |-> 1, view |-> View(obj.doc)]
<1>6. new \in Resources /\ new # None /\ new.rv = 1 /\ new.view = View(obj.doc)
  <2>1. View(obj.doc) \in Docs
    BY <1>2, ViewsAreDocs
  <2>2. new \in [rv : Nat, view : Docs]
    BY <2>1
  <2> QED
    BY <2>2, Held DEF Resources
<1>7. held = [u \in Uids |-> IF u = 1 THEN new ELSE None]
  BY DEF Init
<1> HIDE DEF new
<1>8. wire = <<>> /\ snapshots = 1 /\ seen = Closed
  BY DEF Init
<1>9. wire \in Seq(Events) /\ DOMAIN wire = {}
  BY <1>8
<1>10. held \in [Uids -> Resources]
  BY <1>6, <1>7 DEF Resources
<1>11. ASSUME NEW u \in Uids, held[u] # None PROVE Known(Now, u, held[u].rv, held[u].view)
  <2>1. u = 1 /\ held[u] = new
    BY <1>7, <1>11
  <2> QED
    BY <1>4, <1>6, <2>1 DEF Known
<1>12. Stored
  BY <1>8, <1>9, <1>10, <1>11 DEF Stored
<1>13. Wired /\ LastIsCurrent
  BY <1>9 DEF Wired, LastIsCurrent
<1>14. Quiet
  <2>1. Mended(wire)
    BY <1>9 DEF Mended
  <2>2. ASSUME NEW u \in Uids PROVE Holds(Now, held, u)
    BY <1>4, <1>6, <1>7 DEF Holds
  <2> QED
    BY <1>8, <2>1, <2>2 DEF Quiet
<1>15. Reading
  <2>1. recon = [stage |-> "idle", uid |-> 0, fresh |-> FALSE, snapshots |-> 0,
                 response |-> Gone, count |-> 0]
    BY DEF Init, NoRead
  <2>2. PICK b \in BOOLEAN :
           recon = [stage |-> "idle", uid |-> 0, fresh |-> b, snapshots |-> 0,
                    response |-> Gone, count |-> 0]
    BY <2>1, Zenon
  <2>3. recon.stage = "idle" /\ recon.snapshots = 0
    BY <2>2
  <2>4. recon.fresh \in BOOLEAN
    BY <2>2
  <2>5. recon = [stage |-> recon.stage, uid |-> recon.uid, fresh |-> recon.fresh,
                 snapshots |-> recon.snapshots, response |-> recon.response,
                 count |-> recon.count]
    BY <2>2
  <2>6. recon.snapshots \in Nat /\ recon.snapshots <= snapshots
    BY <1>8, <2>3
  <2> QED
    BY <2>3, <2>4, <2>5, <2>6 DEF Reading
<1> QED
  BY <1>3, <1>5, <1>12, <1>13, <1>14, <1>15 DEF IInv

\* ... and every step keeps it.
LEMMA NextKeeps == IInv /\ [Next]_vars => IInv'
<1> SUFFICES ASSUME IInv, [Next]_vars PROVE IInv'
  OBVIOUS
<1>1. Clustered /\ Saves /\ Others
  BY DEF IInv, Others
<1> SUFFICES Clustered' /\ Saves' /\ Others'
  BY DEF IInv, Others
<1>2. CASE Write \/ Delete \/ Recreate
  <2>1. ClusterStep /\ UNCHANGED <<storeVars, recon, save>>
    BY <1>1, <1>2, WriteIsClusterStep, DeleteIsClusterStep, RecreateIsClusterStep
  <2>2. Moves(Now, Now') /\ save' = save
    BY <2>1 DEF ClusterStep
  <2>3. Clustered' /\ Others'
    BY <1>1, <2>1, ClusterKeepsOthers
  <2> QED
    BY <1>1, <2>2, <2>3, SavesKept
<1>3. ASSUME Clustered', Others', save' = save, UNCHANGED <<host, clusterVars>>
      PROVE  Clustered' /\ Saves' /\ Others'
  BY <1>1, <1>3, Still, SavesKept
<1>4. CASE Resync
  BY <1>1, <1>3, <1>4, ResyncKeeps DEF Others, Resync
<1>5. CASE Deliver
  BY <1>1, <1>3, <1>5, DeliverKeeps DEF Deliver
<1>6. CASE captureReconciliation
  <2>1. UNCHANGED <<host, clusterVars, wire, storeVars>> /\ save' = save
    BY <1>6 DEF captureReconciliation
  <2> QED
    BY <1>1, <1>3, <1>6, <2>1, CaptureKeeps, StillKeepsStore DEF Others
<1>7. CASE HostRead
  <2>1. UNCHANGED <<host, clusterVars, wire, storeVars>> /\ save' = save
    BY <1>7 DEF HostRead
  <2> QED
    BY <1>1, <1>3, <1>7, <2>1, HostReadKeeps, StillKeepsStore DEF Others
<1>8. CASE Reconcile
  BY <1>1, <1>3, <1>8, ReconcileKeeps DEF Others, Reconcile
<1>9. ASSUME Saves', Alone PROVE Clustered' /\ Saves' /\ Others'
  BY <1>1, <1>9, StillKeepsOthers DEF Alone
<1>10. ASSUME NEW q \in Attempts, captureSave(q) PROVE Clustered' /\ Saves' /\ Others'
  BY <1>1, <1>9, <1>10, CaptureSaveKeeps DEF Others
<1>11. ASSUME NEW q \in Attempts, Resend(q) PROVE Clustered' /\ Saves' /\ Others'
  BY <1>1, <1>9, <1>11, ResendKeeps
<1>12. ASSUME NEW q \in Attempts, Preflight(q) PROVE Clustered' /\ Saves' /\ Others'
  BY <1>1, <1>9, <1>12, PreflightKeeps
<1>13. ASSUME NEW q \in Attempts, Forward(q) PROVE Clustered' /\ Saves' /\ Others'
  BY <1>1, <1>9, <1>13, ForwardKeeps
<1>14. ASSUME NEW q \in Attempts, Patch(q) PROVE Clustered' /\ Saves' /\ Others'
  <2>1. Saves' /\ (Alone \/ (ClusterStep /\ UNCHANGED <<storeVars, recon>>))
    BY <1>1, <1>14, PatchKeeps
  <2>2. CASE Alone
    BY <1>9, <2>1, <2>2
  <2>3. CASE ClusterStep /\ UNCHANGED <<storeVars, recon>>
    BY <1>1, <2>1, <2>3, ClusterKeepsOthers
  <2> QED
    BY <2>1, <2>2, <2>3, Zenon
<1>15. ASSUME NEW q \in Attempts, Recheck(q) PROVE Clustered' /\ Saves' /\ Others'
  BY <1>1, <1>9, <1>15, RecheckKeeps
<1>16. CASE UNCHANGED vars
  <2>1. UNCHANGED <<host, clusterVars, wire, storeVars, recon>> /\ save' = save
    BY <1>16 DEF vars
  <2>2. Clustered' /\ Others'
    BY <1>1, <2>1, StillKeepsOthers
  <2> QED
    BY <1>3, <2>1, <2>2
<1> QED
  BY <1>2, <1>4, <1>5, <1>6, <1>7, <1>8, <1>10, <1>11, <1>12, <1>13, <1>14, <1>15, <1>16
  DEF Next

\* The invariant holds of every reachable state.
THEOREM Invariant == Spec => []IInv
BY InitHolds, NextKeeps, PTL DEF Spec

\* AnswersAreTrue, for any number of requests and writers: what a save endpoint
\* answered stays true whatever happens to the object afterwards.
THEOREM AnswersTrue == Spec => []AnswersAreTrue
<1>1. IInv => AnswersAreTrue
  <2> SUFFICES ASSUME IInv, NEW q \in Attempts, save[q].stage = "answered"
               PROVE  /\ save[q].answer = "saved" => save[q].landed
                      /\ save[q].landed => save[q].answer \in {"saved", "unknown"}
                      /\ save[q].answer \in {"replaced", "notfound"}
                            => obj.uid # save[q].intent.uid
                      /\ save[q].answer = "conflict"
                            => obj.uid # save[q].intent.uid \/ obj.rv # save[q].intent.rv
    BY DEF AnswersAreTrue
  <2>1. SaveHolds(Now, save[q])
    BY DEF IInv, Saves
  <2> QED
    BY <2>1, NowIs DEF SaveHolds, Past
<1> QED
  BY <1>1, Invariant, PTL

\* DrainedIsCurrent, for any history of the object: a store that has applied its stream
\* shows the cluster, whichever reads captureReconciliation merged.
THEOREM Drained == Spec => []DrainedIsCurrent
<1>1. IInv => DrainedIsCurrent
  <2> SUFFICES ASSUME IInv, wire = <<>>, seen = Closed, NEW u \in Uids
               PROVE  IF u = obj.uid THEN held[u] # None /\ held[u].view = View(obj.doc)
                      ELSE held[u] = None
    BY DEF DrainedIsCurrent
  <2>1. Silent(wire, u) /\ Mended(wire)
    BY DEF Silent, Mended
  <2>2. Holds(Now, held, u)
    BY <2>1 DEF IInv, Quiet
  <2> QED
    BY <2>2, NowIs DEF Holds
<1> QED
  BY <1>1, Invariant, PTL

-----------------------------------------------------------------------------
\* A step that lands nothing in one record lands nothing.
LEMMA OneRecord ==
    ASSUME Saves, NEW q \in Attempts, NEW s, save' = [save EXCEPT ![q] = s],
           s.landed => save[q].landed, NEW r \in Attempts, save'[r].landed
    PROVE  save[r].landed
<1>1. save = [p \in Attempts |-> save[p]]
  BY DEF Saves
<1>2. CASE r = q
  BY <1>1, <1>2
<1>3. CASE r # q
  BY <1>1, <1>3
<1> QED
  BY <1>2, <1>3

\* None of these lands a save, ...
LEMMA Unlanded ==
    ASSUME Saves, NEW q \in Attempts, NEW r \in Attempts, save'[r].landed,
           \/ \E i : Send(q, i)
           \/ \E stage : Step(q, stage)
           \/ \E answer : Answer(q, answer)
           \/ Refuse(q)
           \/ save' = [save EXCEPT ![q].stage = "answered", ![q].answer = "unknown"]
    PROVE  save[r].landed
<1>1. ASSUME NEW i, Send(q, i) PROVE save[r].landed
  <2> DEFINE s == [stage |-> "sent", intent |-> i,
                   answer |-> save[q].answer, landed |-> save[q].landed]
  <2>1. save' = [save EXCEPT ![q] = s]
    BY <1>1, SendIs
  <2>2. s.landed => save[q].landed
    OBVIOUS
  <2> HIDE DEF s
  <2> QED
    BY <2>1, <2>2, OneRecord
<1>2. ASSUME NEW stage, Step(q, stage) PROVE save[r].landed
  <2> DEFINE s == [stage |-> stage, intent |-> save[q].intent,
                   answer |-> save[q].answer, landed |-> save[q].landed]
  <2>1. save' = [save EXCEPT ![q] = s]
    BY <1>2, StepIs
  <2>2. s.landed => save[q].landed
    OBVIOUS
  <2> HIDE DEF s
  <2> QED
    BY <2>1, <2>2, OneRecord
<1>3. ASSUME NEW answer, Answer(q, answer) PROVE save[r].landed
  <2> DEFINE s == [stage |-> "answered",
                   intent |-> [uid |-> save[q].intent.uid, rv |-> save[q].intent.rv],
                   answer |-> answer, landed |-> save[q].landed]
  <2>1. save' = [save EXCEPT ![q] = s]
    BY <1>3, AnswerIs
  <2>2. s.landed => save[q].landed
    OBVIOUS
  <2> HIDE DEF s
  <2> QED
    BY <2>1, <2>2, OneRecord
<1>4. CASE Refuse(q)
  <2>1. save' = [save EXCEPT ![q] = Idle]
    BY <1>4 DEF Refuse
  <2>2. ~Idle.landed
    BY DEF Idle
  <2> QED
    BY <2>1, <2>2, OneRecord
<1>5. CASE save' = [save EXCEPT ![q].stage = "answered", ![q].answer = "unknown"]
  <2> DEFINE s == [stage |-> "answered", intent |-> save[q].intent,
                   answer |-> "unknown", landed |-> save[q].landed]
  <2>1. save' = [save EXCEPT ![q] = s]
    BY <1>5, LoseIs
  <2>2. s.landed => save[q].landed
    OBVIOUS
  <2> HIDE DEF s
  <2> QED
    BY <2>1, <2>2, OneRecord
<1> QED
  BY <1>1, <1>2, <1>3, <1>4, <1>5

\* The only step by which a save lands.
Lands(q) ==
    /\ save[q].stage = "patch"
    /\ obj # Gone /\ Acceptable(Patched(save[q].intent))
    /\ obj.rv = save[q].intent.rv /\ obj.uid = save[q].intent.uid
    /\ Commit(Patched(save[q].intent))

\* ... so that a save lands by a conditional PATCH that found its preconditions met.
LEMMA OnlyLands ==
    ASSUME IInv, Next, NEW r \in Attempts, save'[r].landed, ~save[r].landed
    PROVE  Lands(r)
<1>1. Saves
  BY DEF IInv
<1>2. ASSUME save' = save PROVE FALSE
  BY <1>2
<1>3. ASSUME NEW q \in Attempts, captureSave(q) PROVE FALSE
  <2>1. \E i : Send(q, i)
    BY <1>3, Zenon DEF captureSave
  <2> QED
    BY <1>1, <2>1, Unlanded
<1>4. ASSUME NEW q \in Attempts, Resend(q) PROVE FALSE
  <2>1. \E i : Send(q, i)
    BY <1>4, Zenon DEF Resend
  <2> QED
    BY <1>1, <2>1, Unlanded
<1>5. ASSUME NEW q \in Attempts, Preflight(q) PROVE FALSE
  <2>1. Refuse(q) \/ (\E stage : Step(q, stage)) \/ (\E answer : Answer(q, answer))
    BY <1>5, Zenon DEF Preflight
  <2> QED
    BY <1>1, <2>1, Unlanded
<1>6. ASSUME NEW q \in Attempts, Forward(q) PROVE FALSE
  <2>1. Refuse(q) \/ (\E stage : Step(q, stage))
    BY <1>6, Zenon DEF Forward
  <2> QED
    BY <1>1, <2>1, Unlanded
<1>7. ASSUME NEW q \in Attempts, Recheck(q) PROVE FALSE
  <2>1. \E answer : Answer(q, answer)
    BY <1>7, Zenon DEF Recheck
  <2> QED
    BY <1>1, <2>1, Unlanded
<1>8. ASSUME NEW q \in Attempts, Patch(q) PROVE Lands(r)
  <2>1. CASE \/ Refuse(q) \/ (\E stage : Step(q, stage)) \/ (\E answer : Answer(q, answer))
             \/ save' = [save EXCEPT ![q].stage = "answered", ![q].answer = "unknown"]
    BY <1>1, <2>1, Unlanded
  <2>2. CASE /\ obj # Gone /\ Acceptable(Patched(save[q].intent))
             /\ obj.rv = Precondition(save[q].intent) /\ obj.uid = save[q].intent.uid
             /\ Commit(Patched(save[q].intent))
             /\ \E answer \in {"saved", "unknown"} :
                   save' = [save EXCEPT ![q] = [@ EXCEPT !.stage = "answered",
                                                         !.answer = answer, !.landed = TRUE]]
    <3>1. q = r
      <4>1. PICK s : save' = [save EXCEPT ![q] = s]
        BY <2>2
      <4>2. save = [p \in Attempts |-> save[p]]
        BY <1>1 DEF Saves
      <4> QED
        BY <4>1, <4>2
    <3> QED
      BY <1>8, <2>2, <3>1 DEF Lands, Patch, Precondition
  <2> QED
    BY <1>8, <2>1, <2>2, Zenon DEF Patch
<1>9. CASE Write \/ Delete \/ Recreate
  <2>1. save' = save
    BY <1>9 DEF Write, Delete, Recreate
  <2> QED
    BY <1>2, <2>1
<1>10. CASE Resync \/ Deliver \/ captureReconciliation \/ HostRead \/ Reconcile
  <2>1. save' = save
    BY <1>10 DEF Resync, Deliver, captureReconciliation, HostRead, Reconcile
  <2> QED
    BY <1>2, <2>1
<1> QED
  BY <1>3, <1>4, <1>5, <1>6, <1>7, <1>8, <1>9, <1>10 DEF Next

\* NoLostUpdate, for any number of requests: a save lands on what its author saw, once,
\* and touches nothing hidden.  Every landing goes through the precondition on the version.
THEOREM LandsRightly == Spec => NoLostUpdate
<1> DEFINE Right == \A q \in Attempts :
              save'[q].landed /\ ~save[q].landed =>
                  /\ obj.uid = save[q].intent.uid
                  /\ View(obj.doc) = save[q].intent.base
                  /\ \A p \in Hidden \cup {LastApplied, Phase} : obj'.doc[p] = obj.doc[p]
                  /\ \A r \in Attempts \ {q} :
                        save[r].intent = save[q].intent => ~save[r].landed
<1>1. IInv /\ [Next]_vars => [Right]_vars
  <2> SUFFICES ASSUME IInv, Next, NEW q \in Attempts, save'[q].landed, ~save[q].landed
               PROVE  /\ obj.uid = save[q].intent.uid
                      /\ View(obj.doc) = save[q].intent.base
                      /\ \A p \in Hidden \cup {LastApplied, Phase} : obj'.doc[p] = obj.doc[p]
                      /\ \A r \in Attempts \ {q} :
                            save[r].intent = save[q].intent => ~save[r].landed
    OBVIOUS
  <2>1. Lands(q)
    BY OnlyLands
  <2>2. SaveHolds(Now, save[q]) /\ Clustered
    BY DEF IInv, Saves
  <2>3. /\ Intended(Now, save[q].intent)
        /\ validatePatchObject(save[q].intent.patch, machineryPaths)
    BY <2>1, <2>2 DEF SaveHolds, Live, Lands
  <2>4. obj.uid = save[q].intent.uid /\ obj.rv = save[q].intent.rv
    BY <2>1 DEF Lands
  <2>5. View(obj.doc) = save[q].intent.base
    BY <2>3, <2>4, NowIs DEF Intended, Known
  <2>6. ASSUME NEW p \in Hidden \cup {LastApplied, Phase} PROVE obj'.doc[p] = obj.doc[p]
    <3>1. obj = [uid |-> obj.uid, rv |-> rev, doc |-> obj.doc] /\ obj.doc \in Docs
      BY <2>1, <2>2 DEF Clustered, Lands
    <3>2. obj'.doc = Patched(save[q].intent)
      BY <2>1, <3>1 DEF Lands, Commit
    <3>3. p \in {LastApplied, Phase}
      BY <2>6 DEF Hidden
    <3> QED
      BY <2>1, <2>3, <3>1, <3>2, <3>3, PatchedKeepsHidden DEF Lands, Intended
  <2>7. ASSUME NEW r \in Attempts \ {q}, save[r].intent = save[q].intent, save[r].landed
        PROVE  FALSE
    <3>1. SaveHolds(Now, save[r])
      BY DEF IInv, Saves
    <3>2. Past(Now, save[r].intent)
      BY <2>7, <3>1 DEF SaveHolds
    <3> QED
      BY <2>4, <2>7, <3>2, NowIs DEF Past
  <2> QED
    BY <2>4, <2>5, <2>6, <2>7
<1> QED
  BY <1>1, Invariant, PTL DEF Spec, NoLostUpdate

\* OnlyTheStreamGoesBack, for any interleaving of reads, events and snapshots: a merged
\* read never takes a resource back.
THEOREM NeverBack == Spec => OnlyTheStreamGoesBack
<1> DEFINE Forth == \A u \in Uids :
              held'[u] # held[u] /\ Len(wire') >= Len(wire) =>
                  held[u] # None /\ held'[u] # None /\ held'[u].rv >= held[u].rv
<1>1. IInv /\ [Next]_vars => [Forth]_vars
  <2> SUFFICES ASSUME IInv, Next, NEW u \in Uids, held'[u] # held[u], Len(wire') >= Len(wire)
               PROVE  held[u] # None /\ held'[u] # None /\ held'[u].rv >= held[u].rv
    OBVIOUS
  <2>1. CASE Write \/ Delete \/ Recreate
    BY <2>1 DEF Write, Delete, Recreate, storeVars
  <2>2. CASE Resync \/ captureReconciliation \/ HostRead
    BY <2>2 DEF Resync, captureReconciliation, HostRead, storeVars
  <2>3. CASE Deliver
    <3>1. wire \in Seq(Events) /\ wire # <<>> /\ wire' = Tail(wire)
      BY <2>3 DEF IInv, Stored, Deliver
    <3>2. Len(wire') = Len(wire) - 1 /\ Len(wire) \in Nat
      BY <3>1
    <3> QED
      BY <3>2
  <2>4. CASE Reconcile
    <3>1. recon.stage = "read" /\ StillCurrent
          /\ held' = [held EXCEPT ![recon.uid] = [rv |-> recon.response.rv, view |-> Shown]]
      BY <2>4 DEF Reconcile, upsert, Shown, StillCurrent
    <3>2. held \in [Uids -> Resources] /\ recon.uid \in Uids
      BY <3>1 DEF IInv, Stored, Reading
    <3>3. u = recon.uid /\ held'[u] = [rv |-> recon.response.rv, view |-> Shown]
      BY <3>1, <3>2
    <3>4. held[u] # None /\ held[u].rv <= recon.response.rv
      BY <3>1, <3>3 DEF IInv, Reading, StillCurrent
    <3>5. recon.response.rv \in Nat /\ held[u].rv \in Nat
      BY <3>1, <3>4 DEF IInv, Reading, Stored, Known
    <3>6. held'[u] # None /\ held'[u].rv = recon.response.rv
      BY <3>3, Held
    <3> QED
      BY <3>4, <3>5, <3>6
  <2>5. ASSUME NEW q \in Attempts,
               captureSave(q) \/ Resend(q) \/ Preflight(q) \/ Forward(q) \/ Patch(q) \/ Recheck(q)
        PROVE  FALSE
    <3>1. Clustered /\ Saves /\ Stored
      BY DEF IInv
    <3>2. Alone \/ UNCHANGED <<storeVars, recon>>
      BY <2>5, <3>1, CaptureSaveKeeps, ResendKeeps, PreflightKeeps, ForwardKeeps, PatchKeeps,
         RecheckKeeps
    <3> QED
      BY <3>2 DEF Alone, storeVars
  <2> QED
    BY <2>1, <2>2, <2>3, <2>4, <2>5 DEF Next
<1> QED
  BY <1>1, Invariant, PTL DEF Spec, OnlyTheStreamGoesBack
=============================================================================
