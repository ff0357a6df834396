----------------------------- MODULE SaveFlow -----------------------------
(***************************************************************************)
(* Saving an edit.  The store of packages/krm-stream/src/store.ts follows   *)
(* one named object through a stream, captures what the user changed, and   *)
(* reconciles a read with what the stream brought meanwhile.  A host sends  *)
(* the captured save on as a conditional merge patch: the conditional-save  *)
(* example, the comparison host's save endpoint, or its native proxy.       *)
(* Other writers change, delete and recreate the object under its name      *)
(* between any two of these steps.                                          *)
(*                                                                          *)
(* The object is one editable leaf, kubectl's last-applied annotation, and  *)
(* a Widget's status.  How a draft of many leaves merges is DraftMerge's    *)
(* subject, how the stream is produced StreamLoop's.                        *)
(***************************************************************************)
EXTENDS Naturals, FiniteSets, TLC, PatchGuard

CONSTANTS
    Attempts,      \* requests to the save endpoint
    Vals,          \* what a leaf may hold
    MaxRev,        \* bound: writes to the cluster
    MaxUid,        \* bound: incarnations of the object
    MaxSnapshots,  \* bound: snapshots after the first
    MaxReads       \* bound: reads for reconciliation

ASSUME BoundsAssumption ==
    {MaxRev, MaxUid, MaxSnapshots, MaxReads} \subseteq Nat /\ MaxUid > 0

VARIABLES
    host,       \* which endpoint the editor uses, and the projection it shows
    obj,        \* the object the cluster has under the name, or Gone
    rev,        \* the cluster's resourceVersion counter
    uids,       \* incarnations so far
    wire,       \* events of the stream the store has not yet applied
    held,       \* LiveResourceStore.#resources
    snapshots,  \* #snapshotRevision
    seen,       \* #seen, Closed when no snapshot is open
    recon,      \* a captured reconciliation and the read it waits for
    save        \* the save requests

clusterVars == <<obj, rev, uids>>
storeVars   == <<held, snapshots, seen>>
vars == <<host, clusterVars, wire, storeVars, recon, save>>

Uids == 1..MaxUid
None == <<>>
Closed == {0}
Gone == [uid |-> 0, rv |-> 0, doc |-> None]

\* The save endpoint also serves krm-full/v1, which the first of these has as well.
Hosts == {[route |-> "conditionalsave", projection |-> "krm-full/v1"],
          [route |-> "save", projection |-> "krm-spec/v1"],
          [route |-> "native", projection |-> "none"]}

Content == <<IF host.route = "conditionalsave" THEN "data" ELSE "spec", "note">>
Phase == <<"status", "phase">>
Leaves == {Content, LastApplied, Phase}

\* An object as it is created: a ConfigMap has no status.
Fresh(u, rv) ==
    LET v == CHOOSE v \in Vals : TRUE IN
    [uid |-> u, rv |-> rv,
     doc |-> [p \in Leaves |-> IF p = Phase /\ host.route = "conditionalsave" THEN Absent
                               ELSE v]]

\* project: what the stream, and a host's GET, show of an object.
Hidden == CASE host.projection = "none" -> {}
            [] host.projection = "krm-full/v1" -> {LastApplied}
            [] OTHER -> {LastApplied, Phase}
View(doc) == [p \in DOMAIN doc |-> IF p \in Hidden THEN Absent ELSE doc[p]]

\* captureSave's result is a SaveRequest; base is what the author saw (history), and
\* conditional is whether it names a UID and a version.
Idle == [stage |-> "idle", intent |-> None, answer |-> "none", landed |-> FALSE]

\* A captured reconciliation.  Resource.revision comes from a counter of the whole store
\* and never repeats, so all there is to say of the captured one is whether it is still
\* the resource's.
NoRead == [stage |-> "idle", uid |-> 0, fresh |-> FALSE, snapshots |-> 0,
           response |-> Gone, count |-> 0]

Upsert(o) == [type |-> "upsert", uid |-> o.uid, rv |-> o.rv, view |-> View(o.doc)]
Marker(type, u) == [type |-> type, uid |-> u, rv |-> 0, view |-> None]

Init ==
    /\ host \in Hosts
    /\ obj = Fresh(1, 1)
    /\ rev = 1 /\ uids = 1
    /\ wire = <<>>
    /\ held = [u \in Uids |-> IF u = 1 THEN [rv |-> 1, view |-> View(obj.doc)]
                              ELSE None]
    /\ snapshots = 1 /\ seen = Closed
    /\ recon = NoRead
    /\ save = [q \in Attempts |-> Idle]

-----------------------------------------------------------------------------
\* The cluster, and the stream of it.  The gateway suppresses an event that changes
\* nothing its projection shows.

Commit(doc) ==
    /\ obj' = [obj EXCEPT !.rv = rev + 1, !.doc = doc]
    /\ rev' = rev + 1 /\ UNCHANGED uids
    /\ wire' = IF View(doc) = View(obj.doc) THEN wire ELSE Append(wire, Upsert(obj'))

Write ==
    /\ obj # Gone /\ rev < MaxRev
    /\ \E p \in {Content, IF host.route = "conditionalsave" THEN LastApplied ELSE Phase},
          v \in Vals :
          obj.doc[p] # v /\ Commit([obj.doc EXCEPT ![p] = v])
    /\ UNCHANGED <<host, storeVars, recon, save>>

Delete ==
    /\ obj # Gone /\ rev < MaxRev
    /\ obj' = Gone /\ rev' = rev + 1
    /\ wire' = Append(wire, Marker("deleted", obj.uid))
    /\ UNCHANGED <<host, uids, storeVars, recon, save>>

Recreate ==
    /\ obj = Gone /\ rev < MaxRev /\ uids < MaxUid
    /\ obj' = Fresh(uids + 1, rev + 1)
    /\ rev' = rev + 1 /\ uids' = uids + 1
    /\ wire' = Append(wire, Upsert(obj'))
    /\ UNCHANGED <<host, storeVars, recon, save>>

\* The connection is lost with what it had not delivered, and the next one begins with
\* a snapshot.
Resync ==
    /\ snapshots < MaxSnapshots + 1
    /\ \A i \in DOMAIN wire : wire[i].type # "reset"
    /\ wire' = <<Marker("reset", 0)>>
               \o (IF obj = Gone THEN <<>> ELSE <<Upsert(obj)>>)
               \o <<Marker("synced", 0)>>
    /\ UNCHANGED <<host, clusterVars, storeVars, recon, save>>

-----------------------------------------------------------------------------
\* The store.

\* #upsert: the server object is replaced, with a new revision.  The draft is not kept:
\* captureSave saves any it could be.
upsert(u, rv, view) ==
    held' = [held EXCEPT ![u] = [rv |-> rv, view |-> view]]

applyServerEvent(e) ==
    /\ e.type = "upsert"
    /\ upsert(e.uid, e.rv, e.view)
    /\ seen' = IF seen = Closed THEN seen ELSE seen \cup {e.uid}
    /\ recon' = [recon EXCEPT !.fresh = @ /\ recon.uid # e.uid]
    /\ UNCHANGED snapshots

removeResource(e) ==
    /\ e.type = "deleted"
    /\ held' = [held EXCEPT ![e.uid] = None]
    /\ UNCHANGED <<snapshots, seen, recon>>

beginSnapshot(e) ==
    /\ e.type = "reset"
    /\ snapshots' = snapshots + 1 /\ seen' = {}
    /\ UNCHANGED <<held, recon>>

endSnapshot(e) ==
    /\ e.type = "synced"
    /\ held' = IF seen = Closed THEN held
               ELSE [u \in Uids |-> IF u \in seen THEN held[u] ELSE None]
    /\ seen' = Closed
    /\ UNCHANGED <<snapshots, recon>>

Deliver ==
    /\ wire # <<>>
    /\ LET e == Head(wire) IN
          applyServerEvent(e) \/ removeResource(e) \/ beginSnapshot(e) \/ endSnapshot(e)
    /\ wire' = Tail(wire)
    /\ UNCHANGED <<host, clusterVars, save>>

captureReconciliation ==
    /\ recon.stage = "idle" /\ recon.count < MaxReads
    /\ \E u \in Uids :
          /\ held[u] # None
          /\ recon' = [stage |-> "asked", uid |-> u, fresh |-> TRUE,
                       snapshots |-> snapshots, response |-> Gone, count |-> recon.count + 1]
    /\ UNCHANGED <<host, clusterVars, wire, storeVars, save>>

\* The host answers a GET, or says there is no such object.
HostRead ==
    /\ recon.stage = "asked"
    /\ recon' = IF obj = Gone THEN [NoRead EXCEPT !.count = recon.count]
                ELSE [recon EXCEPT !.stage = "read", !.response = obj]
    /\ UNCHANGED <<host, clusterVars, wire, storeVars, save>>

\* The guard of the function captureReconciliation returns.
AnyRevision ==
    /\ seen = Closed /\ snapshots = recon.snapshots
    /\ recon.response.uid = recon.uid /\ held[recon.uid] # None
AnyUid == held[recon.uid] # None /\ recon.fresh /\ seen = Closed /\ snapshots = recon.snapshots

StillCurrent ==
    /\ seen = Closed
    /\ snapshots = recon.snapshots
    /\ recon.response.uid = recon.uid
    /\ held[recon.uid] # None /\ recon.fresh

Reconcile ==
    /\ recon.stage = "read"
    /\ IF StillCurrent
       THEN upsert(recon.response.uid, recon.response.rv, View(recon.response.doc))
       ELSE UNCHANGED held
    /\ recon' = [NoRead EXCEPT !.count = recon.count]
    /\ UNCHANGED <<host, clusterVars, wire, snapshots, seen, save>>

-----------------------------------------------------------------------------
\* The save request.

\* A patch of one leaf.
At(p, v) == [leaf \in {p} |-> v]

\* What else a caller of an endpoint may put in a save request.
OtherPatches == {At(LastApplied, Empty), At(<<"metadata", "annotations">>, Null),
                 At(<<"metadata">>, Null), At(Status, Null)}

Send(q, intent) ==
    /\ save[q].stage = "idle"
    /\ save' = [save EXCEPT ![q].stage = "sent", ![q].intent = intent]
    /\ UNCHANGED <<host, clusterVars, wire, storeVars, recon>>

\* An editor serializes its saves (docs/saving.md): it captures the next one when the
\* last was answered.
captureSave(q) ==
    \E u \in Uids :
        /\ \A r \in Attempts : save[r].stage \in {"idle", "answered"}
        /\ held[u] # None
        /\ \E p \in {At(Content, v) : v \in Vals \ {held[u].view[Content]}} \cup OtherPatches :
              Send(q, [uid |-> u, rv |-> held[u].rv, patch |-> p,
                       conditional |-> p # At(<<"metadata">>, Null), base |-> held[u].view])

\* The answer to an attempt was lost, or is late, and the caller sends it again.
Resend(q) ==
    \E r \in Attempts \ {q} :
        /\ save[r].stage \notin {"idle", "answered"} \/ save[r].answer \in {"saved", "unknown"}
        /\ Send(q, save[r].intent)

Step(q, stage) ==
    /\ save' = [save EXCEPT ![q].stage = stage]
    /\ UNCHANGED <<host, clusterVars, wire, storeVars, recon>>
\* A definite answer: of a save that was not made no more than its target is kept.
Answer(q, answer) ==
    /\ LET i == save[q].intent IN
       save' = [save EXCEPT ![q] = [@ EXCEPT !.stage = "answered", !.answer = answer,
                                             !.intent = [uid |-> i.uid, rv |-> i.rv]]]
    /\ UNCHANGED <<host, clusterVars, wire, storeVars, recon>>
\* The request is over and nothing was sent on, or nothing accepted.
Refuse(q) ==
    /\ save' = [save EXCEPT ![q] = Idle]
    /\ UNCHANGED <<host, clusterVars, wire, storeVars, recon>>

\* The host's own edit policy.
Editable(patch) ==
    \A p \in DOMAIN patch :
        \/ host.route = "save" /\ p[1] = "spec"
        \/ host.route = "conditionalsave" /\ p[1] \in {"data", "binaryData"}
        \/ /\ host.route = "conditionalsave" /\ p[1] = "metadata"
           /\ IF Len(p) = 1 THEN patch[p] = Empty ELSE p[2] \in {"labels", "annotations"}

\* The handler up to its PATCH: the preflight GET and what it decides from it.
Preflight(q) ==
    LET i == save[q].intent IN
    /\ save[q].stage = "sent" /\ host.route # "native"
    /\ \/ obj = Gone /\ Answer(q, "notfound")
       \/ Refuse(q)  \* the GET failed
       \/ /\ obj # Gone
          /\ IF ~i.conditional THEN Refuse(q)
             ELSE IF i.uid # obj.uid THEN Answer(q, "replaced")
             ELSE IF Editable(i.patch) /\ ValidateMergePatch(host.projection, i.patch)
             THEN Step(q, "patch")
             ELSE Refuse(q)

\* The native proxy checks the patch and forwards it.
Forward(q) ==
    LET i == save[q].intent IN
    /\ save[q].stage = "sent" /\ host.route = "native"
    /\ IF ValidateNativeMergePatch(i.patch, i.conditional)
       THEN Step(q, "patch") ELSE Refuse(q)

\* What the API server makes of a patch: status is a subresource, and a value must be
\* one its schema has there.
Patched(i) ==
    LET doc == MergePatch(obj.doc, i.patch) IN [doc EXCEPT ![Phase] = obj.doc[Phase]]
Acceptable(doc) == \A p \in DOMAIN doc : doc[p] # Empty

\* The preconditions a host puts in the patch: the version captured with the edit,
\* which Kubernetes compares before the UID.
CurrentVersion(i) == obj.rv
Precondition(i) == i.rv

\* client.Patch, or the forwarded PATCH: the object is gone, refused, conflicting, or
\* written; the answer may be lost on its way back, and the request on its way there.
Patch(q) ==
    LET i == save[q].intent IN
    /\ save[q].stage = "patch"
    /\ \/ obj = Gone /\ Answer(q, "notfound")
       \/ /\ save' = [save EXCEPT ![q].stage = "answered", ![q].answer = "unknown"]
          /\ UNCHANGED <<host, clusterVars, wire, storeVars, recon>>
       \/ /\ obj # Gone /\ ~Acceptable(Patched(i))
          /\ Refuse(q)
       \/ /\ obj # Gone /\ Acceptable(Patched(i))
          /\ obj.rv # Precondition(i) \/ obj.uid # i.uid
          /\ IF host.route = "native" THEN Answer(q, "conflict") ELSE Step(q, "recheck")
       \/ /\ obj # Gone /\ Acceptable(Patched(i)) /\ rev < MaxRev
          /\ obj.rv = Precondition(i) /\ obj.uid = i.uid
          /\ Commit(Patched(i))
          /\ \E answer \in {"saved", "unknown"} :
                save' = [save EXCEPT ![q] = [@ EXCEPT !.stage = "answered", !.answer = answer,
                                                      !.landed = TRUE]]
          /\ UNCHANGED <<host, storeVars, recon>>

\* After a conflict: the object is read once more to tell a newer version from a
\* replacement.
AlwaysReplaced(q) ==
    /\ save[q].stage = "recheck"
    /\ Answer(q, IF obj = Gone THEN "notfound" ELSE "replaced")

Recheck(q) ==
    /\ save[q].stage = "recheck"
    /\ \/ Answer(q, IF obj = Gone THEN "notfound"
                    ELSE IF obj.uid # save[q].intent.uid THEN "replaced"
                    ELSE "conflict")
       \/ Answer(q, "conflict")  \* the read failed: the answer is Kubernetes' own

-----------------------------------------------------------------------------
Next ==
    \/ Write \/ Delete \/ Recreate \/ Resync \/ Deliver
    \/ captureReconciliation \/ HostRead \/ Reconcile
    \/ \E q \in Attempts :
          captureSave(q) \/ Resend(q) \/ Preflight(q) \/ Forward(q) \/ Patch(q) \/ Recheck(q)

Spec == Init /\ [][Next]_vars

\* Attempts are interchangeable.
Symmetry == Permutations(Attempts)

-----------------------------------------------------------------------------
\* A save lands only on the object and the version its author was looking at, at most
\* once however often it is sent, and changes nothing the projection hides: whatever
\* the hosts read, and whoever wrote, between the capture and the PATCH.
NoLostUpdate ==
    [][\A q \in Attempts :
         save'[q].landed /\ ~save[q].landed =>
             /\ obj.uid = save[q].intent.uid
             /\ View(obj.doc) = save[q].intent.base
             /\ \A p \in Hidden \cup {LastApplied, Phase} : obj'.doc[p] = obj.doc[p]
             /\ \A r \in Attempts \ {q} : save[r].intent = save[q].intent => ~save[r].landed]_vars

\* What the host answers stays true: saved means written, every other definite answer
\* means not written; an object reported replaced or missing never comes back, and a
\* conflict is never one that sending the same request again could clear.
AnswersAreTrue ==
    \A q \in Attempts :
        LET s == save[q] IN
        s.stage = "answered" =>
            /\ s.answer = "saved" => s.landed
            /\ s.landed => s.answer \in {"saved", "unknown"}
            /\ s.answer \in {"replaced", "notfound"} => obj.uid # s.intent.uid
            /\ s.answer = "conflict" => obj.uid # s.intent.uid \/ obj.rv # s.intent.rv

\* Only the stream adds a resource to the store or takes one back to an older version:
\* a read that comes late is dropped, whatever event or snapshot overtook it.
OnlyTheStreamGoesBack ==
    [][\A u \in Uids :
         held'[u] # held[u] /\ Len(wire') >= Len(wire) =>
             held[u] # None /\ held'[u] # None /\ held'[u].rv >= held[u].rv]_vars

\* A store that has applied all the stream sent shows what the cluster has: exactly the
\* object of that name, with every visible field up to date, although versions that
\* changed nothing visible were never sent and reads were merged in between.
DrainedIsCurrent ==
    wire = <<>> /\ seen = Closed =>
        \A u \in Uids :
            IF u = obj.uid THEN held[u] # None /\ held[u].view = View(obj.doc)
            ELSE held[u] = None
=============================================================================
