------------------------- MODULE KubeBackendProofs -------------------------
(***************************************************************************)
(* Proofs about KubeBackend, for any number of streams, any scope and any   *)
(* history of the API server: above all, that every stream it opens is one  *)
(* that WatchContract allows.                                               *)
(***************************************************************************)
EXTENDS KubeBackend, SequenceTheorems, FiniteSetTheorems, TLAPS

\* The contract, of any one stream.
Promise(s) == INSTANCE WatchContract WITH phase <- Phase(s), told <- told[s], at <- at[s]

-----------------------------------------------------------------------------
\* The inductive invariant.  What it says of a history l and of a queue q is said as a
\* function of both, so that a step that leaves them alone leaves it alone.

Worlds == [uid : Uids, world : [Uids -> Nat]]
Marks  == {"bookmark", "error", "closed"}
Events == [type : {"added", "modified", "deleted"}, uid : Uids, rv : Nat]
          \cup [type : Marks \cup {"initialEventsEnd"}]

\* The scope's objects at resourceVersion v.
Scope(l, v) == [u \in Uids |-> IF u \in Wanted THEN l[v].world[u] ELSE 0]

\* Each resourceVersion changes one object, and a stretch of the history that changes
\* nothing in scope leaves the scope as it was.
Stepwise(l) ==
    /\ \A v \in 1 .. Len(l) : l[v].world \in [Uids -> 0 .. v]
    /\ \A v \in 2 .. Len(l) : \A u \in Uids : u # l[v].uid => l[v].world[u] = l[v - 1].world[u]
    /\ \A v \in 2 .. Len(l) : l[v].world[l[v].uid] \in {0, v}
Stretches(l) ==
    \A v, w \in 1 .. Len(l) :
        v <= w /\ (\A x \in v + 1 .. w : l[x].uid \notin Wanted) => Scope(l, v) = Scope(l, w)
History(l) == l \in Seq(Worlds) /\ Len(l) \in Revs /\ Stepwise(l) /\ Stretches(l)

\* e is the event of the change at its resourceVersion.
Change(e) == e.type \in {"modified", "deleted"}
Faithful(l, e) ==
    /\ e.uid = l[e.rv].uid
    /\ e.type = (IF l[e.rv].world[e.uid] = 0 THEN "deleted" ELSE "modified")

\* Every change of the scope after v, and no other, is behind place b of q: in order, once.
Live(l, q, b, v) ==
    /\ \A i \in b + 1 .. Len(q) :
          \/ q[i].type \in Marks
          \/ /\ Change(q[i]) /\ q[i].rv \in v + 1 .. Len(l) /\ q[i].uid \in Wanted
             /\ Faithful(l, q[i])
    /\ \A i, j \in b + 1 .. Len(q) :
          i < j /\ Change(q[i]) /\ Change(q[j]) => q[i].rv < q[j].rv
    /\ \A w \in v + 1 .. Len(l) : l[w].uid \in Wanted =>
          \E i \in b + 1 .. Len(q) : Change(q[i]) /\ q[i].rv = w

\* The boundary is at place b of q, and before it exactly the objects of the scope at
\* resourceVersion v that t does not know yet.
Pending(l, q, b, t, v) ==
    /\ b \in 1 .. Len(q) /\ q[b].type = "initialEventsEnd"
    /\ \A i \in 1 .. b - 1 : /\ q[i].type = "added" /\ q[i].uid \in Wanted
                             /\ q[i].rv = l[v].world[q[i].uid] /\ q[i].rv # 0
                             /\ t[q[i].uid] = 0
    /\ \A i, j \in 1 .. b - 1 : i # j => q[i].uid # q[j].uid
    /\ \A u \in Uids : t[u] \in {0, Scope(l, v)[u]}
    /\ \A u \in Uids : Scope(l, v)[u] # 0 /\ t[u] = 0 => \E i \in 1 .. b - 1 : q[i].uid = u

\* A stream that is not open has told nothing.
Quiet(s) ==
    /\ pc[s] # "open" => ~synced[s] /\ told[s] = Nothing /\ feed[s] = <<>>
    /\ pc[s] \notin {"open", "rewatching"} => queue[s] = <<>>
    /\ pc[s] \notin {"idle", "ended"} => at[s] \in 1 .. Now

\* One between its LIST and its WATCH has the snapshot in its queue.
Listed(s) ==
    pc[s] = "rewatching" =>
        /\ list[s] \in 1 .. Now /\ at[s] <= list[s]
        /\ Pending(log, queue[s], Len(queue[s]), Nothing, list[s])

\* An open one is before the boundary, in its queue or in its feed, or behind it.
Opened(s) ==
    pc[s] = "open" =>
        \/ /\ synced[s] /\ queue[s] = <<>>
           /\ told[s] = Scope(log, at[s]) /\ Live(log, feed[s], 0, at[s])
        \/ /\ ~synced[s] /\ queue[s] # <<>>
           /\ Pending(log, queue[s], Len(queue[s]), told[s], at[s])
           /\ Live(log, feed[s], 0, at[s])
        \/ /\ ~synced[s] /\ queue[s] = <<>>
           /\ \E b \in 1 .. Len(feed[s]) : /\ Pending(log, feed[s], b, told[s], at[s])
                                           /\ Live(log, feed[s], b, at[s])

StreamOK(s) ==
    /\ queue[s] \in Seq(Events) /\ feed[s] \in Seq(Events)
    /\ Quiet(s) /\ Listed(s) /\ Opened(s)

\* Who was refused has said so, or is about to.
Memory ==
    /\ listThenWatch => \E s \in Streams : refused[s]
    /\ \A s \in Streams : refused[s] /\ ~listThenWatch => pc[s] = "refused"
    /\ \A s \in Streams : pc[s] = "refused" => refused[s]
    /\ \A s \in Streams : refused[s] => pc[s] # "asking"

\* The variables are functions of the streams (TypeOK without the history).
Shape ==
    /\ streaming \in BOOLEAN /\ listThenWatch \in BOOLEAN
    /\ pc \in [Streams -> {"idle", "asking", "refused", "listing", "rewatching", "open",
                           "ended"}]
    /\ list \in [Streams -> 0 .. Now] /\ at \in [Streams -> 0 .. Now]
    /\ told \in [Streams -> [Uids -> 0 .. Now]]
    /\ synced \in [Streams -> BOOLEAN] /\ refused \in [Streams -> BOOLEAN]
    /\ queue \in [Streams -> Seq(Events)] /\ feed \in [Streams -> Seq(Events)]

IInv == Shape /\ History(log) /\ Memory /\ \A s \in Streams : StreamOK(s)

USE StreamsAssumption, ScopeAssumption, FaultsAssumption, BoundAssumption

-----------------------------------------------------------------------------
\* Queues of events.

\* An event joins a queue at its end, ...
LEMMA AppendEvent ==
    ASSUME NEW q \in Seq(Events), NEW e \in Events
    PROVE  /\ Append(q, e) \in Seq(Events) /\ Len(q) \in Nat
           /\ Len(Append(q, e)) = Len(q) + 1
           /\ \A i \in 1 .. Len(q) : Append(q, e)[i] = q[i]
           /\ Append(q, e)[Len(q) + 1] = e
BY AppendProperties, LenProperties

\* ... and is taken at its head.
LEMMA TailEvent ==
    ASSUME NEW q \in Seq(Events), q # <<>>
    PROVE  /\ Tail(q) \in Seq(Events) /\ Len(q) \in Nat \ {0}
           /\ Head(q) = q[1] /\ Head(q) \in Events
           /\ Len(Tail(q)) = Len(q) - 1
           /\ \A i \in 1 .. Len(q) - 1 : Tail(q)[i] = q[i + 1]
BY HeadTailProperties, EmptySeq

\* A bookmark, an error or a close at the end of a queue is no change.
LEMMA LiveMark ==
    ASSUME NEW l, NEW q \in Seq(Events), NEW b \in Nat, b <= Len(q), NEW v \in Nat,
           Live(l, q, b, v), NEW e \in Events, e.type \in Marks
    PROVE  Live(l, Append(q, e), b, v)
<1> DEFINE p == Append(q, e)
<1>1. /\ Len(q) \in Nat /\ Len(p) = Len(q) + 1
      /\ \A i \in b + 1 .. Len(q) : p[i] = q[i]
      /\ p[Len(q) + 1] = e
  BY AppendEvent
<1>2. ~Change(e)
  BY DEF Change, Marks
<1> HIDE DEF p
<1>3. \A i \in b + 1 .. Len(p) : i \in b + 1 .. Len(q) \/ i = Len(q) + 1
  BY <1>1
<1>4. \A i \in b + 1 .. Len(q) : i \in b + 1 .. Len(p)
  BY <1>1
<1> QED
  BY <1>1, <1>2, <1>3, <1>4 DEF Live, p

\* The history grows at its end: what it says of the past stays.
LEMMA AppendWorld ==
    ASSUME NEW l \in Seq(Worlds), NEW x \in Worlds
    PROVE  /\ Append(l, x) \in Seq(Worlds) /\ Len(l) \in Nat
           /\ Len(Append(l, x)) = Len(l) + 1
           /\ \A i \in 1 .. Len(l) : Append(l, x)[i] = l[i]
           /\ Append(l, x)[Len(l) + 1] = x
BY AppendProperties, LenProperties

\* What the scope was does not change when the history grows.
LEMMA PastScope ==
    ASSUME NEW l \in Seq(Worlds), NEW x \in Worlds, NEW v \in 1 .. Len(l)
    PROVE  Scope(Append(l, x), v) = Scope(l, v)
BY AppendWorld DEF Scope

\* A change outside the scope leaves a queue complete, ...
LEMMA LiveElsewhere ==
    ASSUME NEW l \in Seq(Worlds), NEW x \in Worlds, x.uid \notin Wanted,
           NEW q \in Seq(Events), NEW b \in Nat, NEW v \in Nat, Live(l, q, b, v)
    PROVE  Live(Append(l, x), q, b, v)
<1> DEFINE m == Append(l, x)
<1>1. /\ Len(l) \in Nat /\ Len(m) = Len(l) + 1 /\ m[Len(l) + 1] = x
      /\ \A i \in v + 1 .. Len(l) : m[i] = l[i]
  BY AppendWorld
<1> HIDE DEF m
<1>2. \A i \in v + 1 .. Len(m) : i \in v + 1 .. Len(l) \/ i = Len(l) + 1
  BY <1>1
<1>3. \A i \in v + 1 .. Len(l) : i \in v + 1 .. Len(m)
  BY <1>1
<1> QED
  BY <1>1, <1>2, <1>3 DEF Live, Faithful, m

\* ... and one in scope does, once its event is in the queue.
LEMMA LiveChange ==
    ASSUME NEW l \in Seq(Worlds), NEW x \in Worlds, x.uid \in Wanted,
           NEW q \in Seq(Events), NEW b \in Nat, b <= Len(q), NEW v \in 0 .. Len(l),
           Live(l, q, b, v),
           NEW e \in Events, Change(e), e.rv = Len(l) + 1, Faithful(Append(l, x), e)
    PROVE  Live(Append(l, x), Append(q, e), b, v)
<1> DEFINE m == Append(l, x)
           p == Append(q, e)
<1>1. /\ Len(l) \in Nat /\ Len(m) = Len(l) + 1 /\ m[Len(l) + 1] = x
      /\ \A i \in v + 1 .. Len(l) : m[i] = l[i]
  BY AppendWorld
<1>2. /\ Len(q) \in Nat /\ Len(p) = Len(q) + 1 /\ p[Len(q) + 1] = e
      /\ \A i \in b + 1 .. Len(q) : p[i] = q[i]
  BY AppendEvent
<1>a. Faithful(m, e) /\ e.uid \in Wanted
  BY <1>1 DEF Faithful
<1> HIDE DEF m, p
<1>3. /\ \A i \in v + 1 .. Len(m) : i \in v + 1 .. Len(l) \/ i = Len(l) + 1
      /\ \A i \in v + 1 .. Len(l) : i \in v + 1 .. Len(m)
      /\ Len(l) + 1 \in v + 1 .. Len(m)
  BY <1>1
<1>4. /\ \A i \in b + 1 .. Len(p) : i \in b + 1 .. Len(q) \/ i = Len(q) + 1
      /\ \A i \in b + 1 .. Len(q) : i \in b + 1 .. Len(p)
      /\ Len(q) + 1 \in b + 1 .. Len(p)
  BY <1>2
<1>5. ASSUME NEW i \in b + 1 .. Len(p)
      PROVE  \/ p[i].type \in Marks
             \/ /\ Change(p[i]) /\ p[i].rv \in v + 1 .. Len(m) /\ p[i].uid \in Wanted
                /\ Faithful(m, p[i])
  <2>1. CASE i = Len(q) + 1
    BY <1>a, <1>2, <1>3, <2>1
  <2>2. CASE i \in b + 1 .. Len(q)
    <3>1. p[i] = q[i] /\ i \in b + 1 .. Len(q)
      BY <1>2, <2>2
    <3>2. \/ q[i].type \in Marks
          \/ /\ Change(q[i]) /\ q[i].rv \in v + 1 .. Len(l) /\ q[i].uid \in Wanted
             /\ Faithful(l, q[i])
      BY <2>2 DEF Live
    <3> QED
      BY <1>1, <1>3, <3>1, <3>2 DEF Faithful
  <2> QED
    BY <1>4, <2>1, <2>2
<1>6. ASSUME NEW i \in b + 1 .. Len(p), NEW j \in b + 1 .. Len(p),
             i < j, Change(p[i]), Change(p[j])
      PROVE  p[i].rv < p[j].rv
  <2>1. i \in b + 1 .. Len(q)
    BY <1>2, <1>6
  <2>2. CASE j = Len(q) + 1
    <3>1. q[i].rv \in v + 1 .. Len(l)
      BY <1>2, <1>6, <2>1 DEF Live, Change, Marks
    <3> QED
      BY <1>1, <1>2, <2>1, <2>2, <3>1
  <2>3. CASE j \in b + 1 .. Len(q)
    BY <1>2, <1>6, <2>1, <2>3 DEF Live
  <2> QED
    BY <1>4, <2>2, <2>3
<1>7. ASSUME NEW w \in v + 1 .. Len(m), m[w].uid \in Wanted
      PROVE  \E i \in b + 1 .. Len(p) : Change(p[i]) /\ p[i].rv = w
  <2>1. CASE w = Len(l) + 1
    BY <1>2, <1>4, <2>1
  <2>2. CASE w \in v + 1 .. Len(l)
    BY <1>1, <1>2, <1>4, <1>7, <2>2 DEF Live
  <2> QED
    BY <1>3, <2>1, <2>2
<1> QED
  BY <1>5, <1>6, <1>7 DEF Live, m, p

\* The snapshot that is pending is of the past, and nothing behind it matters to it.
LEMMA PendingGrows ==
    ASSUME NEW l \in Seq(Worlds), NEW x \in Worlds, NEW q \in Seq(Events), NEW t,
           NEW b \in Nat, NEW v \in 1 .. Len(l), Pending(l, q, b, t, v)
    PROVE  Pending(Append(l, x), q, b, t, v)
<1>1. Scope(Append(l, x), v) = Scope(l, v) /\ Append(l, x)[v] = l[v]
  BY PastScope, AppendWorld
<1> QED
  BY <1>1 DEF Pending

\* What comes after the boundary leaves the snapshot ahead of it complete.
LEMMA PendingBehind ==
    ASSUME NEW l, NEW q \in Seq(Events), NEW e \in Events, NEW t, NEW b \in Nat, NEW v,
           Pending(l, q, b, t, v)
    PROVE  Pending(l, Append(q, e), b, t, v)
<1> DEFINE p == Append(q, e)
<1>1. /\ Len(q) \in Nat /\ Len(p) = Len(q) + 1
      /\ \A i \in 1 .. Len(q) : p[i] = q[i]
  BY AppendEvent
<1> HIDE DEF p
<1>2. b \in 1 .. Len(q) /\ b \in 1 .. Len(p) /\ \A i \in 1 .. b - 1 : i \in 1 .. Len(q)
  BY <1>1 DEF Pending
<1> QED
  BY <1>1, <1>2 DEF Pending, p

\* The head of a pending snapshot is an object of the scope not told yet, ...
LEMMA PendingHead ==
    ASSUME NEW l, NEW q, NEW b \in Nat, b > 1, NEW v, NEW t, Pending(l, q, b, t, v)
    PROVE  /\ q[1].type = "added" /\ q[1].uid \in Wanted /\ t[q[1].uid] = 0
           /\ q[1].rv = l[v].world[q[1].uid] /\ q[1].rv # 0
           /\ q[1].uid \in Uids
<1>1. 1 \in 1 .. b - 1
  OBVIOUS
<1>2. /\ q[1].type = "added" /\ q[1].uid \in Wanted /\ t[q[1].uid] = 0
      /\ q[1].rv = l[v].world[q[1].uid] /\ q[1].rv # 0
  BY <1>1 DEF Pending
<1> QED
  BY <1>2

\* ... telling it leaves the rest pending, ...
LEMMA PendingTail ==
    ASSUME NEW l, NEW q \in Seq(Events), q # <<>>, NEW b \in Nat, b > 1, NEW v, NEW t,
           Pending(l, q, b, t, v),
           NEW k, \A u \in Uids : k[u] = IF u = q[1].uid THEN q[1].rv ELSE t[u]
    PROVE  Pending(l, Tail(q), b - 1, k, v)
<1> DEFINE p == Tail(q)
<1>1. /\ Len(q) \in Nat \ {0} /\ Len(p) = Len(q) - 1
      /\ \A i \in 1 .. Len(q) - 1 : p[i] = q[i + 1]
  BY TailEvent
<1>2. b \in 1 .. Len(q) /\ 1 \in 1 .. b - 1
  BY <1>1 DEF Pending
<1>3. /\ q[1].uid \in Uids /\ q[1].rv = Scope(l, v)[q[1].uid] /\ q[1].rv # 0
  <2>1. /\ q[1].uid \in Wanted /\ q[1].rv = l[v].world[q[1].uid] /\ q[1].rv # 0
    BY PendingHead
  <2> QED
    BY <2>1 DEF Scope
<1> HIDE DEF p
<1>4. \A u \in Uids : k[u] = IF u = q[1].uid THEN q[1].rv ELSE t[u]
  OBVIOUS
<1>6. \A i \in 1 .. b - 1 : i \in 1 .. Len(q) - 1
  BY <1>1, <1>2
<1>7. b - 1 \in 1 .. Len(p) /\ p[b - 1].type = "initialEventsEnd"
  <2>1. b - 1 \in 1 .. Len(q) - 1 /\ (b - 1) + 1 = b
    BY <1>1, <1>2
  <2> QED
    BY <1>1, <2>1 DEF Pending
<1>8. ASSUME NEW i \in 1 .. (b - 1) - 1
      PROVE  /\ i + 1 \in 1 .. b - 1 /\ p[i] = q[i + 1] /\ i + 1 # 1
             /\ p[i].type = "added" /\ p[i].uid \in Wanted
             /\ p[i].rv = l[v].world[p[i].uid] /\ p[i].rv # 0
             /\ k[p[i].uid] = 0
  <2>1. i + 1 \in 1 .. b - 1 /\ i \in 1 .. Len(q) - 1 /\ i + 1 # 1
    BY <1>1, <1>2
  <2>2. p[i] = q[i + 1]
    BY <1>1, <2>1
  <2>3. q[i + 1].uid # q[1].uid
    BY <1>2, <2>1 DEF Pending
  <2>4. /\ q[i + 1].type = "added" /\ q[i + 1].uid \in Wanted
        /\ q[i + 1].rv = l[v].world[q[i + 1].uid] /\ q[i + 1].rv # 0
        /\ t[q[i + 1].uid] = 0
    BY <2>1 DEF Pending
  <2>5. k[q[i + 1].uid] = 0
    BY <1>4, <2>3, <2>4
  <2> QED
    BY <2>1, <2>2, <2>4, <2>5
<1>9. ASSUME NEW i \in 1 .. (b - 1) - 1, NEW j \in 1 .. (b - 1) - 1, i # j
      PROVE  p[i].uid # p[j].uid
  <2>1. i + 1 # j + 1
    BY <1>9
  <2> QED
    BY <1>8, <2>1 DEF Pending
<1>10. ASSUME NEW u \in Uids
       PROVE  k[u] \in {0, Scope(l, v)[u]}
  BY <1>3, <1>4 DEF Pending
<1>11. ASSUME NEW u \in Uids, Scope(l, v)[u] # 0, k[u] = 0
       PROVE  \E i \in 1 .. (b - 1) - 1 : p[i].uid = u
  <2>1. u # q[1].uid /\ t[u] = 0
    BY <1>3, <1>4, <1>11
  <2>2. PICK j \in 1 .. b - 1 : q[j].uid = u
    BY <1>11, <2>1 DEF Pending
  <2>3. j # 1
    BY <2>1, <2>2
  <2>4. j - 1 \in 1 .. (b - 1) - 1 /\ (j - 1) + 1 = j
    BY <2>3, <1>2
  <2>5. p[j - 1] = q[(j - 1) + 1]
    BY <1>8, <2>4
  <2> QED
    BY <2>2, <2>4, <2>5
<1> QED
  BY <1>7, <1>8, <1>9, <1>10, <1>11 DEF Pending, p

\* ... and once the boundary is its head, everything is told.
LEMMA PendingDone ==
    ASSUME NEW l, NEW q, NEW v, NEW t \in [Uids -> Nat], Pending(l, q, 1, t, v)
    PROVE  q[1].type = "initialEventsEnd" /\ t = Scope(l, v)
<1>1. \A u \in Uids : t[u] = Scope(l, v)[u]
  BY DEF Pending
<1>2. t = Scope(l, v)
  BY <1>1 DEF Scope
<1> QED
  BY <1>2 DEF Pending

\* What is behind the head stays behind it, ...
LEMMA LiveTail ==
    ASSUME NEW l, NEW q \in Seq(Events), q # <<>>, NEW b \in Nat, NEW c \in Nat, NEW v,
           Live(l, q, b, v),
           \/ b > 0 /\ c = b - 1
           \/ b = 0 /\ c = 0 /\ q[1].type \in Marks
    PROVE  Live(l, Tail(q), c, v)
<1> DEFINE p == Tail(q)
<1>1. /\ Len(q) \in Nat \ {0} /\ Len(p) = Len(q) - 1
      /\ \A i \in 1 .. Len(q) - 1 : p[i] = q[i + 1]
  BY TailEvent
<1> HIDE DEF p
<1>2. ASSUME NEW i \in c + 1 .. Len(p)
      PROVE  i + 1 \in b + 1 .. Len(q) /\ p[i] = q[i + 1]
  <2>1. i \in 1 .. Len(q) - 1 /\ i + 1 \in b + 1 .. Len(q)
    BY <1>1
  <2> QED
    BY <1>1, <2>1
<1>3. ASSUME NEW i \in b + 1 .. Len(q), Change(q[i])
      PROVE  i - 1 \in c + 1 .. Len(p) /\ p[i - 1] = q[i]
  <2>1. i # 1 \/ b > 0
    BY <1>3 DEF Change, Marks
  <2>2. i - 1 \in c + 1 .. Len(p) /\ (i - 1) + 1 = i
    BY <1>1, <2>1
  <2> QED
    BY <1>2, <2>2
<1>4. ASSUME NEW i \in c + 1 .. Len(p), NEW j \in c + 1 .. Len(p), i < j,
             Change(p[i]), Change(p[j])
      PROVE  p[i].rv < p[j].rv
  <2>1. i + 1 < j + 1
    BY <1>4
  <2> QED
    BY <1>2, <1>4, <2>1 DEF Live
<1>5. ASSUME NEW w \in v + 1 .. Len(l), l[w].uid \in Wanted
      PROVE  \E i \in c + 1 .. Len(p) : Change(p[i]) /\ p[i].rv = w
  <2>1. PICK i \in b + 1 .. Len(q) : Change(q[i]) /\ q[i].rv = w
    BY <1>5 DEF Live
  <2> QED
    BY <1>3, <2>1
<1> QED
  BY <1>2, <1>4, <1>5 DEF Live, p

\* ... and a change at the head is the next one of the scope.
LEMMA LiveHead ==
    ASSUME NEW l, History(l), NEW q \in Seq(Events), q # <<>>, NEW v \in 1 .. Len(l),
           Live(l, q, 0, v), Change(q[1])
    PROVE  /\ q[1].rv \in v + 1 .. Len(l)
           /\ Live(l, Tail(q), 0, q[1].rv)
           /\ \A w \in v .. q[1].rv - 1 : Scope(l, w) = Scope(l, v)
           /\ q[1].uid \in Wanted
           /\ \A u \in Wanted : l[q[1].rv].world[u] =
                 IF u = q[1].uid THEN (IF q[1].type = "deleted" THEN 0 ELSE q[1].rv)
                 ELSE l[v].world[u]
<1> DEFINE p == Tail(q)
           r == q[1].rv
           d == q[1].uid
<1>1. /\ Len(q) \in Nat \ {0} /\ Len(p) = Len(q) - 1
      /\ \A i \in 1 .. Len(q) - 1 : p[i] = q[i + 1]
  BY TailEvent
<1>2. 1 \in 0 + 1 .. Len(q) /\ Len(l) \in Nat
  BY <1>1 DEF History, Revs
<1>3. r \in v + 1 .. Len(l) /\ d \in Wanted /\ Faithful(l, q[1])
  BY <1>2 DEF Live, Change, Marks
<1>4. /\ d \in Uids /\ l[r].uid = d
      /\ q[1].type = (IF l[r].world[d] = 0 THEN "deleted" ELSE "modified")
  BY <1>3 DEF Faithful
<1> HIDE DEF p
<1>5. ASSUME NEW i \in 0 + 1 .. Len(p)
      PROVE  i + 1 \in 0 + 1 .. Len(q) /\ p[i] = q[i + 1] /\ 1 < i + 1
  <2>1. i \in 1 .. Len(q) - 1 /\ i + 1 \in 0 + 1 .. Len(q)
    BY <1>1
  <2> QED
    BY <1>1, <2>1
<1>6. ASSUME NEW i \in 0 + 1 .. Len(q), i # 1
      PROVE  i - 1 \in 0 + 1 .. Len(p) /\ p[i - 1] = q[i]
  <2>2. i - 1 \in 0 + 1 .. Len(p) /\ (i - 1) + 1 = i
    BY <1>1, <1>6
  <2> QED
    BY <1>5, <2>2
<1>7. ASSUME NEW w \in v + 1 .. r - 1
      PROVE  l[w].uid \notin Wanted
  <2>1. SUFFICES ASSUME l[w].uid \in Wanted PROVE FALSE
    OBVIOUS
  <2>2. w \in v + 1 .. Len(l) /\ w < r
    BY <1>2, <1>3
  <2>3. PICK i \in 0 + 1 .. Len(q) : Change(q[i]) /\ q[i].rv = w
    BY <2>1, <2>2 DEF Live
  <2>4. i # 1
    BY <2>2, <2>3
  <2>5. 1 < i
    BY <2>4, <1>1
  <2>6. r < w
    BY <1>2, <2>3, <2>5 DEF Live
  <2> QED
    BY <1>3, <2>2, <2>6
<1>8. ASSUME NEW w \in v .. r - 1
      PROVE  Scope(l, w) = Scope(l, v)
  <2>1. w \in 1 .. Len(l) /\ v <= w /\ \A x \in v + 1 .. w : x \in v + 1 .. r - 1
    BY <1>2, <1>3
  <2>2. \A x \in v + 1 .. w : l[x].uid \notin Wanted
    BY <1>7, <2>1
  <2> QED
    BY <2>1, <2>2 DEF History, Stretches
<1>9. ASSUME NEW u \in Wanted
      PROVE  l[r].world[u] = IF u = d THEN (IF q[1].type = "deleted" THEN 0 ELSE r)
                             ELSE l[v].world[u]
  <2>1. r \in 2 .. Len(l) /\ r - 1 \in v .. r - 1 /\ u \in Uids
    BY <1>2, <1>3
  <2>2. Scope(l, r - 1) = Scope(l, v)
    BY <1>8, <2>1
  <2>3. l[r - 1].world[u] = l[v].world[u]
    <3>1. Scope(l, r - 1)[u] = l[r - 1].world[u] /\ Scope(l, v)[u] = l[v].world[u]
      BY <2>1 DEF Scope
    <3> QED
      BY <2>2, <3>1
  <2>4. /\ u # d => l[r].world[u] = l[r - 1].world[u]
        /\ l[r].world[d] \in {0, r}
    BY <1>4, <2>1 DEF History, Stepwise
  <2> QED
    BY <1>4, <2>3, <2>4
<1>10. Live(l, p, 0, r)
  <2>1. ASSUME NEW i \in 0 + 1 .. Len(p)
        PROVE  \/ p[i].type \in Marks
               \/ /\ Change(p[i]) /\ p[i].rv \in r + 1 .. Len(l) /\ p[i].uid \in Wanted
                  /\ Faithful(l, p[i])
    <3>1. CASE q[i + 1].type \in Marks
      BY <1>5, <3>1
    <3>2. CASE q[i + 1].type \notin Marks
      <4>1. /\ Change(q[i + 1]) /\ q[i + 1].rv \in v + 1 .. Len(l) /\ q[i + 1].uid \in Wanted
            /\ Faithful(l, q[i + 1])
        BY <1>5, <3>2 DEF Live
      <4>2. r < q[i + 1].rv
        BY <1>2, <1>5, <4>1 DEF Live
      <4>3. q[i + 1].rv \in r + 1 .. Len(l)
        BY <1>2, <1>3, <4>1, <4>2
      <4> QED
        BY <1>5, <4>1, <4>3
    <3> QED
      BY <3>1, <3>2
  <2>2. ASSUME NEW i \in 0 + 1 .. Len(p), NEW j \in 0 + 1 .. Len(p), i < j,
               Change(p[i]), Change(p[j])
        PROVE  p[i].rv < p[j].rv
    <3>1. i + 1 < j + 1
      BY <2>2
    <3> QED
      BY <1>5, <2>2, <3>1 DEF Live
  <2>3. ASSUME NEW w \in r + 1 .. Len(l), l[w].uid \in Wanted
        PROVE  \E i \in 0 + 1 .. Len(p) : Change(p[i]) /\ p[i].rv = w
    <3>1. w \in v + 1 .. Len(l) /\ w # r
      BY <1>2, <1>3
    <3>2. PICK i \in 0 + 1 .. Len(q) : Change(q[i]) /\ q[i].rv = w
      BY <2>3, <3>1 DEF Live
    <3>3. i # 1
      BY <3>1, <3>2
    <3> QED
      BY <1>6, <3>2, <3>3
  <2> QED
    BY <2>1, <2>2, <2>3 DEF Live
<1> QED
  BY <1>3, <1>4, <1>8, <1>9, <1>10 DEF p

-----------------------------------------------------------------------------
\* The answers of the API server.

\* An enumeration of a finite set has each of its elements, once.
LEMMA Enumeration ==
    ASSUME NEW S, IsFiniteSet(S), NEW q \in SetToSeqs(S)
    PROVE  /\ Cardinality(S) \in Nat /\ DOMAIN q = 1 .. Cardinality(S)
           /\ \A i \in DOMAIN q : q[i] \in S
           /\ \A i, j \in DOMAIN q : i # j => q[i] # q[j]
           /\ \A x \in S : \E i \in DOMAIN q : q[i] = x
<1> DEFINE D == 1 .. Cardinality(S)
<1>1. Cardinality(S) \in Nat
  BY FS_CardinalityType
<1>2. q \in [D -> S] /\ \A i, j \in D : i # j => q[i] # q[j]
  BY DEF SetToSeqs
<1>3. q \in Injection(D, S)
  BY <1>2 DEF Injection, IsInjective
<1>4. Cardinality(D) = Cardinality(S)
  BY <1>1, FS_Interval
<1>5. q \in Surjection(D, S)
  BY <1>3, <1>4, FS_Injection
<1> QED
  BY <1>1, <1>2, <1>5 DEF Surjection

\* The initial events of a streaming list, and a LIST played as a snapshot, are pending.
LEMMA SnapshotPending ==
    ASSUME History(log), NEW v \in 1 .. Now, NEW o, o.wanted = Wanted,
           NEW q \in Snapshot(o, v)
    PROVE  /\ Append(q, BookmarkEnd) \in Seq(Events) /\ Len(Append(q, BookmarkEnd)) \in Nat \ {0}
           /\ Append(q, BookmarkEnd) # <<>>
           /\ Pending(log, Append(q, BookmarkEnd), Len(Append(q, BookmarkEnd)), Nothing, v)
<1> DEFINE S == Matching(o, v)
           W == log[v].world
<1>1. W \in [Uids -> 0 .. v] /\ v \in Nat
  BY DEF History, Stepwise, Now, Revs
<1>2. IsFiniteSet(S) /\ \A u : u \in S <=> u \in Wanted /\ W[u] # 0
  <2>1. S \subseteq Uids /\ \A u : u \in S <=> u \in Wanted /\ W[u] # 0
    BY DEF Matching
  <2> QED
    BY <2>1, FS_Subset
<1>3. PICK p \in SetToSeqs(S) : q = [i \in DOMAIN p |-> Added(p[i], W[p[i]])]
  BY DEF Snapshot
<1> DEFINE n == Cardinality(S)
<1>4. /\ n \in Nat /\ DOMAIN p = 1 .. n
      /\ \A i \in 1 .. n : p[i] \in S
      /\ \A i, j \in 1 .. n : i # j => p[i] # p[j]
      /\ \A x \in S : \E i \in 1 .. n : p[i] = x
  BY <1>2, <1>3, Enumeration
<1> HIDE DEF n, S, W
<1>5. \A i \in 1 .. n : /\ q[i] \in Events /\ q[i].type = "added"
                        /\ q[i].uid = p[i] /\ q[i].rv = W[p[i]]
  BY <1>1, <1>2, <1>3, <1>4 DEF Events, Added
<1>6. q \in Seq(Events) /\ Len(q) = n
  <2>1. q = [i \in 1 .. n |-> q[i]]
    BY <1>3, <1>4
  <2> QED
    BY <1>4, <1>5, <2>1, IsASeq
<1>7. BookmarkEnd \in Events /\ BookmarkEnd.type = "initialEventsEnd"
  BY DEF BookmarkEnd, Events
<1> DEFINE r == Append(q, BookmarkEnd)
<1>8. /\ r \in Seq(Events) /\ Len(r) = n + 1 /\ r[n + 1] = BookmarkEnd
      /\ \A i \in 1 .. n : r[i] = q[i]
  BY <1>6, <1>7, AppendEvent
<1> HIDE DEF r
<1>9. (n + 1) - 1 = n /\ n + 1 \in 1 .. n + 1 /\ n + 1 \in Nat \ {0}
  BY <1>4
<1>10. \A u \in Uids : Nothing[u] = 0 /\ (Scope(log, v)[u] # 0 => u \in S)
  BY <1>2 DEF Nothing, Scope, W
<1>11. Pending(log, r, n + 1, Nothing, v)
  <2>1. \A i \in 1 .. n : /\ r[i].type = "added" /\ r[i].uid \in Wanted
                          /\ r[i].rv = log[v].world[r[i].uid] /\ r[i].rv # 0
                          /\ Nothing[r[i].uid] = 0
    BY <1>2, <1>4, <1>5, <1>8, <1>10 DEF W
  <2>2. \A i, j \in 1 .. n : i # j => r[i].uid # r[j].uid
    BY <1>4, <1>5, <1>8
  <2>3. \A u \in Uids : Scope(log, v)[u] # 0 => \E i \in 1 .. n : r[i].uid = u
    BY <1>4, <1>5, <1>8, <1>10
  <2> QED
    BY <1>7, <1>8, <1>9, <1>10, <2>1, <2>2, <2>3 DEF Pending
<1>12. r # <<>>
  BY <1>8, <1>9, EmptySeq
<1> QED
  BY <1>8, <1>9, <1>11, <1>12 DEF r

\* A WATCH from resourceVersion v answers with the changes since.
LEMMA SinceLive ==
    ASSUME History(log), NEW v \in 1 .. Now, NEW o, o.wanted = Wanted, NEW q \in Since(o, v)
    PROVE  q \in Seq(Events) /\ Live(log, q, 0, v)
<1> DEFINE S == Changes(o, v)
<1>1. Now \in Nat /\ v \in Nat /\ Now = Len(log)
  BY DEF History, Now, Revs
<1>2. IsFiniteSet(S) /\ \A w : w \in S <=> w \in v + 1 .. Now /\ log[w].uid \in Wanted
  <2>1. S \subseteq v + 1 .. Now /\ \A w : w \in S <=> w \in v + 1 .. Now /\ log[w].uid \in Wanted
    BY DEF Changes
  <2>2. IsFiniteSet(v + 1 .. Now)
    BY <1>1, FS_Interval
  <2> QED
    BY <2>1, <2>2, FS_Subset
<1>3. PICK p \in InOrder(S) : q = [i \in DOMAIN p |-> ChangeEvent(p[i])]
  BY DEF Since
<1>4. p \in SetToSeqs(S) /\ \A i, j \in DOMAIN p : i < j => p[i] < p[j]
  BY <1>3 DEF InOrder
<1> DEFINE n == Cardinality(S)
<1>5. /\ n \in Nat /\ DOMAIN p = 1 .. n
      /\ \A i \in 1 .. n : p[i] \in S
      /\ \A x \in S : \E i \in 1 .. n : p[i] = x
  BY <1>2, <1>4, Enumeration
<1> HIDE DEF n, S
<1>6. \A w \in S : /\ w \in v + 1 .. Now /\ w \in Nat
                   /\ log[w].uid \in Wanted /\ log[w].uid \in Uids
  BY <1>1, <1>2
<1>7. ASSUME NEW w \in S
      PROVE  /\ ChangeEvent(w) \in Events /\ Change(ChangeEvent(w))
             /\ ChangeEvent(w).rv = w /\ ChangeEvent(w).uid = log[w].uid
             /\ Faithful(log, ChangeEvent(w))
  BY <1>6 DEF ChangeEvent, Events, Change, Faithful
<1>8. \A i \in 1 .. n : q[i] = ChangeEvent(p[i]) /\ p[i] \in S
  BY <1>3, <1>5
<1>9. q \in Seq(Events) /\ Len(q) = n
  <2>1. q = [i \in 1 .. n |-> q[i]]
    BY <1>3, <1>5
  <2>2. \A i \in 1 .. n : q[i] \in Events
    BY <1>7, <1>8
  <2> QED
    BY <1>5, <2>1, <2>2, IsASeq
<1>10. 0 + 1 .. Len(q) = 1 .. n
  BY <1>5, <1>9
<1>11. \A i \in 1 .. n : /\ Change(q[i]) /\ q[i].rv \in v + 1 .. Now /\ q[i].uid \in Wanted
                         /\ Faithful(log, q[i])
  BY <1>6, <1>7, <1>8
<1>12. \A i, j \in 1 .. n : i < j => q[i].rv < q[j].rv
  BY <1>4, <1>5, <1>7, <1>8
<1>13. \A w \in v + 1 .. Now :
          log[w].uid \in Wanted => \E i \in 1 .. n : Change(q[i]) /\ q[i].rv = w
  BY <1>2, <1>5, <1>7, <1>8
<1> QED
  BY <1>1, <1>9, <1>10, <1>11, <1>12, <1>13 DEF Live

\* An entry of the history is well typed.
LEMMA WorldType ==
    ASSUME NEW u \in Uids, NEW y \in [Uids -> Nat]
    PROVE  [uid |-> u, world |-> y] \in Worlds
BY DEF Worlds

\* A write is one more resourceVersion of the history.
LEMMA HistoryGrows ==
    ASSUME NEW l, History(l), Len(l) < MaxRev, NEW u \in Uids, NEW v \in {0, Len(l) + 1},
           NEW x, x = [uid |-> u, world |-> [l[Len(l)].world EXCEPT ![u] = v]]
    PROVE  /\ x \in Worlds /\ History(Append(l, x))
           /\ SubSeq(Append(l, x), 1, Len(l)) = l
<1> DEFINE m == Append(l, x)
           n == Len(l)
<1>1. /\ l \in Seq(Worlds) /\ n \in Nat /\ n \in 1 .. n /\ n + 1 \in Revs
      /\ l[n].world \in [Uids -> 0 .. n]
  BY DEF History, Stepwise, Revs
<1>2. /\ x \in Worlds /\ x.uid = u /\ x.world \in [Uids -> 0 .. n + 1] /\ x.world[u] = v
      /\ \A w \in Uids : w # u => x.world[w] = l[n].world[w]
  <2> DEFINE W == l[n].world
             y == [W EXCEPT ![u] = v]
  <2>1. /\ y \in [Uids -> 0 .. n + 1] /\ y \in [Uids -> Nat] /\ y[u] = v
        /\ \A w \in Uids : w # u => y[w] = W[w]
    BY <1>1
  <2>2. x = [uid |-> u, world |-> y]
    OBVIOUS
  <2> HIDE DEF y
  <2>3. x.uid = u /\ x.world = y
    BY <2>2
  <2>4. x \in Worlds
    BY <2>1, <2>2, WorldType
  <2> QED
    BY <2>1, <2>3, <2>4
<1>3. /\ m \in Seq(Worlds) /\ Len(m) = n + 1 /\ m[n + 1] = x
      /\ \A i \in 1 .. n : m[i] = l[i]
  BY <1>1, <1>2, AppendWorld
<1>4. \A i \in 1 .. n + 1 : i \in 1 .. n \/ i = n + 1
  BY <1>1
<1> HIDE DEF m
<1>5. Stepwise(m)
  <2>1. \A w \in 1 .. n + 1 : m[w].world \in [Uids -> 0 .. w]
    BY <1>2, <1>3, <1>4 DEF History, Stepwise
  <2>2. ASSUME NEW w \in 2 .. n + 1
        PROVE  /\ \A y \in Uids : y # m[w].uid => m[w].world[y] = m[w - 1].world[y]
               /\ m[w].world[m[w].uid] \in {0, w}
    <3>1. w - 1 \in 1 .. n /\ w \in 1 .. n + 1
      BY <1>1
    <3>2. CASE w = n + 1
      <4>1. w - 1 = n
        BY <1>1, <3>2
      <4> QED
        BY <1>1, <1>2, <1>3, <3>2, <4>1
    <3>3. CASE w \in 1 .. n
      <4>1. w \in 2 .. n
        BY <3>3, <1>1
      <4>2. /\ \A y \in Uids : y # l[w].uid => l[w].world[y] = l[w - 1].world[y]
            /\ l[w].world[l[w].uid] \in {0, w}
        BY <4>1 DEF History, Stepwise
      <4> QED
        BY <1>3, <3>1, <3>3, <4>2
    <3> QED
      BY <1>4, <3>1, <3>2, <3>3
  <2> QED
    BY <1>3, <2>1, <2>2 DEF Stepwise
<1>6. \A i \in 1 .. n : Scope(m, i) = Scope(l, i)
  BY <1>3 DEF Scope
<1>7. Stretches(m)
  <2> SUFFICES ASSUME NEW y \in 1 .. n + 1, NEW w \in 1 .. n + 1, y <= w,
                      \A z \in y + 1 .. w : m[z].uid \notin Wanted
               PROVE  Scope(m, y) = Scope(m, w)
    BY <1>3 DEF Stretches
  <2>1. ASSUME NEW w1 \in 1 .. n, y <= w1, w1 <= w
        PROVE  Scope(m, y) = Scope(m, w1)
    <3>1. y \in 1 .. n /\ \A z \in y + 1 .. w1 : z \in y + 1 .. w /\ z \in 1 .. n
      BY <1>1, <2>1
    <3>2. \A z \in y + 1 .. w1 : l[z].uid \notin Wanted
      BY <1>3, <3>1
    <3> QED
      BY <1>6, <2>1, <3>1, <3>2 DEF History, Stretches
  <2>2. CASE w \in 1 .. n
    BY <2>1, <2>2
  <2>3. CASE w = n + 1 /\ y = n + 1
    BY <2>3
  <2>4. CASE w = n + 1 /\ y \in 1 .. n
    <3>1. y <= n /\ n <= w /\ n + 1 \in y + 1 .. w
      BY <1>1, <2>4
    <3>2. u \notin Wanted
      BY <1>2, <1>3, <3>1
    <3>3. Scope(m, n + 1) = Scope(m, n)
      BY <1>1, <1>2, <1>3, <3>2 DEF Scope
    <3>4. Scope(m, y) = Scope(m, n)
      BY <1>1, <2>1, <3>1
    <3> QED
      BY <2>4, <3>3, <3>4
  <2> QED
    BY <1>4, <2>2, <2>3, <2>4
<1>8. SubSeq(m, 1, n) = l
  <2>1. /\ SubSeq(m, 1, n) \in Seq(Worlds) /\ Len(SubSeq(m, 1, n)) = n
        /\ \A i \in 1 .. n : SubSeq(m, 1, n)[i] = m[i]
    BY <1>1, <1>3, SubSeqProperties
  <2>2. \A i \in 1 .. n : SubSeq(m, 1, n)[i] = l[i]
    BY <1>3, <2>1
  <2> QED
    BY <1>1, <2>1, <2>2, SeqEqual
<1> QED
  BY <1>1, <1>2, <1>3, <1>5, <1>7, <1>8 DEF History, m

-----------------------------------------------------------------------------
\* The steps of one stream.

View(t) == <<pc[t], list[t], queue[t], feed[t], told[t], at[t], synced[t]>>
Keeps(s) == Shape' /\ StreamOK(s)' /\ \A t \in Streams : t # s => UNCHANGED View(t)

\* A stream that does not move stays as good as it was.
LEMMA Elsewhere ==
    ASSUME NEW t, StreamOK(t), UNCHANGED <<log, View(t)>>
    PROVE  StreamOK(t)'
<1>1. Quiet(t)'
  BY DEF StreamOK, Quiet, View, Now
<1>2. Listed(t)'
  BY DEF StreamOK, Listed, View, Now
<1>3. Opened(t)'
  BY DEF StreamOK, Opened, View
<1> QED
  BY <1>1, <1>2, <1>3 DEF StreamOK, View

\* The present is the last entry of the history.
LEMMA Present0 ==
    ASSUME History(log)
    PROVE  /\ Now \in Nat \ {0} /\ Now = Len(log)
           /\ <<>> \in Seq(Events) /\ Nothing \in [Uids -> 0 .. Now]
<1>1. Now \in Nat \ {0} /\ Now = Len(log)
  BY DEF History, Now, Revs
<1> QED
  BY <1>1, EmptySeq DEF Nothing

\* An end leaves nothing behind.
LEMMA EndKeeps ==
    ASSUME Shape, History(log), NEW s \in Streams, NEW f, NEW e, EndWith(s, f, e),
           UNCHANGED <<log, streaming, listThenWatch>>, refused' \in [Streams -> BOOLEAN]
    PROVE  Keeps(s)
<1>1. Now' = Now /\ Now \in Nat \ {0} /\ <<>> \in Seq(Events) /\ Nothing \in [Uids -> 0 .. Now]
  BY Present0 DEF Now
<1>2. /\ pc'[s] = "ended" /\ queue'[s] = <<>> /\ feed'[s] = <<>> /\ list'[s] = 0
      /\ told'[s] = Nothing /\ at'[s] = 0 /\ synced'[s] = FALSE
  BY DEF EndWith, Goto, Shape
<1>3. Shape'
  <2>1. pc' \in [Streams -> {"idle", "asking", "refused", "listing", "rewatching", "open",
                             "ended"}]
    BY DEF EndWith, Goto, Shape
  <2>2. queue' \in [Streams -> Seq(Events)] /\ feed' \in [Streams -> Seq(Events)]
    BY <1>1 DEF EndWith, Shape
  <2>3. list' \in [Streams -> 0 .. Now] /\ at' \in [Streams -> 0 .. Now]
    <3>1. 0 \in 0 .. Now
      BY <1>1
    <3> QED
      BY <3>1 DEF EndWith, Shape
  <2>4. told' \in [Streams -> [Uids -> 0 .. Now]] /\ synced' \in [Streams -> BOOLEAN]
    BY <1>1 DEF EndWith, Shape
  <2> QED
    BY <1>1, <2>1, <2>2, <2>3, <2>4 DEF Shape
<1>4. \A t \in Streams : t # s => UNCHANGED View(t)
  BY DEF EndWith, Goto, Shape, View
<1>5. StreamOK(s)'
  BY <1>1, <1>2 DEF StreamOK, Quiet, Listed, Opened
<1> QED
  BY <1>3, <1>4, <1>5 DEF Keeps

\* Watch: a stream that has asked has been told nothing.
LEMMA WatchKeeps ==
    ASSUME Shape, History(log), NEW s \in Streams, StreamOK(s), Watch(s)
    PROVE  Keeps(s)
<1>1. Now' = Now /\ Now \in Nat \ {0} /\ <<>> \in Seq(Events) /\ Nothing \in [Uids -> 0 .. Now]
  BY Present0 DEF Now, Watch, serverVars
<1>2. /\ pc'[s] \in {"listing", "asking"} /\ queue'[s] = <<>> /\ feed'[s] = <<>>
      /\ told'[s] = Nothing /\ at'[s] = Now /\ synced'[s] = FALSE
  BY DEF Watch, Goto, Shape, StreamOK, Quiet
<1>3. Shape'
  <2>1. pc' \in [Streams -> {"idle", "asking", "refused", "listing", "rewatching", "open",
                             "ended"}]
    BY DEF Watch, Goto, Shape
  <2>2. /\ at' \in [Streams -> 0 .. Now] /\ told' \in [Streams -> [Uids -> 0 .. Now]]
        /\ synced' \in [Streams -> BOOLEAN]
    BY <1>1 DEF Watch, Shape
  <2> QED
    BY <1>1, <2>1, <2>2 DEF Watch, Shape, serverVars
<1>4. \A t \in Streams : t # s => UNCHANGED View(t)
  BY DEF Watch, Goto, Shape, View
<1>5. Now \in 1 .. Now
  BY <1>1
<1>6. StreamOK(s)'
  BY <1>1, <1>2, <1>5 DEF StreamOK, Quiet, Listed, Opened
<1> QED
  BY <1>3, <1>4, <1>6 DEF Keeps

\* The streaming list answers with a snapshot, its boundary and what follows it.
LEMMA StreamingListKeeps ==
    ASSUME Shape, History(log), NEW s \in Streams, StreamOK(s), StreamingList(s)
    PROVE  Keeps(s)
<1>1. /\ Now' = Now /\ Now \in Nat \ {0} /\ Now \in 1 .. Now /\ log' = log
      /\ <<>> \in Seq(Events)
  BY Present0 DEF Now, StreamingList, serverVars
<1>2. PICK q \in WatchAnswers(StreamingListOptions) : feed' = [feed EXCEPT ![s] = q]
  BY DEF StreamingList
<1>3. \E p \in Snapshot(StreamingListOptions, Now) : q = Append(p, BookmarkEnd)
  BY <1>2 DEF WatchAnswers, StreamingListOptions, Selectors
<1>4. StreamingListOptions.wanted = Wanted
  BY DEF StreamingListOptions, Selectors
<1>5. /\ q \in Seq(Events) /\ Len(q) \in Nat \ {0}
      /\ Pending(log, q, Len(q), Nothing, Now)
  BY <1>1, <1>3, <1>4, SnapshotPending
<1>6. /\ pc'[s] = "open" /\ queue'[s] = <<>> /\ feed'[s] = q
      /\ told'[s] = Nothing /\ at'[s] = Now /\ synced'[s] = FALSE
  BY <1>2 DEF StreamingList, Goto, Shape, StreamOK, Quiet
<1>7. Shape'
  <2>1. /\ pc' \in [Streams -> {"idle", "asking", "refused", "listing", "rewatching", "open",
                                "ended"}]
        /\ at' \in [Streams -> 0 .. Now] /\ feed' \in [Streams -> Seq(Events)]
    BY <1>1, <1>2, <1>5 DEF StreamingList, Goto, Shape
  <2> QED
    BY <1>1, <2>1 DEF StreamingList, Shape, serverVars
<1>8. \A t \in Streams : t # s => UNCHANGED View(t)
  BY <1>2 DEF StreamingList, Goto, Shape, View
<1>9. Live(log, q, Len(q), Now)
  <2>1. Len(q) + 1 .. Len(q) = {} /\ Now + 1 .. Len(log) = {}
    BY <1>1, <1>5 DEF Now
  <2> QED
    BY <2>1 DEF Live
<1>10. Opened(s)'
  BY <1>1, <1>5, <1>6, <1>9 DEF Opened
<1>11. StreamOK(s)'
  BY <1>1, <1>5, <1>6, <1>10 DEF StreamOK, Quiet, Listed
<1> QED
  BY <1>7, <1>8, <1>11 DEF Keeps

\* The list of the two-request opening is a snapshot without a boundary.
LEMMA ListKeeps ==
    ASSUME Shape, History(log), NEW s \in Streams, StreamOK(s), List(s)
    PROVE  Keeps(s)
<1>1. Now' = Now /\ Now \in Nat \ {0} /\ Now \in 1 .. Now /\ log' = log
  BY Present0 DEF Now, List, serverVars
<1>2. PICK p \in Snapshot(Selectors, Now) :
          queue' = [queue EXCEPT ![s] = Append(p, BookmarkEnd)]
  BY DEF List
<1> DEFINE q == Append(p, BookmarkEnd)
<1>3. Selectors.wanted = Wanted
  BY DEF Selectors
<1>4. q \in Seq(Events) /\ Pending(log, q, Len(q), Nothing, Now)
  BY <1>1, <1>2, <1>3, SnapshotPending
<1>5. queue' = [queue EXCEPT ![s] = q]
  BY <1>2
<1> HIDE DEF q
<1>6. /\ pc'[s] = "rewatching" /\ queue'[s] = q /\ feed'[s] = <<>> /\ list'[s] = Now
      /\ told'[s] = Nothing /\ at'[s] = at[s] /\ at[s] \in 1 .. Now /\ synced'[s] = FALSE
  BY <1>5 DEF List, Goto, Shape, StreamOK, Quiet
<1>7. Shape'
  <2>1. /\ pc' \in [Streams -> {"idle", "asking", "refused", "listing", "rewatching", "open",
                                "ended"}]
        /\ list' \in [Streams -> 0 .. Now]
    BY <1>1 DEF List, Goto, Shape
  <2>2. queue' \in [Streams -> Seq(Events)]
    BY <1>4, <1>5 DEF Shape
  <2> QED
    BY <1>1, <2>1, <2>2 DEF List, Shape, serverVars
<1>8. \A t \in Streams : t # s => UNCHANGED View(t)
  BY <1>5 DEF List, Goto, Shape, View
<1>9. Listed(s)'
  <2>1. at[s] <= Now
    BY <1>1, <1>6
  <2> QED
    BY <1>1, <1>4, <1>6, <2>1 DEF Listed
<1>10. feed'[s] \in Seq(Events)
  BY <1>6, EmptySeq
<1>11. StreamOK(s)'
  BY <1>1, <1>4, <1>6, <1>9, <1>10 DEF StreamOK, Quiet, Opened
<1> QED
  BY <1>7, <1>8, <1>11 DEF Keeps

\* The watch of the two-request opening continues where the list was read.
LEMMA RewatchKeeps ==
    ASSUME Shape, History(log), NEW s \in Streams, StreamOK(s), Rewatch(s)
    PROVE  Keeps(s)
<1>1. Now' = Now /\ Now \in Nat \ {0} /\ log' = log
  BY Present0 DEF Now, Rewatch, serverVars
<1>2. PICK q \in WatchAnswers(WatchFromList(s)) : feed' = [feed EXCEPT ![s] = q]
  BY DEF Rewatch
<1>3. /\ WatchFromList(s).wanted = Wanted /\ WatchFromList(s).from = list[s]
      /\ ~WatchFromList(s).initial
  BY DEF WatchFromList, Selectors
<1>4. q \in Since(WatchFromList(s), list[s])
  BY <1>2, <1>3 DEF WatchAnswers
<1>5. /\ pc[s] = "rewatching" /\ list[s] \in 1 .. Now
      /\ Pending(log, queue[s], Len(queue[s]), Nothing, list[s])
      /\ queue[s] \in Seq(Events) /\ told[s] = Nothing /\ ~synced[s]
  BY DEF Rewatch, StreamOK, Listed, Quiet
<1>6. q \in Seq(Events) /\ Live(log, q, 0, list[s])
  BY <1>3, <1>4, <1>5, SinceLive
<1>7. /\ pc'[s] = "open" /\ queue'[s] = queue[s] /\ feed'[s] = q
      /\ told'[s] = Nothing /\ at'[s] = list[s] /\ synced'[s] = FALSE
  BY <1>2, <1>5 DEF Rewatch, Goto, Shape
<1>8. Shape'
  <2>1. /\ pc' \in [Streams -> {"idle", "asking", "refused", "listing", "rewatching", "open",
                                "ended"}]
        /\ at' \in [Streams -> 0 .. Now] /\ feed' \in [Streams -> Seq(Events)]
    BY <1>1, <1>2, <1>5, <1>6 DEF Rewatch, Goto, Shape
  <2> QED
    BY <1>1, <2>1 DEF Rewatch, Shape, serverVars
<1>9. \A t \in Streams : t # s => UNCHANGED View(t)
  BY <1>2 DEF Rewatch, Goto, Shape, View
<1>10. queue[s] # <<>>
  <2>1. Len(queue[s]) \in 1 .. Len(queue[s])
    BY <1>5 DEF Pending
  <2> QED
    BY <1>5, <2>1, EmptySeq
<1>11. Opened(s)'
  BY <1>1, <1>5, <1>6, <1>7, <1>10 DEF Opened
<1>12. StreamOK(s)'
  BY <1>1, <1>5, <1>6, <1>7, <1>11 DEF StreamOK, Quiet, Listed
<1> QED
  BY <1>8, <1>9, <1>12 DEF Keeps

\* What an event does to the stream that hears it.
LEMMA Heard ==
    ASSUME Shape, History(log), NEW s \in Streams, NEW e \in Events, Hear(s, e)
    PROVE  /\ \A t \in Streams : t # s => UNCHANGED <<told[t], at[t], synced[t]>>
           /\ e.type \in {"added", "modified", "deleted"} =>
                /\ \A u \in Uids : told'[s][u] =
                      IF u = e.uid THEN (IF e.type = "deleted" THEN 0 ELSE e.rv)
                      ELSE told[s][u]
                /\ e.rv \in 0 .. Now => told' \in [Streams -> [Uids -> 0 .. Now]]
                /\ e.rv \in 0 .. Now => at' \in [Streams -> 0 .. Now]
                /\ at'[s] = IF synced[s] THEN e.rv ELSE at[s]
                /\ synced' = synced
           /\ e.type = "initialEventsEnd" =>
                told' = told /\ at' = at /\ synced' = [synced EXCEPT ![s] = TRUE]
           /\ e.type = "bookmark" => told' = told /\ at' = at /\ synced' = synced
<1>1. CASE e.type \in {"added", "modified", "deleted"}
  <2> DEFINE x == IF e.type = "deleted" THEN 0 ELSE e.rv
             k == [told[s] EXCEPT ![e.uid] = x]
  <2>1. /\ told' = [told EXCEPT ![s] = k] /\ synced' = synced
        /\ at' = [at EXCEPT ![s] = IF synced[s] THEN e.rv ELSE at[s]]
    BY <1>1 DEF Hear
  <2>2. Now \in Nat /\ told[s] \in [Uids -> 0 .. Now] /\ at[s] \in 0 .. Now
    BY Present0 DEF Shape
  <2>3. \A u \in Uids : k[u] = IF u = e.uid THEN x ELSE told[s][u]
    BY <2>2
  <2>4. ASSUME e.rv \in 0 .. Now
        PROVE  k \in [Uids -> 0 .. Now] /\ (IF synced[s] THEN e.rv ELSE at[s]) \in 0 .. Now
    <3>1. x \in 0 .. Now
      BY <2>2, <2>4
    <3> HIDE DEF x
    <3> QED
      BY <2>2, <2>4, <3>1
  <2> HIDE DEF k
  <2>5. /\ told'[s] = k /\ at'[s] = IF synced[s] THEN e.rv ELSE at[s]
        /\ \A t \in Streams : t # s => UNCHANGED <<told[t], at[t], synced[t]>>
    BY <2>1 DEF Shape
  <2>6. ASSUME e.rv \in 0 .. Now
        PROVE  told' \in [Streams -> [Uids -> 0 .. Now]] /\ at' \in [Streams -> 0 .. Now]
    BY <2>1, <2>4, <2>6 DEF Shape
  <2> QED
    BY <1>1, <2>1, <2>3, <2>5, <2>6
<1>2. CASE e.type \notin {"added", "modified", "deleted"}
  BY <1>2 DEF Hear, Shape
<1> QED
  BY <1>1, <1>2

\* Next hands over the head of what the list left.
LEMMA NextQueuedKeeps ==
    ASSUME Shape, History(log), NEW s \in Streams, StreamOK(s), NextQueued(s)
    PROVE  Keeps(s)
<1> DEFINE q == queue[s]
           e == q[1]
           b == Len(q)
<1>1. Now' = Now /\ Now \in Nat \ {0} /\ log' = log
  BY Present0 DEF Now, NextQueued, serverVars
<1>2. /\ pc[s] = "open" /\ q # <<>> /\ q \in Seq(Events) /\ ~synced[s]
      /\ Pending(log, q, b, told[s], at[s]) /\ Live(log, feed[s], 0, at[s])
      /\ at[s] \in 1 .. Now /\ feed[s] \in Seq(Events)
  BY DEF NextQueued, StreamOK, Opened, Quiet
<1>3. /\ Tail(q) \in Seq(Events) /\ b \in Nat \ {0} /\ Head(q) = e /\ e \in Events
      /\ Len(Tail(q)) = b - 1
  BY <1>2, TailEvent
<1>4. Hear(s, e) /\ queue' = [queue EXCEPT ![s] = Tail(q)]
  BY <1>3 DEF NextQueued
<1>5. /\ pc' = pc /\ feed' = feed /\ list' = list /\ queue'[s] = Tail(q)
      /\ UNCHANGED <<streaming, listThenWatch, refused>>
      /\ queue' \in [Streams -> Seq(Events)]
      /\ \A t \in Streams : t # s => queue'[t] = queue[t]
  BY <1>3, <1>4 DEF NextQueued, Shape, serverVars
<1>6. \A t \in Streams : t # s => UNCHANGED View(t)
  <2>1. \A t \in Streams : t # s => UNCHANGED <<told[t], at[t], synced[t]>>
    BY <1>3, <1>4, Heard
  <2> QED
    BY <1>5, <2>1 DEF View
<1>7. told[s] \in [Uids -> Nat] /\ told[s] \in [Uids -> 0 .. Now]
  BY <1>1 DEF Shape
<1> HIDE DEF q, e, b
<1>8. CASE b > 1
  <2>1. e.type = "added" /\ e.uid \in Uids /\ e.rv = log[at[s]].world[e.uid]
    BY <1>2, <1>3, <1>8, PendingHead DEF e
  <2>2. e.rv \in 0 .. Now
    <3>1. log[at[s]].world \in [Uids -> 0 .. at[s]]
      BY <1>1, <1>2 DEF History, Stepwise, Now
    <3> QED
      BY <1>1, <1>2, <2>1, <3>1 DEF Scope
  <2>3. /\ \A u \in Uids : told'[s][u] = IF u = e.uid THEN e.rv ELSE told[s][u]
        /\ told' \in [Streams -> [Uids -> 0 .. Now]] /\ at' \in [Streams -> 0 .. Now]
        /\ at'[s] = at[s] /\ synced' = synced
    BY <1>2, <1>3, <1>4, <2>1, <2>2, Heard
  <2>4. Pending(log, Tail(q), b - 1, told'[s], at[s])
    BY <1>2, <1>3, <1>8, <2>3, PendingTail DEF e
  <2>5. Shape'
    BY <1>1, <1>5, <2>3 DEF Shape
  <2>6. Tail(q) # <<>>
    <3>1. Len(Tail(q)) # 0
      BY <1>3, <1>8
    <3> QED
      BY <3>1, EmptySeq
  <2>7. Opened(s)'
    BY <1>1, <1>2, <1>3, <1>5, <2>3, <2>4, <2>6 DEF Opened
  <2>8. StreamOK(s)'
    BY <1>1, <1>2, <1>3, <1>5, <2>3, <2>7 DEF StreamOK, Quiet, Listed
  <2> QED
    BY <1>6, <2>5, <2>8 DEF Keeps
<1>9. CASE b = 1
  <2>1. e.type = "initialEventsEnd" /\ told[s] = Scope(log, at[s])
    BY <1>2, <1>7, <1>9, PendingDone DEF e
  <2>2. told' = told /\ at' = at /\ synced' = [synced EXCEPT ![s] = TRUE]
    BY <1>3, <1>4, <2>1, Heard
  <2>3. synced'[s] = TRUE /\ synced' \in [Streams -> BOOLEAN]
    BY <2>2 DEF Shape
  <2>4. Shape'
    BY <1>1, <1>5, <2>2, <2>3 DEF Shape
  <2>5. Tail(q) = <<>>
    BY <1>3, <1>9, EmptySeq
  <2>6. Opened(s)'
    BY <1>1, <1>2, <1>5, <2>1, <2>2, <2>3, <2>5 DEF Opened
  <2>7. StreamOK(s)'
    BY <1>1, <1>2, <1>3, <1>5, <2>2, <2>6 DEF StreamOK, Quiet, Listed
  <2> QED
    BY <1>6, <2>4, <2>7 DEF Keeps
<1> QED
  BY <1>3, <1>8, <1>9

\* Hearing a change takes what is told from one state of the scope to the next.
LEMMA LiveTold ==
    ASSUME NEW l, History(l), NEW q \in Seq(Events), q # <<>>, NEW v \in 1 .. Len(l),
           Live(l, q, 0, v), Change(q[1]), NEW t, t = Scope(l, v), NEW k \in [Uids -> Nat],
           \A u \in Uids : k[u] = IF u = q[1].uid
                                  THEN (IF q[1].type = "deleted" THEN 0 ELSE q[1].rv)
                                  ELSE t[u]
    PROVE  k = Scope(l, q[1].rv)
<1>1. /\ q[1].uid \in Wanted
      /\ \A u \in Wanted : l[q[1].rv].world[u] =
            IF u = q[1].uid THEN (IF q[1].type = "deleted" THEN 0 ELSE q[1].rv)
            ELSE l[v].world[u]
  BY LiveHead
<1>2. \A u \in Uids : t[u] = IF u \in Wanted THEN l[v].world[u] ELSE 0
  BY DEF Scope
<1>3. \A u \in Uids : k[u] = IF u \in Wanted THEN l[q[1].rv].world[u] ELSE 0
  BY <1>1, <1>2
<1> QED
  BY <1>3 DEF Scope

\* Next hands over the head of the watch.
LEMMA NextLiveKeeps ==
    ASSUME Shape, History(log), NEW s \in Streams, StreamOK(s), NextLive(s)
    PROVE  Keeps(s)
<1> DEFINE q == feed[s]
           e == q[1]
<1>1. /\ Now' = Now /\ Now \in Nat \ {0} /\ log' = log /\ Now = Len(log)
      /\ UNCHANGED <<streaming, listThenWatch, refused>>
  BY Present0 DEF Now, NextLive, serverVars
<1>2. /\ pc[s] = "open" /\ queue[s] = <<>> /\ q # <<>> /\ q \in Seq(Events)
      /\ at[s] \in 1 .. Now /\ queue[s] \in Seq(Events)
  BY DEF NextLive, StreamOK, Quiet
<1>3. /\ Tail(q) \in Seq(Events) /\ Head(q) = e /\ e \in Events
  BY <1>2, TailEvent
<1>4. told[s] \in [Uids -> Nat]
  BY <1>1 DEF Shape
<1>5. \/ /\ e.type \notin {"error", "closed"} /\ Hear(s, e)
         /\ feed' = [feed EXCEPT ![s] = Tail(q)]
         /\ UNCHANGED <<pc, list, queue, err>>
      \/ \E f, x : EndWith(s, f, x)
  BY <1>3 DEF NextLive
<1>6. CASE \E f, x : EndWith(s, f, x)
  BY <1>1, <1>6, EndKeeps DEF Shape
<1> HIDE DEF q, e
<1>7. ASSUME e.type \notin {"error", "closed"}, Hear(s, e),
             feed' = [feed EXCEPT ![s] = Tail(q)], UNCHANGED <<pc, list, queue, err>>
      PROVE  Keeps(s)
  <2>1. /\ feed'[s] = Tail(q) /\ feed' \in [Streams -> Seq(Events)]
        /\ \A t \in Streams : t # s => feed'[t] = feed[t]
    BY <1>3, <1>7 DEF Shape
  <2>2. \A t \in Streams : t # s => UNCHANGED View(t)
    <3>1. \A t \in Streams : t # s => UNCHANGED <<told[t], at[t], synced[t]>>
      BY <1>3, <1>7, Heard
    <3> QED
      BY <1>7, <2>1, <3>1 DEF View
  <2>3. CASE synced[s]
    <3>1. told[s] = Scope(log, at[s]) /\ Live(log, q, 0, at[s])
      BY <1>2, <2>3 DEF StreamOK, Opened, q
    <3>2. CASE e.type \in Marks
      <4>1. e.type = "bookmark"
        BY <1>7, <3>2 DEF Marks
      <4>2. told' = told /\ at' = at /\ synced' = synced
        BY <1>3, <1>7, <4>1, Heard
      <4>3. Live(log, Tail(q), 0, at[s])
        BY <1>2, <3>1, <3>2, LiveTail DEF e
      <4>4. Shape'
        BY <1>1, <1>7, <2>1, <4>2 DEF Shape
      <4>5. Opened(s)'
        BY <1>1, <1>2, <1>7, <2>1, <2>3, <3>1, <4>2, <4>3 DEF Opened
      <4>6. StreamOK(s)'
        BY <1>1, <1>2, <1>3, <1>7, <2>1, <4>2, <4>5 DEF StreamOK, Quiet, Listed
      <4> QED
        BY <2>2, <4>4, <4>6 DEF Keeps
    <3>3. CASE e.type \notin Marks
      <4>1. Change(e)
        <5>1. 1 \in 0 + 1 .. Len(q)
          BY <1>2, TailEvent
        <5> QED
          BY <3>1, <3>3, <5>1 DEF Live, e
      <4>2. e.rv \in at[s] + 1 .. Now /\ Live(log, Tail(q), 0, e.rv)
        BY <1>1, <1>2, <3>1, <4>1, LiveHead DEF e
      <4>3. e.rv \in 0 .. Now /\ e.rv \in 1 .. Now
        BY <1>1, <1>2, <4>2
      <4>4. /\ told' \in [Streams -> [Uids -> 0 .. Now]] /\ at' \in [Streams -> 0 .. Now]
            /\ at'[s] = e.rv /\ synced' = synced
            /\ \A u \in Uids : told'[s][u] =
                 IF u = e.uid THEN (IF e.type = "deleted" THEN 0 ELSE e.rv) ELSE told[s][u]
        BY <1>3, <1>7, <2>3, <4>1, <4>3, Heard DEF Change
      <4>5. told'[s] = Scope(log, e.rv)
        <5>1. told'[s] \in [Uids -> Nat]
          BY <1>1, <4>4
        <5>2. \A u \in Uids : told'[s][u] =
                 IF u = q[1].uid THEN (IF q[1].type = "deleted" THEN 0 ELSE q[1].rv)
                 ELSE told[s][u]
          BY <4>4 DEF e
        <5>3. Change(q[1]) /\ at[s] \in 1 .. Len(log) /\ q \in Seq(Events) /\ q # <<>>
          BY <1>1, <1>2, <4>1 DEF e
        <5>4. told'[s] = Scope(log, q[1].rv)
          BY <3>1, <5>1, <5>2, <5>3, LiveTold
        <5> QED
          BY <5>4 DEF e
      <4>6. Shape'
        BY <1>1, <1>7, <2>1, <4>4 DEF Shape
      <4>7. Opened(s)'
        BY <1>1, <1>2, <1>7, <2>1, <2>3, <4>2, <4>4, <4>5 DEF Opened
      <4>8. StreamOK(s)'
        BY <1>1, <1>2, <1>3, <1>7, <2>1, <4>3, <4>4, <4>7 DEF StreamOK, Quiet, Listed
      <4> QED
        BY <2>2, <4>6, <4>8 DEF Keeps
    <3> QED
      BY <3>2, <3>3
  <2>4. CASE ~synced[s]
    <3>1. PICK b \in 1 .. Len(q) : Pending(log, q, b, told[s], at[s]) /\ Live(log, q, b, at[s])
      BY <1>2, <2>4 DEF StreamOK, Opened, q
    <3>2. b \in Nat /\ b > 0 /\ Len(q) \in Nat
      BY <1>2, <3>1, TailEvent
    <3>3. Live(log, Tail(q), b - 1, at[s])
      BY <1>2, <3>1, <3>2, LiveTail
    <3>4. CASE b > 1
      <4>1. e.type = "added" /\ e.uid \in Uids /\ e.rv = log[at[s]].world[e.uid]
        BY <3>1, <3>2, <3>4, PendingHead DEF e
      <4>2. e.rv \in 0 .. Now
        <5>1. log[at[s]].world \in [Uids -> 0 .. at[s]]
          BY <1>1, <1>2 DEF History, Stepwise
        <5> QED
          BY <1>1, <1>2, <4>1, <5>1
      <4>3. /\ \A u \in Uids : told'[s][u] = IF u = e.uid THEN e.rv ELSE told[s][u]
            /\ told' \in [Streams -> [Uids -> 0 .. Now]] /\ at' \in [Streams -> 0 .. Now]
            /\ at'[s] = at[s] /\ synced' = synced
        BY <1>3, <1>7, <2>4, <4>1, <4>2, Heard
      <4>4. Pending(log, Tail(q), b - 1, told'[s], at[s])
        BY <1>2, <3>1, <3>2, <3>4, <4>3, PendingTail DEF e
      <4>5. b - 1 \in 1 .. Len(Tail(q))
        BY <4>4 DEF Pending
      <4>6. Shape'
        BY <1>1, <1>7, <2>1, <4>3 DEF Shape
      <4>7. Opened(s)'
        BY <1>1, <1>2, <1>7, <2>1, <2>4, <3>3, <4>3, <4>4, <4>5 DEF Opened
      <4>8. StreamOK(s)'
        BY <1>1, <1>2, <1>3, <1>7, <2>1, <4>3, <4>7 DEF StreamOK, Quiet, Listed
      <4> QED
        BY <2>2, <4>6, <4>8 DEF Keeps
    <3>5. CASE b = 1
      <4>1. e.type = "initialEventsEnd" /\ told[s] = Scope(log, at[s])
        BY <1>4, <3>1, <3>5, PendingDone DEF e
      <4>2. told' = told /\ at' = at /\ synced' = [synced EXCEPT ![s] = TRUE]
        BY <1>3, <1>7, <4>1, Heard
      <4>3. synced'[s] = TRUE /\ synced' \in [Streams -> BOOLEAN]
        BY <4>2 DEF Shape
      <4>4. Live(log, Tail(q), 0, at[s])
        BY <3>3, <3>5
      <4>5. Shape'
        BY <1>1, <1>7, <2>1, <4>2, <4>3 DEF Shape
      <4>6. Opened(s)'
        BY <1>1, <1>2, <1>7, <2>1, <4>1, <4>2, <4>3, <4>4 DEF Opened
      <4>7. StreamOK(s)'
        BY <1>1, <1>2, <1>3, <1>7, <2>1, <4>2, <4>6 DEF StreamOK, Quiet, Listed
      <4> QED
        BY <2>2, <4>5, <4>7 DEF Keeps
    <3> QED
      BY <3>2, <3>4, <3>5
  <2> QED
    BY <2>3, <2>4
<1> QED
  BY <1>5, <1>6, <1>7

-----------------------------------------------------------------------------
\* The steps of the API server.

\* A write reaches every open watch that selects it, at the end.
LEMMA WriteKeeps ==
    ASSUME IInv, NEW u \in Uids, NEW v \in {0, Now + 1}, Write(u, v)
    PROVE  Shape' /\ History(log)' /\ (\A s \in Streams : StreamOK(s)')
<1> DEFINE x == [uid |-> u, world |-> [log[Now].world EXCEPT ![u] = v]]
           n == Len(log)
           c == [type |-> IF v = 0 THEN "deleted" ELSE "modified", uid |-> u, rv |-> n + 1]
<1>1. n \in Nat \ {0} /\ Now = n /\ History(log) /\ log \in Seq(Worlds)
  BY Present0 DEF IInv, History
<1>2. x = [uid |-> u, world |-> [log[Len(log)].world EXCEPT ![u] = v]] /\ Len(log) < MaxRev
      /\ v \in {0, Len(log) + 1}
  BY <1>1 DEF Write
<1>3. log' = Append(log, x)
  BY DEF Write
<1>4. x \in Worlds /\ History(Append(log, x))
  BY <1>1, <1>2, HistoryGrows
<1>5. /\ Len(log') = n + 1 /\ log'[n + 1] = x /\ x.uid = u /\ x.world[u] = v
      /\ Now' = n + 1
  <2>1. Len(log') = n + 1 /\ log'[n + 1] = x
    BY <1>1, <1>3, <1>4, AppendWorld
  <2>2. log[n].world \in [Uids -> 0 .. n]
    BY <1>1 DEF History, Stepwise
  <2>3. x.uid = u /\ x.world[u] = v
    BY <1>1, <2>2
  <2> QED
    BY <2>1, <2>3 DEF Now
<1> HIDE DEF x
<1>6. c \in Events /\ Change(c) /\ c.rv = n + 1 /\ c.uid = u
  BY <1>1 DEF Events, Change
<1>7. Faithful(log', c)
  BY <1>1, <1>2, <1>5 DEF Faithful
<1>8. feed' = [s \in Streams |-> IF pc[s] = "open" /\ u \in Wanted THEN Append(feed[s], c)
                                 ELSE feed[s]]
  BY <1>1 DEF Write
<1> HIDE DEF c
<1>9. UNCHANGED <<streaming, listThenWatch, pc, list, queue, err, told, at, synced, refused>>
  BY DEF Write
<1>10. \A s \in Streams : feed[s] \in Seq(Events)
  BY DEF IInv, Shape
<1>11. feed' \in [Streams -> Seq(Events)]
  <2>1. \A s \in Streams : Append(feed[s], c) \in Seq(Events)
    BY <1>6, <1>10, AppendEvent
  <2> QED
    BY <1>8, <1>10, <2>1
<1>12. Shape'
  <2>1. 0 .. Now \subseteq 0 .. Now'
    BY <1>1, <1>5
  <2>2. /\ list \in [Streams -> 0 .. Now'] /\ at \in [Streams -> 0 .. Now']
        /\ told \in [Streams -> [Uids -> 0 .. Now']]
    BY <2>1 DEF IInv, Shape
  <2> QED
    BY <1>9, <1>11, <2>2 DEF IInv, Shape
<1>13. ASSUME NEW s \in Streams
       PROVE  StreamOK(s)'
  <2>1. /\ StreamOK(s) /\ feed'[s] = IF pc[s] = "open" /\ u \in Wanted
                                     THEN Append(feed[s], c) ELSE feed[s]
        /\ feed'[s] \in Seq(Events) /\ queue[s] \in Seq(Events) /\ feed[s] \in Seq(Events)
    BY <1>8, <1>11 DEF IInv, StreamOK
  <2>2. Quiet(s)'
    <3>1. 1 .. Now \subseteq 1 .. Now'
      BY <1>1, <1>5
    <3> QED
      BY <1>9, <2>1, <3>1 DEF StreamOK, Quiet
  <2>3. Listed(s)'
    <3>1. ASSUME pc[s] = "rewatching"
          PROVE  /\ list[s] \in 1 .. Now' /\ at[s] <= list[s]
                 /\ Pending(log', queue[s], Len(queue[s]), Nothing, list[s])
      <4>1. /\ list[s] \in 1 .. n /\ at[s] <= list[s]
            /\ Pending(log, queue[s], Len(queue[s]), Nothing, list[s])
        BY <1>1, <2>1, <3>1 DEF StreamOK, Listed
      <4>2. Len(queue[s]) \in Nat
        BY <2>1, LenProperties
      <4>3. Pending(log', queue[s], Len(queue[s]), Nothing, list[s])
        BY <1>1, <1>3, <1>4, <2>1, <4>1, <4>2, PendingGrows
      <4>4. list[s] \in 1 .. Now'
        BY <1>1, <1>5, <4>1
      <4> QED
        BY <4>1, <4>3, <4>4
    <3> QED
      BY <1>9, <3>1 DEF Listed
  <2>4. Opened(s)'
    <3>0. SUFFICES ASSUME pc[s] = "open" PROVE Opened(s)'
      BY <1>9 DEF Opened
    <3>1. at[s] \in 1 .. n /\ at[s] \in 0 .. n /\ at[s] \in Nat
      BY <1>1, <2>1, <3>0 DEF StreamOK, Quiet
    <3>2. ASSUME NEW b \in Nat, b <= Len(feed[s]), Live(log, feed[s], b, at[s])
          PROVE  Live(log', feed'[s], b, at[s])
      <4>1. CASE u \in Wanted
        BY <1>1, <1>3, <1>4, <1>5, <1>6, <1>7, <2>1, <3>0, <3>1, <3>2, <4>1, LiveChange
      <4>2. CASE u \notin Wanted
        BY <1>1, <1>3, <1>4, <1>5, <2>1, <3>1, <3>2, <4>2, LiveElsewhere
      <4> QED
        BY <4>1, <4>2
    <3>3. Len(feed[s]) \in Nat /\ Len(queue[s]) \in Nat
      BY <2>1, LenProperties
    <3>4. CASE /\ synced[s] /\ queue[s] = <<>>
               /\ told[s] = Scope(log, at[s]) /\ Live(log, feed[s], 0, at[s])
      <4>1. Scope(log', at[s]) = Scope(log, at[s])
        BY <1>1, <1>3, <1>4, <3>1, PastScope
      <4>2. Live(log', feed'[s], 0, at[s])
        BY <3>2, <3>3, <3>4
      <4> QED
        BY <1>9, <3>4, <4>1, <4>2 DEF Opened
    <3>5. CASE /\ ~synced[s] /\ queue[s] # <<>>
               /\ Pending(log, queue[s], Len(queue[s]), told[s], at[s])
               /\ Live(log, feed[s], 0, at[s])
      <4>1. Pending(log', queue[s], Len(queue[s]), told[s], at[s])
        BY <1>1, <1>3, <1>4, <2>1, <3>1, <3>3, <3>5, PendingGrows
      <4>2. Live(log', feed'[s], 0, at[s])
        BY <3>2, <3>3, <3>5
      <4> QED
        BY <1>9, <3>5, <4>1, <4>2 DEF Opened
    <3>6. CASE /\ ~synced[s] /\ queue[s] = <<>>
               /\ \E b \in 1 .. Len(feed[s]) : /\ Pending(log, feed[s], b, told[s], at[s])
                                               /\ Live(log, feed[s], b, at[s])
      <4>1. PICK b \in 1 .. Len(feed[s]) : /\ Pending(log, feed[s], b, told[s], at[s])
                                           /\ Live(log, feed[s], b, at[s])
        BY <3>6
      <4>2. b \in Nat /\ b <= Len(feed[s])
        BY <3>3
      <4>3. Live(log', feed'[s], b, at[s])
        BY <3>2, <4>1, <4>2
      <4>4. Pending(log', feed[s], b, told[s], at[s])
        BY <1>1, <1>3, <1>4, <2>1, <3>1, <4>1, <4>2, PendingGrows
      <4>5. Pending(log', feed'[s], b, told[s], at[s])
        BY <1>6, <2>1, <4>2, <4>4, PendingBehind
      <4>6. b \in 1 .. Len(feed'[s])
        BY <4>5 DEF Pending
      <4> QED
        BY <1>9, <3>6, <4>3, <4>5, <4>6 DEF Opened
    <3> QED
      BY <2>1, <3>0, <3>4, <3>5, <3>6 DEF StreamOK, Opened
  <2> QED
    BY <1>9, <2>1, <2>2, <2>3, <2>4 DEF StreamOK
<1> QED
  BY <1>3, <1>4, <1>12, <1>13

\* A bookmark, an error or the close says nothing of an object.
LEMMA PushKeeps ==
    ASSUME Shape, History(log), NEW s \in Streams, StreamOK(s),
           NEW e \in {Bookmark, ErrorEvent, Closed}, Push(s, e)
    PROVE  Keeps(s)
<1>1. e \in Events /\ e.type \in Marks
  BY DEF Bookmark, ErrorEvent, Closed, Events, Marks
<1>2. /\ feed' = [feed EXCEPT ![s] = Append(feed[s], e)] /\ log' = log /\ Now' = Now
      /\ UNCHANGED <<streaming, listThenWatch, pc, list, queue, told, at, synced, refused>>
      /\ pc[s] = "open"
  BY DEF Push, serverVars, Now
<1>3. queue[s] \in Seq(Events) /\ feed[s] \in Seq(Events) /\ at[s] \in 1 .. Now
  BY <1>2 DEF StreamOK, Quiet
<1>4. Append(feed[s], e) \in Seq(Events) /\ Len(feed[s]) \in Nat
  BY <1>1, <1>3, AppendEvent
<1>5. /\ feed'[s] = Append(feed[s], e) /\ feed' \in [Streams -> Seq(Events)]
      /\ \A t \in Streams : t # s => feed'[t] = feed[t]
  BY <1>2, <1>4 DEF Shape
<1>6. at[s] \in Nat
  BY <1>3, Present0
<1>7. ASSUME NEW b \in Nat, b <= Len(feed[s]), Live(log, feed[s], b, at[s])
      PROVE  Live(log, feed'[s], b, at[s])
  BY <1>1, <1>3, <1>5, <1>6, <1>7, LiveMark
<1>8. Opened(s)'
  <2>1. CASE queue[s] # <<>> \/ synced[s]
    <3>1. Live(log, feed'[s], 0, at[s])
      BY <1>2, <1>4, <1>7, <2>1 DEF StreamOK, Opened
    <3> QED
      BY <1>2, <2>1, <3>1 DEF StreamOK, Opened
  <2>2. CASE queue[s] = <<>> /\ ~synced[s]
    <3>1. PICK b \in 1 .. Len(feed[s]) : /\ Pending(log, feed[s], b, told[s], at[s])
                                         /\ Live(log, feed[s], b, at[s])
      BY <1>2, <2>2 DEF StreamOK, Opened
    <3>2. b \in Nat /\ b <= Len(feed[s])
      BY <1>4
    <3>3. Live(log, feed'[s], b, at[s])
      BY <1>7, <3>1, <3>2
    <3>4. Pending(log, feed'[s], b, told[s], at[s])
      BY <1>1, <1>3, <1>5, <3>1, <3>2, PendingBehind
    <3>5. b \in 1 .. Len(feed'[s])
      BY <3>4 DEF Pending
    <3> QED
      BY <1>2, <2>2, <3>3, <3>4, <3>5 DEF Opened
  <2> QED
    BY <2>1, <2>2
<1>9. StreamOK(s)'
  BY <1>2, <1>4, <1>5, <1>8 DEF StreamOK, Quiet, Listed
<1>10. Shape'
  BY <1>2, <1>5 DEF Shape
<1>11. \A t \in Streams : t # s => UNCHANGED View(t)
  BY <1>2, <1>5 DEF View
<1> QED
  BY <1>9, <1>10, <1>11 DEF Keeps

-----------------------------------------------------------------------------
\* The invariant.

\* Before there is a stream, where its Watch is does not matter to anything else.
LEMMA GotoKeeps ==
    ASSUME Shape, NEW s \in Streams, StreamOK(s), NEW p \in {"refused", "listing"}, Goto(s, p),
           pc[s] \in {"asking", "refused"}, listThenWatch' \in BOOLEAN,
           refused' \in [Streams -> BOOLEAN],
           UNCHANGED <<log, streaming, list, queue, feed, told, at, synced>>
    PROVE  Keeps(s)
<1>1. Now' = Now
  BY DEF Now
<1>2. /\ pc' \in [Streams -> {"idle", "asking", "refused", "listing", "rewatching", "open",
                              "ended"}]
      /\ pc'[s] = p /\ \A t \in Streams : t # s => pc'[t] = pc[t]
  BY DEF Goto, Shape
<1>3. Shape'
  BY <1>1, <1>2 DEF Shape
<1>4. StreamOK(s)'
  BY <1>1, <1>2 DEF StreamOK, Quiet, Listed, Opened
<1>5. \A t \in Streams : t # s => UNCHANGED View(t)
  BY <1>2 DEF View
<1> QED
  BY <1>3, <1>4, <1>5 DEF Keeps

\* Every step of a stream keeps what is said of it, and leaves the others alone.
LEMMA StreamKeeps ==
    ASSUME IInv, NEW s \in Streams, Stream(s)
    PROVE  Keeps(s) /\ UNCHANGED log
<1>1. Shape /\ History(log) /\ StreamOK(s)
  BY DEF IInv
<1>2. CASE Watch(s)
  BY <1>1, <1>2, WatchKeeps DEF Watch, serverVars
<1>3. CASE StreamingList(s)
  BY <1>1, <1>3, StreamingListKeeps DEF StreamingList, serverVars
<1>4. CASE RememberListThenWatch(s)
  BY <1>1, <1>4, GotoKeeps DEF RememberListThenWatch, serverVars, Shape
<1>5. CASE List(s)
  BY <1>1, <1>5, ListKeeps DEF List, serverVars
<1>6. CASE Rewatch(s)
  BY <1>1, <1>6, RewatchKeeps DEF Rewatch, serverVars
<1>7. ASSUME NEW f \in Faults, StreamingListFails(s, f)
      PROVE  Keeps(s) /\ UNCHANGED log
  <2>1. refused' \in [Streams -> BOOLEAN] /\ UNCHANGED <<log, streaming, listThenWatch>>
    <3>1. (refused[s] \/ "sendInitialEvents" \in Facts(f)) \in BOOLEAN
      BY <1>1, Zenon
    <3>2. UNCHANGED <<log, streaming, listThenWatch>>
      BY <1>7 DEF StreamingListFails, serverVars
    <3> QED
      BY <1>1, <1>7, <3>1, <3>2 DEF StreamingListFails, Shape
  <2>2. CASE EndWith(s, f, Classify(f))
    BY <1>1, <2>1, <2>2, EndKeeps
  <2>3. CASE ~EndWith(s, f, Classify(f))
    BY <1>1, <1>7, <2>1, <2>3, GotoKeeps DEF StreamingListFails, Shape
  <2> QED
    BY <2>2, <2>3
<1>8. ASSUME NEW f \in Faults, RequestFails(s, f)
      PROVE  Keeps(s) /\ UNCHANGED log
  BY <1>1, <1>8, EndKeeps DEF RequestFails, serverVars, Shape
<1>9. CASE NextQueued(s)
  BY <1>1, <1>9, NextQueuedKeeps DEF NextQueued, serverVars
<1>10. CASE NextLive(s)
  BY <1>1, <1>10, NextLiveKeeps DEF NextLive, serverVars
<1>11. CASE Cancel(s)
  BY <1>1, <1>11, EndKeeps DEF Cancel, serverVars, Shape
<1> QED
  BY <1>2, <1>3, <1>4, <1>5, <1>6, <1>7, <1>8, <1>9, <1>10, <1>11 DEF Stream

\* Only an error that names the field is a refusal of streaming lists, and every such
\* error has a status that isSendInitialEventsRefused accepts.
LEMMA RefusalIsRecognised ==
    ASSUME NEW f, "sendInitialEvents" \in Facts(f)
    PROVE  IsSendInitialEventsRefused(f)
<1>1. f = "refused422" \/ f = "refused403"
  BY Zenon DEF Facts
<1>2. /\ Facts("refused422") = {"status", "invalid", "sendInitialEvents"}
      /\ Facts("refused403") = {"status", "forbidden", "sendInitialEvents"}
  BY Zenon DEF Facts
<1> QED
  BY <1>1, <1>2 DEF IsSendInitialEventsRefused

\* Nothing is remembered at first.
LEMMA MemoryInit == Init => Memory
BY DEF Init, Memory

\* listThenWatch is set by a refusal only, and by the one that is recorded.
LEMMA MemoryNext ==
    ASSUME Shape, Memory, [Next]_vars
    PROVE  Memory'
<1>1. CASE UNCHANGED <<pc, listThenWatch, refused>>
  BY <1>1 DEF Memory
<1>2. ASSUME NEW s \in Streams, UNCHANGED <<listThenWatch, refused>>,
             \/ pc' = [pc EXCEPT ![s] = "open"] /\ pc[s] # "refused"
             \/ pc' = [pc EXCEPT ![s] = "rewatching"] /\ pc[s] # "refused"
             \/ pc' = [pc EXCEPT ![s] = "ended"] /\ pc[s] # "refused"
      PROVE  Memory'
  BY <1>2 DEF Memory, Shape
<1>3. ASSUME NEW s \in Streams, Watch(s)
      PROVE  Memory'
  BY <1>3 DEF Watch, Goto, Memory, Shape
<1>4. ASSUME NEW s \in Streams, RememberListThenWatch(s)
      PROVE  Memory'
  BY <1>4 DEF RememberListThenWatch, Goto, Memory, Shape
<1>5. ASSUME NEW s \in Streams, NEW f \in Faults, StreamingListFails(s, f)
      PROVE  Memory'
  <2>1. ~refused[s] /\ pc[s] = "asking" /\ listThenWatch' = listThenWatch
    BY <1>5 DEF StreamingListFails, Memory
  <2>2. CASE "sendInitialEvents" \in Facts(f)
    <3>1. /\ pc' = [pc EXCEPT ![s] = "refused"]
          /\ refused' = [refused EXCEPT ![s] = TRUE]
      <4>1. (refused[s] \/ "sendInitialEvents" \in Facts(f)) = TRUE
        BY <2>2, Zenon
      <4> QED
        BY <1>5, <2>2, <4>1, RefusalIsRecognised DEF StreamingListFails, Goto
    <3> QED
      BY <2>1, <3>1 DEF Memory, Shape
  <2>3. CASE "sendInitialEvents" \notin Facts(f)
    <3>1. pc' = [pc EXCEPT ![s] = "ended"] /\ refused' = refused
      <4>1. (refused[s] \/ "sendInitialEvents" \in Facts(f)) = FALSE
        BY <2>1, <2>3, Zenon
      <4>2. ~IsSendInitialEventsRefused(f)
        BY <2>3 DEF IsSendInitialEventsRefused
      <4>3. refused' = [refused EXCEPT ![s] = FALSE]
        BY <1>5, <4>1 DEF StreamingListFails
      <4>4. refused[s] = FALSE
        BY <2>1 DEF Shape
      <4>5. refused' = refused
        BY <4>3, <4>4 DEF Shape
      <4> QED
        BY <1>5, <4>2, <4>5 DEF StreamingListFails, EndWith, Goto
    <3> QED
      BY <1>2, <2>1, <3>1
  <2> QED
    BY <2>2, <2>3
<1>6. ASSUME Server
      PROVE  UNCHANGED <<pc, listThenWatch, refused>>
  BY <1>6 DEF Server, Write, Upgrade, Push
<1>7. ASSUME NEW s \in Streams, Stream(s)
      PROVE  Memory'
  <2>1. CASE StreamingList(s) \/ List(s) \/ Rewatch(s) \/ Cancel(s)
    BY <1>2, <2>1 DEF StreamingList, List, Rewatch, Cancel, EndWith, Goto
  <2>2. ASSUME NEW f \in Faults, RequestFails(s, f)
        PROVE  Memory'
    BY <1>2, <2>2 DEF RequestFails, EndWith, Goto
  <2>3. CASE NextQueued(s)
    BY <1>1, <2>3 DEF NextQueued
  <2>4. CASE NextLive(s)
    <3>1. /\ UNCHANGED <<listThenWatch, refused>> /\ pc[s] = "open"
          /\ (pc' = pc \/ pc' = [pc EXCEPT ![s] = "ended"])
      BY <2>4 DEF NextLive, EndWith, Goto
    <3> QED
      BY <1>1, <1>2, <3>1
  <2> QED
    BY <1>3, <1>4, <1>5, <1>7, <2>1, <2>2, <2>3, <2>4 DEF Stream
<1> QED
  BY <1>1, <1>6, <1>7 DEF Next, vars

\* The invariant holds at first.
LEMMA IInvInit == Init => IInv
<1> SUFFICES ASSUME Init PROVE IInv
  OBVIOUS
<1> DEFINE u0 == CHOOSE u \in Uids : TRUE
           w0 == [u \in Uids |-> IF u \in Present THEN 1 ELSE 0]
           x == [uid |-> u0, world |-> w0]
<1>1. u0 \in Uids /\ w0 \in [Uids -> Nat] /\ w0 \in [Uids -> 0 .. 1]
  BY ScopeAssumption
<1>2. log = <<x>>
  BY DEF Init
<1>3. x \in Worlds /\ x.world = w0
  <2> HIDE DEF u0, w0
  <2> QED
    BY <1>1, WorldType
<1> HIDE DEF x, u0, w0
<1>4. Len(log) = 1 /\ log[1] = x /\ log \in Seq(Worlds) /\ Now = 1
  BY <1>2, <1>3 DEF Now
<1>5. Stepwise(log)
  <2>1. \A v \in 1 .. 1 : v = 1
    OBVIOUS
  <2>2. 2 .. 1 = {}
    OBVIOUS
  <2> QED
    BY <1>1, <1>3, <1>4, <2>1, <2>2 DEF Stepwise
<1>6. Stretches(log)
  <2>1. \A v \in 1 .. 1 : v = 1
    OBVIOUS
  <2> QED
    BY <1>4, <2>1 DEF Stretches
<1>7. History(log)
  <2>1. 1 \in Revs
    BY DEF Revs
  <2> QED
    BY <1>4, <1>5, <1>6, <2>1 DEF History
<1>8. <<>> \in Seq(Events) /\ Nothing \in [Uids -> 0 .. Now] /\ 0 \in 0 .. Now
  BY <1>7, Present0
<1>9. Shape
  BY <1>8 DEF Init, Shape
<1>10. \A s \in Streams : StreamOK(s)
  BY <1>8 DEF Init, StreamOK, Quiet, Listed, Opened
<1> QED
  BY <1>7, <1>9, <1>10, MemoryInit DEF IInv

\* Every step keeps it.
LEMMA IInvNext == IInv /\ [Next]_vars => IInv'
<1> SUFFICES ASSUME IInv, [Next]_vars PROVE IInv'
  OBVIOUS
<1>1. Memory'
  BY MemoryNext DEF IInv
<1>2. ASSUME NEW s \in Streams, Keeps(s), UNCHANGED log
      PROVE  IInv'
  <2>1. \A t \in Streams : StreamOK(t)'
    BY <1>2, Elsewhere DEF Keeps, IInv
  <2> QED
    BY <1>1, <1>2, <2>1 DEF Keeps, IInv
<1>3. ASSUME NEW s \in Streams, Stream(s)
      PROVE  IInv'
  BY <1>2, <1>3, StreamKeeps
<1>4. ASSUME NEW u \in Uids, NEW v \in {0, Now + 1}, Write(u, v)
      PROVE  IInv'
  BY <1>1, <1>4, WriteKeeps DEF IInv
<1>5. ASSUME NEW s \in Streams, NEW e \in {Bookmark, ErrorEvent, Closed}, Push(s, e)
      PROVE  IInv'
  <2>1. Keeps(s) /\ UNCHANGED log
    BY <1>5, PushKeeps DEF IInv, Push, serverVars
  <2> QED
    BY <1>2, <2>1
<1>6. CASE Upgrade
  <2>1. \A t \in Streams : StreamOK(t)'
    BY <1>6, Elsewhere DEF Upgrade, IInv, View
  <2>2. Shape' /\ History(log)'
    BY <1>6 DEF Upgrade, IInv, Shape, Now
  <2> QED
    BY <1>1, <2>1, <2>2 DEF IInv
<1>7. CASE UNCHANGED vars
  <2>1. \A t \in Streams : StreamOK(t)'
    BY <1>7, Elsewhere DEF vars, serverVars, IInv, View
  <2>2. Shape' /\ History(log)'
    BY <1>7 DEF vars, serverVars, IInv, Shape, Now
  <2> QED
    BY <1>1, <2>1, <2>2 DEF IInv
<1> QED
  BY <1>3, <1>4, <1>5, <1>6, <1>7 DEF Next, Server

\* Every reachable state, for any number of streams, satisfies the invariant.
THEOREM Invariant == Spec => []IInv
<1>1. Init => IInv
  BY IInvInit
<1>2. IInv /\ [Next]_vars => IInv'
  BY IInvNext
<1> QED
  BY <1>1, <1>2, PTL DEF Spec

\* The fallback memory of the Backend is set only after the server refused somebody's
\* streaming list, and a stream it refused never asks for one again (rememberListThenWatch
\* and the look-up at the head of Watch), whatever the interleaving.
THEOREM MemoryEarned == Spec => []MemoryIsEarned
<1>1. IInv => MemoryIsEarned
  <2> SUFFICES ASSUME IInv PROVE MemoryIsEarned
    OBVIOUS
  <2>1. DOMAIN log = 1 .. Now /\ Now \in Revs
    <3>1. log \in Seq(Worlds)
      BY DEF IInv, History
    <3> QED
      BY <3>1, LenProperties DEF IInv, History, Now
  <2>2. \A v \in 1 .. Now : log[v] \in Worlds /\ log[v].world \in [Uids -> 0 .. v]
    BY ElementOfSeq DEF IInv, History, Stepwise, Now
  <2>3. TypeOK
    BY <2>1, <2>2 DEF TypeOK, IInv, Shape, Worlds
  <2> QED
    BY <2>3 DEF IInv, Memory, MemoryIsEarned
<1> QED
  BY <1>1, Invariant, PTL

-----------------------------------------------------------------------------
\* Errors.

\* classify and watchError of each fault that a doc comment of the Backend names.
LEMMA StatusVerdicts ==
    /\ ClassifyStatus("unauthorized") = Verdict("UNAUTHENTICATED", TRUE)
    /\ ClassifyStatus("forbidden") = Verdict("FORBIDDEN", TRUE)
    /\ ClassifyStatus("refused403") = Verdict("FORBIDDEN", TRUE)
    /\ ClassifyStatus("notFound") = Verdict("SCOPE_INVALID", TRUE)
    /\ ClassifyStatus("expired") = Verdict("RESYNC_REQUIRED", FALSE)
    /\ ClassifyStatus("tooManyRequests") = Verdict("UPSTREAM_UNAVAILABLE", FALSE)
    /\ ClassifyStatus("serverError") = Verdict("UPSTREAM_UNAVAILABLE", FALSE)
    /\ ClassifyStatus("untrusted") = None /\ ClassifyStatus("network") = None
<1>1. /\ Facts("unauthorized") = {"status", "unauthorized"}
      /\ Facts("forbidden") = {"status", "forbidden"}
      /\ Facts("refused403") = {"status", "forbidden", "sendInitialEvents"}
  BY Zenon DEF Facts
<1>2. /\ Facts("notFound") = {"status", "notFound"}
      /\ Facts("expired") = {"status", "expired"}
      /\ Facts("tooManyRequests") = {"status", "tooManyRequests"}
      /\ Facts("serverError") = {"status", "code5xx"}
  BY Zenon DEF Facts
<1>3. Facts("untrusted") = {"cert", "net"} /\ Facts("network") = {"net"}
  BY Zenon DEF Facts
<1>4. /\ ClassifyStatus("unauthorized") = Verdict("UNAUTHENTICATED", TRUE)
      /\ ClassifyStatus("forbidden") = Verdict("FORBIDDEN", TRUE)
      /\ ClassifyStatus("refused403") = Verdict("FORBIDDEN", TRUE)
  BY <1>1, Zenon DEF ClassifyStatus
<1>5. /\ ClassifyStatus("notFound") = Verdict("SCOPE_INVALID", TRUE)
      /\ ClassifyStatus("expired") = Verdict("RESYNC_REQUIRED", FALSE)
  BY <1>2, Zenon DEF ClassifyStatus
<1>6. /\ ClassifyStatus("tooManyRequests") = Verdict("UPSTREAM_UNAVAILABLE", FALSE)
      /\ ClassifyStatus("serverError") = Verdict("UPSTREAM_UNAVAILABLE", FALSE)
  BY <1>2, Zenon DEF ClassifyStatus
<1>7. ClassifyStatus("untrusted") = None /\ ClassifyStatus("network") = None
  BY <1>3, Zenon DEF ClassifyStatus
<1> QED
  BY <1>4, <1>5, <1>6, <1>7

\* classify and watchError end a stream for good over what a retry cannot cure, ...
LEMMA VerdictsArePermanent ==
    \A f \in Permanent \ {"garbled"} :
        Classify(f).terminal /\ ("net" \notin Facts(f) => WatchError(f).terminal)
<1>1. /\ "redirect" \in Facts("redirect") /\ "net" \in Facts("redirect")
      /\ "cert" \in Facts("untrusted") /\ "net" \in Facts("untrusted")
      /\ "redirect" \notin Facts("untrusted")
  BY Zenon DEF Facts
<1>2. Classify("redirect").terminal
  BY <1>1 DEF Classify, Internal, Verdict
<1>3. Classify("untrusted").terminal
  BY <1>1, StatusVerdicts DEF Classify, Unavailable, Internal, Verdict
<1>4. ASSUME NEW f, ClassifyStatus(f) # None, ClassifyStatus(f).terminal
      PROVE  Classify(f).terminal /\ WatchError(f).terminal
  BY <1>4 DEF Classify, WatchError, Internal, Verdict
<1>5. ASSUME NEW f \in {"unauthorized", "forbidden", "refused403", "notFound"}
      PROVE  ClassifyStatus(f) # None /\ ClassifyStatus(f).terminal
  BY StatusVerdicts DEF Verdict, None
<1> QED
  BY <1>1, <1>2, <1>3, <1>4, <1>5 DEF Permanent

\* ... and never over what it may.
LEMMA VerdictsAreTransient ==
    \A f \in Transient \ {"closed", "canceled"} :
        ~Classify(f).terminal /\ ~WatchError(f).terminal
<1>1. /\ "redirect" \notin Facts("network") /\ "cert" \notin Facts("network")
      /\ "net" \in Facts("network")
      /\ "redirect" \notin Facts("expired") /\ "redirect" \notin Facts("tooManyRequests")
      /\ "redirect" \notin Facts("serverError")
  BY Zenon DEF Facts
<1>2. ~Classify("network").terminal /\ ~WatchError("network").terminal
  BY <1>1, StatusVerdicts DEF Classify, WatchError, Unavailable, Verdict
<1>3. ASSUME NEW f \in {"expired", "tooManyRequests", "serverError"}
      PROVE  ~Classify(f).terminal /\ ~WatchError(f).terminal
  <2>1. ClassifyStatus(f) # None /\ ~ClassifyStatus(f).terminal /\ "redirect" \notin Facts(f)
    BY <1>1, StatusVerdicts DEF Verdict, None
  <2> QED
    BY <2>1 DEF Classify, WatchError
<1> QED
  BY <1>2, <1>3 DEF Transient

\* What neither of them can tell ends the stream at its opening, and resynchronises it after.
LEMMA VerdictsOfTheRest ==
    \A f \in Unclassified : Classify(f).terminal /\ ~WatchError(f).terminal
<1>1. /\ Facts("refused422") = {"status", "invalid", "sendInitialEvents"}
      /\ Facts("invalid") = {"status", "invalid"} /\ Facts("other") = {}
  BY Zenon DEF Facts
<1>2. /\ ClassifyStatus("refused422") = None /\ ClassifyStatus("invalid") = None
      /\ ClassifyStatus("other") = None
  BY <1>1, Zenon DEF ClassifyStatus
<1>3. ASSUME NEW f \in Unclassified
      PROVE  /\ ClassifyStatus(f) = None
             /\ "redirect" \notin Facts(f) /\ "net" \notin Facts(f)
  BY <1>1, <1>2, <1>3 DEF Unclassified
<1> QED
  BY <1>3 DEF Classify, WatchError, Unavailable, Internal, Verdict

\* The labels of the ends that no request brought name no fault of a request.
LEMMA OwnEnds ==
    /\ "closed" \in Transient /\ "closed" \notin Permanent \cup Unclassified
    /\ "canceled" \in Transient /\ "canceled" \notin Permanent \cup Unclassified
    /\ "garbled" \in Permanent /\ "garbled" \notin Transient \cup Unclassified
BY DEF Transient, Permanent, Unclassified

\* A stream that ends over a fault ends with the verdict on it: classify's while it is
\* being opened, watchError's once it is open.
LEMMA VerdictGiven ==
    ASSUME DOMAIN err = Streams, NEW s \in Streams, NEW f, NEW v, EndWith(s, f, v),
           \/ f \in Faults /\ pc[s] # "open" /\ v = Classify(f)
           \/ f \in Faults /\ pc[s] = "open" /\ "net" \notin Facts(f) /\ v = WatchError(f)
           \/ f = "garbled" /\ v = Internal
           \/ f = "closed" /\ v = Verdict("CLOSED", FALSE)
           \/ f = "canceled" /\ v = Verdict("CANCELED", FALSE)
    PROVE  GivesUpRightly(s)
<1>1. err'[s].fault = f /\ err'[s].verdict = v
  BY DEF EndWith
<1>2. CASE f \in Faults /\ pc[s] # "open" /\ v = Classify(f)
  <2>1. f \notin {"closed", "canceled", "garbled"}
    BY <1>2, FaultsAssumption
  <2> QED
    BY <1>1, <1>2, <2>1, VerdictsArePermanent, VerdictsAreTransient, VerdictsOfTheRest
    DEF GivesUpRightly
<1>3. CASE f \in Faults /\ pc[s] = "open" /\ "net" \notin Facts(f) /\ v = WatchError(f)
  <2>1. f \notin {"closed", "canceled", "garbled"}
    BY <1>3, FaultsAssumption
  <2> QED
    BY <1>1, <1>3, <2>1, VerdictsArePermanent, VerdictsAreTransient, VerdictsOfTheRest
    DEF GivesUpRightly
<1>4. CASE f = "garbled" /\ v = Internal
  BY <1>1, <1>4, OwnEnds DEF GivesUpRightly, Internal, Verdict
<1>5. CASE \/ f = "closed" /\ v = Verdict("CLOSED", FALSE)
           \/ f = "canceled" /\ v = Verdict("CANCELED", FALSE)
  BY <1>1, <1>5, OwnEnds DEF GivesUpRightly, Verdict
<1> QED
  BY <1>2, <1>3, <1>4, <1>5

\* Every stream has the error it ended with on record.
Recorded == DOMAIN err = Streams
LEMMA ErrNext ==
    ASSUME DOMAIN err = Streams, [Next]_vars
    PROVE  DOMAIN err' = Streams
<1>1. ASSUME NEW s, NEW f, NEW v, EndWith(s, f, v)
      PROVE  DOMAIN err' = Streams
  BY <1>1 DEF EndWith
<1>2. CASE UNCHANGED err
  BY <1>2
<1>3. ASSUME Server
      PROVE  UNCHANGED err
  BY <1>3 DEF Server, Write, Upgrade, Push
<1>4. ASSUME NEW s \in Streams, Stream(s)
      PROVE  DOMAIN err' = Streams
  <2>1. CASE Watch(s)
    BY <2>1 DEF Watch
  <2>2. CASE StreamingList(s) \/ RememberListThenWatch(s) \/ List(s) \/ Rewatch(s)
             \/ NextQueued(s)
    BY <1>2, <2>2 DEF StreamingList, RememberListThenWatch, List, Rewatch, NextQueued
  <2>3. CASE \E f \in Faults : StreamingListFails(s, f) \/ RequestFails(s, f)
    BY <1>1, <1>2, <2>3 DEF StreamingListFails, RequestFails
  <2>4. CASE NextLive(s)
    BY <1>1, <1>2, <2>4 DEF NextLive
  <2>5. CASE Cancel(s)
    BY <1>1, <2>5 DEF Cancel
  <2> QED
    BY <1>4, <2>1, <2>2, <2>3, <2>4, <2>5 DEF Stream
<1> QED
  BY <1>2, <1>3, <1>4 DEF Next, vars

\* A step that ends a stream tells its consumer to give up, or not, as the fault deserves.
LEMMA EndingRightly ==
    ASSUME DOMAIN err = Streams, Shape, [Next]_vars, NEW s \in Streams,
           pc[s] # "ended", pc'[s] = "ended"
    PROVE  GivesUpRightly(s)
<1>1. ~UNCHANGED pc
  OBVIOUS
<1>2. PICK t \in Streams : Stream(t)
  <2>1. Server => UNCHANGED pc
    BY DEF Server, Write, Upgrade, Push
  <2> QED
    BY <1>1, <2>1 DEF Next, vars
<1>3. ASSUME NEW u, NEW p, Goto(u, p)
      PROVE  s = u /\ p = "ended"
  BY <1>3 DEF Goto, Shape
<1>4. ASSUME NEW u, NEW f, NEW v, EndWith(u, f, v)
      PROVE  s = u
  BY <1>3, <1>4 DEF EndWith
<1>5. ~Watch(t) /\ ~StreamingList(t) /\ ~RememberListThenWatch(t) /\ ~List(t)
      /\ ~Rewatch(t) /\ ~NextQueued(t)
  <2>1. ~Watch(t)
    BY <1>3 DEF Watch
  <2>2. ~StreamingList(t) /\ ~RememberListThenWatch(t) /\ ~List(t) /\ ~Rewatch(t)
    BY <1>3 DEF StreamingList, RememberListThenWatch, List, Rewatch
  <2>3. ~NextQueued(t)
    BY <1>1 DEF NextQueued
  <2> QED
    BY <2>1, <2>2, <2>3
<1>6. ASSUME NEW f \in Faults, StreamingListFails(t, f) \/ RequestFails(t, f)
      PROVE  GivesUpRightly(s)
  <2>1. ~Goto(t, "refused")
    BY <1>3
  <2>2. EndWith(t, f, Classify(f)) /\ pc[t] # "open"
    BY <1>6, <2>1 DEF StreamingListFails, RequestFails
  <2> QED
    BY <1>4, <2>2, VerdictGiven
<1>7. CASE NextLive(t)
  <2>1. pc[t] = "open"
    BY <1>7 DEF NextLive
  <2>2. \/ \E f \in Faults : "net" \notin Facts(f) /\ EndWith(t, f, WatchError(f))
        \/ EndWith(t, "garbled", Internal)
        \/ EndWith(t, "closed", Verdict("CLOSED", FALSE))
    BY <1>1, <1>7 DEF NextLive
  <2> QED
    BY <1>4, <2>1, <2>2, VerdictGiven
<1>8. CASE Cancel(t)
  <2>1. EndWith(t, "canceled", Verdict("CANCELED", FALSE))
    BY <1>8 DEF Cancel
  <2> QED
    BY <1>4, <2>1, VerdictGiven
<1> QED
  BY <1>2, <1>5, <1>6, <1>7, <1>8 DEF Stream

\* A consumer is told to give up (a terminal StreamError of classify or watchError, or the
\* INTERNAL of an error they do not know) for every fault that opening again cannot cure,
\* and for none that it may; what nothing classifies is given up at the opening only.
THEOREM TerminalPermanent == Spec => TerminalIsPermanent
<1>1. Init => Recorded
  BY DEF Init, Recorded
<1>2. Recorded /\ [Next]_vars => Recorded'
  BY ErrNext DEF Recorded
<1>3. Recorded /\ IInv /\ [Next]_vars => [EndsRightly]_vars
  BY EndingRightly DEF IInv, EndsRightly, Recorded
<1> QED
  BY <1>1, <1>2, <1>3, Invariant, PTL DEF Spec, TerminalIsPermanent

-----------------------------------------------------------------------------
\* The refinement: what each step does to the stream that its consumer sees.

\* A step that the consumer cannot see is a stutter of the contract, ...
LEMMA Stutters ==
    ASSUME NEW s \in Streams, UNCHANGED <<log, Phase(s), told[s], at[s]>>
    PROVE  [Promise(s)!Next]_(Promise(s)!vars)
BY DEF Promise!vars

\* ... such as a step of another stream.
LEMMA StuttersElsewhere ==
    ASSUME NEW s \in Streams, UNCHANGED <<log, View(s)>>
    PROVE  [Promise(s)!Next]_(Promise(s)!vars)
BY Stutters DEF View, Phase

\* The end of a stream is one the contract allows.
LEMMA EndsPromise ==
    ASSUME Shape, NEW s \in Streams, NEW f, NEW v, EndWith(s, f, v), UNCHANGED log,
           pc[s] \notin {"idle", "ended"}
    PROVE  Promise(s)!Next
<1>1. pc'[s] = "ended" /\ told'[s] = Nothing /\ at'[s] = 0
  BY DEF EndWith, Goto, Shape
<1>2. Phase(s) \notin {"idle", "ended"} /\ Phase(s)' = "ended"
  BY <1>1 DEF Phase, Shape
<1>3. Promise(s)!End
  BY <1>1, <1>2 DEF Promise!End, Promise!Nothing, Nothing
<1> QED
  BY <1>3 DEF Promise!Next

\* An answered opening is a snapshot no older than the call.
LEMMA AnswersPromise ==
    ASSUME Shape, NEW s \in Streams, UNCHANGED <<log, told>>, ~synced'[s], Phase(s) = "asking",
           pc'[s] = "open", at'[s] \in at[s] .. Now
    PROVE  Promise(s)!Next
<1>1. Phase(s)' = "snapshot"
  BY DEF Phase
<1>2. Promise(s)!Answer
  BY <1>1 DEF Promise!Answer, Now
<1> QED
  BY <1>2 DEF Promise!Next

\* An event ahead of the boundary tells one more object of the snapshot.
LEMMA TellsPromise ==
    ASSUME NEW s \in Streams, UNCHANGED log, Phase(s) = "snapshot", Phase(s)' = "snapshot",
           NEW q, NEW b \in Nat, b > 1, Pending(log, q, b, told[s], at[s]),
           told[s] \in [Uids -> Nat], told'[s] \in [Uids -> Nat], at'[s] = at[s],
           \A u \in Uids : told'[s][u] = IF u = q[1].uid THEN q[1].rv ELSE told[s][u]
    PROVE  Promise(s)!Next
<1> DEFINE d == q[1].uid
<1>0. q[1].uid \in Wanted /\ q[1].rv = log[at[s]].world[q[1].uid] /\ q[1].rv # 0
  BY PendingHead
<1>1. /\ d \in Wanted /\ d \in Uids /\ told[s][d] = 0
      /\ q[1].rv = log[at[s]].world[d] /\ q[1].rv # 0
  <2>1. 1 \in 1 .. b - 1
    OBVIOUS
  <2>2. told[s][q[1].uid] = 0
    BY <2>1 DEF Pending
  <2> QED
    BY <1>0, <2>2
<1>2. Promise(s)!InScope(at[s])[d] = q[1].rv
  BY <1>1 DEF Promise!InScope
<1>3. told'[s] = [told[s] EXCEPT ![d] = q[1].rv]
  OBVIOUS
<1>4. Promise(s)!Tell(d)
  BY <1>1, <1>2, <1>3 DEF Promise!Tell
<1> QED
  BY <1>1, <1>4 DEF Promise!Next

\* The boundary comes when the whole snapshot has been told.
LEMMA BoundsPromise ==
    ASSUME NEW s \in Streams, UNCHANGED <<log, told, at>>, Phase(s) = "snapshot",
           Phase(s)' = "live", told[s] = Scope(log, at[s])
    PROVE  Promise(s)!Next
BY DEF Promise!Next, Promise!Boundary, Promise!InScope, Scope

\* A live event is the next change of the scope.
LEMMA FollowsPromise ==
    ASSUME NEW s \in Streams, UNCHANGED log, Phase(s) = "live", Phase(s)' = "live",
           NEW r \in at[s] + 1 .. Len(log), at'[s] = r, told[s] = Scope(log, at[s]),
           \A w \in at[s] .. r - 1 : Scope(log, w) = Scope(log, at[s]),
           told'[s] = Scope(log, r)
    PROVE  Promise(s)!Next
<1>1. \A w : Promise(s)!InScope(w) = Scope(log, w)
  BY DEF Promise!InScope, Scope
<1>2. Promise(s)!InScope(at[s])' = Scope(log, at[s])'
  BY DEF Promise!InScope, Scope
<1>3. Promise(s)!Follow
  BY <1>1, <1>2 DEF Promise!Follow
<1> QED
  BY <1>3 DEF Promise!Next

\* A stream in its snapshot hears of an object, or of the boundary.
LEMMA HearsSnapshot ==
    ASSUME Shape, Shape', History(log), NEW s \in Streams, ~synced[s], pc[s] = "open",
           UNCHANGED <<log, pc>>,
           NEW q \in Seq(Events), q # <<>>, Hear(s, q[1]),
           NEW b \in 1 .. Len(q), Pending(log, q, b, told[s], at[s])
    PROVE  Promise(s)!Next
<1>1. q[1] \in Events /\ b \in Nat /\ b > 0
  BY TailEvent
<1>2. told[s] \in [Uids -> Nat] /\ told'[s] \in [Uids -> Nat]
  <2>1. Now' = Now /\ Now \in Nat
    BY Present0 DEF Now
  <2>2. told[s] \in [Uids -> 0 .. Now] /\ told'[s] \in [Uids -> 0 .. Now]
    BY <2>1 DEF Shape
  <2> QED
    BY <2>1, <2>2
<1>3. Phase(s) = "snapshot"
  BY DEF Phase
<1>4. CASE b > 1
  <2>1. q[1].type = "added"
    BY <1>1, <1>4, PendingHead
  <2>2. /\ \A u \in Uids : told'[s][u] = IF u = q[1].uid THEN q[1].rv ELSE told[s][u]
        /\ at'[s] = at[s] /\ synced' = synced
    BY <1>1, <2>1, Heard
  <2>3. Phase(s)' = "snapshot"
    BY <1>3, <2>2 DEF Phase
  <2> QED
    BY <1>1, <1>2, <1>3, <1>4, <2>2, <2>3, TellsPromise
<1>5. CASE b = 1
  <2>1. q[1].type = "initialEventsEnd" /\ told[s] = Scope(log, at[s])
    BY <1>2, <1>5, PendingDone
  <2>2. told' = told /\ at' = at /\ synced' = [synced EXCEPT ![s] = TRUE]
    BY <1>1, <2>1, Heard
  <2>3. Phase(s)' = "live"
    BY <2>2 DEF Phase, Shape
  <2> QED
    BY <1>3, <2>1, <2>2, <2>3, BoundsPromise
<1> QED
  BY <1>1, <1>4, <1>5

\* A live stream hears of the next change, or of nothing.
LEMMA HearsLive ==
    ASSUME Shape, Shape', History(log), NEW s \in Streams, StreamOK(s), synced[s], pc[s] = "open",
           UNCHANGED <<log, pc>>, feed[s] # <<>>, Hear(s, feed[s][1]),
           feed[s][1].type \notin {"error", "closed"}
    PROVE  [Promise(s)!Next]_(Promise(s)!vars)
<1> DEFINE q == feed[s]
<1>1. /\ q \in Seq(Events) /\ q[1] \in Events /\ 1 \in 0 + 1 .. Len(q)
      /\ told[s] = Scope(log, at[s]) /\ Live(log, q, 0, at[s])
      /\ at[s] \in 1 .. Len(log)
  BY TailEvent DEF StreamOK, Opened, Quiet, Now
<1>2. CASE q[1].type \in Marks
  <2>1. q[1].type = "bookmark"
    BY <1>2 DEF Marks
  <2>2. told' = told /\ at' = at /\ synced' = synced
    BY <1>1, <2>1, Heard
  <2> QED
    BY <2>2, Stutters DEF Phase
<1>3. CASE q[1].type \notin Marks
  <2>1. Change(q[1])
    BY <1>1, <1>3 DEF Live
  <2>2. /\ q[1].rv \in at[s] + 1 .. Len(log)
        /\ \A w \in at[s] .. q[1].rv - 1 : Scope(log, w) = Scope(log, at[s])
    BY <1>1, <2>1, LiveHead
  <2>3. /\ \A u \in Uids : told'[s][u] =
             IF u = q[1].uid THEN (IF q[1].type = "deleted" THEN 0 ELSE q[1].rv)
             ELSE told[s][u]
        /\ at'[s] = q[1].rv /\ synced' = synced
    BY <1>1, <2>1, Heard DEF Change
  <2>4. told'[s] \in [Uids -> Nat]
    BY Present0 DEF Shape, Now
  <2>5. told'[s] = Scope(log, q[1].rv)
    BY <1>1, <2>1, <2>3, <2>4, LiveTold
  <2>6. Phase(s) = "live" /\ Phase(s)' = "live"
    BY <2>3 DEF Phase
  <2> QED
    BY <1>1, <2>2, <2>3, <2>5, <2>6, FollowsPromise
<1> QED
  BY <1>2, <1>3

\* Every step of a stream is one of the contract's, or a stutter.
LEMMA StreamPromise ==
    ASSUME IInv, IInv', NEW s \in Streams, Stream(s)
    PROVE  [Promise(s)!Next]_(Promise(s)!vars)
<1>1. Shape /\ Shape' /\ History(log) /\ StreamOK(s) /\ log' = log /\ Now \in Nat /\ Now = Len(log)
  BY StreamKeeps, Present0 DEF IInv
<1>2. CASE Watch(s)
  <2>1. /\ Phase(s) \in {"idle", "ended"} /\ Phase(s)' = "asking"
        /\ told'[s] = Nothing /\ at'[s] = Len(log)
    BY <1>1, <1>2 DEF Watch, Goto, Shape, Phase
  <2>2. Promise(s)!Ask
    BY <1>1, <2>1 DEF Promise!Ask, Promise!Nothing, Nothing
  <2> QED
    BY <2>2 DEF Promise!Next
<1>3. CASE StreamingList(s)
  <2>1. /\ pc[s] = "asking" /\ pc'[s] = "open" /\ at'[s] = Now /\ at[s] \in 1 .. Now
        /\ ~synced'[s] /\ told' = told
    BY <1>1, <1>3 DEF StreamingList, Goto, Shape, StreamOK, Quiet
  <2>2. at'[s] \in at[s] .. Now
    BY <1>1, <2>1
  <2> QED
    BY <1>1, <2>1, <2>2, AnswersPromise DEF Phase
<1>4. CASE RememberListThenWatch(s)
  <2>1. /\ pc[s] = "refused" /\ pc'[s] = "listing" /\ told' = told /\ at' = at
    BY <1>1, <1>4 DEF RememberListThenWatch, Goto, Shape
  <2> QED
    BY <1>1, <2>1, Stutters DEF Phase
<1>5. CASE List(s)
  <2>1. /\ pc[s] = "listing" /\ pc'[s] = "rewatching" /\ told' = told /\ at' = at
    BY <1>1, <1>5 DEF List, Goto, Shape
  <2> QED
    BY <1>1, <2>1, Stutters DEF Phase
<1>6. CASE Rewatch(s)
  <2>1. /\ pc[s] = "rewatching" /\ pc'[s] = "open" /\ at'[s] = list[s] /\ at[s] \in 1 .. Now
        /\ at[s] <= list[s] /\ list[s] \in 1 .. Now /\ ~synced'[s] /\ told' = told
    BY <1>1, <1>6 DEF Rewatch, Goto, Shape, StreamOK, Quiet, Listed
  <2>2. at'[s] \in at[s] .. Now
    BY <1>1, <2>1
  <2> QED
    BY <1>1, <2>1, <2>2, AnswersPromise DEF Phase
<1>7. ASSUME NEW f \in Faults, StreamingListFails(s, f)
      PROVE  [Promise(s)!Next]_(Promise(s)!vars)
  <2>1. CASE EndWith(s, f, Classify(f))
    BY <1>1, <1>7, <2>1, EndsPromise DEF StreamingListFails
  <2>2. CASE ~EndWith(s, f, Classify(f))
    <3>1. pc[s] = "asking" /\ pc'[s] = "refused" /\ told' = told /\ at' = at
      BY <1>1, <1>7, <2>2 DEF StreamingListFails, Goto, Shape
    <3> QED
      BY <1>1, <3>1, Stutters DEF Phase
  <2> QED
    BY <2>1, <2>2
<1>8. ASSUME NEW f \in Faults, RequestFails(s, f)
      PROVE  [Promise(s)!Next]_(Promise(s)!vars)
  BY <1>1, <1>8, EndsPromise DEF RequestFails
<1>9. CASE NextQueued(s)
  <2> DEFINE q == queue[s]
  <2>1. /\ pc[s] = "open" /\ q # <<>> /\ q \in Seq(Events) /\ ~synced[s] /\ pc' = pc
        /\ Pending(log, q, Len(q), told[s], at[s])
    BY <1>1, <1>9 DEF NextQueued, StreamOK, Opened
  <2>2. Len(q) \in 1 .. Len(q)
    BY <2>1 DEF Pending
  <2>3. Hear(s, q[1])
    BY <1>9, <2>1, TailEvent DEF NextQueued
  <2> QED
    BY <1>1, <2>1, <2>2, <2>3, HearsSnapshot
<1>10. CASE NextLive(s)
  <2> DEFINE q == feed[s]
  <2>1. /\ pc[s] = "open" /\ queue[s] = <<>> /\ q # <<>> /\ q \in Seq(Events) /\ Head(q) = q[1]
    BY <1>1, <1>10, TailEvent DEF NextLive, StreamOK
  <2>2. CASE \E f, v : EndWith(s, f, v)
    BY <1>1, <2>1, <2>2, EndsPromise
  <2>3. CASE ~(\E f, v : EndWith(s, f, v))
    <3>1. q[1].type \notin {"error", "closed"} /\ Hear(s, q[1]) /\ pc' = pc
      BY <1>10, <2>1, <2>3 DEF NextLive
    <3>2. CASE synced[s]
      BY <1>1, <2>1, <3>1, <3>2, HearsLive
    <3>3. CASE ~synced[s]
      <4>1. PICK b \in 1 .. Len(q) : Pending(log, q, b, told[s], at[s])
        BY <1>1, <2>1, <3>3 DEF StreamOK, Opened
      <4> QED
        BY <1>1, <2>1, <3>1, <3>3, <4>1, HearsSnapshot
    <3> QED
      BY <3>2, <3>3
  <2> QED
    BY <2>2, <2>3
<1>11. CASE Cancel(s)
  BY <1>1, <1>11, EndsPromise DEF Cancel
<1> QED
  BY <1>2, <1>3, <1>4, <1>5, <1>6, <1>7, <1>8, <1>9, <1>10, <1>11 DEF Stream

\* So is every step of the system, for each of its streams.
LEMMA StepPromise ==
    ASSUME IInv, IInv', [Next]_vars, NEW s \in Streams
    PROVE  [Promise(s)!Next]_(Promise(s)!vars)
<1>1. ASSUME NEW t \in Streams, Stream(t), t # s
      PROVE  [Promise(s)!Next]_(Promise(s)!vars)
  <2>1. UNCHANGED <<log, View(s)>>
    BY <1>1, StreamKeeps DEF Keeps
  <2> QED
    BY <2>1, StuttersElsewhere
<1>2. ASSUME NEW u \in Uids, NEW v \in {0, Now + 1}, Write(u, v)
      PROVE  [Promise(s)!Next]_(Promise(s)!vars)
  <2> DEFINE x == [uid |-> u, world |-> [log[Now].world EXCEPT ![u] = v]]
  <2>1. /\ log' = Append(log, x) /\ Len(log) < MaxRev /\ v \in {0, Len(log) + 1}
        /\ x = [uid |-> u, world |-> [log[Len(log)].world EXCEPT ![u] = v]]
        /\ History(log) /\ log \in Seq(Worlds)
    BY <1>2 DEF Write, Now, IInv, History
  <2> HIDE DEF x
  <2>2. x \in Worlds /\ SubSeq(log', 1, Len(log)) = log
    BY <2>1, HistoryGrows
  <2>3. Len(log') = Len(log) + 1
    BY <2>1, <2>2, AppendWorld
  <2>4. UNCHANGED <<Phase(s), told[s], at[s]>>
    BY <1>2 DEF Write, Phase
  <2>5. Promise(s)!Change
    BY <2>2, <2>3, <2>4 DEF Promise!Change
  <2> QED
    BY <2>5 DEF Promise!Next
<1>3. ASSUME NEW t \in Streams, NEW e \in {Bookmark, ErrorEvent, Closed}, Push(t, e)
      PROVE  [Promise(s)!Next]_(Promise(s)!vars)
  BY <1>3, Stutters DEF Push, serverVars, Phase
<1>4. CASE Upgrade
  BY <1>4, Stutters DEF Upgrade, Phase
<1>5. CASE UNCHANGED vars
  BY <1>5, Stutters DEF vars, serverVars, Phase
<1> QED
  BY <1>1, <1>2, <1>3, <1>4, <1>5, StreamPromise DEF Next, Server

\* A new stream is an idle one of the contract.
LEMMA InitPromise ==
    ASSUME Init, NEW s \in Streams
    PROVE  Promise(s)!Init
<1>1. Len(log) = 1 /\ log[1].world \in [Uids -> {0, 1}]
  BY DEF Init
<1>2. Phase(s) = "idle" /\ told[s] = Nothing /\ at[s] = 0
  BY DEF Init, Phase
<1> QED
  BY <1>1, <1>2 DEF Promise!Init, Promise!Nothing, Nothing

\* Every stream of the Backend keeps the promise of seams.go, whichever way it was opened
\* and whatever the API server and the other streams do meanwhile.
THEOREM EveryStreamImplementsContract ==
    ASSUME NEW s \in Streams
    PROVE  Spec => Promise(s)!Spec
<1>1. Init => Promise(s)!Init
  BY InitPromise
<1>2. IInv /\ IInv' /\ [Next]_vars => [Promise(s)!Next]_(Promise(s)!vars)
  BY StepPromise
<1> QED
  BY <1>1, <1>2, Invariant, PTL DEF Spec, Promise!Spec

\* In particular the stream that the model checker observes.
THEOREM ContractImplemented == Spec => ImplementsContract
<1>1. Observed \in Streams
  BY StreamsAssumption DEF Observed
<1>2. Init => Contract!Init
  <2> SUFFICES ASSUME Init PROVE Contract!Init
    OBVIOUS
  <2>1. Promise(Observed)!Init
    BY <1>1, InitPromise
  <2> QED
    BY <2>1 DEF Promise!Init, Promise!Nothing, Contract!Init, Contract!Nothing
<1>3. IInv /\ IInv' /\ [Next]_vars => [Contract!Next]_(Contract!vars)
  <2> SUFFICES ASSUME IInv, IInv', [Next]_vars PROVE [Contract!Next]_(Contract!vars)
    OBVIOUS
  <2>1. [Promise(Observed)!Next]_(Promise(Observed)!vars)
    BY <1>1, StepPromise
  <2> QED
    BY <2>1 DEF Promise!Next, Promise!vars, Promise!Change, Promise!Ask, Promise!Answer,
                Promise!Tell, Promise!Boundary, Promise!Follow, Promise!End,
                Promise!InScope, Promise!Nothing,
                Contract!Next, Contract!vars, Contract!Change, Contract!Ask, Contract!Answer,
                Contract!Tell, Contract!Boundary, Contract!Follow, Contract!End,
                Contract!InScope, Contract!Nothing
<1> QED
  BY <1>2, <1>3, Invariant, PTL DEF Spec, ImplementsContract, Contract!Spec
=============================================================================
