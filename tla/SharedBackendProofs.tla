------------------------ MODULE SharedBackendProofs ------------------------
(***************************************************************************)
(* Proofs about SharedBackend, for any finite set of callers, any delays    *)
(* and hints, and any number of openings: whoever waits or subscribes is    *)
(* counted once, one upstream is in use, and a failing one is left alone.   *)
(***************************************************************************)
EXTENDS SharedBackend, FiniteSetTheorems, TLAPS

-----------------------------------------------------------------------------
\* The inductive invariant.

\* Callers at one of the places Q, about incarnation i.
Among(Q, i) == {c \in Callers : pc[c] \in Q /\ at[c] = i}
Count(Q, i) == Cardinality(Among(Q, i))
Waits(i) == Count({"waiting"}, i)
Owes(i)  == Count({"waiting", "releasing"}, i)
Reads(i) == Count({"subscribed"}, i)

\* Nothing has happened to an incarnation that has not begun.
Fresh ==
    \A i \in Incs : i > started =>
        /\ up[i] = "none" /\ ~done[i] /\ ~dead[i] /\ ~cancelled[i] /\ pump[i] = "none"
        /\ waiters[i] = 0 /\ share[i] = 0 /\ members[i] = 0

\* What the maps hold: an opening as long as someone waits for it, or a scope whose pump
\* has not forgotten it.
Registered ==
    /\ openings <= started /\ scopes <= started
    /\ openings = None \/ scopes = None
    /\ \A i \in Incs : openings = i <=> ~done[i] /\ waiters[i] > 0
    /\ \A i \in Incs : openings = i => up[i] = "calling"
    /\ \A i \in Incs : scopes = i => pump[i] \in {"reading", "forgetting"}

\* Where a caller is says what has become of its incarnation.
Placed ==
    \A c \in Callers :
        /\ at[c] <= started
        /\ pc[c] = "idle" <=> at[c] = None
        /\ pc[c] = "releasing" => done[at[c]]
        /\ pc[c] \in {"subscribing", "subscribed", "forgetting", "cancelling"}
              => pump[at[c]] # "none"
        /\ pc[c] \in {"forgetting", "cancelling"} => dead[at[c]]
        /\ pc[c] = "withdrawing" => ~done[at[c]] /\ waiters[at[c]] = 0

\* The counters count the callers.
Unsettled(i) ==
    ~done[i] => /\ pump[i] = "none" /\ share[i] = 0 /\ members[i] = 0 /\ ~dead[i]
                /\ waiters[i] = Waits(i)
Shared(i) ==
    /\ pump[i] # "none" => share[i] = Owes(i)
    /\ pump[i] = "none" => share[i] = 0
Held(i) == pump[i] # "none" /\ ~dead[i] => members[i] = share[i] + Reads(i) /\ members[i] > 0
Counted == \A i \in Incs : Unsettled(i) /\ Shared(i) /\ Held(i)

\* The upstream's call and watch, and the pump that owns the watch.
Upstreams ==
    \A i \in Incs :
        /\ up[i] = "calling" => ~done[i]
        /\ up[i] = "open" <=> pump[i] \in {"reading", "forgetting", "cancelling", "ending"}
        /\ pump[i] = "stopped" => dead[i]
        /\ pump[i] = "ending" => cancelled[i]

\* An upstream that is in use by nobody is on its way out.
Obsolete(i) ==
    \/ cancelled[i]
    \/ pump[i] \in {"forgetting", "cancelling"}
    \/ \E c \in Callers : at[c] = i /\ pc[c] \in {"withdrawing", "cancelling"}
Released ==
    \A i \in Incs : up[i] \in {"calling", "open"} /\ i # openings /\ i # scopes => Obsolete(i)

\* The backoff: while the upstream is to be left alone nothing is registered whose end
\* could lift the wait, and a count of early ends lasts as long as it has to.
Backoffs ==
    /\ backoff.delay = 0 \/ backoff.delay >= RetryMin
    /\ backoff.until <= now + RetryMax
    /\ lastFailed <= now /\ lastEarly <= now
    /\ lastFailed # 0 /\ now < lastFailed + RetryMin => backoff.until >= lastFailed + RetryMin
    /\ (openings # None \/ scopes # None) /\ lastFailed # 0 => now >= lastFailed + RetryMin
    /\ lastEarly # 0 /\ now <= lastEarly + RetryMax
          => backoff.early > 0 /\ backoff.until >= lastEarly

\* The types, but for those of the backoff and its history.
Typed ==
    /\ now \in Times \ {0}
    /\ openings \in Incs \cup {None} /\ scopes \in Incs \cup {None} /\ started \in 0 .. MaxInc
    /\ up \in [Incs -> {"none", "calling", "open", "stopped"}]
    /\ done \in [Incs -> BOOLEAN] /\ waiters \in [Incs -> Nat] /\ share \in [Incs -> Nat]
    /\ members \in [Incs -> Nat] /\ dead \in [Incs -> BOOLEAN]
    /\ syncedAt \in [Incs -> Times] /\ cancelled \in [Incs -> BOOLEAN]
    /\ pump \in [Incs -> {"none", "reading", "forgetting", "cancelling", "ending", "stopped"}]
    /\ end \in [Incs -> Ends]
    /\ pc \in [Callers -> {"idle", "waiting", "subscribing", "subscribed", "releasing",
                           "withdrawing", "forgetting", "cancelling"}]
    /\ at \in [Callers -> Incs \cup {None}]
    /\ useful \in [Callers -> BOOLEAN]

Upkeep == Fresh /\ Registered /\ Placed /\ Counted /\ Upstreams /\ Released
IInv == TypeOK /\ Upkeep /\ Backoffs

USE CallersAssumption, RetryAssumption, TimeAssumption, HintsAssumption, MaxIncAssumption

-----------------------------------------------------------------------------
\* Counting callers.

\* A count is a number.
LEMMA CountNat ==
    ASSUME NEW Q, NEW i
    PROVE  /\ IsFiniteSet(Among(Q, i)) /\ IsFiniteSet(Among(Q, i)')
           /\ Count(Q, i) \in Nat /\ Count(Q, i)' \in Nat
<1>1. Among(Q, i) \in SUBSET Callers /\ Among(Q, i)' \in SUBSET Callers
  BY DEF Among
<1>2. IsFiniteSet(Among(Q, i)) /\ IsFiniteSet(Among(Q, i)')
  BY <1>1, FS_Subset
<1> QED
  BY <1>2, FS_CardinalityType DEF Count

\* One caller moves: the counts it leaves or enters change by one.
LEMMA CountMove ==
    ASSUME NEW c \in Callers, NEW p, NEW a, pc'[c] = p, at'[c] = a,
           \A d \in Callers : d # c => pc'[d] = pc[d] /\ at'[d] = at[d], NEW Q, NEW i
    PROVE  /\ Count(Q, i) \in Nat /\ Count(Q, i)' \in Nat
           /\ pc[c] \in Q /\ at[c] = i => Count(Q, i) > 0
           /\ Count(Q, i)' = IF p \in Q /\ a = i
                             THEN IF pc[c] \in Q /\ at[c] = i THEN Count(Q, i) ELSE Count(Q, i) + 1
                             ELSE IF pc[c] \in Q /\ at[c] = i THEN Count(Q, i) - 1 ELSE Count(Q, i)
<1> DEFINE A == Among(Q, i)
<1>1. IsFiniteSet(A) /\ Count(Q, i) \in Nat /\ Count(Q, i)' \in Nat
  BY CountNat
<1>3. c \in A <=> pc[c] \in Q /\ at[c] = i
  BY DEF Among
<1>4. A' = IF p \in Q /\ a = i THEN A \cup {c} ELSE A \ {c}
  BY DEF Among
<1>5. c \in A => Count(Q, i) > 0
  <2> SUFFICES ASSUME c \in A PROVE Count(Q, i) > 0
    OBVIOUS
  <2>1. Cardinality(A) # 0
    BY <1>1, FS_EmptySet
  <2> QED
    BY <1>1, <2>1 DEF Count
<1>6. /\ Cardinality(A \cup {c}) = IF c \in A THEN Cardinality(A) ELSE Cardinality(A) + 1
      /\ Cardinality(A \ {c}) = IF c \in A THEN Cardinality(A) - 1 ELSE Cardinality(A)
  BY <1>1, FS_AddElement, FS_RemoveElement
<1> HIDE DEF A
<1>7. Count(Q, i) = Cardinality(A) /\ Count(Q, i)' = Cardinality(A')
  BY DEF A, Count
<1> QED
  BY <1>1, <1>3, <1>4, <1>5, <1>6, <1>7

\* Nobody moves.
LEMMA CountStays ==
    ASSUME UNCHANGED <<pc, at>>, NEW Q, NEW i
    PROVE  Count(Q, i)' = Count(Q, i) /\ Count(Q, i) \in Nat
BY CountNat DEF Count, Among

-----------------------------------------------------------------------------
\* The backoff.

Entries == [until : Nat, delay : 0 .. RetryMax, early : Nat]

LEMMA HintIsNat == \A h \in Hints \cup {0} : h \in Nat
BY HintsAssumption

\* A failure waits for at least RetryMin and at most RetryMax, and keeps the count of
\* early ends unless the entry was to be swept.
LEMMA FailureWaits ==
    ASSUME now \in Nat, NEW b \in Entries, b.delay = 0 \/ b.delay >= RetryMin, NEW h \in Nat
    PROVE  /\ RecordFailure(b, h) \in Entries
           /\ RecordFailure(b, h).delay >= RetryMin
           /\ RecordFailure(b, h).until >= now + RetryMin
           /\ RecordFailure(b, h).until <= now + RetryMax
           /\ ~Quiet(b) => RecordFailure(b, h).early = b.early
<1> DEFINE s == Swept(b)
           d == IF s.delay = 0 THEN RetryMin ELSE Least(2 * s.delay, RetryMax)
           wait == IF h > d THEN Least(h, RetryMax) ELSE d
<1>1. s \in Entries /\ (s.delay = 0 \/ s.delay >= RetryMin) /\ (~Quiet(b) => s = b)
  BY DEF Swept, NoBackoff, Entries
<1>2. d \in RetryMin .. RetryMax
  BY <1>1 DEF Least, Entries
<1>3. wait \in RetryMin .. RetryMax
  BY <1>2 DEF Least
<1>4. RecordFailure(b, h) = [s EXCEPT !.delay = d, !.until = now + wait]
  BY DEF RecordFailure
<1> HIDE DEF s, d, wait
<1>5. RecordFailure(b, h) = [until |-> now + wait, delay |-> d, early |-> s.early]
  BY <1>1, <1>4 DEF Entries
<1>6. s.early \in Nat /\ now + wait \in Nat /\ d \in 0 .. RetryMax
  BY <1>1, <1>2, <1>3 DEF Entries
<1>7. /\ now + wait >= now + RetryMin /\ now + wait <= now + RetryMax /\ d >= RetryMin
  BY <1>2, <1>3
<1>8. RecordFailure(b, h) \in Entries
  BY <1>5, <1>6 DEF Entries
<1> QED
  BY <1>1, <1>5, <1>7, <1>8

\* A second early end that is still counted is a failure.
LEMMA EarlyEndWaits ==
    ASSUME now \in Nat, NEW b \in Entries, b.delay = 0 \/ b.delay >= RetryMin
    PROVE  /\ RecordEarlyEnd(b) \in Entries
           /\ RecordEarlyEnd(b).delay = 0 \/ RecordEarlyEnd(b).delay >= RetryMin
           /\ RecordEarlyEnd(b).until <= now + RetryMax \/ RecordEarlyEnd(b).until = b.until
           /\ b.until # 0 /\ b.early > 0 => RecordEarlyEnd(b).until >= now + RetryMin
<1>1. CASE b.until = 0
  <2>1. RecordEarlyEnd(b) = [until |-> now, delay |-> 0, early |-> 1]
    BY <1>1 DEF RecordEarlyEnd, NoBackoff
  <2> QED
    BY <1>1, <2>1 DEF Entries
<1>2. CASE b.until # 0
  <2> DEFINE n == [b EXCEPT !.early = @ + 1]
  <2>1. n = [until |-> b.until, delay |-> b.delay, early |-> b.early + 1]
    BY DEF Entries
  <2>2. n \in Entries /\ n.delay = b.delay /\ n.until = b.until /\ n.early = b.early + 1
    BY <2>1 DEF Entries
  <2>3. RecordEarlyEnd(b) = IF n.early < 2 THEN n ELSE RecordFailure(n, 0)
    BY <1>2 DEF RecordEarlyEnd
  <2> HIDE DEF n
  <2>4. /\ RecordFailure(n, 0) \in Entries /\ RecordFailure(n, 0).delay >= RetryMin
        /\ RecordFailure(n, 0).until >= now + RetryMin
        /\ RecordFailure(n, 0).until <= now + RetryMax
    BY <2>2, FailureWaits
  <2>5. b.early \in Nat
    BY DEF Entries
  <2> QED
    BY <2>2, <2>3, <2>4, <2>5
<1> QED
  BY <1>1, <1>2

\* forget: whatever end is accounted for, and by whom, the wait stands.
LEMMA ForgetKeepsBackoffs ==
    ASSUME TypeOK, Registered, Backoffs, NEW i \in Incs, NEW e \in Ends, Forget(i, e),
           UNCHANGED <<now, openings>>
    PROVE  /\ Backoffs'
           /\ backoff' \in Entries /\ scopes' \in {None, scopes}
           /\ lastEarly' \in Times /\ lastFailed' \in Times
<1>1. /\ now \in Nat /\ now > 0 /\ now \in Times /\ backoff \in Entries
      /\ e.hint \in Nat /\ 0 \in Times
      /\ lastEarly \in Times /\ lastFailed \in Times /\ lastEarly \in Nat /\ lastFailed \in Nat
  <2>1. now \in Times \ {0} /\ lastEarly \in Times /\ lastFailed \in Times /\ backoff \in Entries
    BY DEF TypeOK, Entries
  <2>2. Times \subseteq Nat /\ 0 \in Times
    BY DEF Times
  <2>3. e.hint \in Nat
    <3>1. e.hint \in Hints \cup {0}
      BY DEF Ends
    <3> QED
      BY <3>1, HintIsNat
  <2> QED
    BY <2>1, <2>2, <2>3
<1>2. CASE scopes # i
  <2>1. UNCHANGED <<now, openings, scopes, backoff, lastEarly, lastFailed>>
    BY <1>2 DEF Forget, histVars
  <2> QED
    BY <1>1, <2>1 DEF Backoffs
<1>3. CASE scopes = i
  <2> DEFINE r == IF e.useful THEN NoBackoff ELSE backoff
  <2>1. /\ scopes' = None /\ openings' = None /\ now' = now
        /\ backoff' = Accounted(backoff, e)
        /\ lastEarly' = IF e.kind = "early" THEN IF Kept THEN now ELSE 0
                        ELSE IF e.useful THEN 0 ELSE lastEarly
        /\ lastFailed' = IF \/ e.kind = "unavailable"
                            \/ /\ e.kind = "early" /\ lastEarly # 0 /\ ~e.useful
                               /\ now <= lastEarly + RetryMax
                         THEN now ELSE lastFailed
    <3>1. scopes # None
      BY <1>3 DEF Incs, None
    <3> QED
      BY <1>3, <3>1 DEF Forget, Registered
  <2>2. now >= lastFailed + RetryMin \/ lastFailed = 0
    BY <1>3 DEF Backoffs, Incs, None
  <2>3. /\ r \in Entries /\ (r.delay = 0 \/ r.delay >= RetryMin) /\ r.until <= now + RetryMax
        /\ (~e.useful => r = backoff)
    BY <1>1 DEF Backoffs, NoBackoff, Entries
  <2> HIDE DEF r
  <2>4. backoff' = IF e.kind = "unavailable" THEN RecordFailure(r, e.hint)
                   ELSE IF e.kind = "early" THEN RecordEarlyEnd(r) ELSE r
    BY <2>1 DEF Accounted, r
  <2>5. /\ RecordFailure(r, e.hint) \in Entries
        /\ RecordFailure(r, e.hint).delay >= RetryMin
        /\ RecordFailure(r, e.hint).until >= now + RetryMin
        /\ RecordFailure(r, e.hint).until <= now + RetryMax
        /\ ~Quiet(r) => RecordFailure(r, e.hint).early = r.early
    BY <1>1, <2>3, FailureWaits
  <2>6. /\ RecordEarlyEnd(r) \in Entries
        /\ RecordEarlyEnd(r).delay = 0 \/ RecordEarlyEnd(r).delay >= RetryMin
        /\ RecordEarlyEnd(r).until <= now + RetryMax \/ RecordEarlyEnd(r).until = r.until
        /\ r.until # 0 /\ r.early > 0 => RecordEarlyEnd(r).until >= now + RetryMin
    BY <1>1, <2>3, EarlyEndWaits
  <2>7. backoff' \in Entries /\ (backoff'.delay = 0 \/ backoff'.delay >= RetryMin)
        /\ backoff'.until <= now + RetryMax
    BY <2>3, <2>4, <2>5, <2>6
  <2>8. lastEarly' \in Times /\ lastFailed' \in Times /\ lastEarly' <= now /\ lastFailed' <= now
    BY <1>1, <2>1 DEF Backoffs
  <2>9. lastEarly # 0 /\ ~e.useful /\ now <= lastEarly + RetryMax
          => r.early > 0 /\ r.until >= lastEarly /\ r.until # 0 /\ ~Quiet(r)
    BY <1>1, <2>3 DEF Backoffs, Quiet, Entries
  <2>10. lastFailed' # 0 /\ now < lastFailed' + RetryMin
            => backoff'.until >= lastFailed' + RetryMin
    <3>1. CASE e.kind = "unavailable"
      BY <1>1, <2>1, <2>4, <2>5, <3>1
    <3>2. CASE e.kind = "early" /\ lastEarly # 0 /\ ~e.useful /\ now <= lastEarly + RetryMax
      BY <1>1, <2>1, <2>4, <2>6, <2>9, <3>2
    <3>3. CASE lastFailed' = lastFailed
      BY <1>1, <2>2, <3>3
    <3> QED
      BY <2>1, <3>1, <3>2, <3>3
  <2>11. lastEarly' # 0 /\ now <= lastEarly' + RetryMax
            => backoff'.early > 0 /\ backoff'.until >= lastEarly'
    <3>1. CASE e.kind = "early"
      BY <1>1, <2>1, <3>1 DEF Kept
    <3>2. CASE e.kind # "early"
      <4>1. lastEarly' = 0 \/ (lastEarly' = lastEarly /\ ~e.useful)
        BY <2>1, <3>2
      <4>2. lastEarly <= now
        BY DEF Backoffs
      <4>3. backoff' = IF e.kind = "unavailable" THEN RecordFailure(r, e.hint) ELSE r
        BY <2>4, <3>2
      <4>4. RecordFailure(r, e.hint).until \in Nat /\ r.until \in Nat
        BY <2>3, <2>5 DEF Entries
      <4> QED
        BY <1>1, <2>5, <2>9, <4>1, <4>2, <4>3, <4>4
    <3> QED
      BY <3>1, <3>2
  <2> QED
    BY <2>1, <2>7, <2>8, <2>10, <2>11 DEF Backoffs
<1> QED
  BY <1>2, <1>3

\* Every step keeps the wait and the count.  Most of them touch neither the clock nor the
\* entry, and register nothing where nothing was registered.
LEMMA BackoffsNext ==
    ASSUME TypeOK, Registered, Placed, Backoffs, [Next]_vars
    PROVE  /\ Backoffs'
           /\ backoff' \in Entries /\ lastEarly' \in Times /\ lastFailed' \in Times
<1>1. /\ now \in Times /\ now \in Nat /\ now > 0 /\ backoff \in Entries
      /\ lastEarly \in Times /\ lastFailed \in Times /\ lastEarly \in Nat /\ lastFailed \in Nat
  <2>1. now \in Times \ {0} /\ lastEarly \in Times /\ lastFailed \in Times /\ backoff \in Entries
    BY DEF TypeOK, Entries
  <2>2. Times \subseteq Nat
    BY DEF Times
  <2> QED
    BY <2>1, <2>2
<1>2. ASSUME UNCHANGED <<now, backoff, lastEarly, lastFailed>>,
             openings' # None \/ scopes' # None => openings # None \/ scopes # None
      PROVE  Backoffs' /\ backoff' \in Entries /\ lastEarly' \in Times /\ lastFailed' \in Times
  BY <1>1, <1>2 DEF Backoffs
<1>3. ASSUME Tick
      PROVE  Backoffs' /\ backoff' \in Entries /\ lastEarly' \in Times /\ lastFailed' \in Times
  <2>1. now' = now + 1 /\ UNCHANGED <<backoff, lastEarly, lastFailed, openings, scopes>>
    BY <1>3 DEF Tick, backendVars, histVars
  <2>2. backoff.until \in Nat
    BY <1>1 DEF Entries
  <2> QED
    BY <1>1, <2>1, <2>2 DEF Backoffs
<1>4. ASSUME OtherKeySweeps
      PROVE  Backoffs' /\ backoff' \in Entries /\ lastEarly' \in Times /\ lastFailed' \in Times
  <2>1. /\ backoff' = NoBackoff /\ now > backoff.until + RetryMax
        /\ UNCHANGED <<now, lastEarly, lastFailed, openings, scopes>>
    BY <1>4 DEF OtherKeySweeps, Quiet, histVars
  <2>2. NoBackoff \in Entries /\ NoBackoff.until = 0 /\ NoBackoff.delay = 0
    BY DEF NoBackoff, Entries
  <2>3. backoff.until \in Nat
    BY <1>1 DEF Entries
  <2> QED
    BY <1>1, <2>1, <2>2, <2>3 DEF Backoffs
<1>5. ASSUME NEW c \in Callers, WatchBegin(c)
      PROVE  Backoffs' /\ backoff' \in Entries /\ lastEarly' \in Times /\ lastFailed' \in Times
  <2>1. ~(backoff.until > now) /\ UNCHANGED <<now, backoff, lastEarly, lastFailed>>
    BY <1>5 DEF WatchBegin, BackingOff, histVars
  <2>2. backoff.until \in Nat
    BY <1>1 DEF Entries
  <2> QED
    BY <1>1, <2>1, <2>2 DEF Backoffs
<1>6. ASSUME NEW i \in Incs, NEW kind, NEW h \in Nat, SettleFailed(i, kind, h)
      PROVE  Backoffs' /\ backoff' \in Entries /\ lastEarly' \in Times /\ lastFailed' \in Times
  <2>1. /\ openings = i /\ i # None /\ openings' = None /\ scopes = None /\ scopes' = None
        /\ now' = now /\ lastEarly' = lastEarly
        /\ backoff' = IF kind = "unavailable" THEN RecordFailure(backoff, h) ELSE backoff
        /\ lastFailed' = IF kind = "unavailable" THEN now ELSE lastFailed
    BY <1>6 DEF SettleFailed, Registered, Incs, None
  <2>2. /\ RecordFailure(backoff, h) \in Entries
        /\ RecordFailure(backoff, h).delay >= RetryMin
        /\ RecordFailure(backoff, h).until >= now + RetryMin
        /\ RecordFailure(backoff, h).until <= now + RetryMax
        /\ ~Quiet(backoff) => RecordFailure(backoff, h).early = backoff.early
    BY <1>1, FailureWaits DEF Backoffs
  <2>3. /\ backoff.until \in Nat /\ RecordFailure(backoff, h).until \in Nat
        /\ lastEarly # 0 /\ now <= lastEarly + RetryMax => ~Quiet(backoff)
    BY <1>1, <2>2 DEF Backoffs, Quiet, Entries
  <2> QED
    BY <1>1, <2>1, <2>2, <2>3 DEF Backoffs
<1>7. ASSUME NEW i \in Incs, NEW e \in Ends, Forget(i, e), UNCHANGED <<now, openings>>
      PROVE  Backoffs' /\ backoff' \in Entries /\ lastEarly' \in Times /\ lastFailed' \in Times
  BY <1>7, ForgetKeepsBackoffs
<1>8. ASSUME NEW c \in Callers, LeaveForget(c)
      PROVE  Backoffs' /\ backoff' \in Entries /\ lastEarly' \in Times /\ lastFailed' \in Times
  <2>1. at[c] \in Incs
    BY <1>8 DEF LeaveForget, Placed, TypeOK
  <2>2. [NoEnd EXCEPT !.useful = useful[c]] \in Ends
    BY DEF NoEnd, Ends, Kinds, TypeOK
  <2>3. Forget(at[c], [NoEnd EXCEPT !.useful = useful[c]]) /\ UNCHANGED <<now, openings>>
    BY <1>8 DEF LeaveForget
  <2> QED
    BY <1>7, <2>1, <2>2, <2>3
<1>9. ASSUME NEW i \in Incs, DieForget(i)
      PROVE  Backoffs' /\ backoff' \in Entries /\ lastEarly' \in Times /\ lastFailed' \in Times
  <2>1. end[i] \in Ends /\ Forget(i, end[i]) /\ UNCHANGED <<now, openings>>
    BY <1>9 DEF DieForget, TypeOK
  <2> QED
    BY <1>7, <2>1
<1>10. ASSUME NEW c \in Callers,
              \/ WatchScope(c) \/ WatchOpening(c) \/ WatchRefused(c) \/ Collect(c) \/ Subscribe(c)
              \/ Abandon(c) \/ AbandonSettled(c) \/ Leave(c) \/ LeaveCancel(c) \/ Withdraw(c)
              \/ Release(c)
       PROVE  Backoffs' /\ backoff' \in Entries /\ lastEarly' \in Times /\ lastFailed' \in Times
  <2>1. UNCHANGED <<now, backoff, lastEarly, lastFailed, scopes>> /\ openings' \in {None, openings}
    BY <1>10 DEF WatchScope, WatchOpening, WatchRefused, Collect, Subscribe, Abandon,
                 AbandonSettled, Leave, LeaveCancel, Withdraw, Release, LeaveScope,
                 backendVars, histVars, vars
  <2> QED
    BY <1>2, <2>1
<1>11. ASSUME NEW i \in Incs,
              \/ SettleAbandoned(i) \/ SettleOpen(i) \/ Sync(i) \/ DieCancel(i) \/ DieEnd(i)
              \/ \E kind, h : Die(i, kind, h)
       PROVE  Backoffs' /\ backoff' \in Entries /\ lastEarly' \in Times /\ lastFailed' \in Times
  <2>1. UNCHANGED <<now, backoff, lastEarly, lastFailed>>
    BY <1>11 DEF SettleAbandoned, SettleOpen, Sync, DieCancel, DieEnd, Die, backendVars, histVars
  <2>2. openings' # None \/ scopes' # None => openings # None \/ scopes # None
    BY <1>11 DEF SettleAbandoned, SettleOpen, Sync, DieCancel, DieEnd, Die, backendVars,
                 Incs, None
  <2> QED
    BY <1>2, <2>1, <2>2
<1>12. ASSUME UNCHANGED vars
       PROVE  Backoffs' /\ backoff' \in Entries /\ lastEarly' \in Times /\ lastFailed' \in Times
  BY <1>2, <1>12 DEF vars, backendVars, histVars
<1>13. 0 \in Nat /\ \A h \in Hints : h \in Nat
  BY HintIsNat
<1> QED
  BY <1>3, <1>4, <1>5, <1>6, <1>8, <1>9, <1>10, <1>11, <1>12, <1>13
     DEF Next, Watch, Stop, Dying

-----------------------------------------------------------------------------
\* The callers' steps, as moves of one caller.

LEMMA Typing == TypeOK => Typed
BY DEF TypeOK, Typed

\* A caller that is somewhere is there about an incarnation that has begun.
LEMMA Begun ==
    ASSUME Typed, Placed, NEW c \in Callers, pc[c] # "idle"
    PROVE  at[c] \in Incs /\ at[c] <= started
BY DEF Typed, Placed

\* The three counts, when a caller moves from one place to another.
LEMMA Moves ==
    ASSUME Typed, NEW c \in Callers, NEW p, NEW a,
           pc' = [pc EXCEPT ![c] = p], at' = [at EXCEPT ![c] = a], NEW i
    PROVE  /\ Waits(i) \in Nat /\ Owes(i) \in Nat /\ Reads(i) \in Nat
           /\ pc[c] = "waiting" /\ at[c] = i => Waits(i) > 0
           /\ pc[c] \in {"waiting", "releasing"} /\ at[c] = i => Owes(i) > 0
           /\ pc[c] = "subscribed" /\ at[c] = i => Reads(i) > 0
           /\ Waits(i)' = IF p = "waiting" /\ a = i
                          THEN IF pc[c] = "waiting" /\ at[c] = i THEN Waits(i) ELSE Waits(i) + 1
                          ELSE IF pc[c] = "waiting" /\ at[c] = i THEN Waits(i) - 1 ELSE Waits(i)
           /\ Owes(i)' = IF p \in {"waiting", "releasing"} /\ a = i
                         THEN IF pc[c] \in {"waiting", "releasing"} /\ at[c] = i
                              THEN Owes(i) ELSE Owes(i) + 1
                         ELSE IF pc[c] \in {"waiting", "releasing"} /\ at[c] = i
                              THEN Owes(i) - 1 ELSE Owes(i)
           /\ Reads(i)' = IF p = "subscribed" /\ a = i
                          THEN IF pc[c] = "subscribed" /\ at[c] = i
                               THEN Reads(i) ELSE Reads(i) + 1
                          ELSE IF pc[c] = "subscribed" /\ at[c] = i
                               THEN Reads(i) - 1 ELSE Reads(i)
<1>1. /\ pc'[c] = p /\ at'[c] = a
      /\ \A d \in Callers : d # c => pc'[d] = pc[d] /\ at'[d] = at[d]
  BY DEF Typed
<1>2. /\ Waits(i) \in Nat /\ (pc[c] = "waiting" /\ at[c] = i => Waits(i) > 0)
      /\ Waits(i)' = IF p \in {"waiting"} /\ a = i
                     THEN IF pc[c] \in {"waiting"} /\ at[c] = i THEN Waits(i) ELSE Waits(i) + 1
                     ELSE IF pc[c] \in {"waiting"} /\ at[c] = i THEN Waits(i) - 1 ELSE Waits(i)
  BY <1>1, CountMove DEF Waits
<1>3. /\ Owes(i) \in Nat
      /\ pc[c] \in {"waiting", "releasing"} /\ at[c] = i => Owes(i) > 0
      /\ Owes(i)' = IF p \in {"waiting", "releasing"} /\ a = i
                    THEN IF pc[c] \in {"waiting", "releasing"} /\ at[c] = i
                         THEN Owes(i) ELSE Owes(i) + 1
                    ELSE IF pc[c] \in {"waiting", "releasing"} /\ at[c] = i
                         THEN Owes(i) - 1 ELSE Owes(i)
  BY <1>1, CountMove DEF Owes
<1>4. /\ Reads(i) \in Nat /\ (pc[c] = "subscribed" /\ at[c] = i => Reads(i) > 0)
      /\ Reads(i)' = IF p \in {"subscribed"} /\ a = i
                     THEN IF pc[c] \in {"subscribed"} /\ at[c] = i THEN Reads(i) ELSE Reads(i) + 1
                     ELSE IF pc[c] \in {"subscribed"} /\ at[c] = i THEN Reads(i) - 1
                          ELSE Reads(i)
  BY <1>1, CountMove DEF Reads
<1> QED
  BY <1>2, <1>3, <1>4

\* ... and when nobody moves.
LEMMA Stays ==
    ASSUME UNCHANGED <<pc, at>>, NEW i
    PROVE  /\ Waits(i) \in Nat /\ Owes(i) \in Nat /\ Reads(i) \in Nat
           /\ Waits(i)' = Waits(i) /\ Owes(i)' = Owes(i) /\ Reads(i)' = Reads(i)
BY CountStays DEF Waits, Owes, Reads

\* One more waits for o.
LEMMA Joins ==
    ASSUME Typed, NEW c \in Callers, pc[c] = "idle", NEW o,
           pc' = [pc EXCEPT ![c] = "waiting"], at' = [at EXCEPT ![c] = o], NEW i
    PROVE  /\ Waits(i) \in Nat
           /\ Waits(i)' = IF o = i THEN Waits(i) + 1 ELSE Waits(i)
           /\ Owes(i)' = IF o = i THEN Owes(i) + 1 ELSE Owes(i)
           /\ Reads(i)' = Reads(i)
<1>1. /\ pc'[c] = "waiting" /\ at'[c] = o
      /\ \A d \in Callers : d # c => pc'[d] = pc[d] /\ at'[d] = at[d]
  BY DEF Typed
<1>2. PICK p : p = "waiting"
  OBVIOUS
<1>3. pc'[c] = p
  BY <1>1, <1>2
<1>4. /\ Waits(i) \in Nat
      /\ Waits(i)' = IF p \in {"waiting"} /\ o = i
                     THEN IF pc[c] \in {"waiting"} /\ at[c] = i THEN Waits(i) ELSE Waits(i) + 1
                     ELSE IF pc[c] \in {"waiting"} /\ at[c] = i THEN Waits(i) - 1 ELSE Waits(i)
  BY <1>1, <1>3, CountMove DEF Waits
<1>5. Owes(i)' = IF p \in {"waiting", "releasing"} /\ o = i
                 THEN IF pc[c] \in {"waiting", "releasing"} /\ at[c] = i
                      THEN Owes(i) ELSE Owes(i) + 1
                 ELSE IF pc[c] \in {"waiting", "releasing"} /\ at[c] = i
                      THEN Owes(i) - 1 ELSE Owes(i)
  BY <1>1, <1>3, CountMove DEF Owes
<1>6. Reads(i)' = IF p \in {"subscribed"} /\ o = i
                  THEN IF pc[c] \in {"subscribed"} /\ at[c] = i THEN Reads(i) ELSE Reads(i) + 1
                  ELSE IF pc[c] \in {"subscribed"} /\ at[c] = i THEN Reads(i) - 1
                       ELSE Reads(i)
  BY <1>1, <1>3, CountMove DEF Reads
<1> QED
  BY <1>2, <1>4, <1>5, <1>6

\* One who is about at[c] goes on, to a place where he waits no longer.
LEMMA MovesOn ==
    ASSUME Typed, NEW c \in Callers, NEW p, Goto(c, p), p # "waiting", pc[c] # "idle",
           NEW i \in Incs
    PROVE  /\ Waits(i) \in Nat /\ Owes(i) \in Nat /\ Reads(i) \in Nat
           /\ Waits(i)' = IF i = at[c] /\ pc[c] = "waiting" THEN Waits(i) - 1 ELSE Waits(i)
           /\ Owes(i)' = IF i = at[c] /\ pc[c] \in {"waiting", "releasing"} /\ p # "releasing"
                         THEN Owes(i) - 1
                         ELSE IF i = at[c] /\ pc[c] \notin {"waiting", "releasing"}
                                 /\ p = "releasing"
                         THEN Owes(i) + 1 ELSE Owes(i)
           /\ Reads(i)' = IF i = at[c] /\ pc[c] = "subscribed" /\ p # "subscribed"
                          THEN Reads(i) - 1
                          ELSE IF i = at[c] /\ pc[c] # "subscribed" /\ p = "subscribed"
                          THEN Reads(i) + 1 ELSE Reads(i)
<1>1. PICK a : /\ pc' = [pc EXCEPT ![c] = p] /\ at' = [at EXCEPT ![c] = a]
               /\ p # "idle" => a = at[c]
  BY DEF Goto
<1>2. /\ Waits(i) \in Nat
      /\ Waits(i)' = IF p = "waiting" /\ a = i
                          THEN IF pc[c] = "waiting" /\ at[c] = i THEN Waits(i) ELSE Waits(i) + 1
                          ELSE IF pc[c] = "waiting" /\ at[c] = i THEN Waits(i) - 1 ELSE Waits(i)
  BY <1>1, Moves
<1>3. /\ Owes(i) \in Nat
      /\ Owes(i)' = IF p \in {"waiting", "releasing"} /\ a = i
                         THEN IF pc[c] \in {"waiting", "releasing"} /\ at[c] = i
                              THEN Owes(i) ELSE Owes(i) + 1
                         ELSE IF pc[c] \in {"waiting", "releasing"} /\ at[c] = i
                              THEN Owes(i) - 1 ELSE Owes(i)
  BY <1>1, Moves
<1>4. /\ Reads(i) \in Nat
      /\ Reads(i)' = IF p = "subscribed" /\ a = i
                          THEN IF pc[c] = "subscribed" /\ at[c] = i
                               THEN Reads(i) ELSE Reads(i) + 1
                          ELSE IF pc[c] = "subscribed" /\ at[c] = i
                               THEN Reads(i) - 1 ELSE Reads(i)
  BY <1>1, Moves
<1> QED
  BY <1>1, <1>2, <1>3, <1>4

\* collect never runs out of subscriptions, nor abandon and leave of what they give back.
LEMMA Covered ==
    ASSUME Typed, Placed, Counted, NEW c \in Callers
    PROVE  /\ pc[c] = "waiting" /\ ~done[at[c]] => waiters[at[c]] > 0
           /\ pc[c] \in {"waiting", "releasing"} /\ done[at[c]] /\ ~Failed(at[c])
                 => share[at[c]] > 0
           /\ pc[c] \in {"waiting", "releasing"} /\ done[at[c]] /\ ~Failed(at[c]) /\ ~dead[at[c]]
                 => members[at[c]] > 0
           /\ pc[c] = "subscribed" /\ ~dead[at[c]] => members[at[c]] > 0
<1>1. CASE pc[c] = "idle"
  BY <1>1
<1>2. CASE pc[c] # "idle"
  <2> DEFINE i == at[c]
  <2>1. i \in Incs
    BY <1>2, Begun
  <2>2. /\ pc[c] = "waiting" => Waits(i) > 0
        /\ pc[c] \in {"waiting", "releasing"} => Owes(i) > 0
    <3>1. c \in Callers /\ pc[c] = pc[c] /\ at[c] = i
      OBVIOUS
    <3>2. /\ IsFiniteSet(Among({"waiting"}, i)) /\ Waits(i) \in Nat
          /\ IsFiniteSet(Among({"waiting", "releasing"}, i)) /\ Owes(i) \in Nat
      BY CountNat DEF Waits, Owes
    <3>3. /\ pc[c] = "waiting" => c \in Among({"waiting"}, i)
          /\ pc[c] \in {"waiting", "releasing"} => c \in Among({"waiting", "releasing"}, i)
      BY DEF Among
    <3>4. /\ Among({"waiting"}, i) # {} => Waits(i) # 0
          /\ Among({"waiting", "releasing"}, i) # {} => Owes(i) # 0
      BY <3>2, FS_EmptySet DEF Waits, Owes, Count
    <3> QED
      BY <3>2, <3>3, <3>4
  <2>3. Unsettled(i) /\ Shared(i) /\ Held(i)
    BY <2>1 DEF Counted
  <2>4. /\ pc[c] = "subscribed" => pump[i] # "none"
        /\ done[i] \in BOOLEAN
    BY <2>1 DEF Placed, Typed
  <2> QED
    BY <2>1, <2>2, <2>3, <2>4 DEF Unsettled, Shared, Held, Failed
<1> QED
  BY <1>1, <1>2

\* The types.
LEMMA TypedNext ==
    ASSUME Typed, Registered, Placed, Counted, [Next]_vars
    PROVE  Typed'
<1> USE DEF Typed
<1>1. 0 \in Times /\ Times \subseteq Nat
  BY DEF Times
<1>2. Tick \/ OtherKeySweeps \/ UNCHANGED vars => Typed'
  BY DEF Tick, OtherKeySweeps, vars, backendVars, openingVars, scopeVars, upVars, callerVars, Times
<1>3. ASSUME NEW c \in Callers, WatchScope(c) \/ WatchOpening(c) \/ WatchRefused(c)
      PROVE  Typed'
  <2>1. CASE WatchScope(c)
    BY <2>1 DEF WatchScope, backendVars, openingVars, scopeVars, upVars
  <2>2. CASE WatchOpening(c)
    <3>1. openings \in Incs /\ waiters[openings] + 1 \in Nat
      BY <2>2 DEF WatchOpening
    <3> QED
      BY <2>2, <3>1 DEF WatchOpening, backendVars, scopeVars, upVars
  <2>3. CASE WatchRefused(c)
    BY <2>3 DEF WatchRefused, vars, backendVars, openingVars, scopeVars, upVars, callerVars
  <2> QED
    BY <1>3, <2>1, <2>2, <2>3
<1>4. ASSUME NEW c \in Callers, WatchBegin(c)
      PROVE  Typed'
  BY <1>4 DEF WatchBegin, backendVars, openingVars, scopeVars, upVars, callerVars, Incs, None
<1>5. ASSUME NEW c \in Callers, Collect(c)
      PROVE  Typed'
  <2>1. at[c] \in Incs /\ (~Failed(at[c]) => share[at[c]] - 1 \in Nat)
    BY <1>5, Begun, Covered DEF Collect
  <2> QED
    BY <1>5, <2>1 DEF Collect, Goto, backendVars, openingVars, scopeVars, upVars, callerVars, None
<1>6. ASSUME NEW c \in Callers, Abandon(c)
      PROVE  Typed'
  <2>1. at[c] \in Incs /\ waiters[at[c]] - 1 \in Nat
    BY <1>6, Begun, Covered DEF Abandon
  <2> QED
    BY <1>6, <2>1 DEF Abandon, Goto, backendVars, openingVars, scopeVars, upVars, callerVars, None
<1>7. ASSUME NEW c \in Callers, Withdraw(c) \/ AbandonSettled(c) \/ Subscribe(c) \/ LeaveCancel(c)
      PROVE  Typed'
  <2>1. at[c] \in Incs
    BY <1>7, Begun DEF Withdraw, AbandonSettled, Subscribe, LeaveCancel
  <2>2. CASE Withdraw(c) \/ LeaveCancel(c)
    BY <2>1, <2>2 DEF Withdraw, LeaveCancel, Goto, backendVars, openingVars, scopeVars, None
  <2>3. CASE AbandonSettled(c)
    BY <2>1, <2>3 DEF AbandonSettled, Goto, backendVars, openingVars, scopeVars, upVars, None
  <2>4. CASE Subscribe(c)
    <3>1. members[at[c]] + 1 \in Nat
      BY <2>1
    <3> QED
      BY <2>1, <2>4, <3>1 DEF Subscribe, Goto, backendVars, openingVars, upVars, None
  <2> QED
    BY <1>7, <2>2, <2>3, <2>4
<1>8. ASSUME NEW c \in Callers, Leave(c) \/ Release(c)
      PROVE  Typed'
  <2>1. at[c] \in Incs
    BY <1>8, Begun DEF Leave, Release
  <2>2. CASE pc[c] = "releasing" /\ Failed(at[c])
    BY <1>8, <2>1, <2>2 DEF Leave, Release, Goto, backendVars, openingVars, scopeVars, upVars,
                            callerVars, None
  <2>3. CASE ~(pc[c] = "releasing" /\ Failed(at[c]))
    <3>1. LeaveScope(c) /\ share' \in [Incs -> Nat] /\ (~dead[at[c]] => members[at[c]] - 1 \in Nat)
      BY <1>8, <2>1, <2>3, Covered DEF Leave, Release, Placed
    <3> QED
      BY <2>1, <3>1 DEF LeaveScope, Goto, LastMember, backendVars, openingVars, scopeVars, upVars,
                        callerVars, None
  <2> QED
    BY <2>2, <2>3
<1>9. ASSUME NEW c \in Callers, LeaveForget(c)
      PROVE  Typed'
  <2>1. at[c] \in Incs /\ scopes' \in Incs \cup {None}
    BY <1>9, Begun DEF LeaveForget, Forget
  <2> QED
    BY <1>9, <2>1 DEF LeaveForget, Goto, backendVars, openingVars, scopeVars, upVars, callerVars,
                      None
<1>10. ASSUME NEW i \in Incs, SettleAbandoned(i) \/ SettleOpen(i) \/ \E k, h : SettleFailed(i, k, h)
       PROVE  Typed'
  <2>1. CASE SettleAbandoned(i)
    BY <2>1 DEF SettleAbandoned, backendVars, openingVars, scopeVars, callerVars
  <2>2. CASE SettleOpen(i)
    BY <2>2 DEF SettleOpen, AttachAll, callerVars
  <2>3. CASE \E k, h : SettleFailed(i, k, h)
    BY <2>3 DEF SettleFailed, scopeVars, callerVars
  <2> QED
    BY <1>10, <2>1, <2>2, <2>3
<1>11. ASSUME NEW i \in Incs, Sync(i) \/ DieCancel(i) \/ DieEnd(i)
       PROVE  Typed'
  <2>1. CASE Sync(i)
    BY <2>1 DEF Sync, backendVars, openingVars, upVars, callerVars
  <2>2. CASE DieCancel(i)
    BY <2>2 DEF DieCancel, backendVars, openingVars, callerVars
  <2>3. CASE DieEnd(i)
    BY <1>1, <2>3 DEF DieEnd, backendVars, openingVars, callerVars
  <2> QED
    BY <1>11, <2>1, <2>2, <2>3
<1>12. ASSUME NEW i \in Incs, NEW k \in Kinds, NEW h \in Hints \cup {0}, Die(i, k, h)
       PROVE  Typed'
  <2>1. Useful(i) \in BOOLEAN
    BY DEF Useful
  <2>2. \A u \in BOOLEAN : [useful |-> u, hint |-> h,
                            kind |-> IF k = "early" /\ u THEN "other" ELSE k] \in Ends
    BY DEF Ends, Kinds
  <2>3. end' \in [Incs -> Ends]
    BY <1>12, <2>1, <2>2 DEF Die
  <2> QED
    BY <1>12, <2>3 DEF Die, backendVars, openingVars, scopeVars, upVars, callerVars
<1>13. ASSUME NEW i \in Incs, DieForget(i)
       PROVE  Typed'
  <2>1. scopes' \in Incs \cup {None}
    BY <1>13 DEF DieForget, Forget
  <2>2. NoEnd \in Ends
    BY DEF NoEnd, Ends, Kinds
  <2> QED
    BY <1>13, <2>1, <2>2 DEF DieForget, backendVars, openingVars, scopeVars, upVars, callerVars
<1>14. "other" \in Kinds /\ "early" \in Kinds /\ "unavailable" \in Kinds
  BY DEF Kinds
<1> QED
  <2> HIDE DEF Typed
  <2> QED
    BY <1>2, <1>3, <1>4, <1>5, <1>6, <1>7, <1>8, <1>9, <1>10, <1>11, <1>12, <1>13, <1>14
       DEF Next, Watch, Stop, Dying

-----------------------------------------------------------------------------
\* The parts of the invariant, one by one.

\* A step touches what has begun.
LEMMA FreshNext ==
    ASSUME Typed, Upkeep, [Next]_vars
    PROVE  Fresh'
<1> USE DEF Typed, Fresh
<1>1. Fresh /\ Registered /\ Placed /\ Counted
  BY DEF Upkeep
<1>2. ASSUME UNCHANGED <<started, up, done, dead, cancelled, pump, waiters, share, members>>
      PROVE  Fresh'
  BY <1>1, <1>2
<1>3. ASSUME NEW c \in Callers, WatchOpening(c)
      PROVE  Fresh'
  BY <1>1, <1>3 DEF WatchOpening, backendVars, scopeVars, upVars, Registered
<1>4. ASSUME NEW c \in Callers, WatchBegin(c)
      PROVE  Fresh'
  <2>1. /\ started \in Nat /\ started' = started + 1 /\ started' \in Incs
        /\ waiters' = [waiters EXCEPT ![started'] = 1] /\ up' = [up EXCEPT ![started'] = "calling"]
        /\ UNCHANGED <<done, dead, cancelled, pump, share, members>>
    BY <1>4 DEF WatchBegin, scopeVars, Incs
  <2>2. \A i \in Incs : i > started' => i > started /\ i # started'
    BY <2>1 DEF Incs
  <2> QED
    BY <1>1, <2>1, <2>2
<1>5. ASSUME NEW c \in Callers, pc[c] # "idle"
      PROVE  at[c] \in Incs /\ at[c] <= started
  BY <1>1, <1>5, Begun
<1>6. ASSUME NEW c \in Callers, Collect(c)
      PROVE  Fresh'
  BY <1>1, <1>5, <1>6 DEF Collect, backendVars, scopeVars, upVars
<1>7. ASSUME NEW c \in Callers, Abandon(c)
      PROVE  Fresh'
  <2>1. at[c] \in Incs /\ ~(at[c] > started)
    BY <1>5, <1>7 DEF Abandon, Incs
  <2> QED
    BY <1>1, <1>7, <2>1 DEF Abandon, scopeVars, upVars
<1>8. ASSUME NEW c \in Callers, Withdraw(c) \/ LeaveCancel(c)
      PROVE  Fresh'
  <2>1. at[c] \in Incs /\ ~(at[c] > started)
    BY <1>5, <1>8 DEF Withdraw, LeaveCancel, Incs
  <2> QED
    BY <1>1, <1>8, <2>1 DEF Withdraw, LeaveCancel, backendVars, openingVars, scopeVars
<1>9. ASSUME NEW c \in Callers, Subscribe(c)
      PROVE  Fresh'
  <2>1. at[c] \in Incs /\ ~(at[c] > started)
    BY <1>5, <1>9 DEF Subscribe, Incs
  <2> QED
    BY <1>1, <1>9, <2>1 DEF Subscribe, backendVars, openingVars, upVars
<1>10. ASSUME NEW c \in Callers, pc[c] # "idle", LeaveScope(c),
              share' = share \/ share' = [share EXCEPT ![at[c]] = @ - 1]
       PROVE  Fresh'
  <2>1. at[c] \in Incs /\ ~(at[c] > started)
    BY <1>5, <1>10 DEF Incs
  <2> QED
    BY <1>1, <1>10, <2>1 DEF LeaveScope, backendVars, upVars
<1>11. ASSUME NEW c \in Callers, Leave(c) \/ Release(c)
       PROVE  Fresh'
  BY <1>2, <1>10, <1>11 DEF Leave, Release, backendVars, openingVars, scopeVars, upVars
<1>12. ASSUME NEW c \in Callers,
              WatchScope(c) \/ WatchRefused(c) \/ AbandonSettled(c) \/ LeaveForget(c)
       PROVE  Fresh'
  BY <1>2, <1>12 DEF WatchScope, WatchRefused, AbandonSettled, LeaveForget, vars, backendVars,
                     openingVars, scopeVars, upVars
<1>13. ASSUME NEW i \in Incs, SettleAbandoned(i)
       PROVE  Fresh'
  BY <1>1, <1>13 DEF SettleAbandoned, backendVars, openingVars, scopeVars
<1>14. ASSUME NEW i \in Incs, \E k, h : SettleFailed(i, k, h)
       PROVE  Fresh'
  BY <1>1, <1>14 DEF SettleFailed, scopeVars
<1>15. ASSUME NEW i \in Incs, SettleOpen(i)
       PROVE  Fresh'
  BY <1>1, <1>15 DEF SettleOpen
<1>16. ASSUME NEW i \in Incs, Sync(i)
       PROVE  Fresh'
  BY <1>2, <1>16 DEF Sync, backendVars, openingVars, upVars
<1>17. ASSUME NEW i \in Incs, DieForget(i) \/ \E k, h : Die(i, k, h)
       PROVE  Fresh'
  BY <1>1, <1>17 DEF Die, DieForget, backendVars, openingVars, upVars
<1>18. ASSUME NEW i \in Incs, DieCancel(i) \/ DieEnd(i)
       PROVE  Fresh'
  BY <1>1, <1>18 DEF DieCancel, DieEnd, backendVars, openingVars
<1>19. ASSUME Tick \/ OtherKeySweeps \/ UNCHANGED vars
       PROVE  Fresh'
  BY <1>2, <1>19 DEF Tick, OtherKeySweeps, vars, backendVars, openingVars, scopeVars, upVars
<1> QED
  <2> HIDE DEF Typed, Fresh
  <2> QED
    BY <1>3, <1>4, <1>6, <1>7, <1>8, <1>9, <1>11, <1>12, <1>13, <1>14, <1>15, <1>16, <1>17,
       <1>18, <1>19 DEF Next, Watch, Stop, Dying

\* The maps.
LEMMA RegisteredNext ==
    ASSUME Typed, Upkeep, [Next]_vars
    PROVE  Registered'
<1> USE DEF Typed, Registered
<1>1. Fresh /\ Registered /\ Placed /\ Counted /\ Upstreams
  BY DEF Upkeep
<1>2. ASSUME UNCHANGED <<openings, scopes, started, done, waiters, up, pump>>
      PROVE  Registered'
  BY <1>1, <1>2
<1>3. ASSUME NEW c \in Callers, WatchOpening(c)
      PROVE  Registered'
  BY <1>1, <1>3 DEF WatchOpening, backendVars, scopeVars, upVars, None
<1>4. ASSUME NEW c \in Callers, WatchBegin(c)
      PROVE  Registered'
  BY <1>1, <1>4 DEF WatchBegin, scopeVars, Fresh, Incs, None
<1>5. ASSUME NEW c \in Callers, Abandon(c)
      PROVE  Registered'
  <2>1. /\ at[c] \in Incs /\ ~done[at[c]] /\ waiters[at[c]] > 0 /\ waiters[at[c]] \in Nat
        /\ openings = at[c]
    BY <1>1, <1>5, Begun, Covered DEF Abandon
  <2>2. waiters' = [waiters EXCEPT ![at[c]] = @ - 1]
        /\ openings' = (IF waiters[at[c]] = 1 THEN None ELSE openings)
        /\ UNCHANGED <<scopes, started, done, up, pump>>
    BY <1>5, <2>1 DEF Abandon, scopeVars, upVars
  <2>3. CASE waiters[at[c]] = 1
    BY <1>1, <2>1, <2>2, <2>3 DEF None, Incs
  <2>4. CASE waiters[at[c]] # 1
    <3>1. openings' = openings /\ waiters'[at[c]] > 0
      BY <2>1, <2>2, <2>4
    <3> QED
      BY <1>1, <2>1, <2>2, <3>1
  <2> QED
    BY <2>3, <2>4
<1>6. ASSUME scopes' \in {None, scopes}, UNCHANGED <<openings, started, done, waiters, up, pump>>
      PROVE  Registered'
  BY <1>1, <1>6 DEF None, Incs
<1>7. ASSUME NEW c \in Callers, LeaveForget(c)
      PROVE  Registered'
  BY <1>6, <1>7 DEF LeaveForget, Forget, openingVars, scopeVars, upVars
<1>8. ASSUME NEW c \in Callers,
             \/ WatchScope(c) \/ WatchRefused(c) \/ AbandonSettled(c) \/ Collect(c) \/ Withdraw(c)
             \/ Subscribe(c) \/ LeaveCancel(c)
      PROVE  Registered'
  BY <1>2, <1>8 DEF WatchScope, WatchRefused, AbandonSettled, Collect, Withdraw, Subscribe,
                    LeaveCancel, vars, backendVars, openingVars, scopeVars, upVars
<1>9. ASSUME NEW c \in Callers, Leave(c) \/ Release(c)
      PROVE  Registered'
  BY <1>2, <1>9 DEF Leave, Release, LeaveScope, backendVars, openingVars, scopeVars, upVars
<1>10. ASSUME NEW i \in Incs, SettleAbandoned(i)
       PROVE  Registered'
  BY <1>1, <1>10 DEF SettleAbandoned, backendVars, openingVars, scopeVars
<1>11. ASSUME NEW i \in Incs, \E k, h : SettleFailed(i, k, h)
       PROVE  Registered'
  BY <1>1, <1>11 DEF SettleFailed, scopeVars, None, Incs
<1>12. ASSUME NEW i \in Incs, SettleOpen(i)
       PROVE  Registered'
  BY <1>1, <1>12 DEF SettleOpen, None, Incs
<1>13. ASSUME NEW i \in Incs, Sync(i)
       PROVE  Registered'
  BY <1>2, <1>13 DEF Sync, backendVars, openingVars, upVars
<1>14. ASSUME NEW i \in Incs, \E k, h : Die(i, k, h)
       PROVE  Registered'
  BY <1>1, <1>14 DEF Die, backendVars, openingVars, upVars
<1>15. ASSUME NEW i \in Incs, DieForget(i)
       PROVE  Registered'
  <2>1. scopes' = IF scopes = i THEN None ELSE scopes
    BY <1>15 DEF DieForget, Forget
  <2> QED
    BY <1>1, <1>15, <2>1 DEF DieForget, openingVars, upVars, None, Incs
<1>16. ASSUME NEW i \in Incs, DieCancel(i) \/ DieEnd(i)
       PROVE  Registered'
  <2>1. scopes # i /\ openings # i
    BY <1>1, <1>16 DEF DieCancel, DieEnd, Counted, Unsettled
  <2> QED
    BY <1>1, <1>16, <2>1 DEF DieCancel, DieEnd, backendVars, openingVars
<1>17. ASSUME Tick \/ OtherKeySweeps \/ UNCHANGED vars
       PROVE  Registered'
  BY <1>2, <1>17 DEF Tick, OtherKeySweeps, vars, backendVars, openingVars, scopeVars, upVars
<1> QED
  <2> HIDE DEF Typed, Registered
  <2> QED
    BY <1>3, <1>4, <1>5, <1>7, <1>8, <1>9, <1>10, <1>11, <1>12, <1>13, <1>14, <1>15, <1>16,
       <1>17 DEF Next, Watch, Stop, Dying

\* The places.  What a place says of an incarnation stays true of it.
LastsFor(i) ==
    /\ done[i] => done'[i]
    /\ pump[i] # "none" => pump'[i] # "none"
    /\ dead[i] => dead'[i]
    /\ ~done[i] /\ waiters[i] = 0 => ~done'[i] /\ waiters'[i] = 0
Lasts == started <= started' /\ started' \in Nat /\ \A i \in Incs : i <= started => LastsFor(i)

LEMMA PlacedStays ==
    ASSUME Typed, Placed, Lasts, UNCHANGED <<pc, at>>
    PROVE  Placed'
<1> SUFFICES ASSUME NEW c \in Callers
             PROVE  /\ at[c] <= started'
                    /\ pc[c] = "idle" <=> at[c] = None
                    /\ pc[c] = "releasing" => done'[at[c]]
                    /\ pc[c] \in {"subscribing", "subscribed", "forgetting", "cancelling"}
                          => pump'[at[c]] # "none"
                    /\ pc[c] \in {"forgetting", "cancelling"} => dead'[at[c]]
                    /\ pc[c] = "withdrawing" => ~done'[at[c]] /\ waiters'[at[c]] = 0
  BY DEF Placed
<1>1. CASE pc[c] = "idle"
  BY <1>1 DEF Placed, Lasts, Typed, None
<1>2. CASE pc[c] # "idle"
  <2>1. at[c] \in Incs /\ at[c] <= started /\ at[c] \in Nat /\ started \in Nat
    <3>1. at[c] \in Incs /\ at[c] <= started
      BY <1>2, Begun
    <3> QED
      BY <3>1 DEF Incs, Typed
  <2>2. LastsFor(at[c]) /\ at[c] <= started'
    BY <2>1 DEF Lasts
  <2> QED
    BY <1>2, <2>1, <2>2 DEF Placed, LastsFor
<1> QED
  BY <1>1, <1>2

LEMMA PlacedMoves ==
    ASSUME Typed, Placed, Lasts, NEW c \in Callers, NEW p, NEW a,
           pc' = [pc EXCEPT ![c] = p], at' = [at EXCEPT ![c] = a],
           a <= started', p = "idle" <=> a = None,
           p = "releasing" => done'[a],
           p \in {"subscribing", "subscribed", "forgetting", "cancelling"} => pump'[a] # "none",
           p \in {"forgetting", "cancelling"} => dead'[a],
           p = "withdrawing" => ~done'[a] /\ waiters'[a] = 0
    PROVE  Placed'
<1> SUFFICES ASSUME NEW d \in Callers
             PROVE  /\ at'[d] <= started'
                    /\ pc'[d] = "idle" <=> at'[d] = None
                    /\ pc'[d] = "releasing" => done'[at'[d]]
                    /\ pc'[d] \in {"subscribing", "subscribed", "forgetting", "cancelling"}
                          => pump'[at'[d]] # "none"
                    /\ pc'[d] \in {"forgetting", "cancelling"} => dead'[at'[d]]
                    /\ pc'[d] = "withdrawing" => ~done'[at'[d]] /\ waiters'[at'[d]] = 0
  BY DEF Placed
<1>1. CASE d = c
  <2>1. pc'[d] = p /\ at'[d] = a
    BY <1>1 DEF Typed
  <2> QED
    BY <2>1
<1>2. CASE d # c
  <2>1. pc'[d] = pc[d] /\ at'[d] = at[d]
    BY <1>2 DEF Typed
  <2>2. CASE pc[d] = "idle"
    BY <2>1, <2>2 DEF Placed, Lasts, Typed, None
  <2>3. CASE pc[d] # "idle"
    <3>1. at[d] \in Incs /\ at[d] <= started /\ at[d] \in Nat /\ started \in Nat
      <4>1. at[d] \in Incs /\ at[d] <= started
        BY <2>3, Begun
      <4> QED
        BY <4>1 DEF Incs, Typed
    <3>2. LastsFor(at[d]) /\ at[d] <= started'
      BY <3>1 DEF Lasts
    <3> QED
      BY <2>1, <2>3, <3>1, <3>2 DEF Placed, LastsFor
  <2> QED
    BY <2>2, <2>3
<1> QED
  BY <1>1, <1>2

\* Every step lets them last.
LEMMA LastsNext ==
    ASSUME Typed, Upkeep, [Next]_vars
    PROVE  Lasts
<1> USE DEF Typed, Lasts, LastsFor
<1>1. Fresh /\ Registered /\ Placed /\ Counted /\ Upstreams
  BY DEF Upkeep
<1>2. ASSUME UNCHANGED <<started, done, waiters>>,
             pump' = pump \/ \E i \in Incs : \E x : x # "none" /\ pump' = [pump EXCEPT ![i] = x],
             dead' = dead \/ \E i \in Incs, x \in BOOLEAN :
                                 (dead[i] => x) /\ dead' = [dead EXCEPT ![i] = x]
      PROVE  Lasts
  BY <1>2
<1>3. ASSUME NEW c \in Callers, WatchOpening(c)
      PROVE  Lasts
  BY <1>1, <1>3 DEF WatchOpening, backendVars, scopeVars, Registered, None
<1>4. ASSUME NEW c \in Callers, WatchBegin(c)
      PROVE  Lasts
  <2>1. /\ started \in Nat /\ started' = started + 1 /\ UNCHANGED <<done, dead, pump>>
        /\ waiters' = [waiters EXCEPT ![started'] = 1]
    BY <1>4 DEF WatchBegin, scopeVars
  <2>2. \A i \in Incs : i <= started => i # started'
    BY <2>1 DEF Incs
  <2> QED
    BY <2>1, <2>2
<1>5. ASSUME NEW c \in Callers, Abandon(c)
      PROVE  Lasts
  <2>1. at[c] \in Incs /\ waiters[at[c]] > 0
    BY <1>1, <1>5, Begun, Covered DEF Abandon
  <2> QED
    BY <1>5, <2>1 DEF Abandon, scopeVars
<1>6. ASSUME NEW i \in Incs, SettleOpen(i) \/ \E k, h : SettleFailed(i, k, h)
      PROVE  Lasts
  <2>1. waiters[i] > 0 /\ pump[i] = "none"
    BY <1>1, <1>6 DEF SettleOpen, SettleFailed, Registered, Counted, Unsettled
  <2>2. /\ UNCHANGED <<started, waiters, dead>> /\ done' = [done EXCEPT ![i] = TRUE]
        /\ pump' = pump \/ pump' = [pump EXCEPT ![i] = "reading"]
    BY <1>6 DEF SettleOpen, SettleFailed, scopeVars
  <2> QED
    BY <2>1, <2>2
<1>7. ASSUME NEW c \in Callers, LeaveScope(c), at[c] \in Incs
      PROVE  Lasts
  <2>1. dead' = [dead EXCEPT ![at[c]] = dead[at[c]] \/ LastMember(at[c])]
    BY <1>7 DEF LeaveScope
  <2>2. LastMember(at[c]) \in BOOLEAN /\ dead[at[c]] \in BOOLEAN
    BY <1>7 DEF LastMember
  <2>3. UNCHANGED <<started, done, waiters, pump>>
    BY <1>7 DEF LeaveScope, backendVars
  <2> QED
    BY <1>7, <2>1, <2>2, <2>3
<1>8. ASSUME NEW c \in Callers, Leave(c) \/ Release(c)
      PROVE  Lasts
  <2>1. at[c] \in Incs
    BY <1>1, <1>8, Begun DEF Leave, Release
  <2> QED
    BY <1>2, <1>7, <1>8, <2>1 DEF Leave, Release, backendVars, openingVars, scopeVars
<1>9. ASSUME NEW c \in Callers,
             \/ WatchScope(c) \/ WatchRefused(c) \/ AbandonSettled(c) \/ Collect(c) \/ Withdraw(c)
             \/ Subscribe(c) \/ LeaveCancel(c) \/ LeaveForget(c)
      PROVE  Lasts
  <2>1. UNCHANGED <<started, done, waiters, pump, dead>>
    BY <1>9 DEF WatchScope, WatchRefused, AbandonSettled, Collect, Withdraw, Subscribe,
                LeaveCancel, LeaveForget, vars, backendVars, openingVars, scopeVars
  <2> QED
    BY <1>2, <2>1
<1>10. ASSUME NEW i \in Incs,
              SettleAbandoned(i) \/ Sync(i) \/ Dying(i) \/ \E k, h : Die(i, k, h)
       PROVE  Lasts
  <2>1. /\ UNCHANGED <<started, done, waiters>>
        /\ \/ pump' = pump
           \/ \E x \in {"forgetting", "cancelling", "ending", "stopped"} :
                 pump' = [pump EXCEPT ![i] = x]
        /\ dead' = dead \/ dead' = [dead EXCEPT ![i] = TRUE]
    BY <1>10 DEF SettleAbandoned, Sync, Dying, DieForget, DieCancel, DieEnd, Die, backendVars,
                 openingVars, scopeVars
  <2> QED
    BY <1>2, <2>1
<1>11. ASSUME Tick \/ OtherKeySweeps \/ UNCHANGED vars
       PROVE  Lasts
  BY <1>2, <1>11 DEF Tick, OtherKeySweeps, vars, backendVars, openingVars, scopeVars
<1> QED
  <2> HIDE DEF Typed, Lasts, LastsFor
  <2> QED
    BY <1>3, <1>4, <1>5, <1>6, <1>8, <1>9, <1>10, <1>11 DEF Next, Watch, Stop

LEMMA PlacedNext ==
    ASSUME Typed, Upkeep, [Next]_vars
    PROVE  Placed'
<1>1. Fresh /\ Registered /\ Placed /\ Counted /\ Upstreams
  BY DEF Upkeep
<1>2. Lasts
  BY LastsNext
<1>3. ASSUME NEW c \in Callers, pc[c] # "idle"
      PROVE  at[c] \in Incs /\ at[c] <= started' /\ at[c] # None /\ LastsFor(at[c])
  <2>1. at[c] \in Incs /\ at[c] <= started
    BY <1>1, <1>3, Begun
  <2>2. at[c] \in Nat /\ at[c] # None
    BY <2>1 DEF Incs, None
  <2>3. started \in Nat
    BY DEF Typed
  <2> QED
    BY <1>2, <2>1, <2>2, <2>3 DEF Lasts
<1>4. ASSUME UNCHANGED <<pc, at>>
      PROVE  Placed'
  BY <1>1, <1>2, <1>4, PlacedStays
\* A caller that moves on, about the same incarnation or (idle) about none.
<1>5. ASSUME NEW c \in Callers, NEW p, Goto(c, p), pc[c] # "idle",
             p = "releasing" => done'[at[c]],
             p \in {"subscribing", "subscribed", "forgetting", "cancelling"}
                => pump'[at[c]] # "none",
             p \in {"forgetting", "cancelling"} => dead'[at[c]],
             p = "withdrawing" => ~done'[at[c]] /\ waiters'[at[c]] = 0
      PROVE  Placed'
  <2> DEFINE a == IF p = "idle" THEN None ELSE at[c]
  <2>1. pc' = [pc EXCEPT ![c] = p] /\ at' = [at EXCEPT ![c] = a]
    BY <1>5 DEF Goto
  <2>2. a <= started' /\ (p = "idle" <=> a = None) /\ (p # "idle" => a = at[c])
    BY <1>2, <1>3, <1>5 DEF Lasts, None
  <2> HIDE DEF a
  <2>3. /\ p = "releasing" => done'[a]
        /\ p \in {"subscribing", "subscribed", "forgetting", "cancelling"} => pump'[a] # "none"
        /\ p \in {"forgetting", "cancelling"} => dead'[a]
        /\ p = "withdrawing" => ~done'[a] /\ waiters'[a] = 0
    BY <1>5, <2>2
  <2> QED
    BY <1>1, <1>2, <2>1, <2>2, <2>3, PlacedMoves
<1>6. ASSUME NEW c \in Callers, WatchScope(c)
      PROVE  Placed'
  <2>1. /\ pc' = [pc EXCEPT ![c] = "subscribing"] /\ at' = [at EXCEPT ![c] = scopes]
        /\ scopes # None /\ pump' = pump /\ started' = started
    BY <1>6 DEF WatchScope, backendVars, scopeVars
  <2>2. pump'[scopes] # "none" /\ scopes <= started'
    BY <1>1, <2>1 DEF Registered, Typed
  <2> QED
    BY <1>1, <1>2, <2>1, <2>2, PlacedMoves
<1>7. ASSUME NEW c \in Callers, WatchOpening(c)
      PROVE  Placed'
  <2>1. /\ pc' = [pc EXCEPT ![c] = "waiting"] /\ at' = [at EXCEPT ![c] = openings]
        /\ openings # None /\ started' = started
    BY <1>7 DEF WatchOpening, backendVars
  <2>2. openings <= started'
    BY <1>1, <2>1 DEF Registered
  <2> QED
    BY <1>1, <1>2, <2>1, <2>2, PlacedMoves
<1>8. ASSUME NEW c \in Callers, WatchBegin(c)
      PROVE  Placed'
  <2>1. /\ pc' = [pc EXCEPT ![c] = "waiting"] /\ at' = [at EXCEPT ![c] = started']
        /\ started' = started + 1 /\ started \in Nat
    BY <1>8 DEF WatchBegin, Typed
  <2>2. started' # None /\ started' <= started'
    BY <2>1 DEF None
  <2> QED
    BY <1>1, <1>2, <2>1, <2>2, PlacedMoves
<1>9. ASSUME NEW c \in Callers, Collect(c)
      PROVE  Placed'
  <2>1. /\ pc[c] = "waiting" /\ done[at[c]] /\ pump' = pump
        /\ Goto(c, IF Failed(at[c]) THEN "idle" ELSE "subscribed")
    BY <1>9 DEF Collect, scopeVars
  <2>2. ~Failed(at[c]) => pump'[at[c]] # "none"
    BY <2>1 DEF Failed
  <2> QED
    BY <1>5, <2>1, <2>2
<1>10. ASSUME NEW c \in Callers, Abandon(c)
       PROVE  Placed'
  <2>1. /\ pc[c] = "waiting" /\ ~done[at[c]] /\ done' = done
        /\ waiters' = [waiters EXCEPT ![at[c]] = @ - 1]
        /\ Goto(c, IF waiters[at[c]] = 1 THEN "withdrawing" ELSE "idle")
    BY <1>10 DEF Abandon
  <2>2. at[c] \in Incs
    BY <1>3, <2>1
  <2>3. waiters[at[c]] = 1 => ~done'[at[c]] /\ waiters'[at[c]] = 0
    BY <2>1, <2>2 DEF Typed
  <2> QED
    BY <1>5, <2>1, <2>3
<1>11. ASSUME NEW c \in Callers, Withdraw(c) \/ LeaveCancel(c)
       PROVE  Placed'
  <2>1. pc[c] # "idle" /\ Goto(c, "idle")
    BY <1>11 DEF Withdraw, LeaveCancel
  <2> QED
    BY <1>5, <2>1
<1>12. ASSUME NEW c \in Callers, AbandonSettled(c)
       PROVE  Placed'
  <2>1. pc[c] # "idle" /\ Goto(c, "releasing") /\ done'[at[c]]
    BY <1>12 DEF AbandonSettled, openingVars
  <2> QED
    BY <1>5, <2>1
<1>13. ASSUME NEW c \in Callers, Subscribe(c)
       PROVE  Placed'
  <2>1. /\ pc[c] = "subscribing" /\ Goto(c, IF dead[at[c]] THEN "idle" ELSE "subscribed")
        /\ pump' = pump
    BY <1>13 DEF Subscribe
  <2>2. pump'[at[c]] # "none"
    BY <1>1, <2>1 DEF Placed
  <2> QED
    BY <1>5, <2>1, <2>2
<1>14. ASSUME NEW c \in Callers, LeaveScope(c), pc[c] # "idle", pump[at[c]] # "none"
       PROVE  Placed'
  <2>1. /\ Goto(c, IF LastMember(at[c]) THEN "forgetting" ELSE "idle") /\ pump' = pump
        /\ dead' = [dead EXCEPT ![at[c]] = @ \/ LastMember(at[c])]
    BY <1>14 DEF LeaveScope
  <2>2. at[c] \in Incs
    BY <1>3, <1>14
  <2>3. LastMember(at[c]) => dead'[at[c]]
    BY <2>1, <2>2 DEF Typed
  <2> QED
    BY <1>5, <1>14, <2>1, <2>3
<1>15. ASSUME NEW c \in Callers, Leave(c) \/ Release(c)
       PROVE  Placed'
  <2>1. CASE pc[c] = "releasing" /\ Failed(at[c])
    <3>1. Goto(c, "idle")
      BY <1>15, <2>1 DEF Leave, Release
    <3> QED
      BY <1>5, <2>1, <3>1
  <2>2. CASE ~(pc[c] = "releasing" /\ Failed(at[c]))
    <3>1. LeaveScope(c) /\ pc[c] \in {"subscribed", "releasing"}
      BY <1>15, <2>2 DEF Leave, Release
    <3>2. pump[at[c]] # "none"
      BY <1>1, <2>2, <3>1 DEF Placed, Failed
    <3> QED
      BY <1>14, <3>1, <3>2
  <2> QED
    BY <2>1, <2>2
<1>16. ASSUME NEW c \in Callers, LeaveForget(c)
       PROVE  Placed'
  <2>1. pc[c] = "forgetting" /\ Goto(c, "cancelling") /\ UNCHANGED <<pump, dead>>
    BY <1>16 DEF LeaveForget, scopeVars
  <2>2. pump'[at[c]] # "none" /\ dead'[at[c]]
    BY <1>1, <2>1 DEF Placed
  <2> QED
    BY <1>5, <2>1, <2>2
<1>17. ASSUME NEW i \in Incs,
              \/ SettleAbandoned(i) \/ SettleOpen(i) \/ Sync(i) \/ Dying(i)
              \/ \E k, h : SettleFailed(i, k, h) \/ Die(i, k, h)
       PROVE  Placed'
  BY <1>4, <1>17 DEF SettleAbandoned, SettleOpen, SettleFailed, Sync, Dying, Die, DieForget,
                     DieCancel, DieEnd, callerVars
<1>18. ASSUME Tick \/ OtherKeySweeps \/ UNCHANGED vars \/ \E c \in Callers : WatchRefused(c)
       PROVE  Placed'
  BY <1>4, <1>18 DEF Tick, OtherKeySweeps, WatchRefused, vars, callerVars
<1> QED
  BY <1>6, <1>7, <1>8, <1>9, <1>10, <1>11, <1>12, <1>13, <1>15, <1>16, <1>17, <1>18
     DEF Next, Watch, Stop

\* The upstreams and their pumps.
LEMMA UpstreamsNext ==
    ASSUME Typed, Upkeep, [Next]_vars
    PROVE  Upstreams'
<1> USE DEF Typed, Upstreams
<1>1. Fresh /\ Registered /\ Placed /\ Counted /\ Upstreams
  BY DEF Upkeep
<1>2. ASSUME UNCHANGED <<up, done, pump, dead, cancelled>>
      PROVE  Upstreams'
  BY <1>1, <1>2
<1>3. ASSUME NEW c \in Callers, WatchBegin(c)
      PROVE  Upstreams'
  <2>1. /\ started' \in Incs /\ started' > started /\ up' = [up EXCEPT ![started'] = "calling"]
        /\ UNCHANGED <<done, pump, dead, cancelled>>
    BY <1>3 DEF WatchBegin, scopeVars, Incs
  <2>2. ~done[started'] /\ pump[started'] = "none"
    BY <1>1, <2>1 DEF Fresh
  <2> QED
    BY <1>1, <2>1, <2>2
<1>4. ASSUME NEW c \in Callers, Withdraw(c) \/ LeaveCancel(c)
      PROVE  Upstreams'
  BY <1>1, <1>4 DEF Withdraw, LeaveCancel, openingVars, scopeVars
<1>5. ASSUME NEW c \in Callers, LeaveScope(c)
      PROVE  Upstreams'
  <2>1. dead' = [dead EXCEPT ![at[c]] = dead[at[c]] \/ LastMember(at[c])]
        /\ UNCHANGED <<up, done, pump, cancelled>>
    BY <1>5 DEF LeaveScope, upVars
  <2> QED
    BY <1>1, <2>1
<1>6. ASSUME NEW c \in Callers, Leave(c) \/ Release(c)
      PROVE  Upstreams'
  BY <1>2, <1>5, <1>6 DEF Leave, Release, openingVars, scopeVars, upVars
<1>7. ASSUME NEW c \in Callers,
             \/ WatchScope(c) \/ WatchOpening(c) \/ WatchRefused(c) \/ AbandonSettled(c)
             \/ Collect(c) \/ Abandon(c) \/ Subscribe(c) \/ LeaveForget(c)
      PROVE  Upstreams'
  BY <1>2, <1>7 DEF WatchScope, WatchOpening, WatchRefused, AbandonSettled, Collect, Abandon,
                    Subscribe, LeaveForget, vars, openingVars, scopeVars, upVars
<1>8. ASSUME NEW i \in Incs, SettleAbandoned(i)
      PROVE  Upstreams'
  BY <1>1, <1>8 DEF SettleAbandoned, openingVars, scopeVars
<1>9. ASSUME NEW i \in Incs, \E k, h : SettleFailed(i, k, h)
      PROVE  Upstreams'
  BY <1>1, <1>9 DEF SettleFailed, scopeVars
<1>10. ASSUME NEW i \in Incs, SettleOpen(i)
       PROVE  Upstreams'
  BY <1>1, <1>10 DEF SettleOpen
<1>11. ASSUME NEW i \in Incs, Sync(i)
       PROVE  Upstreams'
  BY <1>2, <1>11 DEF Sync, openingVars, upVars
<1>12. ASSUME NEW i \in Incs, \E k, h : Die(i, k, h)
       PROVE  Upstreams'
  BY <1>1, <1>12 DEF Die, openingVars, upVars
<1>13. ASSUME NEW i \in Incs, DieForget(i)
       PROVE  Upstreams'
  BY <1>1, <1>13 DEF DieForget, openingVars, upVars
<1>14. ASSUME NEW i \in Incs, DieCancel(i)
       PROVE  Upstreams'
  BY <1>1, <1>14 DEF DieCancel, openingVars
<1>15. ASSUME NEW i \in Incs, DieEnd(i)
       PROVE  Upstreams'
  BY <1>1, <1>15 DEF DieEnd, openingVars
<1>16. ASSUME Tick \/ OtherKeySweeps \/ UNCHANGED vars
       PROVE  Upstreams'
  BY <1>2, <1>16 DEF Tick, OtherKeySweeps, vars, openingVars, scopeVars, upVars
<1> QED
  <2> HIDE DEF Typed, Upstreams
  <2> QED
    BY <1>3, <1>4, <1>6, <1>7, <1>8, <1>9, <1>10, <1>11, <1>12, <1>13, <1>14, <1>15, <1>16
       DEF Next, Watch, Stop, Dying

\* Nobody waits for, or has a subscription of, what has not opened.
LEMMA NoneYet ==
    ASSUME Typed, Placed, NEW i \in Incs, ~done[i], pump[i] = "none"
    PROVE  Owes(i) = Waits(i) /\ Reads(i) = 0
<1>1. \A c \in Callers : at[c] = i => pc[c] # "releasing" /\ pc[c] # "subscribed"
  BY DEF Placed
<1>2. Among({"waiting", "releasing"}, i) = Among({"waiting"}, i)
  BY <1>1 DEF Among
<1>3. Among({"subscribed"}, i) = {}
  BY <1>1 DEF Among
<1> QED
  BY <1>2, <1>3, FS_EmptySet DEF Owes, Waits, Reads, Count

\* The counters keep counting: each step changes a counter as it moves a caller.
LEMMA CountedNext ==
    ASSUME Typed, Upkeep, [Next]_vars
    PROVE  Counted'
<1> USE DEF Typed, Unsettled, Shared, Held
<1>1. Fresh /\ Registered /\ Placed /\ Counted /\ Upstreams
  BY DEF Upkeep
<1>2. ASSUME NEW c \in Callers, pc[c] # "idle"
      PROVE  at[c] \in Incs
  BY <1>1, <1>2, Begun
<1>3. \A i \in Incs : Unsettled(i) /\ Shared(i) /\ Held(i)
  BY <1>1 DEF Counted
<1>4. ASSUME NEW c \in Callers, NEW p, Goto(c, p), p \notin {"waiting"}, pc[c] # "idle"
      PROVE  \A i \in Incs :
                /\ Waits(i) \in Nat /\ Owes(i) \in Nat /\ Reads(i) \in Nat
                /\ Waits(i)' = IF i = at[c] /\ pc[c] = "waiting" THEN Waits(i) - 1 ELSE Waits(i)
                /\ Owes(i)' = IF i = at[c] /\ pc[c] \in {"waiting", "releasing"} /\ p # "releasing"
                              THEN Owes(i) - 1
                              ELSE IF i = at[c] /\ pc[c] \notin {"waiting", "releasing"}
                                      /\ p = "releasing"
                              THEN Owes(i) + 1 ELSE Owes(i)
                /\ Reads(i)' = IF i = at[c] /\ pc[c] = "subscribed" /\ p # "subscribed"
                               THEN Reads(i) - 1
                               ELSE IF i = at[c] /\ pc[c] # "subscribed" /\ p = "subscribed"
                               THEN Reads(i) + 1 ELSE Reads(i)
  <2> HIDE DEF Typed
  <2> QED
    BY <1>4, MovesOn
<1>5. ASSUME UNCHANGED <<waiters, share, members, done, pump, dead>>,
             \A i \in Incs : UNCHANGED <<Waits(i), Owes(i), Reads(i)>>
      PROVE  Counted'
  BY <1>3, <1>5 DEF Counted
<1>6. ASSUME NEW c \in Callers, NEW p, NEW a,
             pc' = [pc EXCEPT ![c] = p], at' = [at EXCEPT ![c] = a],
             p \notin {"waiting", "releasing", "subscribed"},
             pc[c] \notin {"waiting", "releasing", "subscribed"}
      PROVE  \A i \in Incs : UNCHANGED <<Waits(i), Owes(i), Reads(i)>>
  <2>1. \A i : /\ Waits(i)' = Waits(i) /\ Owes(i)' = Owes(i) /\ Reads(i)' = Reads(i)
    BY <1>6, Moves
  <2> QED
    BY <2>1
<1>7. ASSUME UNCHANGED <<pc, at>>
      PROVE  \A i \in Incs : UNCHANGED <<Waits(i), Owes(i), Reads(i)>>
  BY <1>7, Stays
<1>8. ASSUME NEW c \in Callers, WatchScope(c)
      PROVE  Counted'
  <2>1. pc' = [pc EXCEPT ![c] = "subscribing"] /\ at' = [at EXCEPT ![c] = scopes]
        /\ pc[c] = "idle" /\ UNCHANGED <<waiters, share, members, done, pump, dead>>
    BY <1>8 DEF WatchScope, openingVars, scopeVars
  <2> QED
    BY <1>5, <1>6, <2>1
<1>9. ASSUME NEW c \in Callers, WatchOpening(c)
      PROVE  Counted'
  <2>1. /\ pc' = [pc EXCEPT ![c] = "waiting"] /\ at' = [at EXCEPT ![c] = openings]
        /\ pc[c] = "idle" /\ openings \in Incs
        /\ waiters' = [waiters EXCEPT ![openings] = @ + 1]
        /\ UNCHANGED <<share, members, done, pump, dead>>
    BY <1>9 DEF WatchOpening, scopeVars
  <2>2. \A i : /\ Waits(i) \in Nat
               /\ Waits(i)' = IF openings = i THEN Waits(i) + 1 ELSE Waits(i)
               /\ Owes(i)' = IF openings = i THEN Owes(i) + 1 ELSE Owes(i)
               /\ Reads(i)' = Reads(i)
    BY <2>1, Joins
  <2>3. ~done[openings] /\ pump[openings] = "none"
    BY <1>1, <1>3, <2>1 DEF Registered
  <2> QED
    BY <1>3, <2>1, <2>2, <2>3 DEF Counted
<1>10. ASSUME NEW c \in Callers, WatchBegin(c)
       PROVE  Counted'
  <2>1. /\ pc' = [pc EXCEPT ![c] = "waiting"] /\ at' = [at EXCEPT ![c] = started']
        /\ pc[c] = "idle" /\ started' \in Incs /\ started' > started
        /\ waiters' = [waiters EXCEPT ![started'] = 1]
        /\ UNCHANGED <<share, members, done, pump, dead>>
    BY <1>10 DEF WatchBegin, scopeVars, Incs
  <2> DEFINE n == started'
  <2>2. \A i : /\ Waits(i) \in Nat
               /\ Waits(i)' = IF n = i THEN Waits(i) + 1 ELSE Waits(i)
               /\ Owes(i)' = IF n = i THEN Owes(i) + 1 ELSE Owes(i)
               /\ Reads(i)' = Reads(i)
    BY <2>1, Joins
  <2>3. waiters[n] = 0 /\ ~done[n] /\ pump[n] = "none"
    BY <1>1, <2>1 DEF Fresh
  <2>4. Waits(n) = 0
    BY <1>3, <2>1, <2>3
  <2> QED
    BY <1>3, <2>1, <2>2, <2>3, <2>4 DEF Counted
<1>11. ASSUME NEW c \in Callers, Collect(c)
       PROVE  Counted'
  <2> DEFINE i == at[c]
             p == IF Failed(i) THEN "idle" ELSE "subscribed"
  <2>1. /\ pc[c] = "waiting" /\ done[i] /\ Goto(c, p)
        /\ share' = [share EXCEPT ![i] = IF Failed(i) THEN @ ELSE @ - 1]
        /\ UNCHANGED <<waiters, members, done, pump, dead>>
    BY <1>11 DEF Collect, scopeVars
  <2>2. i \in Incs /\ (Failed(i) <=> pump[i] = "none")
    BY <1>2, <2>1 DEF Failed
  <2>3. \A j \in Incs :
           /\ Waits(j) \in Nat /\ Owes(j) \in Nat /\ Reads(j) \in Nat
           /\ j # i => Waits(j)' = Waits(j)
           /\ Owes(j)' = IF j = i THEN Owes(j) - 1 ELSE Owes(j)
           /\ Reads(j)' = IF j = i /\ ~Failed(i) THEN Reads(j) + 1 ELSE Reads(j)
    <3>1. p \in {"idle", "subscribed"} /\ (p = "subscribed" <=> ~Failed(i))
      OBVIOUS
    <3> HIDE DEF p
    <3> QED
      BY <1>4, <2>1, <3>1
  <2>4. ~Failed(i) => share[i] > 0
    BY <1>1, <2>1, Covered
  <2> HIDE DEF i, p
  <2> QED
    BY <1>3, <2>1, <2>2, <2>3, <2>4 DEF Counted
<1>12. ASSUME NEW c \in Callers, Abandon(c)
       PROVE  Counted'
  <2> DEFINE i == at[c]
             p == IF waiters[i] = 1 THEN "withdrawing" ELSE "idle"
  <2>1. /\ pc[c] = "waiting" /\ ~done[i] /\ Goto(c, p)
        /\ waiters' = [waiters EXCEPT ![i] = @ - 1]
        /\ UNCHANGED <<share, members, done, pump, dead>>
    BY <1>12 DEF Abandon, scopeVars
  <2>2. i \in Incs
    BY <1>2, <2>1
  <2>3. \A j \in Incs :
           /\ Waits(j) \in Nat
           /\ Waits(j)' = IF j = i THEN Waits(j) - 1 ELSE Waits(j)
           /\ j # i => Owes(j)' = Owes(j)
           /\ Reads(j)' = Reads(j)
    <3>1. p \in {"idle", "withdrawing"}
      OBVIOUS
    <3> HIDE DEF p
    <3> QED
      BY <1>4, <2>1, <3>1
  <2> HIDE DEF i, p
  <2> QED
    BY <1>3, <2>1, <2>2, <2>3 DEF Counted
<1>13. ASSUME NEW c \in Callers, Withdraw(c) \/ LeaveForget(c) \/ LeaveCancel(c)
       PROVE  Counted'
  <2>1. /\ pc[c] \in {"withdrawing", "forgetting", "cancelling"}
        /\ \E p \in {"idle", "cancelling"} : Goto(c, p)
        /\ UNCHANGED <<waiters, share, members, done, pump, dead>>
    BY <1>13 DEF Withdraw, LeaveForget, LeaveCancel, openingVars, scopeVars
  <2>2. PICK p \in {"idle", "cancelling"} : Goto(c, p)
    BY <2>1
  <2>3. \A i \in Incs : Waits(i)' = Waits(i) /\ Owes(i)' = Owes(i) /\ Reads(i)' = Reads(i)
    BY <1>4, <2>1, <2>2
  <2> QED
    BY <1>5, <2>1, <2>3
<1>14. ASSUME NEW c \in Callers, AbandonSettled(c)
       PROVE  Counted'
  <2>1. /\ pc[c] = "waiting" /\ done[at[c]] /\ Goto(c, "releasing")
        /\ UNCHANGED <<waiters, share, members, done, pump, dead>>
    BY <1>14 DEF AbandonSettled, openingVars, scopeVars
  <2>2. \A i \in Incs : /\ i # at[c] => Waits(i)' = Waits(i)
                        /\ Owes(i)' = Owes(i) /\ Reads(i)' = Reads(i)
    BY <1>4, <2>1
  <2> QED
    BY <1>3, <2>1, <2>2 DEF Counted
<1>15. ASSUME NEW c \in Callers, Subscribe(c)
       PROVE  Counted'
  <2> DEFINE i == at[c]
             p == IF dead[i] THEN "idle" ELSE "subscribed"
  <2>1. /\ pc[c] = "subscribing" /\ Goto(c, p)
        /\ members' = [members EXCEPT ![i] = IF dead[i] THEN @ ELSE @ + 1]
        /\ UNCHANGED <<waiters, share, done, pump, dead>>
    BY <1>15 DEF Subscribe, openingVars
  <2>2. i \in Incs /\ pump[i] # "none"
    BY <1>1, <1>2, <2>1 DEF Placed
  <2>3. \A j \in Incs :
           /\ Waits(j)' = Waits(j) /\ Owes(j)' = Owes(j) /\ Reads(j) \in Nat
           /\ Reads(j)' = IF j = i /\ ~dead[i] THEN Reads(j) + 1 ELSE Reads(j)
    <3>1. p \in {"idle", "subscribed"} /\ (p = "subscribed" <=> ~dead[i])
      OBVIOUS
    <3> HIDE DEF p
    <3> QED
      BY <1>4, <2>1, <3>1
  <2> HIDE DEF i, p
  <2> QED
    BY <1>3, <2>1, <2>2, <2>3 DEF Counted
\* A subscription is given up by its reader, ...
<1>16. ASSUME NEW c \in Callers, LeaveScope(c), pc[c] \in {"subscribed", "releasing"},
              pump[at[c]] # "none",
              share' = IF pc[c] = "subscribed" THEN share ELSE [share EXCEPT ![at[c]] = @ - 1]
       PROVE  Counted'
  <2>0. PICK i \in Incs : i = at[c]
    BY <1>2, <1>16
  <2> DEFINE p == IF LastMember(i) THEN "forgetting" ELSE "idle"
  <2>1. /\ Goto(c, p) /\ UNCHANGED <<waiters, done, pump>>
        /\ members' = [members EXCEPT ![i] = IF dead[i] THEN @ ELSE @ - 1]
        /\ dead' = [dead EXCEPT ![i] = dead[i] \/ LastMember(i)]
        /\ share' = IF pc[c] = "subscribed" THEN share ELSE [share EXCEPT ![i] = @ - 1]
    BY <1>16, <2>0 DEF LeaveScope
  <2>2. pump[i] # "none" /\ (LastMember(i) <=> ~dead[i] /\ members[i] = 1)
    BY <1>16, <2>0 DEF LastMember
  <2>3. \A j \in Incs :
           /\ Waits(j)' = Waits(j) /\ Owes(j) \in Nat /\ Reads(j) \in Nat
           /\ Owes(j)' = IF j = i /\ pc[c] = "releasing" THEN Owes(j) - 1 ELSE Owes(j)
           /\ Reads(j)' = IF j = i /\ pc[c] = "subscribed" THEN Reads(j) - 1 ELSE Reads(j)
    <3>1. p \in {"idle", "forgetting"}
      OBVIOUS
    <3> HIDE DEF p
    <3> QED
      BY <1>4, <1>16, <2>0, <2>1, <3>1
  <2>4. ~dead[i] => members[i] = share[i] + Reads(i) /\ members[i] > 0
    BY <1>3, <2>2
  <2>5. done[i] /\ share[i] = Owes(i)
    BY <1>3, <2>2
  <2> HIDE DEF p
  <2>6. \A j \in Incs : j # i => Unsettled(j)' /\ Shared(j)' /\ Held(j)'
    BY <1>3, <2>1, <2>2, <2>3
  <2>7. /\ pump'[i] # "none" /\ done'[i]
        /\ share'[i] = IF pc[c] = "subscribed" THEN share[i] ELSE share[i] - 1
        /\ members'[i] = IF dead[i] THEN members[i] ELSE members[i] - 1
        /\ ~dead'[i] => ~dead[i] /\ members[i] # 1
    BY <2>1, <2>2, <2>5
  <2>8. share[i] \in Nat /\ members[i] \in Nat
    OBVIOUS
  <2> SUFFICES share'[i] = Owes(i)' /\ (~dead'[i] => members'[i] = share'[i] + Reads(i)'
                                                 /\ members'[i] > 0)
    BY <2>6, <2>7 DEF Counted
  <2> HIDE DEF Typed, Unsettled, Shared, Held
  <2>9. CASE pc[c] = "subscribed"
    <3>1. Owes(i)' = Owes(i) /\ Reads(i)' = Reads(i) - 1 /\ Reads(i) \in Nat
      BY <2>3, <2>9
    <3> QED
      BY <2>2, <2>4, <2>5, <2>7, <2>8, <2>9, <3>1
  <2>10. CASE pc[c] = "releasing"
    <3>1. Owes(i)' = Owes(i) - 1 /\ Reads(i)' = Reads(i) /\ Reads(i) \in Nat
      BY <2>3, <2>10
    <3> QED
      BY <2>2, <2>4, <2>5, <2>7, <2>8, <2>10, <3>1
  <2> QED
    BY <1>16, <2>9, <2>10
<1>17. ASSUME NEW c \in Callers, Leave(c)
       PROVE  Counted'
  <2>1. pc[c] = "subscribed" /\ LeaveScope(c) /\ share' = share
    BY <1>17 DEF Leave
  <2>2. pump[at[c]] # "none"
    BY <1>1, <2>1 DEF Placed
  <2> QED
    BY <1>16, <2>1, <2>2
\* ... or by one who never read.
<1>18. ASSUME NEW c \in Callers, Release(c)
       PROVE  Counted'
  <2>1. CASE Failed(at[c])
    <3>1. /\ pc[c] = "releasing" /\ Goto(c, "idle")
          /\ UNCHANGED <<waiters, share, members, done, pump, dead>>
      BY <1>18, <2>1 DEF Release, openingVars, scopeVars
    <3>2. \A i \in Incs : /\ Waits(i)' = Waits(i) /\ Reads(i)' = Reads(i)
                          /\ i # at[c] => Owes(i)' = Owes(i)
      BY <1>4, <3>1
    <3>3. pump[at[c]] = "none"
      BY <2>1 DEF Failed
    <3> QED
      BY <1>3, <3>1, <3>2, <3>3 DEF Counted
  <2>2. CASE ~Failed(at[c])
    <3>1. /\ pc[c] = "releasing" /\ LeaveScope(c)
          /\ share' = [share EXCEPT ![at[c]] = @ - 1]
      BY <1>18, <2>2 DEF Release
    <3>2. pump[at[c]] # "none"
      BY <1>1, <2>2, <3>1 DEF Placed, Failed
    <3> QED
      BY <1>16, <3>1, <3>2
  <2> QED
    BY <2>1, <2>2
<1>19. ASSUME NEW i \in Incs, \E k, h : SettleFailed(i, k, h)
       PROVE  Counted'
  <2>1. /\ UNCHANGED <<pc, at, waiters, share, members, pump, dead>>
        /\ done' = [done EXCEPT ![i] = TRUE] /\ ~done[i]
    BY <1>1, <1>19 DEF SettleFailed, scopeVars, callerVars, Registered
  <2>2. \A j \in Incs : Waits(j)' = Waits(j) /\ Owes(j)' = Owes(j) /\ Reads(j)' = Reads(j)
    BY <1>7, <2>1
  <2> QED
    BY <1>3, <2>1, <2>2 DEF Counted
\* One subscription for each who waits.
<1>20. ASSUME NEW i \in Incs, SettleOpen(i)
       PROVE  Counted'
  <2>1. /\ UNCHANGED <<pc, at, waiters, dead>> /\ done' = [done EXCEPT ![i] = TRUE]
        /\ share' = [share EXCEPT ![i] = waiters[i]]
        /\ members' = [members EXCEPT ![i] = waiters[i]]
        /\ pump' = [pump EXCEPT ![i] = "reading"]
        /\ ~done[i] /\ waiters[i] > 0
    BY <1>1, <1>20 DEF SettleOpen, AttachAll, callerVars, Registered
  <2>2. \A j \in Incs : Waits(j)' = Waits(j) /\ Owes(j)' = Owes(j) /\ Reads(j)' = Reads(j)
    BY <1>7, <2>1
  <2>3. waiters[i] = Owes(i) /\ Reads(i) = 0
    BY <1>1, <1>3, <2>1, NoneYet
  <2> QED
    BY <1>3, <2>1, <2>2, <2>3 DEF Counted
<1>21. ASSUME NEW i \in Incs,
              SettleAbandoned(i) \/ Sync(i) \/ Dying(i) \/ \E k, h : Die(i, k, h)
       PROVE  Counted'
  <2>1. /\ UNCHANGED <<pc, at, waiters, share, done>>
        /\ \A j \in Incs : pump[j] = "none" <=> pump'[j] = "none"
        /\ \A j \in Incs : ~dead'[j] => ~dead[j] /\ members'[j] = members[j]
        /\ \A j \in Incs : pump[j] = "none" => dead'[j] = dead[j] /\ members'[j] = members[j]
    BY <1>21 DEF SettleAbandoned, Sync, Dying, DieForget, DieCancel, DieEnd, Die, openingVars,
                 scopeVars, callerVars
  <2>2. \A j \in Incs : Waits(j)' = Waits(j) /\ Owes(j)' = Owes(j) /\ Reads(j)' = Reads(j)
    BY <1>7, <2>1
  <2> QED
    BY <1>3, <2>1, <2>2 DEF Counted
<1>22. ASSUME Tick \/ OtherKeySweeps \/ UNCHANGED vars \/ \E c \in Callers : WatchRefused(c)
       PROVE  Counted'
  BY <1>5, <1>7, <1>22 DEF Tick, OtherKeySweeps, WatchRefused, vars, openingVars, scopeVars,
                           callerVars
<1> QED
  <2> HIDE DEF Typed, Unsettled, Shared, Held
  <2> QED
    BY <1>8, <1>9, <1>10, <1>11, <1>12, <1>13, <1>14, <1>15, <1>17, <1>18, <1>19, <1>20, <1>21,
       <1>22 DEF Next, Watch, Stop

\* What is not in use is on its way out, and stays so until it is cancelled.
LEMMA ReleasedStays ==
    ASSUME Released,
           \A i \in Incs :
              up'[i] \in {"calling", "open"} /\ i # openings' /\ i # scopes'
                 => \/ up[i] \in {"calling", "open"} /\ i # openings /\ i # scopes
                    \/ Obsolete(i)',
           \A i \in Incs : cancelled[i] => cancelled'[i],
           \A i \in Incs : pump[i] \in {"forgetting", "cancelling"}
              => pump'[i] \in {"forgetting", "cancelling"} \/ cancelled'[i],
           \A c \in Callers : pc[c] \in {"withdrawing", "cancelling"}
              => (pc'[c] = pc[c] /\ at'[c] = at[c]) \/ cancelled'[at[c]]
    PROVE  Released'
<1> SUFFICES ASSUME NEW i \in Incs, up'[i] \in {"calling", "open"}, i # openings', i # scopes'
             PROVE  Obsolete(i)'
  BY DEF Released
<1>1. CASE Obsolete(i)
  <2>1. CASE cancelled[i] \/ pump[i] \in {"forgetting", "cancelling"}
    BY <2>1 DEF Obsolete
  <2>2. CASE \E c \in Callers : at[c] = i /\ pc[c] \in {"withdrawing", "cancelling"}
    <3>1. PICK c \in Callers : at[c] = i /\ pc[c] \in {"withdrawing", "cancelling"}
      BY <2>2
    <3>2. cancelled'[i] \/ (at'[c] = i /\ pc'[c] \in {"withdrawing", "cancelling"})
      BY <3>1
    <3> QED
      BY <3>2 DEF Obsolete
  <2> QED
    BY <1>1, <2>1, <2>2 DEF Obsolete
<1> QED
  BY <1>1 DEF Released

\* Every step that puts an upstream out of use has someone cancel it, and every one that
\* drops the means to cancel it has cancelled it.
LEMMA ReleasedNext ==
    ASSUME Typed, Upkeep, [Next]_vars
    PROVE  Released'
<1> USE DEF Typed
<1>1. Fresh /\ Registered /\ Placed /\ Counted /\ Upstreams /\ Released
  BY DEF Upkeep
<1>2. ASSUME NEW c \in Callers, pc[c] # "idle"
      PROVE  at[c] \in Incs
  BY <1>1, <1>2, Begun
<1>3. ASSUME UNCHANGED <<up, openings, scopes, cancelled, pump>>,
             \A c \in Callers : pc[c] \in {"withdrawing", "cancelling"}
                => pc'[c] = pc[c] /\ at'[c] = at[c]
      PROVE  Released'
  BY <1>1, <1>3, ReleasedStays
<1>4. ASSUME NEW c \in Callers,
             \/ WatchScope(c) \/ WatchOpening(c) \/ Collect(c) \/ Subscribe(c)
             \/ AbandonSettled(c) \/ Leave(c) \/ Release(c)
      PROVE  Released'
  <2>1. /\ pc[c] \notin {"withdrawing", "cancelling"}
        /\ \A d \in Callers : d # c => pc'[d] = pc[d] /\ at'[d] = at[d]
    BY <1>4 DEF WatchScope, WatchOpening, Collect, Subscribe, AbandonSettled, Leave, Release,
                LeaveScope, Goto
  <2>2. UNCHANGED <<up, openings, scopes, cancelled, pump>>
    BY <1>4 DEF WatchScope, WatchOpening, Collect, Subscribe, AbandonSettled, Leave, Release,
                LeaveScope, backendVars, scopeVars, upVars
  <2> QED
    BY <1>3, <2>1, <2>2
<1>5. ASSUME NEW c \in Callers, WatchBegin(c)
      PROVE  Released'
  <2>1. /\ openings' = started' /\ openings = None /\ UNCHANGED <<scopes, cancelled, pump>>
        /\ up' = [up EXCEPT ![started'] = "calling"]
        /\ pc[c] = "idle"
        /\ \A d \in Callers : d # c => pc'[d] = pc[d] /\ at'[d] = at[d]
    BY <1>5 DEF WatchBegin, scopeVars
  <2>2. \A i \in Incs : up'[i] \in {"calling", "open"} /\ i # openings'
           => up[i] \in {"calling", "open"} /\ i # openings
    BY <2>1 DEF None, Incs
  <2>3. \A d \in Callers : pc[d] \in {"withdrawing", "cancelling"}
           => pc'[d] = pc[d] /\ at'[d] = at[d]
    BY <2>1
  <2> HIDE DEF Typed
  <2> QED
    BY <1>1, <2>1, <2>2, <2>3, ReleasedStays
\* The last waiter out goes on to cancel the opening.
<1>6. ASSUME NEW c \in Callers, Abandon(c)
      PROVE  Released'
  <2>1. PICK i \in Incs : i = at[c]
    BY <1>2, <1>6 DEF Abandon
  <2>2. /\ UNCHANGED <<up, scopes, cancelled, pump>> /\ pc[c] = "waiting"
        /\ \A d \in Callers : d # c => pc'[d] = pc[d] /\ at'[d] = at[d]
        /\ openings' = openings \/ (openings = i /\ at'[c] = i /\ pc'[c] = "withdrawing")
    BY <1>6, <2>1 DEF Abandon, Goto, scopeVars, upVars
  <2>3. \A j \in Incs : j # openings' => j # openings \/ Obsolete(j)'
    BY <2>2 DEF Obsolete
  <2>4. \A d \in Callers : pc[d] \in {"withdrawing", "cancelling"}
           => pc'[d] = pc[d] /\ at'[d] = at[d]
    BY <2>2
  <2> HIDE DEF Typed
  <2> QED
    BY <1>1, <2>2, <2>3, <2>4, ReleasedStays
<1>7. ASSUME NEW c \in Callers, Withdraw(c) \/ LeaveCancel(c)
      PROVE  Released'
  <2>1. /\ UNCHANGED <<up, openings, scopes, pump>> /\ at[c] \in Incs
        /\ cancelled' = [cancelled EXCEPT ![at[c]] = TRUE]
        /\ \A d \in Callers : d # c => pc'[d] = pc[d] /\ at'[d] = at[d]
    BY <1>2, <1>7 DEF Withdraw, LeaveCancel, Goto, backendVars, scopeVars
  <2>2. cancelled'[at[c]] /\ \A i \in Incs : cancelled[i] => cancelled'[i]
    BY <2>1
  <2> HIDE DEF Typed
  <2> QED
    BY <1>1, <2>1, <2>2, ReleasedStays
\* Who has the scope forgotten cancels it next.
<1>8. ASSUME NEW c \in Callers, LeaveForget(c)
      PROVE  Released'
  <2>1. PICK i \in Incs : i = at[c]
    BY <1>2, <1>8 DEF LeaveForget
  <2>2. /\ UNCHANGED <<up, openings, cancelled, pump>> /\ pc[c] = "forgetting"
        /\ \A d \in Callers : d # c => pc'[d] = pc[d] /\ at'[d] = at[d]
        /\ at'[c] = i /\ pc'[c] = "cancelling"
        /\ scopes' = scopes \/ scopes = i
    BY <1>8, <2>1 DEF LeaveForget, Forget, Goto, scopeVars, upVars
  <2>3. \A j \in Incs : j # scopes' => j # scopes \/ Obsolete(j)'
    BY <2>2 DEF Obsolete
  <2>4. \A d \in Callers : pc[d] \in {"withdrawing", "cancelling"}
           => pc'[d] = pc[d] /\ at'[d] = at[d]
    BY <2>2
  <2> HIDE DEF Typed
  <2> QED
    BY <1>1, <2>2, <2>3, <2>4, ReleasedStays
<1>9. ASSUME UNCHANGED <<pc, at>>,
             \A j \in Incs :
                up'[j] \in {"calling", "open"} /\ j # openings' /\ j # scopes'
                   => \/ up[j] \in {"calling", "open"} /\ j # openings /\ j # scopes
                      \/ Obsolete(j)',
             \A j \in Incs : cancelled[j] => cancelled'[j],
             \A j \in Incs : pump[j] \in {"forgetting", "cancelling"}
                => pump'[j] \in {"forgetting", "cancelling"} \/ cancelled'[j]
      PROVE  Released'
  BY <1>1, <1>9, ReleasedStays
<1>10. ASSUME NEW i \in Incs, SettleAbandoned(i) \/ \E k, h : SettleFailed(i, k, h)
       PROVE  Released'
  <2>1. /\ UNCHANGED <<pc, at, scopes, pump>>
        /\ up' = [up EXCEPT ![i] = "stopped"] /\ cancelled' = [cancelled EXCEPT ![i] = TRUE]
        /\ openings' = openings \/ openings = i
    BY <1>10 DEF SettleAbandoned, SettleFailed, backendVars, scopeVars, callerVars
  <2>2. /\ up'[i] = "stopped" /\ \A j \in Incs : j # i => up'[j] = up[j]
        /\ \A j \in Incs : cancelled[j] => cancelled'[j]
    BY <2>1
  <2> HIDE DEF Typed
  <2> QED
    BY <1>9, <2>1, <2>2
<1>11. ASSUME NEW i \in Incs, SettleOpen(i)
       PROVE  Released'
  <2>1. /\ UNCHANGED <<pc, at, cancelled>> /\ scopes' = i /\ openings = i /\ scopes = None
        /\ up' = [up EXCEPT ![i] = "open"] /\ pump' = [pump EXCEPT ![i] = "reading"]
        /\ pump[i] \notin {"forgetting", "cancelling"}
    <3>1. up[i] = "calling" /\ openings = i /\ openings # None
      BY <1>11 DEF SettleOpen, None, Incs
    <3> QED
      BY <1>1, <1>11, <3>1 DEF SettleOpen, callerVars, Registered, Upstreams
  <2>2. \A j \in Incs : j # i => /\ up'[j] = up[j] /\ pump'[j] = pump[j]
                                 /\ j # scopes /\ j # openings
    BY <2>1 DEF None, Incs
  <2> HIDE DEF Typed
  <2> QED
    BY <1>9, <2>1, <2>2
<1>12. ASSUME NEW i \in Incs, \E k, h : Die(i, k, h)
       PROVE  Released'
  <2>1. /\ UNCHANGED <<pc, at, cancelled, up, openings, scopes>>
        /\ pump[i] = "reading" /\ pump' = [pump EXCEPT ![i] = "forgetting"]
    BY <1>12 DEF Die, backendVars, upVars, callerVars
  <2> QED
    BY <1>9, <2>1
<1>13. ASSUME NEW i \in Incs, DieForget(i)
       PROVE  Released'
  <2>1. /\ UNCHANGED <<pc, at, cancelled, up, openings>>
        /\ pump' = [pump EXCEPT ![i] = "cancelling"]
        /\ scopes' = scopes \/ scopes = i
    BY <1>13 DEF DieForget, Forget, upVars, callerVars
  <2>2. Obsolete(i)'
    BY <2>1 DEF Obsolete
  <2>3. \A j \in Incs : j # i => pump'[j] = pump[j]
    BY <2>1
  <2>4. pump'[i] = "cancelling"
    BY <2>1
  <2> HIDE DEF Typed
  <2> QED
    BY <1>9, <2>1, <2>2, <2>3, <2>4
<1>14. ASSUME NEW i \in Incs, DieCancel(i)
       PROVE  Released'
  <2>1. /\ UNCHANGED <<pc, at, up, openings, scopes>>
        /\ pump' = [pump EXCEPT ![i] = "ending"]
        /\ cancelled' = [cancelled EXCEPT ![i] = TRUE]
    BY <1>14 DEF DieCancel, backendVars, callerVars
  <2>2. /\ cancelled'[i] /\ \A j \in Incs : cancelled[j] => cancelled'[j]
        /\ \A j \in Incs : j # i => pump'[j] = pump[j]
    BY <2>1
  <2> HIDE DEF Typed
  <2> QED
    BY <1>9, <2>1, <2>2
<1>15. ASSUME NEW i \in Incs, DieEnd(i)
       PROVE  Released'
  <2>1. /\ UNCHANGED <<pc, at, cancelled, openings, scopes>> /\ pump[i] = "ending"
        /\ pump' = [pump EXCEPT ![i] = "stopped"] /\ up' = [up EXCEPT ![i] = "stopped"]
    BY <1>15 DEF DieEnd, backendVars, callerVars
  <2>2. /\ \A j \in Incs : j # i => pump'[j] = pump[j] /\ up'[j] = up[j]
        /\ up'[i] = "stopped"
    BY <2>1
  <2> HIDE DEF Typed
  <2> QED
    BY <1>9, <2>1, <2>2
<1>16. ASSUME \/ Tick \/ OtherKeySweeps \/ UNCHANGED vars
              \/ \E c \in Callers : WatchRefused(c)
              \/ \E i \in Incs : Sync(i)
       PROVE  Released'
  BY <1>3, <1>16 DEF Tick, OtherKeySweeps, WatchRefused, Sync, vars, backendVars, scopeVars,
                     upVars, callerVars
<1> QED
  <2> HIDE DEF Typed
  <2> QED
    BY <1>4, <1>5, <1>6, <1>7, <1>8, <1>10, <1>11, <1>12, <1>13, <1>14, <1>15, <1>16
       DEF Next, Watch, Stop, Dying

-----------------------------------------------------------------------------
\* The invariant.

\* It holds when nothing has begun.
LEMMA InitIInv == Init => IInv
<1> SUFFICES ASSUME Init
             PROVE  IInv
  OBVIOUS
<1> USE DEF Init
<1>1. \A Q : "idle" \notin Q => \A i : Count(Q, i) = 0
  <2>1. \A Q, i : "idle" \notin Q => Among(Q, i) = {}
    BY DEF Among
  <2> QED
    BY <2>1, FS_EmptySet DEF Count
<1>2. \A i : Waits(i) = 0 /\ Owes(i) = 0 /\ Reads(i) = 0
  BY <1>1 DEF Waits, Owes, Reads
<1>3. 1 \in Times /\ 0 \in Times /\ MaxInc \in Nat /\ NoEnd \in Ends
  BY DEF Times, NoEnd, Ends, Kinds
<1>4. TypeOK
  BY <1>3 DEF TypeOK, None, NoBackoff
<1>5. Fresh /\ Registered /\ Upstreams /\ Released
  BY DEF Fresh, Registered, Upstreams, Released, None, Incs
<1>6. Placed
  BY DEF Placed, None
<1>7. Counted
  BY <1>2 DEF Counted, Unsettled, Shared, Held
<1>8. Backoffs
  BY DEF Backoffs, NoBackoff
<1> QED
  BY <1>4, <1>5, <1>6, <1>7, <1>8 DEF IInv, Upkeep

\* ... and every step keeps it.
LEMMA NextIInv == IInv /\ [Next]_vars => IInv'
<1> SUFFICES ASSUME IInv, [Next]_vars
             PROVE  IInv'
  OBVIOUS
<1>1. TypeOK /\ Upkeep /\ Backoffs
  BY DEF IInv
<1>2. Typed /\ Registered /\ Placed /\ Counted
  BY <1>1, Typing DEF Upkeep
<1>3. Typed'
  BY <1>2, TypedNext
<1>4. /\ Backoffs' /\ backoff' \in Entries
      /\ lastEarly' \in Times /\ lastFailed' \in Times
  BY <1>1, <1>2, BackoffsNext
<1>5. TypeOK'
  BY <1>3, <1>4 DEF TypeOK, Typed, Entries
<1>6. Fresh' /\ Registered' /\ Placed' /\ Counted' /\ Upstreams' /\ Released'
  BY <1>1, <1>2, FreshNext, RegisteredNext, PlacedNext, CountedNext, UpstreamsNext, ReleasedNext
<1> QED
  BY <1>4, <1>5, <1>6 DEF IInv, Upkeep

\* The invariant holds throughout, however callers, pumps and the upstream interleave.
THEOREM Invariant == Spec => []IInv
BY InitIInv, NextIInv, PTL DEF Spec

\* Whoever waits or subscribes is counted once, so collect finds a subscription for every
\* waiter and an open scope always has someone who will release it.
THEOREM SharesHeld == Spec => []SharesAreHeld
<1>1. IInv => SharesAreHeld
  <2> SUFFICES ASSUME IInv
               PROVE  SharesAreHeld
    OBVIOUS
  <2>1. TypeOK /\ Registered /\ Counted
    BY DEF IInv, Upkeep
  <2>2. \A i : /\ Cardinality(Waiting(i)) = Waits(i)
               /\ Cardinality(Owed(i)) = Owes(i)
               /\ Cardinality(Subscribed(i)) = Reads(i)
    <3>1. \A i : /\ Waiting(i) = Among({"waiting"}, i)
                 /\ Owed(i) = Among({"waiting", "releasing"}, i)
                 /\ Subscribed(i) = Among({"subscribed"}, i)
      BY DEF Waiting, Owed, Subscribed, Among
    <3> QED
      BY <3>1 DEF Waits, Owes, Reads, Count
  <2>3. \A i \in Incs : Unsettled(i) /\ Shared(i) /\ Held(i)
    BY <2>1 DEF Counted
  <2>4. EveryWaiterHasAShare
    BY <2>1, <2>2, <2>3 DEF EveryWaiterHasAShare, Registered, Unsettled, Shared, Failed
  <2>5. EveryScopeIsHeld
    BY <2>2, <2>3 DEF EveryScopeIsHeld, Held
  <2> QED
    BY <2>4, <2>5 DEF SharesAreHeld
<1> QED
  BY <1>1, Invariant, PTL

\* At most one upstream watch is in use, and someone is about to cancel any other.
THEOREM OneUpstreamInUse == Spec => []OneUpstream
<1>1. IInv => OneUpstream
  BY DEF IInv, Upkeep, Registered, Released, Obsolete, OneUpstream
<1> QED
  BY <1>1, Invariant, PTL

\* A failing upstream is left alone for at least RetryMin, never for longer than RetryMax.
THEOREM LeftAlone == Spec => FailingUpstreamLeftAlone
<1> DEFINE A == /\ started' # started /\ lastFailed # 0 => now >= lastFailed + RetryMin
                /\ backoff'.until <= now' + RetryMax
<1>1. IInv /\ IInv' /\ [Next]_vars => [A]_vars
  <2> SUFFICES ASSUME IInv, IInv', [Next]_vars
               PROVE  A
    OBVIOUS
  <2>1. Backoffs /\ Backoffs' /\ TypeOK
    BY DEF IInv
  <2>2. started' # started => ~BackingOff
    BY DEF Next, Tick, OtherKeySweeps, Watch, WatchScope, WatchOpening, WatchRefused, WatchBegin,
           Collect, Subscribe, Abandon, AbandonSettled, Leave, LeaveScope, Stop, LeaveForget,
           LeaveCancel, Withdraw, Release, SettleAbandoned, SettleOpen, SettleFailed, Sync, Die,
           Dying, DieForget, DieCancel, DieEnd, vars, backendVars
  <2>3. now \in Nat /\ lastFailed \in Nat /\ backoff.until \in Nat
    BY <2>1 DEF TypeOK, Times
  <2>4. ~BackingOff /\ lastFailed # 0 => now >= lastFailed + RetryMin
    BY <2>1, <2>3 DEF Backoffs, BackingOff
  <2> QED
    BY <2>1, <2>2, <2>4 DEF Backoffs
<1> QED
  BY <1>1, Invariant, PTL DEF Spec, FailingUpstreamLeftAlone
=============================================================================
