------------------------- MODULE NativeWatchProofs -------------------------
(***************************************************************************)
(* Proofs about NativeWatch, for any set of uids, any retry budget and any  *)
(* number of changes of the collection.                                     *)
(***************************************************************************)
EXTENDS NativeWatch, TLAPS

\* The history: what is not yet is as it is now, and a version is one of its own
\* resourceVersion or of an earlier one, at which it was written.
History ==
    /\ \A q \in Revs : q > rev => past[q] = past[rev]
    /\ \A q \in Revs : \A u \in Uids : past[q][u] # Absent =>
          past[q][u] <= q /\ past[past[q][u]][u] = past[q][u]

\* What the store holds was written, and no position is ahead of the server.
HeldIsWritten ==
    /\ \A u \in Uids : held[u] # Absent => held[u] <= rev /\ past[held[u]][u] = held[u]
    /\ pos <= rev /\ checkpoint <= rev

\* Where a LIST is under way or its snapshot is being delivered.
Listing == {"listing", "body", "resetting", "adding"}

\* A connection that lists has no checkpoint to lose, and what the store holds is no
\* younger than the list; one that resumes stands where its checkpoint is.  A position that
\* is lost is gone until a LIST brings another.
Positions ==
    /\ place \in Listing => ~resumed /\ checkpoint = NoCheckpoint
    /\ place = "opening" =>
          IF resumed THEN checkpoint # NoCheckpoint /\ pos = checkpoint
          ELSE checkpoint = NoCheckpoint
    /\ place \in {"body", "resetting", "adding"} \/ (place = "opening" /\ ~resumed)
          => \A u \in Uids : held[u] <= pos
    /\ lost => /\ checkpoint = NoCheckpoint
               /\ place \notin {"resetting", "adding", "opening", "accepted", "watching"}

\* While a snapshot is delivered, its members are seen and held as listed, or to do;
\* once the WATCH is requested all of them are seen.
Snapshot ==
    /\ place = "resetting" => todo = past[pos]
    /\ place = "adding" => \A u \in Uids :
          IF u \in seen THEN held[u] = past[pos][u] /\ held[u] # Absent /\ todo[u] = Absent
          ELSE todo[u] = past[pos][u]
    /\ place = "opening" /\ ~resumed => \A u \in Uids :
          IF u \in seen THEN held[u] = past[pos][u] /\ held[u] # Absent
          ELSE past[pos][u] = Absent

\* An accepted or open WATCH has a complete store, and so has a checkpoint.
Complete ==
    /\ ~aborted /\ place \in {"accepted", "watching"} => held = past[pos] /\ ~open
    /\ checkpoint # NoCheckpoint /\ ~aborted => held = past[checkpoint] /\ ~open
    /\ status = "live" /\ ~aborted => held = past[pos] /\ ~open

\* Where the stream may be when it says live, when it knows a terminal error, and while
\* the health timer runs, which is its own.
Statuses ==
    /\ status = "live" => place \in {"watching", "returned", "leaving"}
    /\ terminal => place \in {"returned", "leaving", "done"} /\ ~timer
    /\ timer => fresh /\ place \in {"watching", "returned"}

\* A connection is paid for by a retry, except the first.
Budget ==
    /\ attempts <= retries + 1
    /\ place \in {"top", "waiting"} => attempts <= retries

\* The inductive invariant.
IInv ==
    /\ TypeOK /\ History /\ HeldIsWritten
    /\ Positions /\ Snapshot /\ Complete /\ Statuses /\ Budget
USE MaxRetriesAssumption, MaxRevAssumption

-----------------------------------------------------------------------------
\* Types.

\* The resourceVersion before the first one.
LEMMA ZeroRev == 0 \in Revs
BY DEF Revs

\* The server's history keeps its type when it advances.
LEMMA AdvanceType ==
    ASSUME TypeOK, NEW now \in [Uids -> Revs], Advance(now)
    PROVE  TypeOK'
BY DEF TypeOK, Advance, Revs, lifeVars, watchVars, storeVars, historyVars

\* So do lifecycle.ts' flags, whatever the host's callback does.
LEMMA PublishType ==
    ASSUME TypeOK, NEW s, NEW h \in Host, NEW t \in BOOLEAN, Publish(s, h, t)
    PROVE  /\ aborted' \in BOOLEAN /\ failed' \in BOOLEAN /\ timer' \in BOOLEAN
           /\ status' = s
           /\ ~aborted' => ~aborted /\ h = "returns"
           /\ timer' => t
BY Zenon DEF TypeOK, Publish, Called

\* hooks.error keeps the lifecycle well typed, and never revives it.
LEMMA ReportType ==
    ASSUME TypeOK, NEW t \in BOOLEAN, NEW h \in Host, Report(t, h)
    PROVE  /\ terminal' \in BOOLEAN /\ aborted' \in BOOLEAN /\ failed' \in BOOLEAN
           /\ timer' \in BOOLEAN /\ status' = status /\ retries' = retries
           /\ ~aborted' => ~aborted /\ h = "returns"
           /\ timer' => timer /\ ~t
           /\ terminal' => terminal \/ t
BY Zenon DEF TypeOK, Report, Called

\* So does a call of the consumer, which may close or throw.
LEMMA ConsumedType ==
    ASSUME TypeOK, NEW h \in Host, Consumed(h)
    PROVE  /\ aborted' \in BOOLEAN /\ failed' \in BOOLEAN /\ timer' \in BOOLEAN
           /\ status' = status /\ retries' = retries /\ terminal' = terminal
           /\ ~aborted' => ~aborted /\ h = "returns"
           /\ timer' => timer
BY Zenon DEF TypeOK, Consumed, Called

\* Every step keeps the types.
LEMMA TypeInductive == TypeOK /\ [Next]_vars => TypeOK'
<1> SUFFICES ASSUME TypeOK, [Next]_vars PROVE TypeOK'
  OBVIOUS
<1> USE DEF serverVars, lifeVars, watchVars, storeVars, historyVars, Absent, NoCheckpoint
<1>1. ASSUME NEW u \in Uids, Write(u) \/ Remove(u) PROVE TypeOK'
  <2>1. /\ [past[rev] EXCEPT ![u] = Absent] \in [Uids -> Revs]
        /\ rev < MaxRev => [past[rev] EXCEPT ![u] = rev + 1] \in [Uids -> Revs]
    <3>1. rev < MaxRev => rev + 1 \in Revs
      BY DEF TypeOK, Revs
    <3>2. past[rev] \in [Uids -> Revs]
      BY DEF TypeOK
    <3> QED
      BY <3>1, <3>2, ZeroRev
  <2> QED
    BY <1>1, <2>1, AdvanceType DEF Write, Remove, Advance
<1>2. CASE Elsewhere
  BY <1>2, AdvanceType DEF Elsewhere, TypeOK
<1>3. CASE \E r \in Revs : Compact(r)
  BY <1>3 DEF Compact, TypeOK
<1>8. CASE Close
  BY <1>8, Zenon DEF Close, TypeOK
<1>4. ASSUME NEW h \in Host, Own(h) PROVE TypeOK'
  <2> USE DEF Silent
  <2>1. CASE Connect(h)
    <3>1. attempts' \in 0 .. MaxRetries + 2
      BY <2>1 DEF Connect, TypeOK
    <3>2. aborted' \in BOOLEAN /\ failed' \in BOOLEAN /\ timer' \in BOOLEAN
      BY <2>1, PublishType DEF Connect, TypeOK
    <3>3. fresh' \in BOOLEAN /\ lost' \in BOOLEAN /\ resumed' \in BOOLEAN /\ terminal' \in BOOLEAN
      BY <2>1, Zenon DEF Connect, TypeOK
    <3> QED
      BY <2>1, <3>1, <3>2, <3>3 DEF Connect, Publish, TypeOK, Places, Awaiting
  <2>2. CASE Stops \/ Ends \/ Waited
    <3>1. CASE Stops
      BY <3>1, Zenon DEF Stops, TypeOK, Places, Awaiting
    <3>2. CASE Ends
      BY <3>2, Zenon DEF Ends, TypeOK, Places, Awaiting
    <3>3. CASE Waited
      BY <3>3, Zenon DEF Waited, TypeOK, Places, Awaiting
    <3> QED
      BY <2>2, <3>1, <3>2, <3>3
  <2>8. CASE Finish(h)
    BY <2>8, PublishType DEF Finish, StopsForGood, TypeOK, Places
  <2>3. CASE Explained(h)
    BY <2>3, ReportType DEF Explained, TypeOK, Places, Awaiting
  <2>7. CASE Retry(h)
    <3>1. retries' \in 0 .. MaxRetries
      BY <2>7 DEF Retry, BudgetSpent, TypeOK
    <3> QED
      BY <2>7, <3>1, PublishType, Zenon DEF Retry, TimerCleared, TypeOK, Places, Awaiting
  <2>4. CASE Aborted \/ Cut \/ RequestWatch
    BY <1>4, <2>4 DEF Aborted, Cut, RequestWatch, TypeOK, Places, Awaiting
  <2>5. CASE DeliverReset(h) \/ GoLive(h)
    BY <2>5, ConsumedType, PublishType
       DEF DeliverReset, GoLive, TypeOK, Places, Awaiting
  <2>6. ASSUME NEW u \in Uids, DeliverAdded(u, h) PROVE TypeOK'
    BY <2>6, ConsumedType, ZeroRev DEF DeliverAdded, TypeOK
  <2> QED
    BY <1>4, <2>1, <2>2, <2>3, <2>4, <2>5, <2>6, <2>7, <2>8 DEF Own
<1>5. ASSUME NEW h \in Host, Answer(h) PROVE TypeOK'
  <2> USE DEF Silent
  <2>1. CASE Listed(h)
    BY <2>1, PublishType DEF Listed, Opened, TypeOK, Places, Awaiting
  <2>10. CASE BodyArrives(h)
    <3>1. past[pos] \in [Uids -> Revs]
      BY DEF TypeOK
    <3> QED
      BY <2>10, <3>1, PublishType DEF BodyArrives, WhileListing, TypeOK, Places
  <2>7. CASE PageArrives(h)
    BY <2>7, ReportType DEF PageArrives, TypeOK, Places, Awaiting
  <2>2. CASE WatchAccepted(h)
    BY <2>2, ConsumedType, ZeroRev DEF WatchAccepted, TypeOK, Places, Awaiting
  <2>11. CASE WatchResumed
    BY <2>11 DEF WatchResumed, TypeOK, Places
  <2>3. ASSUME NEW k \in Refusals, Refused(k) PROVE TypeOK'
    BY <2>3, ZeroRev DEF Refused, CheckpointAfter, TypeOK, Places, Awaiting, Refusing
  <2>8. ASSUME NEW k \in Refusals, ErrorFrame(k, h) PROVE TypeOK'
    BY <2>8, ReportType, ZeroRev DEF ErrorFrame, CheckpointAfter, TypeOK, Places, Awaiting
  <2>4. CASE Drops \/ Truncated(h)
    <3>1. CASE Drops
      BY <3>1, Zenon DEF Drops, TypeOK, Places, Awaiting
    <3>2. CASE Truncated(h)
      BY <3>2, ReportType, Zenon DEF Truncated, TypeOK, Places, Awaiting
    <3> QED
      BY <2>4, <3>1, <3>2
  <2>9. CASE MalformedCollection(h) \/ MalformedFrame(h)
    BY <2>9, ReportType, ZeroRev
       DEF MalformedCollection, MalformedFrame, Mistrusted, TypeOK, Places, Awaiting
  <2>5. ASSUME NEW r \in Revs, NEW v \in BOOLEAN, Bookmark(r, v) PROVE TypeOK'
    BY <2>5, ZeroRev DEF Bookmark, AdvanceTo, TypeOK
  <2>6. ASSUME NEW r \in Revs, NEW v \in BOOLEAN, Frame(r, h, v) PROVE TypeOK'
    BY <2>6, ConsumedType, ZeroRev DEF Frame, AdvanceTo, TypeOK
  <2> QED
    BY <1>5, <2>1, <2>2, <2>3, <2>4, <2>5, <2>6, <2>7, <2>8, <2>9,
       <2>10, <2>11 DEF Answer
<1>6. ASSUME NEW h \in Host, HealthyFires(h) PROVE TypeOK'
  <2>1. 0 \in 0 .. MaxRetries /\ 1 \in 0 .. MaxRetries + 2
    OBVIOUS
  <2> QED
    BY <1>6, <2>1, PublishType DEF HealthyFires, TypeOK
<1>7. CASE UNCHANGED vars
  BY <1>7 DEF vars, TypeOK
<1> QED
  BY <1>1, <1>2, <1>3, <1>4, <1>5, <1>6, <1>7, <1>8 DEF Next, Server

-----------------------------------------------------------------------------
\* The server.

\* Only a write, a removal or a change elsewhere advances the server.
LEMMA ServerSteps ==
    ASSUME [Next]_vars
    PROVE  \/ \E u \in Uids : Write(u) \/ Remove(u)
           \/ Elsewhere
           \/ UNCHANGED <<rev, past>>
<1> USE DEF serverVars, lifeVars, watchVars, storeVars, historyVars
<1>1. ASSUME NEW h \in Host, Own(h) PROVE UNCHANGED <<rev, past>>
  BY <1>1 DEF Own, Connect, Stops, Explained, Ends, Retry, Waited, Finish, Aborted, Cut,
     DeliverReset, RequestWatch, GoLive, DeliverAdded
<1>2. ASSUME NEW h \in Host, Answer(h) PROVE UNCHANGED <<rev, past>>
  BY <1>2 DEF Answer, Listed, PageArrives, BodyArrives, WatchAccepted, WatchResumed, Refused,
     ErrorFrame, Drops, Truncated, MalformedCollection, MalformedFrame, Mistrusted, Bookmark, Frame
<1> QED
  BY <1>1, <1>2 DEF Next, Server, Compact, Close, HealthyFires, vars

\* An advance rewrites nothing that has been.
LEMMA AdvanceKeepsPast ==
    ASSUME TypeOK, NEW now \in [Uids -> Revs], Advance(now)
    PROVE  /\ rev' = rev + 1 /\ rev + 1 \in Revs
           /\ \A q \in Revs : q <= rev => past'[q] = past[q]
           /\ \A q \in Revs : q > rev => past'[q] = now
BY DEF Advance, TypeOK, Revs

\* A write to the collection extends its history and changes none of it.
LEMMA AdvanceKeepsHistory ==
    ASSUME TypeOK, History, NEW now \in [Uids -> Revs], Advance(now),
           \A u \in Uids : now[u] \in {past[rev][u], rev + 1, Absent}
    PROVE  History'
<1>a. /\ rev' = rev + 1 /\ rev + 1 \in Revs
      /\ \A q \in Revs : q <= rev => past'[q] = past[q]
      /\ \A q \in Revs : q > rev => past'[q] = now
  BY AdvanceKeepsPast
<1>b. rev \in Nat /\ \A q \in Revs : q \in Nat
  BY DEF TypeOK, Revs
<1>1. \A q \in Revs : q > rev' => past'[q] = past'[rev']
  BY <1>a, <1>b
<1>2. ASSUME NEW q \in Revs, NEW u \in Uids, past'[q][u] # Absent
      PROVE  past'[q][u] <= q /\ past'[past'[q][u]][u] = past'[q][u]
  <2>1. CASE q <= rev
    <3>1. past'[q][u] = past[q][u]
      BY <2>1, <1>a
    <3>2. past[q][u] <= q /\ past[past[q][u]][u] = past[q][u] /\ past[q][u] \in Revs
      BY <1>2, <3>1 DEF History, TypeOK
    <3> QED
      BY <2>1, <3>1, <3>2, <1>a, <1>b
  <2>2. CASE q > rev
    <3>1. past'[q][u] = now[u]
      BY <2>2, <1>a
    <3>2. CASE now[u] = rev + 1
      BY <2>2, <3>1, <3>2, <1>a, <1>b
    <3>3. CASE now[u] = past[rev][u]
      <4>1. past[rev][u] <= rev /\ past[past[rev][u]][u] = past[rev][u] /\ past[rev][u] \in Revs
        BY <1>2, <3>1, <3>3 DEF History, TypeOK
      <4> QED
        BY <2>2, <3>1, <3>3, <4>1, <1>a, <1>b
    <3> QED
      BY <1>2, <3>1, <3>2, <3>3
  <2> QED
    BY <2>1, <2>2, <1>b
<1> QED
  BY <1>1, <1>2 DEF History

\* What the server writes now, or removes, is what the history is about.
LEMMA ServerAdvances ==
    ASSUME TypeOK, (\E u \in Uids : Write(u) \/ Remove(u)) \/ Elsewhere
    PROVE  \E now \in [Uids -> Revs] :
              Advance(now) /\ \A u \in Uids : now[u] \in {past[rev][u], rev + 1, Absent}
<1>1. past[rev] \in [Uids -> Revs] /\ 0 \in Revs
  BY ZeroRev DEF TypeOK
<1>2. rev < MaxRev => rev + 1 \in Revs
  BY DEF TypeOK, Revs
<1>3. ASSUME NEW u \in Uids, Write(u) PROVE [past[rev] EXCEPT ![u] = rev + 1] \in [Uids -> Revs]
  BY <1>1, <1>2, <1>3 DEF Write, Advance
<1>4. ASSUME NEW u \in Uids PROVE [past[rev] EXCEPT ![u] = Absent] \in [Uids -> Revs]
  BY <1>1 DEF Absent
<1> QED
  BY <1>1, <1>3, <1>4 DEF Write, Remove, Elsewhere

\* No other step touches the history.
LEMMA HistoryInductive == TypeOK /\ History /\ [Next]_vars => History'
<1> SUFFICES ASSUME TypeOK, History, [Next]_vars PROVE History'
  OBVIOUS
<1>1. CASE UNCHANGED <<rev, past>>
  BY <1>1 DEF History
<1>2. CASE (\E u \in Uids : Write(u) \/ Remove(u)) \/ Elsewhere
  BY <1>2, ServerAdvances, AdvanceKeepsHistory
<1> QED
  BY <1>1, <1>2, ServerSteps

\* The stream's own state survives a change of the collection.
Rest == HeldIsWritten /\ Positions /\ Snapshot /\ Complete /\ Statuses /\ Budget

\* A write concerns neither the connection's position nor the store.
LEMMA AdvanceKeepsRest ==
    ASSUME IInv, NEW now \in [Uids -> Revs], Advance(now)
    PROVE  Rest'
<1> USE DEF lifeVars, watchVars, storeVars, historyVars, IInv, Rest, Advance
<1>1. /\ past'[pos] = past[pos] /\ past'[checkpoint] = past[checkpoint]
      /\ rev < rev' /\ rev \in Nat /\ rev' \in Nat
      /\ \A q \in Revs : q <= rev => past'[q] = past[q]
  BY AdvanceKeepsPast DEF HeldIsWritten, TypeOK, Revs
<1>2. HeldIsWritten'
  BY <1>1 DEF HeldIsWritten, TypeOK, Revs
<1>3. Positions' /\ Statuses' /\ Budget'
  BY DEF Positions, Statuses, Budget
<1>4. Snapshot' /\ Complete'
  BY <1>1 DEF Snapshot, Complete
<1> QED
  BY <1>2, <1>3, <1>4

-----------------------------------------------------------------------------
\* The stream's own steps.

\* The numbers are numbers.
LEMMA Numbers ==
    ASSUME TypeOK
    PROVE  /\ \A q \in Revs : q \in Nat
           /\ rev \in Nat /\ pos \in Nat /\ checkpoint \in Nat
           /\ retries \in Nat /\ attempts \in Nat
           /\ held \in [Uids -> Revs] /\ todo \in [Uids -> Revs] /\ seen \in SUBSET Uids
           /\ \A q \in Revs : past[q] \in [Uids -> Revs]
BY DEF TypeOK, Revs

\* A step of the connection itself, between two answers of the server, ...
LEMMA OwnKeepsRest ==
    ASSUME IInv, NEW h \in Host, Own(h)
    PROVE  Rest'
<1> USE DEF serverVars, lifeVars, watchVars, storeVars, historyVars, IInv, Rest, Silent, Listing
<1>1. CASE Connect(h)
  <2>1. status' = "connecting" /\ (~aborted' => ~aborted /\ h = "returns") /\ (timer' => timer)
    BY <1>1, PublishType DEF Connect, TypeOK
  <2>2. HeldIsWritten' /\ Positions' /\ Statuses'
    BY <1>1, <2>1 DEF Connect, HeldIsWritten, Positions, Statuses
  <2>3. Snapshot' /\ Complete'
    BY <1>1, <2>1 DEF Connect, Snapshot, Complete
  <2>4. Budget'
    BY <1>1, Numbers DEF Connect, Budget
  <2> QED
    BY <2>2, <2>3, <2>4
<1>2. CASE Stops \/ Waited \/ Aborted \/ Cut
  BY <1>2 DEF Stops, Waited, Aborted, Cut, Abortable, Refusing, HeldIsWritten, Positions,
     Snapshot, Complete, Statuses, Budget
<1>3. CASE Ends
  BY <1>3 DEF Ends, HeldIsWritten, Positions, Snapshot, Complete, Statuses, Budget
<1>10. CASE Finish(h)
  <2>1. /\ status' \in {"closed", "terminal", "exhausted"} /\ ~timer' /\ (~aborted' => ~aborted)
    BY <1>10, PublishType DEF Finish, StopsForGood
  <2> QED
    BY <1>10, <2>1 DEF Finish, HeldIsWritten, Positions, Snapshot, Complete, Statuses, Budget
<1>4. CASE Explained(h)
  BY <1>4, ReportType DEF Explained, Refusing, HeldIsWritten, Positions, Snapshot, Complete,
     Statuses, Budget
<1>5. CASE Retry(h)
  <2>1. status' = "retrying" /\ (~aborted' => ~aborted) /\ ~timer'
    BY <1>5, PublishType DEF Retry, TimerCleared
  <2>2. HeldIsWritten' /\ Positions' /\ Statuses' /\ Snapshot' /\ Complete'
    BY <1>5, <2>1 DEF Retry, StopsForGood, HeldIsWritten, Positions, Statuses, Snapshot, Complete
  <2>3. Budget'
    BY <1>5, Numbers DEF Retry, Budget
  <2> QED
    BY <2>2, <2>3
<1>6. CASE DeliverReset(h)
  BY <1>6, ConsumedType DEF DeliverReset, HeldIsWritten, Positions, Snapshot, Complete, Statuses,
     Budget
<1>7. ASSUME NEW u \in Uids, DeliverAdded(u, h) PROVE Rest'
  <2>1. /\ ~aborted' => ~aborted
        /\ status' = status /\ terminal' = terminal /\ retries' = retries /\ (timer' => timer)
    BY <1>7, ConsumedType DEF DeliverAdded
  <2>2. /\ todo[u] = past[pos][u] /\ todo[u] # Absent
        /\ past[pos][u] <= pos /\ past[past[pos][u]][u] = past[pos][u]
    <3>1. todo[u] = past[pos][u] /\ todo[u] # Absent /\ pos \in Revs
      BY <1>7 DEF DeliverAdded, Snapshot, TypeOK
    <3> QED
      BY <3>1 DEF History
  <2>3. HeldIsWritten'
    BY <1>7, <2>2, Numbers DEF DeliverAdded, HeldIsWritten
  <2>4. Positions'
    BY <1>7, <2>2, Numbers DEF DeliverAdded, Positions
  <2>5. Snapshot'
    BY <1>7, <2>2, Numbers DEF DeliverAdded, Snapshot
  <2>6. Complete' /\ Statuses' /\ Budget'
    BY <1>7, <2>1 DEF DeliverAdded, Positions, Complete, Statuses, Budget
  <2> QED
    BY <2>3, <2>4, <2>5, <2>6
<1>8. CASE RequestWatch
  <2>1. Snapshot'
    BY <1>8, Numbers DEF RequestWatch, Empty, Snapshot, Positions
  <2>2. HeldIsWritten' /\ Positions' /\ Complete' /\ Statuses' /\ Budget'
    BY <1>8 DEF RequestWatch, HeldIsWritten, Positions, Complete, Statuses, Budget
  <2> QED
    BY <2>1, <2>2
<1>9. CASE GoLive(h)
  BY <1>9, PublishType DEF GoLive, HeldIsWritten, Positions, Snapshot,
     Complete, Statuses, Budget
<1> QED
  BY <1>1, <1>2, <1>3, <1>4, <1>5, <1>6, <1>7, <1>8, <1>9, <1>10 DEF Own

\* Between two changes the collection is the same: a frame takes a store that is at pos
\* to the next change.
LEMMA NextChange ==
    ASSUME TypeOK, NEW r \in Revs, ChangesAt(r), held = past[pos],
           held' = [u \in Uids |-> IF past[r][u] # past[r - 1][u] THEN past[r][u] ELSE held[u]]
    PROVE  held' = past[r] /\ past[r - 1] = past[pos]
<1>1. r \in Nat /\ pos \in Nat /\ pos < r /\ r - 1 \in Revs
  BY Numbers DEF ChangesAt, TypeOK, Revs
<1>2. past[r - 1] = past[pos]
  <2>1. CASE r - 1 = pos
    BY <2>1
  <2>2. CASE r - 1 # pos
    BY <1>1, <2>2 DEF ChangesAt, Quiet
  <2> QED
    BY <2>1, <2>2
<1>3. past[r] \in [Uids -> Revs]
  BY Numbers
<1> QED
  BY <1>2, <1>3

\* ... and an answer of the server, keep position, store and status in step.
LEMMA AnswerKeepsRest ==
    ASSUME IInv, NEW h \in Host, Answer(h)
    PROVE  Rest'
<1> USE DEF serverVars, lifeVars, watchVars, storeVars, historyVars, IInv, Rest, Silent, Listing
<1>1. CASE Listed(h)
  <2>1. status' = "syncing" /\ (~aborted' => ~aborted) /\ (timer' => timer)
    BY <1>1, PublishType DEF Listed, Opened, TypeOK
  <2>2. HeldIsWritten' /\ Positions'
    BY <1>1, Numbers DEF Listed, HeldIsWritten, Positions, Absent
  <2>3. Snapshot' /\ Complete' /\ Statuses' /\ Budget'
    BY <1>1, <2>1 DEF Listed, Positions, Snapshot, Complete, Statuses, Budget
  <2> QED
    BY <2>2, <2>3
<1>2. CASE PageArrives(h)
  BY <1>2, ReportType
     DEF PageArrives, HeldIsWritten, Positions, Snapshot, Complete, Statuses, Budget
<1>3. CASE BodyArrives(h)
  <2>1. status' = "syncing" /\ (~aborted' => ~aborted) /\ ~timer'
    BY <1>3, PublishType DEF BodyArrives
  <2>2. HeldIsWritten' /\ Positions'
    BY <1>3 DEF BodyArrives, WhileListing, HeldIsWritten, Positions
  <2>3. Snapshot' /\ Complete' /\ Statuses' /\ Budget'
    BY <1>3, <2>1 DEF BodyArrives, WhileListing, Positions, Snapshot, Complete, Statuses, Budget
  <2> QED
    BY <2>2, <2>3
<1>4. CASE WatchAccepted(h)
  <2>1. /\ ~aborted' => ~aborted /\ h = "returns"
        /\ status' = status /\ terminal' = terminal /\ retries' = retries /\ (timer' => timer)
    BY <1>4, ConsumedType DEF WatchAccepted
  <2>2. held' = past[pos]
    <3>1. past[pos] \in [Uids -> Revs]
      BY DEF TypeOK
    <3>2. \A u \in Uids : held'[u] = past[pos][u]
      BY <1>4 DEF WatchAccepted, Snapshot
    <3> QED
      BY <1>4, <3>1, <3>2 DEF WatchAccepted
  <2>3. HeldIsWritten'
    BY <1>4, Numbers DEF WatchAccepted, HeldIsWritten
  <2>4. Positions' /\ Snapshot' /\ Statuses' /\ Budget'
    BY <1>4, <2>1 DEF WatchAccepted, Positions, Snapshot, Statuses, Budget
  <2>5. Complete'
    BY <1>4, <2>1, <2>2 DEF WatchAccepted, Positions, Complete, Statuses
  <2> QED
    BY <2>3, <2>4, <2>5
<1>5. CASE WatchResumed
  BY <1>5 DEF WatchResumed, HeldIsWritten, Positions, Snapshot, Complete, Statuses, Budget
<1>6. ASSUME NEW k \in Refusals, Refused(k) PROVE Rest'
  <2>1. HeldIsWritten'
    BY <1>6, Numbers DEF Refused, CheckpointAfter, NoCheckpoint, HeldIsWritten
  <2>2. Positions'
    BY <1>6 DEF Refused, CheckpointAfter, KeepsCheckpoint, Positions
  <2>3. Snapshot' /\ Complete' /\ Statuses' /\ Budget'
    BY <1>6 DEF Refused, CheckpointAfter, Snapshot, Complete, Statuses, Budget
  <2> QED
    BY <2>1, <2>2, <2>3
<1>7. ASSUME NEW k \in Refusals, ErrorFrame(k, h) PROVE Rest'
  <2>1. (~aborted' => ~aborted) /\ status' = status /\ retries' = retries
        /\ (terminal' => ~timer') /\ (timer' => timer)
    BY <1>7, ReportType DEF ErrorFrame, Statuses
  <2>2. HeldIsWritten'
    BY <1>7, Numbers DEF ErrorFrame, CheckpointAfter, NoCheckpoint, HeldIsWritten
  <2>3. Positions'
    BY <1>7 DEF ErrorFrame, CheckpointAfter, KeepsCheckpoint, Positions
  <2>4. Snapshot' /\ Complete' /\ Statuses' /\ Budget'
    BY <1>7, <2>1 DEF ErrorFrame, CheckpointAfter, Snapshot, Complete, Statuses, Budget
  <2> QED
    BY <2>2, <2>3, <2>4
<1>8. CASE Drops
  BY <1>8 DEF Drops, HeldIsWritten, Positions, Snapshot, Complete, Statuses, Budget
<1>9. CASE Truncated(h)
  BY <1>9, ReportType DEF Truncated, HeldIsWritten, Positions, Snapshot, Complete, Statuses, Budget
<1>10. CASE MalformedCollection(h) \/ MalformedFrame(h)
  <2>a. /\ ~aborted /\ place \in {"body", "watching"}
        /\ place' = "returned" /\ checkpoint' = NoCheckpoint
        /\ UNCHANGED <<rev, past, resumed, pos, todo, held, seen, open, attempts, fresh>>
    BY <1>10 DEF MalformedCollection, MalformedFrame, Mistrusted
  <2>1. (~aborted' => ~aborted) /\ status' = status /\ retries' = retries
        /\ (terminal' => terminal) /\ (timer' => timer)
    BY <1>10, ReportType DEF MalformedCollection, MalformedFrame, Mistrusted
  <2>2. HeldIsWritten'
    BY <2>a, Numbers DEF NoCheckpoint, HeldIsWritten
  <2> QED
    BY <2>a, <2>1, <2>2 DEF Positions, Snapshot, Complete, Statuses, Budget
<1>11. ASSUME NEW r \in Revs, NEW v \in BOOLEAN, Bookmark(r, v) PROVE Rest'
  <2>1. past[r] = past[pos]
    BY <1>11, Numbers DEF Bookmark, Quiet
  <2>2. HeldIsWritten' /\ Positions'
    BY <1>11, Numbers DEF Bookmark, AdvanceTo, NoCheckpoint, HeldIsWritten, Positions
  <2>4. Snapshot' /\ Statuses' /\ Budget'
    BY <1>11 DEF Bookmark, Snapshot, Statuses, Budget
  <2>3. Complete'
    BY <1>11, <2>1 DEF Bookmark, AdvanceTo, Complete
  <2> QED
    BY <2>2, <2>3, <2>4
<1>12. ASSUME NEW r \in Revs, NEW v \in BOOLEAN, Frame(r, h, v) PROVE Rest'
  <2>1. /\ ~aborted' => ~aborted /\ h = "returns"
        /\ status' = status /\ terminal' = terminal /\ retries' = retries /\ (timer' => timer)
    BY <1>12, ConsumedType DEF Frame
  <2>2. held' = past[r]
    BY <1>12, NextChange DEF Frame, Complete
  <2>3. HeldIsWritten'
    <3>1. \A u \in Uids : past[r][u] # Absent => past[r][u] <= r /\ past[past[r][u]][u] = past[r][u]
      BY DEF History
    <3>2. r \in Nat /\ r <= rev /\ rev \in Nat /\ \A u \in Uids : past[r][u] \in Nat
      BY <1>12, Numbers DEF Frame, ChangesAt
    <3>3. checkpoint' <= rev
      BY <1>12, <3>2, Numbers DEF Frame, AdvanceTo, NoCheckpoint, HeldIsWritten
    <3> QED
      BY <1>12, <2>2, <3>1, <3>2, <3>3 DEF Frame, HeldIsWritten
  <2>4. Positions' /\ Snapshot' /\ Statuses' /\ Budget'
    BY <1>12, <2>1 DEF Frame, Positions, Snapshot, Statuses, Budget
  <2>5. Complete'
    BY <1>12, <2>1, <2>2 DEF Frame, AdvanceTo, Complete
  <2> QED
    BY <2>3, <2>4, <2>5
<1> QED
  BY <1>1, <1>2, <1>3, <1>4, <1>5, <1>6, <1>7, <1>8, <1>9, <1>10, <1>11, <1>12 DEF Answer
LEMMA HealthyKeepsRest ==
    ASSUME IInv, NEW h \in Host, HealthyFires(h)
    PROVE  Rest'
<1> USE DEF serverVars, watchVars, storeVars, historyVars, IInv, Rest
<1>1. /\ UNCHANGED <<rev, past, place, checkpoint, resumed, pos, todo, held, seen, open,
                     terminal, status>>
      /\ (~aborted' => ~aborted) /\ ~timer'
      /\ UNCHANGED <<fresh, lost>>
      /\ \/ UNCHANGED <<retries, attempts>>
         \/ status = "live" /\ retries' = 0 /\ attempts' = 1
  <2>1. CASE status = "live" /\ ~aborted
    BY <2>1, PublishType DEF HealthyFires, Statuses
  <2>2. CASE status # "live" \/ aborted
    <3>1. timer' = FALSE /\ UNCHANGED <<status, retries, aborted, attempts>>
      BY <2>2 DEF HealthyFires
    <3>2. UNCHANGED <<rev, past, place, checkpoint, resumed, pos, todo, held, seen, open, terminal,
                      fresh, lost>>
      BY DEF HealthyFires
    <3> QED
      BY <3>1, <3>2
  <2> QED
    BY <2>1, <2>2
<1>2. HeldIsWritten' /\ Positions' /\ Snapshot' /\ Complete' /\ Statuses'
  BY <1>1 DEF HeldIsWritten, Positions, Snapshot, Complete, Statuses
<1>3. Budget'
  BY <1>1 DEF Budget, Statuses
<1> QED
  BY <1>2, <1>3

\* The invariant is inductive.
LEMMA Inductive == IInv /\ [Next]_vars => IInv'
<1> SUFFICES ASSUME IInv, [Next]_vars PROVE IInv'
  OBVIOUS
<1>1. TypeOK' /\ History'
  BY TypeInductive, HistoryInductive DEF IInv
<1>2. ASSUME (\E u \in Uids : Write(u) \/ Remove(u)) \/ Elsewhere PROVE Rest'
  BY <1>2, ServerAdvances, AdvanceKeepsRest DEF IInv
<1>3. ASSUME (\E r \in Revs : Compact(r)) \/ UNCHANGED vars PROVE Rest'
  BY <1>3 DEF Compact, vars, serverVars, lifeVars, watchVars, storeVars, historyVars, IInv, Rest,
     HeldIsWritten, Positions, Snapshot, Complete, Statuses, Budget
<1>4. ASSUME Close PROVE Rest'
  BY <1>4 DEF Close, serverVars, watchVars, storeVars, historyVars, IInv, Rest, HeldIsWritten,
     Positions, Snapshot, Complete, Statuses, Budget
<1>5. ASSUME NEW h \in Host, Own(h) \/ Answer(h) \/ HealthyFires(h) PROVE Rest'
  BY <1>5, OwnKeepsRest, AnswerKeepsRest, HealthyKeepsRest
<1>6. Rest'
  BY <1>2, <1>3, <1>4, <1>5 DEF Next, Server
<1> QED
  BY <1>1, <1>6 DEF IInv, Rest

\* A new connection has nothing, and claims nothing.
LEMMA Initially == Init => IInv
<1> SUFFICES ASSUME Init PROVE IInv
  OBVIOUS
<1>1. TypeOK
  <2>1. Empty \in [Uids -> Revs] /\ 0 \in Revs /\ 1 \in Revs
    BY DEF Empty, Absent, Revs
  <2>2. past \in [Revs -> [Uids -> Revs]]
    BY <2>1 DEF Init
  <2>3. 0 \in 0 .. MaxRetries /\ 0 \in 0 .. MaxRetries + 2
    OBVIOUS
  <2> QED
    <3>1. rev \in Revs \ {0} /\ floor \in Revs /\ checkpoint \in Revs /\ pos \in Revs
      BY <2>1 DEF Init, NoCheckpoint
    <3>2. todo \in [Uids -> Revs] /\ held \in [Uids -> Revs] /\ seen \in SUBSET Uids
      BY <2>1 DEF Init
    <3>3. place \in Places /\ retries \in 0 .. MaxRetries /\ attempts \in 0 .. MaxRetries + 2
      BY <2>3 DEF Init, Places, Awaiting
    <3> QED
      BY <2>2, <3>1, <3>2, <3>3 DEF Init, TypeOK
<1>2. \A q \in Revs : \A u \in Uids : past[q][u] = Absent
  BY DEF Init, Empty
<1>3. History
  BY <1>1, <1>2 DEF Init, History, TypeOK
<1>4. Rest
  BY <1>1, <1>2 DEF Init, Rest, HeldIsWritten, Positions, Snapshot, Complete, Statuses, Budget,
     Listing, Empty, NoCheckpoint, Absent
<1> QED
  BY <1>1, <1>3, <1>4 DEF IInv, Rest

-----------------------------------------------------------------------------
\* The invariant holds of every behaviour: NativeWatch's inductive strengthening of
\* what watchOnce and runConnection promise.
THEOREM Invariant == Spec => []IInv
<1>1. Init => IInv
  BY Initially
<1>2. IInv /\ [Next]_vars => IInv'
  BY Inductive
<1> QED
  BY <1>1, <1>2, PTL DEF Spec

\* For every collection, history and retry budget: the checkpoint of native.ts names
\* exactly what the store holds, so a resumed WATCH neither misses nor repeats a change.
THEOREM CheckpointHeld == Spec => []CheckpointIsHeld
<1>1. IInv => CheckpointIsHeld
  BY DEF IInv, Positions, Complete, CheckpointIsHeld
<1> QED
  BY <1>1, Invariant, PTL

\* The status live is published only over a complete store (hooks.synced).
THEOREM LiveComplete == Spec => []LiveIsComplete
<1>1. IInv => LiveIsComplete
  BY DEF IInv, Complete, LiveIsComplete
<1> QED
  BY <1>1, Invariant, PTL

\* maxRetries bounds the reconnects between two healthy periods (lifecycle.ts, run).
THEOREM BudgetKept == Spec => []BudgetHolds
<1>1. IInv => BudgetHolds
  BY Numbers DEF IInv, TypeOK, Budget, BudgetHolds
<1> QED
  BY <1>1, Invariant, PTL

-----------------------------------------------------------------------------
\* What a step may never do.

\* A step changes the store only where the consumer is called: the snapshot's
\* deliveries, its end, and a frame of the open watch.
LEMMA StoreSteps ==
    ASSUME [Next]_vars
    PROVE  \/ UNCHANGED <<held, seen, open>>
           \/ \E h \in Host :
                 \/ DeliverReset(h) \/ (\E u \in Uids : DeliverAdded(u, h)) \/ WatchAccepted(h)
                 \/ \E r \in Revs, v \in BOOLEAN : Frame(r, h, v)
<1> USE DEF serverVars, lifeVars, watchVars, storeVars, historyVars
<1>1. ASSUME Server \/ Close \/ UNCHANGED vars PROVE UNCHANGED <<held, seen, open>>
  BY <1>1 DEF Server, Write, Remove, Elsewhere, Advance, Compact, Close, vars
<1>2. ASSUME NEW h \in Host, Own(h)
      PROVE  \/ UNCHANGED <<held, seen, open>>
             \/ DeliverReset(h) \/ \E u \in Uids : DeliverAdded(u, h)
  BY <1>2 DEF Own, Connect, Stops, Explained, Ends, Retry, Waited, Finish, Aborted, Cut,
     RequestWatch, GoLive
<1>3. ASSUME NEW h \in Host, Answer(h)
      PROVE  \/ UNCHANGED <<held, seen, open>>
             \/ WatchAccepted(h) \/ \E r \in Revs, v \in BOOLEAN : Frame(r, h, v)
  BY <1>3 DEF Answer, Listed, PageArrives, BodyArrives, WatchResumed, Refused, ErrorFrame, Drops,
     Truncated, MalformedCollection, MalformedFrame, Mistrusted, Bookmark
<1>4. ASSUME NEW h \in Host, HealthyFires(h) PROVE UNCHANGED <<held, seen, open>>
  BY <1>4 DEF HealthyFires
<1> QED
  BY <1>1, <1>2, <1>3, <1>4 DEF Next

\* An object leaves the store only if that version is gone from the collection.
LEMMA PrunedIsGone ==
    ASSUME IInv, [Next]_vars, NEW u \in Uids, held[u] # Absent, held'[u] = Absent
    PROVE  \E r \in Revs : held[u] < r /\ r <= rev /\ past[r][u] = Absent
<1> USE DEF IInv
<1>1. held # held'
  OBVIOUS
<1>2. ASSUME NEW h \in Host, WatchAccepted(h)
      PROVE  \E r \in Revs : held[u] < r /\ r <= rev /\ past[r][u] = Absent
  <2>1. u \notin seen /\ past[pos][u] = Absent
    BY <1>2 DEF WatchAccepted, Snapshot
  <2>2. held[u] <= pos /\ past[held[u]][u] = held[u]
    BY <1>2 DEF WatchAccepted, Positions, HeldIsWritten
  <2>3. held[u] < pos
    <3>1. held[u] # pos
      BY <2>1, <2>2
    <3>2. held[u] \in Nat /\ pos \in Nat
      BY Numbers
    <3> QED
      BY <2>2, <3>1, <3>2
  <2> QED
    BY <2>1, <2>3 DEF HeldIsWritten, TypeOK
<1>3. ASSUME NEW h \in Host, NEW r \in Revs, NEW v \in BOOLEAN, Frame(r, h, v)
      PROVE  \E q \in Revs : held[u] < q /\ q <= rev /\ past[q][u] = Absent
  <2>1. held = past[pos] /\ pos \in Revs
    BY <1>3 DEF Frame, Complete, TypeOK
  <2>2. held' = past[r]
    BY <1>3, <2>1, NextChange DEF Frame
  <2>3. held[u] <= pos /\ pos < r /\ r <= rev
    BY <1>3, <2>1 DEF Frame, ChangesAt, History
  <2>4. held[u] < r
    BY <2>1, <2>3, Numbers
  <2> QED
    BY <2>2, <2>3, <2>4
<1>4. ASSUME NEW h \in Host, DeliverReset(h) PROVE FALSE
  BY <1>1, <1>4 DEF DeliverReset
<1>5. ASSUME NEW h \in Host, NEW w \in Uids, DeliverAdded(w, h) PROVE FALSE
  BY <1>5, Numbers DEF DeliverAdded
<1> QED
  BY <1>1, <1>2, <1>3, <1>4, <1>5, StoreSteps

\* For every collection: an interrupted or partial snapshot, a drop or a resumption
\* prunes nothing that the API server has not removed (store.endSnapshot, deliver).
THEOREM OnlyGonePruned == Spec => OnlyTheGoneArePruned
<1>1. IInv /\ [Next]_vars =>
        [\A u \in Uids : held[u] # Absent /\ held'[u] = Absent =>
            \E r \in Revs : held[u] < r /\ r <= rev /\ past[r][u] = Absent]_vars
  BY PrunedIsGone
<1> QED
  BY <1>1, Invariant, PTL DEF Spec, OnlyTheGoneArePruned

\* A step of a stream that knows a terminal error opens no connection.
LEMMA TerminalStaysPut ==
    ASSUME IInv, [Next]_vars, terminal
    PROVE  attempts' <= attempts
<1> USE DEF IInv
<1>1. place \in {"returned", "leaving", "done"} /\ ~timer /\ attempts \in Nat
  BY Numbers DEF Statuses
<1>2. attempts' = attempts
  <2> USE DEF serverVars, lifeVars, watchVars, storeVars, historyVars
  <2>1. ASSUME Server \/ Close \/ UNCHANGED vars PROVE attempts' = attempts
    BY <2>1 DEF Server, Write, Remove, Elsewhere, Advance, Compact, Close, vars
  <2>2. ASSUME NEW h \in Host, Own(h) PROVE attempts' = attempts
    BY <1>1, <2>2 DEF Own, Connect, Stops, Explained, Ends, Retry, Waited, Finish, Aborted, Cut,
       DeliverReset, DeliverAdded, RequestWatch, GoLive
  <2>3. ASSUME NEW h \in Host, Answer(h) PROVE attempts' = attempts
    BY <2>3 DEF Answer, Listed, PageArrives, BodyArrives, WatchAccepted, WatchResumed, Refused,
       ErrorFrame, Drops, Truncated, MalformedCollection, MalformedFrame, Mistrusted, Bookmark,
       Frame
  <2>4. ASSUME NEW h \in Host, HealthyFires(h) PROVE FALSE
    BY <1>1, <2>4 DEF HealthyFires
  <2> QED
    BY <2>1, <2>2, <2>3, <2>4 DEF Next
<1> QED
  BY <1>1, <1>2

\* Nothing reaches the consumer of a closed or failed stream, and a terminal error is
\* never followed by another connection (lifecycle.ts, consume and run).
THEOREM NothingAfter == Spec => NothingAfterClose
<1>1. IInv /\ [Next]_vars =>
        [/\ aborted => UNCHANGED <<held, seen, open>>
         /\ terminal => attempts' <= attempts]_vars
  <2> SUFFICES ASSUME IInv, [Next]_vars
               PROVE  /\ aborted => UNCHANGED <<held, seen, open>>
                      /\ terminal => attempts' <= attempts
    OBVIOUS
  <2>1. aborted => UNCHANGED <<held, seen, open>>
    BY StoreSteps DEF DeliverReset, DeliverAdded, MayDeliver, WatchAccepted, Frame
  <2> QED
    BY <2>1, TerminalStaysPut
<1> QED
  BY <1>1, Invariant, PTL DEF Spec, NothingAfterClose
=============================================================================
