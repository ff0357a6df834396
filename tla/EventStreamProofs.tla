------------------------- MODULE EventStreamProofs -------------------------
(***************************************************************************)
(* Proofs about EventStream and Admission: for any policies of the hosts,    *)
(* any requests made of them, and any number of events of a connection.      *)
(***************************************************************************)
EXTENDS EventStream, SequenceTheorems, WellFoundedInduction, TLAPS

Writers == {"loop", "beat"}
Operations == {"none", "enter", "write", "ok", "err"}
Frames == [seq : Nat, kind : {"headers", "torn", "state", "retry", "terminal"}]
Codes == {"OK", "SCOPE_INVALID", "UNAUTHENTICATED", "FORBIDDEN", "INTERNAL", "RESYNC_REQUIRED",
          "UPSTREAM_UNAVAILABLE"}
Verdicts == [code : Codes, terminal : BOOLEAN]
Decisions == [unasked : Verdicts, projection : Verdicts, askable : BOOLEAN,
              reviewable : BOOLEAN, entitled : BOOLEAN]

\* Where the handler's goroutine has not passed the first review, where it has, and where
\* it waits for an operation of the sink.
Ongoing == {"list", "watch", "projection", "opening", "cycle", "emitting", "joining",
            "announcing", "announced"}
Talking == {"headers", "emitting", "sending", "announced"}
Ending == {"leaving", "returned"}
Places == {"handler", "subject", "erring"} \cup Ongoing \cup Talking \cup Ending

TypeOK ==
    /\ request \in IF place = "handler" THEN [policy : Policies, asked : Requests]
                   ELSE Decisions
    /\ place \in Places /\ verdict \in Verdicts /\ frame \in Frames /\ seq \in Nat
    /\ op \in [Writers -> Operations]
    /\ failed \in BOOLEAN /\ ctx \in BOOLEAN /\ cycleCtx \in BOOLEAN /\ fault \in BOOLEAN
    /\ gate \in {"free", "loop", "check"} /\ authErr \in Verdicts
    /\ check \in {"off", "waiting", "stopped"} \cup Asking
    /\ beat \in {"off", "waiting", "writing", "stopped"}
    /\ grants \subseteq Asking /\ granted \subseteq Asking
    /\ written \in Seq(Frames) /\ wire \in Seq(Frames) /\ applied \in Seq(Frames)
    /\ client \in {"reading", "gap", "terminal", "eof"} /\ stalled \in BOOLEAN

\* The sink: one writer at a time, none once it has failed; and only the loop's own steps
\* begin an operation of the loop.
Locked ==
    /\ failed => \A w \in Writers : op[w] # "write"
    /\ op["loop"] = "write" => op["beat"] # "write"
    /\ \A w \in Writers : op[w] = "err" => failed
    /\ op["loop"] # "none" => place \in Talking
    /\ \A i \in DOMAIN written : written[i] = Torn => failed /\ i = Len(written)

\* The numbers: until the sink fails, every number spent is on the response, except the
\* one of the frame in hand; and a frame stands where its number says.
Numbered ==
    /\ place \in {"handler", "headers"} => seq = 0
    /\ frame.seq = seq /\ frame.kind # "torn" /\ (seq = 0 => frame = Headers)
    /\ ~failed => Len(written) = IF op["loop"] \in {"enter", "write"} /\ seq > 0
                                 THEN seq - 1 ELSE seq
    /\ \A i \in DOMAIN written : written[i] = Torn \/ written[i].seq = i

\* The client: what it took is what was written up to there, and what is on its way was
\* written; if nothing interfered the two make up all that was written.
Delivered ==
    /\ Len(applied) <= Len(written)
    /\ \A i \in DOMAIN applied : applied[i] = written[i]
    /\ \A j \in DOMAIN wire : wire[j] = Torn \/ \E i \in DOMAIN written :
          wire[j] = written[i] /\ wire[j].seq = i

Undisturbed ==
    /\ ~fault => /\ Len(written) = Len(applied) + Len(wire)
                 /\ \A j \in DOMAIN wire : wire[j] = written[Len(applied) + j]
                 /\ \A i \in DOMAIN written : written[i] # Torn
    /\ client = "gap" => fault

\* The gate: an event is emitted by its holder, in a cycle that is not cancelled.
Gated ==
    /\ place = "emitting" => gate = "loop" /\ ~cycleCtx
    /\ check \in Asking => gate = "check"

\* Until the loop leaves, only an interference ends the request or fails the sink; when it
\* leaves, the error it was to send is the last frame.
Truthful ==
    /\ ~fault /\ place \notin Ending => ~ctx /\ ~failed
    /\ place = "sending" =>
          /\ frame.kind = ErrorKind(verdict)
          /\ op["loop"] = "ok" /\ ~fault => written # <<>> /\ written[Len(written)] = frame
    /\ ~fault /\ place \in Ending =>
          written # <<>> /\ written[Len(written)].kind = ErrorKind(verdict)

\* Admission: what is left to ask of a decided request is all that can stop it.
Decisive(d) ==
    /\ d.askable
    /\ d.unasked = Admitted => d.reviewable
    /\ d.unasked = Admitted /\ d.projection = Admitted => d.entitled
Vetted ==
    /\ place = "headers" /\ verdict = Admitted => Decisive(request)
    /\ place \in {"subject"} \cup Ongoing => Decisive(request)
    /\ place \in Ongoing => request.unasked = Admitted
    /\ place \in Ongoing \ Asking => request.projection = Admitted

\* The authorizations: what has been granted at each question of the loop's or the timed
\* check's; the gate is open, and an event goes through it, only after all three.
Authorized ==
    /\ "watch" \in {place, check} => "list" \in granted
    /\ "projection" \in {place, check} => Reviewing \subseteq granted
    /\ place \in {"opening", "emitting"} => granted = Asking
    /\ place = "cycle" /\ gate # "check" /\ ~GateRefuses => granted = Asking
    /\ check # "off" => place \in {"cycle", "emitting", "joining"}

\* The inductive invariant.
IInv ==
    /\ TypeOK /\ Locked /\ Numbered /\ Delivered /\ Undisturbed /\ Gated /\ Truthful /\ Vetted
    /\ Authorized

-----------------------------------------------------------------------------
\* Lemmas about sequences.

\* Appending one element.
LEMMA Appended ==
    ASSUME NEW S, NEW s \in Seq(S), NEW e \in S
    PROVE  /\ s \o <<e>> \in Seq(S) /\ s \o <<>> = s
           /\ Len(s \o <<e>>) = Len(s) + 1
           /\ DOMAIN (s \o <<e>>) = 1 .. Len(s) + 1
           /\ \A i \in DOMAIN s : (s \o <<e>>)[i] = s[i]
           /\ (s \o <<e>>)[Len(s) + 1] = e
<1>1. <<e>> \in Seq(S) /\ Len(<<e>>) = 1 /\ <<e>>[1] = e
  OBVIOUS
<1>2. s \o <<>> = s
  BY ConcatEmptySeq
<1> QED
  BY <1>1, <1>2, ConcatProperties

\* Every element of one sequence is one of another.
Within(t, s) == \A j \in DOMAIN t : \E k \in DOMAIN s : t[j] = s[k]

\* Leaving one element out: what is left was there.
LEMMA LeftOut ==
    ASSUME NEW S, NEW s \in Seq(S), NEW i \in DOMAIN s
    PROVE  LET t == SubSeq(s, 1, i - 1) \o SubSeq(s, i + 1, Len(s))
           IN  t \in Seq(S) /\ Within(t, s)
<1> DEFINE t == SubSeq(s, 1, i - 1) \o SubSeq(s, i + 1, Len(s))
<1> DEFINE a == SubSeq(s, 1, i - 1)
           b == SubSeq(s, i + 1, Len(s))
<1>1. i \in 1 .. Len(s) /\ Len(s) \in Nat /\ DOMAIN s = 1 .. Len(s)
  OBVIOUS
<1>2. a \in Seq(S) /\ Len(a) = i - 1 /\ \A j \in 1 .. Len(a) : a[j] = s[j]
  BY <1>1, SubSeqProperties
<1>3. b \in Seq(S) /\ Len(b) = Len(s) - i /\ \A j \in 1 .. Len(b) : b[j] = s[i + j]
  <2>1. /\ b \in Seq(S) /\ Len(b) = IF i + 1 <= Len(s) THEN Len(s) - (i + 1) + 1 ELSE 0
        /\ \A j \in 1 .. Len(s) - (i + 1) + 1 : b[j] = s[i + 1 + j - 1]
    BY <1>1, SubSeqProperties
  <2> HIDE DEF b
  <2>2. Len(b) = Len(s) - i /\ Len(s) - (i + 1) + 1 = Len(s) - i
    BY <1>1, <2>1
  <2>3. \A j \in 1 .. Len(b) : i + 1 + j - 1 = i + j
    BY <1>1, <2>2
  <2> QED
    BY <2>1, <2>2, <2>3
<1>4. t = a \o b
  OBVIOUS
<1> HIDE DEF a, b, t
<1>5. /\ t \in Seq(S) /\ Len(t) = Len(a) + Len(b)
      /\ \A j \in 1 .. Len(a) + Len(b) : t[j] = IF j <= Len(a) THEN a[j] ELSE b[j - Len(a)]
  <2>1. a \in Seq(S) /\ b \in Seq(S)
    BY <1>2, <1>3
  <2> QED
    BY <1>4, <2>1, ConcatProperties
<1>6. ASSUME NEW j \in DOMAIN t PROVE \E k \in DOMAIN s : t[j] = s[k]
  <2>1. j \in 1 .. Len(a) + Len(b)
    BY <1>5
  <2>2. CASE j <= Len(a)
    BY <1>1, <1>2, <1>5, <2>1, <2>2
  <2>3. CASE ~(j <= Len(a))
    <3>1. Len(a) = i - 1 /\ Len(b) = Len(s) - i
      BY <1>2, <1>3
    <3>2. j - Len(a) \in 1 .. Len(b) /\ i + (j - Len(a)) \in 1 .. Len(s)
      BY <1>1, <2>1, <2>3, <3>1
    <3> QED
      BY <1>1, <1>3, <1>5, <2>1, <2>3, <3>2
  <2> QED
    BY <2>2, <2>3
<1>7. t \in Seq(S) /\ Within(t, s)
  BY <1>5, <1>6 DEF Within
<1> QED
  BY <1>7 DEF t

\* The head and the rest.
LEMMA Rest ==
    ASSUME NEW S, NEW s \in Seq(S), s # <<>>
    PROVE  /\ Len(s) \in Nat /\ Len(s) > 0 /\ Head(s) = s[1] /\ Head(s) \in S
           /\ Tail(s) \in Seq(S) /\ Len(Tail(s)) = Len(s) - 1
           /\ \A j \in DOMAIN Tail(s) : j + 1 \in DOMAIN s /\ Tail(s)[j] = s[j + 1]
BY HeadTailProperties, EmptySeq

\* A prefix, given element by element.
LEMMA PrefixByElements ==
    ASSUME NEW S, NEW s \in Seq(S), NEW t \in Seq(S), Len(t) <= Len(s),
           \A i \in DOMAIN t : t[i] = s[i]
    PROVE  t = SubSeq(s, 1, Len(t))
<1> DEFINE p == SubSeq(s, 1, Len(t))
<1>1. p \in Seq(S) /\ Len(p) = Len(t) /\ \A i \in 1 .. Len(t) : p[i] = s[i]
  BY SubSeqProperties
<1> HIDE DEF p
<1>2. t = p
  BY <1>1, SeqEqual
<1> QED
  BY <1>2 DEF p

-----------------------------------------------------------------------------
\* Admission.

\* Of a set of positions there is a first one.
LEMMA FirstExists ==
    ASSUME NEW n \in Nat, NEW T \in SUBSET (1 .. n), T # {}
    PROVE  \E i \in T : \A j \in T : i <= j
<1>1. T \subseteq Nat
  OBVIOUS
<1>2. PICK i \in T : \A j \in T : <<j, i>> \notin OpToRel(<, Nat)
  BY <1>1, NatLessThanWellFounded, WFMin
<1>3. \A j \in T : ~(j < i)
  BY <1>1, <1>2, Zenon DEF OpToRel
<1> QED
  BY <1>1, <1>3

\* An allowlist admits a scope if and only if the entry that comes first for its resource
\* serves it.
LEMMA FirstDecides ==
    ASSUME NEW p, NEW s, NEW S, p.resources \in Seq(S), p.anyResource \in BOOLEAN
    PROVE  Validate(p, s) = Admitted <=>
           /\ s.target \in p.targets
           /\ s.labelSelector # "" => p.allowLabelSelector
           /\ \/ p.anyResource /\ p.resources = <<>>
              \/ /\ ~p.anyResource
                 /\ \E i \in DOMAIN p.resources :
                       /\ Names(p.resources[i], s) /\ ShapeAllowed(p.resources[i], s)
                       /\ \A j \in 1 .. i - 1 : ~Names(p.resources[j], s)
<1> DEFINE named == {i \in DOMAIN p.resources : Names(p.resources[i], s)}
           first == CHOOSE i \in named : \A j \in named : i <= j
<1>1. ScopeInvalid # Admitted /\ Internal # Admitted
  BY DEF ScopeInvalid, Internal, Admitted, Verdict
<1>2. DOMAIN p.resources = 1 .. Len(p.resources) /\ Len(p.resources) \in Nat
  OBVIOUS
<1>3. named # {} => first \in named /\ \A j \in named : first <= j
  <2>1. named \in SUBSET (1 .. Len(p.resources)) /\ Len(p.resources) \in Nat
    OBVIOUS
  <2> HIDE DEF named
  <2> QED
    BY <2>1, FirstExists
<1>4. Validate(p, s) = Admitted <=>
      /\ s.target \in p.targets
      /\ s.labelSelector # "" => p.allowLabelSelector
      /\ \/ p.anyResource /\ p.resources = <<>>
         \/ ~p.anyResource /\ named # {} /\ ShapeAllowed(p.resources[first], s)
  BY <1>1 DEF Validate
<1>5. ASSUME NEW i \in named
      PROVE  (\A j \in 1 .. i - 1 : ~Names(p.resources[j], s)) <=> i = first
  <2>1. i \in 1 .. Len(p.resources) /\ first \in named /\ first \in 1 .. Len(p.resources)
    BY <1>2, <1>3
  <2>2. ASSUME \A j \in 1 .. i - 1 : ~Names(p.resources[j], s) PROVE i = first
    <3>1. first \notin 1 .. i - 1
      BY <2>1, <2>2
    <3>2. first <= i
      BY <1>3, <2>1
    <3> HIDE DEF first, named
    <3> QED
      BY <1>2, <2>1, <3>1, <3>2
  <2>3. ASSUME i = first, NEW j \in 1 .. i - 1 PROVE ~Names(p.resources[j], s)
    <3>1. j \in 1 .. Len(p.resources) /\ ~(first <= j)
      <4> HIDE DEF first, named
      <4> QED
        BY <1>2, <2>1, <2>3
    <3> QED
      BY <1>2, <1>3, <2>1, <3>1
  <2> QED
    BY <2>2, <2>3
<1>6. named # {} /\ ShapeAllowed(p.resources[first], s) <=>
      \E i \in DOMAIN p.resources :
         /\ Names(p.resources[i], s) /\ ShapeAllowed(p.resources[i], s)
         /\ \A j \in 1 .. i - 1 : ~Names(p.resources[j], s)
  BY <1>3, <1>5
<1> QED
  BY <1>4, <1>6

\* The handler lets through exactly what the reference says an authorizer may be asked
\* about, whatever the allowlist and the request (Handler, ScopeFromQuery, isDNSName,
\* ScopePolicy.Validate, the session and its subject).
THEOREM HandlerIsExact ==
    ASSUME NEW p, NEW r, NEW S, p.resources \in Seq(S), p.anyResource \in BOOLEAN
    PROVE  Handler(p, r) = Admitted <=> Askable(p, r)
<1>1. Unauthenticated # Admitted /\ ScopeInvalid # Admitted
  BY DEF Unauthenticated, ScopeInvalid, Admitted, Verdict
<1>2. Handler(p, r) = Admitted <=>
      /\ Principal(r) = Admitted /\ ScopeFromQuery(r.query) = Admitted
      /\ Validate(p, r.query) = Admitted
  BY DEF Handler
<1>3. Principal(r) = Admitted <=> r.session = "valid" /\ r.subject # "unresolved"
  BY <1>1 DEF Principal
<1>4. ScopeFromQuery(r.query) = Admitted <=>
      /\ r.query.params \cap ForbiddenParams = {}
      /\ {r.query.resource, r.query.version} \cap (Capitals \cup Paths \cup {""}) = {}
      /\ {r.query.group, r.query.namespace, r.query.name, r.query.target}
            \cap (Capitals \cup Paths) = {}
  BY <1>1 DEF ScopeFromQuery, IsDNSName, Capitals, Paths
<1>5. \A gr : ShapeAllowed(gr, r.query) <=> Serves(gr, r.query)
  BY DEF ShapeAllowed, Serves
<1> QED
  BY <1>2, <1>3, <1>4, <1>5, FirstDecides DEF Askable

\* What remains of an admitted request is decided by the cluster and the projection policy
\* alone: the authorizer refuses by itself exactly what the cluster must not be asked
\* about, and the static projection exactly a view the host does not project
\* (sharedstream's authorizer, SubjectAccessReviewAuthorizer, StaticProjection).
THEOREM RefusalsAreExact ==
    ASSUME NEW p, NEW r, r.subject \in Subjects, Askable(p, r)
    PROVE  /\ Unasked(p, r) = Admitted <=> Reviewable(p, r)
           /\ Unasked(p, r) = Admitted /\ SelectProjection(r.projection) = Admitted
                 <=> Entitled(p, r)
<1>1. Forbidden # Admitted
  BY DEF Forbidden, Admitted, Verdict
<1>2. FixedScope(r.query) <=> \A f \in DOMAIN TheObject : r.query[f] = TheObject[f]
  <2>1. DOMAIN TheObject = {"target", "group", "version", "resource", "namespace", "name",
                            "labelSelector"}
    BY DEF TheObject
  <2>2. /\ TheObject["target"] = "" /\ TheObject["group"] = "" /\ TheObject["version"] = "v1"
        /\ TheObject["resource"] = "configmaps" /\ TheObject["namespace"] = "ns"
        /\ TheObject["name"] = "cm" /\ TheObject["labelSelector"] = ""
    BY DEF TheObject
  <2> HIDE DEF TheObject
  <2> QED
    BY <2>1, <2>2 DEF FixedScope
<1>3. ~NoSubject(r) <=> r.subject = "user"
  BY DEF NoSubject, Subjects, Askable
<1>4. Unasked(p, r) = Admitted <=> Reviewable(p, r)
  BY <1>1, <1>2, <1>3 DEF Unasked, AuthorizerRefuses, Reviewable
<1>5. SelectProjection(r.projection) = Admitted <=> r.projection = "" \/ r.projection = "full"
  BY <1>1 DEF SelectProjection
<1> QED
  BY <1>4, <1>5 DEF Entitled
-----------------------------------------------------------------------------
\* Types.

\* Every answer of the gates is a verdict.
LEMMA VerdictTypes ==
    /\ \A p, r : /\ Handler(p, r) \in Verdicts
                 /\ Decided(p, r) \in Decisions
    /\ \A n : SelectProjection(n) \in Verdicts
    /\ \A a, g : ReviewVerdict(a, g) \in Verdicts
    /\ {Admitted, Internal, Recoverable, Unreachable} \subseteq Verdicts
<1>1. /\ Admitted \in Verdicts /\ ScopeInvalid \in Verdicts /\ Unauthenticated \in Verdicts
      /\ Forbidden \in Verdicts /\ Internal \in Verdicts /\ Recoverable \in Verdicts
      /\ Unreachable \in Verdicts
  <2> USE DEF Verdict, Verdicts, Codes
  <2>1. Admitted \in Verdicts /\ ScopeInvalid \in Verdicts
    BY DEF Admitted, ScopeInvalid
  <2>2. Unauthenticated \in Verdicts /\ Forbidden \in Verdicts
    BY DEF Unauthenticated, Forbidden
  <2>3. Internal \in Verdicts /\ Recoverable \in Verdicts
    BY DEF Internal, Recoverable
  <2>4. Unreachable \in Verdicts
    BY DEF Unreachable
  <2> HIDE DEF Verdict, Verdicts, Codes
  <2> QED
    BY <2>1, <2>2, <2>3, <2>4
<1>2. ASSUME NEW p, NEW s PROVE Validate(p, s) \in {Admitted, ScopeInvalid, Internal}
  BY Zenon DEF Validate
<1>3. ASSUME NEW p, NEW r PROVE Handler(p, r) \in Verdicts /\ Unasked(p, r) \in Verdicts
  <2>1. Principal(r) \in {Unauthenticated, Admitted}
    BY Zenon DEF Principal
  <2>2. ScopeFromQuery(r.query) \in {ScopeInvalid, Admitted}
    BY Zenon DEF ScopeFromQuery
  <2>3. Handler(p, r) \in {Principal(r), ScopeFromQuery(r.query), Validate(p, r.query)}
    BY Zenon DEF Handler
  <2>4. Unasked(p, r) \in {Forbidden, Admitted}
    BY Zenon DEF Unasked
  <2> QED
    BY <1>1, <1>2, <2>1, <2>2, <2>3, <2>4
<1>4. ASSUME NEW n PROVE SelectProjection(n) \in Verdicts
  BY <1>1, Zenon DEF SelectProjection
<1>5. ASSUME NEW a, NEW g PROVE ReviewVerdict(a, g) \in Verdicts
  BY <1>1 DEF ReviewVerdict, Unreachable
<1>6. ASSUME NEW p, NEW r
      PROVE  Decided(p, r) \in Decisions
  <2>1. /\ Askable(p, r) \in BOOLEAN /\ Reviewable(p, r) \in BOOLEAN
        /\ Entitled(p, r) \in BOOLEAN
    BY DEF Askable, Reviewable, Entitled
  <2> QED
    BY <1>3, <1>4, <2>1 DEF Decided, Decisions
<1> QED
  BY <1>1, <1>3, <1>4, <1>5, <1>6

\* The sink's operations move on one writer at a time.
LEMMA OpTypes ==
    ASSUME TypeOK, NEW w \in Writers, NEW x \in Operations
    PROVE  /\ Begin(w) => op' \in [Writers -> Operations]
           /\ Took(w, x) => op' \in [Writers -> Operations]
           /\ op' = [op EXCEPT ![w] = x] => op' \in [Writers -> Operations]
BY DEF TypeOK, Begin, Took, Operations

\* A write puts a frame on the response, or what is left of one.
LEMMA WriteTypes ==
    ASSUME TypeOK, NEW f \in {<<>>, <<frame>>, <<Torn>>},
           written' = written \o f, wire' = wire \o f
    PROVE  written' \in Seq(Frames) /\ wire' \in Seq(Frames)
<1>1. Torn \in Frames /\ frame \in Frames /\ written \in Seq(Frames) /\ wire \in Seq(Frames)
  BY DEF TypeOK, Torn, Event, Frames
<1> QED
  BY <1>1, Appended

\* Every operation of the sink keeps the types.
LEMMA SinkTypes ==
    ASSUME TypeOK, NEW w \in Writers,
           Enter(w) \/ WriteSucceeds(w) \/ DeadlinePasses(w) \/ WriteFails(w)
    PROVE  TypeOK'
<1> USE DEF hostVars, loopVars, checkVars, clientVars
<1>1. CASE Enter(w)
  <2>1. /\ op' \in [Writers -> Operations]
        /\ failed' \in BOOLEAN /\ ctx' \in BOOLEAN
    <3>1. op' = [op EXCEPT ![w] = "err"] \/ op' = [op EXCEPT ![w] = "write"]
      BY <1>1, Zenon DEF Enter
    <3>2. failed' \in BOOLEAN /\ ctx' \in BOOLEAN
      BY <1>1, Zenon DEF Enter, TypeOK
    <3> QED
      BY <3>1, <3>2, OpTypes DEF Operations
  <2>2. UNCHANGED <<hostVars, loopVars, written, wire, checkVars, clientVars, beat, fault>>
    BY <1>1, Zenon DEF Enter
  <2> QED
    BY <2>1, <2>2 DEF TypeOK
<1>2. CASE WriteSucceeds(w)
  <2>1. written' \in Seq(Frames) /\ wire' \in Seq(Frames)
    BY <1>2, WriteTypes, Zenon DEF WriteSucceeds
  <2>2. op' \in [Writers -> Operations]
    BY <1>2, OpTypes DEF WriteSucceeds, Operations
  <2>3. UNCHANGED <<hostVars, loopVars, failed, checkVars, clientVars, beat, ctx, fault>>
    BY <1>2, Zenon DEF WriteSucceeds
  <2> QED
    BY <2>1, <2>2, <2>3 DEF TypeOK
<1>3. CASE DeadlinePasses(w) \/ WriteFails(w)
  <2>1. FailWrite(w)
    BY <1>3 DEF DeadlinePasses, WriteFails
  <2>2. written' \in Seq(Frames) /\ wire' \in Seq(Frames)
    <3>1. PICK f \in Left(w) : written' = written \o f /\ wire' = wire \o f
      BY <2>1, Zenon DEF FailWrite
    <3>2. f \in {<<>>, <<frame>>, <<Torn>>}
      BY DEF Left
    <3> QED
      BY <3>1, <3>2, WriteTypes
  <2>3. op' \in [Writers -> Operations]
    BY <2>1, OpTypes DEF FailWrite, Operations
  <2>4. /\ failed' = TRUE /\ ctx' = TRUE /\ fault' = TRUE
        /\ UNCHANGED <<hostVars, loopVars, checkVars, clientVars, beat>>
    BY <2>1, Zenon DEF FailWrite
  <2> QED
    BY <2>2, <2>3, <2>4 DEF TypeOK
<1> QED
  BY <1>1, <1>2, <1>3

\* So do the network and the client.
LEMMA ClientTypes ==
    ASSUME TypeOK, (\E i \in DOMAIN wire : Lose(i)) \/ Stall \/ Deliver \/ EndOfStream
    PROVE  TypeOK'
<1> USE DEF hostVars, loopVars, sinkVars, checkVars, clientVars
<1>1. ASSUME NEW i \in DOMAIN wire, Lose(i) PROVE TypeOK'
  <2>1. wire' \in Seq(Frames)
    BY <1>1, LeftOut DEF Lose, TypeOK
  <2>2. /\ fault' = TRUE
        /\ UNCHANGED <<hostVars, loopVars, op, failed, written, checkVars, clientVars, beat, ctx>>
    BY <1>1, Zenon DEF Lose
  <2> QED
    BY <2>1, <2>2 DEF TypeOK
<1>2. CASE Deliver
  <2>1. wire' \in Seq(Frames) /\ Head(wire) \in Frames
    BY <1>2, Rest DEF Deliver, TypeOK
  <2>2. applied' \in Seq(Frames)
    <3>1. applied' \in {applied, Append(applied, Head(wire))}
      BY <1>2, Zenon DEF Deliver
    <3>2. applied \in Seq(Frames)
      BY DEF TypeOK
    <3>3. Append(applied, Head(wire)) \in Seq(Frames)
      BY <2>1, <3>2
    <3> QED
      BY <3>1, <3>2, <3>3
  <2>4. client' \in {"reading", "gap", "terminal", "eof"}
    BY <1>2 DEF Deliver
  <2>3. UNCHANGED <<hostVars, loopVars, op, failed, written, checkVars, stalled, beat, ctx,
                    fault>>
    BY <1>2, Zenon DEF Deliver
  <2> QED
    BY <2>1, <2>2, <2>3, <2>4 DEF TypeOK
<1>3. CASE Stall
  BY <1>3 DEF Stall, TypeOK
<1>4. CASE EndOfStream
  BY <1>4 DEF EndOfStream, TypeOK
<1> QED
  BY <1>1, <1>2, <1>3, <1>4

\* The steps of the handler's goroutine.
LEMMA LoopTypes ==
    ASSUME TypeOK, Loop \/ TransportRejected \/ EnterGate
                   \/ (\E v \in {Recoverable, Internal, Unreachable} : CycleEnds(v))
                   \/ (\E v \in {Internal, Unreachable} : NoClient(v))
    PROVE  TypeOK'
<1> USE DEF hostVars, loopVars, sinkVars, checkVars, clientVars, Places, Ongoing, Talking, Ending
<1>1. ASSUME NEW kind \in {"state", "retry", "terminal"}, Emit(kind)
      PROVE  seq' \in Nat /\ frame' \in Frames /\ op' \in [Writers -> Operations]
  <2>1. op' \in [Writers -> Operations]
    BY <1>1, OpTypes DEF Emit, Writers, Operations
  <2> QED
    BY <1>1, <2>1 DEF Emit, Event, Frames, TypeOK
<1>2. ASSUME NEW x \in Operations, Took("loop", x) PROVE op' \in [Writers -> Operations]
  BY <1>2, OpTypes DEF Writers
<1>3. CASE Decide
  <2>1. op' \in [Writers -> Operations] /\ verdict' \in Verdicts
    BY <1>3, OpTypes, VerdictTypes DEF Decide, Writers, Operations
  <2>2. request' \in Decisions
    BY <1>3, VerdictTypes DEF Decide
  <2> QED
    BY <1>3, <2>1, <2>2 DEF Decide, TypeOK
<1>4. CASE TransportRejected
  <2>1. request' \in Decisions
    BY <1>4, VerdictTypes DEF TransportRejected
  <2> QED
    BY <1>4, <2>1 DEF TransportRejected, TypeOK
<1>5. CASE HeadersSent
  BY <1>2, <1>5 DEF HeadersSent, TypeOK, Operations
<1>6. CASE HeadersFailed
  BY <1>2, <1>6 DEF HeadersFailed, TypeOK, Operations
<1>7. CASE ErrorEmitted
  BY <1>2, <1>7 DEF ErrorEmitted, TypeOK, Operations
<1>8. CASE Leave
  BY <1>8 DEF Leave, TypeOK
<1>9. CASE Return
  BY <1>9 DEF Return, TypeOK
<1>10. CASE EmitError
  BY <1>1, <1>10 DEF EmitError, ErrorKind, TypeOK
<1>11. CASE CheckSubject
  <2>1. verdict' \in Verdicts /\ place' \in {"erring", "list"}
    <3>1. CASE request.unasked = Admitted
      BY <1>11, <3>1 DEF CheckSubject, TypeOK
    <3>2. CASE request.unasked # Admitted
      BY <1>11, <3>2 DEF CheckSubject, FailWith, TypeOK, Decisions
    <3> QED
      BY <3>1, <3>2
  <2> QED
    BY <1>11, <2>1 DEF CheckSubject, TypeOK
<1>12. ASSUME NEW a \in Answers, Review(a) PROVE TypeOK'
  <2>1. verdict' \in Verdicts /\ place' \in {"erring", "watch", "projection"}
    BY <1>12, VerdictTypes DEF Review, FailWith, AfterReview, TypeOK
  <2>2. /\ place # "handler"
        /\ UNCHANGED <<request, grants, frame, seq, sinkVars, checkVars, clientVars, beat, ctx,
                       fault>>
    BY <1>12, Zenon DEF Review, Reviewing, FailWith, AfterReview
  <2>3. granted' \subseteq Asking
    BY <1>12 DEF Review, Granted, TypeOK
  <2> QED
    BY <2>1, <2>2, <2>3 DEF TypeOK
<1>13. ASSUME NEW a \in Answers, Project(a) PROVE TypeOK'
  <2>1. verdict' \in Verdicts /\ place' \in {"erring", "opening"}
    <3>1. place # "handler" /\ request.projection \in Verdicts
      BY <1>13 DEF Project, TypeOK, Decisions
    <3> QED
      BY <1>13, <3>1, VerdictTypes DEF Project, FailWith, TypeOK
  <2>2. /\ place # "handler"
        /\ UNCHANGED <<request, grants, frame, seq, sinkVars, checkVars, clientVars, beat, ctx,
                       fault>>
    BY <1>13, Zenon DEF Project
  <2>3. granted' \subseteq Asking
    BY <1>13 DEF Project, Granted, TypeOK
  <2> QED
    BY <2>1, <2>2, <2>3 DEF TypeOK
<1>14. CASE OpenCycle
  BY <1>14, VerdictTypes DEF OpenCycle, TypeOK
<1>15. CASE EventEmitted
  BY <1>2, <1>15 DEF EventEmitted, TypeOK, Operations
<1>16. CASE EventFailed
  BY <1>2, <1>16, VerdictTypes DEF EventFailed, TypeOK, Operations
<1>17. CASE CancelCycle
  BY <1>17 DEF CancelCycle, TypeOK
<1>18. CASE Join
  <2>1. verdict' \in Verdicts /\ place' \in {"leaving", "announcing", "erring"}
    BY <1>18, VerdictTypes DEF Join, FailWith, TypeOK
  <2> QED
    BY <1>18, <2>1 DEF Join, TypeOK
<1>19. CASE Announce
  BY <1>1, <1>19 DEF Announce, TypeOK
<1>20. CASE EnterGate
  BY <1>1, <1>20 DEF EnterGate, TypeOK
<1>21. CASE Announced
  <2>1. op' \in [Writers -> Operations] /\ place' \in {"subject", "leaving"}
    BY <1>2, <1>21 DEF Announced, Operations
  <2> QED
    BY <1>21, <2>1 DEF Announced, TypeOK
<1>22. ASSUME NEW v \in Verdicts, CycleEnds(v) PROVE TypeOK'
  BY <1>22 DEF CycleEnds, TypeOK
<1>24. ASSUME NEW v \in Verdicts, NoClient(v) PROVE TypeOK'
  BY <1>24 DEF NoClient, FailWith, TypeOK
<1>23. CASE Loop
  <2>1. CycleEnds(Admitted) => TypeOK'
    BY <1>22, VerdictTypes
  <2> QED
    BY <1>3, <1>5, <1>6, <1>7, <1>8, <1>9, <1>10, <1>11, <1>12, <1>13, <1>14, <1>15, <1>16,
       <1>17, <1>18, <1>19, <1>21, <1>23, <2>1, Zenon DEF Loop
<1> QED
  BY <1>4, <1>20, <1>22, <1>23, <1>24, VerdictTypes

\* Every step keeps the types.
LEMMA TypeInductive == TypeOK /\ [Next]_vars => TypeOK'
<1> SUFFICES ASSUME TypeOK, [Next]_vars PROVE TypeOK'
  OBVIOUS
<1> USE DEF hostVars, loopVars, sinkVars, checkVars, clientVars
<1>1. ASSUME NEW x \in Operations, Took("beat", x) \/ Begin("beat")
      PROVE  op' \in [Writers -> Operations]
  BY <1>1, OpTypes DEF Writers, Operations
<1>2. CASE HeartbeatTicks
  BY <1>1, <1>2 DEF HeartbeatTicks, TypeOK, Operations
<1>3. CASE HeartbeatWritten
  BY <1>1, <1>3 DEF HeartbeatWritten, TypeOK, Operations
<1>4. CASE HeartbeatStops
  <2>1. op' \in [Writers -> Operations]
    BY <1>1, <1>4 DEF HeartbeatStops, TypeOK, Operations
  <2> QED
    BY <1>4, <2>1 DEF HeartbeatStops, TypeOK
<1>5. CASE CheckBegins
  BY <1>5 DEF CheckBegins, TypeOK, Asking, Reviewing
<1>6. CASE CheckStops
  BY <1>6 DEF CheckStops, TypeOK
<1>7. ASSUME NEW a \in Answers, CheckPasses(a) PROVE TypeOK'
  BY <1>7 DEF CheckPasses, AfterReview, Granted, Asking, Reviewing, TypeOK
<1>8. ASSUME NEW a \in Answers, CheckRefuses(a) PROVE TypeOK'
  BY <1>8, VerdictTypes DEF CheckRefuses, TypeOK
<1>9. ASSUME NEW verb, Revoke(verb) PROVE TypeOK'
  BY <1>9 DEF Revoke, TypeOK
<1>10. CASE ContextEnds
  BY <1>10 DEF ContextEnds, TypeOK
<1>11. CASE UNCHANGED vars
  BY <1>11 DEF vars, TypeOK
<1>12. ASSUME NEW w \in {"loop", "beat"}, Writes(w) \/ WriteFails(w) PROVE TypeOK'
  BY <1>12, SinkTypes DEF Writes, Writers
<1>13. CASE Next
  BY <1>2, <1>3, <1>4, <1>5, <1>6, <1>7, <1>8, <1>9, <1>10, <1>12, <1>13, ClientTypes, LoopTypes,
     Zenon DEF Next, Check
<1> QED
  BY <1>11, <1>13
-----------------------------------------------------------------------------
\* The sink.

\* What each step of Next is, one action at a time: used to go through them.
LEMMA Actions ==
    ASSUME [Next]_vars
    PROVE  \/ \E w \in Writers : Enter(w) \/ WriteSucceeds(w) \/ (Writing(w) /\ FailWrite(w))
           \/ Decide \/ EmitError \/ EnterGate \/ Announce
           \/ HeadersSent \/ HeadersFailed \/ ErrorEmitted \/ EventEmitted \/ EventFailed
           \/ Announced
           \/ TransportRejected \/ Leave \/ Return \/ CheckSubject
           \/ (\E a \in Answers : Review(a) \/ Project(a)) \/ OpenCycle \/ CancelCycle \/ Join
           \/ (\E v \in {Admitted, Recoverable, Internal, Unreachable} : CycleEnds(v))
           \/ (\E v \in {Internal, Unreachable} : NoClient(v))
           \/ HeartbeatTicks \/ HeartbeatWritten \/ HeartbeatStops
           \/ CheckBegins \/ CheckStops \/ (\E a \in Answers : CheckPasses(a) \/ CheckRefuses(a))
           \/ (\E verb \in Asking : Revoke(verb)) \/ ContextEnds \/ Stall \/ EndOfStream
           \/ (\E i \in DOMAIN wire : Lose(i)) \/ Deliver \/ UNCHANGED vars
BY Zenon DEF Next, Loop, Check, Writes, WriteFails, DeadlinePasses, Writers

\* Where the loop's own operations are: begun at four places and ended where they began.
LEMMA Moves ==
    ASSUME [Next]_vars
    PROVE  \/ \E w \in Writers : Enter(w) \/ WriteSucceeds(w) \/ (Writing(w) /\ FailWrite(w))
           \/ /\ Begin("loop") /\ UNCHANGED <<failed, written>>
              /\ place \notin Talking /\ place' \in Talking
              /\ \/ place = "handler" /\ place' = "headers" /\ UNCHANGED <<seq, frame>>
                 \/ /\ place # "handler" /\ place' # "headers" /\ seq' = seq + 1
                    /\ \E kind \in {"state", "retry", "terminal"} : frame' = Event(seq + 1, kind)
           \/ /\ \E r \in {"ok", "err"} : Took("loop", r)
              /\ UNCHANGED <<failed, written, seq, frame>>
              /\ place' \notin {"handler", "headers"}
           \/ /\ Begin("beat") \/ (\E r \in {"ok", "err"} : Took("beat", r)) \/ UNCHANGED op
              /\ UNCHANGED <<failed, written, seq, frame>>
              /\ place' = place \/ (place \notin Talking /\ place' \notin {"handler", "headers"})
<1> USE DEF hostVars, loopVars, sinkVars, checkVars, clientVars, Talking
<1>1. CASE Decide
  BY <1>1 DEF Decide
<1>2. CASE EmitError
  BY <1>2 DEF EmitError, Emit, ErrorKind
<1>3. CASE EnterGate
  BY <1>3 DEF EnterGate, Emit
<1>4. CASE Announce
  BY <1>4 DEF Announce, Emit
<1>5. CASE HeadersSent
  BY <1>5 DEF HeadersSent
<1>6. CASE HeadersFailed
  BY <1>6 DEF HeadersFailed
<1>7. CASE ErrorEmitted
  BY <1>7 DEF ErrorEmitted
<1>8. CASE EventEmitted
  BY <1>8 DEF EventEmitted
<1>9. CASE EventFailed
  BY <1>9 DEF EventFailed
<1>10. CASE Announced
  BY <1>10 DEF Announced
<1>11. CASE TransportRejected
  BY <1>11 DEF TransportRejected
<1>12. CASE Leave
  BY <1>12 DEF Leave
<1>13. CASE Return
  BY <1>13 DEF Return
<1>14. CASE CheckSubject
  BY <1>14 DEF CheckSubject, FailWith
<1>15. ASSUME NEW a \in Answers, Review(a)
       PROVE  /\ UNCHANGED <<op, failed, written, seq, frame>>
              /\ place \notin Talking /\ place' \notin {"handler", "headers"}
  BY <1>15 DEF Review, Reviewing, FailWith, AfterReview
<1>16. ASSUME (\E a \in Answers : Project(a)) \/ (\E v : NoClient(v))
       PROVE  /\ UNCHANGED <<op, failed, written, seq, frame>>
              /\ place \notin Talking /\ place' \notin {"handler", "headers"}
  BY <1>16 DEF Project, NoClient, FailWith
<1>17. CASE OpenCycle
  BY <1>17 DEF OpenCycle
<1>18. CASE CancelCycle
  BY <1>18 DEF CancelCycle
<1>19. CASE Join
  BY <1>19 DEF Join, FailWith
<1>20. ASSUME NEW v, CycleEnds(v)
       PROVE  /\ UNCHANGED <<op, failed, written, seq, frame>>
              /\ place \notin Talking /\ place' \notin {"handler", "headers"}
  BY <1>20 DEF CycleEnds
<1>21. CASE HeartbeatTicks
  BY <1>21 DEF HeartbeatTicks
<1>22. CASE HeartbeatWritten
  BY <1>22 DEF HeartbeatWritten
<1>23. CASE HeartbeatStops
  BY <1>23 DEF HeartbeatStops
<1>24. ASSUME CheckBegins \/ CheckStops \/ \E a \in Answers : CheckPasses(a) \/ CheckRefuses(a)
       PROVE  UNCHANGED <<op, failed, written, seq, frame, place>>
  BY <1>24 DEF CheckBegins, CheckStops, CheckPasses, CheckRefuses
<1>25. ASSUME \/ \E verb \in Asking : Revoke(verb)
              \/ ContextEnds \/ Stall \/ EndOfStream
       PROVE  UNCHANGED <<op, failed, written, seq, frame, place>>
  BY <1>25 DEF Revoke, ContextEnds, Stall, EndOfStream
<1>26. ASSUME (\E i \in DOMAIN wire : Lose(i)) \/ Deliver \/ UNCHANGED vars
       PROVE  UNCHANGED <<op, failed, written, seq, frame, place>>
  BY <1>26 DEF Lose, Deliver, vars
<1> QED
  BY <1>1, <1>2, <1>3, <1>4, <1>5, <1>6, <1>7, <1>8, <1>9, <1>10, <1>11, <1>12, <1>13, <1>14,
     <1>15, <1>16, <1>17, <1>18, <1>19, <1>20, <1>21, <1>22, <1>23, <1>24, <1>25, <1>26, Actions

\* A writer that gets the lock either fails, with a failed sink, or may write.
LEMMA Entered ==
    ASSUME TypeOK, NEW w \in Writers, Enter(w)
    PROVE  /\ op[w] = "enter" /\ \A v \in Writers : op[v] # "write"
           /\ UNCHANGED <<place, written, seq, frame>> /\ (failed => failed')
           /\ \/ op' = [op EXCEPT ![w] = "err"] /\ failed'
              \/ op' = [op EXCEPT ![w] = "write"] /\ ~failed /\ ~failed'
<1> USE DEF hostVars, loopVars, checkVars, clientVars
<1>1. failed \in BOOLEAN /\ DOMAIN op = Writers
  BY DEF TypeOK
<1>2. /\ op[w] = "enter" /\ \A v \in Writers : op[v] # "write"
      /\ UNCHANGED <<place, written, seq, frame>>
  BY <1>1 DEF Enter, LockFree, Writing
<1>3. CASE failed
  BY <1>1, <1>2, <1>3 DEF Enter
<1>4. CASE ~failed
  BY <1>1, <1>2, <1>4 DEF Enter
<1> QED
  BY <1>3, <1>4

\* A write that fails leaves nothing, a piece of a frame, or the loop's frame behind.
LEMMA Failing ==
    ASSUME TypeOK, NEW w \in Writers, FailWrite(w)
    PROVE  \/ UNCHANGED <<written, wire>>
           \/ written' = written \o <<Torn>> /\ wire' = wire \o <<Torn>>
           \/ /\ w = "loop" /\ frame # Headers
              /\ written' = written \o <<frame>> /\ wire' = wire \o <<frame>>
<1>1. PICK f \in Left(w) : written' = written \o f /\ wire' = wire \o f
  BY Zenon DEF FailWrite
<1>2. f \in {<<>>, <<Torn>>} \/ (w = "loop" /\ frame # Headers /\ f = <<frame>>)
  BY DEF Left
<1>3. Torn \in Frames /\ written \in Seq(Frames) /\ wire \in Seq(Frames)
  BY DEF TypeOK, Torn, Event, Frames
<1> QED
  BY <1>1, <1>2, <1>3, Appended

\* The sink has one writer at a time, and none after a failure: a frame cut short, which
\* fails the sink, stays the last (SSESink.operation).
LEMMA LockedInductive ==
    ASSUME TypeOK, Locked, Numbered, [Next]_vars
    PROVE  Locked'
<1> USE DEF hostVars, loopVars, checkVars, clientVars
<1>1. op \in [Writers -> Operations] /\ Writers = {"loop", "beat"} /\ written \in Seq(Frames)
  BY DEF TypeOK, Writers
<1>2. ASSUME NEW w \in Writers, Enter(w) PROVE Locked'
  BY <1>1, <1>2, Entered DEF Locked
<1>3. ASSUME NEW w \in Writers, WriteSucceeds(w) PROVE Locked'
  <2>1. /\ op[w] = "write" /\ op' = [op EXCEPT ![w] = "ok"] /\ ~failed
        /\ UNCHANGED <<place, failed>>
    BY <1>3 DEF WriteSucceeds, Writing, Locked
  <2>2. \A i \in DOMAIN written' : written'[i] # Torn
    <3>1. written' \in {written, written \o <<frame>>}
      BY <1>1, <1>3, Appended DEF WriteSucceeds
    <3>2. \A i \in DOMAIN written : written[i] # Torn
      BY <2>1 DEF Locked
    <3>3. frame # Torn /\ frame \in Frames
      BY DEF Numbered, Torn, Event, TypeOK
    <3> QED
      BY <1>1, <3>1, <3>2, <3>3, Appended
  <2> QED
    BY <1>1, <2>1, <2>2 DEF Locked
<1>4. ASSUME NEW w \in Writers, Writing(w), FailWrite(w) PROVE Locked'
  <2>1. /\ op[w] = "write" /\ op' = [op EXCEPT ![w] = "err"] /\ ~failed
        /\ failed' = TRUE /\ UNCHANGED place
    BY <1>4 DEF FailWrite, Writing, Locked
  <2>2. /\ written' \in {written, written \o <<Torn>>, written \o <<frame>>}
        /\ Torn \in Frames /\ frame \in Frames
    BY <1>4, Failing DEF Torn, Event, Frames, TypeOK
  <2>3. \A i \in DOMAIN written : written[i] # Torn
    BY <2>1 DEF Locked
  <2>4. \A i \in DOMAIN written' : written'[i] = Torn => i = Len(written')
    BY <1>1, <2>2, <2>3, Appended
  <2> QED
    BY <1>1, <2>1, <2>4 DEF Locked
<1>5. ASSUME Begin("loop"), UNCHANGED <<failed, written>>, place' \in Talking PROVE Locked'
  BY <1>1, <1>5 DEF Begin, Locked
<1>6. ASSUME NEW r \in {"ok", "err"}, Took("loop", r), UNCHANGED <<failed, written>>
      PROVE  Locked'
  BY <1>1, <1>6 DEF Took, Locked
<1>7. ASSUME Begin("beat") \/ (\E r \in {"ok", "err"} : Took("beat", r)) \/ UNCHANGED op,
             UNCHANGED <<failed, written>>, place' = place \/ place \notin Talking
      PROVE  Locked'
  BY <1>1, <1>7 DEF Begin, Took, Locked
<1> QED
  BY <1>2, <1>3, <1>4, <1>5, <1>6, <1>7, Moves

\* The numbers are those of the frames on the response, until the sink fails.
LEMMA NumberedInductive ==
    ASSUME TypeOK, Locked, Numbered, [Next]_vars
    PROVE  Numbered'
<1> USE DEF hostVars, loopVars, checkVars, clientVars
<1>1. /\ op \in [Writers -> Operations] /\ Writers = {"loop", "beat"} /\ written \in Seq(Frames)
      /\ frame \in Frames /\ seq \in Nat /\ Len(written) \in Nat
  BY DEF TypeOK, Writers
<1>2. ASSUME NEW w \in Writers, Enter(w) PROVE Numbered'
  BY <1>1, <1>2, Entered DEF Numbered
<1>3. ASSUME NEW w \in Writers, WriteSucceeds(w) PROVE Numbered'
  <2>1. /\ op[w] = "write" /\ op' = [op EXCEPT ![w] = "ok"] /\ ~failed
        /\ UNCHANGED <<place, failed, seq, frame>>
    BY <1>3 DEF WriteSucceeds, Writing, Locked
  <2>2. CASE w = "loop" /\ frame # Headers
    <3>1. written' = written \o <<frame>>
      BY <1>3, <2>2 DEF WriteSucceeds
    <3>2. seq > 0 /\ Len(written) = seq - 1
      BY <1>1, <2>1, <2>2 DEF Numbered
    <3>3. /\ Len(written') = seq /\ op'["loop"] = "ok"
          /\ \A i \in DOMAIN written' : written'[i] = IF i = seq THEN frame ELSE written[i]
          /\ DOMAIN written' = 1 .. seq /\ DOMAIN written = 1 .. seq - 1
      BY <1>1, <2>1, <2>2, <3>1, <3>2, Appended
    <3> QED
      BY <1>1, <2>1, <3>3 DEF Numbered
  <2>3. CASE ~(w = "loop" /\ frame # Headers)
    <3>1. written' = written
      BY <1>1, <1>3, <2>3, Appended DEF WriteSucceeds
    <3>2. w = "loop" => seq = 0
      BY <1>1, <2>3 DEF Numbered, Headers, Event
    <3> QED
      BY <1>1, <2>1, <3>1, <3>2 DEF Numbered
  <2> QED
    BY <2>2, <2>3
<1>4. ASSUME NEW w \in Writers, Writing(w), FailWrite(w) PROVE Numbered'
  <2>1. failed' = TRUE /\ UNCHANGED <<place, seq, frame>>
    BY <1>4 DEF FailWrite
  <2>2. \/ written' \in {written, written \o <<Torn>>}
        \/ w = "loop" /\ frame # Headers /\ written' = written \o <<frame>>
    BY <1>4, Failing
  <2>4. w = "loop" /\ frame # Headers => frame.seq = Len(written) + 1
    <3>1. op[w] = "write" /\ ~failed
      BY <1>4 DEF Writing, Locked
    <3> QED
      BY <1>1, <3>1 DEF Numbered
  <2>5. Torn \in Frames
    BY DEF Torn, Event, Frames
  <2>3. \A i \in DOMAIN written' : written'[i] = Torn \/ written'[i].seq = i
    <3>1. CASE written' = written
      BY <3>1 DEF Numbered
    <3>2. CASE written' = written \o <<Torn>>
      BY <1>1, <2>5, <3>2, Appended DEF Numbered
    <3>3. CASE w = "loop" /\ frame # Headers /\ written' = written \o <<frame>>
      BY <1>1, <2>4, <3>3, Appended DEF Numbered
    <3> QED
      BY <2>2, <3>1, <3>2, <3>3
  <2> QED
    BY <1>1, <2>1, <2>3 DEF Numbered
<1>5. ASSUME Begin("loop"), UNCHANGED <<failed, written>>,
             place \notin Talking, place' \in Talking,
             \/ place = "handler" /\ place' = "headers" /\ UNCHANGED <<seq, frame>>
             \/ /\ place # "handler" /\ place' # "headers" /\ seq' = seq + 1
                /\ \E kind \in {"state", "retry", "terminal"} : frame' = Event(seq + 1, kind)
      PROVE  Numbered'
  <2>1. op["loop"] = "none" /\ op'["loop"] = "enter"
    BY <1>1, <1>5 DEF Begin, Locked
  <2>2. CASE place = "handler"
    BY <1>1, <1>5, <2>1, <2>2 DEF Numbered
  <2>3. CASE place # "handler"
    <3>1. PICK kind \in {"state", "retry", "terminal"} : frame' = Event(seq + 1, kind)
      BY <1>5, <2>3
    <3>2. frame'.seq = seq' /\ frame'.kind # "torn" /\ seq' > 0 /\ seq' - 1 = seq
      BY <1>1, <1>5, <2>3, <3>1 DEF Event
    <3> QED
      BY <1>1, <1>5, <2>1, <2>3, <3>2 DEF Numbered, Talking
  <2> QED
    BY <2>2, <2>3
<1>6. ASSUME NEW r \in {"ok", "err"}, Took("loop", r), UNCHANGED <<failed, written, seq, frame>>,
             place' \notin {"handler", "headers"}
      PROVE  Numbered'
  BY <1>1, <1>6 DEF Took, Numbered
<1>7. ASSUME Begin("beat") \/ (\E r \in {"ok", "err"} : Took("beat", r)) \/ UNCHANGED op,
             UNCHANGED <<failed, written, seq, frame>>,
             place' = place \/ place' \notin {"handler", "headers"}
      PROVE  Numbered'
  <2>1. op'["loop"] = op["loop"]
    BY <1>1, <1>7 DEF Begin, Took
  <2> QED
    BY <1>1, <1>7, <2>1 DEF Numbered
<1> QED
  BY <1>2, <1>3, <1>4, <1>5, <1>6, <1>7, Moves
-----------------------------------------------------------------------------
\* The client.

\* What a step does to what is written, on its way and applied; what interferes is
\* remembered.
LEMMA Flows ==
    ASSUME TypeOK, [Next]_vars
    PROVE  \/ /\ op["loop"] = "write" /\ frame # Headers
              /\ written' = written \o <<frame>> /\ wire' = wire \o <<frame>>
              /\ UNCHANGED <<applied, client>> /\ (fault' = fault \/ fault' = TRUE)
           \/ /\ written' = written \o <<Torn>> /\ wire' = wire \o <<Torn>> /\ fault' = TRUE
              /\ UNCHANGED <<applied, client>>
           \/ /\ UNCHANGED <<written, wire, applied>> /\ client' \in {client, "eof"}
              /\ fault' = fault \/ fault' = TRUE
           \/ (\E i \in DOMAIN wire : Lose(i))
           \/ Deliver
<1> USE DEF hostVars, loopVars, sinkVars, checkVars, clientVars
<1>1. written \in Seq(Frames) /\ wire \in Seq(Frames)
  BY DEF TypeOK
<1>2. ASSUME NEW w \in Writers, Enter(w)
      PROVE  UNCHANGED <<written, wire, applied, client, fault>>
  BY <1>2 DEF Enter
<1>3. ASSUME NEW w \in Writers, WriteSucceeds(w)
      PROVE  \/ /\ op["loop"] = "write" /\ frame # Headers
                /\ written' = written \o <<frame>> /\ wire' = wire \o <<frame>>
                /\ UNCHANGED <<applied, client, fault>>
             \/ UNCHANGED <<written, wire, applied, client, fault>>
  <2>1. UNCHANGED <<applied, client, fault>> /\ op[w] = "write"
    BY <1>3 DEF WriteSucceeds, Writing
  <2>2. CASE w = "loop" /\ frame # Headers
    BY <1>3, <2>1, <2>2 DEF WriteSucceeds
  <2>3. CASE ~(w = "loop" /\ frame # Headers)
    <3>1. written' = written \o <<>> /\ wire' = wire \o <<>>
      BY <1>3, <2>3 DEF WriteSucceeds
    <3>2. written \o <<>> = written /\ wire \o <<>> = wire
      BY <1>1, ConcatEmptySeq
    <3> QED
      BY <2>1, <3>1, <3>2
  <2> QED
    BY <2>2, <2>3
<1>4. ASSUME NEW w \in Writers, Writing(w), FailWrite(w)
      PROVE  /\ \/ UNCHANGED <<written, wire>>
                \/ written' = written \o <<Torn>> /\ wire' = wire \o <<Torn>>
                \/ /\ op["loop"] = "write" /\ frame # Headers
                   /\ written' = written \o <<frame>> /\ wire' = wire \o <<frame>>
             /\ fault' = TRUE /\ UNCHANGED <<applied, client>>
  <2>1. fault' = TRUE /\ UNCHANGED <<applied, client>> /\ op[w] = "write"
    BY <1>4 DEF FailWrite, Writing
  <2> QED
    BY <1>4, <2>1, Failing
<1>5. ASSUME Decide \/ EmitError \/ EnterGate \/ Announce
      PROVE  UNCHANGED <<written, wire, applied, client, fault>>
  BY <1>5 DEF Decide, EmitError, EnterGate, Announce
<1>6. ASSUME HeadersSent \/ HeadersFailed \/ ErrorEmitted
      PROVE  UNCHANGED <<written, wire, applied, client, fault>>
  BY <1>6 DEF HeadersSent, HeadersFailed, ErrorEmitted
<1>7. ASSUME EventEmitted \/ EventFailed \/ Announced
      PROVE  UNCHANGED <<written, wire, applied, client, fault>>
  BY <1>7 DEF EventEmitted, EventFailed, Announced
<1>8. ASSUME Leave \/ Return \/ CheckSubject \/ (\E a \in Answers : Review(a) \/ Project(a))
             \/ (\E v : NoClient(v))
      PROVE  UNCHANGED <<written, wire, applied, client, fault>>
  BY <1>8 DEF Leave, Return, CheckSubject, Review, Project, NoClient
<1>9. ASSUME OpenCycle \/ CancelCycle \/ Join \/ (\E v : CycleEnds(v))
      PROVE  UNCHANGED <<written, wire, applied, client, fault>>
  BY <1>9 DEF OpenCycle, CancelCycle, Join, CycleEnds
<1>10. ASSUME HeartbeatTicks \/ HeartbeatWritten \/ HeartbeatStops
       PROVE  UNCHANGED <<written, wire, applied, client, fault>>
  BY <1>10 DEF HeartbeatTicks, HeartbeatWritten, HeartbeatStops
<1>11. ASSUME CheckBegins \/ CheckStops \/ \E a \in Answers : CheckPasses(a) \/ CheckRefuses(a)
       PROVE  UNCHANGED <<written, wire, applied, client, fault>>
  BY <1>11 DEF CheckBegins, CheckStops, CheckPasses, CheckRefuses
<1>12. ASSUME TransportRejected \/ ContextEnds
       PROVE  UNCHANGED <<written, wire, applied, client>> /\ fault' = TRUE
  BY <1>12 DEF TransportRejected, ContextEnds
<1>13. ASSUME (\E verb \in Asking : Revoke(verb)) \/ Stall \/ UNCHANGED vars
       PROVE  UNCHANGED <<written, wire, applied, client, fault>>
  BY <1>13 DEF Revoke, Stall, vars
<1>14. ASSUME EndOfStream
       PROVE  UNCHANGED <<written, wire, applied, fault>> /\ client' = "eof"
  BY <1>14 DEF EndOfStream
<1> QED
  BY <1>2, <1>3, <1>4, <1>5, <1>6, <1>7, <1>8, <1>9, <1>10, <1>11, <1>12, <1>13, <1>14, Actions

\* Whatever is lost, the client takes a prefix; and if nothing interferes, what it took
\* and what is on its way are all that was written (StreamSequence.observe, deliver).
LEMMA DeliveredInductive ==
    ASSUME TypeOK, Locked, Numbered, Numbered', Delivered, Undisturbed, [Next]_vars
    PROVE  Delivered' /\ Undisturbed'
<1> USE DEF hostVars, loopVars, sinkVars, checkVars, clientVars
<1>1. /\ written \in Seq(Frames) /\ wire \in Seq(Frames) /\ applied \in Seq(Frames)
      /\ frame \in Frames /\ Torn \in Frames
      /\ Len(written) \in Nat /\ Len(wire) \in Nat /\ Len(applied) \in Nat
      /\ DOMAIN written = 1 .. Len(written) /\ DOMAIN wire = 1 .. Len(wire)
      /\ DOMAIN applied = 1 .. Len(applied)
  BY DEF TypeOK, Torn, Event, Frames
<1>2. ASSUME NEW f \in Frames, written' = written \o <<f>>, wire' = wire \o <<f>>,
             UNCHANGED <<applied, client>>,
             f = Torn \/ f.seq = Len(written) + 1,
             ~fault' => f # Torn /\ ~fault
      PROVE  Delivered' /\ Undisturbed'
  <2>1. /\ Len(written') = Len(written) + 1 /\ Len(wire') = Len(wire) + 1
        /\ DOMAIN written' = 1 .. Len(written) + 1 /\ DOMAIN wire' = 1 .. Len(wire) + 1
        /\ \A i \in DOMAIN written : written'[i] = written[i]
        /\ \A j \in DOMAIN wire : wire'[j] = wire[j]
        /\ written'[Len(written) + 1] = f /\ wire'[Len(wire) + 1] = f
    BY <1>1, <1>2, Appended
  <2>2. Delivered'
    <3>1. /\ Len(applied') <= Len(written')
          /\ \A i \in DOMAIN applied' : applied'[i] = written'[i]
      BY <1>1, <1>2, <2>1 DEF Delivered
    <3>2. ASSUME NEW j \in DOMAIN wire', wire'[j] # Torn
          PROVE  \E i \in DOMAIN written' : wire'[j] = written'[i] /\ wire'[j].seq = i
      <4>1. CASE j \in DOMAIN wire
        BY <1>1, <2>1, <3>2, <4>1 DEF Delivered
      <4>2. CASE j = Len(wire) + 1
        BY <1>1, <1>2, <2>1, <3>2, <4>2
      <4> QED
        BY <1>1, <2>1, <4>1, <4>2
    <3> QED
      BY <3>1, <3>2 DEF Delivered
  <2>3. ASSUME ~fault'
        PROVE  /\ Len(written') = Len(applied') + Len(wire')
               /\ \A j \in DOMAIN wire' : wire'[j] = written'[Len(applied') + j]
               /\ \A i \in DOMAIN written' : written'[i] # Torn
    <3>1. /\ Len(written) = Len(applied) + Len(wire) /\ f # Torn
          /\ \A j \in DOMAIN wire : wire[j] = written[Len(applied) + j]
          /\ \A i \in DOMAIN written : written[i] # Torn
      BY <1>2, <2>3 DEF Undisturbed
    <3>2. \A j \in DOMAIN wire : Len(applied) + j \in DOMAIN written
      BY <1>1, <3>1
    <3>3. Len(written') = Len(applied') + Len(wire')
      BY <1>1, <1>2, <2>1, <3>1
    <3>4. ASSUME NEW j \in DOMAIN wire' PROVE wire'[j] = written'[Len(applied') + j]
      <4>1. CASE j \in DOMAIN wire
        BY <1>2, <2>1, <3>1, <3>2, <4>1
      <4>2. CASE j = Len(wire) + 1
        <5>1. Len(applied) + j = Len(written) + 1
          BY <1>1, <3>1, <4>2
        <5> QED
          BY <1>2, <2>1, <4>2, <5>1
      <4> QED
        BY <1>1, <2>1, <4>1, <4>2
    <3>5. \A i \in DOMAIN written' : i \in DOMAIN written \/ i = Len(written) + 1
      BY <1>1, <2>1
    <3>6. \A i \in DOMAIN written' : written'[i] # Torn
      BY <2>1, <3>1, <3>5
    <3> QED
      BY <3>3, <3>4, <3>6
  <2>4. client' = "gap" => fault'
    BY <1>2, <2>3 DEF Undisturbed
  <2> QED
    BY <2>2, <2>3, <2>4 DEF Undisturbed
<1>3. ASSUME op["loop"] = "write", frame # Headers,
             written' = written \o <<frame>>, wire' = wire \o <<frame>>,
             UNCHANGED <<applied, client>>, fault' = fault \/ fault' = TRUE
      PROVE  Delivered' /\ Undisturbed'
  <2>1. frame # Torn /\ frame.seq = Len(written) + 1
    <3>1. ~failed /\ frame.kind # "torn" /\ frame.seq = seq /\ seq > 0
      BY <1>3 DEF Locked, Numbered, TypeOK, Writers
    <3>2. Len(written) = seq - 1
      BY <1>3, <3>1 DEF Numbered
    <3> QED
      BY <1>1, <3>1, <3>2 DEF Torn, Event, TypeOK
  <2>2. ~fault' => frame # Torn /\ ~fault
    BY <1>3, <2>1, Zenon
  <2> QED
    BY <1>1, <1>2, <1>3, <2>1, <2>2
<1>4. ASSUME written' = written \o <<Torn>>, wire' = wire \o <<Torn>>, fault' = TRUE,
             UNCHANGED <<applied, client>>
      PROVE  Delivered' /\ Undisturbed'
  BY <1>1, <1>2, <1>4
<1>5. ASSUME UNCHANGED <<written, wire, applied>>, client' \in {client, "eof"},
             fault' = fault \/ fault' = TRUE
      PROVE  Delivered' /\ Undisturbed'
  BY <1>5 DEF Delivered, Undisturbed
<1>6. ASSUME NEW i \in DOMAIN wire, Lose(i) PROVE Delivered' /\ Undisturbed'
  <2>1. fault' = TRUE /\ UNCHANGED <<written, applied, client>>
    BY <1>6 DEF Lose
  <2>2. Within(wire', wire)
    BY <1>1, <1>6, LeftOut DEF Lose
  <2>3. Delivered'
    BY <2>1, <2>2 DEF Delivered, Within
  <2>4. Undisturbed'
    BY <2>1 DEF Undisturbed
  <2> QED
    BY <2>3, <2>4
<1>7. ASSUME Deliver PROVE Delivered' /\ Undisturbed'
  <2>1. /\ wire # <<>> /\ wire' = Tail(wire) /\ Head(wire) # Torn
        /\ UNCHANGED <<written, fault>>
    BY <1>7 DEF Deliver
  <2>2. /\ Len(wire) > 0 /\ Head(wire) = wire[1] /\ Head(wire) \in Frames /\ 1 \in DOMAIN wire
        /\ Len(wire') = Len(wire) - 1
        /\ \A j \in DOMAIN wire' : j + 1 \in DOMAIN wire /\ wire'[j] = wire[j + 1]
    BY <1>1, <2>1, Rest
  <2>3. PICK n \in DOMAIN written : Head(wire) = written[n] /\ Head(wire).seq = n
    BY <2>1, <2>2 DEF Delivered
  <2>4. \A j \in DOMAIN wire' : wire'[j] = Torn \/ \E i \in DOMAIN written' :
           wire'[j] = written'[i] /\ wire'[j].seq = i
    BY <2>1, <2>2 DEF Delivered
  <2>5. CASE InSequence(Head(wire))
    <3>1. /\ applied' = Append(applied, Head(wire)) /\ n = Len(applied) + 1
          /\ client' # "gap"
      BY <1>7, <2>3, <2>5 DEF Deliver, InSequence
    <3>2. /\ Len(applied') = Len(applied) + 1 /\ DOMAIN applied' = 1 .. Len(applied) + 1
          /\ \A i \in DOMAIN applied : applied'[i] = applied[i]
          /\ applied'[Len(applied) + 1] = Head(wire)
      BY <1>1, <2>2, <3>1
    <3>3. Delivered'
      <4>1. Len(applied') <= Len(written')
        BY <1>1, <2>1, <2>3, <3>1, <3>2
      <4>2. \A i \in DOMAIN applied' : applied'[i] = written'[i]
        BY <1>1, <2>1, <2>3, <3>1, <3>2 DEF Delivered
      <4> QED
        BY <2>4, <4>1, <4>2 DEF Delivered
    <3>4. Undisturbed'
      <4>1. ASSUME ~fault'
            PROVE  /\ Len(written') = Len(applied') + Len(wire')
                   /\ \A j \in DOMAIN wire' : wire'[j] = written'[Len(applied') + j]
                   /\ \A i \in DOMAIN written' : written'[i] # Torn
        <5>1. /\ Len(written) = Len(applied) + Len(wire)
              /\ \A j \in DOMAIN wire : wire[j] = written[Len(applied) + j]
              /\ \A i \in DOMAIN written : written[i] # Torn
          BY <2>1, <4>1 DEF Undisturbed
        <5>2. Len(written') = Len(applied') + Len(wire')
          BY <1>1, <2>1, <2>2, <3>2, <5>1
        <5>3. ASSUME NEW j \in DOMAIN wire' PROVE wire'[j] = written'[Len(applied') + j]
          <6>1. j + 1 \in DOMAIN wire /\ wire'[j] = wire[j + 1]
            BY <2>2
          <6>2. j \in Int
            BY <1>1, <2>1, Rest
          <6>3. Len(applied') + j = Len(applied) + (j + 1)
            BY <1>1, <3>2, <6>2
          <6> QED
            BY <2>1, <5>1, <6>1, <6>3
        <5> QED
          BY <2>1, <5>1, <5>2, <5>3
      <4> QED
        BY <3>1, <4>1 DEF Undisturbed
    <3> QED
      BY <3>3, <3>4
  <2>6. CASE ~InSequence(Head(wire))
    <3>1. applied' = applied
      BY <1>7, <2>6 DEF Deliver
    <3>2. fault
      <4> SUFFICES ASSUME ~fault PROVE FALSE
        BY DEF TypeOK
      <4>1. /\ wire[1] = written[Len(applied) + 1] /\ \A i \in DOMAIN written : written[i] # Torn
            /\ Len(written) = Len(applied) + Len(wire)
        BY <2>2 DEF Undisturbed
      <4>2. Len(applied) + 1 \in DOMAIN written
        BY <1>1, <2>2, <4>1
      <4>3. wire[1].seq = Len(applied) + 1
        BY <4>1, <4>2 DEF Numbered
      <4> QED
        BY <2>2, <2>6, <4>3 DEF InSequence
    <3>3. Delivered'
      BY <2>1, <2>4, <3>1 DEF Delivered
    <3>4. Undisturbed'
      BY <2>1, <3>2 DEF Undisturbed
    <3> QED
      BY <3>3, <3>4
  <2> QED
    BY <2>5, <2>6
<1> QED
  BY <1>3, <1>4, <1>5, <1>6, <1>7, Flows
-----------------------------------------------------------------------------
\* The gate, the ending and admission.

\* Only the holder of the gate emits, and a check that cancels the cycle holds it too
\* (authorizationSink.mu).
LEMMA GatedInductive ==
    ASSUME TypeOK, Gated, [Next]_vars
    PROVE  Gated'
<1> USE DEF hostVars, loopVars, sinkVars, checkVars, clientVars
<1>1. ASSUME UNCHANGED <<check, gate, cycleCtx>>, place' = place \/ place' # "emitting"
      PROVE  Gated'
  BY <1>1 DEF Gated
<1>2. ASSUME NEW w \in Writers, Enter(w) \/ WriteSucceeds(w) \/ FailWrite(w)
      PROVE  UNCHANGED <<check, gate, cycleCtx, place>>
  BY <1>2 DEF Enter, WriteSucceeds, FailWrite
<1>3. ASSUME Decide \/ EmitError \/ Announce
      PROVE  UNCHANGED <<check, gate, cycleCtx>> /\ place' # "emitting"
  BY <1>3 DEF Decide, EmitError, Announce
<1>4. ASSUME HeadersSent \/ HeadersFailed \/ ErrorEmitted \/ Announced
      PROVE  UNCHANGED <<check, gate, cycleCtx>> /\ place' # "emitting"
  BY <1>4 DEF HeadersSent, HeadersFailed, ErrorEmitted, Announced
<1>5. ASSUME TransportRejected \/ Leave \/ Return \/ CheckSubject
      PROVE  UNCHANGED <<check, gate, cycleCtx>> /\ (place' = place \/ place' # "emitting")
  BY <1>5 DEF TransportRejected, Leave, Return, CheckSubject, FailWith
<1>6. ASSUME (\E a \in Answers : Review(a) \/ Project(a)) \/ (\E v : CycleEnds(v) \/ NoClient(v))
      PROVE  UNCHANGED <<check, gate, cycleCtx>> /\ place' # "emitting"
  BY <1>6 DEF Review, Project, CycleEnds, NoClient, FailWith, AfterReview
<1>7. ASSUME HeartbeatTicks \/ HeartbeatWritten \/ HeartbeatStops
      PROVE  UNCHANGED <<check, gate, cycleCtx, place>>
  BY <1>7 DEF HeartbeatTicks, HeartbeatWritten, HeartbeatStops
<1>8. ASSUME (\E verb \in Asking : Revoke(verb)) \/ ContextEnds \/ Stall \/ EndOfStream
             \/ (\E i \in DOMAIN wire : Lose(i)) \/ Deliver \/ UNCHANGED vars
      PROVE  UNCHANGED <<check, gate, cycleCtx, place>>
  BY <1>8 DEF Revoke, ContextEnds, Stall, EndOfStream, Lose, Deliver, vars
<1>9. CASE EnterGate
  BY <1>9 DEF EnterGate, GateRefuses, Gated
<1>10. CASE EventEmitted
  BY <1>10 DEF EventEmitted, Gated
<1>11. CASE EventFailed
  BY <1>11 DEF EventFailed, Gated
<1>12. CASE OpenCycle
  BY <1>12 DEF OpenCycle, Gated, Asking, Reviewing
<1>13. CASE CancelCycle
  BY <1>13 DEF CancelCycle, Gated
<1>14. CASE Join
  <2>1. place' # "emitting" /\ check' = "off"
    BY <1>14 DEF Join, FailWith
  <2> QED
    BY <2>1 DEF Gated, Asking, Reviewing
<1>15. CASE CheckBegins
  BY <1>15 DEF CheckBegins, Gated
<1>16. CASE CheckStops
  BY <1>16 DEF CheckStops, Gated, Asking, Reviewing
<1>17. ASSUME NEW a \in Answers, CheckPasses(a) PROVE Gated'
  BY <1>17 DEF CheckPasses, AfterReview, Gated, Asking, Reviewing
<1>18. ASSUME NEW a \in Answers, CheckRefuses(a) PROVE Gated'
  BY <1>18 DEF CheckRefuses, Gated, Asking, Reviewing
<1> QED
  BY <1>1, <1>2, <1>3, <1>4, <1>5, <1>6, <1>7, <1>8, <1>9, <1>10, <1>11, <1>12, <1>13, <1>14,
     <1>15, <1>16, <1>17, <1>18, Actions

\* What is left to ask of a request is carried to the places past the question.
LEMMA VettedInductive ==
    ASSUME TypeOK, Vetted, [Next]_vars
    PROVE  Vetted'
<1> USE DEF hostVars, loopVars, sinkVars, checkVars, clientVars, Ongoing, Asking, Reviewing
<1>1. CASE Decide
  <2>1. PICK p \in Policies, r \in Requests :
           request' = Decided(p, r) /\ verdict' = Handler(p, r) /\ place' = "headers"
    BY <1>1 DEF Decide, TypeOK
  <2>2. p.resources \in Seq(GroupResources) /\ p.anyResource \in BOOLEAN /\ r.subject \in Subjects
    BY AdmissionAssumption DEF ScopePolicies, RequestTypes
  <2>3. Handler(p, r) = Admitted => Askable(p, r)
    BY <2>2, HandlerIsExact
  <2>4. Askable(p, r) => Decisive(Decided(p, r))
    BY <2>2, RefusalsAreExact DEF Decisive, Decided
  <2> QED
    BY <2>1, <2>3, <2>4 DEF Vetted
<1>2. ASSUME request' = request, \/ place' = place /\ verdict' = verdict
                                 \/ /\ place \in Ongoing \ Asking
                                    /\ place' \in (Ongoing \ Asking) \cup {"subject"}
                                 \/ place' \notin Ongoing \cup {"headers", "subject"}
      PROVE  Vetted'
  BY <1>2 DEF Vetted
<1>3. CASE TransportRejected
  BY <1>3 DEF TransportRejected, Vetted
<1>4. CASE HeadersSent
  BY <1>4 DEF HeadersSent, Vetted
<1>5. CASE CheckSubject
  BY <1>5 DEF CheckSubject, FailWith, Vetted
<1>6. ASSUME NEW w \in Writers, Enter(w) \/ WriteSucceeds(w) \/ FailWrite(w)
      PROVE  UNCHANGED <<request, place, verdict>>
  BY <1>6 DEF Enter, WriteSucceeds, FailWrite
<1>7. ASSUME EmitError \/ HeadersFailed \/ ErrorEmitted \/ Leave \/ Return
      PROVE  /\ request' = request /\ (verdict' = verdict \/ place' # place)
             /\ place' = place \/ place' \notin Ongoing \cup {"headers", "subject"}
  BY <1>7 DEF EmitError, HeadersFailed, ErrorEmitted, Leave, Return
<1>8. ASSUME EnterGate \/ Announce \/ EventEmitted \/ EventFailed \/ OpenCycle \/ CancelCycle
             \/ (\E v : CycleEnds(v))
      PROVE  request' = request /\ place \in Ongoing \ Asking /\ place' \in Ongoing \ Asking
  BY <1>8 DEF EnterGate, Announce, EventEmitted, EventFailed, OpenCycle, CancelCycle, CycleEnds
<1>9. ASSUME Announced \/ Join \/ (\E v : NoClient(v))
      PROVE  /\ request' = request /\ place \in Ongoing \ Asking
             /\ place' \in (Ongoing \ Asking) \cup {"subject"} \/ place' \in {"erring", "leaving"}
  BY <1>9 DEF Announced, Join, NoClient, FailWith
<1>10. ASSUME NEW a \in Answers, Review(a) PROVE Vetted'
  <2>1. request' = request /\ place \in Reviewing /\ place' \in Asking \cup {"erring"}
    BY <1>10 DEF Review, FailWith, AfterReview
  <2> QED
    BY <2>1 DEF Vetted
<1>11. ASSUME HeartbeatTicks \/ HeartbeatWritten \/ HeartbeatStops \/ CheckBegins \/ CheckStops
              \/ \E a \in Answers : CheckPasses(a) \/ CheckRefuses(a)
       PROVE  UNCHANGED <<request, place, verdict>>
  BY <1>11 DEF HeartbeatTicks, HeartbeatWritten, HeartbeatStops, CheckBegins, CheckStops,
     CheckPasses, CheckRefuses
<1>12. ASSUME (\E verb \in Asking : Revoke(verb)) \/ ContextEnds \/ Stall \/ EndOfStream
              \/ (\E i \in DOMAIN wire : Lose(i)) \/ Deliver \/ UNCHANGED vars
       PROVE  UNCHANGED <<request, place, verdict>>
  BY <1>12 DEF Revoke, ContextEnds, Stall, EndOfStream, Lose, Deliver, vars
<1>13. ASSUME NEW a \in Answers, Project(a) PROVE Vetted'
  <2>1. request' = request /\ place = "projection" /\ place' \in {"opening", "erring"}
        /\ (place' = "opening" => request.projection = Admitted)
    BY <1>13 DEF Project, FailWith
  <2> QED
    BY <2>1 DEF Vetted
<1> QED
  BY <1>1, <1>2, <1>3, <1>4, <1>5, <1>6, <1>7, <1>8, <1>9, <1>10, <1>11, <1>12, <1>13, Actions

\* A review that is answered with an admission was granted.
LEMMA AdmittedWasGranted ==
    ASSUME NEW a \in Answers, NEW s, ReviewVerdict(a, s \in grants) = Admitted
    PROVE  Granted(a, s) = {s}
BY DEF ReviewVerdict, Granted, Answers, Admitted, Forbidden, Internal, Verdict

\* The gate is open only when both verbs and the view have been granted since the loop's
\* authorization or the last check began (authorizationSink, authorizedCycle).
LEMMA AuthorizedInductive ==
    ASSUME TypeOK, Gated, Authorized, [Next]_vars
    PROVE  Authorized'
<1> USE DEF hostVars, loopVars, sinkVars, checkVars, clientVars, Asking, Reviewing
<1>0. /\ granted \subseteq Asking /\ ctx \in BOOLEAN /\ cycleCtx \in BOOLEAN
      /\ check \in {"off", "waiting", "stopped"} \cup Asking
  BY DEF TypeOK
<1>1. ASSUME UNCHANGED <<granted, check, gate, cycleCtx>>, ctx => ctx',
             \/ place' = place
             \/ check = "off" /\ place' \notin Asking \cup {"opening", "cycle", "emitting"}
             \/ place \in {"cycle", "emitting"} /\ place' = "joining"
      PROVE  Authorized'
  BY <1>0, <1>1 DEF Authorized, GateRefuses
<1>2. ASSUME NEW w \in Writers, Enter(w) \/ WriteSucceeds(w) \/ FailWrite(w)
      PROVE  UNCHANGED <<granted, check, gate, cycleCtx, place>> /\ (ctx => ctx')
  BY <1>2 DEF Enter, WriteSucceeds, FailWrite
<1>3. ASSUME Decide \/ EmitError \/ Announce \/ HeadersSent \/ HeadersFailed \/ ErrorEmitted
             \/ Announced \/ TransportRejected
      PROVE  /\ UNCHANGED <<granted, check, gate, cycleCtx, ctx>>
             /\ place' \notin Asking \cup {"opening", "cycle", "emitting"}
             /\ place \notin {"cycle", "emitting", "joining"}
  BY <1>3 DEF Decide, EmitError, Announce, HeadersSent, HeadersFailed, ErrorEmitted, Announced,
     TransportRejected
<1>4. ASSUME (\E v : CycleEnds(v)) \/ EventFailed
      PROVE  /\ UNCHANGED <<granted, check, gate, cycleCtx, ctx>> \/ (EventFailed /\ gate' = "free")
             /\ UNCHANGED <<granted, check, cycleCtx, ctx>>
             /\ place \in {"cycle", "emitting"} /\ place' = "joining"
  BY <1>4 DEF CycleEnds, EventFailed
<1>5. ASSUME (\E v : CycleEnds(v)) \/ EventFailed PROVE Authorized'
  BY <1>4, <1>5 DEF Authorized
<1>6. CASE EnterGate
  BY <1>6 DEF EnterGate, Authorized
<1>7. CASE EventEmitted
  BY <1>7 DEF EventEmitted, Authorized
<1>8. CASE CheckSubject
  <2>1. UNCHANGED <<granted, check>> /\ place = "subject" /\ place' \in {"erring", "list"}
    BY <1>8 DEF CheckSubject, FailWith
  <2> QED
    BY <2>1 DEF Authorized
<1>9. ASSUME NEW a \in Answers, Review(a) PROVE Authorized'
  <2>1. /\ place \in Reviewing /\ check' = check /\ granted' = granted \cup Granted(a, place)
        /\ \/ place' = "erring"
           \/ place' = AfterReview(place) /\ ReviewVerdict(a, place \in grants) = Admitted
    BY <1>9 DEF Review, FailWith
  <2>2. check = "off"
    BY <2>1 DEF Authorized
  <2>3. CASE place' = "erring"
    BY <2>1, <2>2, <2>3 DEF Authorized
  <2>4. CASE place' = AfterReview(place) /\ ReviewVerdict(a, place \in grants) = Admitted
    <3>1. granted' = granted \cup {place}
      BY <2>1, <2>4, AdmittedWasGranted
    <3> QED
      BY <2>1, <2>2, <2>4, <3>1 DEF Authorized, AfterReview
  <2> QED
    BY <2>1, <2>3, <2>4
<1>10. ASSUME NEW a \in Answers, Project(a) PROVE Authorized'
  <2>1. /\ place = "projection" /\ check' = check /\ granted' = granted \cup Granted(a, place)
        /\ \/ place' = "erring"
           \/ place' = "opening" /\ ReviewVerdict(a, place \in grants) = Admitted
    BY <1>10 DEF Project, FailWith
  <2>2. check = "off"
    BY <2>1 DEF Authorized
  <2>3. CASE place' = "erring"
    BY <2>1, <2>2, <2>3 DEF Authorized
  <2>4. CASE place' = "opening" /\ ReviewVerdict(a, place \in grants) = Admitted
    <3>1. granted' = granted \cup {place}
      BY <2>1, <2>4, AdmittedWasGranted
    <3> QED
      BY <1>0, <2>1, <2>2, <2>4, <3>1 DEF Authorized
  <2> QED
    BY <2>1, <2>3, <2>4
<1>11. CASE OpenCycle
  BY <1>11 DEF OpenCycle, Authorized
<1>12. ASSUME NEW v, NoClient(v) PROVE Authorized'
  <2>1. UNCHANGED <<granted, check>> /\ place = "opening" /\ place' = "erring"
    BY <1>12 DEF NoClient, FailWith
  <2> QED
    BY <2>1 DEF Authorized
<1>13. CASE CancelCycle
  BY <1>13 DEF CancelCycle, Authorized
<1>14. CASE Join
  <2>1. check' = "off" /\ place' \in {"leaving", "announcing", "erring"}
    BY <1>14 DEF Join, FailWith
  <2> QED
    BY <2>1 DEF Authorized
<1>15. ASSUME Leave \/ Return
       PROVE  /\ UNCHANGED <<granted, check>> /\ place = "leaving"
              /\ place' \in {"leaving", "returned"}
  BY <1>15 DEF Leave, Return
<1>16. ASSUME Leave \/ Return PROVE Authorized'
  BY <1>15, <1>16 DEF Authorized
<1>17. ASSUME \/ HeartbeatTicks \/ HeartbeatWritten \/ HeartbeatStops
              \/ (\E verb \in Asking : Revoke(verb)) \/ ContextEnds \/ Stall \/ EndOfStream
              \/ (\E i \in DOMAIN wire : Lose(i)) \/ Deliver \/ UNCHANGED vars
       PROVE  UNCHANGED <<granted, check, gate, cycleCtx, place>> /\ (ctx => ctx')
  BY <1>17 DEF HeartbeatTicks, HeartbeatWritten, HeartbeatStops, Revoke, ContextEnds, Stall,
     EndOfStream, Lose, Deliver, vars
<1>18. CASE CheckBegins
  <2>1. /\ check = "waiting" /\ gate = "free" /\ check' = "list" /\ gate' = "check"
        /\ place' = place
    BY <1>18 DEF CheckBegins
  <2>2. place \in {"cycle", "joining"}
    BY <2>1 DEF Authorized, Gated
  <2> QED
    BY <2>1, <2>2 DEF Authorized
<1>19. ASSUME NEW a \in Answers, CheckPasses(a) PROVE Authorized'
  <2>1. /\ check \in Asking /\ place' = place /\ granted' = granted \cup {check}
        /\ \/ check \in Reviewing /\ check' = AfterReview(check) /\ gate' = gate
           \/ check = "projection" /\ check' = "waiting" /\ gate' = "free"
    BY <1>19, AdmittedWasGranted DEF CheckPasses
  <2>2. gate = "check" /\ place \in {"cycle", "joining"}
    BY <2>1 DEF Authorized, Gated
  <2>3. CASE check \in Reviewing
    BY <2>1, <2>2, <2>3 DEF Authorized, AfterReview
  <2>4. CASE check = "projection"
    BY <1>0, <2>1, <2>2, <2>4 DEF Authorized
  <2> QED
    BY <2>1, <2>3, <2>4
<1>20. ASSUME CheckStops \/ \E a \in Answers : CheckRefuses(a) PROVE Authorized'
  <2>1. /\ check' = "stopped" /\ UNCHANGED <<granted, place, ctx>> /\ (ctx \/ cycleCtx')
        /\ check # "off"
    BY <1>20 DEF CheckStops, CheckRefuses
  <2> QED
    BY <2>1 DEF Authorized, GateRefuses
<1> QED
  BY <1>1, <1>2, <1>3, <1>5, <1>6, <1>7, <1>8, <1>9, <1>10, <1>11, <1>12, <1>13, <1>14, <1>16,
     <1>17, <1>18, <1>19, <1>20, Actions DEF Authorized

\* Unless something interferes, only the loop's leaving ends the request, and it leaves with
\* the error written: a cycle that a check cancels does not poison the sink.
LEMMA TruthfulInductive ==
    ASSUME TypeOK, Locked, Gated, Truthful, [Next]_vars
    PROVE  Truthful'
<1> USE DEF hostVars, loopVars, sinkVars, checkVars, clientVars, Ending
<1>1. /\ op \in [Writers -> Operations] /\ Writers = {"loop", "beat"} /\ written \in Seq(Frames)
      /\ frame \in Frames /\ fault \in BOOLEAN /\ ctx \in BOOLEAN /\ failed \in BOOLEAN
  BY DEF TypeOK, Writers
<1>2. ASSUME UNCHANGED <<place, verdict, frame, written, ctx, failed>>, op'["loop"] = op["loop"],
             fault' = fault \/ fault' = TRUE
      PROVE  Truthful'
  BY <1>2 DEF Truthful
<1>3. ASSUME UNCHANGED <<ctx, failed, fault>>, place \notin Ending, place' \notin Ending,
             place' # "sending"
      PROVE  Truthful'
  BY <1>3 DEF Truthful
<1>4. ASSUME NEW w \in Writers, Enter(w) PROVE Truthful'
  <2>1. UNCHANGED <<place, verdict, frame, written, fault>>
    BY <1>4 DEF Enter
  <2>2. op[w] = "enter" /\ op' \in {[op EXCEPT ![w] = "err"], [op EXCEPT ![w] = "write"]}
    BY <1>4, Entered
  <2>3. op'["loop"] = "ok" => op["loop"] = "ok"
    BY <1>1, <2>2
  <2>4. ASSUME ~fault, place \notin Ending PROVE ~ctx' /\ ~failed'
    <3>1. ~ctx /\ ~failed
      BY <2>4 DEF Truthful
    <3>2. ~CtxDone(w)
      BY <3>1 DEF CtxDone, Gated
    <3> QED
      BY <1>4, <3>1, <3>2 DEF Enter
  <2> QED
    BY <2>1, <2>3, <2>4 DEF Truthful
<1>5. ASSUME NEW w \in Writers, WriteSucceeds(w) PROVE Truthful'
  <2>1. /\ op[w] = "write" /\ op' = [op EXCEPT ![w] = "ok"]
        /\ UNCHANGED <<place, verdict, frame, ctx, failed, fault>>
    BY <1>5 DEF WriteSucceeds, Writing
  <2>2. CASE w = "beat"
    <3>1. written' = written
      BY <1>1, <1>5, <2>2, Appended DEF WriteSucceeds
    <3> QED
      BY <1>1, <1>2, <2>1, <2>2, <3>1
  <2>3. CASE w = "loop"
    <3>1. place \in Talking
      BY <2>1, <2>3 DEF Locked
    <3>2. ASSUME place = "sending"
          PROVE  frame'.kind = ErrorKind(verdict') /\ written' # <<>>
                 /\ written'[Len(written')] = frame'
      <4>1. frame.kind = ErrorKind(verdict)
        BY <3>2 DEF Truthful
      <4>2. frame # Headers
        BY <4>1 DEF ErrorKind, Headers, Event
      <4>3. written' = written \o <<frame>>
        BY <1>5, <2>3, <4>2 DEF WriteSucceeds
      <4>4. Len(written') = Len(written) + 1 /\ written'[Len(written) + 1] = frame
            /\ Len(written) \in Nat
        BY <1>1, <4>3, Appended
      <4>5. written' # <<>>
        BY <4>4
      <4> QED
        BY <2>1, <4>1, <4>4, <4>5
    <3> QED
      BY <2>1, <3>1, <3>2 DEF Truthful, Talking
  <2> QED
    BY <1>1, <2>2, <2>3
<1>6. ASSUME NEW w \in Writers, FailWrite(w) PROVE Truthful'
  <2>1. fault' = TRUE /\ UNCHANGED <<place, verdict, frame>>
    BY <1>6 DEF FailWrite
  <2> QED
    BY <2>1 DEF Truthful
<1>7. ASSUME Decide \/ EnterGate \/ Announce
      PROVE  UNCHANGED <<ctx, failed, fault>> /\ place \notin Ending
             /\ place' \notin Ending \cup {"sending"}
  BY <1>7 DEF Decide, EnterGate, Announce
<1>8. CASE EmitError
  <2>1. op'["loop"] = "enter" /\ frame' = Event(seq + 1, ErrorKind(verdict))
        /\ UNCHANGED <<verdict, ctx, failed, fault>> /\ place = "erring" /\ place' = "sending"
    BY <1>1, <1>8 DEF EmitError, Emit, Begin
  <2> QED
    BY <2>1 DEF Truthful, Event
<1>9. ASSUME HeadersSent \/ EventEmitted \/ EventFailed
      PROVE  UNCHANGED <<ctx, failed, fault>> /\ place \notin Ending
             /\ place' \notin Ending \cup {"sending"}
  BY <1>9 DEF HeadersSent, EventEmitted, EventFailed
<1>10. ASSUME HeadersFailed \/ (Announced /\ Took("loop", "err"))
       PROVE  Truthful'
  <2>1. failed /\ place \notin Ending
    BY <1>1, <1>10 DEF HeadersFailed, Announced, Took, Locked
  <2>2. fault
    BY <1>1, <2>1 DEF Truthful
  <2>3. fault' = fault /\ place' \in Ending \cup {"subject"}
    BY <1>10 DEF HeadersFailed, Announced
  <2> QED
    BY <2>2, <2>3 DEF Truthful
<1>11. CASE Announced /\ ~Took("loop", "err")
  BY <1>3, <1>11 DEF Announced
<1>12. CASE ErrorEmitted
  <2>1. /\ place = "sending" /\ place' = "leaving"
        /\ UNCHANGED <<verdict, frame, written, ctx, failed, fault>>
        /\ op["loop"] \in {"ok", "err"}
    BY <1>12 DEF ErrorEmitted, Took
  <2>2. ASSUME ~fault PROVE written # <<>> /\ written[Len(written)].kind = ErrorKind(verdict)
    <3>1. ~failed
      BY <2>1, <2>2 DEF Truthful
    <3>2. op["loop"] = "ok"
      BY <1>1, <2>1, <3>1 DEF Locked
    <3> QED
      BY <2>1, <2>2, <3>2 DEF Truthful
  <2> QED
    BY <2>1, <2>2 DEF Truthful
<1>13. CASE Leave \/ Return
  BY <1>13 DEF Leave, Return, Truthful
<1>14. CASE TransportRejected
  BY <1>14 DEF TransportRejected, Truthful
<1>15. ASSUME CheckSubject \/ (\E a \in Answers : Review(a) \/ Project(a)) \/ OpenCycle
              \/ CancelCycle \/ (\E v : CycleEnds(v) \/ NoClient(v))
       PROVE  UNCHANGED <<ctx, failed, fault>> /\ place \notin Ending
              /\ place' \notin Ending \cup {"sending"}
  BY <1>15 DEF CheckSubject, Review, Reviewing, AfterReview, Project, OpenCycle, CancelCycle,
     CycleEnds, NoClient, FailWith
<1>16. CASE Join
  <2>1. /\ UNCHANGED <<ctx, failed, fault>> /\ place = "joining"
        /\ place' \in {"leaving", "announcing", "erring"} /\ (place' = "leaving" => ctx)
    BY <1>16 DEF Join, FailWith
  <2>2. ctx => fault
    BY <1>1, <2>1 DEF Truthful
  <2> QED
    BY <1>1, <2>1, <2>2 DEF Truthful
<1>17. ASSUME HeartbeatTicks \/ HeartbeatWritten
       PROVE  UNCHANGED <<place, verdict, frame, written, ctx, failed, fault>>
              /\ op'["loop"] = op["loop"]
  BY <1>1, <1>17 DEF HeartbeatTicks, HeartbeatWritten, Begin, Took
<1>18. CASE HeartbeatStops
  <2>1. UNCHANGED <<place, verdict, frame, written, failed, fault>> /\ op'["loop"] = op["loop"]
    BY <1>1, <1>18 DEF HeartbeatStops, Took
  <2>2. failed \/ ctx
    BY <1>1, <1>18 DEF HeartbeatStops, Took, Locked
  <2>3. place \notin Ending => fault
    BY <1>1, <2>2 DEF Truthful
  <2> QED
    BY <2>1, <2>3 DEF Truthful
<1>19. ASSUME CheckBegins \/ CheckStops \/ \E a \in Answers : CheckPasses(a) \/ CheckRefuses(a)
       PROVE  UNCHANGED <<place, verdict, frame, written, ctx, failed, fault, op>>
  BY <1>19 DEF CheckBegins, CheckStops, CheckPasses, CheckRefuses
<1>20. CASE ContextEnds
  BY <1>20 DEF ContextEnds, Truthful
<1>21. ASSUME (\E verb \in Asking : Revoke(verb)) \/ Stall \/ EndOfStream
              \/ Deliver \/ UNCHANGED vars
       PROVE  UNCHANGED <<place, verdict, frame, written, ctx, failed, fault, op>>
  BY <1>21 DEF Revoke, Stall, EndOfStream, Deliver, vars
<1>22. ASSUME NEW i \in DOMAIN wire, Lose(i)
       PROVE  UNCHANGED <<place, verdict, frame, written, ctx, failed, op>> /\ fault' = TRUE
  BY <1>22 DEF Lose
<1> QED
  BY <1>2, <1>3, <1>4, <1>5, <1>6, <1>7, <1>8, <1>9, <1>10, <1>11, <1>12, <1>13, <1>14,
     <1>15, <1>16, <1>17, <1>18, <1>19, <1>20, <1>21, <1>22, Actions

-----------------------------------------------------------------------------
\* The theorems.

\* The inductive invariant holds initially.
LEMMA Initially == Init => IInv
<1> SUFFICES ASSUME Init PROVE IInv
  OBVIOUS
<1>1. TypeOK
  <2>1. Headers \in Frames
    BY DEF Headers, Event, Frames
  <2>2. place = "handler" /\ request \in [policy : Policies, asked : Requests]
    BY DEF Init
  <2>3. op \in [Writers -> Operations]
    BY DEF Init, Writers, Operations
  <2>4. written \in Seq(Frames) /\ wire \in Seq(Frames) /\ applied \in Seq(Frames)
    BY DEF Init
  <2>5. verdict \in Verdicts /\ authErr \in Verdicts /\ place \in Places /\ frame \in Frames
    BY <2>1, <2>2, VerdictTypes DEF Init, Places
  <2>6. grants \subseteq Asking /\ granted \subseteq Asking /\ seq \in Nat
    BY DEF Init
  <2>7. /\ failed \in BOOLEAN /\ ctx \in BOOLEAN /\ cycleCtx \in BOOLEAN /\ fault \in BOOLEAN
        /\ gate = "free" /\ check = "off" /\ beat = "off" /\ client = "reading"
        /\ stalled \in BOOLEAN
    BY DEF Init
  <2> QED
    BY <2>2, <2>3, <2>4, <2>5, <2>6, <2>7 DEF TypeOK
<1>2. Locked /\ Numbered
  BY DEF Init, Locked, Numbered, Writers, Talking, Headers, Event
<1>3. Delivered /\ Undisturbed /\ Gated
  BY DEF Init, Delivered, Undisturbed, Gated, Asking, Reviewing
<1>4. Truthful /\ Vetted /\ Authorized
  BY DEF Init, Truthful, Vetted, Authorized, Ending, Ongoing, Asking, Reviewing
<1> QED
  BY <1>1, <1>2, <1>3, <1>4 DEF IInv

\* Every reachable state of a request, its response and its client satisfies the inductive
\* invariant.
THEOREM Invariant == Spec => []IInv
<1>1. IInv /\ [Next]_vars => IInv'
  <2> SUFFICES ASSUME IInv, [Next]_vars PROVE IInv'
    OBVIOUS
  <2>1. TypeOK' /\ Locked' /\ Numbered'
    BY TypeInductive, LockedInductive, NumberedInductive DEF IInv
  <2>2. Delivered' /\ Undisturbed'
    BY <2>1, DeliveredInductive DEF IInv
  <2>3. Gated' /\ Truthful' /\ Vetted' /\ Authorized'
    BY GatedInductive, TruthfulInductive, VettedInductive, AuthorizedInductive DEF IInv
  <2> QED
    BY <2>1, <2>2, <2>3 DEF IInv
<1> QED
  BY <1>1, Initially, PTL DEF Spec

\* The client applies a prefix of what was written, whatever the intermediary loses
\* (StreamSequence, streamOnce).
THEOREM PrefixApplied == Spec => []AppliedIsPrefix
<1>1. IInv => AppliedIsPrefix
  <2> SUFFICES ASSUME IInv PROVE AppliedIsPrefix
    OBVIOUS
  <2>1. /\ applied \in Seq(Frames) /\ written \in Seq(Frames) /\ Len(applied) <= Len(written)
        /\ \A i \in DOMAIN applied : applied[i] = written[i]
    BY DEF IInv, TypeOK, Delivered
  <2> QED
    BY <2>1, PrefixByElements DEF AppliedIsPrefix
<1> QED
  BY <1>1, Invariant, PTL

\* A frame cut short is the last thing on the response (SSESink.operation).
THEOREM NothingAfterTorn == Spec => []TornIsLast
<1>1. IInv => TornIsLast
  BY DEF IInv, Locked, TornIsLast
<1> QED
  BY <1>1, Invariant, PTL

\* A gap means that something was lost, and a request that ends undisturbed ends with its
\* error as the last event (emitError, authorizedCycle, SSESink).
THEOREM EndIsTrue == Spec => []TruthfulEnd
<1>1. IInv => TruthfulEnd
  BY DEF IInv, Undisturbed, Truthful, TruthfulEnd, Ending
<1> QED
  BY <1>1, Invariant, PTL

\* No gate is skipped: nobody is asked about, and no event is streamed to, a request that
\* a gate before it should have stopped, and every cycle and every event follows the grant
\* of both verbs and the view (Handler, Stream, authorizedCycle).
THEOREM GatesHold == Spec => []NoGateIsSkipped
<1>1. IInv => NoGateIsSkipped
  <2> SUFFICES ASSUME IInv PROVE NoGateIsSkipped
    OBVIOUS
  <2>1. place = "subject" => request.askable
    BY DEF IInv, Vetted, Decisive
  <2>2. place \in Asking => request.reviewable
    BY DEF IInv, Vetted, Decisive, Ongoing, Asking, Reviewing
  <2>3. place \in {"opening", "emitting"} => request.entitled /\ granted = Asking
    BY DEF IInv, Vetted, Decisive, Authorized, Ongoing, Asking, Reviewing
  <2> QED
    BY <2>1, <2>2, <2>3 DEF NoGateIsSkipped
<1> QED
  BY <1>1, Invariant, PTL
=============================================================================
