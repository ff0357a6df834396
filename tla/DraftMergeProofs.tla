------------------------- MODULE DraftMergeProofs -------------------------
(***************************************************************************)
(* DraftMerge, for every object shape: the draft is the user's edits over   *)
(* the server's object, conflicts are exact, and what is withheld is never  *)
(* drafted.                                                                 *)
(***************************************************************************)
EXTENDS DraftMerge, TLAPS

\* What is left of a Secret's data in an object: no value.
SecretsBare(o) == \A p \in SecretKeys \X Fields : Get(o, p) = Absent

\* An edit is remembered only while the server differs from it: were the draft equal
\* to the base at an edited leaf, the merge would take it for untouched.
EditsDiffer == \A p \in Leaves : typed[p] # None => typed[p] # Get(server, p)

\* The inductive invariant.
IInv ==
    /\ TypeOK
    /\ DraftIsEditsOverServer
    /\ ConflictsAreExact
    /\ WithheldIsUntouched
    /\ EditsDiffer
    /\ \A p \in moved : typed[p] # None
    /\ SecretsBare(server)
    /\ moved \cap (SecretKeys \X Fields) = {}

-----------------------------------------------------------------------------
\* A leaf is a key and a field.
LEMMA LeafParts ==
    ASSUME NEW p \in Leaves
    PROVE  p[1] \in Keys /\ p[2] \in Fields /\ p = <<p[1], p[2]>>
BY DEF Leaves

\* The value at a leaf is a value.
LEMMA GetType ==
    ASSUME NEW o \in Objects, NEW p \in Leaves
    PROVE  Get(o, p) \in Values
BY LeafParts DEF Get, At, Objects, Maps, Values

\* A projected object carries nothing of a Secret's data.
LEMMA ProjectedIsBare ==
    ASSUME NEW o \in Objects, NEW red, Projected(o, red)
    PROVE  SecretsBare(o)
BY KeysAssumption DEF Projected, SecretsBare, Get, At, EmptyMap

\* What mergeEditable and follow leave at each leaf of the merged object.
LEMMA MergedLeaf ==
    ASSUME TypeOK, NEW t \in Objects, NEW red, NEW p \in Leaves
    PROVE  Get([k \in Keys |-> MergeMap(k, t[k], red)], p)
             = IF Withheld(red, p) THEN Get(t, p)
               ELSE MergeLeaf(Get(server, p), Get(draft, p), Get(t, p))
<1> DEFINE k == p[1]
           f == p[2]
           out == [g \in Fields |->
                     IF Withheld(red, <<k, g>>) THEN At(t[k], g)
                     ELSE MergeLeaf(Get(server, <<k, g>>), Get(draft, <<k, g>>), At(t[k], g))]
<1>1. k \in Keys /\ f \in Fields /\ p = <<k, f>>
  BY LeafParts
<1>2. out[f] = IF Withheld(red, p) THEN Get(t, p)
               ELSE MergeLeaf(Get(server, p), Get(draft, p), Get(t, p))
  BY <1>1 DEF Get
<1>3. MergeMap(k, t[k], red) = IF t[k] = Absent /\ out = EmptyMap THEN Absent ELSE out
  BY DEF MergeMap
<1>4. out # Absent => At(out, f) = out[f]
  BY DEF At
<1>5. out \in Maps
  <2> SUFFICES ASSUME NEW g \in Fields PROVE out[g] \in Values
    BY DEF Maps
  <2>1. <<k, g>> \in Leaves
    BY <1>1 DEF Leaves
  <2>2. Get(t, <<k, g>>) \in Values /\ Get(server, <<k, g>>) \in Values
        /\ Get(draft, <<k, g>>) \in Values
    BY <2>1, GetType DEF TypeOK
  <2> QED BY <2>2 DEF MergeLeaf, Get
<1>6. out # Absent
  BY <1>5, AbsentAssumption DEF Maps, Values
<1>7. At(MergeMap(k, t[k], red), f) = out[f]
  <2>1. CASE t[k] = Absent /\ out = EmptyMap
    BY <2>1, <1>1, <1>3 DEF At, EmptyMap
  <2>2. CASE ~(t[k] = Absent /\ out = EmptyMap)
    BY <2>2, <1>3, <1>4, <1>6
  <2> QED BY <2>1, <2>2
<1>8. Get([x \in Keys |-> MergeMap(x, t[x], red)], p) = At(MergeMap(k, t[k], red), f)
  BY <1>1 DEF Get
<1> QED BY <1>2, <1>7, <1>8

\* The merged object is an object.
LEMMA MergedType ==
    ASSUME TypeOK, NEW t \in Objects, NEW red, NEW k \in Keys
    PROVE  MergeMap(k, t[k], red) \in Maps \cup {Absent}
<1> SUFFICES ASSUME NEW g \in Fields
             PROVE (IF Withheld(red, <<k, g>>) THEN At(t[k], g)
                    ELSE MergeLeaf(Get(server, <<k, g>>), Get(draft, <<k, g>>), At(t[k], g)))
                   \in Values
  BY DEF MergeMap, Maps
<1>1. <<k, g>> \in Leaves
  BY DEF Leaves
<1>2. Get(t, <<k, g>>) \in Values /\ Get(server, <<k, g>>) \in Values
      /\ Get(draft, <<k, g>>) \in Values
  BY <1>1, GetType DEF TypeOK
<1> QED BY <1>2 DEF MergeLeaf, Get

\* What the history says of the edits is of the right type.
LEMMA NoneIsNoValue == None \notin Values
BY NoneAssumption DEF None, Values

-----------------------------------------------------------------------------
\* A server event, or a save's response, preserves the invariant.
LEMMA UpsertKeeps ==
    ASSUME IInv, NEW t \in Objects, NEW red \in SUBSET (SecretKeys \X Fields),
           SecretsBare(t), Upsert(t, red)
    PROVE  IInv'
<1> USE DEF IInv
<1>1. TypeOK'
  <2>1. draft' \in Objects
    BY MergedType DEF Upsert, Objects
  <2>2. \A p \in Leaves : Get(t, p) \in Values
    BY GetType
  <2>3. conflicts' \in [Leaves -> Values \cup {None}]
    BY <2>2 DEF Upsert, TypeOK, MergeConflict
  <2>4. typed' \in [Leaves -> Values \cup {None}]
    BY DEF Upsert, TypeOK
  <2> QED BY <2>1, <2>3, <2>4 DEF TypeOK, Upsert
<1>2. \A p \in Leaves : Get(draft', p) = IF Withheld(red, p) THEN Get(t, p)
                              ELSE MergeLeaf(Get(server, p), Get(draft, p), Get(t, p))
  BY MergedLeaf DEF Upsert
<1>3. \A p \in Leaves : Get(server, p) \in Values /\ Get(t, p) \in Values
  BY GetType DEF TypeOK
<1>4. \A p \in Leaves :
        typed'[p] = IF p \in red \/ typed[p] = Get(t, p) THEN None ELSE typed[p]
  BY DEF Upsert
<1>5. server' = t /\ redacted' = red
  BY DEF Upsert
<1>6. DraftIsEditsOverServer'
  <2> SUFFICES ASSUME NEW p \in Leaves
               PROVE Get(draft', p) = IF typed'[p] # None THEN typed'[p] ELSE Get(t, p)
    BY <1>5 DEF DraftIsEditsOverServer
  <2> QED BY <1>2, <1>3, <1>4, NoneIsNoValue
          DEF DraftIsEditsOverServer, EditsDiffer, MergeLeaf, Withheld
<1>7. EditsDiffer'
  BY <1>4, <1>5 DEF EditsDiffer
<1>8. \A p \in moved' : typed'[p] # None
  BY DEF Upsert
<1>9. SecretsBare(server)'
  BY <1>5 DEF SecretsBare, Get
<1>10. moved' \cap (SecretKeys \X Fields) = {}
  BY DEF Upsert, SecretsBare
<1>11. WithheldIsUntouched'
  <2> SUFFICES ASSUME NEW p \in red PROVE Get(draft', p) = Absent
    BY <1>5 DEF WithheldIsUntouched
  <2>1. p \in Leaves /\ Get(t, p) = Absent
    BY KeysAssumption DEF SecretsBare, Leaves
  <2> QED BY <2>1, <1>2 DEF Withheld
<1>12. ConflictsAreExact'
  <2> SUFFICES ASSUME NEW p \in Leaves
               PROVE conflicts'[p] = IF p \in moved' THEN Get(t, p) ELSE None
    BY <1>5 DEF ConflictsAreExact
  <2>1. p \in moved' <=> typed'[p] # None /\ (p \in moved \/ Get(t, p) # Get(server, p))
    BY DEF Upsert
  <2>2. conflicts[p] = IF p \in moved THEN Get(server, p) ELSE None
    BY DEF ConflictsAreExact
  <2>3. Get(draft, p) = IF typed[p] # None THEN typed[p] ELSE Get(server, p)
    BY DEF DraftIsEditsOverServer
  <2>4. CASE Withheld(red, p)
    <3>1. conflicts'[p] = conflicts[p]
      BY <2>4 DEF Upsert
    <3>2. p \notin moved /\ p \notin moved'
      BY <2>4, <1>10 DEF Withheld
    <3> QED BY <3>1, <3>2, <2>2
  <2>5. CASE ~Withheld(red, p) /\ ~Visited(p, t)
    <3>1. conflicts'[p] = conflicts[p]
      BY <2>5 DEF Upsert
    <3>2. Get(server, p) = Absent /\ Get(draft, p) = Absent /\ Get(t, p) = Absent
      BY <2>5 DEF Visited
    <3>3. typed[p] = None
      BY <3>2, <2>3 DEF EditsDiffer
    <3> QED BY <3>1, <3>3, <2>1, <2>2, <1>4
  <2>6. CASE ~Withheld(red, p) /\ Visited(p, t)
    <3>1. conflicts'[p]
            = MergeConflict(Get(server, p), Get(draft, p), Get(t, p), conflicts[p])
      BY <2>6 DEF Upsert
    <3>2. typed[p] # None => typed[p] # Get(server, p)
      BY DEF EditsDiffer
    <3> QED BY <3>1, <3>2, <2>1, <2>2, <2>3, <2>6, <1>3, <1>4, NoneIsNoValue
            DEF MergeConflict, Withheld
  <2> QED BY <2>4, <2>5, <2>6
<1> QED BY <1>1, <1>6, <1>7, <1>8, <1>9, <1>10, <1>11, <1>12

-----------------------------------------------------------------------------
\* An edit of the leaves ps of one map, none of them withheld, preserves it.
LEMMA EditKeeps ==
    ASSUME IInv, NEW k \in Keys, NEW m \in Maps \cup {Absent}, NEW ps \in SUBSET ({k} \X Fields),
           \A p \in ps : p \notin redacted,
           \A f \in Fields : <<k, f>> \notin ps => At(m, f) = Get(draft, <<k, f>>),
           Edit(k, m, ps)
    PROVE  IInv'
<1> USE DEF IInv
<1> DEFINE d == [draft EXCEPT ![k] = m]
<1>1. draft' = d /\ server' = server /\ redacted' = redacted
  BY DEF Edit
<1>2. d \in Objects
  BY DEF TypeOK, Objects
<1>3. \A p \in Leaves : p \notin ps => Get(d, p) = Get(draft, p)
  <2> SUFFICES ASSUME NEW p \in Leaves, p \notin ps PROVE Get(d, p) = Get(draft, p)
    OBVIOUS
  <2>1. p[1] \in Keys /\ p[2] \in Fields /\ p = <<p[1], p[2]>>
    BY LeafParts
  <2>2. CASE p[1] = k
    <3>1. d[p[1]] = m
      BY <2>1, <2>2 DEF TypeOK, Objects
    <3> QED BY <3>1, <2>1, <2>2 DEF Get
  <2>3. CASE p[1] # k
    BY <2>1, <2>3 DEF Get, TypeOK, Objects
  <2> QED BY <2>2, <2>3
<1>4. \A p \in Leaves :
        typed'[p] = IF p \notin ps THEN typed[p]
                    ELSE IF Get(d, p) = Get(server, p) THEN None ELSE Get(d, p)
  BY DEF Edit
<1>5. \A p \in Leaves : Get(d, p) \in Values /\ Get(server, p) \in Values
  BY <1>2, GetType DEF TypeOK
<1>6. moved' = {p \in moved : typed'[p] # None}
  BY DEF Edit
<1>7. \A p \in Leaves :
        conflicts'[p] = IF p \in ps /\ Get(server, p) = Get(d, p) THEN None ELSE conflicts[p]
  BY DEF Edit, Settled
<1>8. TypeOK'
  <2>1. typed' \in [Leaves -> Values \cup {None}]
    BY <1>5 DEF Edit, TypeOK
  <2>2. conflicts' \in [Leaves -> Values \cup {None}]
    BY DEF Edit, Settled, TypeOK
  <2> QED BY <1>1, <1>2, <1>6, <2>1, <2>2 DEF TypeOK
<1>9. DraftIsEditsOverServer'
  BY <1>1, <1>3, <1>4, <1>5, NoneIsNoValue DEF DraftIsEditsOverServer
<1>10. EditsDiffer'
  BY <1>1, <1>4 DEF EditsDiffer
<1>11. ConflictsAreExact'
  <2> SUFFICES ASSUME NEW p \in Leaves
               PROVE conflicts'[p] = IF p \in moved' THEN Get(server, p) ELSE None
    BY <1>1 DEF ConflictsAreExact
  <2>1. conflicts[p] = IF p \in moved THEN Get(server, p) ELSE None
    BY DEF ConflictsAreExact
  <2> QED BY <2>1, <1>4, <1>5, <1>6, <1>7, NoneIsNoValue
<1>12. WithheldIsUntouched'
  <2> SUFFICES ASSUME NEW p \in redacted PROVE Get(d, p) = Absent
    BY <1>1 DEF WithheldIsUntouched
  <2>1. p \in Leaves /\ p \notin ps
    BY KeysAssumption DEF TypeOK, Leaves
  <2> QED BY <2>1, <1>3 DEF WithheldIsUntouched
<1>13. SecretsBare(server)'
  BY <1>1 DEF SecretsBare, Get
<1>14. (\A p \in moved' : typed'[p] # None) /\ moved' \cap (SecretKeys \X Fields) = {}
  BY <1>6
<1> QED BY <1>8, <1>9, <1>10, <1>11, <1>12, <1>13, <1>14

\* A map with one field written.
LEMMA WithFieldType ==
    ASSUME NEW m \in Maps \cup {Absent}, NEW f \in Fields, NEW v \in Values
    PROVE  /\ WithField(m, f, v) \in Maps
           /\ WithField(m, f, v) # Absent
           /\ \A g \in Fields : At(WithField(m, f, v), g) = IF g = f THEN v ELSE At(m, g)
<1>1. WithField(m, f, v) \in Maps
  BY DEF WithField, Maps, At, Values
<1>2. WithField(m, f, v) # Absent
  BY <1>1, AbsentAssumption DEF Maps, Values
<1> QED BY <1>1, <1>2 DEF WithField, At

\* The initial states satisfy the invariant.
LEMMA InitIInv == Init => IInv
<1> SUFFICES ASSUME Init PROVE IInv
  OBVIOUS
<1>1. TypeOK
  BY DEF Init, TypeOK
<1>2. SecretsBare(server)
  BY ProjectedIsBare DEF Init
<1>3. WithheldIsUntouched
  BY <1>2 DEF Init, WithheldIsUntouched, SecretsBare
<1> QED BY <1>1, <1>2, <1>3
        DEF IInv, Init, DraftIsEditsOverServer, ConflictsAreExact, EditsDiffer

\* Every step preserves it.
LEMMA NextIInv == IInv /\ [Next]_vars => IInv'
<1> SUFFICES ASSUME IInv, [Next]_vars PROVE IInv'
  OBVIOUS
<1>1. TypeOK /\ draft \in Objects
  BY DEF IInv, TypeOK
<1>2. CASE UNCHANGED vars
  BY <1>2 DEF vars, IInv, TypeOK, DraftIsEditsOverServer, ConflictsAreExact,
              WithheldIsUntouched, EditsDiffer, SecretsBare, Get, At
<1>3. ASSUME NEW t \in Objects, NEW red \in Reds, ApplyServerEvent(t, red) PROVE IInv'
  BY <1>3, ProjectedIsBare, UpsertKeeps DEF ApplyServerEvent, Reds
<1>4. ASSUME NEW t \in Objects, NEW red \in Reds, AdoptSaved(t, red) PROVE IInv'
  <2>1. SecretsBare(t) /\ Upsert(t, redacted)
    BY <1>4, ProjectedIsBare DEF AdoptSaved
  <2>2. redacted \in SUBSET (SecretKeys \X Fields)
    BY <1>1 DEF TypeOK
  <2> QED BY <2>1, <2>2, UpsertKeeps
<1>5. ASSUME NEW k \in Keys, NEW m \in Maps \cup {Absent}, EditableMap(k),
             Edit(k, m, {k} \X Fields)
      PROVE IInv'
  <2>1. \A p \in {k} \X Fields : p \notin redacted
    BY <1>5 DEF EditableMap
  <2> QED BY <1>5, <2>1, EditKeeps
<1>6. ASSUME NEW k \in Keys, NEW m \in Maps, SetMap(k, m) PROVE IInv'
  BY <1>5, <1>6 DEF SetMap
<1>7. ASSUME NEW k \in Keys, RemoveMap(k) PROVE IInv'
  BY <1>5, <1>7 DEF RemoveMap
<1>8. ASSUME NEW k \in Keys, RevertMap(k) PROVE IInv'
  <2>1. server[k] \in Maps \cup {Absent}
    BY <1>1 DEF TypeOK, Objects
  <2> QED BY <1>5, <1>8, <2>1 DEF RevertMap
<1>9. ASSUME NEW k \in Keys, NEW f \in Fields, NEW m \in Maps \cup {Absent},
             Editable(<<k, f>>), Edit(k, m, {<<k, f>>}),
             \A g \in Fields : g # f => At(m, g) = At(draft[k], g)
      PROVE IInv'
  <2>1. {<<k, f>>} \in SUBSET ({k} \X Fields)
    OBVIOUS
  <2>2. \A p \in {<<k, f>>} : p \notin redacted
    BY <1>9 DEF Editable
  <2>3. \A g \in Fields : <<k, g>> \notin {<<k, f>>} => At(m, g) = Get(draft, <<k, g>>)
    BY <1>9 DEF Get
  <2> QED BY <1>9, <2>1, <2>2, <2>3, EditKeeps
<1>10. ASSUME NEW k \in Keys, NEW f \in Fields, NEW v \in Scalars, SetField(k, f, v)
       PROVE IInv'
  <2>1. draft[k] \in Maps \cup {Absent} /\ v \in Values
    BY <1>1 DEF Objects, Values
  <2> QED BY <1>9, <1>10, <2>1, WithFieldType DEF SetField
<1>11. ASSUME NEW k \in Keys, NEW f \in Fields, RemoveField(k, f) PROVE IInv'
  <2>1. draft[k] \in Maps \cup {Absent} /\ Absent \in Values
    BY <1>1 DEF Objects, Values
  <2>2. CASE draft[k] = Absent
    BY <1>9, <1>11, <2>1, <2>2 DEF RemoveField
  <2>3. CASE draft[k] # Absent
    BY <1>9, <1>11, <2>1, <2>3, WithFieldType DEF RemoveField
  <2> QED BY <2>2, <2>3
<1>12. ASSUME NEW k \in Keys, NEW f \in Fields, RevertField(k, f) PROVE IInv'
  <2>1. draft[k] \in Maps \cup {Absent}
    BY <1>1 DEF Objects
  <2>2. Get(server, <<k, f>>) \in Values
    BY <1>1, GetType DEF TypeOK, Leaves
  <2>3. CASE Get(server, <<k, f>>) = Absent /\ draft[k] = Absent
    BY <1>9, <1>12, <2>1, <2>3 DEF RevertField
  <2>4. CASE ~(Get(server, <<k, f>>) = Absent /\ draft[k] = Absent)
    BY <1>9, <1>12, <2>1, <2>2, <2>4, WithFieldType DEF RevertField
  <2> QED BY <2>3, <2>4
<1>13. ASSUME NEW k \in Keys, NEW f \in Fields, NEW g \in Fields, RenameField(k, f, g)
       PROVE IInv'
  <2> DEFINE m1 == WithField(draft[k], g, draft[k][f])
             m2 == WithField(m1, f, Absent)
             ps == {<<k, f>>, <<k, g>>}
  <2>1. draft[k] \in Maps /\ draft[k][f] \in Values /\ Absent \in Values
    BY <1>1, <1>13 DEF RenameField, Objects, Maps, Values
  <2>2. m1 \in Maps /\ \A h \in Fields : h # g => At(m1, h) = At(draft[k], h)
    BY <2>1, WithFieldType
  <2>3. m2 \in Maps /\ \A h \in Fields : h # f => At(m2, h) = At(m1, h)
    BY <2>1, <2>2, WithFieldType
  <2>4. \A h \in Fields : <<k, h>> \notin ps => At(m2, h) = Get(draft, <<k, h>>)
    <3> SUFFICES ASSUME NEW h \in Fields, h # f, h # g
                 PROVE At(m2, h) = At(draft[k], h)
      BY DEF Get
    <3> QED BY <2>2, <2>3
  <2>5. ps \in SUBSET ({k} \X Fields)
    OBVIOUS
  <2>6. \A p \in ps : p \notin redacted
    BY <1>13 DEF RenameField, Editable
  <2>7. Edit(k, m2, ps)
    BY <1>13 DEF RenameField
  <2> QED BY <2>3, <2>4, <2>5, <2>6, <2>7, EditKeeps
<1>14. CASE Next
  BY <1>14, <1>3, <1>4, <1>6, <1>7, <1>8, <1>10, <1>11, <1>12, <1>13 DEF Next
<1> QED BY <1>2, <1>14

\* The invariant holds for every object, edit and event.
THEOREM Invariance == Spec => []IInv
BY InitIInv, NextIInv, PTL DEF Spec

-----------------------------------------------------------------------------
\* Types are kept by every event and edit of the store.
THEOREM TypeCorrect == Spec => []TypeOK
BY Invariance, PTL DEF IInv

\* reconcile never overwrites an edit and never keeps what nobody edited: the draft is
\* always the user's edits over the server's object.
THEOREM EditsSurvive == Spec => []DraftIsEditsOverServer
BY Invariance, PTL DEF IInv

\* The store's conflicts are exactly the leaves where the server moved under an edit.
THEOREM ConflictsExact == Spec => []ConflictsAreExact
BY Invariance, PTL DEF IInv

\* No draft holds a value at a path the projection withholds.
THEOREM WithheldStaysOut == Spec => []WithheldIsUntouched
BY Invariance, PTL DEF IInv
=============================================================================
