---------------------------- MODULE DraftMerge ----------------------------
(***************************************************************************)
(* One resource of a LiveResourceStore (packages/krm-stream/src/store.ts    *)
(* and merge.ts): the server's object, the user's draft of it, and the      *)
(* conflicts between them, as server events and edits interleave.           *)
(*                                                                          *)
(* An object is its editable regions: for each of Keys a map (labels, data, *)
(* a member of spec) or Absent.  A Secret's data is withheld: the object    *)
(* never carries its values, and redacted names the ones the server has.    *)
(* Which objects a store holds is the subject of StreamLoop and             *)
(* NativeWatch; associative lists are not modelled here.                    *)
(***************************************************************************)
EXTENDS Naturals, Sequences

CONSTANTS
    Keys,        \* the object's maps
    SecretKeys,  \* those whose values the projection withholds
    Fields,      \* the keys a map may have
    Scalars,     \* the values a field may have
    Absent       \* undefined

ASSUME KeysAssumption == SecretKeys \subseteq Keys
ASSUME AbsentAssumption == Absent \notin [Fields -> Scalars \cup {Absent}]
ASSUME NoneAssumption == <<>> \notin Scalars \cup {Absent}

VARIABLES
    server,     \* Resource.server
    draft,      \* Resource.draft
    redacted,   \* Resource.redacted: leaves
    conflicts,  \* Resource.conflicts: for each leaf the server's value, or None
    typed,      \* history: what the user last wrote at a leaf, or None when the draft
                \* follows the server there
    moved       \* history: leaves the server has moved since the user wrote there

vars == <<server, draft, redacted, conflicts, typed, moved>>

Leaves == Keys \X Fields
Values == Scalars \cup {Absent}
None == <<>>
Maps == [Fields -> Values]
EmptyMap == [f \in Fields |-> Absent]
Objects == [Keys -> Maps \cup {Absent}]

\* at and get: the value at a leaf, Absent where there is none.
At(m, f) == IF m = Absent THEN Absent ELSE m[f]
Get(o, p) == At(o[p[1]], p[2])

\* What project makes of an object: of a Secret's data no value is left, and a map
\* that lost all it had is removed with them.
Projected(o, red) ==
    \A k \in SecretKeys :
        /\ o[k] \in {Absent, EmptyMap}
        /\ (\E f \in Fields : <<k, f>> \in red) => o[k] = Absent

TypeOK ==
    /\ server \in Objects /\ draft \in Objects
    /\ redacted \subseteq SecretKeys \X Fields
    /\ conflicts \in [Leaves -> Values \cup {None}]
    /\ typed \in [Leaves -> Values \cup {None}]
    /\ moved \subseteq Leaves

\* The first applyServerEvent of a uid: base = draft = incoming.
Init ==
    /\ server \in Objects /\ draft = server
    /\ redacted \in SUBSET (SecretKeys \X Fields) /\ Projected(server, redacted)
    /\ conflicts = [p \in Leaves |-> None]
    /\ typed = [p \in Leaves |-> None] /\ moved = {}

-----------------------------------------------------------------------------
\* merge.ts.

\* mergeEditable at a leaf: the value, and what becomes of the conflict there.
ServerWins(b, o, t) == IF b = t THEN o ELSE t
MergeLeaf(b, o, t) == IF b = o THEN t ELSE o

KeptOnConvergence(b, o, t, c) ==
    IF b = o THEN None ELSE IF b = t \/ o = t THEN c ELSE t
BothSides(b, o, t, c) == IF b = o \/ o = t THEN None ELSE IF b = t THEN c ELSE <<o, t>>
MergeConflict(b, o, t, c) ==
    IF b = o THEN None
    ELSE IF b = t THEN c
    ELSE IF o = t THEN None
    ELSE t

\* recurse, over a region or the container around protected leaves: follow there,
\* merge beside them, and leave no empty map the server does not have.
FollowNowhere(red, p) == FALSE
Withheld(red, p) == p \in red

MergeMap(k, t, red) ==
    LET out == [f \in Fields |->
                    IF Withheld(red, <<k, f>>) THEN At(t, f)
                    ELSE MergeLeaf(Get(server, <<k, f>>), Get(draft, <<k, f>>), At(t, f))]
    IN  IF t = Absent /\ out = EmptyMap THEN Absent ELSE out

\* unionKeys: a leaf none of the three has is not visited.
Visited(p, t) == {Get(server, p), Get(draft, p), Get(t, p)} # {Absent}

\* #upsert: the draft is reconciled against the old server object, which the
\* incoming one then replaces.
Upsert(t, red) ==
    /\ draft' = [k \in Keys |-> MergeMap(k, t[k], red)]
    /\ conflicts' = [p \in Leaves |->
          IF ~Visited(p, t) \/ Withheld(red, p) THEN conflicts[p]
          ELSE MergeConflict(Get(server, p), Get(draft, p), Get(t, p), conflicts[p])]
    /\ server' = t /\ redacted' = red
    /\ typed' = [p \in Leaves |->
          IF p \in red \/ typed[p] = Get(t, p) THEN None ELSE typed[p]]
    /\ moved' = {p \in Leaves : typed'[p] # None /\ (p \in moved \/ Get(t, p) # Get(server, p))}

\* added and modified carry the paths withheld from the object; a save's response does
\* not, and keeps those already known.
ApplyServerEvent(t, red) == Projected(t, red) /\ Upsert(t, red)
AdoptSaved(t, red) == Projected(t, red) /\ Upsert(t, redacted)

-----------------------------------------------------------------------------
\* store.ts: the edits.

\* isEditable: not inside a withheld path, and not holding one.
Editable(p) == p \notin redacted
EditableMap(k) == \A f \in Fields : <<k, f>> \notin redacted

\* #settle: a conflict the draft has brought back to the server's value is over.
Settled(d, p) == IF Get(server, p) = Get(d, p) THEN None ELSE conflicts[p]

\* An edit of the map k that wrote the leaves in ps.
Edit(k, m, ps) ==
    LET d == [draft EXCEPT ![k] = m]
    IN  /\ draft' = d
        /\ conflicts' = [p \in Leaves |-> IF p \in ps THEN Settled(d, p) ELSE conflicts[p]]
        /\ typed' = [p \in Leaves |->
              IF p \notin ps THEN typed[p]
              ELSE IF Get(d, p) = Get(server, p) THEN None ELSE Get(d, p)]
        /\ moved' = {p \in moved : typed'[p] # None}
        /\ UNCHANGED <<server, redacted>>

WithField(m, f, v) == [g \in Fields |-> IF g = f THEN v ELSE At(m, g)]

\* setValue and addKey of a map's entry.
SetField(k, f, v) ==
    /\ Editable(<<k, f>>)
    /\ Edit(k, WithField(draft[k], f, v), {<<k, f>>})

\* removeKey of a map's entry; of what is not there, it changes nothing.
RemoveField(k, f) ==
    /\ Editable(<<k, f>>)
    /\ Edit(k, IF draft[k] = Absent THEN Absent ELSE WithField(draft[k], f, Absent),
            {<<k, f>>})

\* setValue and removeKey of a whole map.
SetMap(k, m) == EditableMap(k) /\ Edit(k, m, {k} \X Fields)
RemoveMap(k) == EditableMap(k) /\ Edit(k, Absent, {k} \X Fields)

\* renameKey.
RenameField(k, f, g) ==
    /\ Editable(<<k, f>>) /\ Editable(<<k, g>>)
    /\ draft[k] # Absent /\ f # g
    /\ draft[k][f] # Absent /\ draft[k][g] = Absent
    /\ Edit(k, WithField(WithField(draft[k], g, draft[k][f]), f, Absent),
            {<<k, f>>, <<k, g>>})

\* revert, and takeTheirs, of an entry and of a map.
RevertField(k, f) ==
    /\ Editable(<<k, f>>)
    /\ LET v == Get(server, <<k, f>>)
       IN  Edit(k, IF v = Absent /\ draft[k] = Absent THEN Absent
                   ELSE WithField(draft[k], f, v), {<<k, f>>})
RevertMap(k) == EditableMap(k) /\ Edit(k, server[k], {k} \X Fields)

-----------------------------------------------------------------------------
Reds == SUBSET (SecretKeys \X Fields)

Next ==
    \/ \E t \in Objects, red \in Reds : ApplyServerEvent(t, red) \/ AdoptSaved(t, red)
    \/ \E k \in Keys :
          \/ \E m \in Maps : SetMap(k, m)
          \/ RemoveMap(k) \/ RevertMap(k)
          \/ \E f \in Fields :
                \/ \E v \in Scalars : SetField(k, f, v)
                \/ RemoveField(k, f) \/ RevertField(k, f)
                \/ \E g \in Fields : RenameField(k, f, g)

Spec == Init /\ [][Next]_vars

-----------------------------------------------------------------------------
\* The draft is the server's object with the user's edits over it and nothing else:
\* an edit survives every server event until the server agrees with it, and what
\* the user has not touched follows the server, into deletion too (reconcile).
DraftIsEditsOverServer ==
    \A p \in Leaves : Get(draft, p) = IF typed[p] # None THEN typed[p] ELSE Get(server, p)

\* There is a conflict exactly where the server moved a value the user had changed
\* and they still differ, and it shows the server's present value: none is missed,
\* false, stale or left behind by convergence, revert or rename.
ConflictsAreExact ==
    \A p \in Leaves : conflicts[p] = IF p \in moved THEN Get(server, p) ELSE None

\* A withheld value is never drafted: what the user had typed there goes when the
\* value becomes the server's to hide, so that no patch can write over it.
WithheldIsUntouched == \A p \in redacted : Get(draft, p) = Absent

\* "It stays deleted across watch events" (removeKey): a map the user removed is not
\* there again after an event that did not touch it.
RemovedStaysRemoved ==
    [][\A k \in Keys : server' # server /\ draft[k] = Absent /\ server[k] # Absent
                       /\ server'[k] = server[k] => draft'[k] = Absent]_vars
=============================================================================
