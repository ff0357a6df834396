---------------------------- MODULE PatchGuard ----------------------------
(***************************************************************************)
(* gateway/patch.go: which JSON merge patches a host may send on.           *)
(*                                                                          *)
(* A path is the sequence of keys that leads to a value.  A patch is a      *)
(* function from the paths of its leaves to what it puts there: a value,    *)
(* Null (remove), or Empty (the object {}).  A document is a function from  *)
(* the paths of its own leaves to values, Absent where it has none.         *)
(***************************************************************************)
EXTENDS Sequences, SequencesExt

Null == "null"
Empty == "{}"
Absent == "absent"

LastApplied == <<"metadata", "annotations", "last-applied">>
ManagedFields == <<"metadata", "managedFields">>
Status == <<"status">>

\* machineryPaths.
machineryPaths == {LastApplied, ManagedFields}

\* projectionProtectedPaths, of an object of which nothing is redacted: only a
\* Secret's values are, and no host of this repository saves one.
projectionProtectedPaths(projection) ==
    machineryPaths \cup (IF projection = "krm-spec/v1" THEN {Status} ELSE {})

\* pointersOverlap: one path leads to the other.
pointersOverlap(p, q) == IsPrefix(p, q) \/ IsPrefix(q, p)

\* validatePatchObject: {} is passed over, every other leaf must keep clear.
validatePatchObject(patch, protected) ==
    \A p \in DOMAIN patch :
        patch[p] = Empty \/ \A q \in protected : ~pointersOverlap(p, q)

ValidateMergePatch(projection, patch) ==
    validatePatchObject(patch, projectionProtectedPaths(projection))

\* conditional: metadata.uid and metadata.resourceVersion are in the patch.
ValidateNativeMergePatch(patch, conditional) ==
    conditional /\ validatePatchObject(patch, machineryPaths)

\* RFC 7386, at one leaf q of a document: p is the leaf of the patch above it or at it.
MergeLeaf(old, patch, p, q) ==
    IF patch[p] = Null THEN Absent
    ELSE IF p = q THEN patch[p]
    ELSE IF patch[p] = Empty THEN old
    ELSE Absent

MergePatch(doc, patch) ==
    [q \in DOMAIN doc |->
        IF \E p \in DOMAIN patch : IsPrefix(p, q)
        THEN MergeLeaf(doc[q], patch, CHOOSE p \in DOMAIN patch : IsPrefix(p, q), q)
        ELSE doc[q]]
=============================================================================
