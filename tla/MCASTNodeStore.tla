----------------------------- MODULE MCASTNodeStore -----------------------------
(***************************************************************************)
(* Texts and owners for ASTNodeStore.  The object has a repeated key and    *)
(* its keys are out of order; the array may have a malformed third element  *)
(* and its owner inserts an absent (V_NONE) value.                          *)
(***************************************************************************)
EXTENDS ASTNodeStore

M(k, v) == [key |-> k, val |-> v]
ObjectText == <<M(2, "a"), M(1, "b"), M(2, "c")>>
ArrayText == <<M(0, "a"), M(0, "b"), M(0, "c")>>
LongText == <<M(2, "a"), M(1, "b"), M(2, "c"), M(3, "d")>>
Insertable == {M(3, "x"), M(0, "x"), M(0, None)}

EditOps == {"get", "load", "promote", "add", "set", "remove", "move", "unmarshal", "write"}
IterateOps == {"iterate", "add", "remove"}

Source(kind, text, errAt, ops, room) ==
    [kind |-> kind, members |-> text, errAt |-> errAt, ops |-> ops, room |-> room]

\* One owner edits an object or a malformed array, walks over an array that it
\* changes meanwhile, or reads an object through two copies.
OwnersSources == {
    Source("object", ObjectText, 0, EditOps, 5),
    Source("array", ArrayText, 3, EditOps, 4),
    Source("array", ArrayText, 0, IterateOps, 5),
    Source("object", LongText, 0, {"get", "load", "copy"}, 4)}

\* A member is removed from one of two copies.
RemovalSources == {Source("object", ObjectText, 0, {"get", "remove", "copy"}, 4)}
=============================================================================
