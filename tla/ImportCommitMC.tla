--------------------------- MODULE ImportCommitMC ---------------------------
(***************************************************************************)
(* Small instances of ImportCommit for TLC.  Ann and Bob own libraries;    *)
(* in the colliding instance their owner IDs share a lock key.             *)
(***************************************************************************)
EXTENDS ImportCommit, TLC

CONSTANTS i1, i2, c1, ann, bob, rep1, rep2, title, isbn, other, lock

(* Two overlapping commits of ann, at two replicas: the second repeats one
   row of the first by ISBN alone, and has a row of its own that is invalid. *)
OverlapOwner   == i1 :> ann @@ i2 :> ann
OverlapReplica == i1 :> rep1 @@ i2 :> rep2
OverlapRows    == i1 :> <<{title, isbn}, {other}>> @@ i2 :> <<{}, {isbn}>>
OverlapKeys    == ann :> lock
OverlapDeletes == {<<i1, 1>>}

(* A commit of ann whose file repeats a row, and a create of bob's, whose owner
   ID has the same lock key, at one replica. *)
CollideOwner   == i1 :> ann @@ c1 :> bob
CollideReplica == i1 :> rep1 @@ c1 :> rep1
CollideRows    == i1 :> <<{title}, {title, isbn}>> @@ c1 :> <<{title}>>
CollideKeys    == ann :> lock @@ bob :> lock

(* Sessions differ in nothing but their name. *)
SessionSymmetry == Permutations(Backends)
=============================================================================
