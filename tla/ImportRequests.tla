--------------------------- MODULE ImportRequests ---------------------------
(***************************************************************************)
(* The inserts a run makes, as constants: which requests arrive, for which *)
(* owner, at which API replica, and the rows each one wants to save.       *)
(*                                                                         *)
(* A row is what the duplicate rule can tell of it: its set of keys, the   *)
(* trimmed lower-case title and the ISBN-13 and ISBN-10 digits             *)
(* (importer/duplicates.go).  A row NormalizeCreateInput refuses is a row  *)
(* with no keys: a title is what it always requires.                       *)
(***************************************************************************)
EXTENDS Naturals, Sequences

CONSTANTS
  Imports,     \* requests that commit a reviewed import
  Creates,     \* requests that add one item by hand
  Owners,
  OwnerOf,     \* the owner each request acts for
  LockKeys,
  LockKeyOf,   \* an owner's advisory lock key; two owners may share one
  Replicas,
  ReplicaOf,   \* the API replica each request reached
  Keys,        \* duplicate keys
  RowKeys      \* for each request, the keys of its rows, in row order

Requests == Imports \union Creates

(***************************************************************************)
(* validateCommitRows: a commit has at least one row, in row order.  A     *)
(* plain create is one valid item: Service.Create refuses the others       *)
(* before it reaches the store.                                            *)
(***************************************************************************)
ASSUME RequestsAssumption ==
  /\ Imports \intersect Creates = {}
  /\ OwnerOf \in [Requests -> Owners]
  /\ LockKeyOf \in [Owners -> LockKeys]
  /\ ReplicaOf \in [Requests -> Replicas]
  /\ RowKeys \in [Requests -> Seq(SUBSET Keys)]
  /\ \A r \in Requests : Len(RowKeys[r]) >= 1
  /\ \A r \in Creates : Len(RowKeys[r]) = 1 /\ RowKeys[r][1] # {}

NumRows(r) == Len(RowKeys[r])

(* A row, and the item saved from it: its request and its place in it. *)
Items == UNION {{r} \X (1 .. NumRows(r)) : r \in Requests}

KeysOf(item) == RowKeys[item[1]][item[2]]

OwnerOfItem(item) == OwnerOf[item[1]]

LockKey(r) == LockKeyOf[OwnerOf[r]]

(* Every key some item of the set has that belongs to the owner. *)
OwnedKeys(items, owner) ==
  UNION {KeysOf(item) : item \in {x \in items : OwnerOfItem(x) = owner}}

(* What a commit reports of a row; "pending" is a row not yet decided. *)
Outcomes == {"pending", "added", "skipped", "failed", "interrupted", "unprocessed"}

(* Outcomes that tell the client the row was not stored. *)
NotStored == {"skipped", "failed", "unprocessed"}
=============================================================================
