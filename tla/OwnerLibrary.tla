---------------------------- MODULE OwnerLibrary ----------------------------
(***************************************************************************)
(* What the insert lock and the import commit promise together, without    *)
(* connections, statements or failures (items/import_batch.go 20-42,       *)
(* importer/commit.go 106-119): an owner's inserts happen one request at a *)
(* time, an import never saves a row the library already has, and what a   *)
(* request reports of a row is true and stays true.                        *)
(***************************************************************************)
EXTENDS ImportRequests

CONSTANT NoRequest

VARIABLES
  saved,     \* every item ever committed to the items table
  deleted,   \* those removed since
  holder,    \* the request that may insert, for each lock key
  outcome    \* what has been decided of each row

vars == <<saved, deleted, holder, outcome>>

Library == saved \ deleted

Init ==
  /\ saved = {}
  /\ deleted = {}
  /\ holder = [k \in LockKeys |-> NoRequest]
  /\ outcome = [item \in Items |-> "pending"]

(* One request at a time gets an owner's exclusive insert right. *)
Take(r) ==
  /\ holder[LockKey(r)] = NoRequest
  /\ holder' = [holder EXCEPT ![LockKey(r)] = r]
  /\ UNCHANGED <<saved, deleted, outcome>>

Release(k) ==
  /\ holder[k] # NoRequest
  /\ holder' = [holder EXCEPT ![k] = NoRequest]
  /\ UNCHANGED <<saved, deleted, outcome>>

(***************************************************************************)
(* The holder saves a row it has not reported on, or could not confirm: an *)
(* import only if the library has none of its keys at that moment.  An     *)
(* import saves in row order and keeps the right; a plain create gives it  *)
(* up with the save.                                                       *)
(***************************************************************************)
Save(item) ==
  /\ holder[LockKey(item[1])] = item[1]
  /\ item \notin saved
  /\ outcome[item] \in {"pending", "interrupted"}
  /\ saved' = saved \union {item}
  /\ \/ /\ item[1] \in Imports
        /\ KeysOf(item) # {}
        /\ KeysOf(item) \intersect OwnedKeys(Library, OwnerOfItem(item)) = {}
        /\ \A other \in saved : other[1] = item[1] => other[2] < item[2]
        /\ UNCHANGED holder
     \/ /\ item[1] \in Creates
        /\ holder' = [holder EXCEPT ![LockKey(item[1])] = NoRequest]
  /\ UNCHANGED <<deleted, outcome>>

(* Truthful reports about rows of one request, each decided once. *)
Report(r) ==
  /\ outcome' \in [Items -> Outcomes]
  /\ \A item \in Items : outcome'[item] # outcome[item] =>
       /\ item[1] = r
       /\ outcome[item] = "pending"
       /\ outcome'[item] = "added" => item \in saved
       /\ outcome'[item] \in NotStored => item \notin saved
  /\ UNCHANGED <<saved, deleted, holder>>

(* Deleting an item takes no insert right. *)
Delete(item) ==
  /\ item \in Library
  /\ deleted' = deleted \union {item}
  /\ UNCHANGED <<saved, holder, outcome>>

Next ==
  \/ \E r \in Requests : Take(r) \/ Report(r)
  \/ \E k \in LockKeys : Release(k)
  \/ \E item \in Items : Save(item) \/ Delete(item)

Spec == Init /\ [][Next]_vars
=============================================================================
