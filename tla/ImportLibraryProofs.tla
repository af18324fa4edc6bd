------------------------ MODULE ImportLibraryProofs -------------------------
(***************************************************************************)
(* ImportCommit implements OwnerLibrary: seen through what is stored, what *)
(* is reported, and for whom some session holds each insert lock, every    *)
(* step of requests, pools, sessions and failures is a step the abstract   *)
(* library may take, or changes nothing of it.                             *)
(***************************************************************************)
EXTENDS ImportReportProofs

(* HolderOf, of any record of who holds what. *)
HolderIn(h, k) ==
  LET sessions == {b \in Backends : h[b] # NoRequest /\ LockKey(h[b]) = k}
  IN IF sessions = {} THEN NoRequest ELSE h[CHOOSE b \in sessions : TRUE]

OneEach(h) ==
  \A a, b \in Backends :
    h[a] # NoRequest /\ h[b] # NoRequest /\ LockKey(h[a]) = LockKey(h[b]) => a = b

Holders(h) == [k \in LockKeys |-> HolderIn(h, k)]

-----------------------------------------------------------------------------
(* Who holds a key. *)

LEMMA HolderIs ==
  ASSUME NEW h, OneEach(h), NEW b \in Backends, h[b] # NoRequest
  PROVE  HolderIn(h, LockKey(h[b])) = h[b]
<1> DEFINE sessions == {c \in Backends : h[c] # NoRequest /\ LockKey(h[c]) = LockKey(h[b])}
<1>1. sessions = {b}
  BY DEF OneEach
<1>2. (CHOOSE c \in sessions : TRUE) = b
  BY <1>1
<1>3. QED
  BY <1>1, <1>2 DEF HolderIn

LEMMA NoHolder ==
  ASSUME NEW h, NEW k, \A b \in Backends : h[b] # NoRequest => LockKey(h[b]) # k
  PROVE  HolderIn(h, k) = NoRequest
BY DEF HolderIn

(* One session's lock changes: nobody else's key does. *)
LEMMA OtherHolders ==
  ASSUME NEW h, NEW h2, OneEach(h), OneEach(h2), NEW b \in Backends, NEW k,
         \A a \in Backends \ {b} : h2[a] = h[a],
         h[b] # NoRequest => LockKey(h[b]) # k,
         h2[b] # NoRequest => LockKey(h2[b]) # k
  PROVE  HolderIn(h2, k) = HolderIn(h, k)
<1>1. CASE \E a \in Backends : h[a] # NoRequest /\ LockKey(h[a]) = k
  <2>1. PICK a \in Backends : h[a] # NoRequest /\ LockKey(h[a]) = k
    BY <1>1
  <2>2. a # b /\ h2[a] = h[a]
    BY <2>1
  <2>3. HolderIn(h, k) = h[a] /\ HolderIn(h2, k) = h2[a]
    BY <2>1, <2>2, HolderIs
  <2>4. QED
    BY <2>2, <2>3
<1>2. CASE \A a \in Backends : h[a] # NoRequest => LockKey(h[a]) # k
  <2>1. \A a \in Backends : h2[a] # NoRequest => LockKey(h2[a]) # k
    BY <1>2
  <2>2. QED
    BY <1>2, <2>1, NoHolder
<1>3. QED
  BY <1>1, <1>2

(* A session gets a lock that was free. *)
LEMMA HolderTakes ==
  ASSUME NEW h, NEW h2, OneEach(h), OneEach(h2), NEW b \in Backends,
         \A a \in Backends \ {b} : h2[a] = h[a],
         h[b] = NoRequest, NEW r \in Requests, h2[b] = r
  PROVE  /\ HolderIn(h, LockKey(r)) = NoRequest
         /\ Holders(h2) = [Holders(h) EXCEPT ![LockKey(r)] = r]
<1>1. r # NoRequest
  BY SessionAssumption
<1>2. \A a \in Backends : h[a] # NoRequest => LockKey(h[a]) # LockKey(r)
  BY <1>1 DEF OneEach
<1>3. HolderIn(h, LockKey(r)) = NoRequest
  BY <1>2, NoHolder
<1>4. HolderIn(h2, LockKey(r)) = r
  BY <1>1, HolderIs
<1>5. ASSUME NEW k \in LockKeys, k # LockKey(r) PROVE HolderIn(h2, k) = HolderIn(h, k)
  BY <1>5, OtherHolders
<1>6. QED
  BY <1>3, <1>4, <1>5 DEF Holders

(* A session's lock is gone. *)
LEMMA HolderLeaves ==
  ASSUME NEW h, NEW h2, OneEach(h), OneEach(h2), NEW b \in Backends,
         \A a \in Backends \ {b} : h2[a] = h[a],
         NEW r \in Requests, h[b] = r, h2[b] = NoRequest
  PROVE  /\ HolderIn(h, LockKey(r)) = r
         /\ Holders(h2) = [Holders(h) EXCEPT ![LockKey(r)] = NoRequest]
<1>1. r # NoRequest
  BY SessionAssumption
<1>2. HolderIn(h, LockKey(r)) = r
  BY <1>1, HolderIs
<1>3. \A a \in Backends : h2[a] # NoRequest => LockKey(h2[a]) # LockKey(r)
  BY <1>1 DEF OneEach
<1>4. HolderIn(h2, LockKey(r)) = NoRequest
  BY <1>3, NoHolder
<1>5. ASSUME NEW k \in LockKeys, k # LockKey(r) PROVE HolderIn(h2, k) = HolderIn(h, k)
  BY <1>5, OtherHolders
<1>6. QED
  BY <1>2, <1>4, <1>5 DEF Holders

-----------------------------------------------------------------------------
(* The abstract library's terms are this module's. *)

LEMMA SameTerms ==
  /\ Promise!Requests = Requests
  /\ Promise!Items = Items
  /\ Promise!Outcomes = Outcomes
  /\ Promise!NotStored = NotStored
  /\ Promise!Library = Library
  /\ \A r : Promise!LockKey(r) = LockKey(r)
  /\ \A item : Promise!KeysOf(item) = KeysOf(item)
  /\ \A item : Promise!OwnerOfItem(item) = OwnerOfItem(item)
<1>1. Promise!Requests = Requests
  BY DEF Promise!Requests, Requests
<1>2. Promise!Items = Items
  BY <1>1 DEF Promise!Items, Items, Promise!NumRows, NumRows
<1>3. Promise!Outcomes = Outcomes /\ Promise!NotStored = NotStored /\ Promise!Library = Library
  BY DEF Promise!Outcomes, Outcomes, Promise!NotStored, NotStored, Promise!Library, Library
<1>4. \A r : Promise!LockKey(r) = LockKey(r)
  BY DEF Promise!LockKey, LockKey
<1>5. \A item : Promise!KeysOf(item) = KeysOf(item)
  BY DEF Promise!KeysOf, KeysOf
<1>6. \A item : Promise!OwnerOfItem(item) = OwnerOfItem(item)
  BY DEF Promise!OwnerOfItem, OwnerOfItem
<1>7. QED
  BY <1>1, <1>2, <1>3, <1>4, <1>5, <1>6

LEMMA SameOwnedKeys ==
  ASSUME NEW items, NEW owner
  PROVE  Promise!OwnedKeys(items, owner) = OwnedKeys(items, owner)
BY DEF Promise!OwnedKeys, OwnedKeys, Promise!KeysOf, KeysOf, Promise!OwnerOfItem, OwnerOfItem

LEMMA PromiseHolder ==
  /\ [k \in LockKeys |-> HolderOf(k)] = Holders(held)
  /\ [k \in LockKeys |-> HolderOf(k)]' = Holders(held')
BY DEF HolderOf, Holders, HolderIn

-----------------------------------------------------------------------------
(* What the server does, as the abstract library sees it. *)

LEMMA KeyOfRequest ==
  ASSUME NEW r \in Requests
  PROVE  LockKey(r) \in LockKeys /\ r # NoRequest
BY RequestsAssumption, SessionAssumption DEF LockKey

(* The lock is granted. *)
LEMMA TakesHolder ==
  ASSUME OneEach(held), OneEach(held'), NEW b \in Backends, NEW r \in Requests,
         \A a \in Backends \ {b} : held'[a] = held[a],
         held[b] = NoRequest, held'[b] = r, UNCHANGED <<saved, deleted, outcome>>
  PROVE  Promise!Take(r)
<1>1. /\ HolderIn(held, LockKey(r)) = NoRequest
      /\ Holders(held') = [Holders(held) EXCEPT ![LockKey(r)] = r]
  BY HolderTakes
<1>2. Holders(held)[LockKey(r)] = NoRequest
  BY <1>1, KeyOfRequest DEF Holders
<1>3. QED
  BY <1>1, <1>2, SameTerms, PromiseHolder DEF Promise!Take

(* A lock is let go, or a session without one ends. *)
LEMMA LosesHolder ==
  ASSUME OneEach(held), OneEach(held'), NEW b \in Backends,
         \A a \in Backends \ {b} : held'[a] = held[a],
         held[b] \in Requests \union {NoRequest}, held'[b] = NoRequest,
         held' \in [Backends -> Requests \union {NoRequest}],
         held \in [Backends -> Requests \union {NoRequest}],
         UNCHANGED <<saved, deleted, outcome>>
  PROVE  Promise!Next \/ UNCHANGED Promise!vars
<1>1. CASE held[b] = NoRequest
  <2>1. held' = held
    BY <1>1
  <2>2. Holders(held') = Holders(held)
    BY <2>1
  <2>3. QED
    BY <2>2, PromiseHolder DEF Promise!vars
<1>2. CASE held[b] \in Requests
  <2>1. PICK r \in Requests : held[b] = r
    BY <1>2
  <2>2. /\ HolderIn(held, LockKey(r)) = r
        /\ Holders(held') = [Holders(held) EXCEPT ![LockKey(r)] = NoRequest]
    BY <2>1, HolderLeaves
  <2>3. Holders(held)[LockKey(r)] # NoRequest
    BY <2>2, KeyOfRequest DEF Holders
  <2>4. Promise!Release(LockKey(r))
    BY <2>2, <2>3, PromiseHolder DEF Promise!Release
  <2>5. QED
    BY <2>4, KeyOfRequest DEF Promise!Next
<1>3. QED
  BY <1>1, <1>2

(* A statement that may store an item is of one OwnerLibrary lets be saved. *)
LEMMA MaySave ==
  ASSUME Inductive, Reports, NEW b \in Backends, CanSave(b),
         NEW item, item = ItemOf(stmt[b])
  PROVE  /\ item \in Items \ saved
         /\ item[1] \in Requests /\ held[b] = item[1] /\ stmt[b].by = item[1]
         /\ outcome[item] \in {"pending", "interrupted"}
         /\ item[1] \in Imports =>
              /\ KeysOf(item) # {}
              /\ KeysOf(item) \intersect OwnedKeys(Library, OwnerOfItem(item)) = {}
              /\ \A other \in saved : other[1] = item[1] => other[2] < item[2]
<1>1. /\ item \in Items /\ item = <<stmt[b].by, stmt[b].row>> /\ stmt[b].by \in Requests
      /\ item[1] = stmt[b].by /\ item[2] = stmt[b].row /\ held[b] = item[1]
      /\ stmt[b].op = "insert" <=> stmt[b].by \in Imports
      /\ stmt[b].row \in 1 .. NumRows(stmt[b].by)
  BY SaveBy
<1>2. SaveOK(b) /\ PendingOK(b) /\ TrueOf(item, outcome[item]) /\ outcome[item] \in Outcomes
  BY <1>1 DEF Inductive, Reports, TypeOK
<1>3. item \notin saved
  <2>1. CASE stmt[b].op = "commit"
    BY <1>2, <2>1 DEF SaveOK
  <2>2. CASE stmt[b].op = "insert"
    <3>1. item \in saved => item[2] < item[2]
      BY <1>1, <1>2, <2>2 DEF SaveOK
    <3>2. item[2] \in Nat
      BY <1>1, RowsOfRequest
    <3>3. QED
      BY <3>1, <3>2
  <2>3. QED
    BY <2>1, <2>2 DEF CanSave
<1>4. outcome[item] \notin NotStored
  BY <1>2 DEF TrueOf, NeverStored
<1>5. outcome[item] \in {"pending", "interrupted"}
  BY <1>2, <1>3, <1>4 DEF TrueOf, Outcomes, NotStored
<1>6. item[1] \in Imports =>
        /\ KeysOf(item) # {}
        /\ KeysOf(item) \intersect OwnedKeys(Library, OwnerOfItem(item)) = {}
        /\ \A other \in saved : other[1] = item[1] => other[2] < item[2]
  BY <1>1, <1>2 DEF SaveOK, PendingOK, CanSave, OwnerOfItem
<1>7. QED
  BY <1>1, <1>3, <1>5, <1>6

(* An import's INSERT stores its row. *)
LEMMA InsertSaves ==
  ASSUME Inductive, Reports, NEW b \in Backends, CanSave(b), stmt[b].op = "insert",
         saved' = saved \union {ItemOf(stmt[b])}, UNCHANGED <<held, deleted, outcome>>
  PROVE  \E item \in Items : Promise!Save(item)
<1>1. PICK item \in Items : item = ItemOf(stmt[b])
  BY SaveBy
<1>2. /\ item \notin saved
      /\ item[1] \in Requests /\ held[b] = item[1] /\ item[1] \in Imports
      /\ outcome[item] \in {"pending", "interrupted"}
      /\ KeysOf(item) # {}
      /\ KeysOf(item) \intersect OwnedKeys(Library, OwnerOfItem(item)) = {}
      /\ \A other \in saved : other[1] = item[1] => other[2] < item[2]
  BY <1>1, MaySave, SaveBy
<1>3. Holders(held') = Holders(held)
  OBVIOUS
<1>4. Holders(held)[LockKey(item[1])] = item[1]
  <2>1. OneEach(held)
    BY DEF Inductive, Exclusive, OneEach
  <2>2. HolderIn(held, LockKey(item[1])) = item[1]
    BY <1>2, <2>1, KeyOfRequest, HolderIs
  <2>3. QED
    BY <1>2, <2>2, KeyOfRequest DEF Holders
<1>5. Promise!Save(item)
  BY <1>1, <1>2, <1>3, <1>4, SameTerms, SameOwnedKeys, PromiseHolder DEF Promise!Save
<1>6. QED
  BY <1>5

(* A create's COMMIT stores its item and lets its lock go. *)
LEMMA CommitSaves ==
  ASSUME Inductive, Reports, OneEach(held'), NEW b \in Backends, CanSave(b),
         stmt[b].op = "commit", \A a \in Backends \ {b} : held'[a] = held[a],
         held'[b] = NoRequest,
         saved' = saved \union {ItemOf(stmt[b])}, UNCHANGED <<deleted, outcome>>
  PROVE  \E item \in Items : Promise!Save(item)
<1>1. PICK item \in Items : item = ItemOf(stmt[b])
  BY SaveBy
<1>2. /\ item \notin saved
      /\ item[1] \in Requests /\ held[b] = item[1] /\ item[1] \in Creates
      /\ outcome[item] \in {"pending", "interrupted"}
  BY <1>1, MaySave, SaveBy, Kinds
<1>3. OneEach(held)
  BY DEF Inductive, Exclusive, OneEach
<1>4. /\ HolderIn(held, LockKey(item[1])) = item[1]
      /\ Holders(held') = [Holders(held) EXCEPT ![LockKey(item[1])] = NoRequest]
  BY <1>2, <1>3, HolderLeaves
<1>5. Holders(held)[LockKey(item[1])] = item[1]
  BY <1>2, <1>4, KeyOfRequest DEF Holders
<1>6. Promise!Save(item)
  BY <1>1, <1>2, <1>4, <1>5, SameTerms, PromiseHolder DEF Promise!Save
<1>7. QED
  BY <1>6

LEMMA ServerImplements ==
  ASSUME Inductive, Reports, Inductive', NEW b \in Backends, Server(b)
  PROVE  Promise!Next \/ UNCHANGED Promise!vars
<1> USE DEF rowVars
<1>1. /\ OneEach(held) /\ OneEach(held')
      /\ held \in [Backends -> Requests \union {NoRequest}]
      /\ held' \in [Backends -> Requests \union {NoRequest}]
  BY DEF Inductive, Exclusive, OneEach, TypeOK
<1>2. CASE EndSession(b)
  <2>1. /\ held'[b] = NoRequest /\ \A a \in Backends \ {b} : held'[a] = held[a]
        /\ UNCHANGED <<saved, deleted, outcome>>
    BY <1>1, <1>2 DEF EndSession, SessionGone, Server, storeVars
  <2>2. QED
    BY <1>1, <2>1, LosesHolder
<1>3. CASE Exec(b)
  <2>1. UNCHANGED <<deleted, outcome>>
    BY <1>3 DEF Exec, Server, EndSession, storeVars
  <2>2. CASE UNCHANGED <<held, saved>>
    <3>1. Holders(held') = Holders(held)
      BY <2>2
    <3>2. QED
      BY <2>1, <2>2, <3>1, PromiseHolder DEF Promise!vars
  <2>3. CASE ExecTryLock(b) /\ held' = [held EXCEPT ![b] = stmt[b].by]
    <3>1. /\ live[b] /\ stmt[b].op = "trylock" /\ reply[b] = "none" /\ saved' = saved
          /\ HeldOK(b)
      BY <2>3 DEF ExecTryLock, Waiting, Inductive
    <3>2. held[b] = NoRequest /\ stmt[b].by \in Requests
      BY <3>1 DEF HeldOK
    <3>3. held'[b] = stmt[b].by /\ \A a \in Backends \ {b} : held'[a] = held[a]
      BY <1>1, <2>3
    <3>4. Promise!Take(stmt[b].by)
      BY <1>1, <2>1, <3>1, <3>2, <3>3, TakesHolder
    <3>5. QED
      BY <3>2, <3>4, SameTerms DEF Promise!Next
  <2>4. CASE ExecInsert(b) /\ saved' = saved \union {ItemOf(stmt[b])}
    <3>1. CanSave(b) /\ stmt[b].op = "insert" /\ held' = held
      BY <2>4 DEF ExecInsert, Waiting, CanSave
    <3>2. \E item \in Items : Promise!Save(item)
      BY <2>1, <2>4, <3>1, InsertSaves
    <3>3. QED
      BY <3>2, SameTerms DEF Promise!Next
  <2>5. CASE ExecCommit(b) /\ saved' = saved \union {ItemOf(stmt[b])}
    <3>1. /\ CanSave(b) /\ stmt[b].op = "commit"
          /\ held'[b] = NoRequest /\ \A a \in Backends \ {b} : held'[a] = held[a]
      BY <1>1, <2>5 DEF ExecCommit, Waiting, CanSave
    <3>2. \E item \in Items : Promise!Save(item)
      BY <1>1, <2>1, <2>5, <3>1, CommitSaves
    <3>3. QED
      BY <3>2, SameTerms DEF Promise!Next
  <2>6. CASE saved' = saved /\ held' = [held EXCEPT ![b] = NoRequest]
    <3>1. held'[b] = NoRequest /\ \A a \in Backends \ {b} : held'[a] = held[a]
      BY <1>1, <2>6
    <3>2. QED
      BY <1>1, <2>1, <2>6, <3>1, LosesHolder
  <2>7. QED
    BY <1>3, <2>2, <2>3, <2>4, <2>5, <2>6
       DEF Exec, ExecTryLock, ExecList, ExecInsert, ExecTxInsert, ExecCommit, ExecRelease
<1>4. QED
  BY <1>2, <1>3 DEF Server

LEMMA EnvironmentImplements ==
  ASSUME Inductive, Inductive', Environment, UNCHANGED rowVars
  PROVE  Promise!Next \/ UNCHANGED Promise!vars
<1> USE DEF rowVars, sessionVars, storeVars
<1>1. ASSUME NEW r \in MayEnd, CtxEnds(r) PROVE UNCHANGED <<held, saved, deleted>>
  BY <1>1 DEF CtxEnds
<1>2. ASSUME NEW b \in Backends, CloseIdle(b) PROVE UNCHANGED <<held, saved, deleted>>
  BY <1>2 DEF CloseIdle
<1>3. ASSUME NEW rep \in Replicas, Crash(rep) PROVE UNCHANGED <<held, saved, deleted>>
  BY <1>3 DEF Crash
<1>4. ASSUME UNCHANGED <<held, saved, deleted>> PROVE UNCHANGED Promise!vars
  <2>1. Holders(held') = Holders(held)
    BY <1>4
  <2>2. QED
    BY <1>4, <2>1, PromiseHolder DEF Promise!vars
<1>5. ASSUME NEW b \in Backends, KillSession(b)
      PROVE  Promise!Next \/ UNCHANGED Promise!vars
  <2>1. /\ OneEach(held) /\ OneEach(held')
        /\ held \in [Backends -> Requests \union {NoRequest}]
        /\ held' \in [Backends -> Requests \union {NoRequest}]
    BY DEF Inductive, Exclusive, OneEach, TypeOK
  <2>2. /\ held'[b] = NoRequest /\ \A a \in Backends \ {b} : held'[a] = held[a]
        /\ UNCHANGED <<saved, deleted, outcome>>
    BY <1>5, <2>1 DEF KillSession, SessionGone
  <2>3. QED
    BY <2>1, <2>2, LosesHolder
<1>6. ASSUME NEW item \in Deletable, Delete(item) PROVE Promise!Next
  <2>1. item \in Library /\ UNCHANGED <<held, saved, outcome>> /\ deleted' = deleted \union {item}
    BY <1>6 DEF Delete
  <2>2. Holders(held') = Holders(held)
    BY <2>1
  <2>3. Promise!Delete(item)
    BY <2>1, <2>2, SameTerms, PromiseHolder DEF Promise!Delete
  <2>4. item \in Promise!Items
    BY DeletableAssumption, SameTerms
  <2>5. QED
    BY <2>3, <2>4 DEF Promise!Next
<1>7. QED
  BY <1>1, <1>2, <1>3, <1>4, <1>5, <1>6 DEF Environment

-----------------------------------------------------------------------------
(* What a request does, as the abstract library sees it. *)

(* A step of a request changes at most what it reports, of rows not yet
   reported on. *)
Tells(r) ==
  \A item \in Items : outcome'[item] # outcome[item] =>
    item[1] = r /\ outcome[item] = "pending"

LEMMA DecideTells ==
  ASSUME TypeOK, NEW r \in Requests, NEW row \in 1 .. NumRows(r), NEW status,
         Decide(r, row, status), Outcome(r, row) = "pending"
  PROVE  Tells(r)
<1>1. <<r, row>> \in Items
  BY ItemOfRow
<1>2. \A item \in Items : outcome'[item] = IF item = <<r, row>> THEN status ELSE outcome[item]
  BY <1>1 DEF Decide, TypeOK
<1>3. QED
  BY <1>1, <1>2, ItemParts DEF Tells, Outcome

LEMMA RestTells ==
  ASSUME NEW r \in Requests, NEW row \in Nat, NEW status, DecideRest(r, row, status),
         \A i \in 1 .. NumRows(r) : i >= row => Outcome(r, i) = "pending"
  PROVE  Tells(r)
<1>1. ASSUME NEW item \in Items, outcome'[item] # outcome[item]
      PROVE  item[1] = r /\ outcome[item] = "pending"
  <2>1. item[1] = r /\ (item[2] = row \/ item[2] > row)
    BY <1>1 DEF DecideRest
  <2>2. item = <<r, item[2]>> /\ item[2] \in 1 .. NumRows(r)
    BY <2>1, ItemParts
  <2>3. item[2] >= row
    BY <2>1, <2>2, RowsOfRequest
  <2>4. QED
    BY <2>1, <2>2, <2>3 DEF Outcome
<1>2. QED
  BY <1>1 DEF Tells

LEMMA NothingSavedTells ==
  ASSUME Inductive, Reports, NEW r \in Requests, NothingSaved(r),
         pc[r] \in {"connect", "lock", "backoff", "list"}
  PROVE  Tells(r)
<1>1. AllPending(r) /\ TypeOK
  <2>1. pc[r] = "list" => r \in Imports
    BY DEF Inductive, ConnOK
  <2>2. QED
    BY <2>1, Kinds DEF Inductive, Reports, RowsDecided, ItemDecided
<1>2. PICK row \in 1 .. NumRows(r) : row = 1
  BY RowsOfRequest
<1>3. row \in Nat
  BY RowsOfRequest
<1>4. \/ \E status \in Outcomes : Decide(r, row, status) \/ DecideRest(r, row, status)
      \/ outcome' = outcome
  BY <1>2 DEF NothingSaved, Outcomes
<1>5. ASSUME NEW status, Decide(r, row, status) PROVE Tells(r)
  BY <1>1, <1>5, DecideTells DEF AllPending
<1>6. ASSUME NEW status, DecideRest(r, row, status) PROVE Tells(r)
  BY <1>1, <1>3, <1>6, RestTells DEF AllPending
<1>7. outcome' = outcome => Tells(r)
  BY DEF Tells
<1>8. QED
  BY <1>4, <1>5, <1>6, <1>7

LEMMA RowTells ==
  ASSUME Inductive, Reports, NEW r \in Imports, pc[r] \in {"row", "insert"},
         \E status \in Outcomes :
           \/ next[r] <= NumRows(r) /\ Decide(r, next[r], status)
           \/ DecideRest(r, next[r], status)
  PROVE  Tells(r)
<1>1. r \in Requests /\ TypeOK /\ next[r] \in Nat \ {0} /\ RowsDecided(r)
  BY Kinds DEF Inductive, TypeOK, Reports
<1>2. \A i \in 1 .. NumRows(r) : i >= next[r] => Outcome(r, i) = "pending"
  BY <1>1, RowsOfRequest DEF RowsDecided
<1>3. PICK status \in Outcomes :
        \/ next[r] <= NumRows(r) /\ Decide(r, next[r], status)
        \/ DecideRest(r, next[r], status)
  OBVIOUS
<1>4. CASE DecideRest(r, next[r], status)
  BY <1>1, <1>2, <1>4, RestTells
<1>5. CASE next[r] <= NumRows(r) /\ Decide(r, next[r], status)
  <2>1. next[r] \in 1 .. NumRows(r) /\ Outcome(r, next[r]) = "pending"
    BY <1>1, <1>2, <1>5, RowsOfRequest
  <2>2. QED
    BY <1>1, <1>5, <2>1, DecideTells
<1>6. QED
  BY <1>3, <1>4, <1>5

(* A create decides its item where it is still pending. *)
LEMMA ItemTells ==
  ASSUME Inductive, Reports, NEW r \in Creates, TxInserted(r) \/ RolledBack(r) \/ Committed(r)
  PROVE  Tells(r)
<1>1. r \in Requests /\ TypeOK /\ ItemDecided(r)
  BY Kinds DEF Inductive, Reports
<1>2. PICK row \in 1 .. NumRows(r) : row = 1
  BY <1>1, RowsOfRequest
<1>3. CASE outcome' = outcome
  BY <1>3 DEF Tells
<1>4. CASE pc[r] \in {"txinsert", "commit"} /\ \E status \in Outcomes : Decide(r, row, status)
  <2>1. Outcome(r, row) = "pending"
    BY <1>1, <1>4 DEF ItemDecided, AllPending
  <2>2. QED
    BY <1>1, <1>4, <2>1, DecideTells
<1>5. QED
  BY <1>2, <1>3, <1>4 DEF TxInserted, RolledBack, Committed, rowVars, Outcomes

LEMMA StepTells ==
  ASSUME Inductive, Reports, NEW r \in Requests, Arrive(r) \/ Connect(r) \/ Step(r)
  PROVE  Tells(r)
<1>1. outcome' = outcome => Tells(r)
  BY DEF Tells
<1>2. CASE Arrive(r) \/ Connect(r) \/ LockGranted(r) \/ Session(r)
  BY <1>1, <1>2 DEF Arrive, Connect, LockGranted, Session, rowVars
<1>3. CASE ConnectFails(r) \/ LockFails(r) \/ GiveUp(r)
  BY <1>3, NothingSavedTells DEF ConnectFails, LockFails, GiveUp
<1>4. CASE Commit(r)
  <2>1. CASE Listed(r)
    BY <1>1, <2>1, NothingSavedTells DEF Listed
  <2>2. CASE RefuseRow(r) \/ SkipRow(r)
    BY <1>4, <2>2, RowTells DEF Commit, RefuseRow, SkipRow, AtRow, Outcomes
  <2>3. CASE InsertRow(r)
    BY <1>1, <2>3 DEF InsertRow, rowVars
  <2>4. CASE RowAnswered(r)
    <3>1. next[r] <= NumRows(r)
      BY <1>4, <2>4 DEF Commit, RowAnswered, Reports, RowsDecided
    <3>2. QED
      BY <1>4, <2>4, <3>1, RowTells DEF Commit, RowAnswered, Outcomes
  <2>5. CASE RowUnknown(r)
    BY <1>4, <2>5, RowTells DEF Commit, RowUnknown, Outcomes
  <2>6. CASE EndRows(r)
    BY <1>1, <1>4, <2>6, RowTells DEF Commit, EndRows, Outcomes
  <2>7. QED
    BY <1>4, <2>1, <2>2, <2>3, <2>4, <2>5, <2>6 DEF Commit
<1>5. CASE Create(r)
  BY <1>5, ItemTells DEF Create
<1>6. QED
  BY <1>2, <1>3, <1>4, <1>5 DEF Step

(* A request stores nothing and takes no lock by itself. *)
LEMMA StepKeeps ==
  ASSUME NEW r \in Requests, Arrive(r) \/ Connect(r) \/ Step(r)
  PROVE  UNCHANGED <<held, saved, deleted>>
<1> USE DEF sessionVars, storeVars
<1>1. CASE Arrive(r) \/ Connect(r)
  BY <1>1 DEF Arrive, Connect, TakeConn
<1>2. CASE ConnectFails(r) \/ LockGranted(r) \/ LockFails(r) \/ GiveUp(r)
  BY <1>2 DEF ConnectFails, LockGranted, LockFails, GiveUp, DiscardConn
<1>3. CASE Session(r)
  BY <1>3 DEF Session, LockBusy, Retry, Close, ReturnConn, DiscardConn
<1>4. CASE Commit(r)
  BY <1>4 DEF Commit, Listed, RefuseRow, SkipRow, InsertRow, RowAnswered, RowUnknown, EndRows,
              CloseBroken, DiscardConn
<1>5. CASE Create(r)
  BY <1>5 DEF Create, TxInserted, RolledBack, Committed, ReturnConn, DiscardConn
<1>6. QED
  BY <1>1, <1>2, <1>3, <1>4, <1>5 DEF Step

LEMMA RequestImplements ==
  ASSUME Inductive, Reports, Inductive', Reports', NEW r \in Requests,
         Arrive(r) \/ Connect(r) \/ Step(r)
  PROVE  Promise!Next \/ UNCHANGED Promise!vars
<1>1. Tells(r) /\ UNCHANGED <<held, saved, deleted>>
  BY StepTells, StepKeeps
<1>2. Holders(held') = Holders(held)
  BY <1>1
<1>3. outcome' \in [Items -> Outcomes]
  BY DEF Inductive, TypeOK
<1>4. ASSUME NEW item \in Items
      PROVE  /\ outcome'[item] = "added" => item \in saved
             /\ outcome'[item] \in NotStored => item \notin saved
  <2>1. TrueOf(item, outcome[item])'
    BY <1>4 DEF Reports
  <2>2. QED
    BY <1>1, <2>1 DEF TrueOf, NeverStored
<1>5. Promise!Report(r)
  BY <1>1, <1>2, <1>3, <1>4, SameTerms, PromiseHolder DEF Promise!Report, Tells
<1>6. QED
  BY <1>5, SameTerms DEF Promise!Next

LEMMA StepImplements ==
  ASSUME Inductive, Reports, Inductive', Reports', [Next]_vars
  PROVE  [Promise!Next]_(Promise!vars)
<1>1. CASE UNCHANGED vars
  <2>1. UNCHANGED <<held, saved, deleted, outcome>>
    BY <1>1 DEF vars, sessionVars, storeVars
  <2>2. Holders(held') = Holders(held)
    BY <2>1
  <2>3. QED
    BY <2>1, <2>2, PromiseHolder DEF Promise!vars
<1>2. CASE \E r \in Requests : Arrive(r) \/ Connect(r) \/ Step(r)
  BY <1>2, RequestImplements
<1>3. CASE \E b \in Backends : Server(b)
  BY <1>3, ServerImplements
<1>4. CASE Environment /\ UNCHANGED rowVars
  BY <1>4, EnvironmentImplements
<1>5. QED
  BY <1>1, <1>2, <1>3, <1>4 DEF Next, Quiet

LEMMA InitImplements ==
  ASSUME Init
  PROVE  Promise!Init
<1>1. saved = {} /\ deleted = {} /\ outcome = [item \in Items |-> "pending"]
  BY DEF Init, SessionInit
<1>2. \A k : HolderIn(held, k) = NoRequest
  BY NoHolder DEF Init, SessionInit
<1>3. Holders(held) = [k \in LockKeys |-> NoRequest]
  BY <1>2 DEF Holders
<1>4. QED
  BY <1>1, <1>3, SameTerms, PromiseHolder DEF Promise!Init

(***************************************************************************)
(* The code implements the abstract library: whatever connections are      *)
(* lost, sessions killed, contexts ended and replicas crashed, and however *)
(* many requests, rows and replicas there are, inserts of an owner happen  *)
(* as if under one exclusive right, no import saves what the library has,  *)
(* and each row is reported truthfully and once (items/import_batch.go     *)
(* 20-42, importer/commit.go 106-184).                                     *)
(***************************************************************************)
THEOREM CommitsImplementTheLibrary == Spec => ImplementsOwnerLibrary
<1>1. Init => Promise!Init
  BY InitImplements
<1>2. Inductive /\ Reports /\ Inductive' /\ Reports' /\ [Next]_vars
        => [Promise!Next]_(Promise!vars)
  BY StepImplements
<1>3. QED
  BY <1>1, <1>2, InductiveHolds, ReportsHold, PTL DEF Spec, Promise!Spec, ImplementsOwnerLibrary

=============================================================================
