---------------------------- MODULE ImportCommit ----------------------------
(***************************************************************************)
(* Reviewed-import commits (importer/commit.go) and plain creates          *)
(* (items.Service.Create, items/postgres_repository.go) inserting items    *)
(* side by side, on several API replicas, under the owner insert lock of   *)
(* InsertSession.  The in-memory duplicate tracker (importer/duplicates.go)*)
(* is the set of keys it knows.                                            *)
(***************************************************************************)
EXTENDS InsertSession

CONSTANT Deletable   \* items another request may delete; bounds Delete

ASSUME DeletableAssumption == Deletable \subseteq Items

VARIABLES
  next,      \* the row each import is at
  outcome    \* what has been decided of each row

vars == <<pc, ctxEnded, poolVars, sessionVars, stmtVars, storeVars, faults, next, outcome>>

rowVars == <<next, outcome>>

-----------------------------------------------------------------------------
(* Outcomes. *)

Decide(r, row, status) ==
  outcome' = [outcome EXCEPT ![<<r, row>>] = status]

(* The row gets its status and every later one is left unprocessed. *)
DecideRest(r, row, status) ==
  outcome' = [item \in Items |->
                CASE item[1] = r /\ item[2] = row -> status
                  [] item[1] = r /\ item[2] > row -> "unprocessed"
                  [] OTHER -> outcome[item]]

(***************************************************************************)
(* The request ends before it stored anything: a commit whose context      *)
(* ended reports every row unprocessed, any other one returns the error    *)
(* and no rows; a create returns the error.                                *)
(***************************************************************************)
NothingSaved(r) ==
  CASE r \in Creates -> Decide(r, 1, "failed")
    [] r \in Imports /\ ctxEnded[r] -> DecideRest(r, 1, "unprocessed")
    [] OTHER -> UNCHANGED outcome

-----------------------------------------------------------------------------
(* Getting the owner's insert right. *)

Arrive(r) ==
  /\ pc[r] = "start"
  /\ pc' = [pc EXCEPT ![r] = "connect"]
  /\ UNCHANGED <<ctxEnded, poolVars, sessionVars, stmtVars, storeVars, faults, rowVars>>

(* The pool gives no connection before the context ends, or cannot open one. *)
ConnectFails(r) ==
  /\ pc[r] = "connect"
  /\ \/ ctxEnded[r] /\ UNCHANGED faults
     \/ faults < MaxFaults /\ faults' = faults + 1
  /\ NothingSaved(r)
  /\ pc' = [pc EXCEPT ![r] = "done"]
  /\ UNCHANGED <<ctxEnded, poolVars, sessionVars, stmtVars, storeVars, next>>

(* The lock is granted: a commit reads the library, a create inserts. *)
LockGranted(r) ==
  /\ pc[r] = "lock"
  /\ Answered(r, {"granted"})
  /\ \/ r \in Imports /\ Send(r, "list", 0) /\ pc' = [pc EXCEPT ![r] = "list"]
     \/ r \in Creates /\ Send(r, "txinsert", 1) /\ pc' = [pc EXCEPT ![r] = "txinsert"]
  /\ UNCHANGED <<ctxEnded, poolVars, sessionVars, storeVars, faults, rowVars>>

(* No clear answer to the lock request: the connection is discarded. *)
LockFails(r) ==
  /\ pc[r] = "lock"
  /\ \/ Answered(r, {"error"}) /\ UNCHANGED faults
     \/ AnswerLost(r)
  /\ DiscardConn(r)
  /\ NothingSaved(r)
  /\ pc' = [pc EXCEPT ![r] = "done"]
  /\ UNCHANGED <<ctxEnded, storeVars, next>>

(* The context ends while the request waits between attempts. *)
GiveUp(r) ==
  /\ pc[r] = "backoff"
  /\ ctxEnded[r]
  /\ NothingSaved(r)
  /\ pc' = [pc EXCEPT ![r] = "done"]
  /\ UNCHANGED <<ctxEnded, poolVars, sessionVars, stmtVars, storeVars, faults, next>>

-----------------------------------------------------------------------------
(* A reviewed-import commit. *)

(* The deferred Close: ask the session to release the lock. *)
BeginClose(r) ==
  /\ Send(r, "unlock", 0)
  /\ pc' = [pc EXCEPT ![r] = "close"]

(* Close on a connection that already failed discards it at once. *)
CloseBroken(r) ==
  /\ DiscardConn(r)
  /\ pc' = [pc EXCEPT ![r] = "done"]
  /\ known' = [known EXCEPT ![r] = {}]

Listed(r) ==
  /\ pc[r] = "list"
  /\ \/ /\ Answered(r, {"ok"})
        /\ pc' = [pc EXCEPT ![r] = "row"]
        /\ UNCHANGED <<poolVars, sessionVars, stmtVars, storeVars, faults, outcome>>
     \/ /\ Answered(r, {"error"})
        /\ NothingSaved(r)
        /\ BeginClose(r)
        /\ UNCHANGED <<poolVars, sessionVars, storeVars, faults>>
     \/ /\ AnswerLost(r)
        /\ NothingSaved(r)
        /\ CloseBroken(r)
        /\ UNCHANGED <<saved, deleted>>
  /\ UNCHANGED <<ctxEnded, next>>

(* The loop over the rows, between two statements. *)
AtRow(r) ==
  /\ pc[r] = "row"
  /\ next[r] <= NumRows(r)
  /\ ~ctxEnded[r]

RowItem(r) == <<r, next[r]>>

(* A row its own validation refuses. *)
RefuseRow(r) ==
  /\ AtRow(r)
  /\ KeysOf(RowItem(r)) = {}
  /\ Decide(r, next[r], "failed")
  /\ next' = [next EXCEPT ![r] = @ + 1]
  /\ UNCHANGED <<pc, ctxEnded, poolVars, sessionVars, stmtVars, storeVars, faults>>

(* A row that shares a key with the library or an earlier row. *)
SkipRow(r) ==
  /\ AtRow(r)
  /\ KeysOf(RowItem(r)) \intersect known[r] # {}
  /\ Decide(r, next[r], "skipped")
  /\ next' = [next EXCEPT ![r] = @ + 1]
  /\ UNCHANGED <<pc, ctxEnded, poolVars, sessionVars, stmtVars, storeVars, faults>>

InsertRow(r) ==
  /\ AtRow(r)
  /\ KeysOf(RowItem(r)) # {}
  /\ KeysOf(RowItem(r)) \intersect known[r] = {}
  /\ Send(r, "insert", next[r])
  /\ pc' = [pc EXCEPT ![r] = "insert"]
  /\ UNCHANGED <<ctxEnded, poolVars, sessionVars, storeVars, faults, rowVars>>

(* Seeded fault: the tracker is told of a row before its save is known. *)
FailedRowRemembered(r) ==
  /\ pc[r] = "insert"
  /\ \/ Answered(r, {"ok"}) /\ Decide(r, next[r], "added")
     \/ Answered(r, {"error"}) /\ ~ctxEnded[r] /\ Decide(r, next[r], "failed")
  /\ known' = [known EXCEPT ![r] = @ \union KeysOf(RowItem(r))]
  /\ next' = [next EXCEPT ![r] = @ + 1]
  /\ pc' = [pc EXCEPT ![r] = "row"]
  /\ UNCHANGED <<ctxEnded, poolVars, sessionVars, stmtVars, saved, deleted, faults>>

(* The row is saved, or PostgreSQL says it is not: on to the next row. *)
RowAnswered(r) ==
  /\ pc[r] = "insert"
  /\ \/ /\ Answered(r, {"ok"})
        /\ Decide(r, next[r], "added")
        /\ known' = [known EXCEPT ![r] = @ \union KeysOf(RowItem(r))]
     \/ /\ Answered(r, {"error"})
        /\ ~ctxEnded[r]
        /\ Decide(r, next[r], "failed")
        /\ UNCHANGED known
  /\ next' = [next EXCEPT ![r] = @ + 1]
  /\ pc' = [pc EXCEPT ![r] = "row"]
  /\ UNCHANGED <<ctxEnded, poolVars, sessionVars, stmtVars, saved, deleted, faults>>

(* Seeded fault: the rows after the unconfirmed one are not reported. *)
RestForgotten(r) ==
  /\ pc[r] = "insert"
  /\ Decide(r, next[r], "interrupted")
  /\ \/ /\ Answered(r, {"fatal"})
        /\ BeginClose(r)
        /\ UNCHANGED <<poolVars, sessionVars, storeVars, faults>>
     \/ /\ AnswerLost(r)
        /\ CloseBroken(r)
        /\ UNCHANGED <<saved, deleted>>
  /\ UNCHANGED <<ctxEnded, next>>

(* The save cannot be confirmed either way: the commit stops at this row. *)
RowUnknown(r) ==
  /\ pc[r] = "insert"
  /\ DecideRest(r, next[r], "interrupted")
  /\ \/ /\ \/ Answered(r, {"fatal"})
           \/ Answered(r, {"error"}) /\ ctxEnded[r]
        /\ BeginClose(r)
        /\ UNCHANGED <<poolVars, sessionVars, storeVars, faults>>
     \/ /\ AnswerLost(r)
        /\ CloseBroken(r)
        /\ UNCHANGED <<saved, deleted>>
  /\ UNCHANGED <<ctxEnded, next>>

(* No row is left, or the context has ended: the rest is unprocessed. *)
EndRows(r) ==
  /\ pc[r] = "row"
  /\ \/ next[r] > NumRows(r) /\ UNCHANGED outcome
     \/ /\ next[r] <= NumRows(r)
        /\ ctxEnded[r]
        /\ DecideRest(r, next[r], "unprocessed")
  /\ BeginClose(r)
  /\ UNCHANGED <<ctxEnded, poolVars, sessionVars, storeVars, faults, next>>

-----------------------------------------------------------------------------
(* A plain create: one transaction that holds the lock until it ends. *)

(* The INSERT is answered: commit, or roll back and report the error. *)
TxInserted(r) ==
  /\ pc[r] = "txinsert"
  /\ \/ /\ Answered(r, {"ok"})
        /\ Send(r, "commit", 1)
        /\ pc' = [pc EXCEPT ![r] = "commit"]
        /\ UNCHANGED <<poolVars, sessionVars, faults, outcome>>
     \/ /\ Answered(r, {"error"})
        /\ Decide(r, 1, "failed")
        /\ Send(r, "rollback", 0)
        /\ pc' = [pc EXCEPT ![r] = "abort"]
        /\ UNCHANGED <<poolVars, sessionVars, faults>>
     \/ /\ AnswerLost(r)
        /\ Decide(r, 1, "failed")
        /\ DiscardConn(r)
        /\ pc' = [pc EXCEPT ![r] = "done"]
  /\ UNCHANGED <<ctxEnded, storeVars, next>>

(* The rollback ends: the create reports its error, or waits to try again. *)
RolledBack(r) ==
  /\ pc[r] = "abort"
  /\ \/ Answered(r, {"ok"}) /\ ReturnConn(r) /\ UNCHANGED faults
     \/ Answered(r, {"error"}) /\ DiscardConn(r) /\ UNCHANGED faults
     \/ AnswerLost(r) /\ DiscardConn(r)
  /\ pc' = [pc EXCEPT ![r] = IF outcome[<<r, 1>>] = "failed" THEN "done" ELSE "backoff"]
  /\ UNCHANGED <<ctxEnded, storeVars, rowVars>>

(* Seeded fault: any COMMIT without a good answer is reported as failed. *)
UnknownCommitIsFailed(r) ==
  /\ pc[r] = "commit"
  /\ \/ /\ Answered(r, {"ok"})
        /\ Decide(r, 1, "added")
        /\ ReturnConn(r)
        /\ UNCHANGED faults
     \/ /\ \/ Answered(r, {"error", "fatal"}) /\ UNCHANGED faults
           \/ AnswerLost(r)
        /\ Decide(r, 1, "failed")
        /\ DiscardConn(r)
  /\ pc' = [pc EXCEPT ![r] = "done"]
  /\ UNCHANGED <<ctxEnded, storeVars, next>>

(* The COMMIT is answered, or nobody knows what became of it. *)
Committed(r) ==
  /\ pc[r] = "commit"
  /\ \/ /\ Answered(r, {"ok"})
        /\ Decide(r, 1, "added")
        /\ ReturnConn(r)
        /\ UNCHANGED faults
     \/ /\ Answered(r, {"error"})
        /\ ~ctxEnded[r]
        /\ Decide(r, 1, "failed")
        /\ DiscardConn(r)
        /\ UNCHANGED faults
     \/ /\ \/ Answered(r, {"fatal"}) /\ UNCHANGED faults
           \/ Answered(r, {"error"}) /\ ctxEnded[r] /\ UNCHANGED faults
           \/ AnswerLost(r)
        /\ Decide(r, 1, "interrupted")
        /\ DiscardConn(r)
  /\ pc' = [pc EXCEPT ![r] = "done"]
  /\ UNCHANGED <<ctxEnded, storeVars, next>>

-----------------------------------------------------------------------------
Init ==
  /\ SessionInit
  /\ next = [r \in Requests |-> 1]
  /\ outcome = [item \in Items |-> "pending"]

(* What a request does by itself, once it has arrived. *)
Connect(r) == \E b \in Backends : TakeConn(r, b) /\ UNCHANGED rowVars

Session(r) ==
  \/ LockBusy(r) /\ UNCHANGED rowVars
  \/ Retry(r) /\ UNCHANGED rowVars
  \/ Close(r) /\ UNCHANGED rowVars

Commit(r) ==
  /\ r \in Imports
  /\ \/ Listed(r) \/ RefuseRow(r) \/ SkipRow(r) \/ InsertRow(r)
     \/ RowAnswered(r) \/ RowUnknown(r) \/ EndRows(r)

Create(r) ==
  /\ r \in Creates
  /\ TxInserted(r) \/ RolledBack(r) \/ Committed(r)

Step(r) ==
  \/ ConnectFails(r) \/ LockGranted(r) \/ LockFails(r) \/ GiveUp(r)
  \/ Session(r) \/ Commit(r) \/ Create(r)

Server(b) == (Exec(b) \/ EndSession(b)) /\ UNCHANGED rowVars

Environment ==
  \/ \E r \in MayEnd : CtxEnds(r)
  \/ \E b \in Backends : KillSession(b) \/ CloseIdle(b)
  \/ \E rep \in Replicas : Crash(rep)
  \/ \E item \in Deletable : Delete(item)

(* Every request has its answer, or died with its replica. *)
Quiet ==
  /\ \A r \in Requests : pc[r] \in {"done", "crashed"}
  /\ UNCHANGED vars

Next ==
  \/ \E r \in Requests : Arrive(r) \/ Connect(r) \/ Step(r)
  \/ \E b \in Backends : Server(b)
  \/ Environment /\ UNCHANGED rowVars
  \/ Quiet

Spec == Init /\ [][Next]_vars

(***************************************************************************)
(* Each goroutine runs on, the server runs what it is sent and notices a   *)
(* client that is gone.  A pool with a free connection serves every waiter *)
(* in the end, though its waiters compete.  No context need end, nothing   *)
(* need fail, and no request need arrive.                                  *)
(***************************************************************************)
Fairness ==
  /\ \A r \in Requests : SF_vars(Connect(r)) /\ WF_vars(Step(r))
  /\ \A b \in Backends : WF_vars(Server(b))

FairSpec == Spec /\ Fairness

-----------------------------------------------------------------------------
(* Every variable has its type. *)
PCs == {"start", "connect", "lock", "backoff", "abort", "list", "row", "insert",
        "close", "txinsert", "commit", "done", "crashed"}

Stmts == [op : Ops, by : Requests \union {NoRequest}, row : Nat]

TypeOK ==
  /\ pc \in [Requests -> PCs]
  /\ ctxEnded \in [Requests -> BOOLEAN]
  /\ conn \in [Requests -> Backends \union {NoBackend}]
  /\ client \in [Backends -> Replicas \union {NoReplica}]
  /\ live \in [Backends -> BOOLEAN]
  /\ stmt \in [Backends -> Stmts]
  /\ reply \in [Backends -> Replies]
  /\ held \in [Backends -> Requests \union {NoRequest}]
  /\ known \in [Requests -> SUBSET Keys]
  /\ saved \subseteq Items
  /\ deleted \subseteq saved
  /\ next \in [Requests -> Nat \ {0}]
  /\ outcome \in [Items -> Outcomes]
  /\ faults \in Nat

(***************************************************************************)
(* A connection that is back in the pool holds no lock and has no          *)
(* statement under way, however the request that used it ended: a lock     *)
(* granted in a failing attempt cannot leak into the pool                  *)
(* (postgres_insert_session.go 101-110, 129-149, 199-213).                 *)
(***************************************************************************)
PoolClean ==
  \A b \in Backends :
    client[b] # NoReplica /\ ~Lent(b) => held[b] = NoRequest /\ stmt[b].op = "none"

(***************************************************************************)
(* While a commit goes through its rows, its tracker knows every key of    *)
(* its owner's library, except those of the row it has just sent: nothing  *)
(* else can be inserted for the owner before the batch is closed, not even *)
(* by a statement still running for a request that gave up                 *)
(* (items/import_batch.go 29-31; importer/commit.go 169-184).              *)
(***************************************************************************)
SnapshotComplete ==
  \A r \in Imports :
    /\ pc[r] \in {"row", "insert"}
    /\ live[conn[r]]
    => \A item \in Library :
         /\ OwnerOfItem(item) = OwnerOf[r]
         /\ ~(KeysOf(item) \subseteq known[r])
         => pc[r] = "insert" /\ item = RowItem(r)

(***************************************************************************)
(* A commit never saves a row whose keys the owner's library has at the    *)
(* moment the row is stored, whoever stored them and whenever: overlapping *)
(* and repeated commits skip what was saved (importer/commit.go 109-116).  *)
(***************************************************************************)
ImportsNeverDuplicate ==
  [][\A item \in saved' \ saved :
       item[1] \in Imports =>
         KeysOf(item) \intersect OwnedKeys(Library, OwnerOfItem(item)) = {}]_vars

(***************************************************************************)
(* What a request says of a row is true and stays true: an added row was   *)
(* stored; a row said not to be stored was not, and no statement of it is  *)
(* left that could still store it, even in a session whose client is gone  *)
(* (saveOutcomeErr, commitRow).                                            *)
(***************************************************************************)
OutcomesTrue ==
  \A item \in Items :
    /\ outcome[item] = "added" => item \in saved
    /\ outcome[item] \in NotStored =>
         /\ item \notin saved
         /\ ~ \E b \in Backends :
                /\ live[b]
                /\ reply[b] = "none"
                /\ stmt[b].op \in {"insert", "commit"}
                /\ ItemOf(stmt[b]) = item

(***************************************************************************)
(* The rows of an answered commit add up: all were decided, or none was    *)
(* and none was stored (the request failed); at most one is interrupted,   *)
(* and it and an unprocessed row are followed by unprocessed ones only     *)
(* (importer/commit.go 145-174).                                           *)
(***************************************************************************)
OutcomesAddUp ==
  \A r \in Requests : pc[r] = "done" =>
    /\ \/ \A i \in 1 .. NumRows(r) : outcome[<<r, i>>] # "pending"
       \/ \A i \in 1 .. NumRows(r) : outcome[<<r, i>>] = "pending" /\ <<r, i>> \notin saved
    /\ \A i, j \in 1 .. NumRows(r) :
         i < j /\ outcome[<<r, i>>] \in {"interrupted", "unprocessed"}
         => outcome[<<r, j>>] = "unprocessed"

(***************************************************************************)
(* A commit skips a row only because an item with one of its keys was      *)
(* really stored for the owner: a row whose save failed or was never       *)
(* confirmed is not a reason to skip a later one.                          *)
(***************************************************************************)
SkipsHaveASource ==
  \A item \in Items : outcome[item] = "skipped" =>
    \E other \in saved :
      /\ other # item
      /\ OwnerOfItem(other) = OwnerOfItem(item)
      /\ KeysOf(other) \intersect KeysOf(item) # {}

(***************************************************************************)
(* The insert lock of a key belongs, at any time, to the request some      *)
(* session holds it for; seen so, every step is one OwnerLibrary allows.   *)
(***************************************************************************)
HolderOf(k) ==
  LET sessions == {b \in Backends : held[b] # NoRequest /\ LockKey(held[b]) = k}
  IN IF sessions = {} THEN NoRequest ELSE held[CHOOSE b \in sessions : TRUE]

Promise == INSTANCE OwnerLibrary WITH holder <- [k \in LockKeys |-> HolderOf(k)]

ImplementsOwnerLibrary == Promise!Spec

(***************************************************************************)
(* A request that arrived is answered, or dies with its replica: waiters   *)
(* do not starve the holder of connections, a commit and a create do not   *)
(* wait for each other, and a lock whose client is gone is freed           *)
(* (waitForOwnerLock; api-deep-dive.md 188).                               *)
(***************************************************************************)
EveryRequestAnswered ==
  \A r \in Requests : pc[r] = "connect" ~> pc[r] \in {"done", "crashed"}

(* A lock that was taken is released in the end, whatever fails. *)
EveryLockFreed ==
  \A b \in Backends : held[b] # NoRequest ~> held[b] = NoRequest

-----------------------------------------------------------------------------
(***************************************************************************)
(* Why the safety properties hold.  Inductive is preserved by every step   *)
(* (ImportCommitProofs), and its parts are the argument: connections are   *)
(* borrowed by one request each, each carries the statement its request is *)
(* waiting for, a session that may insert holds the lock, one session      *)
(* holds a key, so what a commit knows stays all there is.                 *)
(***************************************************************************)
Working == {"lock", "abort", "list", "row", "insert", "close", "txinsert", "commit"}

(* A request has a connection of its replica to itself exactly while it works. *)
ConnOK(r) ==
  /\ pc[r] \in Working <=> conn[r] # NoBackend
  /\ pc[r] \in {"list", "row", "insert", "close"} => r \in Imports
  /\ pc[r] \in {"abort", "txinsert", "commit"} => r \in Creates
  /\ conn[r] # NoBackend =>
       /\ client[conn[r]] = ReplicaOf[r]
       /\ \A s \in Requests : conn[s] = conn[r] => s = r

(* What a live session was last sent is what its request is waiting for. *)
OpAt == {<<"lock", "trylock">>, <<"abort", "rollback">>, <<"list", "list">>,
         <<"row", "list">>, <<"row", "insert">>, <<"insert", "insert">>,
         <<"close", "unlock">>, <<"txinsert", "txinsert">>, <<"commit", "commit">>}

StmtOK(r) ==
  conn[r] # NoBackend /\ live[conn[r]] =>
    /\ stmt[conn[r]].by = r
    /\ <<pc[r], stmt[conn[r]].op>> \in OpAt
    /\ pc[r] = "row" => reply[conn[r]] # "none"
    /\ pc[r] = "insert" => stmt[conn[r]].row = next[r]

(* Which sessions hold a lock, told from their last statement. *)
HeldOK(b) ==
  /\ held[b] # NoRequest => live[b] /\ held[b] = stmt[b].by
  /\ ~live[b] => reply[b] = "none"
  /\ live[b] /\ stmt[b].op # "none" => stmt[b].by \in Requests
  /\ live[b] /\ stmt[b].op \in {"list", "insert", "txinsert"} => held[b] = stmt[b].by
  /\ live[b] /\ stmt[b].op = "commit" =>
       held[b] = IF reply[b] = "none" THEN stmt[b].by ELSE NoRequest
  /\ live[b] /\ stmt[b].op = "trylock" =>
       held[b] = IF reply[b] = "granted" THEN stmt[b].by ELSE NoRequest
  /\ stmt[b].op \in {"unlock", "rollback"} /\ reply[b] = "ok" => held[b] = NoRequest
  /\ stmt[b].op = "none" => held[b] = NoRequest
  /\ client[b] # NoReplica /\ ~Lent(b) => stmt[b].op = "none"

(* One session at a time holds a lock key. *)
Exclusive ==
  \A a, b \in Backends :
    held[a] # NoRequest /\ held[b] # NoRequest /\ LockKey(held[a]) = LockKey(held[b])
    => a = b

(* Items of a commit are stored in row order, none before its loop starts. *)
RowOK(r) ==
  /\ pc[r] \in {"start", "connect", "lock", "backoff", "list"} => next[r] = 1
  /\ pc[r] \in {"start", "connect", "lock", "backoff", "list", "row", "insert"} =>
       \A item \in saved : item[1] = r =>
         \/ item[2] < next[r]
         \/ /\ pc[r] = "insert"
            /\ item[2] = next[r]
            /\ live[conn[r]] => reply[conn[r]] \in {"ok", "fatal"}

(* What SnapshotComplete says, from the moment the List has been answered. *)
KnownOK(r) ==
  /\ conn[r] # NoBackend
  /\ live[conn[r]]
  /\ pc[r] \in {"row", "insert"} \/ (pc[r] = "list" /\ reply[conn[r]] = "ok")
  => \A item \in Library :
       /\ OwnerOfItem(item) = OwnerOf[r]
       /\ ~(KeysOf(item) \subseteq known[r])
       => pc[r] = "insert" /\ item = RowItem(r)

(* A save still to be run is one its request sent last, of a row that is new. *)
PendingOK(b) ==
  live[b] /\ stmt[b].op \in {"insert", "commit"} =>
    /\ ItemOf(stmt[b]) \in Items
    /\ stmt[b].op = "insert" <=> stmt[b].by \in Imports
    /\ reply[b] = "none" => conn[stmt[b].by] = b \/ pc[stmt[b].by] \in {"done", "crashed"}
    /\ reply[b] = "none" /\ stmt[b].op = "insert" =>
         KeysOf(ItemOf(stmt[b])) \intersect OwnedKeys(Library, OwnerOf[stmt[b].by]) = {}

Inductive ==
  /\ TypeOK
  /\ \A r \in Requests : ConnOK(r) /\ StmtOK(r)
  /\ \A b \in Backends : HeldOK(b) /\ PendingOK(b)
  /\ \A r \in Imports : RowOK(r) /\ KnownOK(r)
  /\ Exclusive
=============================================================================
