--------------------------- MODULE InsertSession ----------------------------
(***************************************************************************)
(* Connections, database sessions and the owner insert lock                *)
(* (items/postgres_insert_session.go, platform/database/postgres.go).      *)
(*                                                                         *)
(* A connection and the PostgreSQL session behind it have two lives.  The  *)
(* pool of a replica opens, lends and discards connections; the session    *)
(* runs one statement at a time, holds the advisory lock, and goes on      *)
(* running, and holding it, after its client has dropped the connection,   *)
(* until the server notices.  A statement reaches the server, takes effect *)
(* and is answered in separate steps, so a client may give up between any  *)
(* two of them.                                                            *)
(***************************************************************************)
EXTENDS ImportRequests, FiniteSets

CONSTANTS
  Backends,       \* names for database sessions; bounds how many exist at once
  MaxOpenConns,   \* connections a replica's pool may have open
  MaxFaults,      \* bound on lost connections, killed sessions and crashes
  MayEnd,         \* requests whose context may end early; bounds CtxEnds
  NoRequest, NoBackend, NoReplica

ASSUME SessionAssumption ==
  /\ NoRequest \notin Requests
  /\ NoBackend \notin Backends
  /\ NoReplica \notin Replicas
  /\ MaxOpenConns \in Nat \ {0}
  /\ MaxFaults \in Nat
  /\ MayEnd \subseteq Requests

VARIABLES
  pc,         \* where each request is
  ctxEnded,   \* its context was cancelled or timed out
  conn,       \* the connection it has borrowed
  client,     \* the replica whose pool has the session's connection open
  live,       \* the session exists in the server
  stmt,       \* the statement last sent to the session
  reply,      \* its unread answer, "none" while it has not run
  held,       \* the request for which the session holds an insert lock
  known,      \* the keys each import's duplicate tracker knows
  saved,      \* every item ever committed to the items table
  deleted,    \* those removed since
  faults

poolVars    == <<conn, client>>
sessionVars == <<live, held>>
stmtVars    == <<stmt, reply>>
storeVars   == <<known, saved, deleted>>

Ops == {"none", "trylock", "list", "insert", "unlock", "txinsert", "commit", "rollback"}
Replies == {"none", "granted", "refused", "ok", "error", "fatal"}
NoStmt == [op |-> "none", by |-> NoRequest, row |-> 0]

ItemOf(s) == <<s.by, s.row>>

Library == saved \ deleted

-----------------------------------------------------------------------------
(* Sending a statement on a request's connection, and reading its answer. *)

Send(r, op, row) ==
  /\ stmt' = [stmt EXCEPT ![conn[r]] = [op |-> op, by |-> r, row |-> row]]
  /\ reply' = [reply EXCEPT ![conn[r]] = "none"]

Answered(r, answers) == reply[conn[r]] \in answers

(***************************************************************************)
(* The client learns nothing of its statement: its context ended (lib/pq   *)
(* then refuses further use of the connection), the session is gone, or    *)
(* the connection broke.                                                   *)
(***************************************************************************)
AnswerLost(r) ==
  \/ (ctxEnded[r] \/ ~live[conn[r]]) /\ UNCHANGED faults
  \/ faults < MaxFaults /\ faults' = faults + 1

(* conn.Close: the connection goes back to the pool, idle. *)
ReturnConn(r) ==
  /\ conn' = [conn EXCEPT ![r] = NoBackend]
  /\ stmt' = [stmt EXCEPT ![conn[r]] = NoStmt]
  /\ reply' = [reply EXCEPT ![conn[r]] = "none"]
  /\ UNCHANGED <<client, sessionVars>>

(* Seeded fault: giving up a connection frees its lock at once, whatever it
   is still running, as a lock kept on another session would. *)
DiscardFreesLock(r) ==
  /\ conn' = [conn EXCEPT ![r] = NoBackend]
  /\ client' = [client EXCEPT ![conn[r]] = NoReplica]
  /\ held' = [held EXCEPT ![conn[r]] = NoRequest]
  /\ UNCHANGED <<live, stmtVars>>

(***************************************************************************)
(* discardConn: the pool closes the connection.  The server session is     *)
(* told nothing that stops what it is doing: its statement may still run   *)
(* and its lock stays until the session ends.                              *)
(***************************************************************************)
DiscardConn(r) ==
  /\ conn' = [conn EXCEPT ![r] = NoBackend]
  /\ client' = [client EXCEPT ![conn[r]] = NoReplica]
  /\ stmt' = IF live[conn[r]] THEN stmt ELSE [stmt EXCEPT ![conn[r]] = NoStmt]
  /\ UNCHANGED <<reply, sessionVars>>

Lent(b) == \E r \in Requests : conn[r] = b

OpenConns(rep) == {b \in Backends : client[b] = rep}

(* The pool lends an idle connection, or opens one if it may. *)
PoolOffers(rep, b) ==
  \/ /\ client[b] = rep
     /\ ~Lent(b)
     /\ UNCHANGED <<client, live>>
  \/ /\ client[b] = NoReplica
     /\ ~live[b]
     /\ Cardinality(OpenConns(rep)) < MaxOpenConns
     /\ client' = [client EXCEPT ![b] = rep]
     /\ live' = [live EXCEPT ![b] = TRUE]

(***************************************************************************)
(* One attempt at the lock begins: borrow a connection and send the        *)
(* non-blocking lock request (tryCreate opens its transaction first).      *)
(***************************************************************************)
TakeConn(r, b) ==
  /\ pc[r] = "connect"
  /\ ~ctxEnded[r]
  /\ PoolOffers(ReplicaOf[r], b)
  /\ conn' = [conn EXCEPT ![r] = b]
  /\ stmt' = [stmt EXCEPT ![b] = [op |-> "trylock", by |-> r, row |-> 0]]
  /\ reply' = [reply EXCEPT ![b] = "none"]
  /\ pc' = [pc EXCEPT ![r] = "lock"]
  /\ UNCHANGED <<ctxEnded, held, storeVars, faults>>

(***************************************************************************)
(* Another holder has the lock: a session attempt returns its connection   *)
(* at once, a create first rolls its transaction back.  Then it backs off. *)
(***************************************************************************)
LockBusy(r) ==
  /\ pc[r] = "lock"
  /\ Answered(r, {"refused"})
  /\ \/ /\ r \in Imports
        /\ ReturnConn(r)
        /\ pc' = [pc EXCEPT ![r] = "backoff"]
     \/ /\ r \in Creates
        /\ Send(r, "rollback", 0)
        /\ pc' = [pc EXCEPT ![r] = "abort"]
        /\ UNCHANGED <<poolVars, sessionVars>>
  /\ UNCHANGED <<ctxEnded, storeVars, faults>>

(* The back-off timer fires first: another attempt. *)
Retry(r) ==
  /\ pc[r] = "backoff"
  /\ pc' = [pc EXCEPT ![r] = "connect"]
  /\ UNCHANGED <<ctxEnded, poolVars, sessionVars, stmtVars, storeVars, faults>>

(* Seeded fault: Close pools the connection although the unlock failed. *)
ClosePoolsAnyway(r) ==
  /\ pc[r] = "close"
  /\ \/ Answered(r, {"ok", "error"}) /\ ReturnConn(r) /\ UNCHANGED faults
     \/ AnswerLost(r) /\ DiscardConn(r)
  /\ pc' = [pc EXCEPT ![r] = "done"]
  /\ known' = [known EXCEPT ![r] = {}]
  /\ UNCHANGED <<ctxEnded, saved, deleted>>

(***************************************************************************)
(* InsertSession.Close ends: the lock was released and the connection is   *)
(* pooled, or the unlock failed and the connection is discarded.           *)
(***************************************************************************)
Close(r) ==
  /\ pc[r] = "close"
  /\ \/ Answered(r, {"ok"}) /\ ReturnConn(r) /\ UNCHANGED faults
     \/ Answered(r, {"error"}) /\ DiscardConn(r) /\ UNCHANGED faults
     \/ AnswerLost(r) /\ DiscardConn(r)
  /\ pc' = [pc EXCEPT ![r] = "done"]
  /\ known' = [known EXCEPT ![r] = {}]
  /\ UNCHANGED <<ctxEnded, saved, deleted>>

-----------------------------------------------------------------------------
(* The server. *)

Waiting(b, op) == live[b] /\ stmt[b].op = op /\ reply[b] = "none"

(* Seeded fault: a lock that only the requests of one replica share. *)
LockPerReplica(b) ==
  /\ Waiting(b, "trylock")
  /\ LET r == stmt[b].by
         busy == \E other \in Backends \ {b} :
                   /\ held[other] # NoRequest
                   /\ LockKey(held[other]) = LockKey(r)
                   /\ ReplicaOf[held[other]] = ReplicaOf[r]
     IN \/ /\ ~busy
           /\ held' = [held EXCEPT ![b] = r]
           /\ reply' = [reply EXCEPT ![b] = "granted"]
        \/ /\ busy
           /\ reply' = [reply EXCEPT ![b] = "refused"]
           /\ UNCHANGED held
  /\ UNCHANGED <<known, saved>>

(* pg_try_advisory_lock: granted unless another session has the key. *)
ExecTryLock(b) ==
  /\ Waiting(b, "trylock")
  /\ LET r == stmt[b].by
         busy == \E other \in Backends \ {b} :
                   held[other] # NoRequest /\ LockKey(held[other]) = LockKey(r)
     IN \/ /\ ~busy
           /\ held' = [held EXCEPT ![b] = r]
           /\ reply' = [reply EXCEPT ![b] = "granted"]
        \/ /\ busy
           /\ reply' = [reply EXCEPT ![b] = "refused"]
           /\ UNCHANGED held
        \/ /\ reply' = [reply EXCEPT ![b] = "error"]
           /\ UNCHANGED held
  /\ UNCHANGED <<known, saved>>

(* List: the tracker will know every key of the owner's items, as read now. *)
ExecList(b) ==
  /\ Waiting(b, "list")
  /\ LET r == stmt[b].by IN
       \/ /\ reply' = [reply EXCEPT ![b] = "ok"]
          /\ known' = IF conn[r] = b
                        THEN [known EXCEPT ![r] = OwnedKeys(Library, OwnerOf[r])]
                        ELSE known
       \/ /\ reply' = [reply EXCEPT ![b] = "error"]
          /\ UNCHANGED known
  /\ UNCHANGED <<held, saved>>

(***************************************************************************)
(* An import's INSERT commits by itself.  PostgreSQL reporting an error    *)
(* has rolled it back; "fatal" stands for the error classes saveOutcomeErr *)
(* does not trust (08, 57, 58, XX), which may follow a row that is stored. *)
(***************************************************************************)
ExecInsert(b) ==
  /\ Waiting(b, "insert")
  /\ \/ /\ saved' = saved \union {ItemOf(stmt[b])}
        /\ \E answer \in {"ok", "fatal"} : reply' = [reply EXCEPT ![b] = answer]
     \/ /\ \E bad \in {"error", "fatal"} : reply' = [reply EXCEPT ![b] = bad]
        /\ UNCHANGED saved
  /\ UNCHANGED <<held, known>>

(* A create's INSERT stores nothing before its transaction commits. *)
ExecTxInsert(b) ==
  /\ Waiting(b, "txinsert")
  /\ \E answer \in {"ok", "error"} : reply' = [reply EXCEPT ![b] = answer]
  /\ UNCHANGED <<held, known, saved>>

(* The end of a transaction releases its lock, whether it stored the item. *)
ExecCommit(b) ==
  /\ Waiting(b, "commit")
  /\ held' = [held EXCEPT ![b] = NoRequest]
  /\ \/ /\ saved' = saved \union {ItemOf(stmt[b])}
        /\ \E answer \in {"ok", "fatal"} : reply' = [reply EXCEPT ![b] = answer]
     \/ /\ \E bad \in {"error", "fatal"} : reply' = [reply EXCEPT ![b] = bad]
        /\ UNCHANGED saved
  /\ UNCHANGED known

ExecRelease(b) ==
  /\ Waiting(b, "rollback") \/ Waiting(b, "unlock")
  /\ \/ /\ held' = [held EXCEPT ![b] = NoRequest]
        /\ reply' = [reply EXCEPT ![b] = "ok"]
     \/ /\ reply' = [reply EXCEPT ![b] = "error"]
        /\ UNCHANGED held
  /\ UNCHANGED <<known, saved>>

Exec(b) ==
  /\ \/ ExecTryLock(b) \/ ExecList(b) \/ ExecInsert(b)
     \/ ExecTxInsert(b) \/ ExecCommit(b) \/ ExecRelease(b)
  /\ UNCHANGED <<pc, ctxEnded, poolVars, live, stmt, deleted, faults>>

(* A session ends: its statement will not run, its transaction is undone and
   its lock is free. *)
SessionGone(b) ==
  /\ live' = [live EXCEPT ![b] = FALSE]
  /\ held' = [held EXCEPT ![b] = NoRequest]
  /\ stmt' = [stmt EXCEPT ![b] = NoStmt]
  /\ reply' = [reply EXCEPT ![b] = "none"]

(* The server notices that the client of a session is gone. *)
EndSession(b) ==
  /\ live[b]
  /\ client[b] = NoReplica
  /\ SessionGone(b)
  /\ UNCHANGED <<pc, ctxEnded, poolVars, storeVars, faults>>

(* The server ends a session its client still uses, or has pooled. *)
KillSession(b) ==
  /\ live[b]
  /\ client[b] # NoReplica
  /\ faults < MaxFaults
  /\ faults' = faults + 1
  /\ SessionGone(b)
  /\ UNCHANGED <<pc, ctxEnded, poolVars, storeVars>>

-----------------------------------------------------------------------------
(* The pool and the world around a request. *)

(* The pool closes an idle connection (idle limit, idle time, lifetime). *)
CloseIdle(b) ==
  /\ client[b] # NoReplica
  /\ ~Lent(b)
  /\ client' = [client EXCEPT ![b] = NoReplica]
  /\ UNCHANGED <<pc, ctxEnded, conn, sessionVars, stmtVars, storeVars, faults>>

(* The request's context ends: its timeout, or its client went away. *)
CtxEnds(r) ==
  /\ pc[r] \notin {"start", "done", "crashed"}
  /\ ~ctxEnded[r]
  /\ ctxEnded' = [ctxEnded EXCEPT ![r] = TRUE]
  /\ UNCHANGED <<pc, poolVars, sessionVars, stmtVars, storeVars, faults>>

(* An API replica dies with the requests it is serving; nobody is answered. *)
Crash(rep) ==
  /\ faults < MaxFaults
  /\ faults' = faults + 1
  /\ LET hit == {r \in Requests : ReplicaOf[r] = rep
                                  /\ pc[r] \notin {"start", "done", "crashed"}}
     IN /\ pc' = [r \in Requests |-> IF r \in hit THEN "crashed" ELSE pc[r]]
        /\ conn' = [r \in Requests |-> IF r \in hit THEN NoBackend ELSE conn[r]]
        /\ known' = [r \in Requests |-> IF r \in hit THEN {} ELSE known[r]]
  /\ client' = [b \in Backends |-> IF client[b] = rep THEN NoReplica ELSE client[b]]
  /\ UNCHANGED <<ctxEnded, sessionVars, stmtVars, saved, deleted>>

(* Seeded fault: an item that was never saved can be deleted. *)
DeleteAnything(item) ==
  /\ deleted' = deleted \union {item}
  /\ UNCHANGED <<pc, ctxEnded, poolVars, sessionVars, stmtVars, known, saved, faults>>

(* DELETE of an item takes no insert lock. *)
Delete(item) ==
  /\ item \in Library
  /\ deleted' = deleted \union {item}
  /\ UNCHANGED <<pc, ctxEnded, poolVars, sessionVars, stmtVars, known, saved, faults>>

SessionInit ==
  /\ pc = [r \in Requests |-> "start"]
  /\ ctxEnded = [r \in Requests |-> FALSE]
  /\ conn = [r \in Requests |-> NoBackend]
  /\ client = [b \in Backends |-> NoReplica]
  /\ live = [b \in Backends |-> FALSE]
  /\ stmt = [b \in Backends |-> NoStmt]
  /\ reply = [b \in Backends |-> "none"]
  /\ held = [b \in Backends |-> NoRequest]
  /\ known = [r \in Requests |-> {}]
  /\ saved = {}
  /\ deleted = {}
  /\ faults = 0
=============================================================================
