------------------------- MODULE ImportCommitProofs -------------------------
(***************************************************************************)
(* Inductive is an invariant of ImportCommit, for every value of its       *)
(* constants, and with it the type invariant, the cleanliness of the       *)
(* connection pool, the completeness of a commit's snapshot, and that      *)
(* imports never save duplicates.                                          *)
(*                                                                         *)
(* Five lemmas say what has to be looked at when one request (ClientStep,  *)
(* LonelyStep), the server (ServerStep, SessionEnds) or the world around   *)
(* them (ContextStep) takes a step; one lemma per action then looks.       *)
(***************************************************************************)
EXTENDS ImportCommit, TLAPS

(* A request has at least one row. *)
LEMMA RowsOfRequest ==
  ASSUME NEW r \in Requests
  PROVE  NumRows(r) \in Nat /\ NumRows(r) >= 1
BY RequestsAssumption DEF NumRows

(* A request is a commit or a create, never both. *)
LEMMA Kinds == Requests = Imports \union Creates /\ Imports \intersect Creates = {}
BY RequestsAssumption DEF Requests

(* The rows of a request, and only those, are items. *)
LEMMA ItemOfRow ==
  ASSUME NEW r \in Requests, NEW i \in 1 .. NumRows(r)
  PROVE  <<r, i>> \in Items
BY DEF Items

(* An item is a row of a request. *)
LEMMA ItemParts ==
  ASSUME NEW item \in Items
  PROVE  /\ item = <<item[1], item[2]>>
         /\ item[1] \in Requests
         /\ item[2] \in 1 .. NumRows(item[1])
BY DEF Items

(* Keys are keys, and an owner is known by its requests. *)
LEMMA KeysOfItem ==
  ASSUME NEW item \in Items
  PROVE  KeysOf(item) \subseteq Keys /\ OwnerOfItem(item) \in Owners
BY ItemParts, RowsOfRequest, RequestsAssumption DEF KeysOf, OwnerOfItem, NumRows

(* The keys a List reads are duplicate keys. *)
LEMMA OwnedKeysAreKeys ==
  ASSUME NEW S \in SUBSET Items, NEW o
  PROVE  OwnedKeys(S, o) \subseteq Keys
BY KeysOfItem DEF OwnedKeys

(* Nothing the invariant says of a request, or of a session, has changed. *)
SameRequest(s) ==
  /\ pc'[s] = pc[s]
  /\ conn'[s] = conn[s]
  /\ known'[s] = known[s]
  /\ next'[s] = next[s]

SameBackend(b) ==
  /\ client'[b] = client[b]
  /\ live'[b] = live[b]
  /\ stmt'[b] = stmt[b]
  /\ reply'[b] = reply[b]
  /\ held'[b] = held[b]

(***************************************************************************)
(* A step of one request, on the connection it has, borrows or gives up,   *)
(* need be looked at only there.                                           *)
(***************************************************************************)
LEMMA ClientStep ==
  ASSUME Inductive, TypeOK',
         NEW r \in Requests, NEW c \in Backends,
         c = conn[r] \/ (conn[r] = NoBackend /\ ~Lent(c)),
         conn'[r] \in {c, NoBackend},
         pc[r] \notin {"done", "crashed"},
         \A s \in Requests \ {r} : SameRequest(s),
         \A b \in Backends \ {c} : SameBackend(b),
         UNCHANGED <<held, saved, deleted>>,
         ConnOK(r)', StmtOK(r)', HeldOK(c)', PendingOK(c)',
         r \in Imports => RowOK(r)' /\ KnownOK(r)'
  PROVE  Inductive'
<1> USE SessionAssumption DEF Inductive, SameRequest, SameBackend
<1>1. ASSUME NEW s \in Requests, s # r PROVE conn[s] # c
  BY <1>1 DEF ConnOK, Lent, TypeOK
<1>2. ASSUME NEW s \in Requests PROVE ConnOK(s)'
  <2>1. CASE s # r
    <3>1. conn[s] # NoBackend => client'[conn[s]] = client[conn[s]]
      BY <1>1, <2>1 DEF TypeOK
    <3>2. ASSUME conn[s] # NoBackend, NEW t \in Requests, conn'[t] = conn'[s] PROVE t = s
      BY <1>1, <2>1, <3>2 DEF ConnOK
    <3>3. QED
      BY <2>1, <3>1, <3>2 DEF ConnOK
  <2>2. QED
    BY <2>1
<1>3. ASSUME NEW s \in Requests PROVE StmtOK(s)'
  <2>1. CASE s # r
    <3>1. SameRequest(s)
      BY <2>1
    <3>2. StmtOK(s)
      OBVIOUS
    <3>3. CASE conn[s] = NoBackend
      BY <3>1, <3>2, <3>3 DEF StmtOK
    <3>4. CASE conn[s] # NoBackend
      <4>1. conn[s] \in Backends
        BY <3>4 DEF TypeOK
      <4>2. SameBackend(conn[s])
        BY <1>1, <2>1, <4>1
      <4>3. QED
        BY <3>1, <3>2, <4>2 DEF StmtOK
    <3>5. QED
      BY <3>3, <3>4
  <2>2. QED
    BY <2>1
<1>4. ASSUME NEW b \in Backends PROVE HeldOK(b)'
  <2>1. CASE b # c
    <3>1. Lent(b)' <=> Lent(b)
      BY <2>1 DEF Lent, TypeOK
    <3>2. QED
      BY <2>1, <3>1 DEF HeldOK
  <2>2. QED
    BY <2>1
<1>5. ASSUME NEW b \in Backends PROVE PendingOK(b)'
  <2>1. CASE b # c
    <3>1. SameBackend(b) /\ Library' = Library
      BY <2>1 DEF Library
    <3>2. live[b] /\ stmt[b].op \in {"insert", "commit"} => stmt[b].by \in Requests
      BY DEF HeldOK
    <3>3. QED
      BY <2>1, <3>1, <3>2 DEF PendingOK, ItemOf
  <2>2. QED
    BY <2>1
<1>6. ASSUME NEW s \in Imports PROVE RowOK(s)'
  BY <1>1, <1>6, Kinds DEF RowOK, TypeOK, ConnOK, Working
<1>7. ASSUME NEW s \in Imports PROVE KnownOK(s)'
  <2>1. Library' = Library
    BY DEF Library
  <2>2. QED
    BY <1>1, <1>7, <2>1, Kinds DEF KnownOK, TypeOK, RowItem
<1>8. Exclusive'
  BY DEF Exclusive
<1>9. QED
  BY <1>2, <1>3, <1>4, <1>5, <1>6, <1>7, <1>8

(***************************************************************************)
(* A step of a request that has no connection before or after it.          *)
(***************************************************************************)
LEMMA LonelyStep ==
  ASSUME Inductive, TypeOK',
         NEW r \in Requests,
         pc[r] \notin Working \union {"done", "crashed"},
         pc'[r] \notin Working,
         \A s \in Requests \ {r} : SameRequest(s),
         UNCHANGED <<conn, client, live, stmt, reply, held, known, saved, deleted>>,
         r \in Imports => RowOK(r)'
  PROVE  Inductive'
<1> USE SessionAssumption DEF Inductive, SameRequest
<1>1. conn[r] = NoBackend
  BY DEF ConnOK
<1>2. ASSUME NEW s \in Requests PROVE ConnOK(s)'
  BY <1>2 DEF ConnOK, TypeOK, Working
<1>3. ASSUME NEW s \in Requests PROVE StmtOK(s)'
  BY <1>1, <1>3 DEF StmtOK
<1>4. ASSUME NEW b \in Backends PROVE HeldOK(b)'
  BY <1>4 DEF HeldOK, Lent
<1>5. ASSUME NEW b \in Backends PROVE PendingOK(b)'
  <2>1. live[b] /\ stmt[b].op \in {"insert", "commit"} => stmt[b].by \in Requests
    BY DEF HeldOK
  <2>2. Library' = Library
    BY DEF Library
  <2>3. QED
    BY <1>1, <1>5, <2>1, <2>2 DEF PendingOK, ItemOf, TypeOK
<1>6. ASSUME NEW s \in Imports PROVE RowOK(s)'
  BY <1>6, Kinds DEF RowOK, TypeOK
<1>7. ASSUME NEW s \in Imports PROVE KnownOK(s)'
  <2>1. Library' = Library
    BY DEF Library
  <2>2. conn[s] # NoBackend => s # r
    BY <1>7, Kinds DEF ConnOK
  <2>3. QED
    BY <1>7, <2>1, <2>2, Kinds DEF KnownOK, TypeOK, RowItem
<1>8. Exclusive'
  BY DEF Exclusive
<1>9. QED
  BY <1>2, <1>3, <1>4, <1>5, <1>6, <1>7, <1>8

(* The server runs the statement of one session and answers it. *)
LEMMA ServerStep ==
  ASSUME Inductive, TypeOK',
         NEW b \in Backends, live[b], stmt[b].op # "none", reply'[b] # "none",
         UNCHANGED <<pc, conn, client, live, stmt, next>>,
         \A a \in Backends \ {b} : reply'[a] = reply[a] /\ held'[a] = held[a],
         HeldOK(b)', Exclusive',
         \A r \in Imports : RowOK(r)' /\ KnownOK(r)',
         \A a \in Backends \ {b} : PendingOK(a)'
  PROVE  Inductive'
<1> USE SessionAssumption DEF Inductive
<1>1. ASSUME NEW s \in Requests PROVE ConnOK(s)' /\ StmtOK(s)'
  BY <1>1 DEF ConnOK, StmtOK, TypeOK
<1>2. ASSUME NEW a \in Backends PROVE HeldOK(a)'
  BY <1>2 DEF HeldOK, Lent
<1>3. PendingOK(b)'
  BY DEF PendingOK, ItemOf
<1>4. QED
  BY <1>1, <1>2, <1>3

(* A session ends and takes its statement and its lock with it. *)
LEMMA SessionEnds ==
  ASSUME Inductive, TypeOK', NEW b \in Backends, live[b], SessionGone(b),
         UNCHANGED <<pc, conn, client, known, saved, deleted, next>>
  PROVE  Inductive'
<1> USE SessionAssumption DEF Inductive, SessionGone
<1>1. ASSUME NEW a \in Backends \ {b} PROVE SameBackend(a)
  BY <1>1 DEF TypeOK, SameBackend
<1>2. ~live'[b] /\ held'[b] = NoRequest /\ stmt'[b] = NoStmt /\ reply'[b] = "none"
  BY DEF TypeOK
<1>3. Library' = Library
  BY DEF Library
<1>4. ASSUME NEW s \in Requests PROVE ConnOK(s)' /\ StmtOK(s)'
  <2>1. ConnOK(s)'
    BY <1>4 DEF ConnOK
  <2>2. conn[s] \in Backends \union {NoBackend}
    BY DEF TypeOK
  <2>3. StmtOK(s)'
    BY <1>1, <1>2, <1>4, <2>2 DEF StmtOK, SameBackend
  <2>4. QED
    BY <2>1, <2>3
<1>5. ASSUME NEW a \in Backends PROVE HeldOK(a)'
  <2>1. Lent(a)' <=> Lent(a)
    BY DEF Lent
  <2>2. QED
    BY <1>1, <1>2, <2>1 DEF HeldOK, SameBackend, NoStmt
<1>6. ASSUME NEW a \in Backends PROVE PendingOK(a)'
  BY <1>1, <1>2, <1>3 DEF PendingOK, SameBackend, NoStmt, ItemOf
<1>7. ASSUME NEW r \in Imports PROVE RowOK(r)'
  BY <1>1, <1>2, <1>7, Kinds DEF RowOK, TypeOK, ConnOK, Working, SameBackend
<1>8. ASSUME NEW r \in Imports PROVE KnownOK(r)'
  BY <1>1, <1>2, <1>3, <1>8, Kinds DEF KnownOK, TypeOK, SameBackend, RowItem
<1>9. Exclusive'
  BY <1>1, <1>2 DEF Exclusive, SameBackend
<1>10. QED
  BY <1>4, <1>5, <1>6, <1>7, <1>8, <1>9

-----------------------------------------------------------------------------
(* One lemma per action. *)

(* A request that arrives has nothing yet. *)
LEMMA ArriveStep ==
  ASSUME Inductive, NEW r \in Requests, Arrive(r)
  PROVE  Inductive'
<1> USE DEF Inductive, Arrive, poolVars, sessionVars, stmtVars, storeVars, rowVars
<1>1. TypeOK'
  BY DEF TypeOK, PCs
<1>2. r \in Imports => RowOK(r)'
  BY DEF TypeOK, RowOK
<1>3. QED
  BY <1>1, <1>2, LonelyStep DEF TypeOK, Working, SameRequest

(* A connection some request has is open. *)
LEMMA LentIsOpen ==
  ASSUME Inductive, NEW b \in Backends, Lent(b)
  PROVE  client[b] # NoReplica
BY SessionAssumption, RequestsAssumption DEF Inductive, ConnOK, Lent

(* A request borrows a connection no other has, and asks for the lock on it. *)
LEMMA TakeConnStep ==
  ASSUME Inductive, NEW r \in Requests, NEW b \in Backends,
         TakeConn(r, b), UNCHANGED rowVars
  PROVE  Inductive'
<1> USE SessionAssumption DEF Inductive, TakeConn, storeVars, rowVars
<1>1. /\ ReplicaOf[r] \in Replicas
      /\ client' \in [Backends -> Replicas \union {NoReplica}]
      /\ live' \in [Backends -> BOOLEAN]
  <2>1. ReplicaOf[r] \in Replicas
    BY RequestsAssumption DEF Requests
  <2>2. /\ client \in [Backends -> Replicas \union {NoReplica}]
        /\ live \in [Backends -> BOOLEAN]
    BY DEF TypeOK
  <2>3. \/ UNCHANGED <<client, live>>
        \/ /\ client' = [client EXCEPT ![b] = ReplicaOf[r]]
           /\ live' = [live EXCEPT ![b] = TRUE]
    BY DEF PoolOffers
  <2>4. QED
    BY <2>1, <2>2, <2>3
<1>2. TypeOK'
  BY <1>1 DEF TypeOK, PCs, Stmts, Ops, Replies
<1>3. conn[r] = NoBackend /\ ~Lent(b) /\ ReplicaOf[r] # NoReplica
  BY <1>1, LentIsOpen DEF ConnOK, Working, PoolOffers
<1>4. /\ client'[b] = ReplicaOf[r]
      /\ \A a \in Backends \ {b} : client'[a] = client[a] /\ live'[a] = live[a]
  BY <1>1 DEF PoolOffers, TypeOK
<1>5. held[b] = NoRequest
  BY <1>3 DEF PoolOffers, HeldOK
<1>6. /\ conn'[r] = b /\ pc'[r] = "lock"
      /\ stmt'[b] = [op |-> "trylock", by |-> r, row |-> 0]
      /\ reply'[b] = "none"
  BY DEF TypeOK
<1>7. ConnOK(r)'
  <2>1. ASSUME NEW s \in Requests, conn'[s] = b PROVE s = r
    BY <1>3, <2>1 DEF Lent, TypeOK
  <2>2. QED
    BY <1>4, <1>6, <2>1 DEF ConnOK, Working
<1>8. StmtOK(r)'
  BY <1>6 DEF StmtOK, OpAt
<1>9. HeldOK(b)'
  <2>1. Lent(b)'
    BY <1>6 DEF Lent
  <2>2. QED
    BY <1>5, <1>6, <2>1 DEF HeldOK
<1>10. PendingOK(b)'
  BY <1>6 DEF PendingOK
<1>11. r \in Imports => RowOK(r)' /\ KnownOK(r)'
  BY <1>6 DEF RowOK, KnownOK
<1>12. /\ \A s \in Requests \ {r} : SameRequest(s)
       /\ \A a \in Backends \ {b} : SameBackend(a)
  BY <1>4 DEF SameRequest, SameBackend, TypeOK
<1>13. QED
  BY <1>2, <1>3, <1>6, <1>7, <1>8, <1>9, <1>10, <1>11, <1>12, ClientStep

(* Deciding rows leaves the outcomes outcomes. *)
LEMMA DecideType ==
  ASSUME TypeOK, NEW r \in Requests, NEW i \in 1 .. NumRows(r), NEW status \in Outcomes,
         Decide(r, i, status) \/ DecideRest(r, i, status)
  PROVE  outcome' \in [Items -> Outcomes]
BY DEF TypeOK, Decide, DecideRest, Outcomes

(* So does a request that ends before it saved anything. *)
LEMMA NothingSavedType ==
  ASSUME TypeOK, NEW r \in Requests, NothingSaved(r)
  PROVE  outcome' \in [Items -> Outcomes]
BY DecideType, RowsOfRequest, Kinds DEF NothingSaved, TypeOK, Outcomes

(* A request that gets no connection ends without one. *)
LEMMA ConnectFailsStep ==
  ASSUME Inductive, NEW r \in Requests, ConnectFails(r)
  PROVE  Inductive'
<1> USE SessionAssumption DEF Inductive, ConnectFails, poolVars, sessionVars, stmtVars, storeVars
<1>1. TypeOK'
  BY NothingSavedType DEF TypeOK, PCs
<1>2. r \in Imports => RowOK(r)'
  BY DEF TypeOK, RowOK
<1>3. QED
  BY <1>1, <1>2, LonelyStep DEF TypeOK, Working, SameRequest

(* So does one whose context ends between two attempts. *)
LEMMA GiveUpStep ==
  ASSUME Inductive, NEW r \in Requests, GiveUp(r)
  PROVE  Inductive'
<1> USE SessionAssumption DEF Inductive, GiveUp, poolVars, sessionVars, stmtVars, storeVars
<1>1. TypeOK'
  BY NothingSavedType DEF TypeOK, PCs
<1>2. r \in Imports => RowOK(r)'
  BY DEF TypeOK, RowOK
<1>3. QED
  BY <1>1, <1>2, LonelyStep DEF TypeOK, Working, SameRequest

(* A request that tries again still has no connection. *)
LEMMA RetryStep ==
  ASSUME Inductive, NEW r \in Requests, Retry(r), UNCHANGED rowVars
  PROVE  Inductive'
<1> USE DEF Inductive, Retry, poolVars, sessionVars, stmtVars, storeVars, rowVars
<1>1. TypeOK'
  BY DEF TypeOK, PCs
<1>2. r \in Imports => RowOK(r)'
  BY DEF TypeOK, RowOK
<1>3. QED
  BY <1>1, <1>2, LonelyStep DEF TypeOK, Working, SameRequest

(* What holds of a request at work and of its connection. *)
LEMMA AtWork ==
  ASSUME Inductive, NEW r \in Requests, pc[r] \in Working
  PROVE  /\ conn[r] \in Backends
         /\ client[conn[r]] = ReplicaOf[r]
         /\ reply[conn[r]] # "none" => live[conn[r]]
         /\ ReplicaOf[r] \in Replicas
         /\ ReplicaOf[r] # NoReplica
         /\ pc[r] \notin {"done", "crashed"}
BY SessionAssumption, RequestsAssumption DEF Inductive, TypeOK, ConnOK, HeldOK, Working

(* A request at work that keeps its connection and its statement. *)
LEMMA KeepStep ==
  ASSUME Inductive, TypeOK', NEW r \in Imports,
         pc[r] \in Working, pc'[r] \in {"list", "row", "insert", "close"},
         \A s \in Requests \ {r} : SameRequest(s),
         UNCHANGED <<conn, client, live, stmt, reply, held, saved, deleted>>,
         StmtOK(r)', RowOK(r)', KnownOK(r)'
  PROVE  Inductive'
<1> USE Kinds DEF Inductive
<1>0. PICK c \in Backends : c = conn[r]
  BY AtWork, Kinds
<1>1. c = conn[r] /\ client[c] = ReplicaOf[r] /\ pc[r] \notin {"done", "crashed"}
  BY <1>0, AtWork
<1>2. ConnOK(r)'
  BY <1>1, Kinds DEF ConnOK, Working
<1>3. HeldOK(c)'
  BY <1>1 DEF HeldOK, Lent
<1>4. PendingOK(c)'
  <2>1. live[c] => stmt[c].by = r
    BY <1>1, SessionAssumption DEF StmtOK
  <2>2. Library' = Library
    BY DEF Library
  <2>3. QED
    BY <1>1, <2>1, <2>2 DEF PendingOK, ItemOf
<1>5. \A b \in Backends \ {c} : SameBackend(b)
  BY DEF SameBackend
<1>6. QED
  BY <1>1, <1>2, <1>3, <1>4, <1>5, ClientStep

(* A request at work that sends its next statement. *)
LEMMA SendStep ==
  ASSUME Inductive, TypeOK', NEW r \in Requests, NEW op, NEW row,
         NEW c \in Backends, c = conn[r],
         pc[r] \in Working, pc'[r] \in Working, <<pc'[r], op>> \in OpAt,
         Send(r, op, row),
         \A s \in Requests \ {r} : SameRequest(s),
         UNCHANGED <<conn, client, live, held, saved, deleted>>,
         pc'[r] \in {"list", "insert", "close"} => r \in Imports,
         pc'[r] \in {"abort", "txinsert", "commit"} => r \in Creates,
         pc'[r] # "lock", pc'[r] # "row",
         pc'[r] = "insert" => row = next'[r],
         live[c] => held[c] = r \/ op \in {"rollback", "unlock"},
         PendingOK(c)',
         r \in Imports => RowOK(r)' /\ KnownOK(r)'
  PROVE  Inductive'
<1> USE DEF Inductive
<1>1. c = conn[r] /\ client[c] = ReplicaOf[r] /\ pc[r] \notin {"done", "crashed"}
  BY AtWork
<1>2. stmt'[c] = [op |-> op, by |-> r, row |-> row] /\ reply'[c] = "none"
  BY <1>1 DEF Send, TypeOK
<1>3. \A b \in Backends \ {c} : SameBackend(b)
  BY <1>1 DEF SameBackend, Send, TypeOK
<1>4. ConnOK(r)'
  BY <1>1 DEF ConnOK, Working
<1>5. StmtOK(r)'
  BY <1>2 DEF StmtOK
<1>6. HeldOK(c)'
  <2>1. Lent(c)'
    BY DEF Lent
  <2>2. op \in {"list", "insert", "unlock", "txinsert", "commit", "rollback"}
    BY DEF OpAt
  <2>3. held[c] # NoRequest => held[c] = r /\ live[c]
    <3>1. StmtOK(r) /\ HeldOK(c) /\ c # NoBackend
      BY SessionAssumption
    <3>2. QED
      BY <1>1, <3>1 DEF HeldOK, StmtOK
  <2>4. QED
    BY <1>1, <1>2, <2>1, <2>2, <2>3 DEF HeldOK
<1>7. QED
  BY <1>1, <1>3, <1>4, <1>5, <1>6, ClientStep

(* A request that returns its connection to the pool. *)
LEMMA ReturnStep ==
  ASSUME Inductive, TypeOK', NEW r \in Requests,
         pc[r] \in Working, pc'[r] \in {"backoff", "done"},
         ReturnConn(r), held[conn[r]] = NoRequest,
         \A s \in Requests \ {r} : pc'[s] = pc[s] /\ known'[s] = known[s] /\ next'[s] = next[s],
         UNCHANGED <<saved, deleted>>,
         r \in Imports => RowOK(r)'
  PROVE  Inductive'
<1> USE DEF Inductive
<1>0. PICK c \in Backends : c = conn[r]
  BY AtWork, Kinds
<1>1. c = conn[r] /\ pc[r] \notin {"done", "crashed"}
  BY <1>0, AtWork
<1>2. conn'[r] = NoBackend /\ stmt'[c] = NoStmt /\ reply'[c] = "none"
  BY <1>1 DEF ReturnConn, TypeOK
<1>3. /\ \A b \in Backends \ {c} : SameBackend(b)
      /\ \A s \in Requests \ {r} : SameRequest(s)
  BY <1>1 DEF SameBackend, SameRequest, ReturnConn, TypeOK, sessionVars
<1>4. ConnOK(r)' /\ StmtOK(r)' /\ (r \in Imports => KnownOK(r)')
  BY <1>2 DEF ConnOK, Working, StmtOK, KnownOK
<1>5. HeldOK(c)' /\ PendingOK(c)'
  BY <1>2 DEF HeldOK, PendingOK, NoStmt, ReturnConn, sessionVars
<1>6. held' = held
  BY DEF ReturnConn, sessionVars
<1>7. QED
  BY <1>1, <1>2, <1>3, <1>4, <1>5, <1>6, ClientStep

(* A request that discards its connection: it is done, unless it was rolling back. *)
LEMMA DiscardStep ==
  ASSUME Inductive, TypeOK', NEW r \in Requests,
         pc[r] \in Working, pc'[r] \in {"backoff", "done"},
         pc'[r] = "done" \/ pc[r] = "abort",
         DiscardConn(r),
         \A s \in Requests \ {r} : pc'[s] = pc[s] /\ known'[s] = known[s] /\ next'[s] = next[s],
         UNCHANGED <<saved, deleted>>
  PROVE  Inductive'
<1> USE SessionAssumption DEF Inductive
<1>0. PICK c \in Backends : c = conn[r]
  BY AtWork, Kinds
<1>1. c = conn[r] /\ pc[r] \notin {"done", "crashed"}
  BY <1>0, AtWork
<1>2. /\ conn'[r] = NoBackend /\ client'[c] = NoReplica
      /\ stmt'[c] = IF live[c] THEN stmt[c] ELSE NoStmt
      /\ reply'[c] = reply[c] /\ live'[c] = live[c] /\ held'[c] = held[c]
  BY <1>1 DEF DiscardConn, TypeOK, sessionVars
<1>3. /\ \A b \in Backends \ {c} : SameBackend(b)
      /\ \A s \in Requests \ {r} : SameRequest(s)
  BY <1>1 DEF SameBackend, SameRequest, DiscardConn, TypeOK, sessionVars
<1>4. ConnOK(r)' /\ StmtOK(r)' /\ (r \in Imports => KnownOK(r)')
  BY <1>2 DEF ConnOK, Working, StmtOK, KnownOK
<1>5. HeldOK(c)'
  BY <1>1, <1>2 DEF HeldOK, NoStmt
<1>6. PendingOK(c)'
  <2>1. CASE ~live[c]
    BY <1>2, <2>1 DEF PendingOK
  <2>2. CASE live[c]
    <3>1. stmt[c].by = r /\ <<pc[r], stmt[c].op>> \in OpAt
      BY <1>1, <2>2 DEF StmtOK
    <3>2. stmt[c].op \in {"insert", "commit"} => pc'[r] = "done"
      BY <3>1 DEF OpAt
    <3>3. Library' = Library
      BY DEF Library
    <3>4. QED
      BY <1>1, <1>2, <2>2, <3>1, <3>2, <3>3 DEF PendingOK, ItemOf
  <2>3. QED
    BY <2>1, <2>2
<1>7. r \in Imports => RowOK(r)'
  <2>1. r \in Imports => pc'[r] = "done"
    BY Kinds DEF ConnOK
  <2>2. QED
    BY <2>1 DEF RowOK
<1>8. held' = held
  BY DEF DiscardConn, sessionVars
<1>9. QED
  BY <1>1, <1>2, <1>3, <1>4, <1>5, <1>6, <1>7, <1>8, ClientStep

-----------------------------------------------------------------------------
(* The answer to a lock request. *)

(* A request waiting for its lock holds it exactly when it was granted. *)
LEMMA AtLock ==
  ASSUME Inductive, NEW r \in Requests, NEW c \in Backends, c = conn[r], pc[r] = "lock"
  PROVE  live[c] => held[c] = IF reply[c] = "granted" THEN r ELSE NoRequest
<1>1. c # NoBackend /\ StmtOK(r) /\ HeldOK(c)
  BY SessionAssumption DEF Inductive
<1>2. QED
  BY <1>1 DEF StmtOK, HeldOK, OpAt

(* The lock is granted: a commit lists the library, a create inserts. *)
LEMMA LockGrantedStep ==
  ASSUME Inductive, NEW r \in Requests, LockGranted(r)
  PROVE  Inductive'
<1> USE DEF Inductive, LockGranted, poolVars, sessionVars, storeVars, rowVars
<1>1. PICK c \in Backends : c = conn[r]
  BY AtWork DEF Working
<1>2. live[c] /\ held[c] = r
  BY <1>1, AtWork, AtLock DEF Working, Answered
<1>3. PICK op \in {"list", "txinsert"} :
        /\ pc' = [pc EXCEPT ![r] = op]
        /\ op = "list" <=> r \in Imports
        /\ \E row \in {0, 1} : Send(r, op, row)
  BY Kinds
<1>4. PICK row \in {0, 1} : Send(r, op, row)
  BY <1>3
<1>5. TypeOK'
  <2>1. pc' \in [Requests -> PCs]
    BY <1>3 DEF TypeOK, PCs
  <2>2. [op |-> op, by |-> r, row |-> row] \in Stmts
    BY DEF Stmts, Ops
  <2>3. stmt' \in [Backends -> Stmts] /\ reply' \in [Backends -> Replies]
    BY <1>4, <2>2 DEF TypeOK, Replies, Send
  <2>4. QED
    BY <2>1, <2>3 DEF TypeOK
<1>6. pc'[r] = op /\ stmt'[c].op = op /\ reply'[c] = "none"
  BY <1>1, <1>3, <1>4 DEF TypeOK, Send
<1>7. PendingOK(c)'
  BY <1>6 DEF PendingOK
<1>8. r \in Imports => RowOK(r)' /\ KnownOK(r)'
  BY <1>1, <1>3, <1>6 DEF RowOK, KnownOK
<1>9. \A s \in Requests \ {r} : SameRequest(s)
  BY <1>3 DEF SameRequest, TypeOK
<1>10. QED
  BY <1>1, <1>2, <1>3, <1>4, <1>5, <1>6, <1>7, <1>8, <1>9, Kinds, SendStep DEF Working, OpAt

(* Discarding a connection keeps every type. *)
LEMMA DiscardType ==
  ASSUME TypeOK, NEW r \in Requests, DiscardConn(r)
  PROVE  /\ conn' \in [Requests -> Backends \union {NoBackend}]
         /\ client' \in [Backends -> Replicas \union {NoReplica}]
         /\ live' \in [Backends -> BOOLEAN]
         /\ stmt' \in [Backends -> Stmts]
         /\ reply' \in [Backends -> Replies]
         /\ held' \in [Backends -> Requests \union {NoRequest}]
BY DEF DiscardConn, TypeOK, Stmts, Ops, NoStmt, sessionVars

(* No clear answer: the connection, which may hold the lock, is discarded. *)
LEMMA LockFailsStep ==
  ASSUME Inductive, NEW r \in Requests, LockFails(r)
  PROVE  Inductive'
<1> USE DEF Inductive, LockFails, storeVars
<1>1. TypeOK'
  BY NothingSavedType, DiscardType, SessionAssumption DEF TypeOK, PCs, AnswerLost
<1>2. QED
  BY <1>1, DiscardStep DEF Working, TypeOK

(* The lock is busy: nothing is held, so the connection can be pooled. *)
LEMMA LockBusyStep ==
  ASSUME Inductive, NEW r \in Requests, LockBusy(r), UNCHANGED rowVars
  PROVE  Inductive'
<1> USE DEF Inductive, LockBusy, storeVars, rowVars
<1>1. PICK c \in Backends : c = conn[r]
  BY AtWork DEF Working
<1>2. live[c] /\ held[c] = NoRequest
  BY <1>1, AtWork, AtLock DEF Working, Answered
<1>3. CASE r \in Imports /\ ReturnConn(r) /\ pc' = [pc EXCEPT ![r] = "backoff"]
  <2>1. TypeOK'
    BY <1>3, AtWork, SessionAssumption
       DEF TypeOK, PCs, Stmts, Ops, Replies, NoStmt, ReturnConn, sessionVars, Working
  <2>2. RowOK(r)'
    BY <1>3, Kinds DEF RowOK, TypeOK
  <2>3. QED
    BY <1>1, <1>2, <1>3, <2>1, <2>2, ReturnStep DEF Working, TypeOK
<1>4. CASE /\ r \in Creates
           /\ Send(r, "rollback", 0)
           /\ pc' = [pc EXCEPT ![r] = "abort"]
           /\ UNCHANGED <<poolVars, sessionVars>>
  <2> USE <1>4 DEF poolVars, sessionVars
  <2>1. TypeOK'
    BY DEF TypeOK, PCs, Stmts, Ops, Replies, Send
  <2>2. pc'[r] = "abort" /\ stmt'[c].op = "rollback"
    BY <1>1 DEF TypeOK, Send
  <2>3. PendingOK(c)'
    BY <2>2 DEF PendingOK
  <2>4. \A s \in Requests \ {r} : SameRequest(s)
    BY DEF SameRequest, TypeOK
  <2>5. QED
    BY <1>1, <2>1, <2>2, <2>3, <2>4, Kinds, SendStep DEF Working, OpAt
<1>5. QED
  BY <1>3, <1>4

-----------------------------------------------------------------------------
(* A commit's rows. *)

(* The deferred Close: the unlock is sent. *)
LEMMA BeginCloseStep ==
  ASSUME Inductive, TypeOK', NEW r \in Imports, pc[r] \in {"list", "row", "insert"},
         BeginClose(r),
         UNCHANGED <<conn, client, live, held, known, saved, deleted, next>>
  PROVE  Inductive'
<1> USE Kinds DEF Inductive
<1>1. PICK c \in Backends : c = conn[r]
  BY AtWork DEF Working
<1>2. pc'[r] = "close" /\ stmt'[c].op = "unlock" /\ Send(r, "unlock", 0)
  BY <1>1 DEF BeginClose, TypeOK, Send
<1>3. PendingOK(c)'
  BY <1>2 DEF PendingOK
<1>4. RowOK(r)' /\ KnownOK(r)'
  BY <1>2 DEF RowOK, KnownOK
<1>5. \A s \in Requests \ {r} : SameRequest(s)
  BY DEF SameRequest, TypeOK, BeginClose
<1>6. QED
  BY <1>1, <1>2, <1>3, <1>4, <1>5, SendStep DEF Working, OpAt

(* Sending the unlock keeps every type. *)
LEMMA BeginCloseType ==
  ASSUME TypeOK, NEW r \in Requests, BeginClose(r)
  PROVE  /\ stmt' \in [Backends -> Stmts]
         /\ reply' \in [Backends -> Replies]
         /\ pc' \in [Requests -> PCs]
BY DEF BeginClose, Send, TypeOK, Stmts, Ops, Replies, PCs

(* The library was read, or the commit ends. *)
LEMMA ListedStep ==
  ASSUME Inductive, NEW r \in Imports, Listed(r)
  PROVE  Inductive'
<1> USE Kinds DEF Inductive, Listed
<1>1. PICK c \in Backends : c = conn[r]
  BY AtWork DEF Working
<1>2. CASE /\ Answered(r, {"ok"})
           /\ pc' = [pc EXCEPT ![r] = "row"]
           /\ UNCHANGED <<poolVars, sessionVars, stmtVars, storeVars, faults, outcome>>
  <2> USE <1>2 DEF poolVars, sessionVars, stmtVars, storeVars
  <2>1. TypeOK'
    BY DEF TypeOK, PCs
  <2>2. pc'[r] = "row"
    BY DEF TypeOK
  <2>3. Library' = Library
    BY DEF Library
  <2>4. StmtOK(r)'
    BY <2>2 DEF StmtOK, OpAt, Answered
  <2>5. RowOK(r)'
    BY <2>2 DEF RowOK
  <2>6. KnownOK(r)'
    BY <2>2, <2>3 DEF KnownOK, Answered
  <2>7. \A s \in Requests \ {r} : SameRequest(s)
    BY DEF SameRequest, TypeOK
  <2>8. QED
    BY <2>1, <2>2, <2>4, <2>5, <2>6, <2>7, KeepStep DEF Working
<1>3. CASE /\ Answered(r, {"error"})
           /\ NothingSaved(r)
           /\ BeginClose(r)
           /\ UNCHANGED <<poolVars, sessionVars, storeVars, faults>>
  <2> USE <1>3 DEF poolVars, sessionVars, storeVars
  <2>1. TypeOK'
    BY BeginCloseType, NothingSavedType DEF TypeOK
  <2>2. QED
    BY <2>1, BeginCloseStep
<1>4. CASE /\ AnswerLost(r)
           /\ NothingSaved(r)
           /\ CloseBroken(r)
           /\ UNCHANGED <<saved, deleted>>
  <2> USE <1>4 DEF CloseBroken
  <2>1. TypeOK'
    BY DiscardType, NothingSavedType, SessionAssumption DEF TypeOK, PCs, AnswerLost
  <2>2. QED
    BY <2>1, DiscardStep DEF Working, TypeOK
<1>5. QED
  BY <1>2, <1>3, <1>4

(* A commit at work in a live session holds its lock there. *)
LEMMA AtRowHolds ==
  ASSUME Inductive, NEW r \in Imports, NEW c \in Backends, c = conn[r],
         pc[r] \in {"list", "row", "insert"}, live[c]
  PROVE  held[c] = r
<1>1. c # NoBackend /\ StmtOK(r) /\ HeldOK(c)
  BY SessionAssumption, Kinds DEF Inductive
<1>2. QED
  BY <1>1 DEF StmtOK, HeldOK, OpAt

(* A row that is decided without a statement: nothing else changes. *)
LEMMA RowPassed ==
  ASSUME Inductive, NEW r \in Imports, NEW status \in {"failed", "skipped"},
         AtRow(r), Decide(r, next[r], status), next' = [next EXCEPT ![r] = @ + 1],
         UNCHANGED <<pc, ctxEnded, poolVars, sessionVars, stmtVars, storeVars, faults>>
  PROVE  Inductive'
<1> USE Kinds DEF Inductive, AtRow, poolVars, sessionVars, stmtVars, storeVars
<1>1. next[r] \in 1 .. NumRows(r)
  BY RowsOfRequest DEF TypeOK
<1>2. TypeOK'
  <2>1. outcome' \in [Items -> Outcomes]
    BY <1>1, DecideType DEF Outcomes
  <2>2. next' \in [Requests -> Nat \ {0}]
    BY DEF TypeOK
  <2>3. QED
    BY <2>1, <2>2 DEF TypeOK
<1>3. Library' = Library
  BY DEF Library
<1>4. StmtOK(r)'
  BY DEF StmtOK
<1>5. RowOK(r)'
  <2>1. ASSUME NEW item \in saved, item[1] = r PROVE item[2] < next'[r]
    BY <2>1, ItemParts, RowsOfRequest DEF RowOK, TypeOK
  <2>2. QED
    BY <2>1 DEF RowOK
<1>6. KnownOK(r)'
  BY <1>3 DEF KnownOK
<1>7. \A s \in Requests \ {r} : SameRequest(s)
  BY DEF SameRequest, TypeOK
<1>8. QED
  BY <1>2, <1>4, <1>5, <1>6, <1>7, KeepStep DEF Working

(* The row sent is new to a library the tracker knows completely. *)
LEMMA InsertRowStep ==
  ASSUME Inductive, NEW r \in Imports, InsertRow(r)
  PROVE  Inductive'
<1> USE Kinds DEF Inductive, InsertRow, AtRow, poolVars, sessionVars, storeVars, rowVars
<1>1. PICK c \in Backends : c = conn[r]
  BY AtWork DEF Working
<1>2. TypeOK'
  BY DEF TypeOK, PCs, Stmts, Ops, Replies, Send
<1>3. /\ pc'[r] = "insert"
      /\ stmt'[c] = [op |-> "insert", by |-> r, row |-> next[r]]
      /\ reply'[c] = "none"
  BY <1>1 DEF TypeOK, Send
<1>4. Library' = Library
  BY DEF Library
<1>5. live[c] => \A item \in Library :
                   OwnerOfItem(item) = OwnerOf[r] => KeysOf(item) \subseteq known[r]
  BY <1>1, SessionAssumption DEF KnownOK
<1>6. ItemOf(stmt'[c]) = RowItem(r) /\ RowItem(r) \in Items
  <2>1. next[r] \in 1 .. NumRows(r)
    BY RowsOfRequest DEF TypeOK
  <2>2. QED
    BY <1>3, <2>1, ItemOfRow DEF ItemOf, RowItem
<1>7. PendingOK(c)'
  <2>1. live[c] => KeysOf(RowItem(r)) \intersect OwnedKeys(Library, OwnerOf[r]) = {}
    BY <1>5 DEF OwnedKeys
  <2>2. QED
    BY <1>1, <1>3, <1>4, <1>6, <2>1 DEF PendingOK, ItemOf, RowItem
<1>8. RowOK(r)' /\ KnownOK(r)'
  <2>1. RowOK(r)'
    BY <1>3 DEF RowOK
  <2>2. KnownOK(r)'
    BY <1>1, <1>3, <1>4, <1>5 DEF KnownOK
  <2>3. QED
    BY <2>1, <2>2
<1>9. live[c] => held[c] = r
  BY <1>1, AtRowHolds
<1>10. \A s \in Requests \ {r} : SameRequest(s)
  BY DEF SameRequest, TypeOK
<1>11. QED
  BY <1>1, <1>2, <1>3, <1>7, <1>8, <1>9, <1>10, SendStep DEF Working, OpAt

(* An insert that was answered is one whose row is stored, or is not. *)
LEMMA RowAnsweredStep ==
  ASSUME Inductive, NEW r \in Imports, RowAnswered(r)
  PROVE  Inductive'
<1> USE Kinds DEF Inductive, RowAnswered, poolVars, sessionVars, stmtVars, Answered
<1>1. PICK c \in Backends : c = conn[r]
  BY AtWork DEF Working
<1>2. live[c] /\ c # NoBackend
  BY <1>1, AtWork, SessionAssumption DEF Working
<1>3. RowItem(r) \in Items /\ next[r] \in 1 .. NumRows(r)
  <2>1. StmtOK(r) /\ PendingOK(c)
    OBVIOUS
  <2>2. ItemOf(stmt[c]) \in Items /\ ItemOf(stmt[c]) = RowItem(r)
    BY <1>1, <1>2, <2>1 DEF StmtOK, PendingOK, OpAt, ItemOf, RowItem
  <2>3. QED
    BY <2>2, ItemParts DEF RowItem
<1>4. /\ pc'[r] = "row"
      /\ next'[r] = next[r] + 1
      /\ \A s \in Requests \ {r} : SameRequest(s)
  BY DEF TypeOK, SameRequest
<1>5. Library' = Library
  BY DEF Library
<1>6. TypeOK'
  <2>1. outcome' \in [Items -> Outcomes]
    BY <1>3, DecideType DEF Outcomes
  <2>2. known' \in [Requests -> SUBSET Keys]
    BY <1>3, KeysOfItem DEF TypeOK
  <2>3. QED
    BY <2>1, <2>2 DEF TypeOK, PCs
<1>7. StmtOK(r)'
  BY <1>1, <1>4 DEF StmtOK, OpAt
<1>8. RowOK(r)'
  BY <1>4, ItemParts, RowsOfRequest DEF RowOK, TypeOK
<1>9. KnownOK(r)'
  <2>1. ASSUME NEW item \in Library, OwnerOfItem(item) = OwnerOf[r],
               ~(KeysOf(item) \subseteq known[r])
        PROVE  item = RowItem(r)
    BY <1>1, <1>2, <2>1 DEF KnownOK
  <2>2. CASE reply[conn[r]] = "ok"
    <3>1. known'[r] = known[r] \union KeysOf(RowItem(r))
      BY <2>2 DEF TypeOK
    <3>2. QED
      BY <1>4, <1>5, <2>1, <3>1 DEF KnownOK
  <2>3. CASE reply[conn[r]] = "error"
    <3>1. RowItem(r) \notin saved
      <4>1. next[r] \in Nat /\ RowItem(r)[1] = r /\ RowItem(r)[2] = next[r]
        BY DEF TypeOK, RowItem
      <4>2. QED
        BY <1>1, <1>2, <2>3, <4>1 DEF RowOK
    <3>2. known' = known
      BY <2>3
    <3>3. QED
      BY <1>5, <2>1, <3>1, <3>2 DEF KnownOK, Library
  <2>4. QED
    BY <2>2, <2>3
<1>10. QED
  BY <1>4, <1>6, <1>7, <1>8, <1>9, KeepStep DEF Working

(* A save that cannot be confirmed ends the commit, in either way. *)
LEMMA RowUnknownStep ==
  ASSUME Inductive, NEW r \in Imports, RowUnknown(r)
  PROVE  Inductive'
<1> USE Kinds DEF Inductive, RowUnknown
<1>1. outcome' \in [Items -> Outcomes]
  BY DEF DecideRest, TypeOK, Outcomes
<1>2. CASE BeginClose(r) /\ UNCHANGED <<poolVars, sessionVars, storeVars, faults>>
  <2> USE <1>2 DEF poolVars, sessionVars, storeVars
  <2>1. TypeOK'
    BY <1>1, BeginCloseType DEF TypeOK
  <2>2. QED
    BY <2>1, BeginCloseStep
<1>3. CASE AnswerLost(r) /\ CloseBroken(r) /\ UNCHANGED <<saved, deleted>>
  <2> USE <1>3 DEF CloseBroken
  <2>1. TypeOK'
    BY <1>1, DiscardType, SessionAssumption DEF TypeOK, PCs, AnswerLost
  <2>2. QED
    BY <2>1, DiscardStep DEF Working, TypeOK
<1>4. QED
  BY <1>2, <1>3

(* The rows are over and the lock is given up. *)
LEMMA EndRowsStep ==
  ASSUME Inductive, NEW r \in Imports, EndRows(r)
  PROVE  Inductive'
<1> USE Kinds DEF Inductive, EndRows, poolVars, sessionVars, storeVars
<1>1. outcome' \in [Items -> Outcomes]
  BY DEF DecideRest, TypeOK, Outcomes
<1>2. TypeOK'
  BY <1>1, BeginCloseType DEF TypeOK
<1>3. QED
  BY <1>2, BeginCloseStep

-----------------------------------------------------------------------------
(* Giving the lock up. *)

(* Returning a connection keeps every type. *)
LEMMA ReturnType ==
  ASSUME TypeOK, NEW r \in Requests, ReturnConn(r)
  PROVE  /\ conn' \in [Requests -> Backends \union {NoBackend}]
         /\ client' \in [Backends -> Replicas \union {NoReplica}]
         /\ live' \in [Backends -> BOOLEAN]
         /\ stmt' \in [Backends -> Stmts]
         /\ reply' \in [Backends -> Replies]
         /\ held' \in [Backends -> Requests \union {NoRequest}]
BY DEF ReturnConn, TypeOK, Stmts, Ops, Replies, NoStmt, sessionVars

(* A lock whose release was confirmed is not held. *)
LEMMA Released ==
  ASSUME Inductive, NEW r \in Requests, pc[r] \in {"close", "abort", "commit"},
         Answered(r, {"ok"})
  PROVE  held[conn[r]] = NoRequest
<1>1. PICK c \in Backends : c = conn[r]
  BY AtWork DEF Working
<1>2. live[c] /\ c # NoBackend /\ StmtOK(r) /\ HeldOK(c)
  BY <1>1, AtWork, SessionAssumption DEF Inductive, Working, Answered
<1>3. QED
  BY <1>1, <1>2 DEF StmtOK, HeldOK, OpAt, Answered

(* Close pools a connection only when the unlock was confirmed. *)
LEMMA CloseStep ==
  ASSUME Inductive, NEW r \in Requests, Close(r), UNCHANGED rowVars
  PROVE  Inductive'
<1> USE DEF Inductive, Close, rowVars
<1>1. CASE Answered(r, {"ok"}) /\ ReturnConn(r) /\ UNCHANGED faults
  <2>1. TypeOK'
    BY <1>1, ReturnType DEF TypeOK, PCs
  <2>2. RowOK(r)'
    BY DEF RowOK, TypeOK
  <2>3. QED
    BY <1>1, <2>1, <2>2, Released, ReturnStep DEF Working, TypeOK
<1>2. CASE DiscardConn(r) /\ (UNCHANGED faults \/ AnswerLost(r))
  <2>1. TypeOK'
    BY <1>2, DiscardType, SessionAssumption DEF TypeOK, PCs, AnswerLost
  <2>2. QED
    BY <1>2, <2>1, DiscardStep DEF Working, TypeOK
<1>3. QED
  BY <1>1, <1>2

-----------------------------------------------------------------------------
(* A create's transaction. *)

(* What a create reports is an outcome. *)
LEMMA CreateDecides ==
  ASSUME TypeOK, NEW r \in Requests, NEW status \in Outcomes, Decide(r, 1, status)
  PROVE  outcome' \in [Items -> Outcomes]
BY DecideType, RowsOfRequest

(* A create whose INSERT was answered commits, rolls back or gives up. *)
LEMMA TxInsertedStep ==
  ASSUME Inductive, NEW r \in Creates, TxInserted(r)
  PROVE  Inductive'
<1> USE Kinds DEF Inductive, TxInserted, storeVars
<1>1. PICK c \in Backends : c = conn[r]
  BY AtWork DEF Working
<1>2. CASE /\ Answered(r, {"ok"})
           /\ Send(r, "commit", 1)
           /\ pc' = [pc EXCEPT ![r] = "commit"]
           /\ UNCHANGED <<poolVars, sessionVars, faults, outcome>>
  <2> USE <1>2 DEF poolVars, sessionVars
  <2>1. TypeOK'
    <3>1. [op |-> "commit", by |-> r, row |-> 1] \in Stmts
      BY DEF Stmts, Ops
    <3>2. stmt' \in [Backends -> Stmts] /\ reply' \in [Backends -> Replies]
      BY <3>1 DEF TypeOK, Replies, Send
    <3>3. QED
      BY <3>2 DEF TypeOK, PCs
  <2>2. /\ pc'[r] = "commit" /\ conn'[r] = c
        /\ stmt'[c] = [op |-> "commit", by |-> r, row |-> 1]
    BY <1>1 DEF TypeOK, Send
  <2>3. PendingOK(c)'
    <3>1. <<r, 1>> \in Items
      BY RowsOfRequest, ItemOfRow
    <3>2. QED
      BY <2>2, <3>1 DEF PendingOK, ItemOf
  <2>4. live[c] => held[c] = r
    <3>1. c # NoBackend /\ StmtOK(r) /\ HeldOK(c)
      BY SessionAssumption
    <3>2. QED
      BY <1>1, <3>1 DEF StmtOK, HeldOK, OpAt
  <2>5. \A s \in Requests \ {r} : SameRequest(s)
    BY DEF SameRequest, TypeOK
  <2>6. QED
    BY <1>1, <2>1, <2>2, <2>3, <2>4, <2>5, SendStep DEF Working, OpAt
<1>3. CASE /\ Answered(r, {"error"})
           /\ Decide(r, 1, "failed")
           /\ Send(r, "rollback", 0)
           /\ pc' = [pc EXCEPT ![r] = "abort"]
           /\ UNCHANGED <<poolVars, sessionVars, faults>>
  <2> USE <1>3 DEF poolVars, sessionVars
  <2>1. TypeOK'
    <3>1. [op |-> "rollback", by |-> r, row |-> 0] \in Stmts
      BY DEF Stmts, Ops
    <3>2. stmt' \in [Backends -> Stmts] /\ reply' \in [Backends -> Replies]
      BY <3>1 DEF TypeOK, Replies, Send
    <3>3. outcome' \in [Items -> Outcomes]
      BY CreateDecides DEF Outcomes
    <3>4. QED
      BY <3>2, <3>3 DEF TypeOK, PCs
  <2>2. pc'[r] = "abort" /\ stmt'[c].op = "rollback"
    BY <1>1 DEF TypeOK, Send
  <2>3. PendingOK(c)'
    BY <2>2 DEF PendingOK
  <2>4. \A s \in Requests \ {r} : SameRequest(s)
    BY DEF SameRequest, TypeOK
  <2>5. QED
    BY <1>1, <2>1, <2>2, <2>3, <2>4, SendStep DEF Working, OpAt
<1>4. CASE /\ AnswerLost(r)
           /\ Decide(r, 1, "failed")
           /\ DiscardConn(r)
           /\ pc' = [pc EXCEPT ![r] = "done"]
  <2> USE <1>4
  <2>1. TypeOK'
    <3>1. outcome' \in [Items -> Outcomes]
      BY CreateDecides DEF Outcomes
    <3>2. QED
      BY <3>1, DiscardType, SessionAssumption DEF TypeOK, PCs, AnswerLost
  <2>2. QED
    BY <2>1, DiscardStep DEF Working, TypeOK
<1>5. QED
  BY <1>2, <1>3, <1>4

(* A create whose transaction was rolled back holds nothing. *)
LEMMA RolledBackStep ==
  ASSUME Inductive, NEW r \in Creates, RolledBack(r)
  PROVE  Inductive'
<1> USE Kinds DEF Inductive, RolledBack, rowVars, storeVars
<1>1. pc'[r] \in {"done", "backoff"} /\ \A s \in Requests \ {r} : pc'[s] = pc[s]
  BY DEF TypeOK
<1>2. CASE Answered(r, {"ok"}) /\ ReturnConn(r) /\ UNCHANGED faults
  <2>1. TypeOK'
    BY <1>2, ReturnType DEF TypeOK, PCs
  <2>2. QED
    BY <1>1, <1>2, <2>1, Released, ReturnStep DEF Working, TypeOK
<1>3. CASE DiscardConn(r) /\ (UNCHANGED faults \/ AnswerLost(r))
  <2>1. TypeOK'
    BY <1>3, DiscardType, SessionAssumption DEF TypeOK, PCs, AnswerLost
  <2>2. QED
    BY <1>1, <1>3, <2>1, DiscardStep DEF Working, TypeOK
<1>4. QED
  BY <1>2, <1>3

(* A create whose COMMIT was answered, or may have been run. *)
LEMMA CommittedStep ==
  ASSUME Inductive, NEW r \in Creates, Committed(r)
  PROVE  Inductive'
<1> USE Kinds DEF Inductive, Committed, storeVars
<1>1. outcome' \in [Items -> Outcomes]
  BY CreateDecides DEF Outcomes
<1>2. CASE Answered(r, {"ok"}) /\ ReturnConn(r) /\ UNCHANGED faults
  <2>1. TypeOK'
    BY <1>1, <1>2, ReturnType DEF TypeOK, PCs
  <2>2. QED
    BY <1>2, <2>1, Released, ReturnStep DEF Working, TypeOK
<1>3. CASE DiscardConn(r) /\ (UNCHANGED faults \/ AnswerLost(r))
  <2>1. TypeOK'
    BY <1>1, <1>3, DiscardType, SessionAssumption DEF TypeOK, PCs, AnswerLost
  <2>2. QED
    BY <1>3, <2>1, DiscardStep DEF Working, TypeOK
<1>4. QED
  BY <1>2, <1>3

-----------------------------------------------------------------------------
(* The server runs a statement. *)

(* Who sent a statement the server has not answered, and what it holds. *)
LEMMA AtServer ==
  ASSUME Inductive, NEW b \in Backends, live[b], stmt[b].op # "none"
  PROVE  /\ stmt[b].by \in Requests
         /\ \A s \in Requests : conn[s] = b => s = stmt[b].by /\ <<pc[s], stmt[b].op>> \in OpAt
BY SessionAssumption DEF Inductive, HeldOK, StmtOK

(* An answer that stores nothing and reads nothing from the library. *)
LEMMA AnswerStep ==
  ASSUME Inductive, TypeOK',
         NEW b \in Backends, live[b], stmt[b].op # "none", reply[b] = "none",
         reply'[b] # "none", stmt[b].op = "list" => reply'[b] # "ok",
         UNCHANGED <<pc, conn, client, live, stmt, known, saved, deleted, next>>,
         \A a \in Backends \ {b} : reply'[a] = reply[a] /\ held'[a] = held[a],
         HeldOK(b)', Exclusive'
  PROVE  Inductive'
<1> USE Kinds DEF Inductive
<1>1. Library' = Library
  BY DEF Library
<1>2. ASSUME NEW r \in Imports PROVE RowOK(r)'
  <2>1. conn[r] \in Backends \union {NoBackend}
    BY DEF TypeOK
  <2>2. pc[r] = "insert" => conn[r] # NoBackend
    BY DEF ConnOK, Working
  <2>3. QED
    BY <2>1, <2>2 DEF RowOK
<1>3. ASSUME NEW r \in Imports PROVE KnownOK(r)'
  <2>1. conn[r] \in Backends \union {NoBackend}
    BY DEF TypeOK
  <2>2. conn[r] = b /\ pc[r] = "list" => stmt[b].op = "list"
    BY AtServer DEF OpAt
  <2>3. RowItem(r)' = RowItem(r)
    BY DEF RowItem
  <2>4. QED
    BY <1>1, <2>1, <2>2, <2>3 DEF KnownOK
<1>4. ASSUME NEW a \in Backends \ {b} PROVE PendingOK(a)'
  BY <1>1 DEF PendingOK, ItemOf
<1>5. QED
  BY <1>2, <1>3, <1>4, ServerStep

(* The lock is granted only when no other session has its key. *)
LEMMA ExecTryLockStep ==
  ASSUME Inductive, NEW b \in Backends, ExecTryLock(b),
         UNCHANGED <<pc, ctxEnded, poolVars, live, stmt, deleted, faults, rowVars>>
  PROVE  Inductive'
<1> USE DEF Inductive, ExecTryLock, Waiting, poolVars, rowVars
<1>1. stmt[b].by \in Requests /\ held[b] = NoRequest
  BY AtServer DEF HeldOK
<1>2. TypeOK'
  BY <1>1 DEF TypeOK, Replies
<1>3. /\ reply'[b] \in {"granted", "refused", "error"}
      /\ held'[b] = IF reply'[b] = "granted" THEN stmt[b].by ELSE NoRequest
      /\ \A a \in Backends \ {b} : reply'[a] = reply[a] /\ held'[a] = held[a]
  BY <1>1 DEF TypeOK
<1>4. HeldOK(b)'
  BY <1>1, <1>3 DEF HeldOK, Lent
<1>5. Exclusive'
  <2>1. ASSUME held'[b] # NoRequest, NEW a \in Backends \ {b}, held'[a] # NoRequest
        PROVE  LockKey(held'[a]) # LockKey(held'[b])
    <3>1. ~ \E other \in Backends \ {b} :
               held[other] # NoRequest /\ LockKey(held[other]) = LockKey(stmt[b].by)
      BY <2>1, <1>1, <1>3
    <3>2. held'[a] = held[a] /\ held'[b] = stmt[b].by
      BY <1>3, <2>1
    <3>3. QED
      BY <2>1, <3>1, <3>2
  <2>2. QED
    BY <1>3, <2>1 DEF Exclusive
<1>6. QED
  BY <1>2, <1>3, <1>4, <1>5, AnswerStep

(* The answer to a List is the snapshot the commit will work with. *)
LEMMA ExecListStep ==
  ASSUME Inductive, NEW b \in Backends, ExecList(b),
         UNCHANGED <<pc, ctxEnded, poolVars, live, stmt, deleted, faults, rowVars>>
  PROVE  Inductive'
<1> USE Kinds DEF Inductive, ExecList, Waiting, poolVars, rowVars
<1>1. PICK r \in Requests : r = stmt[b].by
  BY AtServer
<1>2. \A s \in Requests : conn[s] = b => s = r
  BY <1>1, AtServer
<1>3. TypeOK'
  <2>1. OwnedKeys(Library, OwnerOf[r]) \subseteq Keys
    BY OwnedKeysAreKeys DEF TypeOK, Library
  <2>2. QED
    BY <1>1, <2>1 DEF TypeOK, Replies
<1>4. /\ reply'[b] \in {"ok", "error"}
      /\ \A a \in Backends \ {b} : reply'[a] = reply[a] /\ held'[a] = held[a]
  BY DEF TypeOK
<1>5. HeldOK(b)' /\ Exclusive'
  BY <1>1, <1>4 DEF HeldOK, Lent, Exclusive
<1>6. CASE reply' = [reply EXCEPT ![b] = "error"] /\ UNCHANGED known
  <2>1. reply'[b] # "ok"
    BY <1>6 DEF TypeOK
  <2>2. QED
    BY <1>3, <1>4, <1>5, <1>6, <2>1, AnswerStep
<1>7. CASE known' = IF conn[r] = b
                      THEN [known EXCEPT ![r] = OwnedKeys(Library, OwnerOf[r])]
                      ELSE known
  <2>1. Library' = Library
    BY DEF Library
  <2>2. ASSUME NEW s \in Imports PROVE RowOK(s)'
    <3>1. pc[s] = "insert" => conn[s] # b /\ conn[s] \in Backends
      BY AtServer, AtWork DEF OpAt, Working
    <3>2. QED
      BY <1>4, <3>1 DEF RowOK
  <2>3. ASSUME NEW s \in Imports PROVE KnownOK(s)'
    <3>1. conn[s] \in Backends \union {NoBackend}
      BY DEF TypeOK
    <3>2. RowItem(s)' = RowItem(s)
      BY DEF RowItem
    <3>3. CASE conn[s] = b
      <4>1. known'[s] = OwnedKeys(Library, OwnerOf[s])
        BY <1>2, <1>7, <3>3 DEF TypeOK
      <4>2. \A item \in Library :
               OwnerOfItem(item) = OwnerOf[s] => KeysOf(item) \subseteq known'[s]
        BY <4>1 DEF OwnedKeys
      <4>3. QED
        BY <2>1, <4>2 DEF KnownOK
    <3>4. CASE conn[s] # b
      <4>1. known'[s] = known[s]
        BY <1>7, <3>4 DEF TypeOK
      <4>2. QED
        BY <1>4, <2>1, <3>1, <3>2, <3>4, <4>1 DEF KnownOK
    <3>5. QED
      BY <3>3, <3>4
  <2>4. ASSUME NEW a \in Backends \ {b} PROVE PendingOK(a)'
    BY <1>4, <2>1 DEF PendingOK, ItemOf
  <2>5. QED
    BY <1>3, <1>4, <1>5, <2>2, <2>3, <2>4, ServerStep
<1>8. QED
  BY <1>1, <1>6, <1>7

(***************************************************************************)
(* While a session holds a lock and stores an item, no other session that  *)
(* may insert for that owner, or whose commit relies on what it knows of   *)
(* that owner, sees its library grow.                                      *)
(***************************************************************************)
LEMMA SavedForOneOwner ==
  ASSUME Inductive, NEW b \in Backends, live[b], stmt[b].by \in Requests,
         held[b] = stmt[b].by, saved' = saved \union {ItemOf(stmt[b])}, deleted' = deleted,
         NEW a \in Backends, a # b, held[a] \in Requests,
         NEW item \in Library', OwnerOfItem(item) = OwnerOf[held[a]]
  PROVE  item \in Library
<1>1. OwnerOfItem(ItemOf(stmt[b])) = OwnerOf[held[b]]
  BY DEF OwnerOfItem, ItemOf
<1>2. LockKey(held[a]) # LockKey(held[b])
  BY SessionAssumption DEF Inductive, Exclusive
<1>3. item # ItemOf(stmt[b])
  BY <1>1, <1>2 DEF LockKey
<1>4. QED
  BY <1>3 DEF Library

(* What a save leaves true of every other session. *)
LEMMA SaveElsewhere ==
  ASSUME Inductive, NEW b \in Backends, live[b], stmt[b].by \in Requests,
         held[b] = stmt[b].by, saved' = saved \union {ItemOf(stmt[b])},
         UNCHANGED <<pc, conn, live, stmt, known, deleted, next>>,
         \A a \in Backends \ {b} : reply'[a] = reply[a]
  PROVE  /\ \A a \in Backends \ {b} : PendingOK(a)'
         /\ \A s \in Imports : conn[s] # b => KnownOK(s)'
<1> USE Kinds DEF Inductive
<1>1. ASSUME NEW a \in Backends \ {b} PROVE PendingOK(a)'
  <2>1. CASE ~(live[a] /\ stmt[a].op = "insert")
    BY <1>1, <2>1 DEF PendingOK, ItemOf
  <2>2. CASE live[a] /\ stmt[a].op = "insert"
    <3>1. held[a] = stmt[a].by /\ held[a] \in Requests
      BY <2>2 DEF HeldOK
    <3>2. \A item \in Library' : OwnerOfItem(item) = OwnerOf[stmt[a].by] => item \in Library
      BY <3>1, SavedForOneOwner
    <3>3. OwnedKeys(Library', OwnerOf[stmt[a].by]) \subseteq OwnedKeys(Library, OwnerOf[stmt[a].by])
      BY <3>2 DEF OwnedKeys
    <3>4. QED
      BY <1>1, <2>2, <3>3 DEF PendingOK, ItemOf
  <2>3. QED
    BY <2>1, <2>2
<1>2. ASSUME NEW s \in Imports, conn[s] # b PROVE KnownOK(s)'
  <2>1. CASE conn[s] # NoBackend /\ live[conn[s]] /\ pc[s] \in {"list", "row", "insert"}
    <3>1. PICK a \in Backends : a = conn[s]
      BY <2>1 DEF TypeOK
    <3>2. held[a] = s
      BY <2>1, <3>1, AtRowHolds
    <3>3. \A item \in Library' : OwnerOfItem(item) = OwnerOf[s] => item \in Library
      BY <1>2, <3>1, <3>2, SavedForOneOwner
    <3>4. RowItem(s)' = RowItem(s)
      BY DEF RowItem
    <3>5. reply'[conn[s]] = reply[conn[s]]
      BY <1>2, <3>1
    <3>6. QED
      BY <3>3, <3>4, <3>5 DEF KnownOK
  <2>2. CASE ~(conn[s] # NoBackend /\ live[conn[s]] /\ pc[s] \in {"list", "row", "insert"})
    BY <2>2 DEF KnownOK
  <2>3. QED
    BY <2>1, <2>2
<1>3. QED
  BY <1>1, <1>2

(* The row a commit saves belongs to the one session that holds the lock. *)
LEMMA ExecInsertStep ==
  ASSUME Inductive, NEW b \in Backends, ExecInsert(b),
         UNCHANGED <<pc, ctxEnded, poolVars, live, stmt, deleted, faults, rowVars>>
  PROVE  Inductive'
<1> USE Kinds DEF Inductive, ExecInsert, Waiting, poolVars, rowVars
<1>1. PICK r \in Requests : r = stmt[b].by
  BY AtServer
<1>2. held[b] = r /\ r \in Imports /\ ItemOf(stmt[b]) \in Items
  BY <1>1 DEF HeldOK, PendingOK
<1>3. TypeOK'
  BY <1>2 DEF TypeOK, Replies
<1>4. /\ reply'[b] \in {"ok", "error", "fatal"}
      /\ \A a \in Backends \ {b} : reply'[a] = reply[a] /\ held'[a] = held[a]
  BY DEF TypeOK
<1>5. HeldOK(b)' /\ Exclusive'
  BY <1>1, <1>4 DEF HeldOK, Lent, Exclusive
<1>6. CASE UNCHANGED saved
  BY <1>3, <1>4, <1>5, <1>6, AnswerStep
<1>7. CASE /\ saved' = saved \union {ItemOf(stmt[b])}
           /\ \E answer \in {"ok", "fatal"} : reply' = [reply EXCEPT ![b] = answer]
  <2>1. /\ \A a \in Backends \ {b} : PendingOK(a)'
        /\ \A s \in Imports : conn[s] # b => KnownOK(s)'
    BY <1>1, <1>2, <1>4, <1>7, SaveElsewhere
  <2>2. \A s \in Requests : conn[s] = b =>
          s = r /\ pc[s] = "insert" /\ ItemOf(stmt[b]) = <<s, next[s]>>
    <3>1. ASSUME NEW s \in Requests, conn[s] = b
          PROVE  s = r /\ pc[s] = "insert" /\ ItemOf(stmt[b]) = <<s, next[s]>>
      BY <1>1, <3>1, AtServer, SessionAssumption DEF OpAt, StmtOK, ItemOf
    <3>2. QED
      BY <3>1
  <2>3. reply'[b] \in {"ok", "fatal"}
    BY <1>7 DEF TypeOK
  <2>4. ASSUME NEW s \in Imports PROVE RowOK(s)'
    <3>1. pc[s] = "insert" => conn[s] \in Backends
      BY AtWork DEF Working
    <3>2. conn[r] = b \/ pc[r] \in {"done", "crashed"}
      BY <1>1 DEF PendingOK
    <3>3. CASE s = r /\ conn[s] = b
      <4>1. pc[s] = "insert" /\ ItemOf(stmt[b]) = <<s, next[s]>>
        BY <2>2, <3>3
      <4>2. QED
        BY <1>7, <2>3, <3>3, <4>1 DEF RowOK
    <3>4. CASE s = r /\ pc[s] \in {"done", "crashed"}
      BY <3>4 DEF RowOK
    <3>5. CASE s # r
      <4>1. ItemOf(stmt[b])[1] # s
        BY <1>1, <3>5 DEF ItemOf
      <4>2. conn[s] # b
        BY <2>2, <3>5
      <4>3. QED
        BY <1>4, <1>7, <3>1, <4>1, <4>2 DEF RowOK
    <3>6. QED
      BY <3>2, <3>3, <3>4, <3>5
  <2>5. ASSUME NEW s \in Imports PROVE KnownOK(s)'
    <3>1. CASE conn[s] = b
      <4>1. pc[s] = "insert" /\ ItemOf(stmt[b]) = RowItem(s)
        BY <2>2, <3>1 DEF RowItem
      <4>2. Library' \subseteq Library \union {RowItem(s)}
        BY <1>7, <4>1 DEF Library
      <4>3. RowItem(s)' = RowItem(s)
        BY DEF RowItem
      <4>4. QED
        BY <3>1, <4>1, <4>2, <4>3 DEF KnownOK
    <3>2. QED
      BY <2>1, <3>1
  <2>6. QED
    BY <1>3, <1>4, <1>5, <2>1, <2>4, <2>5, ServerStep
<1>8. QED
  BY <1>6, <1>7

(* A create's INSERT stores nothing yet. *)
LEMMA ExecTxInsertStep ==
  ASSUME Inductive, NEW b \in Backends, ExecTxInsert(b),
         UNCHANGED <<pc, ctxEnded, poolVars, live, stmt, deleted, faults, rowVars>>
  PROVE  Inductive'
<1> USE DEF Inductive, ExecTxInsert, Waiting, poolVars, rowVars
<1>1. TypeOK'
  BY DEF TypeOK, Replies
<1>2. /\ reply'[b] \in {"ok", "error"}
      /\ \A a \in Backends \ {b} : reply'[a] = reply[a] /\ held'[a] = held[a]
  BY DEF TypeOK
<1>3. HeldOK(b)' /\ Exclusive'
  BY <1>2 DEF HeldOK, Lent, Exclusive
<1>4. QED
  BY <1>1, <1>2, <1>3, AnswerStep

(* A COMMIT stores the item and gives the lock up in one step. *)
LEMMA ExecCommitStep ==
  ASSUME Inductive, NEW b \in Backends, ExecCommit(b),
         UNCHANGED <<pc, ctxEnded, poolVars, live, stmt, deleted, faults, rowVars>>
  PROVE  Inductive'
<1> USE Kinds DEF Inductive, ExecCommit, Waiting, poolVars, rowVars
<1>1. PICK r \in Requests : r = stmt[b].by
  BY AtServer
<1>2. held[b] = r /\ r \notin Imports /\ ItemOf(stmt[b]) \in Items
  BY <1>1 DEF HeldOK, PendingOK
<1>3. TypeOK'
  BY <1>2 DEF TypeOK, Replies
<1>4. /\ reply'[b] \in {"ok", "error", "fatal"} /\ held'[b] = NoRequest
      /\ \A a \in Backends \ {b} : reply'[a] = reply[a] /\ held'[a] = held[a]
  BY DEF TypeOK
<1>5. HeldOK(b)'
  BY <1>1, <1>4 DEF HeldOK, Lent
<1>6. Exclusive'
  BY <1>4 DEF Exclusive
<1>7. CASE UNCHANGED saved
  BY <1>3, <1>4, <1>5, <1>6, <1>7, AnswerStep
<1>8. CASE saved' = saved \union {ItemOf(stmt[b])}
  <2>1. /\ \A a \in Backends \ {b} : PendingOK(a)'
        /\ \A s \in Imports : conn[s] # b => KnownOK(s)'
    BY <1>1, <1>2, <1>4, <1>8, SaveElsewhere
  <2>2. \A s \in Imports : conn[s] # b
    BY <1>1, <1>2, AtServer
  <2>3. ASSUME NEW s \in Imports PROVE RowOK(s)'
    <3>1. ItemOf(stmt[b])[1] # s
      BY <1>1, <1>2 DEF ItemOf
    <3>2. pc[s] = "insert" => conn[s] \in Backends
      BY AtWork DEF Working
    <3>3. QED
      BY <1>4, <1>8, <2>2, <3>1, <3>2 DEF RowOK
  <2>4. QED
    BY <1>3, <1>4, <1>5, <1>6, <2>1, <2>2, <2>3, ServerStep
<1>9. QED
  BY <1>7, <1>8

(* An unlock or a rollback gives the lock up, or fails and keeps it. *)
LEMMA ExecReleaseStep ==
  ASSUME Inductive, NEW b \in Backends, ExecRelease(b),
         UNCHANGED <<pc, ctxEnded, poolVars, live, stmt, deleted, faults, rowVars>>
  PROVE  Inductive'
<1> USE DEF Inductive, ExecRelease, Waiting, poolVars, rowVars
<1>1. TypeOK'
  BY DEF TypeOK, Replies
<1>2. /\ reply'[b] \in {"ok", "error"} /\ held'[b] \in {held[b], NoRequest}
      /\ reply'[b] = "ok" => held'[b] = NoRequest
      /\ \A a \in Backends \ {b} : reply'[a] = reply[a] /\ held'[a] = held[a]
  BY DEF TypeOK
<1>3. HeldOK(b)'
  BY <1>2 DEF HeldOK, Lent
<1>4. Exclusive'
  BY <1>2 DEF Exclusive
<1>5. QED
  BY <1>1, <1>2, <1>3, <1>4, AnswerStep

(* Every step of the server. *)
LEMMA ServerRuns ==
  ASSUME Inductive, NEW b \in Backends, Server(b)
  PROVE  Inductive'
<1>1. CASE Exec(b) /\ UNCHANGED rowVars
  BY <1>1, ExecTryLockStep, ExecListStep, ExecInsertStep, ExecTxInsertStep,
     ExecCommitStep, ExecReleaseStep DEF Exec
<1>2. CASE EndSession(b) /\ UNCHANGED rowVars
  <2>1. TypeOK'
    BY <1>2, SessionAssumption
       DEF Inductive, TypeOK, EndSession, SessionGone, NoStmt, Stmts, Ops, Replies,
           poolVars, storeVars, rowVars
  <2>2. QED
    BY <1>2, <2>1, SessionEnds DEF EndSession, poolVars, storeVars, rowVars
<1>3. QED
  BY <1>1, <1>2 DEF Server

-----------------------------------------------------------------------------
(* The world around the requests. *)

(* A step that changes nothing but contexts, or nothing at all. *)
LEMMA ContextStep ==
  ASSUME Inductive, TypeOK',
         UNCHANGED <<pc, poolVars, sessionVars, stmtVars, storeVars, next>>
  PROVE  Inductive'
<1> USE DEF Inductive, poolVars, sessionVars, stmtVars, storeVars
<1>1. Library' = Library
  BY DEF Library
<1>2. ASSUME NEW r \in Requests PROVE ConnOK(r)' /\ StmtOK(r)'
  BY <1>2 DEF ConnOK, StmtOK
<1>3. ASSUME NEW b \in Backends PROVE HeldOK(b)' /\ PendingOK(b)'
  BY <1>1, <1>3 DEF HeldOK, PendingOK, Lent, ItemOf
<1>4. ASSUME NEW r \in Imports PROVE RowOK(r)' /\ KnownOK(r)'
  BY <1>1, <1>4 DEF RowOK, KnownOK, RowItem
<1>5. Exclusive'
  BY DEF Exclusive
<1>6. QED
  BY <1>2, <1>3, <1>4, <1>5

(* The server ends a session that is in use or pooled. *)
LEMMA KillSessionStep ==
  ASSUME Inductive, NEW b \in Backends, KillSession(b), UNCHANGED rowVars
  PROVE  Inductive'
<1>1. TypeOK'
  BY SessionAssumption
     DEF Inductive, TypeOK, KillSession, SessionGone, NoStmt, Stmts, Ops, Replies,
         poolVars, storeVars, rowVars
<1>2. QED
  BY <1>1, SessionEnds DEF KillSession, poolVars, storeVars, rowVars

(* A pooled connection is closed: nobody was using it. *)
LEMMA CloseIdleStep ==
  ASSUME Inductive, NEW b \in Backends, CloseIdle(b), UNCHANGED rowVars
  PROVE  Inductive'
<1> USE DEF Inductive, CloseIdle, sessionVars, stmtVars, storeVars, rowVars
<1>1. TypeOK'
  BY DEF TypeOK
<1>2. Library' = Library /\ client'[b] = NoReplica
      /\ \A a \in Backends \ {b} : client'[a] = client[a]
  BY DEF Library, TypeOK
<1>3. ASSUME NEW r \in Requests PROVE ConnOK(r)' /\ StmtOK(r)'
  <2>1. conn[r] # NoBackend => conn[r] \in Backends \ {b}
    BY DEF Lent, TypeOK
  <2>2. ConnOK(r)'
    BY <1>2, <1>3, <2>1 DEF ConnOK
  <2>3. StmtOK(r)'
    BY <1>3 DEF StmtOK
  <2>4. QED
    BY <2>2, <2>3
<1>4. ASSUME NEW a \in Backends PROVE HeldOK(a)' /\ PendingOK(a)'
  <2>1. HeldOK(a)'
    BY <1>2, <1>4 DEF HeldOK, Lent
  <2>2. PendingOK(a)'
    BY <1>2, <1>4 DEF PendingOK, ItemOf
  <2>3. QED
    BY <2>1, <2>2
<1>5. ASSUME NEW r \in Imports PROVE RowOK(r)' /\ KnownOK(r)'
  BY <1>2, <1>5 DEF RowOK, KnownOK, RowItem
<1>6. Exclusive'
  BY DEF Exclusive
<1>7. QED
  BY <1>1, <1>3, <1>4, <1>5, <1>6

(* A replica dies: its sessions live on with what they were sent. *)
LEMMA CrashStep ==
  ASSUME Inductive, NEW rep \in Replicas, Crash(rep), UNCHANGED rowVars
  PROVE  Inductive'
<1> USE SessionAssumption, Kinds DEF Inductive, Crash, sessionVars, stmtVars, rowVars
<1>1. TypeOK'
  BY DEF TypeOK, PCs
<1>2. Library' = Library
  BY DEF Library
<1>3. ASSUME NEW r \in Requests
      PROVE  \/ /\ pc'[r] = "crashed" /\ conn'[r] = NoBackend
             \/ /\ SameRequest(r)
                /\ conn[r] # NoBackend => ReplicaOf[r] # rep
  BY DEF TypeOK, SameRequest, ConnOK, Working
<1>4. \A b \in Backends : client[b] # rep => client'[b] = client[b]
  BY DEF TypeOK
<1>5. \A b \in Backends : client[b] = rep => client'[b] = NoReplica
  BY DEF TypeOK
<1>6. ASSUME NEW r \in Requests PROVE ConnOK(r)'
  <2>1. CASE pc'[r] = "crashed" /\ conn'[r] = NoBackend
    BY <2>1 DEF ConnOK, Working
  <2>2. CASE SameRequest(r) /\ (conn[r] # NoBackend => ReplicaOf[r] # rep)
    <3>1. conn[r] # NoBackend => client'[conn[r]] = ReplicaOf[r]
      BY <1>4, <2>2 DEF ConnOK, TypeOK
    <3>2. ASSUME conn[r] # NoBackend, NEW s \in Requests, conn'[s] = conn[r] PROVE s = r
      BY <1>3, <3>2 DEF ConnOK, SameRequest
    <3>3. QED
      BY <2>2, <3>1, <3>2 DEF ConnOK, SameRequest
  <2>3. QED
    BY <1>3, <2>1, <2>2
<1>7. ASSUME NEW r \in Requests PROVE StmtOK(r)'
  BY <1>3 DEF StmtOK, SameRequest
<1>8. ASSUME NEW b \in Backends PROVE HeldOK(b)'
  <2>1. ASSUME client'[b] # NoReplica, ~Lent(b)' PROVE ~Lent(b)
    <3>1. client[b] # rep
      BY <1>5, <2>1
    <3>2. ASSUME NEW r \in Requests, conn[r] = b PROVE FALSE
      <4>1. ReplicaOf[r] # rep
        BY <3>1, <3>2 DEF ConnOK
      <4>2. conn'[r] = b
        BY <3>2, <4>1 DEF TypeOK
      <4>3. QED
        BY <2>1, <4>2 DEF Lent
    <3>3. QED
      BY <3>2 DEF Lent
  <2>2. client'[b] # NoReplica => client[b] # NoReplica
    BY <1>4, <1>5
  <2>3. QED
    BY <2>1, <2>2 DEF HeldOK
<1>9. ASSUME NEW b \in Backends PROVE PendingOK(b)'
  <2>1. live[b] /\ stmt[b].op \in {"insert", "commit"} => stmt[b].by \in Requests
    BY DEF HeldOK
  <2>2. QED
    BY <1>2, <1>3, <2>1 DEF PendingOK, ItemOf, SameRequest
<1>10. ASSUME NEW r \in Imports PROVE RowOK(r)'
  BY <1>3 DEF RowOK, SameRequest
<1>11. ASSUME NEW r \in Imports PROVE KnownOK(r)'
  BY <1>2, <1>3 DEF KnownOK, SameRequest, RowItem
<1>12. Exclusive'
  BY DEF Exclusive
<1>13. QED
  BY <1>1, <1>6, <1>7, <1>8, <1>9, <1>10, <1>11, <1>12

(* A delete only shrinks the library. *)
LEMMA DeleteStep ==
  ASSUME Inductive, NEW item, Delete(item), UNCHANGED rowVars
  PROVE  Inductive'
<1> USE DEF Inductive, Delete, poolVars, sessionVars, stmtVars, rowVars
<1>1. TypeOK'
  BY DEF TypeOK, Library
<1>2. Library' \subseteq Library
  BY DEF Library
<1>3. ASSUME NEW r \in Requests PROVE ConnOK(r)' /\ StmtOK(r)'
  BY <1>3 DEF ConnOK, StmtOK
<1>4. ASSUME NEW b \in Backends PROVE HeldOK(b)'
  BY <1>4 DEF HeldOK, Lent
<1>5. ASSUME NEW b \in Backends PROVE PendingOK(b)'
  <2>1. OwnedKeys(Library', OwnerOf[stmt[b].by]) \subseteq OwnedKeys(Library, OwnerOf[stmt[b].by])
    BY <1>2 DEF OwnedKeys
  <2>2. QED
    BY <1>5, <2>1 DEF PendingOK, ItemOf
<1>6. ASSUME NEW r \in Imports PROVE RowOK(r)' /\ KnownOK(r)'
  BY <1>2, <1>6 DEF RowOK, KnownOK, RowItem
<1>7. Exclusive'
  BY DEF Exclusive
<1>8. QED
  BY <1>1, <1>3, <1>4, <1>5, <1>6, <1>7

-----------------------------------------------------------------------------
(* The invariant. *)

(* Nothing has happened yet. *)
LEMMA InductiveInit ==
  ASSUME Init
  PROVE  Inductive
<1> USE SessionAssumption, RequestsAssumption DEF Init, SessionInit
<1>1. TypeOK
  BY DEF TypeOK, PCs, Stmts, Ops, NoStmt, Replies, Outcomes
<1>2. ASSUME NEW r \in Requests PROVE ConnOK(r) /\ StmtOK(r)
  BY <1>2 DEF ConnOK, StmtOK, Working
<1>3. ASSUME NEW b \in Backends PROVE HeldOK(b) /\ PendingOK(b)
  BY <1>3 DEF HeldOK, PendingOK, NoStmt
<1>4. ASSUME NEW r \in Imports PROVE RowOK(r) /\ KnownOK(r)
  BY <1>4, Kinds DEF RowOK, KnownOK
<1>5. Exclusive
  BY DEF Exclusive
<1>6. QED
  BY <1>1, <1>2, <1>3, <1>4, <1>5 DEF Inductive

(* Every step a request takes. *)
LEMMA RequestSteps ==
  ASSUME Inductive, NEW r \in Requests, Arrive(r) \/ Connect(r) \/ Step(r)
  PROVE  Inductive'
<1>1. CASE Arrive(r) \/ Connect(r)
  BY <1>1, ArriveStep, TakeConnStep DEF Connect
<1>2. CASE ConnectFails(r) \/ LockGranted(r) \/ LockFails(r) \/ GiveUp(r)
  BY <1>2, ConnectFailsStep, LockGrantedStep, LockFailsStep, GiveUpStep
<1>3. CASE Session(r)
  BY <1>3, LockBusyStep, RetryStep, CloseStep DEF Session
<1>4. CASE Commit(r)
  <2>1. RefuseRow(r) \/ SkipRow(r) => Inductive'
    BY <1>4, RowPassed DEF RefuseRow, SkipRow, AtRow, Commit
  <2>2. QED
    BY <1>4, <2>1, ListedStep, InsertRowStep, RowAnsweredStep, RowUnknownStep,
       EndRowsStep DEF Commit
<1>5. CASE Create(r)
  BY <1>5, TxInsertedStep, RolledBackStep, CommittedStep DEF Create
<1>6. QED
  BY <1>1, <1>2, <1>3, <1>4, <1>5 DEF Step

(* Every step of the system. *)
LEMMA InductiveNext ==
  ASSUME Inductive, [Next]_vars
  PROVE  Inductive'
<1>1. CASE \E r \in Requests : Arrive(r) \/ Connect(r) \/ Step(r)
  BY <1>1, RequestSteps
<1>2. CASE \E b \in Backends : Server(b)
  BY <1>2, ServerRuns
<1>3. CASE Environment /\ UNCHANGED rowVars
  <2>1. ASSUME NEW r \in Requests, CtxEnds(r), UNCHANGED rowVars PROVE Inductive'
    <3>1. TypeOK'
      BY <2>1 DEF Inductive, TypeOK, CtxEnds, poolVars, sessionVars, stmtVars, storeVars, rowVars
    <3>2. QED
      BY <2>1, <3>1, ContextStep DEF CtxEnds, rowVars
  <2>2. QED
    BY <1>3, <2>1, SessionAssumption, KillSessionStep, CloseIdleStep, CrashStep, DeleteStep
       DEF Environment
<1>4. CASE UNCHANGED vars
  <2> USE <1>4 DEF vars, poolVars, sessionVars, stmtVars, storeVars
  <2>1. TypeOK'
    BY DEF Inductive, TypeOK
  <2>2. QED
    BY <2>1, ContextStep
<1>5. QED
  BY <1>1, <1>2, <1>3, <1>4 DEF Next, Quiet

(***************************************************************************)
(* The inductive invariant holds: for any number of requests, owners,      *)
(* replicas, sessions and rows, and any number of failures.                *)
(***************************************************************************)
THEOREM InductiveHolds == Spec => []Inductive
<1>1. Init => Inductive
  BY InductiveInit
<1>2. Inductive /\ [Next]_vars => Inductive'
  BY InductiveNext
<1>3. QED
  BY <1>1, <1>2, PTL DEF Spec

-----------------------------------------------------------------------------
(* What follows for the properties of ImportCommit. *)

(* Every variable has its type, always. *)
THEOREM TypesHold == Spec => []TypeOK
<1>1. Inductive => TypeOK
  BY DEF Inductive
<1>2. QED
  BY <1>1, InductiveHolds, PTL

(***************************************************************************)
(* A connection back in the pool holds no insert lock and has no statement *)
(* under way, however its request ended (tryCreate, Close, discardConn).   *)
(***************************************************************************)
THEOREM PoolStaysClean == Spec => []PoolClean
<1>1. Inductive => PoolClean
  BY DEF Inductive, HeldOK, PoolClean
<1>2. QED
  BY <1>1, InductiveHolds, PTL

(***************************************************************************)
(* What a commit read under the lock stays all there is to know of its     *)
(* owner's library until it closes the batch (InsertSession.List).         *)
(***************************************************************************)
THEOREM SnapshotStaysComplete == Spec => []SnapshotComplete
<1>1. ASSUME Inductive, NEW r \in Imports, pc[r] \in {"row", "insert"}, live[conn[r]]
      PROVE  \A item \in Library :
               /\ OwnerOfItem(item) = OwnerOf[r]
               /\ ~(KeysOf(item) \subseteq known[r])
               => pc[r] = "insert" /\ item = RowItem(r)
  <2>1. conn[r] # NoBackend
    BY <1>1, Kinds DEF Inductive, ConnOK, Working
  <2>2. KnownOK(r)
    BY <1>1 DEF Inductive
  <2>3. QED
    BY <1>1, <2>1, <2>2 DEF KnownOK
<1>2. Inductive => SnapshotComplete
  BY <1>1 DEF SnapshotComplete
<1>3. QED
  BY <1>2, InductiveHolds, PTL

(* Two sessions never hold the insert lock of one key (ownerLockKey). *)
THEOREM LockIsExclusive == Spec => []Exclusive
<1>1. Inductive => Exclusive
  BY DEF Inductive
<1>2. QED
  BY <1>1, InductiveHolds, PTL

(* Nothing but the server running an INSERT or a COMMIT stores an item. *)
LEMMA OnlyTheServerSaves ==
  ASSUME [Next]_vars
  PROVE  saved' = saved \/ \E b \in Backends : ExecInsert(b) \/ ExecCommit(b)
<1> USE DEF storeVars
<1>1. ASSUME NEW r \in Requests, Arrive(r) \/ Connect(r) \/ Session(r) PROVE saved' = saved
  BY <1>1 DEF Arrive, Connect, TakeConn, Session, LockBusy, Retry, Close
<1>2. ASSUME NEW r \in Requests,
             ConnectFails(r) \/ LockGranted(r) \/ LockFails(r) \/ GiveUp(r) \/ Create(r)
      PROVE  saved' = saved
  BY <1>2 DEF ConnectFails, LockGranted, LockFails, GiveUp, Create, TxInserted, RolledBack,
              Committed
<1>3. ASSUME NEW r \in Requests, Commit(r) PROVE saved' = saved
  BY <1>3 DEF Commit, Listed, RefuseRow, SkipRow, InsertRow, RowAnswered, RowUnknown, EndRows
<1>4. ASSUME NEW b \in Backends, Server(b), saved' # saved
      PROVE  ExecInsert(b) \/ ExecCommit(b)
  BY <1>4 DEF Server, Exec, ExecTryLock, ExecList, ExecTxInsert, ExecRelease, EndSession
<1>5. Environment => saved' = saved
  BY DEF Environment, CtxEnds, KillSession, CloseIdle, Crash, Delete
<1>6. UNCHANGED vars => saved' = saved
  BY DEF vars
<1>7. QED
  BY <1>1, <1>2, <1>3, <1>4, <1>5, <1>6 DEF Next, Step, Quiet

(***************************************************************************)
(* A reviewed import never saves a row that duplicates what the owner's    *)
(* library has at the moment it is stored, whatever other imports and      *)
(* creates do, wherever they run and however they fail (Commit).           *)
(***************************************************************************)
THEOREM NoDuplicateIsSaved == Spec => ImportsNeverDuplicate
<1>1. ASSUME Inductive, [Next]_vars, NEW item \in saved' \ saved, item[1] \in Imports
      PROVE  KeysOf(item) \intersect OwnedKeys(Library, OwnerOfItem(item)) = {}
  <2>1. PICK b \in Backends : ExecInsert(b) \/ ExecCommit(b)
    BY <1>1, OnlyTheServerSaves
  <2>2. item = ItemOf(stmt[b]) /\ item[1] = stmt[b].by
    BY <1>1, <2>1 DEF ExecInsert, ExecCommit, ItemOf
  <2>3. live[b] /\ reply[b] = "none" /\ stmt[b].op = "insert" /\ PendingOK(b)
    BY <1>1, <2>1, <2>2 DEF Inductive, PendingOK, ExecInsert, ExecCommit, Waiting
  <2>4. QED
    BY <2>2, <2>3 DEF PendingOK, OwnerOfItem
<1>2. Inductive /\ [Next]_vars =>
        [\A item \in saved' \ saved :
           item[1] \in Imports =>
             KeysOf(item) \intersect OwnedKeys(Library, OwnerOfItem(item)) = {}]_vars
  BY <1>1
<1>3. QED
  BY <1>2, InductiveHolds, PTL DEF Spec, ImportsNeverDuplicate
=============================================================================
