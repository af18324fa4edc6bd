------------------------- MODULE ImportReportProofs -------------------------
(***************************************************************************)
(* What commits and creates report is true, adds up and has its reasons:   *)
(* the properties of ImportCommit about outcomes, for every value of the   *)
(* constants.                                                              *)
(*                                                                         *)
(* Reports strengthens Inductive with what has been decided of the rows of *)
(* each request, where its tracker has its keys from, and what a statement *)
(* still to be run may store.  Three lemmas frame a step: of a request     *)
(* (RequestReports), of the server running a statement (AnswerReports) and *)
(* of the world around them (WorldReports).                                *)
(***************************************************************************)
EXTENDS ImportCommitProofs

(* A session runs a statement that may store its item. *)
CanSave(b) == live[b] /\ reply[b] = "none" /\ stmt[b].op \in {"insert", "commit"}

NeverStored(item) ==
  /\ item \notin saved
  /\ \A b \in Backends : CanSave(b) => ItemOf(stmt[b]) # item

HasSource(item) ==
  \E other \in saved :
    /\ other # item
    /\ OwnerOfItem(other) = OwnerOfItem(item)
    /\ KeysOf(other) \intersect KeysOf(item) # {}

(* What a report of an item says of it. *)
TrueOf(item, status) ==
  /\ status = "added" => item \in saved
  /\ status \in NotStored => NeverStored(item)
  /\ status = "skipped" => HasSource(item)

Outcome(r, i) == outcome[<<r, i>>]

AllPending(r) == \A i \in 1 .. NumRows(r) : Outcome(r, i) = "pending"

(* What is reported of the rows of a request that is at its end. *)
Stopped(r) ==
  /\ \/ \A i \in 1 .. NumRows(r) : Outcome(r, i) # "pending"
     \/ \A i \in 1 .. NumRows(r) : Outcome(r, i) = "pending" /\ NeverStored(<<r, i>>)
  /\ \A i, j \in 1 .. NumRows(r) :
       i < j /\ Outcome(r, i) \in {"interrupted", "unprocessed"} => Outcome(r, j) = "unprocessed"

(* A commit decides its rows in order. *)
RowsDecided(r) ==
  /\ pc[r] \in {"start", "connect", "lock", "backoff", "list"} => AllPending(r)
  /\ pc[r] \in {"row", "insert"} =>
       /\ \A i \in 1 .. NumRows(r) :
            IF i < next[r] THEN Outcome(r, i) \in {"added", "skipped", "failed"}
                           ELSE Outcome(r, i) = "pending"
       /\ pc[r] = "insert" => next[r] <= NumRows(r)
  /\ pc[r] \in {"close", "done"} => Stopped(r)

(* A create decides its item when it ends, or on the way to its rollback. *)
ItemDecided(r) ==
  /\ pc[r] \in {"start", "connect", "lock", "backoff", "txinsert", "commit"} => AllPending(r)
  /\ pc[r] = "abort" => Outcome(r, 1) \in {"pending", "failed"}
  /\ pc[r] = "done" => Outcome(r, 1) # "pending"
  /\ <<r, 1>> \in saved =>
       \/ pc[r] \in {"done", "crashed"}
       \/ pc[r] = "commit" /\ (live[conn[r]] => reply[conn[r]] \in {"ok", "fatal"})

(* The tracker has its keys from items of its owner. *)
KnownFrom(r) ==
  \A k \in known[r] :
    \E other \in saved : OwnerOfItem(other) = OwnerOf[r] /\ k \in KeysOf(other)

(* A save that was answered was stored. *)
AnswerOK(r) ==
  pc[r] \in {"insert", "commit"} /\ live[conn[r]] /\ reply[conn[r]] = "ok" =>
    <<r, IF pc[r] = "insert" THEN next[r] ELSE 1>> \in saved

(* A statement that may store an item stores one that is new, and an import's
   after the ones before it. *)
SaveOK(b) ==
  CanSave(b) =>
    /\ stmt[b].op = "insert" =>
         /\ KeysOf(ItemOf(stmt[b])) # {}
         /\ \A other \in saved : other[1] = stmt[b].by => other[2] < stmt[b].row
    /\ stmt[b].op = "commit" => ItemOf(stmt[b]) \notin saved

Reports ==
  /\ \A item \in Items : TrueOf(item, outcome[item])
  /\ \A r \in Requests : AnswerOK(r)
  /\ \A r \in Imports : RowsDecided(r) /\ KnownFrom(r)
  /\ \A r \in Creates : ItemDecided(r)
  /\ \A b \in Backends : SaveOK(b)
-----------------------------------------------------------------------------
(* Frames: what has to be looked at when one actor takes a step. *)

(* Whose a statement is that may store something. *)
LEMMA SaveBy ==
  ASSUME Inductive, NEW b \in Backends, CanSave(b)
  PROVE  /\ stmt[b].by \in Requests
         /\ ItemOf(stmt[b]) \in Items
         /\ ItemOf(stmt[b]) = <<stmt[b].by, stmt[b].row>>
         /\ stmt[b].row \in 1 .. NumRows(stmt[b].by)
         /\ ItemOf(stmt[b])[1] = stmt[b].by
         /\ stmt[b].op = "insert" <=> stmt[b].by \in Imports
         /\ held[b] = stmt[b].by
<1>1. HeldOK(b) /\ PendingOK(b)
  BY DEF Inductive
<1>2. stmt[b].by \in Requests /\ held[b] = stmt[b].by /\ ItemOf(stmt[b]) \in Items
  BY <1>1 DEF HeldOK, PendingOK, CanSave
<1>3. ItemOf(stmt[b]) = <<stmt[b].by, stmt[b].row>>
  BY DEF ItemOf
<1>4. stmt[b].row \in 1 .. NumRows(stmt[b].by) /\ ItemOf(stmt[b])[1] = stmt[b].by
  BY <1>2, <1>3, ItemParts
<1>5. stmt[b].op = "insert" <=> stmt[b].by \in Imports
  BY <1>1 DEF PendingOK, CanSave
<1>6. QED
  BY <1>2, <1>3, <1>4, <1>5

(* While a request is under way, only the statement it waits for may store
   something for it. *)
LEMMA OwnSave ==
  ASSUME Inductive, NEW r \in Requests, pc[r] \notin {"done", "crashed"},
         NEW b \in Backends, CanSave(b), stmt[b].by = r
  PROVE  /\ conn[r] = b
         /\ \/ pc[r] = "insert" /\ stmt[b].op = "insert" /\ stmt[b].row = next[r]
            \/ pc[r] = "commit" /\ stmt[b].op = "commit"
<1>1. conn[r] = b
  BY DEF Inductive, PendingOK, CanSave
<1>2. StmtOK(r) /\ conn[r] # NoBackend
  BY <1>1, SessionAssumption DEF Inductive
<1>3. QED
  BY <1>1, <1>2 DEF StmtOK, OpAt, CanSave

(* So one that has its answer, or asked for something else, has nothing pending. *)
LEMMA NothingPending ==
  ASSUME Inductive, NEW r \in Requests, pc[r] \notin {"done", "crashed"},
         pc[r] \in {"insert", "commit"} => reply[conn[r]] # "none",
         NEW b \in Backends, CanSave(b)
  PROVE  stmt[b].by # r
<1>1. SUFFICES ASSUME stmt[b].by = r PROVE FALSE
  OBVIOUS
<1>2. QED
  BY <1>1, OwnSave DEF CanSave

(* Nobody can newly store anything. *)
NoNewSave ==
  \A b \in Backends : CanSave(b)' => CanSave(b) /\ stmt'[b] = stmt[b]

LEMMA NeverStays ==
  ASSUME NoNewSave, saved' = saved, NEW item, NeverStored(item)
  PROVE  NeverStored(item)'
BY DEF NoNewSave, NeverStored, ItemOf

LEMMA TrueStays ==
  ASSUME NoNewSave, saved' = saved, NEW item, NEW status, TrueOf(item, status)
  PROVE  TrueOf(item, status)'
BY NeverStays DEF TrueOf, HasSource

LEMMA SaveStaysOK ==
  ASSUME NoNewSave, saved' = saved, NEW b \in Backends, SaveOK(b)
  PROVE  SaveOK(b)'
BY DEF NoNewSave, SaveOK, ItemOf

(* Reports about another request's rows say what they said. *)
LEMMA OthersDecided ==
  ASSUME NoNewSave, saved' = saved, NEW s \in Requests,
         pc'[s] = pc[s] \/ pc'[s] = "crashed", next'[s] = next[s],
         \A i \in 1 .. NumRows(s) : Outcome(s, i)' = Outcome(s, i),
         RowsDecided(s)
  PROVE  RowsDecided(s)'
<1>1. Stopped(s) => Stopped(s)'
  BY NeverStays DEF Stopped
<1>2. AllPending(s) => AllPending(s)'
  BY DEF AllPending
<1>3. QED
  BY <1>1, <1>2 DEF RowsDecided

LEMMA RequestReports ==
  ASSUME Inductive, Reports, NEW r \in Requests, NEW c,
         c = conn[r] \/ (c \in Backends /\ ~Lent(c)),
         saved' = saved,
         \A s \in Requests \ {r} : SameRequest(s),
         \A b \in Backends \ {c} : SameBackend(b),
         NoNewSave,
         \A item \in Items : outcome'[item] # outcome[item] =>
           item[1] = r /\ TrueOf(item, outcome'[item]),
         AnswerOK(r)',
         r \in Imports => RowsDecided(r)' /\ KnownFrom(r)',
         r \in Creates => ItemDecided(r)'
  PROVE  Reports'
<1>1. ASSUME NEW item \in Items PROVE TrueOf(item, outcome[item])'
  <2>1. TrueOf(item, outcome'[item])
    BY <1>1 DEF Reports
  <2>2. QED
    BY <2>1, TrueStays
<1>2. ASSUME NEW s \in Requests, s # r, NEW i \in 1 .. NumRows(s)
      PROVE  Outcome(s, i)' = Outcome(s, i)
  <2>1. <<s, i>> \in Items /\ <<s, i>>[1] # r
    BY <1>2, ItemOfRow
  <2>2. QED
    BY <2>1 DEF Outcome
<1>3. ASSUME NEW s \in Requests, s # r, pc[s] \in {"insert", "commit"}
      PROVE  SameBackend(conn[s])
  <2>1. conn[s] \in Backends
    BY <1>3, AtWork DEF Working
  <2>2. conn[s] # c
    BY <1>3, <2>1, SessionAssumption DEF Inductive, ConnOK, Lent
  <2>3. QED
    BY <2>1, <2>2
<1>4. ASSUME NEW s \in Requests PROVE AnswerOK(s)'
  <2>1. CASE s # r
    <3>1. AnswerOK(s) /\ SameRequest(s)
      BY <1>4, <2>1 DEF Reports
    <3>2. QED
      BY <1>3, <2>1, <3>1 DEF AnswerOK, SameRequest, SameBackend
  <2>2. QED
    BY <2>1
<1>5. ASSUME NEW s \in Imports PROVE RowsDecided(s)' /\ KnownFrom(s)'
  <2>1. CASE s # r
    <3>1. SameRequest(s) /\ RowsDecided(s) /\ KnownFrom(s)
      BY <1>5, <2>1, Kinds DEF Reports
    <3>2. RowsDecided(s)'
      BY <1>2, <1>5, <2>1, <3>1, OthersDecided, Kinds DEF SameRequest
    <3>3. KnownFrom(s)'
      BY <3>1 DEF KnownFrom, SameRequest
    <3>4. QED
      BY <3>2, <3>3
  <2>2. QED
    BY <2>1
<1>6. ASSUME NEW s \in Creates PROVE ItemDecided(s)'
  <2>1. CASE s # r
    <3>1. SameRequest(s) /\ ItemDecided(s) /\ s \in Requests
      BY <1>6, <2>1, Kinds DEF Reports
    <3>2. AllPending(s) => AllPending(s)'
      BY <1>2, <2>1, <3>1 DEF AllPending
    <3>3. Outcome(s, 1)' = Outcome(s, 1)
      BY <1>2, <2>1, <3>1, RowsOfRequest
    <3>4. QED
      BY <1>3, <2>1, <3>1, <3>2, <3>3 DEF ItemDecided, SameRequest, SameBackend
  <2>2. QED
    BY <2>1, <1>6
<1>7. ASSUME NEW b \in Backends PROVE SaveOK(b)'
  BY <1>7, SaveStaysOK DEF Reports
<1>8. QED
  BY <1>1, <1>4, <1>5, <1>6, <1>7 DEF Reports

(* The server runs the statement of one session, which may store its item. *)
LEMMA AnswerReports ==
  ASSUME Inductive, Reports, NEW b \in Backends, live[b], reply[b] = "none", reply'[b] # "none",
         UNCHANGED <<pc, conn, live, stmt, next, outcome>>,
         \A a \in Backends \ {b} : reply'[a] = reply[a],
         \/ saved' = saved /\ (stmt[b].op \in {"insert", "commit"} => reply'[b] # "ok")
         \/ /\ CanSave(b) /\ saved' = saved \union {ItemOf(stmt[b])}
            /\ reply'[b] \in {"ok", "fatal"},
         \A r \in Imports : KnownFrom(r)'
  PROVE  Reports'
<1> DEFINE it == ItemOf(stmt[b])
<1>1. NoNewSave /\ ~CanSave(b)'
  BY DEF NoNewSave, CanSave
<1>2. saved \subseteq saved' /\ (saved' # saved => CanSave(b) /\ saved' = saved \union {it})
  OBVIOUS
<1>3. ASSUME NEW x, NeverStored(x) PROVE NeverStored(x)'
  BY <1>1, <1>2, <1>3 DEF NeverStored, NoNewSave, ItemOf
<1>4. ASSUME NEW x \in Items PROVE TrueOf(x, outcome[x])'
  <2>1. TrueOf(x, outcome[x])
    BY <1>4 DEF Reports
  <2>2. HasSource(x) => HasSource(x)'
    BY <1>2 DEF HasSource
  <2>3. QED
    BY <1>2, <1>3, <2>1, <2>2 DEF TrueOf
<1>5. ASSUME NEW r \in Requests, conn[r] = b
      PROVE  /\ stmt[b].by = r
             /\ pc[r] = "insert" => stmt[b].op = "insert" /\ stmt[b].row = next[r]
             /\ pc[r] = "commit" <=> stmt[b].op = "commit"
  <2>1. StmtOK(r) /\ conn[r] # NoBackend
    BY <1>5, SessionAssumption DEF Inductive
  <2>2. QED
    BY <1>5, <2>1 DEF StmtOK, OpAt
<1>6. ASSUME NEW r \in Requests PROVE AnswerOK(r)'
  <2>1. CASE conn[r] # b
    <3>1. pc[r] \in {"insert", "commit"} => conn[r] \in Backends \ {b}
      BY <1>6, <2>1, AtWork DEF Working
    <3>2. AnswerOK(r)
      BY <1>6 DEF Reports
    <3>3. QED
      BY <1>2, <3>1, <3>2 DEF AnswerOK
  <2>2. CASE conn[r] = b /\ pc[r] \in {"insert", "commit"} /\ reply'[b] = "ok"
    <3>1. it \in saved' /\ CanSave(b)
      BY <1>5, <2>2 DEF CanSave
    <3>2. it = <<r, stmt[b].row>> /\ stmt[b].row \in 1 .. NumRows(r)
      BY <1>5, <2>2, <3>1, SaveBy
    <3>3. pc[r] = "commit" => stmt[b].row = 1
      <4>1. SUFFICES ASSUME pc[r] = "commit" PROVE stmt[b].row = 1
        OBVIOUS
      <4>2. r \in Creates
        BY <4>1 DEF Inductive, ConnOK
      <4>3. NumRows(r) = 1
        BY <4>2, RequestsAssumption DEF NumRows
      <4>4. QED
        BY <3>2, <4>3
    <3>4. QED
      BY <1>5, <2>2, <3>1, <3>2, <3>3 DEF AnswerOK
  <2>3. QED
    BY <2>1, <2>2 DEF AnswerOK
<1>7. ASSUME NEW r \in Imports PROVE RowsDecided(r)'
  <2>1. RowsDecided(r)
    BY <1>7 DEF Reports
  <2>2. Stopped(r) => Stopped(r)'
    BY <1>3 DEF Stopped, Outcome
  <2>3. AllPending(r) => AllPending(r)'
    BY DEF AllPending, Outcome
  <2>4. QED
    BY <2>1, <2>2, <2>3 DEF RowsDecided, Outcome
<1>8. ASSUME NEW r \in Creates PROVE ItemDecided(r)'
  <2>1. ItemDecided(r) /\ r \in Requests /\ r \notin Imports
    BY <1>8, Kinds DEF Reports
  <2>2. AllPending(r) => AllPending(r)'
    BY DEF AllPending, Outcome
  <2>3. CASE <<r, 1>> \in saved
    <3>1. pc[r] = "commit" => conn[r] \in Backends
      BY <2>1, AtWork DEF Working
    <3>2. QED
      BY <2>1, <2>2, <2>3, <3>1 DEF ItemDecided, Outcome
  <2>4. CASE <<r, 1>> \notin saved /\ <<r, 1>> \in saved'
    <3>1. CanSave(b) /\ it = <<r, 1>> /\ reply'[b] \in {"ok", "fatal"}
      BY <1>2, <2>4
    <3>2. stmt[b].by = r /\ stmt[b].op = "commit"
      BY <2>1, <3>1, SaveBy DEF CanSave
    <3>3. pc[r] \in {"done", "crashed"} \/ (pc[r] = "commit" /\ conn[r] = b)
      BY <2>1, <3>1, <3>2, OwnSave
    <3>4. QED
      BY <2>1, <2>2, <3>1, <3>3 DEF ItemDecided, Outcome
  <2>5. CASE <<r, 1>> \notin saved'
    BY <2>1, <2>2, <2>5 DEF ItemDecided, Outcome
  <2>6. QED
    BY <2>3, <2>4, <2>5
<1>9. ASSUME NEW a \in Backends PROVE SaveOK(a)'
  <2>1. SUFFICES ASSUME CanSave(a)' PROVE SaveOK(a)'
    BY DEF SaveOK
  <2>2. CanSave(a) /\ a # b /\ SaveOK(a) /\ stmt'[a] = stmt[a]
    BY <1>1, <1>9, <2>1 DEF NoNewSave, Reports
  <2>3. CanSave(b) => stmt[a].by # stmt[b].by
    <3>1. SUFFICES ASSUME CanSave(b), stmt[a].by = stmt[b].by PROVE FALSE
      OBVIOUS
    <3>2. held[a] = held[b] /\ held[a] \in Requests
      BY <1>9, <2>2, <3>1, SaveBy
    <3>3. QED
      BY <1>9, <2>2, <3>2, SessionAssumption DEF Inductive, Exclusive
  <2>4. CanSave(b) => it[1] = stmt[b].by /\ ItemOf(stmt[a])[1] = stmt[a].by
    BY <1>9, <2>2, SaveBy
  <2>5. QED
    BY <1>2, <2>2, <2>3, <2>4 DEF SaveOK, ItemOf
<1>10. QED
  BY <1>4, <1>6, <1>7, <1>8, <1>9 DEF Reports

(* Nobody is answered and nothing is stored, though requests and sessions may
   come to their end. *)
LEMMA WorldReports ==
  ASSUME Inductive, Reports, UNCHANGED <<saved, outcome, next>>,
         \A r \in Requests : pc'[r] = "crashed" \/ (pc'[r] = pc[r] /\ conn'[r] = conn[r]),
         \A r \in Imports : known'[r] \subseteq known[r],
         \A b \in Backends : live'[b] =>
           live[b] /\ reply'[b] = reply[b] /\ stmt'[b] = stmt[b]
  PROVE  Reports'
<1>1. NoNewSave
  BY DEF NoNewSave, CanSave
<1>2. \A item \in Items : TrueOf(item, outcome[item])'
  BY <1>1, TrueStays DEF Reports
<1>3. ASSUME NEW r \in Requests, pc[r] \in {"insert", "commit"} PROVE conn[r] \in Backends
  BY <1>3, AtWork DEF Working
<1>4. ASSUME NEW r \in Requests PROVE AnswerOK(r)'
  <2>1. AnswerOK(r)
    BY <1>4 DEF Reports
  <2>2. QED
    BY <1>3, <1>4, <2>1 DEF AnswerOK
<1>5. ASSUME NEW r \in Imports PROVE RowsDecided(r)' /\ KnownFrom(r)'
  <2>1. RowsDecided(r) /\ KnownFrom(r) /\ r \in Requests
    BY <1>5, Kinds DEF Reports
  <2>2. RowsDecided(r)'
    BY <1>1, <2>1, OthersDecided DEF Outcome
  <2>3. KnownFrom(r)'
    BY <1>5, <2>1 DEF KnownFrom
  <2>4. QED
    BY <2>2, <2>3
<1>6. ASSUME NEW r \in Creates PROVE ItemDecided(r)'
  <2>1. ItemDecided(r) /\ r \in Requests
    BY <1>6, Kinds DEF Reports
  <2>2. AllPending(r) => AllPending(r)'
    BY DEF AllPending, Outcome
  <2>3. QED
    BY <1>3, <2>1, <2>2 DEF ItemDecided, Outcome
<1>7. \A b \in Backends : SaveOK(b)'
  BY <1>1, SaveStaysOK DEF Reports
<1>8. QED
  BY <1>2, <1>4, <1>5, <1>6, <1>7 DEF Reports

-----------------------------------------------------------------------------
(* What is not stored. *)

(* Before its first save a request has stored nothing, and nothing is on its
   way to. *)
LEMMA BeforeSaves ==
  ASSUME Inductive, Reports, NEW r \in Requests,
         pc[r] \in {"connect", "lock", "backoff", "list", "txinsert", "abort"},
         NEW i \in 1 .. NumRows(r)
  PROVE  NeverStored(<<r, i>>)
<1>1. \A b \in Backends : CanSave(b) => ItemOf(stmt[b]) # <<r, i>>
  BY NothingPending, SaveBy
<1>2. CASE r \in Imports
  <2>1. RowOK(r) /\ pc[r] \notin {"txinsert", "abort"}
    BY <1>2, Kinds DEF Inductive, ConnOK
  <2>2. \A item \in saved : item[1] = r => item[2] < 1
    BY <2>1 DEF RowOK
  <2>3. <<r, i>> \notin saved
    BY <2>2
  <2>4. QED
    BY <1>1, <2>3 DEF NeverStored
<1>3. CASE r \in Creates
  <2>1. ItemDecided(r) /\ NumRows(r) = 1
    BY <1>3, RequestsAssumption DEF Reports, NumRows
  <2>2. QED
    BY <1>1, <2>1 DEF ItemDecided, NeverStored
<1>4. QED
  BY <1>2, <1>3, Kinds

(* The rows an import is not yet at, and the one it is at when the server has
   refused to store it, are not stored. *)
LEMMA LaterRows ==
  ASSUME Inductive, NEW r \in Imports, pc[r] \in {"row", "insert"},
         NEW i \in 1 .. NumRows(r),
         \/ pc[r] = "row" /\ i >= next[r]
         \/ pc[r] = "insert" /\ i > next[r]
         \/ pc[r] = "insert" /\ i = next[r] /\ reply[conn[r]] = "error"
  PROVE  NeverStored(<<r, i>>)
<1>1. r \in Requests /\ RowOK(r) /\ next[r] \in Nat
  BY Kinds DEF Inductive, TypeOK
<1>2. <<r, i>> \notin saved
  <2>1. SUFFICES ASSUME <<r, i>> \in saved PROVE FALSE
    OBVIOUS
  <2>2. i < next[r] \/ (pc[r] = "insert" /\ i = next[r] /\ (live[conn[r]] => reply[conn[r]] \in {"ok", "fatal"}))
    BY <1>1, <2>1 DEF RowOK
  <2>3. reply[conn[r]] = "error" => live[conn[r]]
    BY <1>1, AtWork DEF Working
  <2>4. QED
    BY <1>1, <2>2, <2>3
<1>3. ASSUME NEW b \in Backends, CanSave(b), ItemOf(stmt[b]) = <<r, i>> PROVE FALSE
  <2>1. stmt[b].by = r /\ stmt[b].row = i
    BY <1>3, SaveBy
  <2>2. conn[r] = b /\ pc[r] = "insert" /\ i = next[r]
    BY <1>1, <1>3, <2>1, OwnSave, SaveBy DEF CanSave
  <2>3. QED
    BY <1>1, <1>3, <2>2 DEF CanSave
<1>4. QED
  BY <1>2, <1>3 DEF NeverStored

(* What NothingSaved decides. *)
LEMMA NothingSavedDecides ==
  ASSUME Inductive, Reports, NEW r \in Requests, NothingSaved(r),
         pc[r] \in {"connect", "lock", "backoff", "list"},
         saved' = saved, NoNewSave,
         pc'[r] = "done" \/ (pc'[r] = "close" /\ r \in Imports)
  PROVE  /\ \A item \in Items : outcome'[item] # outcome[item] =>
              item[1] = r /\ TrueOf(item, outcome'[item])
         /\ AnswerOK(r)'
         /\ r \in Imports => RowsDecided(r)'
         /\ r \in Creates => ItemDecided(r)'
<1>1. \A i \in 1 .. NumRows(r) : NeverStored(<<r, i>>) /\ NeverStored(<<r, i>>)'
  BY BeforeSaves, NeverStays
<1>2. AllPending(r)
  <2>1. pc[r] = "list" => r \in Imports
    BY DEF Inductive, ConnOK
  <2>2. QED
    BY <2>1, Kinds DEF Reports, RowsDecided, ItemDecided
<1>3. AnswerOK(r)'
  BY DEF AnswerOK
<1>4. CASE r \in Creates
  <2>1. Decide(r, 1, "failed") /\ NumRows(r) = 1 /\ <<r, 1>> \in Items
    <3>1. NumRows(r) = 1
      BY <1>4, RequestsAssumption DEF NumRows
    <3>2. QED
      BY <1>4, <3>1, ItemOfRow, Kinds DEF NothingSaved
  <2>2. /\ outcome'[<<r, 1>>] = "failed"
        /\ \A item \in Items : item # <<r, 1>> => outcome'[item] = outcome[item]
    BY <2>1 DEF Decide, Inductive, TypeOK
  <2>3. TrueOf(<<r, 1>>, "failed")
    BY <1>1, <2>1 DEF TrueOf
  <2>4. ItemDecided(r)' /\ r \notin Imports
    BY <1>1, <1>4, <2>1, <2>2, Kinds DEF ItemDecided, Outcome, NeverStored
  <2>5. QED
    BY <1>3, <2>2, <2>3, <2>4
<1>5. CASE r \in Imports /\ ctxEnded[r]
  <2>1. DecideRest(r, 1, "unprocessed") /\ r \notin Creates
    BY <1>5, Kinds DEF NothingSaved
  <2>2. \A item \in Items :
          outcome'[item] = IF item[1] = r THEN "unprocessed" ELSE outcome[item]
    <3>1. SUFFICES ASSUME NEW item \in Items
                   PROVE outcome'[item] = IF item[1] = r THEN "unprocessed" ELSE outcome[item]
      OBVIOUS
    <3>2. item[1] = r => item[2] = 1 \/ item[2] > 1
      BY <3>1, ItemParts, RowsOfRequest
    <3>3. QED
      BY <2>1, <3>1, <3>2 DEF DecideRest
  <2>3. \A i \in 1 .. NumRows(r) : outcome'[<<r, i>>] = "unprocessed"
    BY <2>2, ItemOfRow
  <2>4. RowsDecided(r)'
    BY <2>3 DEF RowsDecided, Stopped, Outcome
  <2>5. ASSUME NEW item \in Items, item[1] = r PROVE TrueOf(item, "unprocessed")
    BY <1>1, <2>5, ItemParts DEF TrueOf
  <2>6. QED
    BY <1>3, <2>1, <2>2, <2>4, <2>5
<1>6. CASE r \in Imports /\ ~ctxEnded[r]
  <2>1. outcome' = outcome /\ r \notin Creates
    BY <1>6, Kinds DEF NothingSaved
  <2>2. RowsDecided(r)'
    BY <1>1, <1>2, <2>1 DEF RowsDecided, Stopped, AllPending, Outcome
  <2>3. QED
    BY <1>3, <2>1, <2>2
<1>7. QED
  BY <1>4, <1>5, <1>6, Kinds

-----------------------------------------------------------------------------
(* What a request does with its connection. *)

(* A statement is sent: nothing new is stored unless it is a save. *)
LEMMA SendFrame ==
  ASSUME TypeOK, NEW r \in Requests, NEW c \in Backends, c = conn[r], NEW op, NEW row,
         Send(r, op, row), UNCHANGED <<client, live, held>>
  PROVE  /\ stmt'[c] = [op |-> op, by |-> r, row |-> row] /\ reply'[c] = "none"
         /\ \A b \in Backends \ {c} : SameBackend(b)
         /\ op \notin {"insert", "commit"} => NoNewSave
<1>1. stmt'[c] = [op |-> op, by |-> r, row |-> row] /\ reply'[c] = "none"
  BY DEF Send, TypeOK
<1>2. \A b \in Backends \ {c} : SameBackend(b)
  BY DEF SameBackend, Send, TypeOK
<1>3. op \notin {"insert", "commit"} => NoNewSave
  BY <1>1, <1>2 DEF NoNewSave, CanSave, SameBackend
<1>4. QED
  BY <1>1, <1>2, <1>3

LEMMA AskFrame ==
  ASSUME TypeOK, NEW r \in Requests, NEW c \in Backends, c = conn[r],
         \E op \in {"list", "unlock", "rollback", "txinsert"}, row \in {0, 1} : Send(r, op, row),
         UNCHANGED <<client, live, held>>
  PROVE  (\A b \in Backends \ {c} : SameBackend(b)) /\ NoNewSave
<1>1. PICK op \in {"list", "unlock", "rollback", "txinsert"}, row \in {0, 1} : Send(r, op, row)
  OBVIOUS
<1>2. QED
  BY <1>1, SendFrame

(* A connection is pooled or discarded. *)
LEMMA LeaveFrame ==
  ASSUME TypeOK, NEW r \in Requests, NEW c \in Backends, c = conn[r],
         ReturnConn(r) \/ DiscardConn(r)
  PROVE  /\ \A b \in Backends \ {c} : SameBackend(b)
         /\ \A s \in Requests \ {r} : conn'[s] = conn[s]
         /\ NoNewSave
<1>1. \A b \in Backends \ {c} : SameBackend(b)
  BY DEF SameBackend, ReturnConn, DiscardConn, TypeOK, sessionVars
<1>2. \A s \in Requests \ {r} : conn'[s] = conn[s]
  BY DEF ReturnConn, DiscardConn, TypeOK
<1>3. CanSave(c)' => CanSave(c) /\ stmt'[c] = stmt[c]
  BY DEF CanSave, ReturnConn, DiscardConn, TypeOK, NoStmt, sessionVars
<1>4. QED
  BY <1>1, <1>2, <1>3 DEF NoNewSave, CanSave, SameBackend

(* The lock is still to come: nothing is decided. *)
LEMMA BeforeLockReports ==
  ASSUME Inductive, Reports, NEW r \in Requests, NEW c,
         c = conn[r] \/ (c \in Backends /\ ~Lent(c)),
         UNCHANGED <<saved, outcome, next, known>>,
         \A s \in Requests \ {r} : SameRequest(s),
         \A b \in Backends \ {c} : SameBackend(b),
         NoNewSave,
         pc[r] \in {"start", "connect", "lock", "backoff"},
         \/ pc'[r] \in {"connect", "lock", "backoff"}
         \/ pc'[r] = "list" /\ r \in Imports
         \/ pc'[r] \in {"txinsert", "abort"} /\ r \in Creates
  PROVE  Reports'
<1>1. AnswerOK(r)'
  BY DEF AnswerOK
<1>2. r \in Imports => RowsDecided(r)' /\ KnownFrom(r)'
  BY Kinds DEF Reports, RowsDecided, AllPending, Outcome, KnownFrom
<1>3. r \in Creates => ItemDecided(r)'
  BY Kinds, RowsOfRequest DEF Reports, ItemDecided, AllPending, Outcome
<1>4. QED
  BY <1>1, <1>2, <1>3, RequestReports

LEMMA ArriveReports ==
  ASSUME Inductive, Reports, NEW r \in Requests, Arrive(r)
  PROVE  Reports'
<1> USE DEF Arrive, poolVars, sessionVars, stmtVars, storeVars, rowVars
<1>1. /\ \A s \in Requests \ {r} : SameRequest(s)
      /\ \A b \in Backends : SameBackend(b)
      /\ NoNewSave
  BY DEF Inductive, TypeOK, SameRequest, SameBackend, NoNewSave, CanSave
<1>2. QED
  BY <1>1, BeforeLockReports DEF Inductive, TypeOK

LEMMA TakeConnReports ==
  ASSUME Inductive, Reports, NEW r \in Requests, NEW b \in Backends,
         TakeConn(r, b), UNCHANGED rowVars
  PROVE  Reports'
<1> USE DEF TakeConn, storeVars, rowVars
<1>1. TypeOK
  BY DEF Inductive
<1>2. ~Lent(b)
  BY LentIsOpen DEF PoolOffers
<1>3. \A a \in Backends \ {b} : client'[a] = client[a] /\ live'[a] = live[a]
  BY <1>1 DEF PoolOffers, TypeOK
<1>4. \A a \in Backends \ {b} : SameBackend(a)
  BY <1>1, <1>3 DEF SameBackend, TypeOK
<1>5. ~CanSave(b)'
  BY <1>1 DEF CanSave, TypeOK
<1>6. NoNewSave
  BY <1>4, <1>5 DEF NoNewSave, CanSave, SameBackend
<1>7. \A s \in Requests \ {r} : SameRequest(s)
  BY <1>1 DEF SameRequest, TypeOK
<1>8. pc[r] = "connect" /\ pc'[r] = "lock"
  BY <1>1 DEF TypeOK
<1>9. QED
  BY <1>2, <1>4, <1>6, <1>7, <1>8, BeforeLockReports

LEMMA RetryReports ==
  ASSUME Inductive, Reports, NEW r \in Requests, Retry(r), UNCHANGED rowVars
  PROVE  Reports'
<1> USE DEF Retry, poolVars, sessionVars, stmtVars, storeVars, rowVars
<1>1. /\ \A s \in Requests \ {r} : SameRequest(s)
      /\ \A b \in Backends : SameBackend(b)
      /\ NoNewSave
  BY DEF Inductive, TypeOK, SameRequest, SameBackend, NoNewSave, CanSave
<1>2. QED
  BY <1>1, BeforeLockReports DEF Inductive, TypeOK

LEMMA LockGrantedReports ==
  ASSUME Inductive, Reports, NEW r \in Requests, LockGranted(r)
  PROVE  Reports'
<1> USE DEF LockGranted, poolVars, sessionVars, storeVars, rowVars
<1>1. PICK c \in Backends : c = conn[r]
  BY AtWork DEF Working
<1>2. PICK op \in {"list", "txinsert"}, row \in {0, 1} :
        /\ pc' = [pc EXCEPT ![r] = op]
        /\ op = "list" => r \in Imports
        /\ op = "txinsert" => r \in Creates
        /\ Send(r, op, row)
  OBVIOUS
<1>3. /\ \A b \in Backends \ {c} : SameBackend(b)
      /\ NoNewSave
  BY <1>1, <1>2, SendFrame DEF Inductive
<1>4. pc'[r] = op /\ \A s \in Requests \ {r} : SameRequest(s)
  BY <1>2 DEF SameRequest, Inductive, TypeOK
<1>5. QED
  BY <1>1, <1>2, <1>3, <1>4, BeforeLockReports

LEMMA LockBusyReports ==
  ASSUME Inductive, Reports, NEW r \in Requests, LockBusy(r), UNCHANGED rowVars
  PROVE  Reports'
<1> USE DEF LockBusy, poolVars, sessionVars, storeVars, rowVars
<1>1. PICK c \in Backends : c = conn[r]
  BY AtWork DEF Working
<1>2. CASE r \in Imports /\ ReturnConn(r) /\ pc' = [pc EXCEPT ![r] = "backoff"]
  <2>1. /\ \A b \in Backends \ {c} : SameBackend(b)
        /\ \A s \in Requests \ {r} : conn'[s] = conn[s]
        /\ NoNewSave
    BY <1>1, <1>2, LeaveFrame DEF Inductive
  <2>2. pc'[r] = "backoff" /\ \A s \in Requests \ {r} : SameRequest(s)
    BY <1>2, <2>1 DEF SameRequest, Inductive, TypeOK
  <2>3. QED
    BY <1>1, <2>1, <2>2, BeforeLockReports
<1>3. CASE /\ r \in Creates /\ Send(r, "rollback", 0) /\ pc' = [pc EXCEPT ![r] = "abort"]
           /\ UNCHANGED <<poolVars, sessionVars>>
  <2>1. (\A b \in Backends \ {c} : SameBackend(b)) /\ NoNewSave
    <3>1. TypeOK /\ UNCHANGED <<client, live, held>>
      BY <1>3 DEF Inductive
    <3>2. QED
      BY <1>1, <1>3, <3>1, AskFrame
  <2>2. pc'[r] = "abort" /\ \A s \in Requests \ {r} : SameRequest(s)
    BY <1>3 DEF SameRequest, Inductive, TypeOK
  <2>3. QED
    BY <1>1, <1>3, <2>1, <2>2, BeforeLockReports
<1>4. QED
  BY <1>2, <1>3

(* A request that ends before it stored anything. *)
LEMMA EndsReports ==
  ASSUME Inductive, Reports, NEW r \in Requests, NEW c, c = conn[r],
         pc[r] \in {"connect", "lock", "backoff", "list"}, NothingSaved(r),
         saved' = saved, known'[r] \subseteq known[r],
         \A s \in Requests \ {r} : SameRequest(s),
         \A b \in Backends \ {c} : SameBackend(b),
         NoNewSave,
         pc'[r] = "done" \/ (pc'[r] = "close" /\ r \in Imports)
  PROVE  Reports'
<1>1. r \in Imports => KnownFrom(r)'
  BY DEF Reports, KnownFrom
<1>2. QED
  BY <1>1, NothingSavedDecides, RequestReports

LEMMA AloneReports ==
  ASSUME Inductive, Reports, NEW r \in Requests, ConnectFails(r) \/ GiveUp(r)
  PROVE  Reports'
<1> USE DEF ConnectFails, GiveUp, poolVars, sessionVars, stmtVars, storeVars
<1>1. /\ \A s \in Requests \ {r} : SameRequest(s)
      /\ \A b \in Backends : SameBackend(b)
      /\ NoNewSave
      /\ pc[r] \in {"connect", "backoff"} /\ pc'[r] = "done"
  BY DEF Inductive, TypeOK, SameRequest, SameBackend, NoNewSave, CanSave
<1>2. QED
  BY <1>1, EndsReports

LEMMA LockFailsReports ==
  ASSUME Inductive, Reports, NEW r \in Requests, LockFails(r)
  PROVE  Reports'
<1> USE DEF LockFails, storeVars
<1>1. PICK c \in Backends : c = conn[r]
  BY AtWork DEF Working
<1>2. /\ \A b \in Backends \ {c} : SameBackend(b)
      /\ \A s \in Requests \ {r} : conn'[s] = conn[s]
      /\ NoNewSave
  BY <1>1, LeaveFrame DEF Inductive
<1>3. pc'[r] = "done" /\ \A s \in Requests \ {r} : SameRequest(s)
  BY <1>2 DEF SameRequest, Inductive, TypeOK
<1>4. QED
  BY <1>1, <1>2, <1>3, EndsReports

-----------------------------------------------------------------------------
(* A commit and its rows. *)

(* The rows of a commit that was refused its List are left as they were. *)
LEMMA ListedReports ==
  ASSUME Inductive, Reports, NEW r \in Imports, Listed(r)
  PROVE  Reports'
<1> USE DEF Listed, poolVars, sessionVars, stmtVars, storeVars
<1>1. PICK c \in Backends : c = conn[r]
  BY AtWork, Kinds DEF Working
<1>2. r \in Requests /\ r \notin Creates /\ TypeOK
  BY Kinds DEF Inductive
<1>3. CASE pc' = [pc EXCEPT ![r] = "row"] /\ UNCHANGED <<poolVars, sessionVars, stmtVars, storeVars, outcome>>
  <2>1. /\ \A s \in Requests \ {r} : SameRequest(s)
        /\ \A b \in Backends : SameBackend(b)
        /\ NoNewSave
        /\ pc[r] = "list" /\ pc'[r] = "row"
    BY <1>2, <1>3 DEF TypeOK, SameRequest, SameBackend, NoNewSave, CanSave
  <2>2. RowsDecided(r) /\ KnownFrom(r)
    BY DEF Reports
  <2>3. next[r] = 1
    BY <2>1 DEF Inductive, RowOK
  <2>4. RowsDecided(r)'
    BY <2>1, <2>2, <2>3, <1>3 DEF RowsDecided, AllPending, Outcome
  <2>5. KnownFrom(r)' /\ AnswerOK(r)'
    BY <1>3, <2>1, <2>2 DEF KnownFrom, AnswerOK
  <2>6. QED
    BY <1>1, <1>2, <1>3, <2>1, <2>4, <2>5, RequestReports
<1>4. CASE NothingSaved(r) /\ BeginClose(r) /\ UNCHANGED <<poolVars, sessionVars, storeVars>>
  <2>1. Send(r, "unlock", 0) /\ pc' = [pc EXCEPT ![r] = "close"]
    BY <1>4 DEF BeginClose
  <2>2. (\A b \in Backends \ {c} : SameBackend(b)) /\ NoNewSave
    BY <1>1, <1>2, <1>4, <2>1, AskFrame
  <2>3. \A s \in Requests \ {r} : SameRequest(s)
    BY <1>2, <1>4, <2>1 DEF SameRequest, TypeOK
  <2>4. pc[r] = "list" /\ pc'[r] = "close"
    BY <1>2, <2>1 DEF TypeOK
  <2>5. QED
    BY <1>1, <1>2, <1>4, <2>2, <2>3, <2>4, EndsReports
<1>5. CASE NothingSaved(r) /\ CloseBroken(r) /\ UNCHANGED <<saved, deleted>>
  <2>1. DiscardConn(r) /\ pc' = [pc EXCEPT ![r] = "done"] /\ known' = [known EXCEPT ![r] = {}]
    BY <1>5 DEF CloseBroken
  <2>2. /\ \A b \in Backends \ {c} : SameBackend(b)
        /\ \A s \in Requests \ {r} : conn'[s] = conn[s]
        /\ NoNewSave
    BY <1>1, <1>2, <2>1, LeaveFrame
  <2>3. \A s \in Requests \ {r} : SameRequest(s)
    BY <1>2, <2>1, <2>2 DEF SameRequest, TypeOK
  <2>4. pc[r] = "list" /\ pc'[r] = "done" /\ known'[r] = {}
    BY <1>2, <2>1 DEF TypeOK
  <2>5. QED
    BY <1>1, <1>2, <1>5, <2>2, <2>3, <2>4, EndsReports
<1>6. QED
  BY <1>3, <1>4, <1>5

(* The row a commit is at is decided, and it goes on to the next. *)
LEMMA NextRowReports ==
  ASSUME Inductive, Reports, NEW r \in Imports, NEW status \in {"added", "skipped", "failed"},
         pc[r] \in {"row", "insert"}, next[r] <= NumRows(r),
         Decide(r, next[r], status), TrueOf(RowItem(r), status),
         pc' = [pc EXCEPT ![r] = "row"], next' = [next EXCEPT ![r] = @ + 1],
         UNCHANGED <<conn, client, live, stmt, reply, held, saved>>,
         \A s \in Requests \ {r} : known'[s] = known[s],
         KnownFrom(r)'
  PROVE  Reports'
<1>1. r \in Requests /\ r \notin Creates /\ TypeOK /\ next[r] \in 1 .. NumRows(r)
  BY Kinds, RowsOfRequest DEF Inductive, TypeOK
<1>2. RowItem(r) \in Items /\ RowItem(r)[1] = r
  BY <1>1, ItemOfRow DEF RowItem
<1>3. \A item \in Items : outcome'[item] = IF item = RowItem(r) THEN status ELSE outcome[item]
  BY <1>1, <1>2 DEF Decide, RowItem, TypeOK
<1>4. /\ \A s \in Requests \ {r} : SameRequest(s)
      /\ \A b \in Backends : SameBackend(b)
      /\ NoNewSave
      /\ pc'[r] = "row" /\ next'[r] = next[r] + 1
  BY <1>1 DEF TypeOK, SameRequest, SameBackend, NoNewSave, CanSave
<1>5. RowsDecided(r)'
  <2>1. \A i \in 1 .. NumRows(r) :
          Outcome(r, i)' = IF i = next[r] THEN status ELSE Outcome(r, i)
    BY <1>1, <1>3, ItemOfRow DEF Outcome, RowItem
  <2>2. \A i \in 1 .. NumRows(r) :
          IF i < next[r] THEN Outcome(r, i) \in {"added", "skipped", "failed"}
                         ELSE Outcome(r, i) = "pending"
    BY DEF Reports, RowsDecided
  <2>3. \A i \in 1 .. NumRows(r) :
          IF i < next'[r] THEN Outcome(r, i)' \in {"added", "skipped", "failed"}
                          ELSE Outcome(r, i)' = "pending"
    BY <1>1, <1>4, <2>1, <2>2, RowsOfRequest
  <2>4. QED
    BY <1>4, <2>3 DEF RowsDecided
<1>6. AnswerOK(r)'
  BY <1>4 DEF AnswerOK
<1>7. QED
  BY <1>1, <1>2, <1>3, <1>4, <1>5, <1>6, RequestReports

LEMMA PassReports ==
  ASSUME Inductive, Reports, NEW r \in Imports, RefuseRow(r) \/ SkipRow(r)
  PROVE  Reports'
<1> USE DEF RefuseRow, SkipRow, AtRow, poolVars, sessionVars, stmtVars, storeVars
<1>1. r \in Requests /\ TypeOK /\ next[r] \in 1 .. NumRows(r) /\ KnownFrom(r)
  BY Kinds, RowsOfRequest DEF Inductive, TypeOK, Reports
<1>2. NeverStored(RowItem(r))
  BY <1>1, LaterRows DEF TypeOK, RowItem
<1>3. KnownFrom(r)' /\ pc' = [pc EXCEPT ![r] = "row"]
  BY <1>1 DEF KnownFrom, TypeOK
<1>4. CASE RefuseRow(r)
  BY <1>1, <1>2, <1>3, <1>4, NextRowReports DEF TrueOf
<1>5. CASE SkipRow(r)
  <2>1. PICK k \in KeysOf(RowItem(r)) : k \in known[r]
    BY <1>5
  <2>2. PICK source \in saved : OwnerOfItem(source) = OwnerOf[r] /\ k \in KeysOf(source)
    BY <1>1, <2>1 DEF KnownFrom
  <2>3. source # RowItem(r) /\ OwnerOfItem(RowItem(r)) = OwnerOf[r]
    BY <1>2 DEF NeverStored, OwnerOfItem, RowItem
  <2>4. HasSource(RowItem(r))
    BY <2>1, <2>2, <2>3 DEF HasSource
  <2>5. TrueOf(RowItem(r), "skipped")
    BY <1>2, <2>4 DEF TrueOf
  <2>6. QED
    BY <1>1, <1>3, <1>5, <2>5, NextRowReports
<1>6. QED
  BY <1>4, <1>5

LEMMA RowAnsweredReports ==
  ASSUME Inductive, Reports, NEW r \in Imports, RowAnswered(r)
  PROVE  Reports'
<1> USE DEF RowAnswered, poolVars, sessionVars, stmtVars
<1>1. /\ r \in Requests /\ TypeOK /\ KnownFrom(r) /\ AnswerOK(r)
      /\ next[r] <= NumRows(r) /\ next[r] \in 1 .. NumRows(r)
  BY Kinds, RowsOfRequest DEF Inductive, TypeOK, Reports, RowsDecided
<1>2. CASE /\ Answered(r, {"ok"}) /\ Decide(r, next[r], "added")
           /\ known' = [known EXCEPT ![r] = @ \union KeysOf(RowItem(r))]
  <2>1. RowItem(r) \in saved
    BY <1>1, <1>2, AtWork DEF Answered, AnswerOK, RowItem, Working
  <2>2. TrueOf(RowItem(r), "added")
    BY <2>1 DEF TrueOf, NotStored
  <2>3. known'[r] = known[r] \union KeysOf(RowItem(r))
    BY <1>1, <1>2 DEF TypeOK
  <2>4. KnownFrom(r)'
    BY <1>1, <2>1, <2>3 DEF KnownFrom, OwnerOfItem, RowItem
  <2>5. \A s \in Requests \ {r} : known'[s] = known[s]
    BY <1>1, <1>2 DEF TypeOK
  <2>6. QED
    BY <1>1, <1>2, <2>2, <2>4, <2>5, NextRowReports
<1>3. CASE Answered(r, {"error"}) /\ Decide(r, next[r], "failed") /\ UNCHANGED known
  <2>1. NeverStored(RowItem(r))
    BY <1>1, <1>3, LaterRows DEF Answered, RowItem
  <2>2. TrueOf(RowItem(r), "failed") /\ KnownFrom(r)'
    BY <1>1, <1>3, <2>1 DEF TrueOf, KnownFrom
  <2>3. QED
    BY <1>1, <1>3, <2>2, NextRowReports
<1>4. QED
  BY <1>2, <1>3

(***************************************************************************)
(* A save is sent for a row that is still pending and was never stored:    *)
(* what has been reported so far is not about it.                          *)
(***************************************************************************)
LEMMA SaveSentReports ==
  ASSUME Inductive, Reports, NEW r \in Requests, NEW c \in Backends, c = conn[r],
         NEW op \in {"insert", "commit"}, NEW row \in 1 .. NumRows(r), Send(r, op, row),
         UNCHANGED <<conn, client, live, held, known, saved, next, outcome>>,
         pc[r] \notin {"done", "crashed", "insert", "commit"},
         pc' = [pc EXCEPT ![r] = op],
         Outcome(r, row) = "pending", <<r, row>> \notin saved,
         op = "insert" =>
           /\ KeysOf(<<r, row>>) # {}
           /\ \A other \in saved : other[1] = r => other[2] < row,
         r \in Imports => RowsDecided(r)',
         r \in Creates => ItemDecided(r)'
  PROVE  Reports'
<1> DEFINE it == <<r, row>>
<1>1. TypeOK /\ it \in Items
  BY ItemOfRow DEF Inductive
<1>2. /\ stmt'[c] = [op |-> op, by |-> r, row |-> row] /\ reply'[c] = "none"
      /\ \A b \in Backends \ {c} : SameBackend(b)
  BY <1>1, SendFrame
<1>3. ItemOf(stmt[c])' = it
  BY <1>2 DEF ItemOf
<1>4. \A s \in Requests \ {r} : SameRequest(s)
  BY <1>1 DEF SameRequest, TypeOK
<1>5. pc'[r] = op
  BY <1>1 DEF TypeOK
<1>6. ASSUME NEW b \in Backends \ {c} PROVE (CanSave(b)' <=> CanSave(b)) /\ stmt'[b] = stmt[b]
  BY <1>2, <1>6 DEF CanSave, SameBackend
<1>7. ASSUME NEW x, x # it, NeverStored(x) PROVE NeverStored(x)'
  <2>1. ASSUME NEW b \in Backends, CanSave(b)' PROVE ItemOf(stmt[b])' # x
    BY <1>3, <1>6, <1>7, <2>1 DEF NeverStored, ItemOf
  <2>2. QED
    BY <1>7, <2>1 DEF NeverStored
<1>8. ASSUME NEW x \in Items PROVE TrueOf(x, outcome[x])'
  <2>1. TrueOf(x, outcome[x])
    BY <1>8 DEF Reports
  <2>2. x = it => outcome[x] = "pending"
    BY DEF Outcome
  <2>3. HasSource(x) => HasSource(x)'
    BY DEF HasSource
  <2>4. QED
    BY <1>7, <2>1, <2>2, <2>3 DEF TrueOf, NotStored
<1>9. ASSUME NEW s \in Requests PROVE AnswerOK(s)'
  <2>1. CASE s = r
    BY <1>2, <2>1 DEF AnswerOK
  <2>2. CASE s # r /\ pc[s] \in {"insert", "commit"}
    <3>1. conn[s] \in Backends
      BY <2>2, AtWork DEF Working
    <3>2. conn[s] # c
      BY <2>2, <3>1, SessionAssumption DEF Inductive, ConnOK
    <3>3. AnswerOK(s) /\ SameBackend(conn[s]) /\ SameRequest(s)
      BY <1>2, <1>4, <2>2, <3>1, <3>2 DEF Reports
    <3>4. QED
      BY <3>3 DEF AnswerOK, SameBackend, SameRequest
  <2>3. CASE s # r /\ pc[s] \notin {"insert", "commit"}
    BY <1>4, <2>3 DEF AnswerOK, SameRequest
  <2>4. QED
    BY <2>1, <2>2, <2>3
<1>10. ASSUME NEW s \in Imports PROVE RowsDecided(s)' /\ KnownFrom(s)'
  <2>1. RowsDecided(s) /\ KnownFrom(s) /\ s \in Requests
    BY <1>10, Kinds DEF Reports
  <2>2. KnownFrom(s)'
    BY <2>1 DEF KnownFrom
  <2>3. CASE s # r
    <3>1. \A i \in 1 .. NumRows(s) : NeverStored(<<s, i>>) => NeverStored(<<s, i>>)'
      BY <1>7, <2>3
    <3>2. Stopped(s) => Stopped(s)'
      BY <3>1 DEF Stopped, Outcome
    <3>3. AllPending(s) => AllPending(s)'
      BY DEF AllPending, Outcome
    <3>4. RowsDecided(s)'
      BY <1>4, <2>1, <2>3, <3>2, <3>3 DEF RowsDecided, SameRequest, Outcome
    <3>5. QED
      BY <2>2, <3>4
  <2>4. QED
    BY <1>10, <2>2, <2>3
<1>11. ASSUME NEW s \in Creates PROVE ItemDecided(s)'
  <2>1. CASE s # r
    <3>1. ItemDecided(s) /\ s \in Requests /\ SameRequest(s)
      BY <1>4, <1>11, <2>1, Kinds DEF Reports
    <3>2. AllPending(s) => AllPending(s)'
      BY DEF AllPending, Outcome
    <3>3. pc[s] = "commit" => SameBackend(conn[s])
      <4>1. SUFFICES ASSUME pc[s] = "commit" PROVE SameBackend(conn[s])
        OBVIOUS
      <4>2. conn[s] \in Backends
        BY <3>1, <4>1, AtWork DEF Working
      <4>3. conn[s] # c
        BY <2>1, <3>1, <4>2, SessionAssumption DEF Inductive, ConnOK
      <4>4. QED
        BY <1>2, <4>2, <4>3
    <3>4. QED
      BY <3>1, <3>2, <3>3 DEF ItemDecided, Outcome, SameRequest, SameBackend
  <2>2. QED
    BY <1>11, <2>1
<1>12. ASSUME NEW b \in Backends PROVE SaveOK(b)'
  <2>1. CASE b = c
    <3>1. ItemOf(stmt[b])' = it /\ stmt'[b].op = op /\ stmt'[b].by = r /\ stmt'[b].row = row
      BY <1>2, <1>3, <2>1
    <3>2. QED
      BY <3>1 DEF SaveOK, ItemOf
  <2>2. CASE b # c
    <3>1. SaveOK(b)
      BY <1>12 DEF Reports
    <3>2. QED
      BY <1>6, <1>12, <2>2, <3>1 DEF SaveOK, ItemOf
  <2>3. QED
    BY <2>1, <2>2
<1>13. QED
  BY <1>8, <1>9, <1>10, <1>11, <1>12 DEF Reports

LEMMA InsertRowReports ==
  ASSUME Inductive, Reports, NEW r \in Imports, InsertRow(r)
  PROVE  Reports'
<1> USE DEF InsertRow, AtRow, poolVars, sessionVars, storeVars, rowVars
<1>1. r \in Requests /\ r \notin Creates /\ TypeOK /\ RowsDecided(r) /\ RowOK(r)
  BY Kinds DEF Inductive, Reports
<1>2. PICK c \in Backends : c = conn[r]
  BY <1>1, AtWork DEF Working
<1>3. PICK row \in 1 .. NumRows(r) : row = next[r]
  BY <1>1, RowsOfRequest DEF TypeOK
<1>4. Outcome(r, row) = "pending" /\ NeverStored(<<r, row>>)
  BY <1>1, <1>3, LaterRows DEF RowsDecided, TypeOK
<1>5. PICK op \in {"insert", "commit"} :
        op = "insert" /\ Send(r, op, row) /\ pc' = [pc EXCEPT ![r] = op]
  BY <1>3
<1>6. KeysOf(<<r, row>>) # {} /\ \A other \in saved : other[1] = r => other[2] < row
  BY <1>1, <1>3 DEF RowOK, RowItem
<1>7. RowsDecided(r)'
  <2>1. pc'[r] = "insert" /\ next'[r] = next[r] /\ outcome' = outcome
    BY <1>1 DEF TypeOK
  <2>2. QED
    BY <1>1, <1>3, <2>1 DEF RowsDecided, Outcome
<1>8. QED
  BY <1>1, <1>2, <1>4, <1>5, <1>6, <1>7, SaveSentReports DEF NeverStored

(* A commit stops: the row it is at and those after it get their status. *)
LEMMA StopReports ==
  ASSUME Inductive, Reports, NEW r \in Imports, NEW c \in Backends, c = conn[r],
         NEW status \in {"interrupted", "unprocessed"},
         \/ pc[r] = "row" /\ next[r] <= NumRows(r)
         \/ pc[r] = "insert" /\ status = "interrupted",
         DecideRest(r, next[r], status),
         pc'[r] \in {"close", "done"}, saved' = saved, known'[r] \subseteq known[r],
         \A s \in Requests \ {r} : SameRequest(s),
         \A b \in Backends \ {c} : SameBackend(b),
         NoNewSave
  PROVE  Reports'
<1>1. /\ r \in Requests /\ r \notin Creates /\ TypeOK /\ RowsDecided(r) /\ KnownFrom(r)
      /\ next[r] \in 1 .. NumRows(r)
  BY Kinds, RowsOfRequest DEF Inductive, Reports, RowsDecided, TypeOK
<1>2. \A item \in Items :
        outcome'[item] = IF item[1] = r /\ item[2] = next[r] THEN status
                         ELSE IF item[1] = r /\ item[2] > next[r] THEN "unprocessed"
                         ELSE outcome[item]
  <2>1. SUFFICES ASSUME NEW item \in Items
                 PROVE outcome'[item] = IF item[1] = r /\ item[2] = next[r] THEN status
                         ELSE IF item[1] = r /\ item[2] > next[r] THEN "unprocessed"
                         ELSE outcome[item]
    OBVIOUS
  <2>2. item[2] = next[r] => ~(item[2] > next[r])
    BY <1>1, RowsOfRequest
  <2>3. QED
    BY <2>1, <2>2 DEF DecideRest
<1>3. ASSUME NEW i \in 1 .. NumRows(r)
      PROVE  Outcome(r, i)' = IF i = next[r] THEN status
                              ELSE IF i > next[r] THEN "unprocessed" ELSE Outcome(r, i)
  <2>1. <<r, i>> \in Items
    BY <1>1, <1>3, ItemOfRow
  <2>2. QED
    BY <1>2, <2>1 DEF Outcome
<1>4. ASSUME NEW item \in Items, outcome'[item] # outcome[item]
      PROVE  item[1] = r /\ TrueOf(item, outcome'[item])
  <2>1. item[1] = r /\ item[2] \in 1 .. NumRows(r) /\ item = <<r, item[2]>> /\ item[2] >= next[r]
    <3>1. item[1] = r /\ (item[2] = next[r] \/ item[2] > next[r])
      BY <1>2, <1>4
    <3>2. item[2] \in 1 .. NumRows(r) /\ item = <<r, item[2]>>
      BY <1>4, <3>1, ItemParts
    <3>3. QED
      BY <1>1, <3>1, <3>2, RowsOfRequest
  <2>2. CASE outcome'[item] = "interrupted"
    BY <2>1, <2>2 DEF TrueOf, NotStored
  <2>3. CASE outcome'[item] = "unprocessed"
    <3>1. pc[r] = "row" \/ item[2] > next[r]
      BY <1>2, <1>4, <2>1, <2>3
    <3>2. NeverStored(item)
      BY <1>1, <2>1, <3>1, LaterRows
    <3>3. QED
      BY <2>1, <2>3, <3>2 DEF TrueOf
  <2>4. QED
    BY <1>2, <1>4, <2>1, <2>2, <2>3
<1>5. \A i \in 1 .. NumRows(r) :
        i < next[r] => Outcome(r, i) \in {"added", "skipped", "failed"}
  BY <1>1 DEF RowsDecided
<1>6. ASSUME NEW i \in 1 .. NumRows(r)
      PROVE /\ Outcome(r, i)' # "pending"
            /\ Outcome(r, i)' \in {"interrupted", "unprocessed"} => i >= next[r]
            /\ i > next[r] => Outcome(r, i)' = "unprocessed"
  BY <1>1, <1>3, <1>5, <1>6, RowsOfRequest
<1>7. Stopped(r)'
  BY <1>1, <1>6, RowsOfRequest DEF Stopped
<1>8. RowsDecided(r)' /\ KnownFrom(r)' /\ AnswerOK(r)'
  BY <1>1, <1>7 DEF RowsDecided, KnownFrom, AnswerOK
<1>9. QED
  BY <1>1, <1>4, <1>8, RequestReports

(* Asking to close, or dropping a connection that failed. *)
LEMMA ClosingFrame ==
  ASSUME TypeOK, NEW r \in Requests, NEW c \in Backends, c = conn[r],
         UNCHANGED <<saved, next>>,
         \/ BeginClose(r) /\ UNCHANGED <<poolVars, sessionVars, storeVars>>
         \/ CloseBroken(r)
  PROVE  /\ pc'[r] \in {"close", "done"} /\ known'[r] \subseteq known[r]
         /\ \A s \in Requests \ {r} : SameRequest(s)
         /\ \A b \in Backends \ {c} : SameBackend(b)
         /\ NoNewSave
<1>1. CASE BeginClose(r) /\ UNCHANGED <<poolVars, sessionVars, storeVars>>
  <2>1. Send(r, "unlock", 0) /\ pc' = [pc EXCEPT ![r] = "close"]
    BY <1>1 DEF BeginClose
  <2>2. UNCHANGED <<conn, client, live, held, known>>
    BY <1>1 DEF poolVars, sessionVars, storeVars
  <2>3. (\A b \in Backends \ {c} : SameBackend(b)) /\ NoNewSave
    BY <2>1, <2>2, AskFrame
  <2>4. \A s \in Requests \ {r} : SameRequest(s)
    BY <2>1, <2>2 DEF SameRequest, TypeOK
  <2>5. QED
    BY <2>1, <2>2, <2>3, <2>4 DEF TypeOK
<1>2. CASE CloseBroken(r)
  <2>1. DiscardConn(r) /\ pc' = [pc EXCEPT ![r] = "done"] /\ known' = [known EXCEPT ![r] = {}]
    BY <1>2 DEF CloseBroken
  <2>2. /\ \A b \in Backends \ {c} : SameBackend(b)
        /\ \A s \in Requests \ {r} : conn'[s] = conn[s]
        /\ NoNewSave
    BY <2>1, LeaveFrame
  <2>3. \A s \in Requests \ {r} : SameRequest(s)
    BY <2>1, <2>2 DEF SameRequest, TypeOK
  <2>4. QED
    BY <2>1, <2>2, <2>3 DEF TypeOK
<1>3. QED
  BY <1>1, <1>2

LEMMA RowUnknownReports ==
  ASSUME Inductive, Reports, NEW r \in Imports, RowUnknown(r)
  PROVE  Reports'
<1> USE DEF RowUnknown
<1>1. r \in Requests /\ TypeOK
  BY Kinds DEF Inductive
<1>2. PICK c \in Backends : c = conn[r]
  BY <1>1, AtWork DEF Working
<1>3. PICK status \in {"interrupted", "unprocessed"} :
        status = "interrupted" /\ DecideRest(r, next[r], status)
  OBVIOUS
<1>4. saved' = saved
  BY DEF storeVars
<1>5. /\ pc'[r] \in {"close", "done"} /\ known'[r] \subseteq known[r]
      /\ \A s \in Requests \ {r} : SameRequest(s)
      /\ \A b \in Backends \ {c} : SameBackend(b)
      /\ NoNewSave
  BY <1>1, <1>2, <1>4, ClosingFrame
<1>6. QED
  BY <1>2, <1>3, <1>4, <1>5, StopReports

LEMMA EndRowsReports ==
  ASSUME Inductive, Reports, NEW r \in Imports, EndRows(r)
  PROVE  Reports'
<1> USE DEF EndRows
<1>1. r \in Requests /\ r \notin Creates /\ TypeOK /\ RowsDecided(r) /\ KnownFrom(r)
  BY Kinds DEF Inductive, Reports
<1>2. PICK c \in Backends : c = conn[r]
  BY <1>1, AtWork DEF Working
<1>3. saved' = saved
  BY DEF storeVars
<1>4. /\ pc'[r] \in {"close", "done"} /\ known'[r] \subseteq known[r]
      /\ \A s \in Requests \ {r} : SameRequest(s)
      /\ \A b \in Backends \ {c} : SameBackend(b)
      /\ NoNewSave
  BY <1>1, <1>2, <1>3, ClosingFrame
<1>5. CASE next[r] <= NumRows(r) /\ DecideRest(r, next[r], "unprocessed")
  <2>1. PICK status \in {"interrupted", "unprocessed"} : DecideRest(r, next[r], status)
    BY <1>5
  <2>2. QED
    BY <1>2, <1>3, <1>4, <1>5, <2>1, StopReports
<1>6. CASE next[r] > NumRows(r) /\ outcome' = outcome
  <2>1. \A i \in 1 .. NumRows(r) : Outcome(r, i)' \in {"added", "skipped", "failed"}
    BY <1>1, <1>6, RowsOfRequest DEF RowsDecided, TypeOK, Outcome
  <2>2. RowsDecided(r)' /\ KnownFrom(r)' /\ AnswerOK(r)'
    BY <1>1, <1>3, <1>4, <2>1 DEF RowsDecided, Stopped, KnownFrom, AnswerOK
  <2>3. QED
    BY <1>1, <1>2, <1>3, <1>4, <1>6, <2>2, RequestReports
<1>7. QED
  BY <1>5, <1>6

(* The batch is closed, on a good connection or a broken one. *)
LEMMA CloseReports ==
  ASSUME Inductive, Reports, NEW r \in Requests, Close(r), UNCHANGED rowVars
  PROVE  Reports'
<1> USE DEF Close, rowVars
<1>1. r \in Imports /\ r \notin Creates /\ TypeOK /\ RowsDecided(r) /\ KnownFrom(r)
  BY Kinds DEF Inductive, ConnOK, Reports
<1>2. PICK c \in Backends : c = conn[r]
  BY AtWork DEF Working
<1>3. /\ \A b \in Backends \ {c} : SameBackend(b)
      /\ \A s \in Requests \ {r} : conn'[s] = conn[s]
      /\ NoNewSave
  BY <1>1, <1>2, LeaveFrame
<1>4. pc'[r] = "done" /\ known'[r] = {} /\ \A s \in Requests \ {r} : SameRequest(s)
  BY <1>1, <1>3 DEF SameRequest, TypeOK
<1>5. Stopped(r)'
  BY <1>1, <1>3, NeverStays DEF RowsDecided, Stopped, Outcome
<1>6. RowsDecided(r)' /\ KnownFrom(r)' /\ AnswerOK(r)'
  BY <1>4, <1>5 DEF RowsDecided, KnownFrom, AnswerOK
<1>7. QED
  BY <1>1, <1>2, <1>3, <1>4, <1>6, RequestReports

-----------------------------------------------------------------------------
(* A create and its item. *)

(* A create decides its item, truly. *)
LEMMA CreateReports ==
  ASSUME Inductive, Reports, NEW r \in Creates, NEW c \in Backends, c = conn[r],
         NEW status \in Outcomes, Decide(r, 1, status), TrueOf(<<r, 1>>, status)',
         TrueOf(<<r, 1>>, status), status # "pending",
         \/ pc'[r] = "done"
         \/ pc'[r] = "abort" /\ status = "failed",
         saved' = saved,
         \A s \in Requests \ {r} : SameRequest(s),
         \A b \in Backends \ {c} : SameBackend(b),
         NoNewSave
  PROVE  Reports'
<1>1. r \in Requests /\ r \notin Imports /\ NumRows(r) = 1 /\ TypeOK
  BY Kinds, RequestsAssumption DEF Inductive, NumRows
<1>2. <<r, 1>> \in Items
  BY <1>1, ItemOfRow
<1>3. \A item \in Items : outcome'[item] = IF item = <<r, 1>> THEN status ELSE outcome[item]
  BY <1>1, <1>2 DEF Decide, TypeOK
<1>4. \A item \in Items : outcome'[item] # outcome[item] =>
        item[1] = r /\ TrueOf(item, outcome'[item])
  BY <1>2, <1>3, ItemParts
<1>5. Outcome(r, 1)' = status
  BY <1>2, <1>3 DEF Outcome
<1>6. ItemDecided(r)'
  BY <1>5 DEF ItemDecided, TrueOf, NotStored, NeverStored
<1>7. AnswerOK(r)'
  BY DEF AnswerOK
<1>8. QED
  BY <1>1, <1>4, <1>6, <1>7, RequestReports

LEMMA TxInsertedReports ==
  ASSUME Inductive, Reports, NEW r \in Creates, TxInserted(r)
  PROVE  Reports'
<1> USE DEF TxInserted, storeVars
<1>1. r \in Requests /\ r \notin Imports /\ NumRows(r) = 1 /\ TypeOK /\ ItemDecided(r)
  BY Kinds, RequestsAssumption DEF Inductive, NumRows, Reports
<1>2. PICK c \in Backends : c = conn[r]
  BY <1>1, AtWork DEF Working
<1>3. PICK row \in 1 .. NumRows(r) : row = 1
  BY <1>1
<1>4. NeverStored(<<r, 1>>) /\ Outcome(r, 1) = "pending" /\ Outcome(r, row) = "pending"
  BY <1>1, <1>3, BeforeSaves DEF ItemDecided, AllPending
<1>5. CASE /\ Send(r, "commit", 1) /\ pc' = [pc EXCEPT ![r] = "commit"]
           /\ UNCHANGED <<poolVars, sessionVars, outcome>>
  <2>1. PICK op \in {"insert", "commit"} :
          op = "commit" /\ Send(r, op, row) /\ pc' = [pc EXCEPT ![r] = op]
    BY <1>3, <1>5
  <2>2. ItemDecided(r)'
    <3>1. pc'[r] = "commit" /\ outcome' = outcome /\ saved' = saved
      BY <1>1, <1>5 DEF TypeOK
    <3>2. QED
      BY <1>1, <1>4, <3>1 DEF ItemDecided, AllPending, Outcome, NeverStored
  <2>3. UNCHANGED <<conn, client, live, held, known, saved, next, outcome>>
    BY <1>5 DEF poolVars, sessionVars
  <2>4. <<r, row>> \notin saved
    BY <1>3, <1>4 DEF NeverStored
  <2>5. QED
    BY <1>1, <1>2, <1>4, <2>1, <2>2, <2>3, <2>4, SaveSentReports
<1>6. CASE /\ Decide(r, 1, "failed") /\ Send(r, "rollback", 0)
           /\ pc' = [pc EXCEPT ![r] = "abort"] /\ UNCHANGED <<poolVars, sessionVars>>
  <2>1. UNCHANGED <<conn, client, live, held>>
    BY <1>6 DEF poolVars, sessionVars
  <2>2. (\A b \in Backends \ {c} : SameBackend(b)) /\ NoNewSave
    BY <1>1, <1>2, <1>6, <2>1, AskFrame
  <2>3. pc'[r] = "abort" /\ \A s \in Requests \ {r} : SameRequest(s)
    BY <1>1, <1>6, <2>1 DEF SameRequest, TypeOK
  <2>4. PICK status \in Outcomes : status = "failed" /\ Decide(r, 1, status)
    BY <1>6 DEF Outcomes
  <2>5. TrueOf(<<r, 1>>, status) /\ TrueOf(<<r, 1>>, status)'
    BY <1>4, <2>2, <2>4, NeverStays DEF TrueOf
  <2>6. QED
    BY <1>2, <2>2, <2>3, <2>4, <2>5, CreateReports
<1>7. CASE Decide(r, 1, "failed") /\ DiscardConn(r) /\ pc' = [pc EXCEPT ![r] = "done"]
  <2>1. /\ \A b \in Backends \ {c} : SameBackend(b)
        /\ \A s \in Requests \ {r} : conn'[s] = conn[s]
        /\ NoNewSave
    BY <1>1, <1>2, <1>7, LeaveFrame
  <2>2. pc'[r] = "done" /\ \A s \in Requests \ {r} : SameRequest(s)
    BY <1>1, <1>7, <2>1 DEF SameRequest, TypeOK
  <2>3. PICK status \in Outcomes : status = "failed" /\ Decide(r, 1, status)
    BY <1>7 DEF Outcomes
  <2>4. TrueOf(<<r, 1>>, status) /\ TrueOf(<<r, 1>>, status)'
    BY <1>4, <2>1, <2>3, NeverStays DEF TrueOf
  <2>5. QED
    BY <1>2, <2>1, <2>2, <2>3, <2>4, CreateReports
<1>8. QED
  BY <1>5, <1>6, <1>7

LEMMA RolledBackReports ==
  ASSUME Inductive, Reports, NEW r \in Creates, RolledBack(r)
  PROVE  Reports'
<1> USE DEF RolledBack, storeVars, rowVars
<1>1. r \in Requests /\ r \notin Imports /\ NumRows(r) = 1 /\ TypeOK /\ ItemDecided(r)
  BY Kinds, RequestsAssumption DEF Inductive, NumRows, Reports
<1>2. PICK c \in Backends : c = conn[r]
  BY <1>1, AtWork DEF Working
<1>3. /\ \A b \in Backends \ {c} : SameBackend(b)
      /\ \A s \in Requests \ {r} : conn'[s] = conn[s]
      /\ NoNewSave
  BY <1>1, <1>2, LeaveFrame
<1>4. /\ pc'[r] = IF Outcome(r, 1) = "failed" THEN "done" ELSE "backoff"
      /\ \A s \in Requests \ {r} : SameRequest(s)
  BY <1>1, <1>3 DEF SameRequest, TypeOK, Outcome
<1>5. NeverStored(<<r, 1>>) /\ Outcome(r, 1) \in {"pending", "failed"}
  BY <1>1, BeforeSaves DEF ItemDecided
<1>6. ItemDecided(r)' /\ AnswerOK(r)'
  BY <1>1, <1>4, <1>5 DEF ItemDecided, AllPending, Outcome, NeverStored, AnswerOK
<1>7. QED
  BY <1>1, <1>2, <1>3, <1>4, <1>6, RequestReports

LEMMA CommittedReports ==
  ASSUME Inductive, Reports, NEW r \in Creates, Committed(r)
  PROVE  Reports'
<1> USE DEF Committed, storeVars
<1>1. /\ r \in Requests /\ r \notin Imports /\ NumRows(r) = 1 /\ TypeOK /\ ItemDecided(r)
      /\ AnswerOK(r)
  BY Kinds, RequestsAssumption DEF Inductive, NumRows, Reports
<1>2. PICK c \in Backends : c = conn[r]
  BY <1>1, AtWork DEF Working
<1>3. ReturnConn(r) \/ DiscardConn(r)
  OBVIOUS
<1>4. /\ \A b \in Backends \ {c} : SameBackend(b)
      /\ \A s \in Requests \ {r} : conn'[s] = conn[s]
      /\ NoNewSave
  BY <1>1, <1>2, <1>3, LeaveFrame
<1>5. pc'[r] = "done" /\ saved' = saved /\ \A s \in Requests \ {r} : SameRequest(s)
  BY <1>1, <1>4 DEF SameRequest, TypeOK
<1>6. reply[c] # "none" => live[c]
  BY <1>1, <1>2, AtWork DEF Working
<1>7. PICK status \in Outcomes :
        /\ Decide(r, 1, status)
        /\ \/ status = "added" /\ reply[c] = "ok"
           \/ status = "failed" /\ reply[c] = "error"
           \/ status = "interrupted"
  BY <1>2 DEF Outcomes, Answered
<1>8. TrueOf(<<r, 1>>, status)
  <2>1. CASE status = "added" /\ reply[c] = "ok"
    BY <1>1, <1>2, <1>6, <2>1 DEF TrueOf, NotStored, AnswerOK
  <2>2. CASE status = "failed" /\ reply[c] = "error"
    <3>1. <<r, 1>> \notin saved
      BY <1>1, <1>2, <1>6, <2>2 DEF ItemDecided
    <3>2. \A b \in Backends : CanSave(b) => stmt[b].by # r
      BY <1>1, <1>2, <2>2, NothingPending
    <3>3. NeverStored(<<r, 1>>)
      BY <3>1, <3>2, SaveBy DEF NeverStored
    <3>4. QED
      BY <2>2, <3>3 DEF TrueOf
  <2>3. CASE status = "interrupted"
    BY <2>3 DEF TrueOf, NotStored
  <2>4. QED
    BY <1>7, <2>1, <2>2, <2>3
<1>9. TrueOf(<<r, 1>>, status)'
  BY <1>4, <1>5, <1>8, TrueStays
<1>10. QED
  BY <1>2, <1>4, <1>5, <1>7, <1>8, <1>9, CreateReports

-----------------------------------------------------------------------------
(* The server, the environment, and the whole. *)

(* Where the tracker of an import has its keys from after a List. *)
LEMMA ListReports ==
  ASSUME Inductive, Reports, NEW b \in Backends, ExecList(b),
         UNCHANGED <<pc, conn, live, stmt, deleted, next, outcome>>
  PROVE  Reports'
<1> USE DEF ExecList, Waiting
<1>1. TypeOK /\ reply'[b] \in {"ok", "error"} /\ \A a \in Backends \ {b} : reply'[a] = reply[a]
  BY DEF Inductive, TypeOK
<1>2. ASSUME NEW r \in Imports PROVE KnownFrom(r)'
  <2>1. KnownFrom(r) /\ r \in Requests
    BY <1>2, Kinds DEF Reports
  <2>2. known'[r] = known[r] \/ known'[r] = OwnedKeys(Library, OwnerOf[r])
    BY <1>1, <2>1 DEF TypeOK
  <2>3. ASSUME NEW k \in OwnedKeys(Library, OwnerOf[r])
        PROVE  \E other \in saved : OwnerOfItem(other) = OwnerOf[r] /\ k \in KeysOf(other)
    BY <2>3 DEF OwnedKeys, Library
  <2>4. QED
    BY <2>1, <2>2, <2>3 DEF KnownFrom
<1>3. QED
  BY <1>1, <1>2, AnswerReports

LEMMA ServerReports ==
  ASSUME Inductive, Reports, NEW b \in Backends, Server(b)
  PROVE  Reports'
<1> USE DEF rowVars
<1>1. TypeOK /\ \A r \in Imports : KnownFrom(r)
  BY DEF Inductive, Reports
<1>2. CASE Exec(b)
  <2>1. UNCHANGED <<pc, conn, live, stmt, deleted, next, outcome>>
    BY <1>2 DEF Exec, Server, poolVars, EndSession, SessionGone
  <2>2. CASE ExecList(b)
    BY <2>1, <2>2, ListReports
  <2>3. CASE ExecTryLock(b) \/ ExecTxInsert(b) \/ ExecRelease(b)
    <3>1. /\ live[b] /\ reply[b] = "none" /\ stmt[b].op \notin {"insert", "commit"}
          /\ reply'[b] # "none" /\ \A a \in Backends \ {b} : reply'[a] = reply[a]
          /\ UNCHANGED <<saved, known>>
      BY <1>1, <2>3 DEF ExecTryLock, ExecTxInsert, ExecRelease, Waiting, TypeOK
    <3>2. \A r \in Imports : KnownFrom(r)'
      BY <1>1, <3>1 DEF KnownFrom
    <3>3. QED
      BY <2>1, <3>1, <3>2, AnswerReports
  <2>4. CASE ExecInsert(b) \/ ExecCommit(b)
    <3>1. CanSave(b) /\ \A a \in Backends \ {b} : reply'[a] = reply[a]
      BY <1>1, <2>4 DEF ExecInsert, ExecCommit, Waiting, CanSave, TypeOK
    <3>2. /\ \/ saved' = saved /\ reply'[b] # "ok"
             \/ saved' = saved \union {ItemOf(stmt[b])} /\ reply'[b] \in {"ok", "fatal"}
          /\ reply'[b] # "none" /\ known' = known
      BY <1>1, <2>4 DEF ExecInsert, ExecCommit, TypeOK
    <3>3. \A r \in Imports : KnownFrom(r)'
      BY <1>1, <3>2 DEF KnownFrom
    <3>4. QED
      BY <2>1, <3>1, <3>2, <3>3, AnswerReports DEF CanSave
  <2>5. QED
    BY <1>2, <2>2, <2>3, <2>4 DEF Exec
<1>3. CASE EndSession(b)
  <2>1. \A a \in Backends : live'[a] => live[a] /\ reply'[a] = reply[a] /\ stmt'[a] = stmt[a]
    BY <1>1, <1>3 DEF EndSession, SessionGone, TypeOK
  <2>2. QED
    BY <1>3, <2>1, WorldReports DEF EndSession, Server, poolVars, storeVars
<1>4. QED
  BY <1>2, <1>3 DEF Server

LEMMA EnvironmentReports ==
  ASSUME Inductive, Reports, Environment, UNCHANGED rowVars
  PROVE  Reports'
<1> USE DEF rowVars, poolVars, sessionVars, stmtVars, storeVars
<1>1. TypeOK
  BY DEF Inductive
<1>2. ASSUME NEW r \in MayEnd, CtxEnds(r) PROVE Reports'
  BY <1>2, WorldReports DEF CtxEnds
<1>3. ASSUME NEW b \in Backends, KillSession(b) PROVE Reports'
  <2>1. \A a \in Backends : live'[a] => live[a] /\ reply'[a] = reply[a] /\ stmt'[a] = stmt[a]
    BY <1>1, <1>3 DEF KillSession, SessionGone, TypeOK
  <2>2. QED
    BY <1>3, <2>1, WorldReports DEF KillSession
<1>4. ASSUME NEW b \in Backends, CloseIdle(b) PROVE Reports'
  BY <1>4, WorldReports DEF CloseIdle
<1>5. ASSUME NEW rep \in Replicas, Crash(rep) PROVE Reports'
  <2>1. \A r \in Requests : pc'[r] = "crashed" \/ (pc'[r] = pc[r] /\ conn'[r] = conn[r])
    BY <1>5 DEF Crash
  <2>2. \A r \in Imports : known'[r] \subseteq known[r]
    BY <1>5, Kinds DEF Crash
  <2>3. QED
    BY <1>5, <2>1, <2>2, WorldReports DEF Crash
<1>6. ASSUME NEW item \in Deletable, Delete(item) PROVE Reports'
  BY <1>6, WorldReports DEF Delete
<1>7. QED
  BY <1>2, <1>3, <1>4, <1>5, <1>6 DEF Environment

(* Nothing has been decided, and nothing stored. *)
LEMMA ReportsInit ==
  ASSUME Init
  PROVE  Reports
<1> USE DEF Init, SessionInit
<1>1. \A item \in Items : TrueOf(item, outcome[item])
  BY DEF TrueOf, NotStored
<1>2. \A r \in Requests : AnswerOK(r)
  BY DEF AnswerOK
<1>3. \A r \in Requests : AllPending(r)
  BY ItemOfRow DEF AllPending, Outcome
<1>4. \A r \in Imports : RowsDecided(r) /\ KnownFrom(r)
  BY <1>3, Kinds DEF RowsDecided, KnownFrom
<1>5. \A r \in Creates : ItemDecided(r)
  BY <1>3, Kinds DEF ItemDecided
<1>6. \A b \in Backends : SaveOK(b)
  BY DEF SaveOK, CanSave
<1>7. QED
  BY <1>1, <1>2, <1>4, <1>5, <1>6 DEF Reports

LEMMA RequestStepReports ==
  ASSUME Inductive, Reports, NEW r \in Requests, Arrive(r) \/ Connect(r) \/ Step(r)
  PROVE  Reports'
<1>1. CASE Arrive(r) \/ Connect(r)
  BY <1>1, ArriveReports, TakeConnReports DEF Connect
<1>2. CASE ConnectFails(r) \/ LockGranted(r) \/ LockFails(r) \/ GiveUp(r)
  BY <1>2, AloneReports, LockGrantedReports, LockFailsReports
<1>3. CASE Session(r)
  BY <1>3, LockBusyReports, RetryReports, CloseReports DEF Session
<1>4. CASE Commit(r)
  BY <1>4, ListedReports, PassReports, InsertRowReports, RowAnsweredReports,
     RowUnknownReports, EndRowsReports DEF Commit
<1>5. CASE Create(r)
  BY <1>5, TxInsertedReports, RolledBackReports, CommittedReports DEF Create
<1>6. QED
  BY <1>1, <1>2, <1>3, <1>4, <1>5 DEF Step

LEMMA ReportsNext ==
  ASSUME Inductive, Reports, [Next]_vars
  PROVE  Reports'
<1>1. CASE UNCHANGED vars
  BY <1>1, WorldReports DEF vars, poolVars, sessionVars, stmtVars, storeVars
<1>2. QED
  BY <1>1, RequestStepReports, ServerReports, EnvironmentReports DEF Next, Quiet

(***************************************************************************)
(* What is decided of a row fits what was stored, where its request is and *)
(* what may still be stored, whatever fails (importer/commit.go 106-184).  *)
(***************************************************************************)
THEOREM ReportsHold == Spec => []Reports
<1>1. Init => Reports
  BY ReportsInit
<1>2. Inductive /\ Reports /\ [Next]_vars => Reports'
  BY ReportsNext
<1>3. QED
  BY <1>1, <1>2, InductiveHolds, PTL DEF Spec

-----------------------------------------------------------------------------
(* What follows for the properties of ImportCommit. *)

(***************************************************************************)
(* A row reported as added was stored; one reported as skipped, failed or  *)
(* unprocessed was not and never will be, though the session that was to   *)
(* store it may outlive its client (saveOutcomeErr, commitRow).            *)
(***************************************************************************)
THEOREM OutcomesAreTrue == Spec => []OutcomesTrue
<1>1. Reports => OutcomesTrue
  BY DEF Reports, TrueOf, NeverStored, CanSave, OutcomesTrue
<1>2. QED
  BY <1>1, ReportsHold, PTL

(***************************************************************************)
(* The rows of an answered commit add up: all are decided, in row order,   *)
(* or the request failed before any was (importer/commit.go 145-174).      *)
(***************************************************************************)
THEOREM RowsAddUp == Spec => []OutcomesAddUp
<1>1. ASSUME Reports, NEW r \in Requests, pc[r] = "done"
      PROVE  /\ \/ \A i \in 1 .. NumRows(r) : outcome[<<r, i>>] # "pending"
                \/ \A i \in 1 .. NumRows(r) :
                     outcome[<<r, i>>] = "pending" /\ <<r, i>> \notin saved
             /\ \A i, j \in 1 .. NumRows(r) :
                  i < j /\ outcome[<<r, i>>] \in {"interrupted", "unprocessed"}
                  => outcome[<<r, j>>] = "unprocessed"
  <2>1. CASE r \in Imports
    <3>1. Stopped(r)
      BY <1>1, <2>1 DEF Reports, RowsDecided
    <3>2. QED
      BY <3>1 DEF Stopped, NeverStored, Outcome
  <2>2. CASE r \in Creates
    <3>1. NumRows(r) = 1 /\ outcome[<<r, 1>>] # "pending"
      BY <1>1, <2>2, RequestsAssumption DEF NumRows, Reports, ItemDecided, Outcome
    <3>2. \A i, j \in 1 .. NumRows(r) : i = 1 /\ j = 1
      BY <3>1
    <3>3. QED
      BY <3>1, <3>2
  <2>3. QED
    BY <2>1, <2>2, Kinds
<1>2. Reports => OutcomesAddUp
  BY <1>1 DEF OutcomesAddUp
<1>3. QED
  BY <1>2, ReportsHold, PTL

(***************************************************************************)
(* A commit skips a row only for an item that was really stored for its    *)
(* owner and shares a key with it (duplicateTracker).                      *)
(***************************************************************************)
THEOREM SkippedRowsHaveASource == Spec => []SkipsHaveASource
<1>1. Reports => SkipsHaveASource
  BY DEF Reports, TrueOf, HasSource, SkipsHaveASource
<1>2. QED
  BY <1>1, ReportsHold, PTL

=============================================================================
