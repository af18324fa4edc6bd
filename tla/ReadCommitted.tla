---------------------------- MODULE ReadCommitted ----------------------------
(***************************************************************************)
(* Tables of PostgreSQL at READ COMMITTED, the level every transaction of  *)
(* the repository uses (BeginTxx with no options).                         *)
(*                                                                         *)
(* A table is a set of row versions.  ins is the open transaction that     *)
(* wrote a version, del the one that removed or replaced it; Nobody means  *)
(* that this is committed.  A statement sees what is committed when it     *)
(* starts and what its own transaction wrote, and waits for a row another  *)
(* open transaction has written.                                           *)
(***************************************************************************)
CONSTANT Nobody

(* What a statement of transaction t that starts now sees. *)
Visible(table, t) == {v \in table : v.ins \in {Nobody, t} /\ v.del # t}

(* What is committed. *)
Current(table) == {v \in table : v.ins = Nobody}

Rows(table, id) == {v \in table : v.id = id}

(* The other open transactions that have written one of these rows. *)
Writers(table, t, ids) ==
  (UNION {{v.ins, v.del} : v \in {w \in table : w.id \in ids}}) \ {Nobody, t}

(* The others that have removed row id, rather than replaced it. *)
Removers(table, t, id) ==
  {v.del : v \in {w \in Rows(table, id) :
                    \A n \in Rows(table, id) : n.ins # w.del}} \ {Nobody, t}

Remove(table, t, ids) ==
  {IF v.id \in ids THEN [v EXCEPT !.del = t] ELSE v :
     v \in {w \in table : ~(w.id \in ids /\ w.ins = t)}}

(* Insert rows, or replace those whose id is there; each has an id and a val. *)
Put(table, t, new) ==
  Remove(table, t, {n.id : n \in new})
    \union {[id |-> n.id, val |-> n.val, ins |-> t, del |-> Nobody] : n \in new}

Committed(table, t) ==
  {IF v.ins = t THEN [v EXCEPT !.ins = Nobody] ELSE v : v \in {w \in table : w.del # t}}

RolledBack(table, t) ==
  {IF v.del = t THEN [v EXCEPT !.del = Nobody] ELSE v : v \in {w \in table : w.ins # t}}
=============================================================================
