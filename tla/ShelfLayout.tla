----------------------------- MODULE ShelfLayout -----------------------------
(***************************************************************************)
(* normalizeSlots and removedSlots (shelves/service.go): the rows, columns *)
(* and slots an edited layout is saved as, and which of the shelf's slots  *)
(* it drops.                                                               *)
(*                                                                         *)
(* An edited slot is a cell <<row, column>>, the slot ID it keeps or       *)
(* NoSlot, and whether the client says it is new.  Boundaries on the photo *)
(* are left out.  base is what was read of the shelf: sets of rows,        *)
(* columns and slots, each with an id and a val.                           *)
(***************************************************************************)
EXTENDS Naturals, Sequences

CONSTANT NoSlot

Edits(input) == {input[i] : i \in DOMAIN input}

SlotsOf(base) == {slot.id : slot \in base.slots}

(* What normalizeSlots does not refuse. *)
Valid(input, base) ==
  /\ \A i, j \in DOMAIN input : i # j =>
       /\ input[i].cell # input[j].cell
       /\ input[i].keep # NoSlot => input[i].keep # input[j].keep
  /\ \A e \in Edits(input) : e.keep # NoSlot => ~e.fresh /\ e.keep \in SlotsOf(base)

(* The ID of one of the rows, or a new one. *)
IdOf(rows, new) == IF rows = {} THEN new ELSE (CHOOSE v \in rows : TRUE).id

(* New IDs are named after the request that makes them. *)
RowId(r, base, row) == IdOf({v \in base.rows : v.val.row = row}, <<r, row>>)

ColumnId(r, base, cell) ==
  IdOf({c \in base.cols : \E v \in base.rows :
          c.val.parent = v.id /\ <<v.val.row, c.val.col>> = cell}, <<r, cell>>)

(* Seeded fault: a slot takes the ID of its cell though another names it. *)
StolenId(r, input, base, e) ==
  LET new   == <<r, e.cell>>
      there == IdOf({s \in base.slots : s.val.cell = e.cell}, new)
  IN CASE e.keep # NoSlot -> e.keep
       [] e.keep = NoSlot /\ ~e.fresh -> there
       [] OTHER -> new

(* Seeded fault: a slot that names no ID always gets a new one. *)
UnnamedIsNew(r, input, base, e) == IF e.keep # NoSlot THEN e.keep ELSE <<r, e.cell>>

(* A slot keeps the ID it names; one that names none takes over the ID of its
   cell, unless the client says it is new or another slot keeps that ID. *)
SlotId(r, input, base, e) ==
  LET new   == <<r, e.cell>>
      there == IdOf({s \in base.slots : s.val.cell = e.cell}, new)
  IN CASE e.keep # NoSlot -> e.keep
       [] e.keep = NoSlot /\ ~e.fresh /\ (\A f \in Edits(input) : f.keep # there) -> there
       [] OTHER -> new

LayoutRows(r, shelf, input, base) ==
  {[id |-> RowId(r, base, e.cell[1]), val |-> [shelf |-> shelf, row |-> e.cell[1]]] :
     e \in Edits(input)}

LayoutCols(r, input, base) ==
  {[id |-> ColumnId(r, base, e.cell),
    val |-> [parent |-> RowId(r, base, e.cell[1]), col |-> e.cell[2]]] : e \in Edits(input)}

LayoutSlots(r, shelf, input, base) ==
  {[id |-> SlotId(r, input, base, e),
    val |-> [shelf |-> shelf, row |-> RowId(r, base, e.cell[1]),
             col |-> ColumnId(r, base, e.cell), cell |-> e.cell]] : e \in Edits(input)}

RemovedSlots(r, shelf, input, base) ==
  SlotsOf(base) \ {s.id : s \in LayoutSlots(r, shelf, input, base)}
=============================================================================
