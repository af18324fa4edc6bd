----------------------------- MODULE ShelfEditor -----------------------------
(***************************************************************************)
(* One editor of one shelf: UpdateLayout (shelves/service.go) again and    *)
(* again, each edit starting from the layout the last one saved.  What     *)
(* concurrent edits do to each other is in ShelfPlacement.                 *)
(***************************************************************************)
EXTENDS ShelfLayout

CONSTANTS
  Cells,      \* the rows and columns a client uses
  MaxSlots,   \* bounds the slots of one edit
  MaxEdits    \* bounds the edits of one run

ASSUME EditorAssumption ==
  /\ Cells \subseteq Nat \X Nat
  /\ MaxSlots \in Nat
  /\ MaxEdits \in Nat
  /\ <<0, 0>> \in Cells
  /\ NoSlot \notin (0 .. MaxEdits) \X Cells

VARIABLES
  layout,   \* the rows, columns and slots of the shelf
  edits     \* how many edits were saved; names the IDs of the next one

vars == <<layout, edits>>

(* What a client may ask of a layout. *)
Wishes(base) ==
  LET wish == [cell : Cells, keep : SlotsOf(base) \union {NoSlot}, fresh : BOOLEAN]
  IN UNION {[1 .. n -> wish] : n \in 0 .. MaxSlots}

LayoutOf(r, input, base) ==
  [rows  |-> LayoutRows(r, "shelf", input, base),
   cols  |-> LayoutCols(r, input, base),
   slots |-> LayoutSlots(r, "shelf", input, base)]

(* CreateShelf: one slot, in a row and a column of its own. *)
Init ==
  /\ edits = 0
  /\ layout = LayoutOf(0, <<[cell |-> <<0, 0>>, keep |-> NoSlot, fresh |-> TRUE]>>,
                       [rows |-> {}, cols |-> {}, slots |-> {}])

(* Seeded fault: the IDs of an edit are used again by the next. *)
IdsUsedAgain(input) ==
  /\ edits < MaxEdits
  /\ Valid(input, layout)
  /\ edits' = edits
  /\ layout' = LayoutOf(edits + 1, input, layout)

Edit(input) ==
  /\ edits < MaxEdits
  /\ Valid(input, layout)
  /\ edits' = edits + 1
  /\ layout' = LayoutOf(edits + 1, input, layout)

Next ==
  \/ \E input \in Wishes(layout) : Edit(input)
  \/ edits = MaxEdits /\ UNCHANGED vars

Spec == Init /\ [][Next]_vars

-----------------------------------------------------------------------------
(* Every ID was made by an edit so far. *)
Made(ids, n, things) == ids \subseteq (0 .. n) \X things

(* Rows, columns and slots carry the IDs and the places they were made with. *)
TypeOK ==
  /\ edits \in 0 .. MaxEdits
  /\ Made({v.id : v \in layout.rows}, edits, Nat)
  /\ Made({c.id : c \in layout.cols}, edits, Cells)
  /\ Made({s.id : s \in layout.slots}, edits, Cells)
  /\ \A s \in layout.slots : s.val.cell \in Cells

(* No two rows, columns or slots share an ID. *)
DistinctIds(table) == \A v, w \in table : v.id = w.id => v = w

(* A slot stands in a row and a column of the layout, those its cell says. *)
Standing(slot, l) ==
  /\ \E v \in l.rows : v.id = slot.val.row /\ v.val.row = slot.val.cell[1]
  /\ \E c \in l.cols : /\ c.id = slot.val.col
                       /\ c.val = [parent |-> slot.val.row, col |-> slot.val.cell[2]]

Sound(l) ==
  /\ DistinctIds(l.rows) /\ DistinctIds(l.cols) /\ DistinctIds(l.slots)
  /\ \A s, t \in l.slots : s.val.cell = t.val.cell => s = t
  /\ \A s \in l.slots : Standing(s, l)

(***************************************************************************)
(* However often a layout is edited, with slots moved, dropped, added or   *)
(* sent without their IDs, its IDs stay distinct, a cell has one slot, and *)
(* a slot stands in the row and the column its cell says                   *)
(* (normalizeSlots 314-445): otherwise saving the layout would overwrite   *)
(* one slot with another, or lose it with a row it does not belong to.     *)
(***************************************************************************)
LayoutSound == Sound(layout)

(***************************************************************************)
(* Slot IDs are stable: a slot the client names moves with its ID, and one *)
(* it does not name keeps its ID if its cell is asked for and not as new,  *)
(* so no item loses its place to an edit that meant to keep it             *)
(* (normalizeSlots 414-427; api-deep-dive.md 206).                         *)
(***************************************************************************)
KeepsIds(input) ==
  LET after == LayoutSlots(edits + 1, "shelf", input, layout)
  IN \A s \in layout.slots, e \in Edits(input) :
       \/ e.keep = s.id
       \/ /\ e.keep = NoSlot /\ ~e.fresh /\ e.cell = s.val.cell
          /\ \A f \in Edits(input) : f.keep # s.id
       => \E t \in after : t.id = s.id /\ t.val.cell = e.cell

SlotIdsAreStable == \A input \in Wishes(layout) : Valid(input, layout) => KeepsIds(input)
=============================================================================
