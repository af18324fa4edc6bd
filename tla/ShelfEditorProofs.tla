-------------------------- MODULE ShelfEditorProofs --------------------------
(***************************************************************************)
(* Proofs about ShelfEditor: however a layout is edited it stays sound,    *)
(* and slots keep their IDs, for any cells, any number of slots and any    *)
(* number of edits.                                                        *)
(*                                                                         *)
(* The argument: IDs made by an edit are new, so within one edit a row ID  *)
(* stands for one row index, a column ID for one cell and a slot ID for    *)
(* one cell, whether it was kept, taken over or made.                      *)
(***************************************************************************)
EXTENDS ShelfEditor, TLAPS

(* No row, column or slot of base has an ID that request r makes. *)
New(r, base) ==
  /\ \A v \in base.rows, i \in Nat : v.id # <<r, i>>
  /\ \A c \in base.cols, cell \in Cells : c.id # <<r, cell>>
  /\ \A s \in base.slots, cell \in Cells : s.id # <<r, cell>>

(* An edit the code accepts of a layout, as a client may ask for it. *)
Accepted(input, base) ==
  /\ Valid(input, base)
  /\ \A e \in Edits(input) : e.cell \in Cells

(* An ID is one of the rows', or new if there are none. *)
LEMMA IdOfCases ==
  ASSUME NEW S, NEW new
  PROVE  \/ S = {} /\ IdOf(S, new) = new
         \/ \E v \in S : IdOf(S, new) = v.id
BY DEF IdOf

(* A cell is a row index and a column index. *)
LEMMA CellParts ==
  ASSUME NEW cell \in Cells
  PROVE  cell[1] \in Nat /\ cell[2] \in Nat /\ cell = <<cell[1], cell[2]>>
BY EditorAssumption

(* A row ID is the one of a row with that index, or new. *)
LEMMA RowIdCases ==
  ASSUME NEW r, NEW base, NEW i
  PROVE  \/ RowId(r, base, i) = <<r, i>>
         \/ \E v \in base.rows : v.val.row = i /\ RowId(r, base, i) = v.id
<1> DEFINE at == {v \in base.rows : v.val.row = i}
<1>1. \/ IdOf(at, <<r, i>>) = <<r, i>>
      \/ \E v \in at : IdOf(at, <<r, i>>) = v.id
  BY IdOfCases
<1>2. RowId(r, base, i) = IdOf(at, <<r, i>>)
  BY DEF RowId
<1> QED BY <1>1, <1>2

(* A row ID stands for one row index. *)
LEMMA RowIdsDiffer ==
  ASSUME NEW r, NEW base, New(r, base), DistinctIds(base.rows),
         NEW i \in Nat, NEW j \in Nat, RowId(r, base, i) = RowId(r, base, j)
  PROVE  i = j
<1> DEFINE Had(k) == \E v \in base.rows : v.val.row = k /\ RowId(r, base, k) = v.id
<1>1. RowId(r, base, i) = <<r, i>> \/ Had(i)
  BY RowIdCases
<1>2. RowId(r, base, j) = <<r, j>> \/ Had(j)
  BY RowIdCases
<1>3. CASE Had(i) /\ Had(j)
  BY <1>3 DEF DistinctIds
<1>4. CASE Had(i) /\ RowId(r, base, j) = <<r, j>>
  BY <1>4 DEF New
<1>5. CASE RowId(r, base, i) = <<r, i>> /\ Had(j)
  BY <1>5 DEF New
<1>6. CASE RowId(r, base, i) = <<r, i>> /\ RowId(r, base, j) = <<r, j>>
  <2>1. <<r, i>> = <<r, j>>
    BY <1>6
  <2> QED BY <2>1
<1> QED BY <1>1, <1>2, <1>3, <1>4, <1>5, <1>6

(* A column ID is the one of a column in that cell, or new. *)
Stands(c, base, cell) ==
  \E v \in base.rows : c.val.parent = v.id /\ <<v.val.row, c.val.col>> = cell

LEMMA ColumnIdCases ==
  ASSUME NEW r, NEW base, NEW cell
  PROVE  \/ ColumnId(r, base, cell) = <<r, cell>>
         \/ \E c \in base.cols : Stands(c, base, cell) /\ ColumnId(r, base, cell) = c.id
<1> DEFINE at == {c \in base.cols : \E v \in base.rows :
                    c.val.parent = v.id /\ <<v.val.row, c.val.col>> = cell}
<1>1. \/ IdOf(at, <<r, cell>>) = <<r, cell>>
      \/ \E c \in at : IdOf(at, <<r, cell>>) = c.id
  BY IdOfCases
<1>2. ColumnId(r, base, cell) = IdOf(at, <<r, cell>>)
  BY DEF ColumnId
<1> QED BY <1>1, <1>2 DEF Stands

(* A column ID stands for one cell. *)
LEMMA ColumnIdsDiffer ==
  ASSUME NEW r, NEW base, New(r, base), DistinctIds(base.rows), DistinctIds(base.cols),
         NEW a \in Cells, NEW b \in Cells, ColumnId(r, base, a) = ColumnId(r, base, b)
  PROVE  a = b
<1> DEFINE Had(cell) ==
      \E c \in base.cols : Stands(c, base, cell) /\ ColumnId(r, base, cell) = c.id
<1>1. ColumnId(r, base, a) = <<r, a>> \/ Had(a)
  BY ColumnIdCases
<1>2. ColumnId(r, base, b) = <<r, b>> \/ Had(b)
  BY ColumnIdCases
<1>3. CASE Had(a) /\ Had(b)
  <2>1. PICK c \in base.cols : Stands(c, base, a) /\ ColumnId(r, base, a) = c.id
    BY <1>3
  <2>2. PICK d \in base.cols : Stands(d, base, b) /\ ColumnId(r, base, b) = d.id
    BY <1>3
  <2>3. c = d
    BY <2>1, <2>2 DEF DistinctIds
  <2> QED BY <2>1, <2>2, <2>3 DEF DistinctIds, Stands
<1>4. CASE Had(a) /\ ColumnId(r, base, b) = <<r, b>>
  BY <1>4 DEF New
<1>5. CASE ColumnId(r, base, a) = <<r, a>> /\ Had(b)
  BY <1>5 DEF New
<1>6. CASE ColumnId(r, base, a) = <<r, a>> /\ ColumnId(r, base, b) = <<r, b>>
  <2>1. <<r, a>> = <<r, b>>
    BY <1>6
  <2> QED BY <2>1
<1> QED BY <1>1, <1>2, <1>3, <1>4, <1>5, <1>6

(* Two edits of one accepted input differ in their cells. *)
LEMMA OneEditPerCell ==
  ASSUME NEW input, NEW base, Accepted(input, base),
         NEW e \in Edits(input), NEW f \in Edits(input),
         e.cell = f.cell \/ (e.keep = f.keep /\ e.keep # NoSlot)
  PROVE  e = f
BY DEF Accepted, Valid, Edits

(* What ID a slot gets: the one it names, that of the slot in its cell, which
   then nobody names, or a new one. *)
LEMMA SlotIdCases ==
  ASSUME NEW r, NEW base, NEW input, NEW e
  PROVE  \/ e.keep # NoSlot /\ SlotId(r, input, base, e) = e.keep
         \/ /\ e.keep = NoSlot
            /\ \A f \in Edits(input) : f.keep # SlotId(r, input, base, e)
            /\ \E s \in base.slots : s.val.cell = e.cell /\ SlotId(r, input, base, e) = s.id
         \/ e.keep = NoSlot /\ SlotId(r, input, base, e) = <<r, e.cell>>
<1> DEFINE there == IdOf({s \in base.slots : s.val.cell = e.cell}, <<r, e.cell>>)
<1>1. \/ there = <<r, e.cell>>
      \/ \E s \in base.slots : s.val.cell = e.cell /\ there = s.id
  BY IdOfCases
<1>2. CASE e.keep # NoSlot
  BY <1>2 DEF SlotId
<1>3. CASE e.keep = NoSlot /\ ~e.fresh /\ \A f \in Edits(input) : f.keep # there
  BY <1>1, <1>3 DEF SlotId
<1>4. CASE e.keep = NoSlot /\ ~(~e.fresh /\ \A f \in Edits(input) : f.keep # there)
  BY <1>4 DEF SlotId
<1> QED BY <1>2, <1>3, <1>4

(* A slot ID stands for one slot of the edit. *)
LEMMA SlotIdsDiffer ==
  ASSUME NEW r, NEW base, NEW input, New(r, base), Accepted(input, base),
         DistinctIds(base.slots),
         NEW e \in Edits(input), NEW f \in Edits(input),
         SlotId(r, input, base, e) = SlotId(r, input, base, f)
  PROVE  e = f
<1> DEFINE id(x) == SlotId(r, input, base, x)
           Named(x) == x.keep # NoSlot /\ id(x) = x.keep
           Taken(x) == /\ x.keep = NoSlot
                       /\ \A y \in Edits(input) : y.keep # id(x)
                       /\ \E s \in base.slots : s.val.cell = x.cell /\ id(x) = s.id
           Made1(x) == x.keep = NoSlot /\ id(x) = <<r, x.cell>>
<1>1. \A x \in Edits(input) : Named(x) \/ Taken(x) \/ Made1(x)
  BY SlotIdCases
<1>2. \A x \in Edits(input) : Named(x) \/ Taken(x) => id(x) \in SlotsOf(base)
  BY DEF Accepted, Valid, SlotsOf
<1>3. \A x \in Edits(input) : Made1(x) => id(x) \notin SlotsOf(base)
  BY DEF Accepted, New, SlotsOf
<1>4. id(e) = id(f)
  OBVIOUS
<1>5. CASE Made1(e) \/ Made1(f)
  <2>1. Made1(e) /\ Made1(f)
    BY <1>1, <1>2, <1>3, <1>4, <1>5
  <2>2. <<r, e.cell>> = <<r, f.cell>>
    BY <2>1, <1>4
  <2>3. e.cell = f.cell
    BY <2>2
  <2> QED BY <2>3, OneEditPerCell
<1>6. CASE Named(e) /\ Named(f)
  BY <1>4, <1>6, OneEditPerCell
<1>7. CASE Taken(e) /\ Taken(f)
  <2>1. e.cell = f.cell
    BY <1>4, <1>7 DEF DistinctIds
  <2> QED BY <2>1, OneEditPerCell
<1>8. CASE (Named(e) /\ Taken(f)) \/ (Taken(e) /\ Named(f))
  BY <1>4, <1>8
<1> QED BY <1>1, <1>5, <1>6, <1>7, <1>8

-----------------------------------------------------------------------------
(* An accepted edit of a sound layout makes a sound layout. *)
LEMMA EditedIsSound ==
  ASSUME NEW r, NEW base, NEW input, New(r, base), Accepted(input, base), Sound(base)
  PROVE  Sound(LayoutOf(r, input, base))
<1> DEFINE l == LayoutOf(r, input, base)
<1>1. /\ l.rows = LayoutRows(r, "shelf", input, base)
      /\ l.cols = LayoutCols(r, input, base)
      /\ l.slots = LayoutSlots(r, "shelf", input, base)
  BY DEF LayoutOf
<1>2. \A e \in Edits(input) : e.cell \in Cells /\ e.cell[1] \in Nat
  BY CellParts DEF Accepted
<1>3. DistinctIds(l.rows)
  <2> SUFFICES ASSUME NEW v \in l.rows, NEW w \in l.rows, v.id = w.id
               PROVE  v = w
    BY DEF DistinctIds
  <2>1. PICK e \in Edits(input) :
          v = [id |-> RowId(r, base, e.cell[1]), val |-> [shelf |-> "shelf", row |-> e.cell[1]]]
    BY <1>1 DEF LayoutRows
  <2>2. PICK f \in Edits(input) :
          w = [id |-> RowId(r, base, f.cell[1]), val |-> [shelf |-> "shelf", row |-> f.cell[1]]]
    BY <1>1 DEF LayoutRows
  <2>3. e.cell[1] = f.cell[1]
    BY <1>2, <2>1, <2>2, RowIdsDiffer DEF Sound
  <2> QED BY <2>1, <2>2, <2>3
<1>4. DistinctIds(l.cols)
  <2> SUFFICES ASSUME NEW c \in l.cols, NEW d \in l.cols, c.id = d.id
               PROVE  c = d
    BY DEF DistinctIds
  <2>1. PICK e \in Edits(input) :
          c = [id |-> ColumnId(r, base, e.cell),
               val |-> [parent |-> RowId(r, base, e.cell[1]), col |-> e.cell[2]]]
    BY <1>1 DEF LayoutCols
  <2>2. PICK f \in Edits(input) :
          d = [id |-> ColumnId(r, base, f.cell),
               val |-> [parent |-> RowId(r, base, f.cell[1]), col |-> f.cell[2]]]
    BY <1>1 DEF LayoutCols
  <2>3. e.cell = f.cell
    BY <1>2, <2>1, <2>2, ColumnIdsDiffer DEF Sound
  <2> QED BY <2>1, <2>2, <2>3
<1>5. \A s \in l.slots : \E e \in Edits(input) :
        s = [id |-> SlotId(r, input, base, e),
             val |-> [shelf |-> "shelf", row |-> RowId(r, base, e.cell[1]),
                      col |-> ColumnId(r, base, e.cell), cell |-> e.cell]]
  BY <1>1 DEF LayoutSlots
<1>6. DistinctIds(l.slots)
  <2> SUFFICES ASSUME NEW s \in l.slots, NEW t \in l.slots, s.id = t.id
               PROVE  s = t
    BY DEF DistinctIds
  <2>1. PICK e \in Edits(input) :
          s = [id |-> SlotId(r, input, base, e),
               val |-> [shelf |-> "shelf", row |-> RowId(r, base, e.cell[1]),
                        col |-> ColumnId(r, base, e.cell), cell |-> e.cell]]
    BY <1>5
  <2>2. PICK f \in Edits(input) :
          t = [id |-> SlotId(r, input, base, f),
               val |-> [shelf |-> "shelf", row |-> RowId(r, base, f.cell[1]),
                        col |-> ColumnId(r, base, f.cell), cell |-> f.cell]]
    BY <1>5
  <2>3. SlotId(r, input, base, e) = SlotId(r, input, base, f)
    BY <2>1, <2>2
  <2>4. e = f
    BY <2>3, SlotIdsDiffer DEF Sound
  <2> QED BY <2>1, <2>2, <2>4
<1>7. ASSUME NEW s \in l.slots, NEW t \in l.slots, s.val.cell = t.val.cell
      PROVE  s = t
  <2>1. PICK e \in Edits(input) :
          s = [id |-> SlotId(r, input, base, e),
               val |-> [shelf |-> "shelf", row |-> RowId(r, base, e.cell[1]),
                        col |-> ColumnId(r, base, e.cell), cell |-> e.cell]]
    BY <1>5
  <2>2. PICK f \in Edits(input) :
          t = [id |-> SlotId(r, input, base, f),
               val |-> [shelf |-> "shelf", row |-> RowId(r, base, f.cell[1]),
                        col |-> ColumnId(r, base, f.cell), cell |-> f.cell]]
    BY <1>5
  <2>3. e.cell = f.cell
    BY <1>7, <2>1, <2>2
  <2>4. e = f
    BY <2>3, OneEditPerCell
  <2> QED BY <2>1, <2>2, <2>4
<1>8. ASSUME NEW s \in l.slots
      PROVE  Standing(s, l)
  <2>1. PICK e \in Edits(input) :
          s = [id |-> SlotId(r, input, base, e),
               val |-> [shelf |-> "shelf", row |-> RowId(r, base, e.cell[1]),
                        col |-> ColumnId(r, base, e.cell), cell |-> e.cell]]
    BY <1>5
  <2>2. [id |-> RowId(r, base, e.cell[1]), val |-> [shelf |-> "shelf", row |-> e.cell[1]]]
          \in l.rows
    BY <1>1 DEF LayoutRows
  <2>3. [id |-> ColumnId(r, base, e.cell),
         val |-> [parent |-> RowId(r, base, e.cell[1]), col |-> e.cell[2]]] \in l.cols
    BY <1>1 DEF LayoutCols
  <2>4. \E v \in l.rows : v.id = s.val.row /\ v.val.row = s.val.cell[1]
    BY <2>1, <2>2
  <2>5. \E c \in l.cols : /\ c.id = s.val.col
                          /\ c.val = [parent |-> s.val.row, col |-> s.val.cell[2]]
    BY <2>1, <2>3
  <2> QED BY <2>4, <2>5 DEF Standing
<1> QED BY <1>3, <1>4, <1>6, <1>7, <1>8 DEF Sound

(* Every ID of base was made by edit n or before. *)
AllMade(n, base) ==
  /\ Made({v.id : v \in base.rows}, n, Nat)
  /\ Made({c.id : c \in base.cols}, n, Cells)
  /\ Made({s.id : s \in base.slots}, n, Cells)

(* The IDs of an edit's layout were made by it or before it. *)
LEMMA EditedIsTyped ==
  ASSUME NEW n \in Nat, NEW m \in 0 .. n, NEW base, NEW input,
         Accepted(input, base), AllMade(m, base)
  PROVE  LET l == LayoutOf(n, input, base)
         IN AllMade(n, l) /\ \A s \in l.slots : s.val.cell \in Cells
<1> DEFINE l == LayoutOf(n, input, base)
<1>1. /\ l.rows = LayoutRows(n, "shelf", input, base)
      /\ l.cols = LayoutCols(n, input, base)
      /\ l.slots = LayoutSlots(n, "shelf", input, base)
  BY DEF LayoutOf
<1>2. \A e \in Edits(input) : e.cell \in Cells /\ e.cell[1] \in Nat
  BY CellParts DEF Accepted
<1>3. 0 .. m \subseteq 0 .. n /\ n \in 0 .. n
  OBVIOUS
<1>4. ASSUME NEW i \in Nat PROVE RowId(n, base, i) \in (0 .. n) \X Nat
  BY <1>3, RowIdCases DEF AllMade, Made
<1>5. ASSUME NEW cell \in Cells PROVE ColumnId(n, base, cell) \in (0 .. n) \X Cells
  BY <1>3, ColumnIdCases DEF AllMade, Made
<1>6. ASSUME NEW e \in Edits(input) PROVE SlotId(n, input, base, e) \in (0 .. n) \X Cells
  <2>1. \A id \in SlotsOf(base) : id \in (0 .. n) \X Cells
    BY <1>3 DEF AllMade, Made, SlotsOf
  <2>2. SlotId(n, input, base, e) \in SlotsOf(base) \/ SlotId(n, input, base, e) = <<n, e.cell>>
    BY SlotIdCases DEF Accepted, Valid, SlotsOf
  <2> QED BY <1>2, <1>3, <2>1, <2>2
<1>7. Made({v.id : v \in l.rows}, n, Nat)
  BY <1>1, <1>2, <1>4 DEF Made, LayoutRows
<1>8. Made({c.id : c \in l.cols}, n, Cells)
  BY <1>1, <1>2, <1>5 DEF Made, LayoutCols
<1>9. Made({s.id : s \in l.slots}, n, Cells)
  BY <1>1, <1>6 DEF Made, LayoutSlots
<1>10. \A s \in l.slots : s.val.cell \in Cells
  BY <1>1, <1>2 DEF LayoutSlots
<1> QED BY <1>7, <1>8, <1>9, <1>10 DEF AllMade

(* The IDs of the next edit are new. *)
LEMMA NextIdsAreNew ==
  ASSUME NEW n \in Nat, NEW base, AllMade(n, base)
  PROVE  New(n + 1, base)
<1>1. ASSUME NEW things, NEW id \in (0 .. n) \X things, NEW x PROVE id # <<n + 1, x>>
  <2>1. id[1] \in 0 .. n
    OBVIOUS
  <2>2. <<n + 1, x>>[1] = n + 1
    OBVIOUS
  <2> QED BY <2>1, <2>2
<1>2. \A v \in base.rows : v.id \in (0 .. n) \X Nat
  BY DEF AllMade, Made
<1>3. \A c \in base.cols : c.id \in (0 .. n) \X Cells
  BY DEF AllMade, Made
<1>4. \A s \in base.slots : s.id \in (0 .. n) \X Cells
  BY DEF AllMade, Made
<1> QED BY <1>1, <1>2, <1>3, <1>4 DEF New

(* What clients wish for is made of the shelf's cells. *)
LEMMA WishesAreAccepted ==
  ASSUME NEW base, NEW input \in Wishes(base), Valid(input, base)
  PROVE  Accepted(input, base)
<1> DEFINE wish == [cell : Cells, keep : SlotsOf(base) \union {NoSlot}, fresh : BOOLEAN]
<1>1. PICK n \in 0 .. MaxSlots : input \in [1 .. n -> wish]
  BY DEF Wishes
<1>2. \A e \in Edits(input) : e \in wish
  BY <1>1 DEF Edits
<1> QED BY <1>2 DEF Accepted

-----------------------------------------------------------------------------
Inv == TypeOK /\ LayoutSound

(* CreateShelf stores a sound layout. *)
LEMMA InitInv == Init => Inv
<1> SUFFICES ASSUME Init PROVE Inv
  OBVIOUS
<1> DEFINE base  == [rows |-> {}, cols |-> {}, slots |-> {}]
           input == <<[cell |-> <<0, 0>>, keep |-> NoSlot, fresh |-> TRUE]>>
<1>1. edits = 0 /\ layout = LayoutOf(0, input, base)
  BY DEF Init
<1>2. Accepted(input, base)
  BY EditorAssumption DEF Accepted, Valid, Edits
<1>3. New(0, base)
  BY DEF New
<1>4. Sound(base)
  BY DEF Sound, DistinctIds
<1>5. AllMade(0, base)
  BY DEF AllMade, Made
<1>6. Sound(layout)
  BY <1>1, <1>2, <1>3, <1>4, EditedIsSound
<1>7. /\ AllMade(0, layout)
      /\ \A s \in layout.slots : s.val.cell \in Cells
  <2>1. 0 \in Nat /\ 0 \in 0 .. 0
    OBVIOUS
  <2> HIDE DEF base, input
  <2> QED BY <1>1, <1>2, <1>5, <2>1, EditedIsTyped
<1>8. 0 \in 0 .. MaxEdits
  BY EditorAssumption
<1>9. TypeOK
  BY <1>1, <1>7, <1>8 DEF TypeOK, AllMade
<1> QED BY <1>6, <1>9 DEF Inv, LayoutSound

(* An edit of a sound layout leaves it sound. *)
LEMMA EditInv ==
  ASSUME Inv, NEW input \in Wishes(layout), Edit(input)
  PROVE  Inv'
<1>1. /\ edits \in 0 .. MaxEdits /\ edits < MaxEdits /\ MaxEdits \in Nat
      /\ edits' = edits + 1
      /\ layout' = LayoutOf(edits + 1, input, layout)
  BY EditorAssumption DEF Inv, TypeOK, Edit
<1>2. Accepted(input, layout)
  BY WishesAreAccepted DEF Edit
<1>3. edits \in Nat /\ AllMade(edits, layout)
  BY <1>1 DEF Inv, TypeOK, AllMade
<1>4. New(edits + 1, layout)
  BY <1>3, NextIdsAreNew
<1>5. Sound(layout')
  BY <1>1, <1>2, <1>4, EditedIsSound DEF Inv, LayoutSound
<1>6. edits + 1 \in Nat /\ edits \in 0 .. (edits + 1)
  BY <1>1
<1>7. /\ AllMade(edits + 1, layout')
      /\ \A s \in layout'.slots : s.val.cell \in Cells
  BY <1>1, <1>2, <1>3, <1>6, EditedIsTyped
<1>8. TypeOK'
  BY <1>1, <1>7 DEF TypeOK, AllMade
<1> QED BY <1>5, <1>8 DEF Inv, LayoutSound

(* So does every step. *)
LEMMA NextInv == Inv /\ [Next]_vars => Inv'
<1> SUFFICES ASSUME Inv, [Next]_vars PROVE Inv'
  OBVIOUS
<1>1. CASE \E input \in Wishes(layout) : Edit(input)
  BY <1>1, EditInv
<1>2. CASE UNCHANGED vars
  BY <1>2 DEF Inv, TypeOK, LayoutSound, vars
<1> QED BY <1>1, <1>2 DEF Next

(* A sound layout's slots keep their IDs in any edit that means them to. *)
LEMMA SoundKeepsIds ==
  ASSUME Inv, NEW input \in Wishes(layout), Valid(input, layout)
  PROVE  KeepsIds(input)
<1> DEFINE id(e) == SlotId(edits + 1, input, layout, e)
           after == LayoutSlots(edits + 1, "shelf", input, layout)
<1>1. \A e \in Edits(input) : \E t \in after : t.id = id(e) /\ t.val.cell = e.cell
  <2> SUFFICES ASSUME NEW e \in Edits(input)
               PROVE  \E t \in after : t.id = id(e) /\ t.val.cell = e.cell
    OBVIOUS
  <2> DEFINE t == [id |-> id(e),
                   val |-> [shelf |-> "shelf", row |-> RowId(edits + 1, layout, e.cell[1]),
                            col |-> ColumnId(edits + 1, layout, e.cell), cell |-> e.cell]]
  <2>1. t \in after
    BY DEF LayoutSlots
  <2>2. t.id = id(e) /\ t.val.cell = e.cell
    OBVIOUS
  <2> QED BY <2>1, <2>2
<1>2. ASSUME NEW s \in layout.slots PROVE s.id # NoSlot
  <2>1. s.id \in (0 .. edits) \X Cells
    BY DEF Inv, TypeOK, Made
  <2>2. edits \in 0 .. MaxEdits /\ MaxEdits \in Nat
    BY EditorAssumption DEF Inv, TypeOK
  <2>3. s.id \in (0 .. MaxEdits) \X Cells
    BY <2>1, <2>2
  <2> QED BY <2>3, EditorAssumption
<1>3. ASSUME NEW s \in layout.slots, NEW e \in Edits(input), e.keep = s.id
      PROVE  id(e) = s.id
  BY <1>2, <1>3 DEF SlotId
<1>4. ASSUME NEW s \in layout.slots, NEW e \in Edits(input),
             e.keep = NoSlot, ~e.fresh, e.cell = s.val.cell,
             \A f \in Edits(input) : f.keep # s.id
      PROVE  id(e) = s.id
  <2> DEFINE there == IdOf({t \in layout.slots : t.val.cell = e.cell}, <<edits + 1, e.cell>>)
  <2>1. \A t \in layout.slots : t.val.cell = e.cell => t = s
    BY <1>4 DEF Inv, LayoutSound, Sound
  <2>2. there = s.id
    BY <1>4, <2>1, IdOfCases
  <2>3. /\ e.keep = NoSlot /\ ~e.fresh
        /\ \A f \in Edits(input) : f.keep # there
    BY <1>4, <2>2
  <2> QED BY <2>2, <2>3 DEF SlotId
<1> QED BY <1>1, <1>3, <1>4 DEF KeepsIds

(* For any cells and any number of slots and edits: every ID of the layout
   was made by an edit so far. *)
THEOREM TypesHold == Spec => []TypeOK
<1>1. Inv => TypeOK
  BY DEF Inv
<1> QED BY <1>1, InitInv, NextInv, PTL DEF Spec

(* For any cells and any number of slots and edits: the layout keeps distinct
   IDs, one slot to a cell, and every slot in a row and column of its own
   layout. *)
THEOREM LayoutStaysSound == Spec => []LayoutSound
<1>1. Inv => LayoutSound
  BY DEF Inv
<1> QED BY <1>1, InitInv, NextInv, PTL DEF Spec

(* For any cells and any number of slots and edits: a slot keeps its ID in
   every edit that names it, or asks for its cell and names nothing. *)
THEOREM SlotIdsStayStable == Spec => []SlotIdsAreStable
<1>1. Inv => SlotIdsAreStable
  BY SoundKeepsIds DEF SlotIdsAreStable
<1> QED BY <1>1, InitInv, NextInv, PTL DEF Spec
=============================================================================
