------------------------ MODULE ShelfPlacementProofs ------------------------
(***************************************************************************)
(* Proofs about ShelfPlacement: placements stay in order, a saved          *)
(* placement is where it was asked to be, items leave their slots only by  *)
(* what somebody asked, an item is on one shelf, and a saved layout        *)
(* replaces the one before it, for any shelves, any number of requests and *)
(* any order of their statements.                                          *)
(*                                                                         *)
(* Placed is the argument: transactions that still have rows to commit are *)
(* at a statement that writes, a row a transaction removed goes with what  *)
(* refers to it, and two versions of one placement are the old and the new *)
(* one of the same transaction.  Kept adds why items stay in their slots:  *)
(* what a layout update sees of the slots it saved are its own versions,   *)
(* so the rows and columns it deletes take no saved slot along, and who    *)
(* removes a placement was asked to.  OnShelf adds why two transactions    *)
(* cannot place one item on two shelves while no two that might are        *)
(* between their checks and their commits together (Apart), and Laid why   *)
(* what an update kept is all there is once it has committed, while        *)
(* updates of one shelf that are between two statements share a row they   *)
(* both write (RowShared); RowsStay is why they do when every one of them  *)
(* keeps some row the shelf always has.                                    *)
(***************************************************************************)
EXTENDS ShelfPlacement, TLAPS

-----------------------------------------------------------------------------
(* What the operators of ReadCommitted do to the versions of a table. *)

Versions(table) ==
  \A v \in table : v = [id |-> v.id, val |-> v.val, ins |-> v.ins, del |-> v.del]

(* Version w is v, with these writers. *)
Is(w, v, ins, del) == w.id = v.id /\ w.val = v.val /\ w.ins = ins /\ w.del = del

(* Version w is what a removal of rows by t leaves of v. *)
Left(w, v, t, ids) ==
  /\ ~(v.id \in ids /\ v.ins = t)
  /\ Is(w, v, v.ins, IF v.id \in ids THEN t ELSE v.del)

LEMMA RemoveLeaves ==
  ASSUME NEW table, Versions(table), NEW t, NEW ids
  PROVE  /\ Versions(Remove(table, t, ids))
         /\ \A w \in Remove(table, t, ids) : \E v \in table : Left(w, v, t, ids)
         /\ \A v \in table : ~(v.id \in ids /\ v.ins = t) =>
              \E w \in Remove(table, t, ids) : Left(w, v, t, ids)
<1> DEFINE New(v) == IF v.id \in ids THEN [v EXCEPT !.del = t] ELSE v
<1>1. Remove(table, t, ids) = {New(v) : v \in {w \in table : ~(w.id \in ids /\ w.ins = t)}}
  BY DEF Remove
<1>2. ASSUME NEW v \in table
      PROVE  /\ Is(New(v), v, v.ins, IF v.id \in ids THEN t ELSE v.del)
             /\ New(v) = [id |-> New(v).id, val |-> New(v).val, ins |-> New(v).ins,
                          del |-> New(v).del]
  <2>1. v = [id |-> v.id, val |-> v.val, ins |-> v.ins, del |-> v.del]
    BY <1>2 DEF Versions
  <2>2. [v EXCEPT !.del = t] = [id |-> v.id, val |-> v.val, ins |-> v.ins, del |-> t]
    BY <2>1
  <2>3. QED
    BY <2>1, <2>2 DEF Is
<1> HIDE DEF New
<1>3. QED
  BY <1>1, <1>2 DEF Versions, Left

(* Version w is row n of those t puts. *)
Written(w, n, t) == Is(w, n, t, Nobody)

LEMMA PutLeaves ==
  ASSUME NEW table, Versions(table), NEW t, NEW new
  PROVE  /\ Versions(Put(table, t, new))
         /\ \A w \in Put(table, t, new) :
              \/ \E v \in table : Left(w, v, t, IdsOf(new))
              \/ \E n \in new : Written(w, n, t)
         /\ \A v \in table : ~(v.id \in IdsOf(new) /\ v.ins = t) =>
              \E w \in Put(table, t, new) : Left(w, v, t, IdsOf(new))
         /\ \A n \in new : \E w \in Put(table, t, new) : Written(w, n, t)
<1> DEFINE Row(n) == [id |-> n.id, val |-> n.val, ins |-> t, del |-> Nobody]
           left == Remove(table, t, IdsOf(new))
<1>1. Put(table, t, new) = left \union {Row(n) : n \in new}
  BY DEF Put, IdsOf
<1>2. \A n \in new : Written(Row(n), n, t)
  BY DEF Written, Is
<1>3. /\ Versions(left)
      /\ \A w \in left : \E v \in table : Left(w, v, t, IdsOf(new))
      /\ \A v \in table : ~(v.id \in IdsOf(new) /\ v.ins = t) =>
           \E w \in left : Left(w, v, t, IdsOf(new))
  BY RemoveLeaves
<1>4. Versions({Row(n) : n \in new})
  BY DEF Versions
<1> HIDE DEF Row, left
<1>5. QED
  BY <1>1, <1>2, <1>3, <1>4 DEF Versions

(* Version w is what t's commit, or its rollback, leaves of v. *)
Settled(w, v, t) == v.del # t /\ Is(w, v, IF v.ins = t THEN Nobody ELSE v.ins, v.del)
Undone(w, v, t) == v.ins # t /\ Is(w, v, v.ins, IF v.del = t THEN Nobody ELSE v.del)

LEMMA CommitLeaves ==
  ASSUME NEW table, Versions(table), NEW t
  PROVE  /\ Versions(Committed(table, t))
         /\ \A w \in Committed(table, t) : \E v \in table : Settled(w, v, t)
         /\ \A v \in table : v.del # t => \E w \in Committed(table, t) : Settled(w, v, t)
<1> DEFINE New(v) == IF v.ins = t THEN [v EXCEPT !.ins = Nobody] ELSE v
<1>1. Committed(table, t) = {New(v) : v \in {w \in table : w.del # t}}
  BY DEF Committed
<1>2. ASSUME NEW v \in table
      PROVE  /\ Is(New(v), v, IF v.ins = t THEN Nobody ELSE v.ins, v.del)
             /\ New(v) = [id |-> New(v).id, val |-> New(v).val, ins |-> New(v).ins,
                          del |-> New(v).del]
  <2>1. v = [id |-> v.id, val |-> v.val, ins |-> v.ins, del |-> v.del]
    BY <1>2 DEF Versions
  <2>2. [v EXCEPT !.ins = Nobody] = [id |-> v.id, val |-> v.val, ins |-> Nobody, del |-> v.del]
    BY <2>1
  <2>3. QED
    BY <2>1, <2>2 DEF Is
<1> HIDE DEF New
<1>3. QED
  BY <1>1, <1>2 DEF Versions, Settled

LEMMA RollbackLeaves ==
  ASSUME NEW table, Versions(table), NEW t
  PROVE  /\ Versions(RolledBack(table, t))
         /\ \A w \in RolledBack(table, t) : \E v \in table : Undone(w, v, t)
         /\ \A v \in table : v.ins # t => \E w \in RolledBack(table, t) : Undone(w, v, t)
<1> DEFINE New(v) == IF v.del = t THEN [v EXCEPT !.del = Nobody] ELSE v
<1>1. RolledBack(table, t) = {New(v) : v \in {w \in table : w.ins # t}}
  BY DEF RolledBack
<1>2. ASSUME NEW v \in table
      PROVE  /\ Is(New(v), v, v.ins, IF v.del = t THEN Nobody ELSE v.del)
             /\ New(v) = [id |-> New(v).id, val |-> New(v).val, ins |-> New(v).ins,
                          del |-> New(v).del]
  <2>1. v = [id |-> v.id, val |-> v.val, ins |-> v.ins, del |-> v.del]
    BY <1>2 DEF Versions
  <2>2. [v EXCEPT !.del = Nobody] = [id |-> v.id, val |-> v.val, ins |-> v.ins, del |-> Nobody]
    BY <2>1
  <2>3. QED
    BY <2>1, <2>2 DEF Is
<1> HIDE DEF New
<1>3. QED
  BY <1>1, <1>2 DEF Versions, Undone

(* Whoever else has written a row keeps others waiting for it. *)
LEMMA WaitsForWriter ==
  ASSUME NEW table, NEW t, NEW ids, Writers(table, t, ids) = {},
         NEW v \in table, v.id \in ids
  PROVE  v.ins \in {Nobody, t} /\ v.del \in {Nobody, t}
<1>1. ASSUME NEW x \in {v.ins, v.del} PROVE x \in {Nobody, t}
  <2>1. x \in UNION {{w.ins, w.del} : w \in {y \in table : y.id \in ids}}
    BY <1>1
  <2>2. QED
    BY <2>1 DEF Writers
<1>2. QED
  BY <1>1

-----------------------------------------------------------------------------
(* The inductive invariant. *)

(* The shelf an ID of a slot was made for, and the owner an item's was. *)
Home(id) == IF id[1] \in Shelves THEN id[1] ELSE ShelfOf[id[1]]

OwnerNamed(i) ==
  IF i \in Requests THEN OwnerOf[i] ELSE (CHOOSE f \in FirstItems : f.id = i).owner

LayoutPCs == {"readCols", "readSlots", "readPlaces", "plan", "dropPlaces", "dropSlots",
              "putRows", "putCols", "putSlots", "sweepPlaces", "sweepSlots", "sweepCols",
              "sweepRows"}

SavingPCs == LayoutPCs \ {"readCols", "readSlots", "readPlaces", "plan"}

PlacingPCs == {"find", "create", "check", "clear", "insert"}

(* Where a transaction may have written already. *)
WritingPCs == (SavingPCs \ {"dropPlaces"}) \union {"insert", "commit"}

TypesOK ==
  /\ pc \in [Requests -> PCs]
  /\ running \in [Requests -> BOOLEAN]
  /\ \A r \in Requests : running[r] => pc[r] \in Scanning
  /\ DOMAIN target = Requests /\ DOMAIN base = Requests /\ Requests \subseteq DOMAIN item
  /\ \A r \in Requests :
       base[r] = [rows |-> base[r].rows, cols |-> base[r].cols, slots |-> base[r].slots,
                  places |-> base[r].places]

(* A request is at a statement of its kind. *)
KindOK(r) ==
  /\ pc[r] \in LayoutPCs => r \in Layouts
  /\ pc[r] \in PlacingPCs => r \in Placing
  /\ pc[r] = "commit" => r \in Layouts \union Placing
  /\ pc[r] = "unplace" => r \in Removes
  /\ pc[r] = "delete" => r \in Deletes

(* What a layout update read is its shelf's, and it saves what it may. *)
ReadOK(r) ==
  /\ \A s \in base[r].slots : Home(s.id) = ShelfOf[r]
  /\ pc[r] \in SavingPCs => Valid(InputOf[r], base[r])

(* What a placing request has checked. *)
CheckedOK(r) ==
  /\ pc[r] \in {"check", "clear", "insert", "commit"} => OwnerNamed(item[r]) = OwnerOf[r]
  /\ pc[r] \in {"clear", "insert", "commit"} => ShelfOwned(r) /\ Home(SlotOf[r]) = ShelfOf[r]

ControlOK ==
  /\ TypesOK
  /\ \A r \in Requests : KindOK(r)
  /\ \A r \in Layouts : ReadOK(r)
  /\ \A r \in Placing : CheckedOK(r)

(* The names of slots and items tell where they belong. *)
NamesOK ==
  /\ \A s \in slots : s.val.shelf = Home(s.id)
  /\ \A i \in items : i.val.owner = OwnerNamed(i.id)

Writing(kind) == {r \in kind : pc[r] \in WritingPCs}

(* Only these transactions have written, and none removes what is not committed. *)
WrittenBy(table, writers) ==
  \A v \in table :
    /\ v.ins \in {Nobody} \union writers
    /\ v.del \in {Nobody} \union writers
    /\ v.ins # Nobody => v.del = Nobody

TablesOK ==
  /\ Versions(rows) /\ WrittenBy(rows, Writing(Layouts))
  /\ Versions(cols) /\ WrittenBy(cols, Writing(Layouts))
  /\ Versions(slots) /\ WrittenBy(slots, Writing(Layouts))
  /\ Versions(places) /\ WrittenBy(places, Writing(Layouts \union Placing))
  /\ Versions(items) /\ WrittenBy(items, {})

(* A placement is of an item there is, of the shelf's owner; a layout update
   only empties placements, and a request makes one of its own. *)
PlaceOK(p) ==
  /\ p.val = [shelf |-> p.val.shelf, item |-> p.val.item, slot |-> p.val.slot]
  /\ p.val.item \in IdsOf(items)
  /\ OwnerNamed(p.val.item) = ShelfOwner[p.val.shelf]
  /\ p.ins \in Layouts => p.val.slot = NoSlot
  /\ p.ins \in Placing => p.id = p.ins
  /\ p.id \in Requests =>
       /\ p.id \in Placing /\ pc[p.id] \in {"commit", "done"}
       /\ pc[p.id] = "commit" =>
            /\ p.ins = p.id
            /\ p.val = [shelf |-> ShelfOf[p.id], item |-> item[p.id], slot |-> SlotOf[p.id]]

(* The slot of a placement is committed, and a transaction that removes it
   removes the placement too or writes the slot again. *)
SlotKept(p) ==
  p.val.slot # NoSlot =>
    /\ Home(p.val.slot) = p.val.shelf
    /\ \E s \in slots :
         /\ s.id = p.val.slot /\ s.ins = Nobody
         /\ \/ s.del = Nobody
            \/ p.ins = Nobody /\ p.del = s.del
            \/ \E n \in slots : n.id = s.id /\ n.ins = s.del

SameKey(p, q) == p.val.item = q.val.item /\ p.val.shelf = q.val.shelf

(* The transaction that wrote p removes q. *)
Replaces(p, q) == p.ins \in Placing /\ q.ins = Nobody /\ q.del = p.ins

(* Versions of one placement differ by having lost the slot; of two placements
   of an item on a shelf one replaces the other. *)
KeyOK(p, q) ==
  /\ p.id = q.id =>
       SameKey(p, q) /\ (p.val.slot = q.val.slot \/ NoSlot \in {p.val.slot, q.val.slot})
  /\ SameKey(p, q) /\ p.id # q.id => Replaces(p, q) \/ Replaces(q, p)

OneKey == \A p, q \in places : KeyOK(p, q)

Made == \A r \in Placing : pc[r] = "commit" => \E p \in places : p.id = r

PlacesOK == OneKey /\ Made /\ \A p \in places : PlaceOK(p) /\ SlotKept(p)

Placed == ControlOK /\ NamesOK /\ TablesOK /\ PlacesOK

-----------------------------------------------------------------------------
(* What a step of a request does to the tables. *)

Goes(r, from, to) ==
  /\ pc[r] \in from /\ pc'[r] \in to
  /\ \A q \in Requests \ {r} : pc'[q] = pc[q]

Reads(r) ==
  /\ UNCHANGED tables
  /\ \/ UNCHANGED pc
     \/ Goes(r, {"start", "readCols", "readSlots", "readPlaces", "plan", "find", "check"},
             (PCs \ WritingPCs) \union {"putRows"})

DropsPlaces(r) ==
  /\ r \in Layouts \union Placing
  /\ Goes(r, {"dropPlaces", "sweepPlaces", "clear"}, {"dropSlots", "sweepSlots", "insert"})
  /\ pc'[r] = "sweepSlots" => pc[r] = "sweepPlaces"
  /\ UNCHANGED <<rows, cols, slots, items>>
  /\ \E ids \in SUBSET IdsOf(Matching(r)) :
       places' = Remove(places, r, ids) /\ Writers(places, r, ids) = {}

(* The placements of these slots lose them. *)
Emptied(r, slotIds) == {[p EXCEPT !.val.slot = NoSlot] : p \in PlacesIn(r, slotIds)}

(* The rows, columns or slots that a statement deletes match it. *)
Swept(r, rowIds, colIds, slotIds) ==
  \/ /\ pc[r] \in {"dropSlots", "sweepSlots"}
     /\ rowIds = {} /\ colIds = {} /\ slotIds \subseteq IdsOf(Matching(r))
  \/ /\ pc[r] = "sweepCols"
     /\ rowIds = {} /\ colIds \subseteq IdsOf(Matching(r)) /\ slotIds = {}
  \/ /\ pc[r] = "sweepRows"
     /\ rowIds \subseteq IdsOf(Matching(r)) /\ colIds = {} /\ slotIds = {}

Cuts(r) ==
  /\ r \in Layouts
  /\ Goes(r, {"dropSlots", "sweepSlots", "sweepCols", "sweepRows"},
             {"putRows", "sweepCols", "sweepRows", "commit"})
  /\ pc[r] = "dropSlots" => pc'[r] = "putRows"
  /\ \E rowIds, colIds, slotIds :
       /\ Cut(r, rowIds, colIds, slotIds) /\ CutBlockers(r, rowIds, colIds, slotIds) = {}
       /\ Swept(r, rowIds, colIds, slotIds)

PutsRows(r) ==
  /\ r \in Layouts /\ Goes(r, {"putRows"}, {"putCols"})
  /\ rows' = Put(rows, r, NewRows(r)) /\ Writers(rows, r, IdsOf(NewRows(r))) = {}
  /\ UNCHANGED <<cols, slots, places, items>>

PutsCols(r) ==
  /\ r \in Layouts /\ Goes(r, {"putCols"}, {"putSlots"})
  /\ cols' = Put(cols, r, NewCols(r)) /\ Writers(cols, r, IdsOf(NewCols(r))) = {}
  /\ UNCHANGED <<rows, slots, places, items>>

PutsSlots(r) ==
  /\ r \in Layouts /\ Goes(r, {"putSlots"}, {"sweepPlaces"})
  /\ slots' = Put(slots, r, NewSlots(r)) /\ Writers(slots, r, IdsOf(NewSlots(r))) = {}
  /\ UNCHANGED <<rows, cols, places, items>>

NewItem(r) == Stored(r, [owner |-> OwnerOf[r], isbn |-> IsbnOf[r]])

Creates(r) ==
  /\ r \in Placing /\ Goes(r, {"create"}, {"check"})
  /\ items' = items \union {NewItem(r)}
  /\ UNCHANGED <<rows, cols, slots, places>>

NewPlace(r) ==
  [id |-> r, val |-> [shelf |-> ShelfOf[r], item |-> item[r], slot |-> SlotOf[r]]]

(* The placements of an item on a shelf. *)
KeyIds(shelf, i) == {p.id : p \in {q \in places : q.val.shelf = shelf /\ q.val.item = i}}

Inserts(r) ==
  /\ r \in Placing /\ Goes(r, {"insert"}, {"commit"}) /\ item' = item
  /\ KeysHold(r) /\ Removers(slots, r, SlotOf[r]) = {}
  /\ Writers(places, r, KeyIds(ShelfOf[r], item[r])) = {}
  /\ places' = Put(places, r, {NewPlace(r)})
  /\ UNCHANGED <<rows, cols, slots, items>>

Unplaces(r) ==
  /\ r \in Removes /\ Goes(r, {"unplace"}, {"failed", "done"})
  /\ \E ids \in SUBSET IdsOf(Matching(r)) :
       /\ ids # {} => pc'[r] = "done"
       /\ Writers(places, r, ids) = {}
       /\ places' = {IF p.id \in ids THEN [p EXCEPT !.val.slot = NoSlot] ELSE p : p \in places}
  /\ UNCHANGED <<rows, cols, slots, items>>

DropsItem(r) ==
  /\ r \in Deletes /\ Goes(r, {"delete"}, {"failed", "done"})
  /\ \E ids \in SUBSET IdsOf(Matching(r)) :
       /\ ids # {} => pc'[r] = "done"
       /\ items' = {i \in items : i.id \notin ids}
       /\ places' = {p \in places : p.val.item \notin ids}
       /\ Referrers(r, {}, ids) = {}
  /\ UNCHANGED <<rows, cols, slots>>

Commits(r) ==
  /\ r \in Layouts \union Placing /\ Goes(r, {"commit"}, {"done"})
  /\ CommitTables(r) /\ UNCHANGED item

GivesUp(r) == pc[r] \notin Ended /\ Goes(r, PCs, {"failed"}) /\ Abort(r)

(* Whoever waits for fewer rows waits for fewer transactions. *)
LEMMA FewerWriters ==
  ASSUME NEW table, NEW t, NEW few, NEW many, few \subseteq many, Writers(table, t, many) = {}
  PROVE  Writers(table, t, few) = {}
<1>1. ASSUME NEW x \in Writers(table, t, few) PROVE x \in Writers(table, t, many)
  BY <1>1 DEF Writers
<1>2. QED
  BY <1>1

LEMMA FewerBlockers ==
  ASSUME NEW r, NEW a, NEW b, NEW c, NEW d, NEW e, NEW f,
         a \subseteq b, c \subseteq d, e \subseteq f,
         CutBlockers(r, b, d, f) = {}
  PROVE  CutBlockers(r, a, c, e) = {}
<1> DEFINE fewCols == ColsUnder(r, a, c)
           allCols == ColsUnder(r, b, d)
           few == SlotsUnder(r, a, c, e)
           all == SlotsUnder(r, b, d, f)
<1>1. fewCols \subseteq allCols
  BY DEF ColsUnder, IdsOf
<1>2. few \subseteq all
  BY <1>1 DEF SlotsUnder, IdsOf
<1>3. IdsOf(PlacesIn(r, few)) \subseteq IdsOf(PlacesIn(r, all))
  BY <1>2 DEF PlacesIn, IdsOf
<1>4. Referrers(r, few, {}) \subseteq Referrers(r, all, {})
  BY <1>2 DEF Referrers
<1>5. /\ Writers(rows, r, b) = {} /\ Writers(cols, r, allCols) = {}
      /\ Writers(slots, r, all) = {} /\ Writers(places, r, IdsOf(PlacesIn(r, all))) = {}
      /\ Referrers(r, all, {}) = {}
  BY DEF CutBlockers
<1> HIDE DEF fewCols, allCols, few, all
<1>6. /\ Writers(rows, r, a) = {} /\ Writers(cols, r, fewCols) = {}
      /\ Writers(slots, r, few) = {} /\ Writers(places, r, IdsOf(PlacesIn(r, few))) = {}
      /\ Referrers(r, few, {}) = {}
  BY <1>1, <1>2, <1>3, <1>4, <1>5, FewerWriters
<1>7. QED
  BY <1>6 DEF CutBlockers, fewCols, few

(* What Cut and its blockers come to. *)
LEMMA CutTables ==
  ASSUME NEW r, NEW a, NEW b, NEW c, Cut(r, a, b, c), CutBlockers(r, a, b, c) = {}
  PROVE  /\ UNCHANGED items
         /\ \E ids : rows' = Remove(rows, r, ids) /\ Writers(rows, r, ids) = {}
         /\ \E ids : cols' = Remove(cols, r, ids) /\ Writers(cols, r, ids) = {}
         /\ \E ids :
              /\ slots' = Remove(slots, r, ids) /\ Writers(slots, r, ids) = {}
              /\ places' = Put(places, r, Emptied(r, ids))
              /\ Writers(places, r, IdsOf(PlacesIn(r, ids))) = {} /\ Referrers(r, ids, {}) = {}
<1>1. /\ UNCHANGED items /\ rows' = Remove(rows, r, a)
      /\ cols' = Remove(cols, r, ColsUnder(r, a, b))
      /\ slots' = Remove(slots, r, SlotsUnder(r, a, b, c))
      /\ places' = Put(places, r, Emptied(r, SlotsUnder(r, a, b, c)))
  BY DEF Cut, Emptied
<1>2. /\ Writers(rows, r, a) = {} /\ Writers(cols, r, ColsUnder(r, a, b)) = {}
      /\ Writers(slots, r, SlotsUnder(r, a, b, c)) = {}
      /\ Writers(places, r, IdsOf(PlacesIn(r, SlotsUnder(r, a, b, c)))) = {}
      /\ Referrers(r, SlotsUnder(r, a, b, c), {}) = {}
  BY DEF CutBlockers
<1>3. QED
  BY <1>1, <1>2

(* Whom each statement waits for. *)
LEMMA WhoBlocks ==
  ASSUME NEW r
  PROVE  /\ pc[r] \in {"dropPlaces", "sweepPlaces", "clear", "unplace"} /\ running[r] =>
              Blockers(r) = Writers(places, r, target[r])
         /\ pc[r] \in {"dropSlots", "sweepSlots"} /\ running[r] =>
              Blockers(r) = CutBlockers(r, {}, {}, target[r])
         /\ pc[r] = "sweepCols" /\ running[r] => Blockers(r) = CutBlockers(r, {}, target[r], {})
         /\ pc[r] = "sweepRows" /\ running[r] => Blockers(r) = CutBlockers(r, target[r], {}, {})
         /\ pc[r] = "delete" /\ running[r] =>
              Blockers(r) = Writers(items, r, target[r]) \union Referrers(r, {}, target[r])
                \union Writers(places, r, {p.id : p \in {q \in places : q.val.item \in target[r]}})
         /\ pc[r] = "putRows" => Blockers(r) = Writers(rows, r, IdsOf(NewRows(r)))
         /\ pc[r] = "putCols" => Blockers(r) = Writers(cols, r, IdsOf(NewCols(r)))
         /\ pc[r] = "putSlots" => Blockers(r) = Writers(slots, r, IdsOf(NewSlots(r)))
         /\ pc[r] = "insert" =>
              Blockers(r) = Removers(slots, r, SlotOf[r]) \union Removers(items, r, item[r])
                              \union Writers(places, r, KeyIds(ShelfOf[r], item[r]))
         /\ pc[r] \in Ended => Blockers(r) = {}
BY DEF Blockers, KeyIds, Ended

LEMMA Finishes ==
  ASSUME TypesOK, NEW r \in Requests, NEW p, NEW q, Finish(r, p, q)
  PROVE  /\ pc[r] = p /\ Goes(r, {p}, {q}) /\ Blockers(r) = {}
         /\ p \in Scanning => running[r]
         /\ running' = [running EXCEPT ![r] = FALSE] /\ target' = [target EXCEPT ![r] = {}]
BY DEF Finish, Goes, TypesOK

LEMMA SavesStep ==
  ASSUME TypesOK, NEW r \in Requests, SaveLayout(r)
  PROVE  DropsPlaces(r) \/ Cuts(r) \/ PutsRows(r) \/ PutsCols(r) \/ PutsSlots(r)
<1>1. r \in Layouts
  BY DEF SaveLayout
<1>2. Found(r) \subseteq target[r] /\ Found(r) \subseteq IdsOf(Matching(r)) /\ {} \subseteq {}
  BY DEF Found
<1>3. ASSUME NEW p \in {"dropPlaces", "sweepPlaces"}, NEW q \in {"dropSlots", "sweepSlots"},
              q = "sweepSlots" => p = "sweepPlaces", Finish(r, p, q),
             places' = Remove(places, r, Found(r)),
             UNCHANGED <<rows, cols, slots, items>>
      PROVE  DropsPlaces(r)
  <2>1. Goes(r, {"dropPlaces", "sweepPlaces", "clear"}, {"dropSlots", "sweepSlots", "insert"})
    <3>1. Goes(r, {p}, {q})
      BY <1>3, Finishes
    <3>2. QED
      BY <3>1, <1>3 DEF Goes
  <2>2. pc[r] = p /\ running[r] /\ Blockers(r) = {}
    BY <1>3, Finishes DEF Scanning
  <2>3. Writers(places, r, target[r]) = {}
    BY <1>3, <2>2, WhoBlocks
  <2>4. Writers(places, r, Found(r)) = {}
    BY <2>3, <1>2, FewerWriters
  <2>5. pc'[r] = q
    BY <1>3, Finishes DEF Goes
  <2>6. QED
    BY <1>1, <1>2, <1>3, <2>1, <2>2, <2>4, <2>5 DEF DropsPlaces
<1>4. ASSUME NEW p \in {"dropSlots", "sweepSlots", "sweepCols", "sweepRows"},
             NEW q \in {"putRows", "sweepCols", "sweepRows", "commit"}, Finish(r, p, q),
             p = "dropSlots" => q = "putRows",
             NEW a, NEW b, NEW c, Cut(r, a, b, c), CutBlockers(r, a, b, c) = {},
             Swept(r, a, b, c)
      PROVE  Cuts(r)
  <2>1. Goes(r, {"dropSlots", "sweepSlots", "sweepCols", "sweepRows"},
                {"putRows", "sweepCols", "sweepRows", "commit"})
    <3>1. Goes(r, {p}, {q})
      BY <1>4, Finishes
    <3>2. QED
      BY <3>1, <1>4 DEF Goes
  <2>2. pc[r] = p /\ pc'[r] = q
    BY <1>4, Finishes DEF Goes
  <2>3. QED
    BY <1>1, <1>4, <2>1, <2>2 DEF Cuts
<1>5. ASSUME NEW p \in {"dropSlots", "sweepSlots"}, NEW q \in {"putRows", "sweepCols"},
             p = "dropSlots" => q = "putRows", Finish(r, p, q), Cut(r, {}, {}, Found(r))
      PROVE  Cuts(r)
  <2>1. pc[r] = p /\ running[r] /\ Blockers(r) = {}
    BY <1>5, Finishes DEF Scanning
  <2>2. CutBlockers(r, {}, {}, target[r]) = {}
    BY <1>5, <2>1, WhoBlocks
  <2>3. CutBlockers(r, {}, {}, Found(r)) = {}
    BY <2>2, <1>2, FewerBlockers
  <2>4. Swept(r, {}, {}, Found(r))
    BY <1>2, <1>5, <2>1 DEF Swept
  <2>5. QED
    BY <1>5, <2>3, <2>4, <1>4
<1>6. ASSUME Finish(r, "sweepCols", "sweepRows"), Cut(r, {}, Found(r), {}) PROVE Cuts(r)
  <2>1. pc[r] = "sweepCols" /\ running[r] /\ Blockers(r) = {}
    BY <1>6, Finishes DEF Scanning
  <2>2. CutBlockers(r, {}, target[r], {}) = {}
    BY <2>1, WhoBlocks
  <2>3. CutBlockers(r, {}, Found(r), {}) = {}
    BY <2>2, <1>2, FewerBlockers
  <2>4. Swept(r, {}, Found(r), {})
    BY <1>2, <2>1 DEF Swept
  <2>5. QED
    BY <1>6, <2>3, <2>4, <1>4
<1>7. ASSUME Finish(r, "sweepRows", "commit"), Cut(r, Found(r), {}, {}) PROVE Cuts(r)
  <2>1. pc[r] = "sweepRows" /\ running[r] /\ Blockers(r) = {}
    BY <1>7, Finishes DEF Scanning
  <2>2. CutBlockers(r, target[r], {}, {}) = {}
    BY <2>1, WhoBlocks
  <2>3. CutBlockers(r, Found(r), {}, {}) = {}
    BY <2>2, <1>2, FewerBlockers
  <2>4. Swept(r, Found(r), {}, {})
    BY <1>2, <2>1 DEF Swept
  <2>5. QED
    BY <1>7, <2>3, <2>4, <1>4
<1>8. CASE Finish(r, "putRows", "putCols") /\ rows' = Put(rows, r, NewRows(r))
           /\ UNCHANGED <<cols, slots, places, items>>
  <2>1. Goes(r, {"putRows"}, {"putCols"}) /\ Writers(rows, r, IdsOf(NewRows(r))) = {}
    BY <1>8, Finishes, WhoBlocks
  <2>2. QED
    BY <1>1, <1>8, <2>1 DEF PutsRows
<1>9. CASE Finish(r, "putCols", "putSlots") /\ cols' = Put(cols, r, NewCols(r))
           /\ UNCHANGED <<rows, slots, places, items>>
  <2>1. Goes(r, {"putCols"}, {"putSlots"}) /\ Writers(cols, r, IdsOf(NewCols(r))) = {}
    BY <1>9, Finishes, WhoBlocks
  <2>2. QED
    BY <1>1, <1>9, <2>1 DEF PutsCols
<1>10. CASE Finish(r, "putSlots", "sweepPlaces") /\ slots' = Put(slots, r, NewSlots(r))
            /\ UNCHANGED <<rows, cols, places, items>>
  <2>1. Goes(r, {"putSlots"}, {"sweepPlaces"}) /\ Writers(slots, r, IdsOf(NewSlots(r))) = {}
    BY <1>10, Finishes, WhoBlocks
  <2>2. QED
    BY <1>1, <1>10, <2>1 DEF PutsSlots
<1>11. CASE \E p \in {"dropPlaces", "sweepPlaces"}, q \in {"dropSlots", "sweepSlots"} :
              /\ q = "sweepSlots" => p = "sweepPlaces"
              /\ Finish(r, p, q) /\ places' = Remove(places, r, Found(r))
              /\ UNCHANGED <<rows, cols, slots, items>>
  BY <1>11, <1>3
<1>12. CASE \E p \in {"dropSlots", "sweepSlots"}, q \in {"putRows", "sweepCols"} :
              /\ p = "dropSlots" => q = "putRows"
              /\ Finish(r, p, q) /\ Cut(r, {}, {}, Found(r))
  BY <1>12, <1>5
<1>13. QED
  BY <1>6, <1>7, <1>8, <1>9, <1>10, <1>11, <1>12 DEF SaveLayout

LEMMA PlacingStep ==
  ASSUME TypesOK, NEW r \in Requests, Place(r)
  PROVE  Reads(r) \/ DropsPlaces(r) \/ Creates(r) \/ Inserts(r) \/ GivesUp(r)
<1>1. r \in Placing
  BY DEF Place
<1>2. ASSUME CheckItem(r) \/ CheckShelf(r) \/ FindByISBN(r) \/ CheckSlot(r) PROVE Reads(r)
  <2>1. PICK p \in {"start", "find", "check"},
             q \in {"failed", "check", "find", "done", "create", "clear"} : Goto(r, p, q)
    BY <1>2 DEF CheckItem, CheckShelf, FindByISBN, CheckSlot
  <2>2. QED
    BY <2>1 DEF Goto, Reads, Goes, tables, TypesOK, PCs, WritingPCs, SavingPCs, LayoutPCs, Scanning,
                Ended
<1>3. CASE CreateItem(r)
  <2>1. Goes(r, {"create"}, {"check"})
    BY <1>3, Finishes DEF CreateItem
  <2>2. QED
    BY <1>1, <1>3, <2>1 DEF CreateItem, Creates, NewItem, Stored
<1>4. CASE Clear(r)
  <2>1. /\ Goes(r, {"clear"}, {"insert"}) /\ pc[r] = "clear" /\ running[r] /\ Blockers(r) = {}
        /\ places' = Remove(places, r, Found(r))
    BY <1>4, Finishes DEF Clear, Scanning
  <2>2. Goes(r, {"dropPlaces", "sweepPlaces", "clear"}, {"dropSlots", "sweepSlots", "insert"})
    BY <2>1 DEF Goes
  <2>3. Writers(places, r, target[r]) = {}
    BY <2>1, WhoBlocks
  <2>4. Found(r) \subseteq target[r] /\ Found(r) \subseteq IdsOf(Matching(r))
    BY DEF Found
  <2>5. Writers(places, r, Found(r)) = {}
    BY <2>3, <2>4, FewerWriters
  <2>6. QED
    BY <1>1, <1>4, <2>1, <2>2, <2>4, <2>5 DEF DropsPlaces, Clear, Goes
<1>5. CASE InsertPlace(r) /\ KeysHold(r)
  <2>1. /\ Goes(r, {"insert"}, {"commit"}) /\ pc[r] = "insert" /\ Blockers(r) = {}
        /\ places' = Put(places, r, {NewPlace(r)})
        /\ UNCHANGED <<rows, cols, slots, items, base, item>>
    BY <1>5, Finishes DEF InsertPlace, NewPlace
  <2>2. Removers(slots, r, SlotOf[r]) = {} /\ Writers(places, r, KeyIds(ShelfOf[r], item[r])) = {}
    BY <2>1, WhoBlocks
  <2>3. QED
    BY <1>1, <1>5, <2>1, <2>2 DEF Inserts
<1>6. CASE InsertPlace(r) /\ ~KeysHold(r)
  BY <1>6 DEF InsertPlace, Abort, GivesUp, Goes, TypesOK, PCs, Ended
<1>7. QED
  BY <1>2, <1>3, <1>4, <1>5, <1>6 DEF Place

LEMMA RemovesStep ==
  ASSUME TypesOK, NEW r \in Requests, RemoveItem(r)
  PROVE  Reads(r) \/ Unplaces(r)
<1>1. CASE \E q \in {"unplace", "failed"} : Goto(r, "start", q)
  BY <1>1 DEF Goto, Reads, Goes, tables, TypesOK, PCs, WritingPCs, SavingPCs, LayoutPCs, Scanning,
              Ended
<1>2. ASSUME NEW q \in {"failed", "done"}, Found(r) # {} => q = "done", Finish(r, "unplace", q),
             places' = {IF p.id \in Found(r) THEN [p EXCEPT !.val.slot = NoSlot] ELSE p :
                          p \in places},
             UNCHANGED <<rows, cols, slots, items>>
      PROVE  Unplaces(r)
  <2>1. Goes(r, {"unplace"}, {q}) /\ pc[r] = "unplace" /\ running[r] /\ Blockers(r) = {}
    BY <1>2, Finishes DEF Scanning
  <2>2. Goes(r, {"unplace"}, {"failed", "done"}) /\ pc'[r] = q
    BY <2>1 DEF Goes
  <2>3. /\ Writers(places, r, target[r]) = {}
        /\ Found(r) \subseteq target[r] /\ Found(r) \subseteq IdsOf(Matching(r))
    BY <2>1, WhoBlocks DEF Found
  <2>4. Writers(places, r, Found(r)) = {}
    BY <2>3, FewerWriters
  <2>5. r \in Removes
    BY DEF RemoveItem
  <2>6. QED
    BY <1>2, <2>2, <2>3, <2>4, <2>5 DEF Unplaces
<1>3. QED
  BY <1>1, <1>2 DEF RemoveItem

LEMMA DeletesStep ==
  ASSUME TypesOK, NEW r \in Requests, DeleteItem(r)
  PROVE  Reads(r) \/ DropsItem(r)
<1>1. CASE Goto(r, "start", "delete")
  BY <1>1 DEF Goto, Reads, Goes, tables, TypesOK, PCs, WritingPCs, SavingPCs, LayoutPCs, Scanning
<1>2. ASSUME NEW q \in {"failed", "done"}, Found(r) # {} => q = "done", Finish(r, "delete", q),
             items' = {i \in items : i.id \notin Found(r)},
             places' = {p \in places : p.val.item \notin Found(r)},
             UNCHANGED <<rows, cols, slots>>
      PROVE  DropsItem(r)
  <2>1. Goes(r, {"delete"}, {q}) /\ pc[r] = "delete" /\ running[r] /\ Blockers(r) = {}
    BY <1>2, Finishes DEF Scanning
  <2>2. Goes(r, {"delete"}, {"failed", "done"}) /\ pc'[r] = q
    BY <2>1 DEF Goes
  <2>3. /\ Referrers(r, {}, target[r]) = {}
        /\ Found(r) \subseteq target[r] /\ Found(r) \subseteq IdsOf(Matching(r))
    BY <2>1, WhoBlocks DEF Found
  <2>4. Referrers(r, {}, Found(r)) = {}
    BY <2>3 DEF Referrers
  <2>5. r \in Deletes
    BY DEF DeleteItem
  <2>6. QED
    BY <1>2, <2>2, <2>3, <2>4, <2>5 DEF DropsItem
<1>3. QED
  BY <1>1, <1>2 DEF DeleteItem

LEMMA LayoutReads ==
  ASSUME TypesOK, NEW r \in Requests, ReadShelf(r) \/ Plan(r)
  PROVE  Reads(r)
<1>1. PICK p \in {"start", "readCols", "readSlots", "readPlaces", "plan"},
           q \in {"failed", "readCols", "readSlots", "readPlaces", "plan", "putRows",
                  "dropPlaces"} : Goto(r, p, q)
  BY DEF ReadShelf, Plan
<1>2. QED
  BY <1>1 DEF Goto, Reads, Goes, tables, TypesOK, PCs, WritingPCs, SavingPCs, LayoutPCs, Scanning,
              Ended

(* Every step is one of these. *)
LEMMA Steps ==
  ASSUME ControlOK, NEW r \in Requests, Step(r) \/ CtxEnds(r)
  PROVE  \/ Reads(r) \/ DropsPlaces(r) \/ Cuts(r) \/ PutsRows(r) \/ PutsCols(r) \/ PutsSlots(r)
         \/ Creates(r) \/ Inserts(r) \/ Unplaces(r) \/ DropsItem(r) \/ Commits(r) \/ GivesUp(r)
<1>1. TypesOK /\ KindOK(r)
  BY DEF ControlOK
<1>2. CASE Begin(r)
  BY <1>2 DEF Begin, Reads, tables
<1>3. CASE Commit(r)
  BY <1>1, <1>3 DEF Commit, Commits, Goes, KindOK, TypesOK
<1>4. CASE CtxEnds(r)
  BY <1>1, <1>4 DEF CtxEnds, Abort, GivesUp, Goes, TypesOK
<1>5. CASE Deadlock(r)
  BY <1>1, <1>5, WhoBlocks DEF Deadlock, Abort, GivesUp, Goes, TypesOK
<1>6. QED
  BY <1>1, <1>2, <1>3, <1>4, <1>5, SavesStep, PlacingStep, RemovesStep, DeletesStep, LayoutReads
     DEF Step

-----------------------------------------------------------------------------
(* Who has written a table after each operation. *)

LEMMA RemoveWritten ==
  ASSUME NEW table, Versions(table), NEW W, NEW V, W \subseteq V, NEW t \in V, NEW ids,
         WrittenBy(table, W), Writers(table, t, ids) = {}
  PROVE  WrittenBy(Remove(table, t, ids), V)
<1>1. ASSUME NEW w \in Remove(table, t, ids)
      PROVE  /\ w.ins \in {Nobody} \union V /\ w.del \in {Nobody} \union V
             /\ w.ins # Nobody => w.del = Nobody
  <2>1. PICK v \in table : Left(w, v, t, ids)
    BY RemoveLeaves
  <2>2. /\ v.ins \in {Nobody} \union W /\ v.del \in {Nobody} \union W
        /\ v.ins # Nobody => v.del = Nobody
    BY DEF WrittenBy
  <2>3. v.id \in ids => v.ins \in {Nobody, t}
    BY WaitsForWriter
  <2>4. QED
    BY <2>1, <2>2, <2>3 DEF Left, Is
<1>2. QED
  BY <1>1 DEF WrittenBy

LEMMA PutWritten ==
  ASSUME NEW table, Versions(table), NEW W, NEW V, W \subseteq V, NEW t \in V, NEW new,
         WrittenBy(table, W), Writers(table, t, IdsOf(new)) = {}
  PROVE  WrittenBy(Put(table, t, new), V)
<1>1. ASSUME NEW w \in Put(table, t, new)
      PROVE  /\ w.ins \in {Nobody} \union V /\ w.del \in {Nobody} \union V
             /\ w.ins # Nobody => w.del = Nobody
  <2>1. CASE \E n \in new : Written(w, n, t)
    BY <2>1 DEF Written, Is
  <2>2. CASE \E v \in table : Left(w, v, t, IdsOf(new))
    <3>1. PICK v \in table : Left(w, v, t, IdsOf(new))
      BY <2>2
    <3>2. /\ v.ins \in {Nobody} \union W /\ v.del \in {Nobody} \union W
          /\ v.ins # Nobody => v.del = Nobody
      BY DEF WrittenBy
    <3>3. v.id \in IdsOf(new) => v.ins \in {Nobody, t}
      BY WaitsForWriter
    <3>4. QED
      BY <3>1, <3>2, <3>3 DEF Left, Is
  <2>3. QED
    BY <2>1, <2>2, PutLeaves
<1>2. QED
  BY <1>1 DEF WrittenBy

LEMMA CommitWritten ==
  ASSUME NEW table, Versions(table), NEW W, NEW V, NEW t, W \subseteq V \union {t},
         WrittenBy(table, W)
  PROVE  WrittenBy(Committed(table, t), V)
<1>1. ASSUME NEW w \in Committed(table, t)
      PROVE  /\ w.ins \in {Nobody} \union V /\ w.del \in {Nobody} \union V
             /\ w.ins # Nobody => w.del = Nobody
  <2>1. PICK v \in table : Settled(w, v, t)
    BY CommitLeaves
  <2>2. /\ v.ins \in {Nobody} \union W /\ v.del \in {Nobody} \union W
        /\ v.ins # Nobody => v.del = Nobody
    BY DEF WrittenBy
  <2>3. QED
    BY <2>1, <2>2 DEF Settled, Is
<1>2. QED
  BY <1>1 DEF WrittenBy

LEMMA RollbackWritten ==
  ASSUME NEW table, Versions(table), NEW W, NEW V, NEW t, W \subseteq V \union {t},
         WrittenBy(table, W)
  PROVE  WrittenBy(RolledBack(table, t), V)
<1>1. ASSUME NEW w \in RolledBack(table, t)
      PROVE  /\ w.ins \in {Nobody} \union V /\ w.del \in {Nobody} \union V
             /\ w.ins # Nobody => w.del = Nobody
  <2>1. PICK v \in table : Undone(w, v, t)
    BY RollbackLeaves
  <2>2. /\ v.ins \in {Nobody} \union W /\ v.del \in {Nobody} \union W
        /\ v.ins # Nobody => v.del = Nobody
    BY DEF WrittenBy
  <2>3. QED
    BY <2>1, <2>2 DEF Undone, Is
<1>2. QED
  BY <1>1 DEF WrittenBy

LEMMA MoreWriters ==
  ASSUME NEW table, NEW W, NEW V, W \subseteq V, WrittenBy(table, W)
  PROVE  WrittenBy(table, V)
BY DEF WrittenBy

(* Who is writing after a step. *)
LEMMA StillWriting ==
  ASSUME ControlOK, NEW r \in Requests, NEW kind, kind \subseteq Requests
  PROVE  /\ UNCHANGED pc => Writing(kind)' = Writing(kind)
         /\ (\E from, to : Goes(r, from, to)) =>
              /\ pc'[r] \in WritingPCs \/ pc[r] \notin WritingPCs =>
                   Writing(kind) \subseteq Writing(kind)'
              /\ Writing(kind) \subseteq Writing(kind)' \union {r}
              /\ r \in kind /\ pc'[r] \in WritingPCs => r \in Writing(kind)'
BY DEF Goes, Writing

(* One table's part of TablesOK. *)
TableOK(table, kind) == Versions(table) /\ WrittenBy(table, Writing(kind))

ByLayouts == TableOK(rows, Layouts) /\ TableOK(cols, Layouts) /\ TableOK(slots, Layouts)

ByAnyone == TableOK(places, Layouts \union Placing)

ItemsOK == Versions(items) /\ WrittenBy(items, {})

LEMMA TablesParts == TablesOK = (ByLayouts /\ ByAnyone /\ ItemsOK)
BY DEF TablesOK, ByLayouts, ByAnyone, ItemsOK, TableOK

LEMMA TablesPartsNext == TablesOK' = (ByLayouts' /\ ByAnyone' /\ ItemsOK')
BY DEF TablesOK, ByLayouts, ByAnyone, ItemsOK, TableOK

LEMMA KindsOfRequests ==
  Layouts \subseteq Requests /\ Layouts \union Placing \subseteq Requests
BY DEF Requests, Placing

(* A step that goes on with writing keeps the writers. *)
Continues(r) ==
  \/ UNCHANGED pc
  \/ (\E from, to : Goes(r, from, to)) /\ (pc'[r] \in WritingPCs \/ pc[r] \notin WritingPCs)

LEMMA ContinueWriting ==
  ASSUME ControlOK, NEW r \in Requests, Continues(r)
  PROVE  /\ Writing(Layouts) \subseteq Writing(Layouts)'
         /\ Writing(Layouts \union Placing) \subseteq Writing(Layouts \union Placing)'
<1>1. CASE UNCHANGED pc
  BY <1>1 DEF Writing
<1>2. CASE (\E from, to : Goes(r, from, to)) /\ (pc'[r] \in WritingPCs \/ pc[r] \notin WritingPCs)
  BY <1>2, StillWriting, KindsOfRequests
<1>3. QED
  BY <1>1, <1>2 DEF Continues

LEMMA LayoutTablesStay ==
  ASSUME ControlOK, TablesOK, NEW r \in Requests, Continues(r), UNCHANGED <<rows, cols, slots>>
  PROVE  ByLayouts'
BY ContinueWriting, MoreWriters, TablesParts DEF ByLayouts, TableOK

LEMMA PlacesTableStays ==
  ASSUME ControlOK, TablesOK, NEW r \in Requests, Continues(r), UNCHANGED places
  PROVE  ByAnyone'
BY ContinueWriting, MoreWriters, TablesParts DEF ByAnyone, TableOK

LEMMA WritesContinue ==
  ASSUME ControlOK, NEW r \in Layouts \union Placing, NEW from, NEW to, Goes(r, from, to),
         to \subseteq WritingPCs
  PROVE  /\ Continues(r)
         /\ r \in Layouts => r \in Writing(Layouts)'
         /\ r \in Writing(Layouts \union Placing)'
         /\ r \in Requests
BY KindsOfRequests DEF Goes, Writing, Continues

LEMMA TablesReads ==
  ASSUME ControlOK, TablesOK, NEW r \in Requests, Reads(r)
  PROVE  TablesOK'
<1>1. Continues(r)
  BY DEF Reads, Continues, Goes, WritingPCs, SavingPCs, LayoutPCs
<1>2. ItemsOK'
  BY TablesParts DEF Reads, tables, ItemsOK
<1>3. UNCHANGED <<rows, cols, slots, places>>
  BY DEF Reads, tables
<1>4. QED
  BY <1>1, <1>2, <1>3, LayoutTablesStay, PlacesTableStays, TablesPartsNext

LEMMA TablesDropsPlaces ==
  ASSUME ControlOK, TablesOK, NEW r \in Requests, DropsPlaces(r)
  PROVE  TablesOK'
<1>1. /\ r \in Layouts \union Placing
      /\ Goes(r, {"dropPlaces", "sweepPlaces", "clear"}, {"dropSlots", "sweepSlots", "insert"})
      /\ UNCHANGED <<rows, cols, slots, items>>
  BY DEF DropsPlaces
<1>2. {"dropSlots", "sweepSlots", "insert"} \subseteq WritingPCs
  BY DEF WritingPCs, SavingPCs, LayoutPCs
<1>3. Continues(r) /\ r \in Writing(Layouts \union Placing)'
  BY <1>1, <1>2, WritesContinue
<1>4. PICK ids : places' = Remove(places, r, ids) /\ Writers(places, r, ids) = {}
  BY DEF DropsPlaces
<1>5. ByAnyone'
  BY <1>3, <1>4, ContinueWriting, RemoveLeaves, RemoveWritten, TablesParts DEF ByAnyone, TableOK
<1>6. ItemsOK'
  BY <1>1, TablesParts DEF ItemsOK
<1>7. QED
  BY <1>1, <1>3, <1>5, <1>6, LayoutTablesStay, TablesPartsNext

(* Transaction t changes rows of a table that nobody else has written. *)
Writes(table, after, t) ==
  \/ after = table
  \/ \E ids : after = Remove(table, t, ids) /\ Writers(table, t, ids) = {}
  \/ \E new : after = Put(table, t, new) /\ Writers(table, t, IdsOf(new)) = {}

LEMMA WritesTable ==
  ASSUME NEW table, NEW after, NEW t, Writes(table, after, t), Versions(table),
         NEW W, NEW V, W \subseteq V, t \in V, WrittenBy(table, W)
  PROVE  Versions(after) /\ WrittenBy(after, V)
<1>1. CASE after = table
  BY <1>1, MoreWriters
<1>2. CASE \E ids : after = Remove(table, t, ids) /\ Writers(table, t, ids) = {}
  <2>1. PICK ids : after = Remove(table, t, ids) /\ Writers(table, t, ids) = {}
    BY <1>2
  <2>2. Versions(Remove(table, t, ids)) /\ WrittenBy(Remove(table, t, ids), V)
    BY <2>1, RemoveLeaves, RemoveWritten
  <2>3. QED
    BY <2>1, <2>2
<1>3. CASE \E new : after = Put(table, t, new) /\ Writers(table, t, IdsOf(new)) = {}
  <2>1. PICK new : after = Put(table, t, new) /\ Writers(table, t, IdsOf(new)) = {}
    BY <1>3
  <2>2. Versions(Put(table, t, new)) /\ WrittenBy(Put(table, t, new), V)
    BY <2>1, PutLeaves, PutWritten
  <2>3. QED
    BY <2>1, <2>2
<1>4. QED
  BY <1>1, <1>2, <1>3 DEF Writes

LEMMA TablesWritten ==
  ASSUME ControlOK, TablesOK, NEW r \in Layouts, Continues(r),
         r \in Writing(Layouts)', r \in Writing(Layouts \union Placing)',
         Writes(rows, rows', r), Writes(cols, cols', r), Writes(slots, slots', r),
         Writes(places, places', r), UNCHANGED items
  PROVE  TablesOK'
<1>1. r \in Requests
  BY KindsOfRequests
<1>2. /\ Writing(Layouts) \subseteq Writing(Layouts)'
      /\ Writing(Layouts \union Placing) \subseteq Writing(Layouts \union Placing)'
  BY <1>1, ContinueWriting
<1>3. Versions(rows') /\ WrittenBy(rows', Writing(Layouts)')
  <2>1. Versions(rows) /\ WrittenBy(rows, Writing(Layouts))
    BY DEF TablesOK
  <2>2. QED
    BY <1>2, <2>1, WritesTable
<1>4. Versions(cols') /\ WrittenBy(cols', Writing(Layouts)')
  <2>1. Versions(cols) /\ WrittenBy(cols, Writing(Layouts))
    BY DEF TablesOK
  <2>2. QED
    BY <1>2, <2>1, WritesTable
<1>5. Versions(slots') /\ WrittenBy(slots', Writing(Layouts)')
  <2>1. Versions(slots) /\ WrittenBy(slots, Writing(Layouts))
    BY DEF TablesOK
  <2>2. QED
    BY <1>2, <2>1, WritesTable
<1>6. Versions(places') /\ WrittenBy(places', Writing(Layouts \union Placing)')
  <2>1. Versions(places) /\ WrittenBy(places, Writing(Layouts \union Placing))
    BY DEF TablesOK
  <2>2. QED
    BY <1>2, <2>1, WritesTable
<1>7. Versions(items') /\ WrittenBy(items', {})
  BY DEF TablesOK
<1>8. QED
  BY <1>3, <1>4, <1>5, <1>6, <1>7 DEF TablesOK

(* A placement's value without its slot. *)
Slotless(val) == [val EXCEPT !.slot = NoSlot]

LEMMA EmptiedIds ==
  ASSUME Versions(places), NEW r, NEW ids
  PROVE  /\ IdsOf(Emptied(r, ids)) = IdsOf(PlacesIn(r, ids))
         /\ \A n \in Emptied(r, ids) : \E p \in PlacesIn(r, ids) :
              n.id = p.id /\ n.val = Slotless(p.val)
         /\ \A p \in PlacesIn(r, ids) : \E n \in Emptied(r, ids) :
              n.id = p.id /\ n.val = Slotless(p.val)
<1> DEFINE New(p) == [p EXCEPT !.val.slot = NoSlot]
<1>1. ASSUME NEW p \in PlacesIn(r, ids)
      PROVE  New(p).id = p.id /\ New(p).val = Slotless(p.val)
  <2>1. p = [id |-> p.id, val |-> p.val, ins |-> p.ins, del |-> p.del]
    BY DEF Versions, PlacesIn, Visible
  <2>2. QED
    BY <2>1 DEF Slotless
<1>2. Emptied(r, ids) = {New(p) : p \in PlacesIn(r, ids)}
  BY DEF Emptied
<1> HIDE DEF New
<1>3. \A n \in Emptied(r, ids) : \E p \in PlacesIn(r, ids) :
        n.id = p.id /\ n.val = Slotless(p.val)
  BY <1>1, <1>2
<1>4. \A p \in PlacesIn(r, ids) : \E n \in Emptied(r, ids) :
        n.id = p.id /\ n.val = Slotless(p.val)
  BY <1>1, <1>2
<1>5. IdsOf(Emptied(r, ids)) = IdsOf(PlacesIn(r, ids))
  BY <1>3, <1>4 DEF IdsOf
<1>6. QED
  BY <1>3, <1>4, <1>5

LEMMA TablesCuts ==
  ASSUME ControlOK, TablesOK, NEW r \in Requests, Cuts(r)
  PROVE  TablesOK'
<1>1. /\ r \in Layouts
      /\ Goes(r, {"dropSlots", "sweepSlots", "sweepCols", "sweepRows"},
                 {"putRows", "sweepCols", "sweepRows", "commit"})
  BY DEF Cuts
<1>2. {"putRows", "sweepCols", "sweepRows", "commit"} \subseteq WritingPCs
  BY DEF WritingPCs, SavingPCs, LayoutPCs
<1>3. Continues(r) /\ r \in Writing(Layouts)' /\ r \in Writing(Layouts \union Placing)'
  BY <1>1, <1>2, WritesContinue
<1>4. /\ UNCHANGED items
      /\ \E ids : rows' = Remove(rows, r, ids) /\ Writers(rows, r, ids) = {}
      /\ \E ids : cols' = Remove(cols, r, ids) /\ Writers(cols, r, ids) = {}
      /\ \E ids :
           /\ slots' = Remove(slots, r, ids) /\ Writers(slots, r, ids) = {}
           /\ places' = Put(places, r, Emptied(r, ids))
           /\ Writers(places, r, IdsOf(PlacesIn(r, ids))) = {} /\ Referrers(r, ids, {}) = {}
  BY CutTables DEF Cuts
<1>5. PICK ids : /\ places' = Put(places, r, Emptied(r, ids))
                 /\ Writers(places, r, IdsOf(PlacesIn(r, ids))) = {}
  BY <1>4
<1>6. IdsOf(Emptied(r, ids)) = IdsOf(PlacesIn(r, ids))
  BY EmptiedIds DEF TablesOK
<1>7. /\ Writes(rows, rows', r) /\ Writes(cols, cols', r) /\ Writes(slots, slots', r)
      /\ Writes(places, places', r)
  BY <1>4, <1>5, <1>6 DEF Writes
<1>8. QED
  BY <1>1, <1>3, <1>4, <1>7, TablesWritten

LEMMA TablesPuts ==
  ASSUME ControlOK, TablesOK, NEW r \in Requests, PutsRows(r) \/ PutsCols(r) \/ PutsSlots(r)
  PROVE  TablesOK'
<1>1. /\ r \in Layouts
      /\ Goes(r, {"putRows"}, {"putCols"}) \/ Goes(r, {"putCols"}, {"putSlots"})
           \/ Goes(r, {"putSlots"}, {"sweepPlaces"})
  BY DEF PutsRows, PutsCols, PutsSlots
<1>2. {"putCols"} \subseteq WritingPCs /\ {"putSlots"} \subseteq WritingPCs
      /\ {"sweepPlaces"} \subseteq WritingPCs
  BY DEF WritingPCs, SavingPCs, LayoutPCs
<1>3. Continues(r) /\ r \in Writing(Layouts)' /\ r \in Writing(Layouts \union Placing)'
  BY <1>1, <1>2, WritesContinue
<1>4. /\ Writes(rows, rows', r) /\ Writes(cols, cols', r) /\ Writes(slots, slots', r)
      /\ Writes(places, places', r) /\ UNCHANGED items
  BY DEF PutsRows, PutsCols, PutsSlots, Writes
<1>5. QED
  BY <1>1, <1>3, <1>4, TablesWritten

LEMMA TablesInserts ==
  ASSUME ControlOK, TablesOK, NEW r \in Requests, Inserts(r),
         Writers(places, r, {r}) = {}
  PROVE  TablesOK'
<1>1. /\ r \in Layouts \union Placing /\ Goes(r, {"insert"}, {"commit"})
      /\ UNCHANGED <<rows, cols, slots, items>>
  BY DEF Inserts
<1>2. {"commit"} \subseteq WritingPCs
  BY DEF WritingPCs
<1>3. Continues(r) /\ r \in Writing(Layouts \union Placing)'
  BY <1>1, <1>2, WritesContinue
<1>4. Writes(places, places', r)
  <2>1. IdsOf({NewPlace(r)}) = {r}
    BY DEF IdsOf, NewPlace
  <2>2. QED
    BY <2>1 DEF Inserts, Writes
<1>5. Versions(places') /\ WrittenBy(places', Writing(Layouts \union Placing)')
  <2>1. Versions(places) /\ WrittenBy(places, Writing(Layouts \union Placing))
    BY DEF TablesOK
  <2>2. QED
    BY <1>3, <1>4, <2>1, ContinueWriting, WritesTable
<1>6. ItemsOK' /\ ByAnyone'
  BY <1>1, <1>5, TablesParts DEF ItemsOK, ByAnyone, TableOK
<1>7. QED
  BY <1>1, <1>3, <1>6, LayoutTablesStay, TablesPartsNext

LEMMA TablesCreates ==
  ASSUME ControlOK, TablesOK, NEW r \in Requests, Creates(r)
  PROVE  TablesOK'
<1>1. /\ Goes(r, {"create"}, {"check"}) /\ items' = items \union {NewItem(r)}
      /\ UNCHANGED <<rows, cols, slots, places>>
  BY DEF Creates
<1>2. Continues(r)
  BY <1>1 DEF Goes, Continues, WritingPCs, SavingPCs, LayoutPCs
<1>3. ItemsOK'
  <2>1. Versions({NewItem(r)}) /\ WrittenBy({NewItem(r)}, {})
    BY DEF NewItem, Stored, Versions, WrittenBy
  <2>2. QED
    BY <1>1, <2>1, TablesParts DEF ItemsOK, Versions, WrittenBy
<1>4. QED
  BY <1>1, <1>2, <1>3, LayoutTablesStay, PlacesTableStays, TablesPartsNext

(* The same rows, some of which are gone or have other values. *)
LEMMA SameWriters ==
  ASSUME NEW table, NEW W, NEW V, W \subseteq V, WrittenBy(table, W), NEW after,
         \A w \in after : \E v \in table : w.ins = v.ins /\ w.del = v.del
  PROVE  WrittenBy(after, V)
BY DEF WrittenBy

(* What RemoveItemFromSlot leaves of the placements. *)
Unplaced(ids) ==
  {IF p.id \in ids THEN [p EXCEPT !.val.slot = NoSlot] ELSE p : p \in places}

LEMMA UnplacedLeaves ==
  ASSUME Versions(places), NEW ids
  PROVE  /\ Versions(Unplaced(ids))
         /\ \A w \in Unplaced(ids) : \E v \in places :
              \/ v.id \notin ids /\ Is(w, v, v.ins, v.del)
              \/ v.id \in ids /\ w.id = v.id /\ w.val = Slotless(v.val)
                   /\ w.ins = v.ins /\ w.del = v.del
         /\ \A v \in places : \E w \in Unplaced(ids) :
              w.id = v.id /\ (v.id \notin ids => Is(w, v, v.ins, v.del))
<1> DEFINE New(p) == IF p.id \in ids THEN [p EXCEPT !.val.slot = NoSlot] ELSE p
<1>1. ASSUME NEW p \in places
      PROVE  /\ New(p) = [id |-> New(p).id, val |-> New(p).val, ins |-> New(p).ins,
                          del |-> New(p).del]
             /\ New(p).id = p.id
             /\ \/ p.id \notin ids /\ Is(New(p), p, p.ins, p.del)
                \/ p.id \in ids /\ New(p).id = p.id /\ New(p).val = Slotless(p.val)
                     /\ New(p).ins = p.ins /\ New(p).del = p.del
  <2>1. p = [id |-> p.id, val |-> p.val, ins |-> p.ins, del |-> p.del]
    BY DEF Versions
  <2>2. [p EXCEPT !.val.slot = NoSlot] =
          [id |-> p.id, val |-> Slotless(p.val), ins |-> p.ins, del |-> p.del]
    BY <2>1 DEF Slotless
  <2>3. CASE p.id \in ids
    BY <2>2, <2>3
  <2>4. CASE p.id \notin ids
    BY <2>1, <2>4 DEF Is
  <2>5. QED
    BY <2>3, <2>4
<1>2. Unplaced(ids) = {New(p) : p \in places}
  BY DEF Unplaced
<1> HIDE DEF New
<1>3. Versions(Unplaced(ids))
  BY <1>1, <1>2 DEF Versions
<1>4. ASSUME NEW w \in Unplaced(ids)
      PROVE  \E v \in places :
               \/ v.id \notin ids /\ Is(w, v, v.ins, v.del)
               \/ v.id \in ids /\ w.id = v.id /\ w.val = Slotless(v.val)
                    /\ w.ins = v.ins /\ w.del = v.del
  <2>1. PICK v \in places : w = New(v)
    BY <1>2
  <2>2. QED
    BY <1>1, <2>1
<1>5. \A v \in places : \E w \in Unplaced(ids) :
        w.id = v.id /\ (v.id \notin ids => Is(w, v, v.ins, v.del))
  BY <1>1, <1>2
<1>6. QED
  BY <1>3, <1>4, <1>5

LEMMA TablesUnplaces ==
  ASSUME ControlOK, TablesOK, NEW r \in Requests, Unplaces(r)
  PROVE  TablesOK'
<1>1. Goes(r, {"unplace"}, {"failed", "done"}) /\ UNCHANGED <<rows, cols, slots, items>>
  BY DEF Unplaces
<1>2. Continues(r)
  BY <1>1 DEF Goes, Continues, WritingPCs, SavingPCs, LayoutPCs
<1>3. Versions(places) /\ WrittenBy(places, Writing(Layouts \union Placing))
  BY DEF TablesOK
<1>4. /\ Versions(places')
      /\ \A w \in places' : \E v \in places : w.ins = v.ins /\ w.del = v.del
  <2>1. PICK ids : places' = Unplaced(ids)
    BY DEF Unplaces, Unplaced
  <2>2. QED
    BY <1>3, <2>1, UnplacedLeaves DEF Is
<1>5. WrittenBy(places', Writing(Layouts \union Placing)')
  BY <1>2, <1>3, <1>4, ContinueWriting, SameWriters
<1>6. ItemsOK' /\ ByAnyone'
  BY <1>1, <1>4, <1>5, TablesParts DEF ItemsOK, ByAnyone, TableOK
<1>7. QED
  BY <1>1, <1>2, <1>6, LayoutTablesStay, TablesPartsNext

LEMMA TablesDropsItem ==
  ASSUME ControlOK, TablesOK, NEW r \in Requests, DropsItem(r)
  PROVE  TablesOK'
<1>1. Goes(r, {"delete"}, {"failed", "done"}) /\ UNCHANGED <<rows, cols, slots>>
  BY DEF DropsItem
<1>2. Continues(r)
  BY <1>1 DEF Goes, Continues, WritingPCs, SavingPCs, LayoutPCs
<1>3. Versions(places) /\ WrittenBy(places, Writing(Layouts \union Placing))
  BY DEF TablesOK
<1>4. places' \subseteq places /\ items' \subseteq items
  BY DEF DropsItem
<1>5. WrittenBy(places', Writing(Layouts \union Placing)')
  BY <1>2, <1>3, <1>4, ContinueWriting, SameWriters
<1>6. ItemsOK' /\ ByAnyone'
  BY <1>3, <1>4, <1>5, TablesParts DEF ItemsOK, ByAnyone, TableOK, Versions, WrittenBy
<1>7. QED
  BY <1>1, <1>2, <1>6, LayoutTablesStay, TablesPartsNext

(* Every table when a transaction ends. *)
LEMMA TablesCommits ==
  ASSUME ControlOK, TablesOK, NEW r \in Requests, Commits(r)
  PROVE  TablesOK'
<1>1. /\ Writing(Layouts) \subseteq Writing(Layouts)' \union {r}
      /\ Writing(Layouts \union Placing) \subseteq Writing(Layouts \union Placing)' \union {r}
  BY StillWriting, KindsOfRequests DEF Commits
<1>2. /\ rows' = Committed(rows, r) /\ cols' = Committed(cols, r)
      /\ slots' = Committed(slots, r) /\ places' = Committed(places, r)
      /\ items' = Committed(items, r)
  BY DEF Commits, CommitTables
<1>3. /\ Versions(Committed(rows, r)) /\ Versions(Committed(cols, r))
      /\ Versions(Committed(slots, r)) /\ Versions(Committed(places, r))
      /\ Versions(Committed(items, r))
  BY CommitLeaves DEF TablesOK
<1>4. /\ WrittenBy(Committed(rows, r), Writing(Layouts)')
      /\ WrittenBy(Committed(cols, r), Writing(Layouts)')
      /\ WrittenBy(Committed(slots, r), Writing(Layouts)')
  BY <1>1, CommitWritten DEF TablesOK
<1>5. WrittenBy(Committed(places, r), Writing(Layouts \union Placing)')
  BY <1>1, CommitWritten DEF TablesOK
<1>6. WrittenBy(Committed(items, r), {})
  <2>1. {} \subseteq {} \union {r}
    OBVIOUS
  <2>2. QED
    BY <2>1, CommitWritten DEF TablesOK
<1>7. QED
  BY <1>2, <1>3, <1>4, <1>5, <1>6 DEF TablesOK

LEMMA TablesGivesUp ==
  ASSUME ControlOK, TablesOK, NEW r \in Requests, GivesUp(r)
  PROVE  TablesOK'
<1>1. /\ Writing(Layouts) \subseteq Writing(Layouts)' \union {r}
      /\ Writing(Layouts \union Placing) \subseteq Writing(Layouts \union Placing)' \union {r}
  BY StillWriting, KindsOfRequests DEF GivesUp
<1>2. /\ rows' = RolledBack(rows, r) /\ cols' = RolledBack(cols, r)
      /\ slots' = RolledBack(slots, r) /\ places' = RolledBack(places, r)
      /\ items' = RolledBack(items, r)
  BY DEF GivesUp, Abort
<1>3. /\ Versions(RolledBack(rows, r)) /\ Versions(RolledBack(cols, r))
      /\ Versions(RolledBack(slots, r)) /\ Versions(RolledBack(places, r))
      /\ Versions(RolledBack(items, r))
  BY RollbackLeaves DEF TablesOK
<1>4. /\ WrittenBy(RolledBack(rows, r), Writing(Layouts)')
      /\ WrittenBy(RolledBack(cols, r), Writing(Layouts)')
      /\ WrittenBy(RolledBack(slots, r), Writing(Layouts)')
  BY <1>1, RollbackWritten DEF TablesOK
<1>5. WrittenBy(RolledBack(places, r), Writing(Layouts \union Placing)')
  BY <1>1, RollbackWritten DEF TablesOK
<1>6. WrittenBy(RolledBack(items, r), {})
  <2>1. {} \subseteq {} \union {r}
    OBVIOUS
  <2>2. QED
    BY <2>1, RollbackWritten DEF TablesOK
<1>7. QED
  BY <1>2, <1>3, <1>4, <1>5, <1>6 DEF TablesOK

(* A request that is about to insert has no placement of its own yet. *)
LEMMA NothingInserted ==
  ASSUME PlacesOK, NEW r \in Requests, pc[r] \notin {"commit", "done"}
  PROVE  /\ \A p \in places : p.id # r
         /\ Writers(places, r, {r}) = {}
<1>1. \A p \in places : p.id # r
  BY DEF PlacesOK, PlaceOK
<1>2. QED
  BY <1>1 DEF Writers

LEMMA TablesStep ==
  ASSUME Placed, NEW r \in Requests, Step(r) \/ CtxEnds(r)
  PROVE  TablesOK'
<1>1. CASE Inserts(r)
  <2>1. Writers(places, r, {r}) = {}
    BY <1>1, NothingInserted DEF Inserts, Goes, Placed
  <2>2. QED
    BY <1>1, <2>1, TablesInserts DEF Placed
<1>2. QED
  BY <1>1, Steps, TablesReads, TablesDropsPlaces, TablesCuts, TablesPuts, TablesCreates,
     TablesUnplaces, TablesDropsItem, TablesCommits, TablesGivesUp DEF Placed

-----------------------------------------------------------------------------
(* The statements requests are at, and what they have read and checked. *)

PcsOK ==
  /\ pc \in [Requests -> PCs]
  /\ running \in [Requests -> BOOLEAN]
  /\ \A r \in Requests : running[r] => pc[r] \in Scanning
  /\ DOMAIN target = Requests

ReadsTyped ==
  /\ DOMAIN base = Requests /\ Requests \subseteq DOMAIN item
  /\ \A r \in Requests :
       base[r] = [rows |-> base[r].rows, cols |-> base[r].cols, slots |-> base[r].slots,
                  places |-> base[r].places]

LEMMA TypesParts == TypesOK = (PcsOK /\ ReadsTyped)
BY DEF TypesOK, PcsOK, ReadsTyped

LEMMA TypesPartsNext == TypesOK' = (PcsOK' /\ ReadsTyped')
BY DEF TypesOK, PcsOK, ReadsTyped

LEMMA GotoPcs ==
  ASSUME PcsOK, NEW r \in Requests, NEW p \in PCs \ Scanning, NEW q \in PCs, Goto(r, p, q)
  PROVE  PcsOK'
BY DEF PcsOK, Goto

LEMMA FinishPcs ==
  ASSUME PcsOK, NEW r \in Requests, NEW p, NEW q \in PCs, Finish(r, p, q)
  PROVE  PcsOK'
BY DEF PcsOK, Finish

LEMMA AbortPcs ==
  ASSUME PcsOK, NEW r \in Requests, Abort(r)
  PROVE  PcsOK'
BY DEF PcsOK, Abort, PCs, Ended

LEMMA PcsStep ==
  ASSUME PcsOK, NEW r \in Requests, Step(r) \/ CtxEnds(r)
  PROVE  PcsOK'
<1>1. CASE Begin(r)
  BY <1>1 DEF PcsOK, Begin
<1>2. CASE ReadShelf(r) \/ Plan(r) \/ CheckItem(r) \/ CheckShelf(r) \/ FindByISBN(r) \/ CheckSlot(r)
  <2>1. PICK p \in PCs \ Scanning, q \in PCs : Goto(r, p, q)
    BY <1>2 DEF ReadShelf, Plan, CheckItem, CheckShelf, FindByISBN, CheckSlot, PCs, Scanning, Ended
  <2>2. QED
    BY <2>1, GotoPcs
<1>3. CASE SaveLayout(r)
  <2>1. PICK p, q \in PCs : Finish(r, p, q)
    BY <1>3 DEF SaveLayout, PCs, Scanning
  <2>2. QED
    BY <2>1, FinishPcs
<1>4. CASE CreateItem(r) \/ Clear(r)
  <2>1. PICK p, q \in PCs : Finish(r, p, q)
    BY <1>4 DEF CreateItem, Clear, PCs, Scanning
  <2>2. QED
    BY <2>1, FinishPcs
<1>5. CASE InsertPlace(r)
  <2>1. CASE \E p, q \in PCs : Finish(r, p, q)
    BY <2>1, FinishPcs
  <2>2. CASE Abort(r)
    BY <2>2, AbortPcs
  <2>3. QED
    BY <1>5, <2>1, <2>2 DEF InsertPlace, PCs
<1>6. CASE RemoveItem(r) \/ DeleteItem(r)
  <2>1. CASE \E p, q \in PCs : Finish(r, p, q)
    BY <2>1, FinishPcs
  <2>2. CASE \E p \in PCs \ Scanning, q \in PCs : Goto(r, p, q)
    BY <2>2, GotoPcs
  <2>3. CASE RemoveItem(r)
    BY <2>1, <2>2, <2>3 DEF RemoveItem, PCs, Scanning, Ended
  <2>4. CASE DeleteItem(r)
    BY <2>1, <2>2, <2>4 DEF DeleteItem, PCs, Scanning, Ended
  <2>5. QED
    BY <1>6, <2>3, <2>4
<1>7. CASE Commit(r)
  BY <1>7 DEF PcsOK, Commit, PCs, Scanning, Ended
<1>8. CASE Deadlock(r) \/ CtxEnds(r)
  BY <1>8, AbortPcs DEF Deadlock, CtxEnds
<1>9. QED
  BY <1>1, <1>2, <1>3, <1>4, <1>5, <1>6, <1>7, <1>8 DEF Step, Place

(* Only these steps read the shelf, or find out what item to place. *)
LEMMA ReadsKept ==
  ASSUME NEW r \in Requests, Step(r) \/ CtxEnds(r)
  PROVE  /\ ReadShelf(r) \/ UNCHANGED base
         /\ FindByISBN(r) \/ CreateItem(r) \/ UNCHANGED item
BY DEF Step, CtxEnds, Begin, ReadShelf, Plan, SaveLayout, Place, CheckItem, CheckShelf,
       FindByISBN, CreateItem, CheckSlot, Clear, InsertPlace, RemoveItem, DeleteItem, Commit,
       Deadlock, Abort

(* What a read of the shelf adds to its base. *)
LEMMA ReadsAdd ==
  ASSUME ReadsTyped, NEW r \in Layouts, ReadShelf(r)
  PROVE  /\ ReadsTyped'
         /\ \A q \in Requests \ {r} : base'[q] = base[q]
         /\ \/ base'[r] = base[r]
            \/ base'[r] = [base[r] EXCEPT !.rows = Stripped(RowsOf(r))]
            \/ base'[r] = [base[r] EXCEPT !.cols = Stripped(ColsOf(r))]
            \/ base'[r] = [base[r] EXCEPT !.slots = Stripped(ShelfSlots(r))]
            \/ base'[r] = [base[r] EXCEPT !.places = Stripped(ShelfPlaces(r))]
<1>1. r \in Requests
  BY KindsOfRequests
<1>2. UNCHANGED item
  BY DEF ReadShelf
<1>3. CASE UNCHANGED base
  BY <1>2, <1>3 DEF ReadsTyped
<1>4. ASSUME NEW part \in {"rows", "cols", "slots", "places"}, NEW table, Read(r, part, table)
      PROVE  /\ base'[r] = [base[r] EXCEPT ![part] = Stripped(table)]
             /\ \A q \in Requests \ {r} : base'[q] = base[q]
             /\ ReadsTyped'
  BY <1>1, <1>2, <1>4 DEF Read, ReadsTyped
<1>5. CASE Read(r, "rows", RowsOf(r))
  BY <1>4, <1>5
<1>6. CASE Read(r, "cols", ColsOf(r))
  BY <1>4, <1>6
<1>7. CASE Read(r, "slots", ShelfSlots(r))
  BY <1>4, <1>7
<1>8. CASE Read(r, "places", ShelfPlaces(r))
  BY <1>4, <1>8
<1>9. QED
  BY <1>3, <1>5, <1>6, <1>7, <1>8 DEF ReadShelf

LEMMA TypesStep ==
  ASSUME TypesOK, NEW r \in Requests, Step(r) \/ CtxEnds(r)
  PROVE  TypesOK'
<1>1. PcsOK'
  BY PcsStep, TypesParts
<1>2. ReadsTyped'
  <2>1. CASE ReadShelf(r)
    BY <2>1, ReadsAdd, TypesParts DEF ReadShelf
  <2>2. CASE UNCHANGED base /\ (FindByISBN(r) \/ CreateItem(r) \/ UNCHANGED item)
    BY <2>2, TypesParts DEF ReadsTyped, FindByISBN, CreateItem
  <2>3. CASE FindByISBN(r) \/ CreateItem(r)
    BY <2>2, <2>3 DEF FindByISBN, CreateItem
  <2>4. QED
    BY <2>1, <2>2, <2>3, ReadsKept
<1>3. QED
  BY <1>1, <1>2, TypesPartsNext

(* The other requests stay where they are. *)
LEMMA OnlyOne ==
  ASSUME TypesOK, NEW r \in Requests, Step(r) \/ CtxEnds(r)
  PROVE  /\ \A q \in Requests \ {r} : pc'[q] = pc[q] /\ item'[q] = item[q] /\ base'[q] = base[q]
         /\ pc' = [pc EXCEPT ![r] = pc'[r]]
<1>1. \A q \in Requests \ {r} : base'[q] = base[q]
  BY ReadsKept, ReadsAdd, TypesParts DEF ReadShelf
<1>2. \A q \in Requests \ {r} : item'[q] = item[q]
  BY ReadsKept DEF FindByISBN, CreateItem, TypesOK
<1>3. \E q : pc' = [pc EXCEPT ![r] = q]
  <2>1. ASSUME NEW p, NEW q, Goto(r, p, q) \/ Finish(r, p, q)
        PROVE  \E x : pc' = [pc EXCEPT ![r] = x]
    BY <2>1 DEF Goto, Finish
  <2>2. CASE Abort(r) \/ Commit(r)
    BY <2>2 DEF Abort, Commit
  <2>3. CASE Begin(r)
    <3>1. pc' = [pc EXCEPT ![r] = pc[r]]
      BY <2>3 DEF Begin, TypesOK
    <3>2. QED
      BY <3>1
  <2>4. CASE ReadShelf(r) \/ Plan(r)
    BY <2>1, <2>4 DEF ReadShelf, Plan
  <2>5. CASE SaveLayout(r)
    BY <2>1, <2>5 DEF SaveLayout
  <2>6. CASE Place(r)
    BY <2>1, <2>2, <2>6 DEF Place, CheckItem, CheckShelf, FindByISBN, CreateItem, CheckSlot, Clear,
                            InsertPlace
  <2>7. CASE RemoveItem(r)
    BY <2>1, <2>7 DEF RemoveItem
  <2>8. CASE DeleteItem(r)
    BY <2>1, <2>8 DEF DeleteItem
  <2>9. QED
    BY <2>2, <2>3, <2>4, <2>5, <2>6, <2>7, <2>8 DEF Step, Deadlock, CtxEnds
<1>4. QED
  BY <1>1, <1>2, <1>3 DEF TypesOK

LEMMA KindsStep ==
  ASSUME TypesOK, NEW r \in Requests, KindOK(r), Step(r) \/ CtxEnds(r)
  PROVE  KindOK(r)'
<1>1. ASSUME NEW p, NEW q, Goto(r, p, q) \/ Finish(r, p, q)
      PROVE  pc[r] = p /\ pc'[r] = q
  BY <1>1 DEF Goto, Finish, TypesOK
<1>2. CASE Begin(r)
  BY <1>2 DEF Begin, KindOK
<1>3. CASE ReadShelf(r) \/ Plan(r)
  <2>1. /\ r \in Layouts
        /\ pc'[r] \in {"failed", "readCols", "readSlots", "readPlaces", "plan", "putRows",
                       "dropPlaces"}
    BY <1>1, <1>3 DEF ReadShelf, Plan
  <2>2. QED
    BY <2>1 DEF KindOK, PlacingPCs
<1>4. CASE SaveLayout(r)
  <2>1. /\ r \in Layouts
        /\ pc'[r] \in {"dropSlots", "putRows", "putCols", "putSlots", "sweepPlaces", "sweepSlots",
                       "sweepCols", "sweepRows", "commit"}
    BY <1>1, <1>4 DEF SaveLayout
  <2>2. QED
    BY <2>1 DEF KindOK, PlacingPCs
<1>5. CASE Abort(r) \/ Commit(r)
  <2>1. pc'[r] \in {"failed", "done"}
    BY <1>5 DEF Abort, Commit, TypesOK
  <2>2. QED
    BY <2>1 DEF KindOK, LayoutPCs, PlacingPCs
<1>6. CASE Place(r) /\ ~Abort(r)
  <2>1. /\ r \in Placing
        /\ pc'[r] \in {"failed", "done", "find", "create", "check", "clear", "insert", "commit"}
    BY <1>1, <1>6 DEF Place, CheckItem, CheckShelf, FindByISBN, CreateItem, CheckSlot, Clear,
                      InsertPlace
  <2>2. QED
    BY <2>1 DEF KindOK, LayoutPCs
<1>7. CASE RemoveItem(r)
  <2>1. r \in Removes /\ pc'[r] \in {"failed", "done", "unplace"}
    BY <1>1, <1>7 DEF RemoveItem
  <2>2. QED
    BY <2>1 DEF KindOK, LayoutPCs, PlacingPCs
<1>8. CASE DeleteItem(r)
  <2>1. r \in Deletes /\ pc'[r] \in {"failed", "done", "delete"}
    BY <1>1, <1>8 DEF DeleteItem
  <2>2. QED
    BY <2>1 DEF KindOK, LayoutPCs, PlacingPCs
<1>9. QED
  BY <1>2, <1>3, <1>4, <1>5, <1>6, <1>7, <1>8 DEF Step, Deadlock, CtxEnds

LEMMA ReadStep ==
  ASSUME TypesOK, NamesOK, NEW r \in Layouts, KindOK(r), ReadOK(r), Step(r) \/ CtxEnds(r)
  PROVE  ReadOK(r)'
<1>1. r \in Requests
  BY KindsOfRequests
<1>2. ASSUME NEW p, NEW q, Goto(r, p, q) \/ Finish(r, p, q)
      PROVE  pc[r] = p /\ pc'[r] = q
  BY <1>1, <1>2 DEF Goto, Finish, TypesOK
<1>3. \A s \in base'[r].slots : Home(s.id) = ShelfOf[r]
  <2>1. \A s \in ShelfSlots(r) : Home(s.id) = ShelfOf[r]
    BY DEF NamesOK, ShelfSlots, Visible
  <2>2. \A s \in Stripped(ShelfSlots(r)) : Home(s.id) = ShelfOf[r]
    BY <2>1 DEF Stripped
  <2>3. CASE UNCHANGED base
    BY <2>3 DEF ReadOK
  <2>4. CASE ReadShelf(r)
    <3>1. base'[r].slots = base[r].slots \/ base'[r].slots = Stripped(ShelfSlots(r))
      BY <1>1, <2>4, ReadsAdd, TypesParts DEF ReadsTyped
    <3>2. QED
      BY <2>2, <3>1 DEF ReadOK
  <2>5. QED
    BY <1>1, <2>3, <2>4, ReadsKept
<1>4. pc'[r] \in SavingPCs => Valid(InputOf[r], base'[r])
  <2>1. CASE ReadShelf(r)
    <3>1. pc'[r] \in {"failed", "readCols", "readSlots", "readPlaces", "plan"}
      BY <1>2, <2>1 DEF ReadShelf
    <3>2. QED
      BY <3>1 DEF SavingPCs, LayoutPCs
  <2>2. CASE UNCHANGED base /\ (Begin(r) \/ Plan(r) \/ SaveLayout(r))
    <3>1. CASE Begin(r)
      BY <2>2, <3>1 DEF Begin, ReadOK
    <3>2. CASE Plan(r)
      BY <1>2, <2>2, <3>2 DEF Plan, SavingPCs, LayoutPCs
    <3>3. CASE SaveLayout(r)
      <4>1. pc[r] \in SavingPCs
        BY <1>2, <3>3 DEF SaveLayout, SavingPCs, LayoutPCs
      <4>2. QED
        BY <2>2, <4>1 DEF ReadOK
    <3>4. QED
      BY <2>2, <3>1, <3>2, <3>3
  <2>3. CASE Abort(r) \/ Commit(r)
    <3>1. pc'[r] \in {"failed", "done"}
      BY <1>1, <2>3 DEF Abort, Commit, TypesOK
    <3>2. QED
      BY <3>1 DEF SavingPCs, LayoutPCs
  <2>4. r \notin Placing /\ r \notin Removes /\ r \notin Deletes
    BY KindsAssumption
  <2>5. UNCHANGED base \/ ReadShelf(r)
    BY <1>1, ReadsKept
  <2>6. QED
    BY <2>1, <2>2, <2>3, <2>4, <2>5 DEF Step, CtxEnds, Deadlock, Place, RemoveItem, DeleteItem
<1>5. QED
  BY <1>3, <1>4 DEF ReadOK

LEMMA CheckedStep ==
  ASSUME TypesOK, NamesOK, NEW r \in Placing, KindOK(r), CheckedOK(r), Step(r) \/ CtxEnds(r)
  PROVE  CheckedOK(r)'
<1>1. r \in Requests /\ r \notin Layouts /\ r \notin Removes /\ r \notin Deletes
  BY KindsOfRequests, KindsAssumption
<1>2. ASSUME NEW p, NEW q, Goto(r, p, q) \/ Finish(r, p, q)
      PROVE  pc[r] = p /\ pc'[r] = q
  BY <1>1, <1>2 DEF Goto, Finish, TypesOK
<1>3. \A i \in OwnedItems(r) : OwnerNamed(i.id) = OwnerOf[r]
  BY DEF NamesOK, OwnedItems, Visible
<1>4. CASE Begin(r)
  BY <1>4 DEF Begin, CheckedOK, ShelfOwned
<1>5. CASE CheckItem(r)
  <2>1. item'[r] = item[r] /\ pc'[r] \in {"check", "failed"}
    BY <1>2, <1>5 DEF CheckItem
  <2>2. pc'[r] = "check" => item[r] \in IdsOf(OwnedItems(r))
    BY <1>2, <1>5 DEF CheckItem
  <2>3. QED
    BY <1>3, <2>1, <2>2 DEF IdsOf, CheckedOK
<1>6. CASE CheckShelf(r)
  <2>1. pc'[r] \in {"find", "failed"}
    BY <1>2, <1>6 DEF CheckShelf
  <2>2. QED
    BY <2>1 DEF CheckedOK
<1>7. CASE FindByISBN(r)
  <2>1. pc'[r] \in {"done", "check", "create", "failed"}
    BY <1>2, <1>7 DEF FindByISBN
  <2>2. pc'[r] = "check" => \E i \in OwnedItems(r) : item'[r] = i.id
    BY <1>1, <1>2, <1>7 DEF FindByISBN, TypesOK
  <2>3. QED
    BY <1>3, <2>1, <2>2 DEF CheckedOK
<1>8. CASE CreateItem(r)
  <2>1. pc'[r] = "check" /\ item'[r] = r
    BY <1>1, <1>2, <1>8 DEF CreateItem, TypesOK
  <2>2. QED
    BY <1>1, <2>1 DEF CheckedOK, OwnerNamed
<1>9. CASE CheckSlot(r)
  <2>1. pc[r] = "check" /\ pc'[r] \in {"clear", "failed"} /\ item' = item
    BY <1>2, <1>9 DEF CheckSlot
  <2>2. pc'[r] = "clear" => ShelfOwned(r) /\ Slot(r) # {}
    BY <1>2, <1>9 DEF CheckSlot
  <2>3. Slot(r) # {} => Home(SlotOf[r]) = ShelfOf[r]
    BY DEF NamesOK, Slot, ShelfSlots, Visible
  <2>4. QED
    BY <2>1, <2>2, <2>3 DEF CheckedOK, ShelfOwned
<1>10. CASE Clear(r) \/ (InsertPlace(r) /\ ~Abort(r))
  <2>1. pc[r] \in {"clear", "insert"} /\ item' = item
    BY <1>2, <1>10 DEF Clear, InsertPlace
  <2>2. QED
    BY <2>1 DEF CheckedOK, ShelfOwned
<1>11. CASE Abort(r) \/ Commit(r)
  <2>1. pc'[r] \in {"failed", "done"}
    BY <1>1, <1>11 DEF Abort, Commit, TypesOK
  <2>2. QED
    BY <2>1 DEF CheckedOK
<1>12. QED
  BY <1>1, <1>4, <1>5, <1>6, <1>7, <1>8, <1>9, <1>10, <1>11
     DEF Step, Deadlock, CtxEnds, Place, ReadShelf, Plan, SaveLayout, RemoveItem, DeleteItem

LEMMA ControlStep ==
  ASSUME ControlOK, NamesOK, NEW r \in Requests, Step(r) \/ CtxEnds(r)
  PROVE  ControlOK'
<1>1. TypesOK'
  BY TypesStep DEF ControlOK
<1>2. \A q \in Requests \ {r} : pc'[q] = pc[q] /\ item'[q] = item[q] /\ base'[q] = base[q]
  BY OnlyOne DEF ControlOK
<1>3. ASSUME NEW q \in Requests PROVE KindOK(q)'
  <2>1. CASE q = r
    BY <2>1, KindsStep DEF ControlOK
  <2>2. CASE q # r
    BY <1>2, <2>2 DEF ControlOK, KindOK
  <2>3. QED
    BY <2>1, <2>2
<1>4. ASSUME NEW q \in Layouts PROVE ReadOK(q)'
  <2>1. CASE q = r
    BY <1>4, <2>1, ReadStep DEF ControlOK
  <2>2. CASE q # r
    BY <1>2, <1>4, <2>2, KindsOfRequests DEF ControlOK, ReadOK
  <2>3. QED
    BY <2>1, <2>2
<1>5. ASSUME NEW q \in Placing PROVE CheckedOK(q)'
  <2>1. CASE q = r
    BY <1>5, <2>1, CheckedStep DEF ControlOK
  <2>2. CASE q # r
    BY <1>2, <1>5, <2>2, KindsOfRequests DEF ControlOK, CheckedOK, ShelfOwned
  <2>3. QED
    BY <2>1, <2>2
<1>6. QED
  BY <1>1, <1>3, <1>4, <1>5 DEF ControlOK

-----------------------------------------------------------------------------
(* Slots and items keep their names' word. *)

LEMMA IdOfOne ==
  ASSUME NEW S, NEW new
  PROVE  IdOf(S, new) = new \/ \E v \in S : IdOf(S, new) = v.id
BY DEF IdOf

(* A slot that is saved has an ID that was read, or a new one. *)
LEMMA SlotIdKnown ==
  ASSUME NEW r, NEW input, NEW b, Valid(input, b), NEW e \in Edits(input)
  PROVE  SlotId(r, input, b, e) = <<r, e.cell>> \/ \E s \in b.slots : SlotId(r, input, b, e) = s.id
<1> DEFINE there == IdOf({s \in b.slots : s.val.cell = e.cell}, <<r, e.cell>>)
<1>1. e.keep # NoSlot => \E s \in b.slots : e.keep = s.id
  BY DEF Valid, SlotsOf
<1>2. there = <<r, e.cell>> \/ \E s \in b.slots : there = s.id
  BY IdOfOne
<1>3. \/ e.keep # NoSlot /\ SlotId(r, input, b, e) = e.keep
      \/ SlotId(r, input, b, e) = there \/ SlotId(r, input, b, e) = <<r, e.cell>>
  BY DEF SlotId
<1> HIDE DEF there
<1>4. QED
  BY <1>1, <1>2, <1>3

LEMMA NewSlotsHome ==
  ASSUME NEW r \in Layouts, ReadOK(r), pc[r] \in SavingPCs, NEW s \in NewSlots(r)
  PROVE  s.val.shelf = ShelfOf[r] /\ Home(s.id) = ShelfOf[r]
<1>1. PICK e \in Edits(InputOf[r]) :
        s.id = SlotId(r, InputOf[r], base[r], e) /\ s.val.shelf = ShelfOf[r]
  BY DEF NewSlots, LayoutSlots
<1>2. Valid(InputOf[r], base[r]) /\ \A t \in base[r].slots : Home(t.id) = ShelfOf[r]
  BY DEF ReadOK
<1>3. s.id = <<r, e.cell>> \/ \E t \in base[r].slots : s.id = t.id
  BY <1>1, <1>2, SlotIdKnown
<1>4. s.id = <<r, e.cell>> => Home(s.id) = ShelfOf[r]
  BY KindsAssumption, KindsOfRequests DEF Home
<1>5. QED
  BY <1>1, <1>2, <1>3, <1>4

(* Every version of a table is one there was, or one of the new rows. *)
FromBefore(table, after, new) ==
  \A w \in after : \E v \in table \union new : w.id = v.id /\ w.val = v.val

LEMMA NamesFromBefore ==
  ASSUME NamesOK, NEW newSlots, NEW newItems,
         FromBefore(slots, slots', newSlots), FromBefore(items, items', newItems),
         \A s \in newSlots : s.val.shelf = Home(s.id),
         \A i \in newItems : i.val.owner = OwnerNamed(i.id)
  PROVE  NamesOK'
<1>1. \A w \in slots' : w.val.shelf = Home(w.id)
  BY DEF NamesOK, FromBefore
<1>2. \A w \in items' : w.val.owner = OwnerNamed(w.id)
  BY DEF NamesOK, FromBefore
<1>3. QED
  BY <1>1, <1>2 DEF NamesOK, Home, OwnerNamed

LEMMA AllFromBefore ==
  ASSUME NEW table, Versions(table), NEW t
  PROVE  /\ \A new : FromBefore(table, table, new)
         /\ \A ids : FromBefore(table, Remove(table, t, ids), {})
         /\ \A new : FromBefore(table, Put(table, t, new), new)
         /\ FromBefore(table, Committed(table, t), {})
         /\ FromBefore(table, RolledBack(table, t), {})
<1>1. \A ids : FromBefore(table, Remove(table, t, ids), {})
  BY RemoveLeaves DEF FromBefore, Left, Is
<1>2. ASSUME NEW new PROVE FromBefore(table, Put(table, t, new), new)
  BY PutLeaves DEF FromBefore, Left, Written, Is
<1>3. FromBefore(table, Committed(table, t), {})
  BY CommitLeaves DEF FromBefore, Settled, Is
<1>4. FromBefore(table, RolledBack(table, t), {})
  BY RollbackLeaves DEF FromBefore, Undone, Is
<1>5. QED
  BY <1>1, <1>2, <1>3, <1>4 DEF FromBefore

LEMMA NamesStep ==
  ASSUME Placed, NEW r \in Requests, Step(r) \/ CtxEnds(r)
  PROVE  NamesOK'
<1>1. NamesOK /\ Versions(slots) /\ Versions(items)
  BY DEF Placed, TablesOK
<1>2. CASE PutsSlots(r)
  <2>1. /\ r \in Layouts /\ pc[r] \in SavingPCs
         /\ slots' = Put(slots, r, NewSlots(r)) /\ items' = items
    BY <1>2 DEF PutsSlots, Goes, SavingPCs, LayoutPCs
  <2>2. \A s \in NewSlots(r) : s.val.shelf = Home(s.id)
    BY <2>1, NewSlotsHome DEF Placed, ControlOK
  <2>3. FromBefore(slots, slots', NewSlots(r)) /\ FromBefore(items, items', {})
    BY <1>1, <2>1, AllFromBefore
  <2>4. QED
    BY <1>1, <2>2, <2>3, NamesFromBefore
<1>3. CASE Creates(r)
  <2>1. slots' = slots /\ items' = items \union {NewItem(r)}
    BY <1>3 DEF Creates
  <2>2. FromBefore(slots, slots', {}) /\ FromBefore(items, items', {NewItem(r)})
    BY <2>1 DEF FromBefore
  <2>3. NewItem(r).val.owner = OwnerNamed(NewItem(r).id)
    BY DEF NewItem, Stored, OwnerNamed
  <2>4. QED
    BY <1>1, <2>2, <2>3, NamesFromBefore
<1>4. CASE Cuts(r)
  <2>1. items' = items /\ \E ids : slots' = Remove(slots, r, ids)
    BY <1>4, CutTables DEF Cuts
  <2>2. FromBefore(slots, slots', {}) /\ FromBefore(items, items', {})
    BY <1>1, <2>1, AllFromBefore
  <2>3. QED
    BY <1>1, <2>2, NamesFromBefore
<1>5. CASE Commits(r)
  <2>1. slots' = Committed(slots, r) /\ items' = Committed(items, r)
    BY <1>5 DEF Commits, CommitTables
  <2>2. FromBefore(slots, slots', {}) /\ FromBefore(items, items', {})
    BY <1>1, <2>1, AllFromBefore
  <2>3. QED
    BY <1>1, <2>2, NamesFromBefore
<1>6. CASE GivesUp(r)
  <2>1. slots' = RolledBack(slots, r) /\ items' = RolledBack(items, r)
    BY <1>6 DEF GivesUp, Abort
  <2>2. FromBefore(slots, slots', {}) /\ FromBefore(items, items', {})
    BY <1>1, <2>1, AllFromBefore
  <2>3. QED
    BY <1>1, <2>2, NamesFromBefore
<1>7. CASE Reads(r) \/ DropsPlaces(r) \/ PutsRows(r) \/ PutsCols(r) \/ Inserts(r) \/ Unplaces(r)
           \/ DropsItem(r)
  <2>1. slots' = slots /\ items' \subseteq items
    BY <1>7 DEF Reads, tables, DropsPlaces, PutsRows, PutsCols, Inserts, Unplaces, DropsItem
  <2>2. FromBefore(slots, slots', {}) /\ FromBefore(items, items', {})
    BY <2>1 DEF FromBefore
  <2>3. QED
    BY <1>1, <2>2, NamesFromBefore
<1>8. QED
  BY <1>2, <1>3, <1>4, <1>5, <1>6, <1>7, Steps DEF Placed

-----------------------------------------------------------------------------
(* One placement after a step. *)

LEMMA NobodyIsNoRequest == Nobody \notin Requests /\ Nobody \notin Layouts /\ Nobody \notin Placing
BY PlacementAssumption DEF Requests, Placing

LEMMA KindsDiffer ==
  /\ \A r \in Layouts : r \notin Placing /\ r \notin Removes /\ r \notin Deletes
  /\ \A r \in Placing : r \notin Layouts /\ r \notin Removes /\ r \notin Deletes
BY KindsAssumption

(* A request that has placed its item is not disturbed. *)
Steady ==
  \A q \in Placing :
    /\ pc[q] \in {"commit", "done"} => pc'[q] = pc[q] /\ item'[q] = item[q]
    /\ pc'[q] = "commit" => pc[q] = "commit"

LEMMA ItemNamedStays ==
  ASSUME TypesOK, NEW r \in Requests, Step(r) \/ CtxEnds(r),
         NEW q \in Requests, pc[q] \in {"commit", "done"}
  PROVE  item'[q] = item[q]
<1>1. CASE q = r
  <2>1. UNCHANGED item
    BY <1>1, ReadsKept DEF FindByISBN, CreateItem, Goto, Finish
  <2>2. QED
    BY <2>1
<1>2. CASE q # r
  BY <1>2, OnlyOne
<1>3. QED
  BY <1>1, <1>2

LEMMA SteadySteps ==
  ASSUME TypesOK, NEW r \in Requests, Step(r) \/ CtxEnds(r),
         \/ Reads(r) \/ DropsPlaces(r) \/ Cuts(r) \/ PutsRows(r) \/ PutsCols(r) \/ PutsSlots(r)
         \/ Creates(r) \/ Unplaces(r) \/ DropsItem(r)
  PROVE  Steady
<1>1. \A q \in Placing : q \in Requests
  BY KindsOfRequests
<1>2. \A q \in Placing : pc[q] \in {"commit", "done"} => item'[q] = item[q]
  BY <1>1, ItemNamedStays
<1>3. CASE UNCHANGED pc
  BY <1>2, <1>3 DEF Steady
<1>4. CASE \E from, to : Goes(r, from, to) /\ from \intersect {"commit", "done"} = {}
                         /\ (r \in Layouts \/ "commit" \notin to)
  <2>1. pc[r] \notin {"commit", "done"} /\ (r \in Layouts \/ pc'[r] # "commit")
    BY <1>4 DEF Goes
  <2>2. \A q \in Requests \ {r} : pc'[q] = pc[q]
    BY <1>4 DEF Goes
  <2>3. QED
    BY <1>1, <1>2, <2>1, <2>2, KindsDiffer DEF Steady
<1>5. CASE Reads(r)
  <2>1. "commit" \notin (PCs \ WritingPCs) \union {"putRows"}
    BY DEF WritingPCs
  <2>2. QED
    BY <1>3, <1>4, <1>5, <2>1 DEF Reads
<1>6. CASE DropsPlaces(r)
  BY <1>4, <1>6 DEF DropsPlaces
<1>7. CASE Cuts(r)
  BY <1>4, <1>7 DEF Cuts
<1>8. CASE PutsRows(r) \/ PutsCols(r) \/ PutsSlots(r)
  BY <1>4, <1>8 DEF PutsRows, PutsCols, PutsSlots
<1>9. CASE Creates(r) \/ Unplaces(r) \/ DropsItem(r)
  BY <1>4, <1>9 DEF Creates, Unplaces, DropsItem
<1>10. QED
  BY <1>5, <1>6, <1>7, <1>8, <1>9

LEMMA PlaceStays ==
  ASSUME Steady, NEW v, PlaceOK(v), v.val.item \in IdsOf(items'),
         NEW w, w.id = v.id, w.val = v.val, w.ins = v.ins
  PROVE  PlaceOK(w)'
BY DEF PlaceOK, Steady, OwnerNamed

LEMMA SlotlessIs ==
  ASSUME NEW val, val = [shelf |-> val.shelf, item |-> val.item, slot |-> val.slot]
  PROVE  /\ Slotless(val) = [shelf |-> val.shelf, item |-> val.item, slot |-> NoSlot]
         /\ Slotless(val).shelf = val.shelf /\ Slotless(val).item = val.item
         /\ Slotless(val).slot = NoSlot
<1>1. Slotless(val) = [shelf |-> val.shelf, item |-> val.item, slot |-> NoSlot]
  BY DEF Slotless
<1>2. QED
  BY <1>1

(* A layout update, or a removal, takes the slot from a placement. *)
LEMMA PlaceLosesSlot ==
  ASSUME Steady, NEW v, PlaceOK(v), v.val.item \in IdsOf(items'), NEW r \in Requests \ Placing,
         v.ins \in {Nobody, r},
         NEW w, w.id = v.id, w.val = Slotless(v.val), w.ins \in {v.ins, r}
  PROVE  PlaceOK(w)'
<1>1. /\ v.val = [shelf |-> v.val.shelf, item |-> v.val.item, slot |-> v.val.slot]
      /\ OwnerNamed(v.val.item) = ShelfOwner[v.val.shelf]
      /\ v.id \in Requests =>
           /\ v.id \in Placing /\ pc[v.id] \in {"commit", "done"}
           /\ pc[v.id] = "commit" => v.ins = v.id
  BY DEF PlaceOK
<1>2. /\ w.val = [shelf |-> v.val.shelf, item |-> v.val.item, slot |-> NoSlot]
      /\ w.val.shelf = v.val.shelf /\ w.val.item = v.val.item /\ w.val.slot = NoSlot
  BY <1>1, SlotlessIs
<1>3. v.ins \notin Placing /\ w.ins \notin Placing
  BY NobodyIsNoRequest
<1>4. w.id \in Requests => w.id \in Placing /\ pc'[w.id] = "done"
  BY <1>1, <1>3 DEF Steady
<1>5. QED
  BY <1>1, <1>2, <1>3, <1>4 DEF PlaceOK, OwnerNamed

LEMMA PlaceCommits ==
  ASSUME TypesOK, NEW r \in Requests, Commits(r),
         NEW v, PlaceOK(v), v.val.item \in IdsOf(items'), NEW w, Settled(w, v, r)
  PROVE  PlaceOK(w)'
<1>1. /\ w.id = v.id /\ w.val = v.val /\ w.ins = (IF v.ins = r THEN Nobody ELSE v.ins)
      /\ pc'[r] = "done" /\ (\A q \in Requests \ {r} : pc'[q] = pc[q]) /\ item' = item
  BY DEF Settled, Is, Commits, Goes
<1>2. w.ins \in Layouts => w.ins = v.ins
  BY <1>1, NobodyIsNoRequest
<1>3. w.ins \in Placing => w.ins = v.ins
  BY <1>1, NobodyIsNoRequest
<1>4. w.id \in Requests =>
        /\ w.id \in Placing /\ pc'[w.id] \in {"commit", "done"}
        /\ pc'[w.id] = "commit" =>
             /\ w.ins = w.id
             /\ w.val = [shelf |-> ShelfOf[w.id], item |-> item'[w.id], slot |-> SlotOf[w.id]]
  BY <1>1 DEF PlaceOK
<1>5. QED
  BY <1>1, <1>2, <1>3, <1>4 DEF PlaceOK, OwnerNamed

LEMMA PlaceUndone ==
  ASSUME TypesOK, NEW r \in Requests, GivesUp(r),
         NEW v, PlaceOK(v), v.val.item \in IdsOf(items'), NEW w, Undone(w, v, r)
  PROVE  PlaceOK(w)'
<1>1. /\ w.id = v.id /\ w.val = v.val /\ w.ins = v.ins /\ v.ins # r
      /\ \A q \in Requests \ {r} : pc'[q] = pc[q]
      /\ pc[r] \notin Ended /\ item' = item
  BY DEF Undone, Is, GivesUp, Goes, Abort
<1>2. v.id # r
  BY <1>1 DEF PlaceOK, Ended
<1>3. QED
  BY <1>1, <1>2 DEF PlaceOK, OwnerNamed

-----------------------------------------------------------------------------
(* The slot of one placement after a step. *)

(* What a placement asks of the versions of its slot. *)
SlotHeld(p, table) ==
  \E s \in table :
    /\ s.id = p.val.slot /\ s.ins = Nobody
    /\ \/ s.del = Nobody
       \/ p.ins = Nobody /\ p.del = s.del
       \/ \E n \in table : n.id = s.id /\ n.ins = s.del

LEMMA SlotKeptIs ==
  ASSUME NEW p
  PROVE  SlotKept(p) = (p.val.slot # NoSlot => Home(p.val.slot) = p.val.shelf /\ SlotHeld(p, slots))
BY DEF SlotKept, SlotHeld

LEMMA SlotKeptNext ==
  ASSUME NEW p, p.val.slot # NoSlot => Home(p.val.slot) = p.val.shelf /\ SlotHeld(p, slots')
  PROVE  SlotKept(p)'
BY DEF SlotKept, SlotHeld, Home

LEMMA NoSlotKept ==
  ASSUME NEW p, p.val.slot = NoSlot
  PROVE  SlotKept(p)'
BY SlotKeptNext

(* Removing placements: a placement whose slot goes is removed by the same. *)
LEMMA HeldAfterRemoval ==
  ASSUME NEW v, NEW w, NEW r, NEW ids, NEW table, SlotHeld(v, table), Left(w, v, r, ids),
         v.id \in ids => v.ins \in {Nobody, r} /\ v.del \in {Nobody, r}
  PROVE  SlotHeld(w, table)
BY DEF SlotHeld, Left, Is

(* Removing slots that the placement does not refer to. *)
LEMMA HeldBesideSlots ==
  ASSUME NEW table, Versions(table), NEW v, SlotHeld(v, table), NEW r, NEW slotIds,
         v.val.slot \notin slotIds
  PROVE  SlotHeld(v, Remove(table, r, slotIds))
<1>1. \A s \in table : s.id \notin slotIds =>
        \E t \in Remove(table, r, slotIds) : t.id = s.id /\ t.ins = s.ins /\ t.del = s.del
  BY RemoveLeaves DEF Left, Is
<1>2. QED
  BY <1>1 DEF SlotHeld

(* Removing the slot of a placement that the same transaction removes. *)
LEMMA HeldWithSlots ==
  ASSUME NEW table, Versions(table), NEW w, NEW r, r # Nobody, NEW slotIds,
         w.val.slot \in slotIds, w.ins = Nobody, w.del = r, SlotHeld(w, table)
  PROVE  SlotHeld(w, Remove(table, r, slotIds))
<1>1. PICK s \in table : s.id = w.val.slot /\ s.ins = Nobody
  BY DEF SlotHeld
<1>2. PICK t \in Remove(table, r, slotIds) : Left(t, s, r, slotIds)
  BY <1>1, RemoveLeaves
<1>3. t.id = s.id /\ t.ins = s.ins /\ t.del = r
  BY <1>1, <1>2 DEF Left, Is
<1>4. QED
  BY <1>1, <1>2, <1>3 DEF SlotHeld

(* Writing slots again. *)
LEMMA HeldAfterPut ==
  ASSUME NEW table, Versions(table), NEW v, SlotHeld(v, table), NEW r, r # Nobody, NEW new
  PROVE  SlotHeld(v, Put(table, r, new))
<1>1. \A s \in table : s.id \notin IdsOf(new) =>
        \E t \in Put(table, r, new) : t.id = s.id /\ t.ins = s.ins /\ t.del = s.del
  BY PutLeaves DEF Left, Is
<1>2. \A s \in table : s.id \in IdsOf(new) /\ s.ins = Nobody =>
        /\ \E t \in Put(table, r, new) : t.id = s.id /\ t.ins = Nobody /\ t.del = r
        /\ \E n \in Put(table, r, new) : n.id = s.id /\ n.ins = r
  BY PutLeaves DEF Left, Written, Is, IdsOf
<1>3. QED
  BY <1>1, <1>2 DEF SlotHeld

LEMMA HeldAfterCommit ==
  ASSUME NEW table, Versions(table), NEW W, WrittenBy(table, W), NEW r, r # Nobody,
         NEW v, SlotHeld(v, table), NEW w, Settled(w, v, r)
  PROVE  SlotHeld(w, Committed(table, r))
<1>1. \A s \in table : s.del # r =>
        \E t \in Committed(table, r) :
          t.id = s.id /\ t.ins = (IF s.ins = r THEN Nobody ELSE s.ins) /\ t.del = s.del
  <2>1. \A s \in table : s.del # r => \E t \in Committed(table, r) : Settled(t, s, r)
    BY CommitLeaves
  <2>2. QED
    BY <2>1 DEF Settled, Is
<1>2. PICK s \in table :
        /\ s.id = v.val.slot /\ s.ins = Nobody
        /\ \/ s.del = Nobody
           \/ v.ins = Nobody /\ v.del = s.del
           \/ \E n \in table : n.id = s.id /\ n.ins = s.del
  BY DEF SlotHeld
<1>3. /\ w.val = v.val /\ w.del = v.del /\ v.del # r
      /\ v.ins = Nobody => w.ins = Nobody
  BY DEF Settled, Is
<1>4. CASE s.del # r
  <2>1. PICK t \in Committed(table, r) : t.id = s.id /\ t.ins = Nobody /\ t.del = s.del
    BY <1>1, <1>2, <1>4
  <2>2. CASE s.del = Nobody \/ (v.ins = Nobody /\ v.del = s.del)
    BY <1>2, <1>3, <2>1, <2>2 DEF SlotHeld
  <2>3. CASE s.del # Nobody /\ \E n \in table : n.id = s.id /\ n.ins = s.del
    <3>1. PICK n \in table : n.id = s.id /\ n.ins = s.del /\ n.ins # Nobody
      BY <2>3
    <3>2. n.del = Nobody
      BY <3>1 DEF WrittenBy
    <3>3. \E m \in Committed(table, r) : m.id = s.id /\ m.ins = s.del
      BY <1>1, <1>4, <3>1, <3>2
    <3>4. QED
      BY <1>2, <1>3, <2>1, <3>3 DEF SlotHeld
  <2>4. QED
    BY <1>2, <2>2, <2>3
<1>5. CASE s.del = r
  <2>1. PICK n \in table : n.id = s.id /\ n.ins = r
    BY <1>2, <1>3, <1>5
  <2>2. n.del = Nobody
    BY <2>1 DEF WrittenBy
  <2>3. \E t \in Committed(table, r) : t.id = s.id /\ t.ins = Nobody /\ t.del = Nobody
    BY <1>1, <2>1, <2>2
  <2>4. QED
    BY <1>2, <1>3, <2>3 DEF SlotHeld
<1>6. QED
  BY <1>4, <1>5

LEMMA HeldAfterRollback ==
  ASSUME NEW table, Versions(table), NEW r, r # Nobody,
         NEW v, SlotHeld(v, table), NEW w, Undone(w, v, r)
  PROVE  SlotHeld(w, RolledBack(table, r))
<1>1. \A s \in table : s.ins # r =>
        \E t \in RolledBack(table, r) :
          t.id = s.id /\ t.ins = s.ins /\ t.del = (IF s.del = r THEN Nobody ELSE s.del)
  <2>1. \A s \in table : s.ins # r => \E t \in RolledBack(table, r) : Undone(t, s, r)
    BY RollbackLeaves
  <2>2. QED
    BY <2>1 DEF Undone, Is
<1>2. PICK s \in table :
        /\ s.id = v.val.slot /\ s.ins = Nobody
        /\ \/ s.del = Nobody
           \/ v.ins = Nobody /\ v.del = s.del
           \/ \E n \in table : n.id = s.id /\ n.ins = s.del
  BY DEF SlotHeld
<1>3. w.val = v.val /\ w.ins = v.ins /\ w.del = (IF v.del = r THEN Nobody ELSE v.del)
  BY DEF Undone, Is
<1>4. PICK t \in RolledBack(table, r) :
        t.id = s.id /\ t.ins = Nobody /\ t.del = (IF s.del = r THEN Nobody ELSE s.del)
  BY <1>1, <1>2
<1>5. CASE s.del \in {r, Nobody}
  BY <1>2, <1>3, <1>4, <1>5 DEF SlotHeld
<1>6. CASE s.del \notin {r, Nobody} /\ v.ins = Nobody /\ v.del = s.del
  BY <1>2, <1>3, <1>4, <1>6 DEF SlotHeld
<1>7. CASE s.del \notin {r, Nobody} /\ \E n \in table : n.id = s.id /\ n.ins = s.del
  <2>1. \E m \in RolledBack(table, r) : m.id = s.id /\ m.ins = s.del
    BY <1>1, <1>7
  <2>2. QED
    BY <1>2, <1>3, <1>4, <1>7, <2>1 DEF SlotHeld
<1>8. QED
  BY <1>2, <1>5, <1>6, <1>7

-----------------------------------------------------------------------------
(* Two placements after a step. *)

(* Version w is of the placement that v is of, and has its slot or none. *)
Derives(w, v) == w.id = v.id /\ SameKey(w, v) /\ w.val.slot \in {v.val.slot, NoSlot}

LEMMA KeyStays ==
  ASSUME NEW p, NEW q, KeyOK(p, q), NEW v, NEW w, Derives(v, p), Derives(w, q),
         Replaces(p, q) => Replaces(v, w), Replaces(q, p) => Replaces(w, v)
  PROVE  KeyOK(v, w)
BY DEF KeyOK, Derives, SameKey

(* Rows that r waited for are written by r or by nobody. *)
Waited(v, r) == v.ins \in {Nobody, r} /\ v.del \in {Nobody, r}

LEMMA ReplacesLeft ==
  ASSUME NEW p, NEW q, NEW r, NEW ids, NEW v, NEW w, Left(v, p, r, ids), Left(w, q, r, ids),
         p.id \in ids => Waited(p, r), q.id \in ids => Waited(q, r), Replaces(p, q)
  PROVE  Replaces(v, w)
BY NobodyIsNoRequest DEF Replaces, Left, Is, Waited

LEMMA LeftDerives ==
  ASSUME NEW v, NEW w, NEW r, NEW ids, Left(w, v, r, ids)
  PROVE  Derives(w, v)
BY DEF Left, Is, Derives, SameKey

LEMMA KeyLeft ==
  ASSUME NEW p, NEW q, KeyOK(p, q), NEW r, NEW ids, NEW v, NEW w,
         Left(v, p, r, ids), Left(w, q, r, ids),
         p.id \in ids => Waited(p, r), q.id \in ids => Waited(q, r)
  PROVE  KeyOK(v, w)
BY KeyStays, ReplacesLeft, LeftDerives

LEMMA KeySettled ==
  ASSUME NEW p, NEW q, KeyOK(p, q), NEW r, NEW v, NEW w, Settled(v, p, r), Settled(w, q, r)
  PROVE  KeyOK(v, w)
<1>1. Derives(v, p) /\ Derives(w, q)
  BY DEF Settled, Is, Derives, SameKey
<1>2. Replaces(p, q) => Replaces(v, w)
  BY DEF Settled, Is, Replaces
<1>3. Replaces(q, p) => Replaces(w, v)
  BY DEF Settled, Is, Replaces
<1>4. QED
  BY <1>1, <1>2, <1>3, KeyStays

LEMMA KeyUndone ==
  ASSUME NEW p, NEW q, KeyOK(p, q), NEW r, NEW v, NEW w, Undone(v, p, r), Undone(w, q, r)
  PROVE  KeyOK(v, w)
<1>1. Derives(v, p) /\ Derives(w, q)
  BY DEF Undone, Is, Derives, SameKey
<1>2. Replaces(p, q) => Replaces(v, w)
  BY DEF Undone, Is, Replaces
<1>3. Replaces(q, p) => Replaces(w, v)
  BY DEF Undone, Is, Replaces
<1>4. QED
  BY <1>1, <1>2, <1>3, KeyStays

-----------------------------------------------------------------------------
(* All placements after each kind of step. *)

LEMMA PlacesParts ==
  PlacesOK = (OneKey /\ Made /\ (\A p \in places : PlaceOK(p)) /\ (\A p \in places : SlotKept(p)))
BY DEF PlacesOK

LEMMA PlacesPartsNext ==
  ASSUME OneKey', Made', \A p \in places' : PlaceOK(p)', \A p \in places' : SlotKept(p)'
  PROVE  PlacesOK'
BY DEF PlacesOK

(* What the invariant says of places, slots and items. *)
LEMMA PlacedFacts ==
  ASSUME Placed
  PROVE  /\ TypesOK /\ ControlOK /\ NamesOK /\ TablesOK
         /\ Versions(places) /\ Versions(slots) /\ Versions(items)
         /\ WrittenBy(slots, Writing(Layouts))
         /\ WrittenBy(places, Writing(Layouts \union Placing))
         /\ \A p \in places : PlaceOK(p) /\ SlotKept(p)
         /\ \A p, q \in places : KeyOK(p, q)
         /\ \A p \in places : p.val.item \in IdsOf(items)
BY DEF Placed, ControlOK, TablesOK, PlacesOK, OneKey, PlaceOK

LEMMA PlacesUnchanged ==
  ASSUME Placed, Steady, UNCHANGED places, IdsOf(items) \subseteq IdsOf(items'),
         \A p \in places : SlotHeld(p, slots) => SlotHeld(p, slots')
  PROVE  PlacesOK'
<1>1. OneKey'
  BY PlacedFacts DEF OneKey, KeyOK, SameKey, Replaces
<1>2. Made'
  BY DEF Placed, PlacesOK, Made, Steady
<1>3. ASSUME NEW p \in places' PROVE PlaceOK(p)'
  BY <1>3, PlacedFacts, PlaceStays
<1>4. ASSUME NEW p \in places' PROVE SlotKept(p)'
  BY <1>4, PlacedFacts, SlotKeptIs, SlotKeptNext
<1>5. QED
  BY <1>1, <1>2, <1>3, <1>4, PlacesPartsNext

LEMMA RequestsAreSomebody == \A r \in Requests : r # Nobody
BY PlacementAssumption

LEMMA PlacesReads ==
  ASSUME Placed, Steady, NEW r \in Requests,
         Reads(r) \/ PutsRows(r) \/ PutsCols(r) \/ PutsSlots(r) \/ Creates(r)
  PROVE  PlacesOK'
<1>1. UNCHANGED places /\ items \subseteq items'
  BY DEF Reads, tables, PutsRows, PutsCols, PutsSlots, Creates
<1>2. IdsOf(items) \subseteq IdsOf(items')
  BY <1>1 DEF IdsOf
<1>3. slots' = slots \/ \E new : slots' = Put(slots, r, new)
  BY DEF Reads, tables, PutsRows, PutsCols, PutsSlots, Creates
<1>4. \A p \in places : SlotHeld(p, slots) => SlotHeld(p, slots')
  BY <1>3, PlacedFacts, HeldAfterPut, RequestsAreSomebody
<1>5. QED
  BY <1>1, <1>2, <1>4, PlacesUnchanged

LEMMA PlacesDropsPlaces ==
  ASSUME Placed, Steady, NEW r \in Requests, DropsPlaces(r)
  PROVE  PlacesOK'
<1>1. PICK ids : places' = Remove(places, r, ids) /\ Writers(places, r, ids) = {}
  BY DEF DropsPlaces
<1>2. slots' = slots /\ items' = items
  BY DEF DropsPlaces
<1>3. /\ \A w \in places' : \E v \in places : Left(w, v, r, ids)
      /\ \A v \in places : ~(v.id \in ids /\ v.ins = r) => \E w \in places' : Left(w, v, r, ids)
  BY <1>1, PlacedFacts, RemoveLeaves
<1>4. \A v \in places : v.id \in ids => Waited(v, r)
  BY <1>1, WaitsForWriter DEF Waited
<1>5. ASSUME NEW v \in places', NEW w \in places' PROVE KeyOK(v, w)
  <2>1. PICK p \in places : Left(v, p, r, ids)
    BY <1>3
  <2>2. PICK q \in places : Left(w, q, r, ids)
    BY <1>3
  <2>3. QED
    BY <1>4, <2>1, <2>2, PlacedFacts, KeyLeft
<1>6. OneKey'
  BY <1>5 DEF OneKey, KeyOK, SameKey, Replaces
<1>7. Made'
  <2>1. ASSUME NEW q \in Placing, pc'[q] = "commit" PROVE \E w \in places' : w.id = q
    <3>1. pc[q] = "commit" /\ q # r
      BY <2>1 DEF Steady, DropsPlaces, Goes
    <3>2. PICK p \in places : p.id = q
      BY <2>1, <3>1 DEF Placed, PlacesOK, Made
    <3>3. p.ins = q
      BY <2>1, <3>1, <3>2, PlacedFacts, KindsOfRequests DEF PlaceOK
    <3>4. \E w \in places' : Left(w, p, r, ids)
      BY <1>3, <3>1, <3>3
    <3>5. QED
      BY <3>2, <3>4 DEF Left, Is
  <2>2. QED
    BY <2>1 DEF Made
<1>8. ASSUME NEW w \in places' PROVE PlaceOK(w)' /\ SlotKept(w)'
  <2>1. PICK v \in places : Left(w, v, r, ids)
    BY <1>3
  <2>2. w.id = v.id /\ w.val = v.val /\ w.ins = v.ins
    BY <2>1 DEF Left, Is
  <2>3. PlaceOK(w)'
    BY <1>2, <2>2, PlacedFacts, PlaceStays
  <2>4. SlotHeld(v, slots) => SlotHeld(w, slots')
    BY <1>2, <1>4, <2>1, HeldAfterRemoval DEF Waited
  <2>5. SlotKept(w)'
    BY <2>2, <2>4, PlacedFacts, SlotKeptIs, SlotKeptNext
  <2>6. QED
    BY <2>3, <2>5
<1>9. QED
  BY <1>6, <1>7, <1>8, PlacesPartsNext

(* A request that commits has a placement of its own. *)
LEMMA OwnPlace ==
  ASSUME Placed, NEW q \in Placing, pc[q] = "commit"
  PROVE  \E p \in places : p.id = q /\ p.ins = q
BY PlacedFacts, KindsOfRequests DEF Placed, PlacesOK, Made, PlaceOK

LEMMA PlacesCuts ==
  ASSUME Placed, Steady, NEW r \in Requests, Cuts(r)
  PROVE  PlacesOK'
<1>1. r \in Layouts /\ r \notin Placing /\ r # Nobody
  BY KindsDiffer, RequestsAreSomebody DEF Cuts
<1>2. PICK ids : /\ slots' = Remove(slots, r, ids) /\ Writers(slots, r, ids) = {}
                 /\ places' = Put(places, r, Emptied(r, ids))
                 /\ Writers(places, r, IdsOf(PlacesIn(r, ids))) = {}
                 /\ Referrers(r, ids, {}) = {} /\ items' = items
  BY CutTables DEF Cuts
<1> DEFINE gone == IdsOf(PlacesIn(r, ids))
<1>3. /\ IdsOf(Emptied(r, ids)) = gone
      /\ \A n \in Emptied(r, ids) : \E p \in PlacesIn(r, ids) :
           n.id = p.id /\ n.val = Slotless(p.val)
  BY PlacedFacts, EmptiedIds
<1> HIDE DEF gone
<1>4. /\ \A w \in places' :
           \/ \E v \in places : Left(w, v, r, gone)
           \/ \E n \in Emptied(r, ids) : Written(w, n, r)
      /\ \A v \in places : ~(v.id \in gone /\ v.ins = r) => \E w \in places' : Left(w, v, r, gone)
  BY <1>2, <1>3, PlacedFacts, PutLeaves
<1>5. \A v \in places : v.id \in gone => Waited(v, r)
  BY <1>2, WaitsForWriter DEF Waited, gone
<1>6. \A v \in places : v \in PlacesIn(r, ids) => v.id \in gone
  BY DEF gone, IdsOf
<1>7. ASSUME NEW w \in places'
      PROVE  \/ \E v \in places : Left(w, v, r, gone)
             \/ \E v \in places : /\ v.id \in gone /\ w.id = v.id /\ w.val = Slotless(v.val)
                                  /\ w.ins = r /\ w.del = Nobody
  <2>1. CASE \E n \in Emptied(r, ids) : Written(w, n, r)
    <3>1. PICK n \in Emptied(r, ids) : Written(w, n, r)
      BY <2>1
    <3>2. PICK p \in PlacesIn(r, ids) : n.id = p.id /\ n.val = Slotless(p.val)
      BY <1>3
    <3>3. p \in places /\ p.id \in gone
      BY <1>6 DEF PlacesIn, Visible
    <3>4. QED
      BY <3>1, <3>2, <3>3 DEF Written, Is
  <2>2. QED
    BY <1>4, <2>1
<1>8. \A v \in places : Slotless(v.val).shelf = v.val.shelf /\ Slotless(v.val).item = v.val.item
                        /\ Slotless(v.val).slot = NoSlot
  BY PlacedFacts, SlotlessIs DEF PlaceOK
<1>9. ASSUME NEW p \in places, NEW q \in places, p.id \in gone \/ q.id \in gone, Replaces(p, q)
      PROVE  p.id \notin gone /\ q.id \notin gone
  BY <1>1, <1>5, <1>9, NobodyIsNoRequest DEF Waited, Replaces
<1>10. ASSUME NEW v \in places', NEW w \in places' PROVE KeyOK(v, w)
  <2>1. PICK p \in places : \/ Left(v, p, r, gone)
                            \/ /\ p.id \in gone /\ v.id = p.id /\ v.val = Slotless(p.val)
                               /\ v.ins = r /\ v.del = Nobody
    BY <1>7
  <2>2. PICK q \in places : \/ Left(w, q, r, gone)
                            \/ /\ q.id \in gone /\ w.id = q.id /\ w.val = Slotless(q.val)
                               /\ w.ins = r /\ w.del = Nobody
    BY <1>7
  <2>3. KeyOK(p, q)
    BY PlacedFacts
  <2>4. CASE Left(v, p, r, gone) /\ Left(w, q, r, gone)
    BY <1>5, <2>3, <2>4, KeyLeft
  <2>5. CASE p.id \in gone \/ q.id \in gone
    <3>1. Derives(v, p) /\ Derives(w, q)
      BY <1>8, <2>1, <2>2, LeftDerives DEF Derives, SameKey
    <3>2. ~Replaces(p, q) /\ ~Replaces(q, p)
      BY <1>9, <2>5
    <3>3. QED
      BY <2>3, <3>1, <3>2, KeyStays
  <2>6. QED
    BY <2>1, <2>2, <2>4, <2>5
<1>11. OneKey'
  BY <1>10 DEF OneKey, KeyOK, SameKey, Replaces
<1>12. Made'
  <2>1. ASSUME NEW q \in Placing, pc'[q] = "commit" PROVE \E w \in places' : w.id = q
    <3>1. PICK p \in places : p.id = q /\ p.ins = q
      BY <2>1, OwnPlace DEF Steady
    <3>2. \E w \in places' : Left(w, p, r, gone)
      BY <1>1, <1>4, <3>1
    <3>3. QED
      BY <3>1, <3>2 DEF Left, Is
  <2>2. QED
    BY <2>1 DEF Made
<1>13. ASSUME NEW w \in places' PROVE PlaceOK(w)' /\ SlotKept(w)'
  <2>1. CASE \E v \in places : Left(w, v, r, gone)
    <3>1. PICK v \in places : Left(w, v, r, gone)
      BY <2>1
    <3>2. w.id = v.id /\ w.val = v.val /\ w.ins = v.ins
          /\ w.del = (IF v.id \in gone THEN r ELSE v.del)
      BY <3>1 DEF Left, Is
    <3>3. PlaceOK(w)'
      BY <1>2, <3>2, PlacedFacts, PlaceStays
    <3>4. CASE w.val.slot = NoSlot
      BY <3>3, <3>4, NoSlotKept
    <3>5. CASE w.val.slot # NoSlot /\ v.val.slot \notin ids
      <4>1. SlotHeld(v, slots) /\ Home(v.val.slot) = v.val.shelf
        BY <3>2, <3>5, PlacedFacts, SlotKeptIs
      <4>2. SlotHeld(w, slots)
        BY <1>5, <3>1, <4>1, HeldAfterRemoval DEF Waited
      <4>3. SlotHeld(w, slots')
        BY <1>2, <3>2, <3>5, <4>2, PlacedFacts, HeldBesideSlots
      <4>4. QED
        BY <3>2, <3>3, <4>1, <4>3, SlotKeptNext
    <3>6. CASE w.val.slot # NoSlot /\ v.val.slot \in ids
      <4>1. SlotHeld(v, slots) /\ Home(v.val.slot) = v.val.shelf
        BY <3>2, <3>6, PlacedFacts, SlotKeptIs
      <4>2. v.ins \in {Nobody, r}
        BY <1>2, <3>6 DEF Referrers
      <4>3. v.ins = Nobody
        BY <1>1, <3>2, <3>6, <4>2, PlacedFacts DEF PlaceOK
      <4>4. v.del # r => v.id \in gone
        BY <1>6, <3>6, <4>3 DEF PlacesIn, Visible
      <4>5. w.ins = Nobody /\ w.del = r
        BY <3>2, <4>3, <4>4
      <4>6. SlotHeld(w, slots)
        BY <1>5, <3>1, <4>1, HeldAfterRemoval DEF Waited
      <4>7. SlotHeld(w, slots')
        BY <1>1, <1>2, <3>2, <3>6, <4>5, <4>6, PlacedFacts, HeldWithSlots
      <4>8. QED
        BY <3>2, <3>3, <4>1, <4>7, SlotKeptNext
    <3>7. QED
      BY <3>4, <3>5, <3>6
  <2>2. CASE \E v \in places : /\ v.id \in gone /\ w.id = v.id /\ w.val = Slotless(v.val)
                               /\ w.ins = r /\ w.del = Nobody
    <3>1. PICK v \in places : /\ v.id \in gone /\ w.id = v.id /\ w.val = Slotless(v.val)
                              /\ w.ins = r /\ w.del = Nobody
      BY <2>2
    <3>2. v.ins \in {Nobody, r} /\ r \in Requests \ Placing /\ w.ins \in {v.ins, r}
      BY <1>1, <1>5, <3>1 DEF Waited
    <3>3. PlaceOK(v) /\ v.val.item \in IdsOf(items')
      BY <1>2, PlacedFacts
    <3>4. PlaceOK(w)'
      BY <3>1, <3>2, <3>3, PlaceLosesSlot
    <3>5. SlotKept(w)'
      BY <1>8, <3>1, NoSlotKept
    <3>6. QED
      BY <3>4, <3>5
  <2>3. QED
    BY <1>7, <2>1, <2>2
<1>14. QED
  BY <1>11, <1>12, <1>13, PlacesPartsNext

(* The slot of a new placement: it is there, and who removes it writes it again. *)
LEMMA NewSlotHeld ==
  ASSUME Placed, NEW r \in Placing, SlotOf[r] \in IdsOf(Visible(slots, r)),
         Removers(slots, r, SlotOf[r]) = {}, NEW w, w.val.slot = SlotOf[r]
  PROVE  SlotHeld(w, slots)
<1>1. PICK s \in slots : s.id = SlotOf[r] /\ s.ins \in {Nobody, r} /\ s.del # r
  BY DEF IdsOf, Visible
<1>2. s.ins = Nobody
  BY <1>1, PlacedFacts, KindsDiffer, NobodyIsNoRequest DEF WrittenBy, Writing
<1>3. CASE s.del # Nobody
  <2>1. \E n \in Rows(slots, SlotOf[r]) : n.ins = s.del
    <3>1. s \in Rows(slots, SlotOf[r])
      BY <1>1 DEF Rows
    <3>2. QED
      BY <1>1, <1>3, <3>1 DEF Removers
  <2>2. QED
    BY <1>1, <1>2, <2>1 DEF Rows, SlotHeld
<1>4. QED
  BY <1>1, <1>2, <1>3 DEF SlotHeld

(* A new placement is added to those there are. *)
LEMMA InsertLeaves ==
  ASSUME Placed, NEW r \in Requests, Inserts(r)
  PROVE  /\ \A w \in places' :
              (\E v \in places : Is(w, v, v.ins, v.del)) \/ Is(w, NewPlace(r), r, Nobody)
         /\ \A v \in places : \E w \in places' : Is(w, v, v.ins, v.del)
         /\ \E w \in places' : Is(w, NewPlace(r), r, Nobody)
<1>1. pc[r] = "insert" /\ places' = Put(places, r, {NewPlace(r)})
  BY DEF Inserts, Goes
<1>2. \A p \in places : p.id # r
  BY <1>1, NothingInserted DEF Placed
<1>3. IdsOf({NewPlace(r)}) = {r}
  BY DEF NewPlace, IdsOf
<1>4. /\ \A w \in places' : \/ \E v \in places : Left(w, v, r, {r})
                            \/ Written(w, NewPlace(r), r)
      /\ \A v \in places : ~(v.id \in {r} /\ v.ins = r) => \E w \in places' : Left(w, v, r, {r})
      /\ \E w \in places' : Written(w, NewPlace(r), r)
  <2> DEFINE new == {NewPlace(r)}
  <2>1. places' = Put(places, r, new) /\ Versions(places)
    BY <1>1, PlacedFacts
  <2>2. IdsOf(new) = {r} /\ \A n : n \in new <=> n = NewPlace(r)
    BY <1>3
  <2> HIDE DEF new
  <2>3. /\ \A w \in places' : \/ \E v \in places : Left(w, v, r, IdsOf(new))
                              \/ \E n \in new : Written(w, n, r)
        /\ \A v \in places : ~(v.id \in IdsOf(new) /\ v.ins = r) =>
             \E w \in places' : Left(w, v, r, IdsOf(new))
        /\ \A n \in new : \E w \in places' : Written(w, n, r)
    BY <2>1, PutLeaves
  <2>4. QED
    BY <2>2, <2>3
<1>5. QED
  BY <1>2, <1>4 DEF Left, Written, Is

LEMMA PlacesInserts ==
  ASSUME Placed, NEW r \in Requests, Inserts(r)
  PROVE  PlacesOK'
<1>1. /\ r \in Placing /\ pc[r] = "insert" /\ pc'[r] = "commit" /\ item' = item
      /\ \A q \in Requests \ {r} : pc'[q] = pc[q]
      /\ slots' = slots /\ items' = items /\ KeysHold(r)
      /\ places' = Put(places, r, {NewPlace(r)})
      /\ r \notin Layouts /\ r # Nobody
  BY KindsDiffer, RequestsAreSomebody DEF Inserts, Goes
<1>2. \A p \in places : p.id # r /\ p.ins # r
  BY <1>1, NothingInserted, PlacedFacts DEF Placed, PlaceOK
<1>3. /\ NewPlace(r).id = r
      /\ NewPlace(r).val = [shelf |-> ShelfOf[r], item |-> item[r], slot |-> SlotOf[r]]
  BY DEF NewPlace
<1>4. /\ \A w \in places' :
           (\E v \in places : Is(w, v, v.ins, v.del)) \/ Is(w, NewPlace(r), r, Nobody)
      /\ \A v \in places : \E w \in places' : Is(w, v, v.ins, v.del)
      /\ \E w \in places' : Is(w, NewPlace(r), r, Nobody)
  BY InsertLeaves
<1>5. ASSUME NEW q \in places, q.val.shelf = ShelfOf[r], q.val.item = item[r]
      PROVE  q.ins = Nobody /\ q.del = r
  <2>1. q.id \in KeyIds(ShelfOf[r], item[r])
    BY <1>5 DEF KeyIds
  <2>2. q.ins \in {Nobody, r} /\ q.del \in {Nobody, r}
    BY <2>1, WaitsForWriter DEF Inserts
  <2>3. q \notin Visible(places, r)
    BY <1>1, <1>5 DEF KeysHold, ShelfPlaces
  <2>4. QED
    BY <1>2, <2>2, <2>3 DEF Visible
<1>6. ASSUME NEW v \in places', NEW w \in places' PROVE KeyOK(v, w)
  <2>1. ASSUME NEW p \in places, NEW x, Is(x, NewPlace(r), r, Nobody)
        PROVE  /\ p.id # x.id
               /\ SameKey(p, x) => Replaces(x, p)
    BY <1>1, <1>2, <1>3, <1>5, <2>1 DEF Is, SameKey, Replaces
  <2>2. CASE Is(v, NewPlace(r), r, Nobody) /\ Is(w, NewPlace(r), r, Nobody)
    BY <2>2 DEF Is, KeyOK, SameKey
  <2>3. CASE \E p \in places : Is(v, p, p.ins, p.del) /\ Is(w, NewPlace(r), r, Nobody)
    BY <2>1, <2>3 DEF Is, KeyOK, SameKey, Replaces
  <2>4. CASE \E q \in places : Is(w, q, q.ins, q.del) /\ Is(v, NewPlace(r), r, Nobody)
    BY <2>1, <2>4 DEF Is, KeyOK, SameKey, Replaces
  <2>5. CASE \E p, q \in places : Is(v, p, p.ins, p.del) /\ Is(w, q, q.ins, q.del)
    BY <2>5, PlacedFacts DEF Is, KeyOK, SameKey, Replaces
  <2>6. QED
    BY <1>4, <2>2, <2>3, <2>4, <2>5
<1>7. OneKey'
  BY <1>6 DEF OneKey, KeyOK, SameKey, Replaces
<1>8. Made'
  <2>1. ASSUME NEW q \in Placing, pc'[q] = "commit" PROVE \E w \in places' : w.id = q
    <3>1. CASE q = r
      BY <1>3, <1>4, <3>1 DEF Is
    <3>2. CASE q # r
      <4>1. \E p \in places : p.id = q
        BY <1>1, <2>1, <3>2, OwnPlace, KindsOfRequests
      <4>2. QED
        BY <1>4, <4>1 DEF Is
    <3>3. QED
      BY <3>1, <3>2
  <2>2. QED
    BY <2>1 DEF Made
<1>9. ASSUME NEW w \in places' PROVE PlaceOK(w)' /\ SlotKept(w)'
  <2>1. CASE \E v \in places : Is(w, v, v.ins, v.del)
    <3>1. PICK v \in places : Is(w, v, v.ins, v.del)
      BY <2>1
    <3>2. w.id = v.id /\ w.val = v.val /\ w.ins = v.ins /\ w.del = v.del /\ w.id # r
      BY <1>2, <3>1 DEF Is
    <3>3. PlaceOK(v) /\ SlotKept(v)
      BY PlacedFacts
    <3>4. PlaceOK(w)'
      BY <1>1, <3>2, <3>3 DEF PlaceOK, OwnerNamed
    <3>5. SlotKept(w)'
      BY <1>1, <3>2, <3>3 DEF SlotKept, Home
    <3>6. QED
      BY <3>4, <3>5
  <2>2. CASE Is(w, NewPlace(r), r, Nobody)
    <3>1. /\ w.id = r /\ w.ins = r
          /\ w.val = [shelf |-> ShelfOf[r], item |-> item[r], slot |-> SlotOf[r]]
      BY <1>3, <2>2 DEF Is
    <3>2. w.val.shelf = ShelfOf[r] /\ w.val.item = item[r] /\ w.val.slot = SlotOf[r]
      BY <3>1
    <3>3. OwnerNamed(item[r]) = OwnerOf[r] /\ ShelfOwned(r) /\ Home(SlotOf[r]) = ShelfOf[r]
      BY <1>1, PlacedFacts DEF ControlOK, CheckedOK
    <3>4. item[r] \in IdsOf(items)
      BY <1>1 DEF KeysHold, IdsOf, Visible
    <3>5. PlaceOK(w)'
      BY <1>1, <3>1, <3>2, <3>3, <3>4 DEF PlaceOK, OwnerNamed, ShelfOwned
    <3>6. SlotHeld(w, slots)
      BY <1>1, <3>2, NewSlotHeld DEF KeysHold, Inserts
    <3>7. SlotKept(w)'
      BY <1>1, <3>2, <3>3, <3>6, SlotKeptNext
    <3>8. QED
      BY <3>5, <3>7
  <2>3. QED
    BY <1>4, <2>1, <2>2
<1>10. QED
  BY <1>7, <1>8, <1>9, PlacesPartsNext

LEMMA PlacesUnplaces ==
  ASSUME Placed, Steady, NEW r \in Requests, Unplaces(r)
  PROVE  PlacesOK'
<1>1. r \in Requests \ Placing /\ slots' = slots /\ items' = items
  BY KindsDiffer DEF Unplaces
<1>2. PICK ids : Writers(places, r, ids) = {} /\ places' = Unplaced(ids)
  BY DEF Unplaces, Unplaced
<1>3. /\ \A w \in places' : \E v \in places :
           \/ Is(w, v, v.ins, v.del)
           \/ v.id \in ids /\ w.id = v.id /\ w.val = Slotless(v.val)
                /\ w.ins = v.ins /\ w.del = v.del
      /\ \A v \in places : \E w \in places' : w.id = v.id
  BY <1>2, PlacedFacts, UnplacedLeaves
<1>4. \A v \in places : Slotless(v.val).shelf = v.val.shelf /\ Slotless(v.val).item = v.val.item
                        /\ Slotless(v.val).slot = NoSlot
  BY PlacedFacts, SlotlessIs DEF PlaceOK
<1>5. ASSUME NEW w \in places'
      PROVE  \E v \in places : Derives(w, v) /\ w.ins = v.ins /\ w.del = v.del
  BY <1>3, <1>4 DEF Derives, SameKey, Is
<1>6. ASSUME NEW v \in places', NEW w \in places' PROVE KeyOK(v, w)
  <2>1. PICK p \in places : Derives(v, p) /\ v.ins = p.ins /\ v.del = p.del
    BY <1>5
  <2>2. PICK q \in places : Derives(w, q) /\ w.ins = q.ins /\ w.del = q.del
    BY <1>5
  <2>3. /\ Replaces(p, q) => Replaces(v, w)
        /\ Replaces(q, p) => Replaces(w, v)
    BY <2>1, <2>2 DEF Replaces
  <2>4. QED
    BY <2>1, <2>2, <2>3, PlacedFacts, KeyStays
<1>7. OneKey'
  BY <1>6 DEF OneKey, KeyOK, SameKey, Replaces
<1>8. Made'
  BY <1>3, OwnPlace DEF Made, Steady
<1>9. ASSUME NEW w \in places' PROVE PlaceOK(w)' /\ SlotKept(w)'
  <2>1. CASE \E v \in places : Is(w, v, v.ins, v.del)
    <3>1. PICK v \in places : Is(w, v, v.ins, v.del)
      BY <2>1
    <3>2. w.id = v.id /\ w.val = v.val /\ w.ins = v.ins /\ w.del = v.del
      BY <3>1 DEF Is
    <3>3. PlaceOK(w)'
      BY <1>1, <3>2, PlacedFacts, PlaceStays
    <3>4. SlotKept(v)
      BY PlacedFacts
    <3>5. SlotKept(w)'
      BY <1>1, <3>2, <3>4 DEF SlotKept, Home
    <3>6. QED
      BY <3>3, <3>5
  <2>2. CASE \E v \in places : v.id \in ids /\ w.id = v.id /\ w.val = Slotless(v.val)
                                 /\ w.ins = v.ins /\ w.del = v.del
    <3>1. PICK v \in places : v.id \in ids /\ w.id = v.id /\ w.val = Slotless(v.val)
                                /\ w.ins = v.ins /\ w.del = v.del
      BY <2>2
    <3>2. v.ins \in {Nobody, r}
      BY <1>2, <3>1, WaitsForWriter
    <3>3. PlaceOK(v) /\ v.val.item \in IdsOf(items') /\ w.ins \in {v.ins, r}
      BY <1>1, <3>1, PlacedFacts
    <3>4. PlaceOK(w)'
      BY <1>1, <3>1, <3>2, <3>3, PlaceLosesSlot
    <3>5. SlotKept(w)'
      BY <1>4, <3>1, NoSlotKept
    <3>6. QED
      BY <3>4, <3>5
  <2>3. QED
    BY <1>3, <2>1, <2>2
<1>10. QED
  BY <1>7, <1>8, <1>9, PlacesPartsNext

LEMMA PlacesDropsItem ==
  ASSUME Placed, Steady, NEW r \in Requests, DropsItem(r)
  PROVE  PlacesOK'
<1>1. PICK ids : /\ items' = {i \in items : i.id \notin ids}
                 /\ places' = {p \in places : p.val.item \notin ids}
                 /\ Referrers(r, {}, ids) = {} /\ slots' = slots
  BY DEF DropsItem
<1>2. \A p \in places' : p \in places /\ p.val.item \in IdsOf(items')
  BY <1>1, PlacedFacts DEF IdsOf
<1>3. OneKey'
  BY <1>2, PlacedFacts DEF OneKey, KeyOK, SameKey, Replaces
<1>4. Made'
  <2>1. ASSUME NEW q \in Placing, pc'[q] = "commit" PROVE \E w \in places' : w.id = q
    <3>1. PICK p \in places : p.id = q /\ p.ins = q
      BY <2>1, OwnPlace DEF Steady
    <3>2. q # r /\ q # Nobody
      BY <2>1, KindsDiffer, NobodyIsNoRequest DEF DropsItem
    <3>3. p.val.item \notin ids
      BY <1>1, <3>1, <3>2 DEF Referrers
    <3>4. QED
      BY <1>1, <3>1, <3>3
  <2>2. QED
    BY <2>1 DEF Made
<1>5. ASSUME NEW p \in places' PROVE PlaceOK(p)' /\ SlotKept(p)'
  <2>1. PlaceOK(p) /\ SlotKept(p) /\ p.val.item \in IdsOf(items')
    BY <1>2, PlacedFacts
  <2>2. PlaceOK(p)'
    BY <2>1, PlaceStays
  <2>3. SlotKept(p)'
    BY <1>1, <2>1 DEF SlotKept, Home
  <2>4. QED
    BY <2>2, <2>3
<1>6. QED
  BY <1>3, <1>4, <1>5, PlacesPartsNext

(* Ending a transaction leaves the items: nobody has written them alone. *)
LEMMA ItemsSettled ==
  ASSUME Placed, NEW r \in Requests
  PROVE  /\ IdsOf(items) \subseteq IdsOf(Committed(items, r))
         /\ IdsOf(items) \subseteq IdsOf(RolledBack(items, r))
<1>1. Versions(items) /\ r # Nobody /\ \A i \in items : i.ins = Nobody /\ i.del = Nobody
  BY RequestsAreSomebody DEF Placed, TablesOK, WrittenBy
<1>2. \A i \in items : \E w \in Committed(items, r) : Settled(w, i, r)
  BY <1>1, CommitLeaves
<1>3. \A i \in items : \E w \in RolledBack(items, r) : Undone(w, i, r)
  BY <1>1, RollbackLeaves
<1>4. QED
  BY <1>2, <1>3 DEF IdsOf, Settled, Undone, Is

LEMMA PlacesCommits ==
  ASSUME Placed, NEW r \in Requests, Commits(r)
  PROVE  PlacesOK'
<1>1. /\ places' = Committed(places, r) /\ slots' = Committed(slots, r)
      /\ items' = Committed(items, r) /\ item' = item
      /\ pc'[r] = "done" /\ \A q \in Requests \ {r} : pc'[q] = pc[q]
  BY DEF Commits, CommitTables, Goes
<1>2. /\ \A w \in places' : \E v \in places : Settled(w, v, r)
      /\ \A v \in places : v.del # r => \E w \in places' : Settled(w, v, r)
  BY <1>1, PlacedFacts, CommitLeaves
<1>3. ASSUME NEW v \in places', NEW w \in places' PROVE KeyOK(v, w)
  BY <1>2, PlacedFacts, KeySettled
<1>4. OneKey'
  BY <1>3 DEF OneKey, KeyOK, SameKey, Replaces
<1>5. Made'
  <2>1. ASSUME NEW q \in Placing, pc'[q] = "commit" PROVE \E w \in places' : w.id = q
    <3>1. q # r /\ pc[q] = "commit"
      BY <1>1, <2>1, KindsOfRequests
    <3>2. PICK p \in places : p.id = q /\ p.ins = q
      BY <2>1, <3>1, OwnPlace
    <3>3. p.del = Nobody
      BY <3>2, PlacedFacts, NobodyIsNoRequest DEF WrittenBy
    <3>4. QED
      BY <1>2, <3>2, <3>3, RequestsAreSomebody DEF Settled, Is
  <2>2. QED
    BY <2>1 DEF Made
<1>6. ASSUME NEW w \in places' PROVE PlaceOK(w)' /\ SlotKept(w)'
  <2>1. PICK v \in places : Settled(w, v, r)
    BY <1>2
  <2>2. PlaceOK(v) /\ SlotKept(v) /\ v.val.item \in IdsOf(items')
    BY <1>1, PlacedFacts, ItemsSettled
  <2>3. PlaceOK(w)'
    BY <2>1, <2>2, PlacedFacts, PlaceCommits
  <2>4. w.val = v.val
    BY <2>1 DEF Settled, Is
  <2>5. SlotHeld(v, slots) => SlotHeld(w, slots')
    BY <1>1, <2>1, PlacedFacts, HeldAfterCommit, RequestsAreSomebody
  <2>6. SlotKept(w)'
    BY <2>2, <2>4, <2>5, SlotKeptIs, SlotKeptNext
  <2>7. QED
    BY <2>3, <2>6
<1>7. QED
  BY <1>4, <1>5, <1>6, PlacesPartsNext

LEMMA PlacesGivesUp ==
  ASSUME Placed, NEW r \in Requests, GivesUp(r)
  PROVE  PlacesOK'
<1>1. /\ places' = RolledBack(places, r) /\ slots' = RolledBack(slots, r)
      /\ items' = RolledBack(items, r) /\ item' = item
      /\ pc'[r] = "failed" /\ \A q \in Requests \ {r} : pc'[q] = pc[q]
  BY DEF GivesUp, Abort, Goes
<1>2. /\ \A w \in places' : \E v \in places : Undone(w, v, r)
      /\ \A v \in places : v.ins # r => \E w \in places' : Undone(w, v, r)
  BY <1>1, PlacedFacts, RollbackLeaves
<1>3. ASSUME NEW v \in places', NEW w \in places' PROVE KeyOK(v, w)
  BY <1>2, PlacedFacts, KeyUndone
<1>4. OneKey'
  BY <1>3 DEF OneKey, KeyOK, SameKey, Replaces
<1>5. Made'
  <2>1. ASSUME NEW q \in Placing, pc'[q] = "commit" PROVE \E w \in places' : w.id = q
    <3>1. q # r /\ pc[q] = "commit"
      BY <1>1, <2>1, KindsOfRequests
    <3>2. PICK p \in places : p.id = q /\ p.ins = q
      BY <2>1, <3>1, OwnPlace
    <3>3. QED
      BY <1>2, <3>1, <3>2 DEF Undone, Is
  <2>2. QED
    BY <2>1 DEF Made
<1>6. ASSUME NEW w \in places' PROVE PlaceOK(w)' /\ SlotKept(w)'
  <2>1. PICK v \in places : Undone(w, v, r)
    BY <1>2
  <2>2. PlaceOK(v) /\ SlotKept(v) /\ v.val.item \in IdsOf(items')
    BY <1>1, PlacedFacts, ItemsSettled
  <2>3. PlaceOK(w)'
    BY <2>1, <2>2, PlacedFacts, PlaceUndone
  <2>4. w.val = v.val
    BY <2>1 DEF Undone, Is
  <2>5. SlotHeld(v, slots) => SlotHeld(w, slots')
    BY <1>1, <2>1, PlacedFacts, HeldAfterRollback, RequestsAreSomebody
  <2>6. SlotKept(w)'
    BY <2>2, <2>4, <2>5, SlotKeptIs, SlotKeptNext
  <2>7. QED
    BY <2>3, <2>6
<1>7. QED
  BY <1>4, <1>5, <1>6, PlacesPartsNext

LEMMA PlacesStep ==
  ASSUME Placed, NEW r \in Requests, Step(r) \/ CtxEnds(r)
  PROVE  PlacesOK'
<1>1. \/ Reads(r) \/ DropsPlaces(r) \/ Cuts(r) \/ PutsRows(r) \/ PutsCols(r) \/ PutsSlots(r)
      \/ Creates(r) \/ Inserts(r) \/ Unplaces(r) \/ DropsItem(r) \/ Commits(r) \/ GivesUp(r)
  BY Steps, PlacedFacts
<1>2. CASE Inserts(r) \/ Commits(r) \/ GivesUp(r)
  BY <1>2, PlacesInserts, PlacesCommits, PlacesGivesUp
<1>3. CASE \/ Reads(r) \/ DropsPlaces(r) \/ Cuts(r) \/ PutsRows(r) \/ PutsCols(r) \/ PutsSlots(r)
           \/ Creates(r) \/ Unplaces(r) \/ DropsItem(r)
  <2>1. Steady
    BY <1>3, SteadySteps, PlacedFacts
  <2>2. QED
    BY <1>3, <2>1, PlacesReads, PlacesDropsPlaces, PlacesCuts, PlacesUnplaces, PlacesDropsItem
<1>4. QED
  BY <1>1, <1>2, <1>3

LEMMA PlacedStep ==
  ASSUME Placed, [Next]_vars
  PROVE  Placed'
<1>1. ASSUME NEW r \in Requests, Step(r) \/ CtxEnds(r) PROVE Placed'
  <2>1. ControlOK'
    BY <1>1, PlacedFacts, ControlStep
  <2>2. NamesOK' /\ TablesOK' /\ PlacesOK'
    BY <1>1, NamesStep, TablesStep, PlacesStep
  <2>3. QED
    BY <2>1, <2>2 DEF Placed
<1>2. CASE UNCHANGED vars
  <2>1. ControlOK'
    BY <1>2 DEF vars, Placed, ControlOK, TypesOK, KindOK, ReadOK, CheckedOK, ShelfOwned
  <2>2. NamesOK'
    BY <1>2 DEF vars, Placed, NamesOK
  <2>3. TablesOK'
    BY <1>2 DEF vars, Placed, TablesOK, Writing, WrittenBy, Versions
  <2>4. Steady
    BY <1>2 DEF vars, Steady
  <2>5. PlacesOK'
    BY <1>2, <2>4, PlacesUnchanged DEF vars
  <2>6. QED
    BY <2>1, <2>2, <2>3, <2>5 DEF Placed
<1>3. MayEnd \subseteq Requests
  BY PlacementAssumption
<1>4. QED
  BY <1>1, <1>2, <1>3 DEF Next, Quiet

LEMMA FirstOwner ==
  ASSUME NEW i \in FirstItems
  PROVE  OwnerNamed(i.id) = i.owner
<1>1. (CHOOSE f \in FirstItems : f.id = i.id) = i
  BY FirstAssumption
<1>2. i.id \notin Requests
  BY KindsAssumption
<1>3. QED
  BY <1>1, <1>2 DEF OwnerNamed

(* What is stored at the start is committed. *)
LEMMA FirstVersions ==
  ASSUME Init
  PROVE  TablesOK
<1> DEFINE AllStored(table) == \A v \in table : \E id, val : v = Stored(id, val)
<1>1. ASSUME NEW table, AllStored(table), NEW W
      PROVE  Versions(table) /\ WrittenBy(table, W)
  BY <1>1 DEF Stored, Versions, WrittenBy
<1>2. AllStored(rows) /\ AllStored(cols) /\ AllStored(slots)
  <2>1. ASSUME NEW v \in rows PROVE \E id, val : v = Stored(id, val)
    BY DEF Init
  <2>2. ASSUME NEW v \in cols PROVE \E id, val : v = Stored(id, val)
    BY DEF Init
  <2>3. ASSUME NEW v \in slots PROVE \E id, val : v = Stored(id, val)
    BY DEF Init
  <2>4. QED
    BY <2>1, <2>2, <2>3
<1>3. AllStored(places) /\ AllStored(items)
  BY DEF Init
<1> HIDE DEF AllStored
<1>4. QED
  BY <1>1, <1>2, <1>3 DEF TablesOK

LEMMA PlacedInit ==
  ASSUME Init
  PROVE  Placed
<1>1. /\ \A r \in Requests : pc[r] \in {"start", "done"}
      /\ pc \in [Requests -> {"start", "done"}]
  BY DEF Init
<1>2. ControlOK
  <2>1. TypesOK
    <3>1. Requests \subseteq DOMAIN item
      BY PlacementAssumption DEF Init
    <3>2. QED
      BY <1>1, <3>1 DEF Init, TypesOK, PCs, Ended
  <2>2. \A r \in Requests : KindOK(r) /\ CheckedOK(r) /\ ReadOK(r)
    <3>1. \A r \in Requests : base[r].slots = {}
      BY DEF Init
    <3>2. QED
      BY <1>1, <3>1 DEF KindOK, CheckedOK, ReadOK, LayoutPCs, SavingPCs, PlacingPCs
  <2>3. QED
    BY <2>1, <2>2, KindsOfRequests DEF ControlOK
<1>3. NamesOK
  <2>1. ASSUME NEW s \in slots PROVE s.val.shelf = Home(s.id)
    BY FirstAssumption DEF Init, Stored, Home
  <2>2. ASSUME NEW i \in items PROVE i.val.owner = OwnerNamed(i.id)
    <3>1. PICK f \in FirstItems : i.id = f.id /\ i.val.owner = f.owner
      BY DEF Init, Stored
    <3>2. QED
      BY <3>1, FirstOwner
  <2>3. QED
    BY <2>1, <2>2 DEF NamesOK
<1>4. TablesOK
  BY FirstVersions
<1>5. ASSUME NEW p \in places
      PROVE  /\ p.val \in FirstPlaces /\ p.id = p.val.item /\ p.ins = Nobody
  BY DEF Init, Stored
<1>6. OneKey
  BY <1>5, FirstAssumption DEF OneKey, KeyOK, SameKey
<1>7. Made
  BY <1>1, KindsOfRequests DEF Made
<1>8. ASSUME NEW p \in places PROVE PlaceOK(p)
  <2>1. p.val = [shelf |-> p.val.shelf, item |-> p.val.item, slot |-> p.val.slot]
    BY <1>5, FirstAssumption
  <2>2. PICK i \in FirstItems : i.id = p.val.item /\ i.owner = ShelfOwner[p.val.shelf]
    BY <1>5, FirstAssumption
  <2>3. p.val.item \in IdsOf(items)
    <3>1. Stored(i.id, [owner |-> i.owner, isbn |-> i.isbn]) \in items
      BY DEF Init
    <3>2. QED
      BY <2>2, <3>1 DEF Stored, IdsOf
  <2>4. p.id \notin Requests /\ OwnerNamed(p.val.item) = ShelfOwner[p.val.shelf]
    BY <1>5, <2>2, KindsAssumption, FirstOwner
  <2>5. p.ins \notin Layouts /\ p.ins \notin Placing
    BY <1>5, NobodyIsNoRequest
  <2>6. QED
    BY <2>1, <2>3, <2>4, <2>5 DEF PlaceOK
<1>9. ASSUME NEW p \in places PROVE SlotKept(p)
  <2>1. CASE p.val.slot = NoSlot
    BY <2>1 DEF SlotKept
  <2>2. CASE p.val.slot # NoSlot
    <3>1. p.val.slot \in FirstSlots /\ p.val.slot[1] = p.val.shelf /\ p.val.shelf \in Shelves
      BY <1>5, <2>2, FirstAssumption
    <3>2. \E s \in slots : s.id = p.val.slot /\ s.ins = Nobody /\ s.del = Nobody
      <4> DEFINE s == p.val.slot
      <4>1. Stored(s, [shelf |-> s[1], row |-> <<s[1], s[2][1]>>, col |-> s, cell |-> s[2]])
              \in slots
        BY <3>1 DEF Init
      <4>2. QED
        BY <4>1 DEF Stored
    <3>3. QED
      BY <3>1, <3>2 DEF SlotKept, Home
  <2>3. QED
    BY <2>1, <2>2
<1>10. QED
  BY <1>2, <1>3, <1>4, <1>6, <1>7, <1>8, <1>9 DEF Placed, PlacesOK

(* Placed is an invariant. *)
LEMMA AlwaysPlaced == Spec => []Placed
<1>1. Init => Placed
  BY PlacedInit
<1>2. Placed /\ [Next]_vars => Placed'
  BY PlacedStep
<1>3. QED
  BY <1>1, <1>2, PTL DEF Spec

-----------------------------------------------------------------------------
(***************************************************************************)
(* Every variable has its type, and only requests under way have rows that *)
(* are not committed (the transactions of postgres_repository.go all end   *)
(* in Commit or in the deferred Rollback).                                 *)
(***************************************************************************)
THEOREM PlacementTypes == Spec => []TypeOK
<1>1. ASSUME Placed PROVE TypeOK
  <2>1. TypesOK /\ TablesOK
    BY <1>1, PlacedFacts
  <2>2. \A r \in Requests : pc[r] \in WritingPCs => pc[r] \notin Ended
    BY DEF WritingPCs, SavingPCs, LayoutPCs, Ended
  <2>3. ASSUME NEW table, NEW kind, kind \subseteq Requests, WrittenBy(table, Writing(kind))
        PROVE  OpenOnly(table)
    BY <2>2, <2>3 DEF WrittenBy, Writing, OpenOnly
  <2>4. OpenOnly(items)
    BY <2>1 DEF TablesOK, WrittenBy, OpenOnly
  <2>5. QED
    BY <2>1, <2>3, <2>4, KindsOfRequests DEF TypeOK, TypesOK, TablesOK
<1>2. QED
  BY <1>1, AlwaysPlaced, PTL

(***************************************************************************)
(* A stored placement is of an item the shelf's owner has, once per shelf, *)
(* in a slot of that very shelf or in none, though layouts drop slots and  *)
(* items are deleted while others place them (AssignItemToSlot 212-261,    *)
(* SaveLayout 148-210).                                                    *)
(***************************************************************************)
THEOREM PlacementsStayInOrder == Spec => []PlacementsBelong
<1>1. ASSUME Placed PROVE PlacementsBelong
  <2>1. ASSUME NEW p \in Current(places)
        PROVE  /\ \E i \in Current(items) :
                    i.id = p.val.item /\ i.val.owner = ShelfOwner[p.val.shelf]
               /\ p.val.slot # NoSlot =>
                    \E s \in Current(slots) : s.id = p.val.slot /\ s.val.shelf = p.val.shelf
               /\ \A q \in Current(places) :
                    q.val.item = p.val.item /\ q.val.shelf = p.val.shelf => q.id = p.id
    <3>1. p \in places /\ p.ins = Nobody /\ PlaceOK(p) /\ SlotKept(p)
      BY <1>1, PlacedFacts DEF Current
    <3>2. PICK i \in items : i.id = p.val.item
      BY <3>1 DEF PlaceOK, IdsOf
    <3>3. i.ins = Nobody /\ i.val.owner = OwnerNamed(i.id)
      BY <1>1 DEF Placed, TablesOK, WrittenBy, NamesOK
    <3>4. i \in Current(items) /\ i.val.owner = ShelfOwner[p.val.shelf]
      BY <3>1, <3>2, <3>3 DEF Current, PlaceOK
    <3>5. ASSUME p.val.slot # NoSlot
          PROVE  \E s \in Current(slots) : s.id = p.val.slot /\ s.val.shelf = p.val.shelf
      <4>1. PICK s \in slots : s.id = p.val.slot /\ s.ins = Nobody
        BY <3>1, <3>5 DEF SlotKept
      <4>2. s.val.shelf = Home(s.id) /\ Home(p.val.slot) = p.val.shelf
        BY <1>1, <3>1, <3>5 DEF Placed, NamesOK, SlotKept
      <4>3. QED
        BY <4>1, <4>2 DEF Current
    <3>6. ASSUME NEW q \in Current(places), q.val.item = p.val.item, q.val.shelf = p.val.shelf
          PROVE  q.id = p.id
      <4>1. q \in places /\ q.ins = Nobody /\ KeyOK(p, q)
        BY <1>1, <3>1, <3>6, PlacedFacts DEF Current
      <4>2. QED
        BY <3>1, <3>6, <4>1, NobodyIsNoRequest DEF KeyOK, SameKey, Replaces
    <3>7. QED
      BY <3>2, <3>4, <3>5, <3>6
  <2>2. QED
    BY <2>1 DEF PlacementsBelong
<1>2. QED
  BY <1>1, AlwaysPlaced, PTL

(* A request that has saved has committed its tables. *)
LEMMA SavesCommits ==
  ASSUME Placed, [Next]_vars, NEW r \in Requests, Saves(r)
  PROVE  Commits(r)
<1>1. ~(UNCHANGED vars)
  BY DEF Saves, vars
<1>2. PICK q \in Requests : Step(q) \/ CtxEnds(q)
  BY <1>1, PlacementAssumption DEF Next, Quiet
<1>3. q = r
  BY <1>2, OnlyOne, PlacedFacts DEF Saves
<1>4. QED
  BY <1>2, <1>3, Steps, PlacedFacts
     DEF Saves, Reads, DropsPlaces, Cuts, PutsRows, PutsCols, PutsSlots, Creates, Inserts,
         Unplaces, DropsItem, GivesUp, Goes

(***************************************************************************)
(* When an item has been placed it is in that slot, and in no other slot   *)
(* of the shelf, whatever layouts and placements ran meanwhile             *)
(* (AssignItemToSlot 237-255).                                             *)
(***************************************************************************)
THEOREM ItemsArePlacedWhereAsked == Spec => PlacedWhereAsked
<1>1. ASSUME Placed, [Next]_vars, NEW r \in Placing, Saves(r)
      PROVE  {p.val.slot : p \in {q \in Current(places)' :
                q.val.shelf = ShelfOf[r] /\ q.val.item = item[r]}} = {SlotOf[r]}
  <2>1. r \in Requests /\ r # Nobody /\ pc[r] = "commit" /\ places' = Committed(places, r)
    BY <1>1, KindsOfRequests, SavesCommits, RequestsAreSomebody DEF Saves, Commits, CommitTables
  <2>2. /\ \A w \in places' : \E v \in places : Settled(w, v, r)
        /\ \A v \in places : v.del # r => \E w \in places' : Settled(w, v, r)
    BY <1>1, <2>1, PlacedFacts, CommitLeaves
  <2>3. PICK p \in places : p.id = r /\ p.ins = r
    BY <1>1, <2>1, OwnPlace
  <2>4. \A q \in places : q.id = r =>
          q.val = [shelf |-> ShelfOf[r], item |-> item[r], slot |-> SlotOf[r]]
    BY <1>1, <2>1, PlacedFacts DEF PlaceOK
  <2>5. p.del = Nobody
    BY <1>1, <2>1, <2>3, PlacedFacts DEF WrittenBy
  <2>6. PICK w \in places' : Settled(w, p, r)
    BY <2>1, <2>2, <2>5
  <2>7. /\ w \in Current(places)' /\ w.val.shelf = ShelfOf[r] /\ w.val.item = item[r]
        /\ w.val.slot = SlotOf[r]
    BY <2>3, <2>4, <2>6 DEF Settled, Is, Current
  <2>8. ASSUME NEW x \in Current(places)', x.val.shelf = ShelfOf[r], x.val.item = item[r]
        PROVE  x.val.slot = SlotOf[r]
    <3>1. PICK q \in places : Settled(x, q, r)
      BY <2>2 DEF Current
    <3>2. x.val = q.val /\ q.del # r
      BY <3>1 DEF Settled, Is
    <3>3. SameKey(p, q)
      BY <2>3, <2>4, <2>8, <3>2 DEF SameKey
    <3>4. KeyOK(p, q)
      BY <1>1, PlacedFacts
    <3>5. q.id = r
      BY <2>1, <2>3, <3>2, <3>3, <3>4 DEF KeyOK, Replaces
    <3>6. QED
      BY <2>4, <3>2, <3>5
  <2>9. QED
    BY <2>7, <2>8
<1>2. Placed /\ [Next]_vars =>
        [\A r \in Placing : Saves(r) =>
           {p.val.slot : p \in {q \in Current(places)' :
              q.val.shelf = ShelfOf[r] /\ q.val.item = item[r]}} = {SlotOf[r]}]_vars
  BY <1>1
<1>3. QED
  BY <1>2, AlwaysPlaced, PTL DEF Spec, PlacedWhereAsked

-----------------------------------------------------------------------------
(* What a transaction removes, somebody asked it to. *)

(* A row that a transaction has written has no other versions, but for the one
   it replaces. *)
OneWriter(table) ==
  \A v, w \in table : v.id = w.id /\ v.ins # Nobody =>
    w.ins = v.ins \/ (w.ins = Nobody /\ w.del = v.ins)

(* Every row of a transaction is one of those it saves; and all those are there. *)
Wrote(table, t, new) == \A v \in table : v.ins = t => \E n \in new : n.id = v.id /\ n.val = v.val
Holds(table, t, new) == \A n \in new : \E v \in table : v.id = n.id /\ v.ins = t

(* Where a layout update has saved its columns, and its slots. *)
PastCols  == {"putSlots", "sweepPlaces", "sweepSlots", "sweepCols", "sweepRows", "commit"}
PastSlots == PastCols \ {"putSlots"}

SavesOK(r) ==
  /\ Wrote(cols, r, NewCols(r)) /\ Wrote(slots, r, NewSlots(r))
  /\ pc[r] \in PastCols => Holds(cols, r, NewCols(r))
  /\ pc[r] \in PastSlots => Holds(slots, r, NewSlots(r))

(* Versions of a placement that the same transaction wrote are alike. *)
OneVal == \A v, w \in places : v.id = w.id /\ v.ins = w.ins => v.val = w.val

(* Who removes a placement places its item, or drops its slot. *)
Asked(p) ==
  /\ p.del \in Placing => item[p.del] = p.val.item
  /\ p.del \in Layouts /\ p.val.slot # NoSlot => p.val.slot \notin IdsOf(NewSlots(p.del))

Kept ==
  /\ OneWriter(cols) /\ OneWriter(slots) /\ OneWriter(places) /\ OneVal
  /\ \A r \in Layouts : SavesOK(r)
  /\ \A p \in places : Asked(p)

(* What becomes of a table that a step puts nothing in. *)
Keeps(table, after, t) ==
  \/ after = table
  \/ \E ids : after = Remove(table, t, ids) /\ Writers(table, t, ids) = {}
  \/ after = Committed(table, t)
  \/ after = RolledBack(table, t)

LEMMA RemovedOneWriter ==
  ASSUME NEW table, Versions(table), OneWriter(table), NEW t, NEW ids, Writers(table, t, ids) = {}
  PROVE  OneWriter(Remove(table, t, ids))
<1>1. ASSUME NEW v \in Remove(table, t, ids), NEW w \in Remove(table, t, ids),
             v.id = w.id, v.ins # Nobody
      PROVE  w.ins = v.ins \/ (w.ins = Nobody /\ w.del = v.ins)
  <2>1. PICK p \in table : Left(v, p, t, ids)
    BY RemoveLeaves
  <2>2. PICK q \in table : Left(w, q, t, ids)
    BY RemoveLeaves
  <2>3. p.id = q.id /\ p.ins = v.ins /\ q.ins = w.ins /\ w.del = (IF q.id \in ids THEN t ELSE q.del)
    BY <1>1, <2>1, <2>2 DEF Left, Is
  <2>4. p.id \in ids => p.ins \in {Nobody, t}
    BY WaitsForWriter
  <2>5. q.ins = p.ins \/ (q.ins = Nobody /\ q.del = p.ins)
    BY <1>1, <2>3 DEF OneWriter
  <2>6. QED
    BY <1>1, <2>3, <2>4, <2>5
<1>2. QED
  BY <1>1 DEF OneWriter

LEMMA PutOneWriter ==
  ASSUME NEW table, Versions(table), OneWriter(table), NEW t, NEW new,
         Writers(table, t, IdsOf(new)) = {}
  PROVE  OneWriter(Put(table, t, new))
<1>1. \A v \in table : v.id \in IdsOf(new) => v.ins \in {Nobody, t}
  BY WaitsForWriter
<1>2. ASSUME NEW v \in Put(table, t, new), NEW w \in Put(table, t, new),
             v.id = w.id, v.ins # Nobody
      PROVE  w.ins = v.ins \/ (w.ins = Nobody /\ w.del = v.ins)
  <2>1. \A x \in Put(table, t, new) :
          \/ \E y \in table : Left(x, y, t, IdsOf(new))
          \/ x.id \in IdsOf(new) /\ x.ins = t
    <3>1. \A n \in new : n.id \in IdsOf(new)
      BY DEF IdsOf
    <3>2. \A x \in Put(table, t, new) :
            \/ \E y \in table : Left(x, y, t, IdsOf(new))
            \/ \E n \in new : Written(x, n, t)
      BY PutLeaves
    <3>3. QED
      BY <3>1, <3>2 DEF Written, Is
  <2>2. ASSUME NEW x \in Put(table, t, new), NEW y \in table, Left(x, y, t, IdsOf(new)),
               x.id \in IdsOf(new)
        PROVE  x.ins = Nobody /\ x.del = t
    BY <1>1, <2>2 DEF Left, Is
  <2>3. CASE v.id \notin IdsOf(new)
    <3>1. PICK p \in table : Left(v, p, t, IdsOf(new))
      BY <2>1, <2>3
    <3>2. PICK q \in table : Left(w, q, t, IdsOf(new))
      BY <1>2, <2>1, <2>3
    <3>3. p.id = q.id /\ p.ins = v.ins /\ q.ins = w.ins /\ w.del = q.del
      BY <1>2, <2>3, <3>1, <3>2 DEF Left, Is
    <3>4. QED
      BY <1>2, <3>3 DEF OneWriter
  <2>4. CASE v.id \in IdsOf(new)
    <3>1. v.ins = t
      BY <1>2, <2>1, <2>2, <2>4
    <3>2. w.ins = t \/ (w.ins = Nobody /\ w.del = t)
      BY <1>2, <2>1, <2>2, <2>4
    <3>3. QED
      BY <3>1, <3>2
  <2>5. QED
    BY <2>3, <2>4
<1>3. QED
  BY <1>2 DEF OneWriter

LEMMA KeptOneWriter ==
  ASSUME NEW table, Versions(table), OneWriter(table), NEW t, NEW after, Keeps(table, after, t)
  PROVE  OneWriter(after)
<1>1. CASE \E ids : after = Remove(table, t, ids) /\ Writers(table, t, ids) = {}
  BY <1>1, RemovedOneWriter
<1>2. CASE after = Committed(table, t)
  <2>1. ASSUME NEW v \in after, NEW w \in after, v.id = w.id, v.ins # Nobody
        PROVE  w.ins = v.ins \/ (w.ins = Nobody /\ w.del = v.ins)
    <3>1. PICK p \in table : Settled(v, p, t)
      BY <1>2, CommitLeaves
    <3>2. PICK q \in table : Settled(w, q, t)
      BY <1>2, CommitLeaves
    <3>3. p.id = q.id /\ p.ins = v.ins /\ p.ins # t /\ w.del = q.del
          /\ w.ins = (IF q.ins = t THEN Nobody ELSE q.ins)
      BY <2>1, <3>1, <3>2 DEF Settled, Is
    <3>4. q.ins = p.ins \/ (q.ins = Nobody /\ q.del = p.ins)
      BY <2>1, <3>3 DEF OneWriter
    <3>5. QED
      BY <3>3, <3>4
  <2>2. QED
    BY <2>1 DEF OneWriter
<1>3. CASE after = RolledBack(table, t)
  <2>1. ASSUME NEW v \in after, NEW w \in after, v.id = w.id, v.ins # Nobody
        PROVE  w.ins = v.ins \/ (w.ins = Nobody /\ w.del = v.ins)
    <3>1. PICK p \in table : Undone(v, p, t)
      BY <1>3, RollbackLeaves
    <3>2. PICK q \in table : Undone(w, q, t)
      BY <1>3, RollbackLeaves
    <3>3. p.id = q.id /\ p.ins = v.ins /\ p.ins # t /\ w.ins = q.ins
          /\ w.del = (IF q.del = t THEN Nobody ELSE q.del)
      BY <2>1, <3>1, <3>2 DEF Undone, Is
    <3>4. q.ins = p.ins \/ (q.ins = Nobody /\ q.del = p.ins)
      BY <2>1, <3>3 DEF OneWriter
    <3>5. QED
      BY <3>3, <3>4
  <2>2. QED
    BY <2>1 DEF OneWriter
<1>4. QED
  BY <1>1, <1>2, <1>3 DEF Keeps

(* A step that puts nothing in a table makes no new rows. *)
LEMMA NoNewRows ==
  ASSUME NEW table, Versions(table), NEW t, NEW after, Keeps(table, after, t),
         NEW w \in after, w.ins # Nobody
  PROVE  \E v \in table : v.id = w.id /\ v.val = w.val /\ v.ins = w.ins
<1>1. CASE after = table
  BY <1>1
<1>2. CASE \E ids : after = Remove(table, t, ids)
  <2>1. PICK ids : after = Remove(table, t, ids)
    BY <1>2
  <2>2. PICK v \in table : Left(w, v, t, ids)
    BY <2>1, RemoveLeaves
  <2>3. QED
    BY <2>2 DEF Left, Is
<1>3. CASE after = Committed(table, t)
  <2>1. PICK v \in table : Settled(w, v, t)
    BY <1>3, CommitLeaves
  <2>2. QED
    BY <2>1 DEF Settled, Is
<1>4. CASE after = RolledBack(table, t)
  <2>1. PICK v \in table : Undone(w, v, t)
    BY <1>4, RollbackLeaves
  <2>2. QED
    BY <2>1 DEF Undone, Is
<1>5. QED
  BY <1>1, <1>2, <1>3, <1>4 DEF Keeps

(* A transaction leaves the rows of the others. *)
LEMMA OthersKeep ==
  ASSUME NEW table, Versions(table), NEW W, WrittenBy(table, W), NEW t, t # Nobody, NEW after,
         Keeps(table, after, t) \/ \E new : after = Put(table, t, new),
         NEW q, q # t, q # Nobody, NEW rest
  PROVE  /\ Wrote(table, q, rest) => Wrote(after, q, rest)
         /\ Holds(table, q, rest) => Holds(after, q, rest)
<1>1. ASSUME NEW w \in after, w.ins = q
      PROVE  \E v \in table : v.id = w.id /\ v.val = w.val /\ v.ins = q
  <2>1. CASE Keeps(table, after, t)
    BY <1>1, <2>1, NoNewRows
  <2>2. CASE \E new : after = Put(table, t, new)
    BY <1>1, <2>2, PutLeaves DEF Left, Written, Is
  <2>3. QED
    BY <2>1, <2>2
<1>2. ASSUME NEW v \in table, v.ins = q PROVE \E w \in after : w.id = v.id /\ w.ins = q
  <2>1. v.del = Nobody
    BY <1>2 DEF WrittenBy
  <2>2. CASE after = table
    BY <1>2, <2>2
  <2>3. CASE \E ids : after = Remove(table, t, ids)
    BY <1>2, <2>3, RemoveLeaves DEF Left, Is
  <2>4. CASE after = Committed(table, t)
    BY <1>2, <2>1, <2>4, CommitLeaves DEF Settled, Is
  <2>5. CASE after = RolledBack(table, t)
    BY <1>2, <2>5, RollbackLeaves DEF Undone, Is
  <2>6. CASE \E new : after = Put(table, t, new)
    BY <1>2, <2>6, PutLeaves DEF Left, Is
  <2>7. QED
    BY <2>2, <2>3, <2>4, <2>5, <2>6 DEF Keeps
<1>3. QED
  BY <1>1, <1>2 DEF Wrote, Holds

(* Who is writing keeps what it read, and the item it places. *)
LEMMA WritersKeep ==
  ASSUME Placed, NEW r \in Requests, Step(r) \/ CtxEnds(r),
         NEW q \in Requests, pc[q] \in WritingPCs
  PROVE  item'[q] = item[q] /\ base'[q] = base[q]
<1>1. CASE q = r
  <2>1. ~ReadShelf(r) /\ ~FindByISBN(r) /\ ~CreateItem(r)
    BY <1>1 DEF ReadShelf, FindByISBN, CreateItem, Goto, Finish, WritingPCs, SavingPCs, LayoutPCs
  <2>2. QED
    BY <2>1, ReadsKept
<1>2. CASE q # r
  BY <1>2, OnlyOne, PlacedFacts
<1>3. QED
  BY <1>1, <1>2

LEMMA LayoutKept ==
  ASSUME NEW r, base'[r] = base[r]
  PROVE  NewCols(r)' = NewCols(r) /\ NewSlots(r)' = NewSlots(r)
BY DEF NewCols, NewSlots

(* What each step does to the tables. *)
LEMMA WhatChanges ==
  ASSUME Placed, NEW r \in Requests, Step(r) \/ CtxEnds(r)
  PROVE  /\ Keeps(cols, cols', r) \/ PutsCols(r)
         /\ Keeps(slots, slots', r) \/ PutsSlots(r)
<1>1. CASE Reads(r) \/ DropsPlaces(r) \/ PutsRows(r) \/ Creates(r) \/ Inserts(r) \/ Unplaces(r)
           \/ DropsItem(r)
  BY <1>1 DEF Reads, tables, DropsPlaces, PutsRows, Creates, Inserts, Unplaces, DropsItem, Keeps
<1>2. CASE PutsCols(r) \/ PutsSlots(r)
  BY <1>2 DEF PutsCols, PutsSlots, Keeps
<1>3. CASE Cuts(r)
  BY <1>3, CutTables DEF Cuts, Keeps
<1>4. CASE Commits(r) \/ GivesUp(r)
  BY <1>4 DEF Commits, CommitTables, GivesUp, Abort, Keeps
<1>5. QED
  BY <1>1, <1>2, <1>3, <1>4, Steps, PlacedFacts

LEMMA TablesFacts ==
  ASSUME Placed
  PROVE  /\ Versions(cols) /\ WrittenBy(cols, Writing(Layouts))
         /\ Versions(slots) /\ WrittenBy(slots, Writing(Layouts))
         /\ Versions(places) /\ WrittenBy(places, Writing(Layouts \union Placing))
BY DEF Placed, TablesOK

LEMMA OneWriterStep ==
  ASSUME Placed, OneWriter(cols), OneWriter(slots), NEW r \in Requests, Step(r) \/ CtxEnds(r)
  PROVE  OneWriter(cols') /\ OneWriter(slots')
<1>1. OneWriter(cols')
  <2>1. CASE Keeps(cols, cols', r)
    BY <2>1, KeptOneWriter, TablesFacts
  <2>2. CASE PutsCols(r)
    BY <2>2, PutOneWriter, TablesFacts DEF PutsCols
  <2>3. QED
    BY <2>1, <2>2, WhatChanges
<1>2. OneWriter(slots')
  <2>1. CASE Keeps(slots, slots', r)
    BY <2>1, KeptOneWriter, TablesFacts
  <2>2. CASE PutsSlots(r)
    BY <2>2, PutOneWriter, TablesFacts DEF PutsSlots
  <2>3. QED
    BY <2>1, <2>2, WhatChanges
<1>3. QED
  BY <1>1, <1>2

(* What an update sees of the rows it has saved are the versions it saved. *)
LEMMA SeesItsOwn ==
  ASSUME NEW table, NEW r, r # Nobody, OneWriter(table), NEW new, Wrote(table, r, new),
         Holds(table, r, new), NEW v \in Visible(table, r), v.id \in IdsOf(new)
  PROVE  \E n \in new : n.id = v.id /\ n.val = v.val
<1>1. v \in table /\ v.ins \in {Nobody, r} /\ v.del # r
  BY DEF Visible
<1>2. PICK w \in table : w.id = v.id /\ w.ins = r
  BY DEF Holds, IdsOf
<1>3. v.ins = r
  BY <1>1, <1>2 DEF OneWriter
<1>4. QED
  BY <1>1, <1>3 DEF Wrote

(* A column that is saved is of a saved row, and a slot of a saved row and column. *)
LEMMA SavedTogether ==
  ASSUME NEW r
  PROVE  /\ \A c \in NewCols(r) : c.val.parent \in IdsOf(NewRows(r))
         /\ \A s \in NewSlots(r) : /\ s.val.row \in IdsOf(NewRows(r))
                                   /\ s.val.col \in IdsOf(NewCols(r))
<1> DEFINE rowOf(e) == [id |-> RowId(r, base[r], e.cell[1]),
                        val |-> [shelf |-> ShelfOf[r], row |-> e.cell[1]]]
           colOf(e) == [id |-> ColumnId(r, base[r], e.cell),
                        val |-> [parent |-> RowId(r, base[r], e.cell[1]), col |-> e.cell[2]]]
<1>1. ASSUME NEW e \in Edits(InputOf[r])
      PROVE  /\ RowId(r, base[r], e.cell[1]) \in IdsOf(NewRows(r))
             /\ ColumnId(r, base[r], e.cell) \in IdsOf(NewCols(r))
  <2>1. rowOf(e) \in NewRows(r) /\ rowOf(e).id = RowId(r, base[r], e.cell[1])
    BY DEF NewRows, LayoutRows
  <2>2. colOf(e) \in NewCols(r) /\ colOf(e).id = ColumnId(r, base[r], e.cell)
    BY DEF NewCols, LayoutCols
  <2>3. QED
    BY <2>1, <2>2 DEF IdsOf
<1>2. ASSUME NEW c \in NewCols(r)
      PROVE  \E e \in Edits(InputOf[r]) : c.val.parent = RowId(r, base[r], e.cell[1])
  BY DEF NewCols, LayoutCols
<1>3. ASSUME NEW s \in NewSlots(r)
      PROVE  \E e \in Edits(InputOf[r]) : /\ s.val.row = RowId(r, base[r], e.cell[1])
                                          /\ s.val.col = ColumnId(r, base[r], e.cell)
  BY DEF NewSlots, LayoutSlots
<1>4. QED
  BY <1>1, <1>2, <1>3

(* A deletion with what hangs on it spares what the update saves. *)
LEMMA CutsSpare ==
  ASSUME Placed, OneWriter(cols), OneWriter(slots), NEW r \in Layouts, SavesOK(r),
         NEW a, NEW b, NEW c, Swept(r, a, b, c)
  PROVE  /\ \A id \in ColsUnder(r, a, b) : id \notin IdsOf(NewCols(r))
         /\ \A id \in SlotsUnder(r, a, b, c) : id \notin IdsOf(NewSlots(r))
<1>1. r # Nobody
  BY KindsOfRequests, RequestsAreSomebody
<1>2. CASE pc[r] \in {"dropSlots", "sweepSlots"}
  <2>1. a = {} /\ b = {} /\ c \subseteq IdsOf(Matching(r))
    BY <1>2 DEF Swept
  <2>2. ColsUnder(r, a, b) = {}
    BY <2>1 DEF ColsUnder, IdsOf
  <2>3. SlotsUnder(r, a, b, c) = c
    BY <2>1, <2>2 DEF SlotsUnder, IdsOf
  <2>4. CASE pc[r] = "dropSlots"
    <3>1. Matching(r) = {s \in ShelfSlots(r) : s.id \in Removed(r)}
      BY <2>4 DEF Matching
    <3>2. \A id \in Removed(r) : id \notin IdsOf(NewSlots(r))
      BY DEF Removed, RemovedSlots, NewSlots, IdsOf
    <3>3. QED
      BY <2>1, <2>2, <2>3, <3>1, <3>2 DEF IdsOf
  <2>5. CASE pc[r] = "sweepSlots"
    <3>1. Matching(r) = StraySlots(r)
      BY <2>5 DEF Matching
    <3>2. \A s \in StraySlots(r) : s.id \notin IdsOf(NewSlots(r))
      BY DEF StraySlots
    <3>3. QED
      BY <2>1, <2>2, <2>3, <3>1, <3>2 DEF IdsOf
  <2>6. QED
    BY <1>2, <2>4, <2>5
<1>3. CASE pc[r] \in {"sweepCols", "sweepRows"}
  <2>1. /\ Wrote(cols, r, NewCols(r)) /\ Holds(cols, r, NewCols(r))
        /\ Wrote(slots, r, NewSlots(r)) /\ Holds(slots, r, NewSlots(r))
    BY <1>3 DEF SavesOK, PastCols, PastSlots
  <2>2. c = {}
    BY <1>3 DEF Swept
  <2>3. \A id \in a : id \notin IdsOf(NewRows(r))
    <3>1. pc[r] = "sweepRows" => Matching(r) = {v \in RowsOf(r) : v.id \notin IdsOf(NewRows(r))}
      BY DEF Matching
    <3>2. pc[r] = "sweepCols" => a = {}
      BY DEF Swept
    <3>3. pc[r] = "sweepRows" => a \subseteq IdsOf(Matching(r))
      BY DEF Swept
    <3>4. QED
      BY <1>3, <3>1, <3>2, <3>3 DEF IdsOf
  <2>4. \A id \in b : id \notin IdsOf(NewCols(r))
    <3>1. pc[r] = "sweepCols" => Matching(r) = {x \in ColsOf(r) : x.id \notin IdsOf(NewCols(r))}
      BY DEF Matching
    <3>2. pc[r] = "sweepRows" => b = {}
      BY DEF Swept
    <3>3. pc[r] = "sweepCols" => b \subseteq IdsOf(Matching(r))
      BY DEF Swept
    <3>4. QED
      BY <1>3, <3>1, <3>2, <3>3 DEF IdsOf
  <2>5. ASSUME NEW id \in ColsUnder(r, a, b), id \in IdsOf(NewCols(r)) PROVE FALSE
    <3>1. PICK v \in Visible(cols, r) : v.id = id /\ v.val.parent \in a
      BY <2>4, <2>5 DEF ColsUnder, IdsOf
    <3>2. PICK n \in NewCols(r) : n.val = v.val
      BY <1>1, <2>1, <2>5, <3>1, SeesItsOwn
    <3>3. QED
      BY <2>3, <3>1, <3>2, SavedTogether
  <2>6. ASSUME NEW id \in SlotsUnder(r, a, b, c), id \in IdsOf(NewSlots(r)) PROVE FALSE
    <3>1. PICK v \in Visible(slots, r) :
            v.id = id /\ (v.val.row \in a \/ v.val.col \in ColsUnder(r, a, b))
      BY <2>2, <2>6 DEF SlotsUnder, IdsOf
    <3>2. PICK n \in NewSlots(r) : n.val = v.val
      BY <1>1, <2>1, <2>6, <3>1, SeesItsOwn
    <3>3. QED
      BY <2>3, <2>5, <3>1, <3>2, SavedTogether
  <2>7. QED
    BY <2>5, <2>6
<1>4. QED
  BY <1>2, <1>3 DEF Swept

(* What such a deletion does. *)
LEMMA CutsLeave ==
  ASSUME Placed, OneWriter(cols), OneWriter(slots), NEW r \in Requests, Cuts(r), SavesOK(r)
  PROVE  \E colIds, slotIds :
           /\ cols' = Remove(cols, r, colIds)
           /\ \A id \in colIds : id \notin IdsOf(NewCols(r))
           /\ slots' = Remove(slots, r, slotIds)
           /\ \A id \in slotIds : id \notin IdsOf(NewSlots(r))
           /\ places' = Put(places, r, Emptied(r, slotIds))
           /\ Writers(places, r, IdsOf(PlacesIn(r, slotIds))) = {}
<1>1. PICK a, b, c : Cut(r, a, b, c) /\ CutBlockers(r, a, b, c) = {} /\ Swept(r, a, b, c)
  BY DEF Cuts
<1>2. r \in Layouts
  BY DEF Cuts
<1>3. /\ \A id \in ColsUnder(r, a, b) : id \notin IdsOf(NewCols(r))
      /\ \A id \in SlotsUnder(r, a, b, c) : id \notin IdsOf(NewSlots(r))
  BY <1>1, <1>2, CutsSpare
<1>4. /\ cols' = Remove(cols, r, ColsUnder(r, a, b))
      /\ slots' = Remove(slots, r, SlotsUnder(r, a, b, c))
      /\ places' = Put(places, r, Emptied(r, SlotsUnder(r, a, b, c)))
  BY <1>1 DEF Cut, Emptied
<1>5. Writers(places, r, IdsOf(PlacesIn(r, SlotsUnder(r, a, b, c)))) = {}
  BY <1>1 DEF CutBlockers
<1>6. QED
  BY <1>3, <1>4, <1>5

(* Rows that a removal spares are still there. *)
LEMMA StillHolds ==
  ASSUME NEW table, Versions(table), NEW r, NEW new, Holds(table, r, new),
         NEW ids, \A id \in ids : id \notin IdsOf(new)
  PROVE  Holds(Remove(table, r, ids), r, new)
<1>1. ASSUME NEW n \in new PROVE \E w \in Remove(table, r, ids) : w.id = n.id /\ w.ins = r
  <2>1. PICK v \in table : v.id = n.id /\ v.ins = r
    BY DEF Holds
  <2>2. v.id \notin ids
    BY <2>1 DEF IdsOf
  <2>3. PICK w \in Remove(table, r, ids) : Left(w, v, r, ids)
    BY <2>2, RemoveLeaves
  <2>4. QED
    BY <2>1, <2>3 DEF Left, Is
<1>2. QED
  BY <1>1 DEF Holds

LEMMA OwnSavesStep ==
  ASSUME Placed, OneWriter(cols), OneWriter(slots), NEW r \in Layouts, SavesOK(r),
         Step(r) \/ CtxEnds(r)
  PROVE  SavesOK(r)'
<1>1. /\ r \in Requests /\ r # Nobody
      /\ r \notin Placing /\ r \notin Removes /\ r \notin Deletes
  BY KindsOfRequests, RequestsAreSomebody, KindsDiffer
<1>2. \/ Reads(r) \/ DropsPlaces(r) \/ Cuts(r) \/ PutsRows(r) \/ PutsCols(r) \/ PutsSlots(r)
      \/ Commits(r) \/ GivesUp(r)
  BY <1>1, Steps, PlacedFacts DEF Creates, Inserts, Unplaces, DropsItem
<1>3. CASE pc[r] \notin WritingPCs
  <2>1. (\A v \in cols : v.ins # r) /\ (\A v \in slots : v.ins # r)
    BY <1>1, <1>3, TablesFacts DEF WrittenBy, Writing
  <2>2. ~PutsCols(r) /\ ~PutsSlots(r)
    BY <1>3 DEF PutsCols, PutsSlots, Goes, WritingPCs, SavingPCs, LayoutPCs
  <2>3. (\A v \in cols' : v.ins # r) /\ (\A v \in slots' : v.ins # r)
    BY <1>1, <2>1, <2>2, WhatChanges, NoNewRows, TablesFacts
  <2>4. pc'[r] \notin PastCols /\ pc'[r] \notin PastSlots
    BY <1>2, <1>3
       DEF Reads, DropsPlaces, Cuts, PutsRows, PutsCols, PutsSlots, Commits, GivesUp, Goes,
           WritingPCs, SavingPCs, LayoutPCs, PastCols, PastSlots
  <2>5. QED
    BY <2>3, <2>4 DEF SavesOK, Wrote
<1>4. CASE pc[r] \in WritingPCs
  <2>1. NewCols(r)' = NewCols(r) /\ NewSlots(r)' = NewSlots(r)
    BY <1>1, <1>4, WritersKeep, LayoutKept
  <2>2. Wrote(cols', r, NewCols(r))
    <3>1. CASE Keeps(cols, cols', r)
      BY <1>1, <3>1, NoNewRows, TablesFacts DEF SavesOK, Wrote
    <3>2. CASE PutsCols(r)
      <4>1. \A w \in cols' : \/ \E v \in cols : Left(w, v, r, IdsOf(NewCols(r)))
                             \/ \E n \in NewCols(r) : Written(w, n, r)
        BY <3>2, PutLeaves, TablesFacts DEF PutsCols
      <4>2. QED
        BY <4>1 DEF SavesOK, Wrote, Left, Written, Is
    <3>3. QED
      BY <1>1, <3>1, <3>2, WhatChanges
  <2>3. Wrote(slots', r, NewSlots(r))
    <3>1. CASE Keeps(slots, slots', r)
      BY <1>1, <3>1, NoNewRows, TablesFacts DEF SavesOK, Wrote
    <3>2. CASE PutsSlots(r)
      <4>1. \A w \in slots' : \/ \E v \in slots : Left(w, v, r, IdsOf(NewSlots(r)))
                              \/ \E n \in NewSlots(r) : Written(w, n, r)
        BY <3>2, PutLeaves, TablesFacts DEF PutsSlots
      <4>2. QED
        BY <4>1 DEF SavesOK, Wrote, Left, Written, Is
    <3>3. QED
      BY <1>1, <3>1, <3>2, WhatChanges
  <2>4. /\ pc'[r] \in PastCols => Holds(cols', r, NewCols(r))
        /\ pc'[r] \in PastSlots => Holds(slots', r, NewSlots(r))
    <3>1. CASE Reads(r) \/ DropsPlaces(r)
      <4>1. cols' = cols /\ slots' = slots
        BY <3>1 DEF Reads, DropsPlaces, tables
      <4>2. pc'[r] \in PastSlots => pc[r] \in PastSlots
        BY <3>1 DEF Reads, DropsPlaces, Goes, WritingPCs, SavingPCs, LayoutPCs, PastSlots, PastCols
      <4>3. pc'[r] \in PastCols => pc[r] \in PastCols
        BY <3>1 DEF Reads, DropsPlaces, Goes, WritingPCs, SavingPCs, LayoutPCs, PastSlots, PastCols
      <4>4. QED
        BY <4>1, <4>2, <4>3 DEF SavesOK
    <3>2. CASE Cuts(r)
      <4>1. PICK colIds, slotIds :
              /\ cols' = Remove(cols, r, colIds)
              /\ \A id \in colIds : id \notin IdsOf(NewCols(r))
              /\ slots' = Remove(slots, r, slotIds)
              /\ \A id \in slotIds : id \notin IdsOf(NewSlots(r))
        BY <1>1, <3>2, CutsLeave
      <4>2. pc[r] = "dropSlots" \/ (pc[r] \in PastCols /\ pc[r] \in PastSlots)
        BY <3>2 DEF Cuts, Goes, PastCols, PastSlots
      <4>3. CASE pc[r] = "dropSlots"
        <5>1. pc'[r] = "putRows"
          BY <3>2, <4>3 DEF Cuts
        <5>2. QED
          BY <5>1 DEF PastCols, PastSlots
      <4>4. CASE pc[r] \in PastCols /\ pc[r] \in PastSlots
        BY <4>1, <4>4, StillHolds, TablesFacts DEF SavesOK
      <4>5. QED
        BY <4>2, <4>3, <4>4
    <3>3. CASE PutsRows(r)
      BY <3>3 DEF PutsRows, Goes, PastCols, PastSlots
    <3>4. CASE PutsCols(r)
      <4>1. pc'[r] = "putSlots" /\ cols' = Put(cols, r, NewCols(r))
        BY <3>4 DEF PutsCols, Goes
      <4>2. \A n \in NewCols(r) : \E w \in cols' : Written(w, n, r)
        BY <4>1, PutLeaves, TablesFacts
      <4>3. QED
        BY <4>1, <4>2 DEF PastSlots, Holds, Written, Is
    <3>5. CASE PutsSlots(r)
      <4>1. pc[r] = "putSlots" /\ slots' = Put(slots, r, NewSlots(r)) /\ cols' = cols
        BY <3>5 DEF PutsSlots, Goes
      <4>2. \A n \in NewSlots(r) : \E w \in slots' : Written(w, n, r)
        BY <4>1, PutLeaves, TablesFacts
      <4>3. Holds(cols, r, NewCols(r))
        BY <4>1 DEF SavesOK, PastCols
      <4>4. QED
        BY <4>1, <4>2, <4>3 DEF Holds, Written, Is
    <3>6. CASE Commits(r) \/ GivesUp(r)
      BY <3>6 DEF Commits, GivesUp, Goes, PastCols, PastSlots
    <3>7. QED
      BY <1>2, <3>1, <3>2, <3>3, <3>4, <3>5, <3>6
  <2>5. QED
    BY <2>1, <2>2, <2>3, <2>4 DEF SavesOK
<1>5. QED
  BY <1>3, <1>4

LEMMA SavesOKStep ==
  ASSUME Placed, Kept, NEW r \in Requests, Step(r) \/ CtxEnds(r), NEW q \in Layouts
  PROVE  SavesOK(q)'
<1>1. /\ q \in Requests /\ q # Nobody /\ r # Nobody
      /\ SavesOK(q) /\ OneWriter(cols) /\ OneWriter(slots)
  BY KindsOfRequests, RequestsAreSomebody DEF Kept
<1>2. CASE q = r
  BY <1>1, <1>2, OwnSavesStep
<1>3. CASE q # r
  <2>1. pc'[q] = pc[q] /\ NewCols(q)' = NewCols(q) /\ NewSlots(q)' = NewSlots(q)
    BY <1>1, <1>3, OnlyOne, LayoutKept, PlacedFacts
  <2>2. /\ Keeps(cols, cols', r) \/ \E new : cols' = Put(cols, r, new)
        /\ Keeps(slots, slots', r) \/ \E new : slots' = Put(slots, r, new)
    BY WhatChanges DEF PutsCols, PutsSlots
  <2>3. /\ Wrote(cols, q, NewCols(q)) => Wrote(cols', q, NewCols(q))
        /\ Holds(cols, q, NewCols(q)) => Holds(cols', q, NewCols(q))
    BY <1>1, <1>3, <2>2, OthersKeep, TablesFacts
  <2>4. /\ Wrote(slots, q, NewSlots(q)) => Wrote(slots', q, NewSlots(q))
        /\ Holds(slots, q, NewSlots(q)) => Holds(slots', q, NewSlots(q))
    BY <1>1, <1>3, <2>2, OthersKeep, TablesFacts
  <2>5. QED
    BY <1>1, <2>1, <2>3, <2>4 DEF SavesOK
<1>4. QED
  BY <1>2, <1>3

-----------------------------------------------------------------------------
(* The placements, as Kept says of them, after a step. *)

(* What becomes of the placements of slots that go: each keeps its value, or
   has lost its slot in a version of the update. *)
LEMMA CutsEmpty ==
  ASSUME Placed, Kept, NEW r \in Requests, Cuts(r)
  PROVE  \E slotIds, gone :
           /\ \A id \in slotIds : id \notin IdsOf(NewSlots(r))
           /\ gone = IdsOf(PlacesIn(r, slotIds))
           /\ Writers(places, r, gone) = {}
           /\ \A w \in places' :
                \/ \E v \in places : Left(w, v, r, gone)
                \/ \E v \in places : /\ v.id \in gone /\ w.id = v.id /\ w.val = Slotless(v.val)
                                     /\ w.ins = r /\ w.del = Nobody
           /\ \A v \in places : ~(v.id \in gone /\ v.ins = r) =>
                \E w \in places' : Left(w, v, r, gone)
<1>1. SavesOK(r) /\ OneWriter(cols) /\ OneWriter(slots)
  BY DEF Kept, Cuts
<1>2. PICK slotIds :
        /\ \A id \in slotIds : id \notin IdsOf(NewSlots(r))
        /\ places' = Put(places, r, Emptied(r, slotIds))
        /\ Writers(places, r, IdsOf(PlacesIn(r, slotIds))) = {}
  BY <1>1, CutsLeave
<1> DEFINE gone == IdsOf(PlacesIn(r, slotIds))
<1>3. \A p \in PlacesIn(r, slotIds) : p \in places /\ p.id \in gone
  BY DEF PlacesIn, Visible, IdsOf
<1>4. /\ IdsOf(Emptied(r, slotIds)) = gone
      /\ \A n \in Emptied(r, slotIds) : \E p \in PlacesIn(r, slotIds) :
           n.id = p.id /\ n.val = Slotless(p.val)
  BY PlacedFacts, EmptiedIds
<1>5. Writers(places, r, gone) = {}
  BY <1>2
<1> HIDE DEF gone
<1>6. /\ \A w \in places' :
           \/ \E v \in places : Left(w, v, r, gone)
           \/ \E n \in Emptied(r, slotIds) : Written(w, n, r)
      /\ \A v \in places : ~(v.id \in gone /\ v.ins = r) => \E w \in places' : Left(w, v, r, gone)
  BY <1>2, <1>4, PlacedFacts, PutLeaves
<1>7. ASSUME NEW w \in places'
      PROVE  \/ \E v \in places : Left(w, v, r, gone)
             \/ \E v \in places : /\ v.id \in gone /\ w.id = v.id /\ w.val = Slotless(v.val)
                                  /\ w.ins = r /\ w.del = Nobody
  BY <1>3, <1>4, <1>6 DEF Written, Is
<1>8. gone = IdsOf(PlacesIn(r, slotIds))
  BY DEF gone
<1>9. QED
  BY <1>2, <1>5, <1>6, <1>7, <1>8

(* The placements after steps that put none in. *)
LEMMA PlacesKept ==
  ASSUME NEW r,
         Reads(r) \/ DropsPlaces(r) \/ PutsRows(r) \/ PutsCols(r) \/ PutsSlots(r) \/ Creates(r)
           \/ Commits(r) \/ GivesUp(r)
  PROVE  Keeps(places, places', r)
BY DEF Reads, tables, DropsPlaces, PutsRows, PutsCols, PutsSlots, Creates, Commits, CommitTables,
       GivesUp, Abort, Keeps

LEMMA PlacesOneWriter ==
  ASSUME Placed, Kept, NEW r \in Requests, Step(r) \/ CtxEnds(r)
  PROVE  OneWriter(places')
<1>1. OneWriter(places) /\ Versions(places)
  BY TablesFacts DEF Kept
<1>2. CASE Keeps(places, places', r)
  BY <1>1, <1>2, KeptOneWriter
<1>3. CASE Cuts(r)
  <2>1. PICK ids : places' = Put(places, r, Emptied(r, ids))
                   /\ Writers(places, r, IdsOf(PlacesIn(r, ids))) = {}
    BY <1>3, CutsLeave DEF Kept, Cuts
  <2>2. IdsOf(Emptied(r, ids)) = IdsOf(PlacesIn(r, ids))
    BY <1>1, EmptiedIds
  <2>3. QED
    BY <1>1, <2>1, <2>2, PutOneWriter
<1>4. CASE Inserts(r)
  <2>1. \A v \in places : v.id # r
    BY <1>4, NothingInserted DEF Placed, Inserts, Goes
  <2>2. /\ \A w \in places' : (\E v \in places : Is(w, v, v.ins, v.del))
                               \/ Is(w, NewPlace(r), r, Nobody)
        /\ NewPlace(r).id = r
    BY <1>4, InsertLeaves DEF NewPlace
  <2>3. \A w \in places' : \/ \E v \in places : w.id = v.id /\ w.ins = v.ins /\ w.del = v.del
                           \/ w.id = r /\ w.ins = r
    BY <2>2 DEF Is
  <2>4. QED
    BY <1>1, <2>1, <2>3 DEF OneWriter
<1>5. CASE Unplaces(r)
  <2>1. PICK ids : places' = Unplaced(ids)
    BY <1>5 DEF Unplaces, Unplaced
  <2>2. \A w \in places' : \E v \in places : w.id = v.id /\ w.ins = v.ins /\ w.del = v.del
    BY <1>1, <2>1, UnplacedLeaves DEF Is
  <2>3. QED
    BY <1>1, <2>2 DEF OneWriter
<1>6. CASE DropsItem(r)
  BY <1>1, <1>6 DEF DropsItem, OneWriter
<1>7. QED
  BY <1>2, <1>3, <1>4, <1>5, <1>6, PlacesKept, Steps, PlacedFacts

(* Values without a slot are alike when the item and the shelf are. *)
LEMMA SlotlessAlike ==
  ASSUME Placed, NEW p \in places, NEW q \in places, p.id = q.id
  PROVE  Slotless(p.val) = Slotless(q.val)
<1>1. SameKey(p, q)
  BY PlacedFacts DEF KeyOK
<1>2. /\ p.val = [shelf |-> p.val.shelf, item |-> p.val.item, slot |-> p.val.slot]
      /\ q.val = [shelf |-> q.val.shelf, item |-> q.val.item, slot |-> q.val.slot]
  BY PlacedFacts DEF PlaceOK
<1>3. /\ Slotless(p.val) = [shelf |-> p.val.shelf, item |-> p.val.item, slot |-> NoSlot]
      /\ Slotless(q.val) = [shelf |-> q.val.shelf, item |-> q.val.item, slot |-> NoSlot]
  BY <1>2, SlotlessIs
<1>4. QED
  BY <1>1, <1>3 DEF SameKey

LEMMA OneValStep ==
  ASSUME Placed, Kept, NEW r \in Requests, Step(r) \/ CtxEnds(r)
  PROVE  OneVal'
<1>1. ASSUME NEW p \in places, NEW q \in places, p.id = q.id, p.ins = q.ins PROVE p.val = q.val
  BY <1>1 DEF Kept, OneVal
<1>2. \A p, q \in places : p.id = q.id /\ p.ins # Nobody =>
        q.ins = p.ins \/ (q.ins = Nobody /\ q.del = p.ins)
  BY DEF Kept, OneWriter
<1>3. CASE Reads(r) \/ PutsRows(r) \/ PutsCols(r) \/ PutsSlots(r) \/ Creates(r) \/ DropsItem(r)
  <2>1. places' \subseteq places
    BY <1>3 DEF Reads, tables, PutsRows, PutsCols, PutsSlots, Creates, DropsItem
  <2>2. QED
    BY <1>1, <2>1 DEF OneVal
<1>4. CASE DropsPlaces(r) \/ GivesUp(r)
  <2>1. (\E ids : places' = Remove(places, r, ids)) \/ places' = RolledBack(places, r)
    BY <1>4 DEF DropsPlaces, GivesUp, Abort
  <2>2. \A w \in places' : \E v \in places : w.id = v.id /\ w.val = v.val /\ w.ins = v.ins
    BY <2>1, PlacedFacts, RemoveLeaves, RollbackLeaves DEF Left, Undone, Is
  <2>3. QED
    BY <1>1, <2>2 DEF OneVal
<1>5. CASE Cuts(r)
  <2>1. PICK gone :
          \A w \in places' :
            \/ \E v \in places : Left(w, v, r, gone)
            \/ \E v \in places : /\ v.id \in gone /\ w.id = v.id /\ w.val = Slotless(v.val)
                                 /\ w.ins = r
    BY <1>5, CutsEmpty
  <2>2. ASSUME NEW v \in places', NEW w \in places', v.id = w.id, v.ins = w.ins
        PROVE  v.val = w.val
    <3>1. CASE v.id \in gone /\ v.ins = r
      BY <2>1, <2>2, <3>1, SlotlessAlike DEF Left, Is
    <3>2. CASE ~(v.id \in gone /\ v.ins = r)
      <4>1. PICK p \in places : Left(v, p, r, gone)
        BY <2>1, <3>2
      <4>2. PICK q \in places : Left(w, q, r, gone)
        BY <2>1, <2>2, <3>2
      <4>3. QED
        BY <1>1, <2>2, <4>1, <4>2 DEF Left, Is
    <3>3. QED
      BY <3>1, <3>2
  <2>3. QED
    BY <2>2 DEF OneVal
<1>6. CASE Inserts(r)
  <2>1. \A v \in places : v.id # r
    BY <1>6, NothingInserted DEF Placed, Inserts, Goes
  <2>2. /\ \A w \in places' : (\E v \in places : Is(w, v, v.ins, v.del))
                               \/ Is(w, NewPlace(r), r, Nobody)
        /\ NewPlace(r).id = r
    BY <1>6, InsertLeaves DEF NewPlace
  <2>3. \A w \in places' : \/ \E v \in places : w.id = v.id /\ w.val = v.val /\ w.ins = v.ins
                           \/ w.id = r /\ w.val = NewPlace(r).val
    BY <2>2 DEF Is
  <2>4. QED
    BY <1>1, <2>1, <2>3 DEF OneVal
<1>7. CASE Unplaces(r)
  <2>1. PICK ids : places' = Unplaced(ids)
    BY <1>7 DEF Unplaces, Unplaced
  <2>2. \A w \in places' : \E v \in places :
          /\ w.id = v.id /\ w.ins = v.ins
          /\ w.val = (IF v.id \in ids THEN Slotless(v.val) ELSE v.val)
    BY <2>1, PlacedFacts, UnplacedLeaves DEF Is
  <2>3. QED
    BY <1>1, <2>2 DEF OneVal
<1>8. CASE Commits(r)
  <2>1. ASSUME NEW v \in places', NEW w \in places', v.id = w.id, v.ins = w.ins
        PROVE  v.val = w.val
    <3>1. \A x \in places' : \E y \in places : Settled(x, y, r)
      BY <1>8, PlacedFacts, CommitLeaves DEF Commits, CommitTables
    <3>2. PICK p \in places : Settled(v, p, r)
      BY <3>1
    <3>3. PICK q \in places : Settled(w, q, r)
      BY <3>1
    <3>4. /\ v.val = p.val /\ w.val = q.val /\ p.id = q.id /\ p.del # r /\ q.del # r
          /\ (IF p.ins = r THEN Nobody ELSE p.ins) = (IF q.ins = r THEN Nobody ELSE q.ins)
      BY <2>1, <3>2, <3>3 DEF Settled, Is
    <3>5. p.ins = q.ins
      BY <1>2, <3>4, RequestsAreSomebody
    <3>6. QED
      BY <1>1, <3>4, <3>5
  <2>2. QED
    BY <2>1 DEF OneVal
<1>9. QED
  BY <1>3, <1>4, <1>5, <1>6, <1>7, <1>8, Steps, PlacedFacts

(* A version that is removed by whom it was, or by nobody. *)
LEMMA AskedStays ==
  ASSUME Placed, NEW r \in Requests, Step(r) \/ CtxEnds(r), NEW p \in places, Asked(p),
         NEW w, w.del \in {p.del, Nobody},
         w.val = p.val \/ (w.val.item = p.val.item /\ w.val.slot = NoSlot)
  PROVE  Asked(w)'
<1>1. ASSUME w.del \in Placing PROVE item'[w.del] = w.val.item
  <2>1. w.del = p.del /\ w.del \in Requests /\ pc[w.del] \in WritingPCs
    BY <1>1, TablesFacts, NobodyIsNoRequest, KindsOfRequests DEF WrittenBy, Writing
  <2>2. item'[w.del] = item[w.del]
    BY <2>1, WritersKeep
  <2>3. QED
    BY <1>1, <2>1, <2>2 DEF Asked
<1>2. ASSUME w.del \in Layouts, w.val.slot # NoSlot
      PROVE  w.val.slot \notin IdsOf(NewSlots(w.del)')
  <2>1. w.del = p.del /\ w.del \in Requests /\ pc[w.del] \in WritingPCs
    BY <1>2, TablesFacts, NobodyIsNoRequest, KindsOfRequests DEF WrittenBy, Writing
  <2>2. NewSlots(w.del)' = NewSlots(w.del)
    BY <2>1, WritersKeep, LayoutKept
  <2>3. QED
    BY <1>2, <2>1, <2>2 DEF Asked
<1>3. QED
  BY <1>1, <1>2 DEF Asked, IdsOf

(* A version that a transaction newly removes is the one it sees. *)
LEMMA SeesWhatItRemoves ==
  ASSUME Kept, NEW r, r # Nobody, NEW p \in places, p.ins # r, p.del # r, Waited(p, r),
         NEW q \in Visible(places, r), q.id = p.id
  PROVE  q.val = p.val
<1>1. q \in places /\ q.ins \in {Nobody, r} /\ p.ins = Nobody
  BY DEF Visible, Waited
<1>2. q.ins = Nobody
  BY <1>1 DEF Kept, OneWriter
<1>3. QED
  BY <1>1, <1>2 DEF Kept, OneVal

(* The new removals of a step are asked for, when r sees nothing else there. *)
LEMMA AskedRemoved ==
  ASSUME Placed, Kept, NEW r \in Requests, Step(r) \/ CtxEnds(r),
         item'[r] = item[r], base'[r] = base[r], NEW ids, Writers(places, r, ids) = {},
         \A id \in ids : \E q \in Visible(places, r) :
           /\ q.id = id
           /\ r \in Placing => q.val.item = item[r]
           /\ r \in Layouts /\ q.val.slot # NoSlot => q.val.slot \notin IdsOf(NewSlots(r)),
         NEW p \in places, NEW w, Left(w, p, r, ids)
  PROVE  Asked(w)'
<1>1. w.val = p.val /\ w.del = (IF p.id \in ids THEN r ELSE p.del) /\ ~(p.id \in ids /\ p.ins = r)
  BY DEF Left, Is
<1>2. Asked(p) /\ r # Nobody
  BY RequestsAreSomebody DEF Kept
<1>3. CASE w.del = p.del
  BY <1>1, <1>2, <1>3, AskedStays
<1>4. CASE w.del # p.del
  <2>1. p.id \in ids /\ p.del # r /\ p.ins # r /\ w.del = r
    BY <1>1, <1>4
  <2>2. Waited(p, r)
    BY <2>1, WaitsForWriter DEF Waited
  <2>3. PICK q \in Visible(places, r) :
          /\ q.id = p.id
          /\ r \in Placing => q.val.item = item[r]
          /\ r \in Layouts /\ q.val.slot # NoSlot => q.val.slot \notin IdsOf(NewSlots(r))
    BY <2>1
  <2>4. q.val = p.val
    BY <1>2, <2>1, <2>2, <2>3, SeesWhatItRemoves
  <2>5. NewSlots(r)' = NewSlots(r)
    BY LayoutKept
  <2>6. QED
    BY <1>1, <2>1, <2>3, <2>4, <2>5 DEF Asked, IdsOf
<1>5. QED
  BY <1>3, <1>4

LEMMA AskedStep ==
  ASSUME Placed, Kept, NEW r \in Requests, Step(r) \/ CtxEnds(r), NEW w \in places'
  PROVE  Asked(w)'
<1>1. \A p \in places : Asked(p)
  BY DEF Kept
<1>2. ASSUME w.del = Nobody PROVE Asked(w)'
  BY <1>2, NobodyIsNoRequest DEF Asked
<1>3. CASE Reads(r) \/ PutsRows(r) \/ PutsCols(r) \/ PutsSlots(r) \/ Creates(r) \/ DropsItem(r)
  <2>1. w \in places
    BY <1>3 DEF Reads, tables, PutsRows, PutsCols, PutsSlots, Creates, DropsItem
  <2>2. QED
    BY <1>1, <2>1, AskedStays
<1>4. CASE DropsPlaces(r)
  <2>1. PICK ids \in SUBSET IdsOf(Matching(r)) :
          places' = Remove(places, r, ids) /\ Writers(places, r, ids) = {}
    BY <1>4 DEF DropsPlaces
  <2>2. pc[r] \in {"dropPlaces", "sweepPlaces", "clear"}
    BY <1>4 DEF DropsPlaces, Goes
  <2>3. pc[r] \in {"dropPlaces", "sweepPlaces"} => r \notin Placing
    BY <2>2, PlacedFacts, KindsDiffer DEF ControlOK, KindOK, LayoutPCs
  <2>4. pc[r] = "clear" => r \notin Layouts
    BY <2>2, PlacedFacts, KindsDiffer DEF ControlOK, KindOK, PlacingPCs
  <2>5. ASSUME NEW q \in Matching(r)
        PROVE  /\ q \in Visible(places, r)
               /\ r \in Placing => q.val.item = item[r]
               /\ r \in Layouts /\ q.val.slot # NoSlot => q.val.slot \notin IdsOf(NewSlots(r))
    <3>1. CASE pc[r] = "dropPlaces"
      <4>1. q \in ShelfPlaces(r) /\ q.val.slot \in Removed(r)
        BY <2>5, <3>1 DEF Matching
      <4>2. q.val.slot \notin IdsOf(NewSlots(r))
        BY <4>1 DEF Removed, RemovedSlots, NewSlots, IdsOf
      <4>3. QED
        BY <2>3, <3>1, <4>1, <4>2 DEF ShelfPlaces
    <3>2. CASE pc[r] = "sweepPlaces"
      <4>1. q \in ShelfPlaces(r) /\ q.val.slot \notin IdsOf(NewSlots(r)) \union {NoSlot}
        BY <2>5, <3>2 DEF Matching
      <4>2. QED
        BY <2>3, <3>2, <4>1 DEF ShelfPlaces
    <3>3. CASE pc[r] = "clear"
      <4>1. q \in ItemPlaces(r)
        BY <2>5, <3>3 DEF Matching
      <4>2. QED
        BY <2>4, <3>3, <4>1 DEF ItemPlaces
    <3>4. QED
      BY <2>2, <3>1, <3>2, <3>3
  <2>6. \A id \in ids : \E q \in Visible(places, r) :
          /\ q.id = id
          /\ r \in Placing => q.val.item = item[r]
          /\ r \in Layouts /\ q.val.slot # NoSlot => q.val.slot \notin IdsOf(NewSlots(r))
    BY <2>1, <2>5 DEF IdsOf
  <2>7. PICK p \in places : Left(w, p, r, ids)
    BY <2>1, PlacedFacts, RemoveLeaves
  <2>8. item'[r] = item[r] /\ base'[r] = base[r]
    <3>1. ~ReadShelf(r) /\ ~FindByISBN(r) /\ ~CreateItem(r)
      BY <2>2 DEF ReadShelf, FindByISBN, CreateItem, Goto, Finish
    <3>2. QED
      BY <3>1, ReadsKept
  <2>9. QED
    BY <2>1, <2>6, <2>7, <2>8, AskedRemoved
<1>5. CASE Cuts(r)
  <2>1. PICK slotIds, gone :
          /\ \A id \in slotIds : id \notin IdsOf(NewSlots(r))
          /\ gone = IdsOf(PlacesIn(r, slotIds))
          /\ Writers(places, r, gone) = {}
          /\ \A x \in places' :
               \/ \E v \in places : Left(x, v, r, gone)
               \/ \E v \in places : /\ v.id \in gone /\ x.id = v.id /\ x.val = Slotless(v.val)
                                    /\ x.ins = r /\ x.del = Nobody
    BY <1>5, CutsEmpty
  <2>2. CASE w.del = Nobody
    BY <1>2, <2>2
  <2>3. CASE w.del # Nobody
    <3>1. PICK p \in places : Left(w, p, r, gone)
      BY <2>1, <2>3
    <3>2. r \in Layouts /\ r \notin Placing /\ pc[r] \in WritingPCs
      BY <1>5, KindsDiffer DEF Cuts, Goes, WritingPCs, SavingPCs, LayoutPCs
    <3>3. \A id \in gone : \E q \in Visible(places, r) :
            q.id = id /\ q.val.slot \notin IdsOf(NewSlots(r))
      BY <2>1 DEF PlacesIn, IdsOf
    <3>4. item'[r] = item[r] /\ base'[r] = base[r]
      BY <3>2, WritersKeep
    <3>5. QED
      BY <2>1, <3>1, <3>2, <3>3, <3>4, AskedRemoved
  <2>4. QED
    BY <2>2, <2>3
<1>6. CASE Inserts(r)
  <2>1. (\E v \in places : Is(w, v, v.ins, v.del)) \/ Is(w, NewPlace(r), r, Nobody)
    BY <1>6, InsertLeaves
  <2>2. QED
    BY <1>1, <1>2, <2>1, AskedStays DEF Is
<1>7. CASE Unplaces(r)
  <2>1. PICK ids : places' = Unplaced(ids)
    BY <1>7 DEF Unplaces, Unplaced
  <2>2. PICK v \in places : w.del = v.del /\ (w.val = v.val \/ w.val = Slotless(v.val))
    BY <2>1, PlacedFacts, UnplacedLeaves DEF Is
  <2>3. Slotless(v.val).item = v.val.item /\ Slotless(v.val).slot = NoSlot
    BY PlacedFacts, SlotlessIs DEF PlaceOK
  <2>4. QED
    BY <1>1, <2>2, <2>3, AskedStays
<1>8. CASE Commits(r)
  <2>1. PICK v \in places : Settled(w, v, r)
    BY <1>8, PlacedFacts, CommitLeaves DEF Commits, CommitTables
  <2>2. QED
    BY <1>1, <2>1, AskedStays DEF Settled, Is
<1>9. CASE GivesUp(r)
  <2>1. PICK v \in places : Undone(w, v, r)
    BY <1>9, PlacedFacts, RollbackLeaves DEF GivesUp, Abort
  <2>2. QED
    BY <1>1, <2>1, AskedStays DEF Undone, Is
<1>10. QED
  BY <1>3, <1>4, <1>5, <1>6, <1>7, <1>8, <1>9, Steps, PlacedFacts

LEMMA KeptStep ==
  ASSUME Placed, Kept, [Next]_vars
  PROVE  Kept'
<1>1. ASSUME NEW r \in Requests, Step(r) \/ CtxEnds(r) PROVE Kept'
  <2>1. OneWriter(cols') /\ OneWriter(slots')
    BY <1>1, OneWriterStep DEF Kept
  <2>2. OneWriter(places') /\ OneVal'
    BY <1>1, PlacesOneWriter, OneValStep
  <2>3. \A q \in Layouts : SavesOK(q)'
    BY <1>1, SavesOKStep
  <2>4. \A w \in places' : Asked(w)'
    BY <1>1, AskedStep
  <2>5. OneWriter(cols)' /\ OneWriter(slots)' /\ OneWriter(places)'
    BY <2>1, <2>2 DEF OneWriter
  <2>6. QED
    BY <2>2, <2>3, <2>4, <2>5 DEF Kept
<1>2. CASE UNCHANGED vars
  <2>1. /\ OneWriter(cols)' = OneWriter(cols) /\ OneWriter(slots)' = OneWriter(slots)
        /\ OneWriter(places)' = OneWriter(places) /\ OneVal' = OneVal
    BY <1>2 DEF vars, OneWriter, OneVal
  <2>2. \A r \in Layouts : NewCols(r)' = NewCols(r) /\ NewSlots(r)' = NewSlots(r)
    BY <1>2, LayoutKept DEF vars
  <2>3. \A r \in Layouts : SavesOK(r)'
    BY <1>2, <2>2 DEF vars, Kept, SavesOK
  <2>4. \A p \in places' : Asked(p)'
    BY <1>2, <2>2 DEF vars, Kept, Asked, IdsOf
  <2>5. QED
    BY <2>1, <2>3, <2>4 DEF Kept
<1>3. MayEnd \subseteq Requests
  BY PlacementAssumption
<1>4. QED
  BY <1>1, <1>2, <1>3 DEF Next, Quiet

LEMMA KeptInit ==
  ASSUME Init
  PROVE  Kept
<1>1. /\ \A v \in cols : v.ins = Nobody
      /\ \A v \in slots : v.ins = Nobody
      /\ \A v \in places : v.ins = Nobody /\ v.del = Nobody /\ v.val \in FirstPlaces
                           /\ v.id = v.val.item
  BY DEF Init, Stored
<1>2. OneWriter(cols) /\ OneWriter(slots) /\ OneWriter(places)
  BY <1>1 DEF OneWriter
<1>3. OneVal
  BY <1>1, FirstAssumption DEF OneVal
<1>4. ASSUME NEW r \in Layouts PROVE SavesOK(r)
  <2>1. r # Nobody /\ pc[r] \in {"start", "done"}
    BY KindsOfRequests, RequestsAreSomebody DEF Init
  <2>2. QED
    BY <1>1, <2>1 DEF SavesOK, Wrote, PastCols, PastSlots
<1>5. \A p \in places : Asked(p)
  BY <1>1, NobodyIsNoRequest DEF Asked
<1>6. QED
  BY <1>2, <1>3, <1>4, <1>5 DEF Kept

(* Kept is an invariant. *)
LEMMA AlwaysKept == Spec => [](Placed /\ Kept)
<1>1. Init => Placed /\ Kept
  BY PlacedInit, KeptInit
<1>2. Placed /\ Kept /\ [Next]_vars => (Placed /\ Kept)'
  BY PlacedStep, KeptStep
<1>3. QED
  BY <1>1, <1>2, PTL DEF Spec

(***************************************************************************)
(* An item leaves its slot only by what somebody asked: it is placed       *)
(* elsewhere, taken out, deleted, or its slot is dropped.  Saving a layout *)
(* deletes rows and columns that kept slots hung on, and still takes no    *)
(* item out of a slot it keeps (SaveLayout 185-205).                       *)
(***************************************************************************)
THEOREM ItemsLeaveWhenAsked == Spec => ItemsStayPut
<1> DEFINE gone(p) == p.val.slot # NoSlot /\ (\A q \in Current(places)' : q.val # p.val)
           asked(p) ==
             \E r \in Requests :
               /\ pc[r] \notin Ended /\ pc'[r] = "done"
               /\ \/ r \in Placing /\ item[r] = p.val.item
                  \/ r \in Removes \union Deletes /\ ItemOf[r] = p.val.item
                  \/ r \in Layouts /\ p.val.slot \notin IdsOf(NewSlots(r))
<1>1. ASSUME Placed, Kept, [Next]_vars, NEW p \in Current(places), gone(p)
      PROVE  asked(p)
  <2>1. p \in places /\ p.ins = Nobody /\ p.val.slot # NoSlot
    BY <1>1 DEF Current
  <2>2. ASSUME NEW w \in places', w.ins = Nobody, w.val = p.val PROVE FALSE
    BY <1>1, <2>2 DEF Current
  <2>3. ~(UNCHANGED vars)
    BY <2>1, <2>2 DEF vars
  <2>4. PICK r \in Requests : Step(r) \/ CtxEnds(r)
    BY <1>1, <2>3, PlacementAssumption DEF Next, Quiet
  <2>5. r # Nobody /\ Versions(places)
    BY <1>1, RequestsAreSomebody, PlacedFacts
  <2>6. ~(Reads(r) \/ PutsRows(r) \/ PutsCols(r) \/ PutsSlots(r) \/ Creates(r))
    BY <2>1, <2>2 DEF Reads, tables, PutsRows, PutsCols, PutsSlots, Creates
  <2>7. ~DropsPlaces(r)
    BY <2>1, <2>2, <2>5, RemoveLeaves DEF DropsPlaces, Left, Is
  <2>8. ~Cuts(r)
    BY <1>1, <2>1, <2>2, <2>5, CutsEmpty DEF Left, Is
  <2>9. ~Inserts(r)
    BY <1>1, <2>1, <2>2, InsertLeaves DEF Is
  <2>10. ~GivesUp(r)
    BY <2>1, <2>2, <2>5, RollbackLeaves DEF GivesUp, Abort, Undone, Is
  <2>11. CASE Unplaces(r)
    <3>1. PICK ids \in SUBSET IdsOf(Matching(r)) :
            (ids # {} => pc'[r] = "done") /\ places' = Unplaced(ids)
      BY <2>11 DEF Unplaces, Unplaced
    <3>2. r \in Removes /\ pc[r] = "unplace"
      BY <2>11 DEF Unplaces, Goes
    <3>3. p.id \in ids
      BY <2>1, <2>2, <2>5, <3>1, UnplacedLeaves DEF Is
    <3>4. PICK q \in Matching(r) : q.id = p.id
      BY <3>1, <3>3 DEF IdsOf
    <3>5. q \in ShelfPlaces(r) /\ q.val.item = ItemOf[r]
      BY <3>2, <3>4 DEF Matching
    <3>6. q \in places
      BY <3>5 DEF ShelfPlaces, Visible
    <3>7. p.val.item = ItemOf[r]
      BY <1>1, <2>1, <3>4, <3>5, <3>6, PlacedFacts DEF KeyOK, SameKey
    <3>8. pc'[r] = "done" /\ pc[r] \notin Ended
      BY <3>1, <3>2, <3>3 DEF Ended
    <3>9. QED
      BY <3>2, <3>7, <3>8
  <2>12. CASE DropsItem(r)
    <3>1. PICK ids \in SUBSET IdsOf(Matching(r)) :
            /\ ids # {} => pc'[r] = "done"
            /\ places' = {x \in places : x.val.item \notin ids}
      BY <2>12 DEF DropsItem
    <3>2. r \in Deletes /\ pc[r] = "delete"
      BY <2>12 DEF DropsItem, Goes
    <3>3. p.val.item \in ids
      BY <2>1, <2>2, <3>1
    <3>4. PICK i \in Matching(r) : i.id = p.val.item
      BY <3>1, <3>3 DEF IdsOf
    <3>5. i.id = ItemOf[r]
      BY <3>2, <3>4 DEF Matching
    <3>6. pc'[r] = "done" /\ pc[r] \notin Ended
      BY <3>1, <3>2, <3>3 DEF Ended
    <3>7. QED
      BY <3>2, <3>4, <3>5, <3>6
  <2>13. CASE Commits(r)
    <3>1. p.del = r
      BY <2>1, <2>2, <2>5, <2>13, CommitLeaves DEF Commits, CommitTables, Settled, Is
    <3>2. Asked(p)
      BY <1>1, <2>1 DEF Kept
    <3>3. r \in Layouts \union Placing /\ pc[r] = "commit" /\ pc'[r] = "done"
      BY <2>13 DEF Commits, Goes
    <3>4. QED
      BY <2>1, <3>1, <3>2, <3>3 DEF Asked, Ended
  <2>14. QED
    BY <1>1, <2>4, <2>6, <2>7, <2>8, <2>9, <2>10, <2>11, <2>12, <2>13, Steps, PlacedFacts
<1>2. Placed /\ Kept /\ [Next]_vars => [\A p \in Current(places) : gone(p) => asked(p)]_vars
  BY <1>1
<1>3. QED
  BY <1>2, AlwaysKept, PTL DEF Spec, ItemsStayPut

-----------------------------------------------------------------------------
(* One shelf at a time, unless two requests place one item at once. *)

(* What another transaction sees after a step of t that does not commit, it
   saw before. *)
Seen(table, after, t) ==
  \A w \in after : w.ins # t =>
    \E v \in table :
      v.id = w.id /\ v.val = w.val /\ v.ins = w.ins /\ v.del \in {w.del, Nobody, t}

LEMMA StepsSeen ==
  ASSUME NEW table, Versions(table), NEW t, NEW after,
         \/ after = table \/ after = RolledBack(table, t)
         \/ \E ids : after = Remove(table, t, ids) /\ Writers(table, t, ids) = {}
         \/ \E new : after = Put(table, t, new) /\ Writers(table, t, IdsOf(new)) = {}
  PROVE  Seen(table, after, t)
<1>1. CASE after = table
  BY <1>1 DEF Seen
<1>2. ASSUME NEW w, NEW v \in table, NEW ids, Writers(table, t, ids) = {}, Left(w, v, t, ids)
      PROVE  v.id = w.id /\ v.val = w.val /\ v.ins = w.ins /\ v.del \in {w.del, Nobody, t}
  BY <1>2, WaitsForWriter DEF Left, Is
<1>3. CASE \E ids : after = Remove(table, t, ids) /\ Writers(table, t, ids) = {}
  <2>1. PICK ids : after = Remove(table, t, ids) /\ Writers(table, t, ids) = {}
    BY <1>3
  <2>2. \A w \in after : \E v \in table : Left(w, v, t, ids)
    BY <2>1, RemoveLeaves
  <2>3. QED
    BY <1>2, <2>1, <2>2 DEF Seen
<1>4. CASE \E new : after = Put(table, t, new) /\ Writers(table, t, IdsOf(new)) = {}
  <2>1. PICK new : after = Put(table, t, new) /\ Writers(table, t, IdsOf(new)) = {}
    BY <1>4
  <2>2. \A w \in after : w.ins # t => \E v \in table : Left(w, v, t, IdsOf(new))
    BY <2>1, PutLeaves DEF Written, Is
  <2>3. QED
    BY <1>2, <2>1, <2>2 DEF Seen
<1>5. CASE after = RolledBack(table, t)
  <2>1. \A w \in after : \E v \in table : Undone(w, v, t)
    BY <1>5, RollbackLeaves
  <2>2. QED
    BY <2>1 DEF Seen, Undone, Is
<1>6. QED
  BY <1>1, <1>3, <1>4, <1>5

(* A placement that a layout update empties is still there as it was. *)
Backed ==
  \A p \in places : p.ins \in Layouts =>
    \E o \in places : o.id = p.id /\ o.ins = Nobody /\ o.del = p.ins

(* Once a request has seen where its item is to be taken from, it is nowhere
   else but on the shelf that it is to be put on. *)
ElsewhereOK(r) ==
  /\ pc[r] \in {"insert", "commit"} =>
       \A p \in ItemPlaces(r) : p.val.shelf = ShelfOf[r]
  /\ pc[r] = "clear" /\ running[r] =>
       \A p \in ItemPlaces(r) : p.id \in target[r] \/ p.val.shelf = ShelfOf[r]

OnShelf == OneShelf /\ Backed /\ \A r \in Placing : ElsewhereOK(r)

(* The placing request q may commit after r has looked where the item is. *)
Overtakes(q, r) ==
  pc[q] = "commit" /\ (pc[r] \in {"insert", "commit"} \/ (pc[r] = "clear" /\ running[r]))

(* Requests that overtake each other do not put one item on two shelves. *)
Apart ==
  \A q, r \in Placing :
    q # r /\ Overtakes(q, r) /\ item[q] = item[r] => ShelfOf[q] = ShelfOf[r]

LEMMA BackedStep ==
  ASSUME Placed, Kept, Backed, NEW r \in Requests, Step(r) \/ CtxEnds(r)
  PROVE  Backed'
<1>1. r # Nobody /\ Versions(places) /\ \A p, q \in places : KeyOK(p, q)
  BY PlacedFacts, RequestsAreSomebody
<1> DEFINE held(w) == \E o \in places' : o.id = w.id /\ o.ins = Nobody /\ o.del = w.ins
<1>2. ASSUME NEW ids, Writers(places, r, ids) = {}, NEW v \in places, v.ins \in Layouts,
             NEW w, Left(w, v, r, ids),
             \A p \in places : ~(p.id \in ids /\ p.ins = r) =>
               \E x \in places' : Left(x, p, r, ids)
      PROVE  held(w)
  <2>1. PICK o \in places : o.id = v.id /\ o.ins = Nobody /\ o.del = v.ins
    BY <1>2 DEF Backed
  <2>2. o.id \notin ids
    BY <1>2, <2>1, WaitsForWriter, NobodyIsNoRequest DEF Left
  <2>3. PICK x \in places' : Left(x, o, r, ids)
    BY <1>2, <2>2
  <2>4. QED
    BY <1>2, <2>1, <2>2, <2>3 DEF Left, Is
<1>3. CASE Reads(r) \/ PutsRows(r) \/ PutsCols(r) \/ PutsSlots(r) \/ Creates(r)
  BY <1>3 DEF Reads, tables, PutsRows, PutsCols, PutsSlots, Creates, Backed
<1>4. CASE DropsPlaces(r)
  <2>1. PICK ids : places' = Remove(places, r, ids) /\ Writers(places, r, ids) = {}
    BY <1>4 DEF DropsPlaces
  <2>2. /\ \A w \in places' : \E v \in places : Left(w, v, r, ids)
        /\ \A p \in places : ~(p.id \in ids /\ p.ins = r) => \E x \in places' : Left(x, p, r, ids)
    BY <1>1, <2>1, RemoveLeaves
  <2>3. ASSUME NEW w \in places', w.ins \in Layouts PROVE held(w)
    <3>1. PICK v \in places : Left(w, v, r, ids)
      BY <2>2
    <3>2. v.ins \in Layouts
      BY <2>3, <3>1 DEF Left, Is
    <3> HIDE DEF held
    <3>3. QED
      BY <1>2, <2>1, <2>2, <3>1, <3>2
  <2>4. QED
    BY <2>3 DEF Backed
<1>5. CASE Cuts(r)
  <2>1. PICK slotIds, gone :
          /\ gone = IdsOf(PlacesIn(r, slotIds)) /\ Writers(places, r, gone) = {}
          /\ \A w \in places' :
               \/ \E v \in places : Left(w, v, r, gone)
               \/ \E v \in places : /\ v.id \in gone /\ w.id = v.id /\ w.val = Slotless(v.val)
                                    /\ w.ins = r /\ w.del = Nobody
          /\ \A v \in places : ~(v.id \in gone /\ v.ins = r) =>
               \E w \in places' : Left(w, v, r, gone)
    BY <1>5, CutsEmpty
  <2>2. ASSUME NEW w \in places', w.ins \in Layouts PROVE held(w)
    <3>1. CASE \E v \in places : Left(w, v, r, gone)
      <4>1. PICK v \in places : Left(w, v, r, gone)
        BY <3>1
      <4>2. v.ins \in Layouts
        BY <2>2, <4>1 DEF Left, Is
      <4> HIDE DEF held
      <4>3. QED
        BY <1>2, <2>1, <4>1, <4>2
    <3>2. CASE w.id \in gone /\ w.ins = r
      <4>1. PICK v \in PlacesIn(r, slotIds) : v.id = w.id
        BY <2>1, <3>2 DEF IdsOf
      <4>2. v \in places /\ v.ins \in {Nobody, r}
        BY <4>1 DEF PlacesIn, Visible
      <4>3. PICK o \in places : o.id = w.id /\ o.ins = Nobody
        BY <2>2, <3>2, <4>1, <4>2 DEF Backed
      <4>4. PICK x \in places' : Left(x, o, r, gone)
        BY <1>1, <2>1, <4>3
      <4>5. QED
        BY <3>2, <4>3, <4>4 DEF Left, Is
    <3>3. QED
      BY <2>1, <3>1, <3>2
  <2>3. QED
    BY <2>2 DEF Backed
<1>6. CASE Inserts(r)
  <2>1. r \notin Layouts
    BY <1>6, KindsDiffer DEF Inserts
  <2>2. QED
    BY <1>6, <2>1, InsertLeaves DEF Is, Backed
<1>7. CASE Unplaces(r)
  <2>1. PICK ids : places' = Unplaced(ids) /\ Writers(places, r, ids) = {}
    BY <1>7 DEF Unplaces, Unplaced
  <2>2. r \notin Layouts
    BY <1>7, KindsDiffer DEF Unplaces
  <2>3. \A v \in places : v.ins \in Layouts => v.id \notin ids
    BY <2>1, <2>2, WaitsForWriter, NobodyIsNoRequest
  <2>4. ASSUME NEW w \in places', w.ins \in Layouts PROVE held(w)
    <3>1. PICK v \in places : v.id = w.id /\ v.ins = w.ins
      BY <1>1, <2>1, UnplacedLeaves DEF Is
    <3>2. PICK o \in places : o.id = v.id /\ o.ins = Nobody /\ o.del = v.ins
      BY <2>4, <3>1 DEF Backed
    <3>3. o.id \notin ids
      BY <2>3, <2>4, <3>1, <3>2
    <3>4. QED
      BY <1>1, <2>1, <3>1, <3>2, <3>3, UnplacedLeaves DEF Is
  <2>5. QED
    BY <2>4 DEF Backed
<1>8. CASE DropsItem(r)
  <2>1. PICK ids : places' = {p \in places : p.val.item \notin ids}
    BY <1>8 DEF DropsItem
  <2>2. \A p, o \in places : p.id = o.id => p.val.item = o.val.item
    BY <1>1 DEF KeyOK, SameKey
  <2>3. QED
    BY <2>1, <2>2 DEF Backed
<1>9. CASE Commits(r) \/ GivesUp(r)
  <2>1. /\ \A w \in places' : \E v \in places : Settled(w, v, r) \/ Undone(w, v, r)
        /\ \A v \in places : v.ins # r /\ v.del # r =>
             \E w \in places' : Settled(w, v, r) \/ Undone(w, v, r)
    BY <1>1, <1>9, CommitLeaves, RollbackLeaves DEF Commits, CommitTables, GivesUp, Abort
  <2>2. ASSUME NEW w \in places', w.ins \in Layouts PROVE held(w)
    <3>1. PICK v \in places : Settled(w, v, r) \/ Undone(w, v, r)
      BY <2>1
    <3>2. v.id = w.id /\ v.ins = w.ins /\ v.ins # r
      BY <2>2, <3>1, NobodyIsNoRequest DEF Settled, Undone, Is
    <3>3. PICK o \in places : o.id = v.id /\ o.ins = Nobody /\ o.del = v.ins
      BY <2>2, <3>2 DEF Backed
    <3>4. PICK x \in places' : Settled(x, o, r) \/ Undone(x, o, r)
      BY <1>1, <2>1, <3>2, <3>3
    <3>5. QED
      BY <1>1, <3>2, <3>3, <3>4 DEF Settled, Undone, Is
  <2>3. QED
    BY <2>2 DEF Backed
<1>10. QED
  BY <1>3, <1>4, <1>5, <1>6, <1>7, <1>8, <1>9, Steps, PlacedFacts

(* What others see of the placements after a step of r: what they saw before,
   and the placement that r commits. *)
LEMMA PlacesSeen ==
  ASSUME Placed, Kept, Backed, NEW r \in Requests, Step(r) \/ CtxEnds(r),
         NEW w \in places', w.ins # r
  PROVE  \/ \E v \in places :
              v.id = w.id /\ SameKey(v, w) /\ v.ins = w.ins /\ v.del \in {w.del, Nobody, r}
         \/ /\ Commits(r) /\ r \in Placing /\ w.ins = Nobody
            /\ w.val.item = item[r] /\ w.val.shelf = ShelfOf[r]
<1>1. r # Nobody /\ Versions(places) /\ \A p, q \in places : KeyOK(p, q)
  BY PlacedFacts, RequestsAreSomebody
<1>2. CASE Seen(places, places', r)
  BY <1>2 DEF Seen, SameKey
<1>3. CASE \/ Reads(r) \/ DropsPlaces(r) \/ PutsRows(r) \/ PutsCols(r) \/ PutsSlots(r)
           \/ Creates(r) \/ GivesUp(r)
  <2>1. Seen(places, places', r)
    BY <1>1, <1>3, StepsSeen
       DEF Reads, tables, DropsPlaces, PutsRows, PutsCols, PutsSlots, Creates, GivesUp, Abort
  <2>2. QED
    BY <1>2, <2>1
<1>4. CASE Cuts(r)
  <2>1. PICK gone : /\ Writers(places, r, gone) = {}
                    /\ \A x \in places' : x.ins # r => \E v \in places : Left(x, v, r, gone)
    BY <1>4, CutsEmpty
  <2>2. PICK v \in places : Left(w, v, r, gone)
    BY <2>1
  <2>3. QED
    BY <2>1, <2>2, WaitsForWriter DEF Left, Is, SameKey
<1>5. CASE Inserts(r)
  BY <1>5, InsertLeaves DEF Is, SameKey
<1>6. CASE Unplaces(r)
  <2>1. PICK ids : places' = Unplaced(ids)
    BY <1>6 DEF Unplaces, Unplaced
  <2>2. PICK v \in places : /\ v.id = w.id /\ v.ins = w.ins /\ v.del = w.del
                            /\ w.val = v.val \/ w.val = Slotless(v.val)
    BY <1>1, <2>1, UnplacedLeaves DEF Is
  <2>3. Slotless(v.val).item = v.val.item /\ Slotless(v.val).shelf = v.val.shelf
    BY PlacedFacts, SlotlessIs DEF PlaceOK
  <2>4. QED
    BY <2>2, <2>3 DEF SameKey
<1>7. CASE DropsItem(r)
  BY <1>7 DEF DropsItem, SameKey
<1>8. CASE Commits(r)
  <2>1. pc[r] = "commit"
    BY <1>8 DEF Commits, Goes
  <2>2. PICK v \in places : Settled(w, v, r)
    BY <1>1, <1>8, CommitLeaves DEF Commits, CommitTables
  <2>3. CASE v.ins # r
    BY <2>2, <2>3 DEF Settled, Is, SameKey
  <2>4. CASE v.ins = r /\ r \in Layouts
    <3>1. PICK o \in places : o.id = v.id /\ o.ins = Nobody /\ o.del = r
      BY <2>4 DEF Backed
    <3>2. SameKey(o, v)
      BY <1>1, <3>1 DEF KeyOK
    <3>3. QED
      BY <2>2, <2>4, <3>1, <3>2 DEF Settled, Is, SameKey
  <2>5. CASE v.ins = r /\ r \in Placing
    <3>1. v.val = [shelf |-> ShelfOf[r], item |-> item[r], slot |-> SlotOf[r]]
      BY <2>1, <2>5, PlacedFacts DEF PlaceOK
    <3>2. QED
      BY <1>8, <2>2, <2>5, <3>1 DEF Settled, Is
  <2>6. QED
    BY <1>8, <2>3, <2>4, <2>5 DEF Commits
<1>9. QED
  BY <1>3, <1>4, <1>5, <1>6, <1>7, <1>8, Steps, PlacedFacts

(* A step of r leaves what others do and have seen to do. *)
LEMMA OthersGoOn ==
  ASSUME TypesOK, NEW r \in Requests, Step(r) \/ CtxEnds(r), NEW q \in Requests, q # r
  PROVE  /\ pc'[q] = pc[q] /\ item'[q] = item[q]
         /\ running'[q] = running[q] /\ target'[q] = target[q]
<1>1. ASSUME NEW p, NEW n, Goto(r, p, n) \/ Finish(r, p, n)
      PROVE  running'[q] = running[q] /\ target'[q] = target[q]
  BY <1>1 DEF Goto, Finish, TypesOK
<1>2. Abort(r) \/ Commit(r) \/ Begin(r) => running'[q] = running[q] /\ target'[q] = target[q]
  BY DEF Abort, Commit, Begin, TypesOK
<1>3. ReadShelf(r) \/ Plan(r) \/ SaveLayout(r) =>
        running'[q] = running[q] /\ target'[q] = target[q]
  BY <1>1 DEF ReadShelf, Plan, SaveLayout
<1>4. Place(r) \/ RemoveItem(r) \/ DeleteItem(r) =>
        running'[q] = running[q] /\ target'[q] = target[q]
  BY <1>1, <1>2 DEF Place, CheckItem, CheckShelf, FindByISBN, CreateItem, CheckSlot, Clear,
                    InsertPlace, RemoveItem, DeleteItem
<1>5. running'[q] = running[q] /\ target'[q] = target[q]
  BY <1>2, <1>3, <1>4 DEF Step, CtxEnds, Deadlock
<1>6. QED
  BY <1>5, OnlyOne

LEMMA OthersElsewhere ==
  ASSUME Placed, Kept, OnShelf, Apart, NEW r \in Requests, Step(r) \/ CtxEnds(r),
         NEW q \in Placing, q # r
  PROVE  ElsewhereOK(q)'
<1>1. q \in Requests /\ q # Nobody /\ ElsewhereOK(q)
  BY KindsOfRequests, RequestsAreSomebody DEF OnShelf
<1>2. /\ pc'[q] = pc[q] /\ item'[q] = item[q]
      /\ running'[q] = running[q] /\ target'[q] = target[q]
  BY <1>1, OthersGoOn, PlacedFacts
<1>3. ASSUME NEW w \in ItemPlaces(q)',
             pc[q] \in {"insert", "commit"} \/ (pc[q] = "clear" /\ running[q])
      PROVE  \/ \E v \in ItemPlaces(q) : v.id = w.id /\ v.val.shelf = w.val.shelf
             \/ w.val.shelf = ShelfOf[q]
  <2>1. w \in places' /\ w.ins \in {Nobody, q} /\ w.del # q /\ w.val.item = item[q]
    BY <1>2 DEF ItemPlaces, Visible
  <2>2. w.ins # r
    BY <2>1, RequestsAreSomebody
  <2>3. CASE \E v \in places :
               v.id = w.id /\ SameKey(v, w) /\ v.ins = w.ins /\ v.del \in {w.del, Nobody, r}
    BY <1>1, <2>1, <2>3 DEF ItemPlaces, Visible, SameKey
  <2>4. CASE /\ Commits(r) /\ r \in Placing /\ w.val.item = item[r] /\ w.val.shelf = ShelfOf[r]
    <3>1. pc[r] = "commit"
      BY <2>4 DEF Commits, Goes
    <3>2. QED
      BY <1>3, <2>1, <2>4, <3>1 DEF Apart, Overtakes
  <2>5. QED
    BY <2>1, <2>2, <2>3, <2>4, PlacesSeen DEF OnShelf
<1>4. QED
  BY <1>1, <1>2, <1>3 DEF ElsewhereOK

LEMMA OwnElsewhere ==
  ASSUME Placed, Kept, OnShelf, NEW r \in Placing, Step(r) \/ CtxEnds(r)
  PROVE  ElsewhereOK(r)'
<1>1. /\ r \in Requests /\ r # Nobody /\ TypesOK /\ Versions(places) /\ ElsewhereOK(r)
      /\ r \notin Layouts /\ r \notin Removes /\ r \notin Deletes
  BY KindsOfRequests, KindsDiffer, RequestsAreSomebody, PlacedFacts DEF OnShelf
<1>2. CASE Begin(r)
  <2>1. /\ pc' = pc /\ item' = item /\ places' = places /\ target'[r] = IdsOf(Matching(r))
    BY <1>1, <1>2 DEF Begin, tables, TypesOK
  <2>2. pc[r] = "clear" => target'[r] = IdsOf(ItemPlaces(r))
    BY <2>1 DEF Matching
  <2>3. pc[r] \in Scanning
    BY <1>2 DEF Begin
  <2>4. ItemPlaces(r)' = ItemPlaces(r)
    BY <2>1 DEF ItemPlaces, Visible
  <2>5. QED
    BY <2>1, <2>2, <2>3, <2>4 DEF ElsewhereOK, Scanning, IdsOf
<1>3. CASE Clear(r)
  <2>1. /\ pc[r] = "clear" /\ running[r] /\ pc'[r] = "insert" /\ item' = item
        /\ places' = Remove(places, r, Found(r))
    BY <1>1, <1>3, Finishes DEF Clear, Scanning, Goes
  <2>2. Found(r) = target[r] \intersect IdsOf(ItemPlaces(r))
    BY <2>1 DEF Found, Matching
  <2>3. ASSUME NEW w \in ItemPlaces(r)' PROVE w.val.shelf = ShelfOf[r]
    <3>1. w \in places' /\ w.ins \in {Nobody, r} /\ w.del # r /\ w.val.item = item[r]
      BY <2>1 DEF ItemPlaces, Visible
    <3>2. PICK v \in places : Left(w, v, r, Found(r))
      BY <1>1, <2>1, <3>1, RemoveLeaves
    <3>3. v.id \notin Found(r) /\ v.val = w.val /\ v.ins = w.ins /\ v.del = w.del
      BY <3>1, <3>2 DEF Left, Is
    <3>4. v \in ItemPlaces(r)
      BY <3>1, <3>3 DEF ItemPlaces, Visible
    <3>5. v.id \notin target[r]
      BY <2>2, <3>3, <3>4 DEF IdsOf
    <3>6. QED
      BY <1>1, <2>1, <3>3, <3>4, <3>5 DEF ElsewhereOK
  <2>4. QED
    BY <2>1, <2>3 DEF ElsewhereOK
<1>4. CASE Inserts(r)
  <2>1. pc[r] = "insert" /\ pc'[r] = "commit" /\ item' = item
    BY <1>4 DEF Inserts, Goes
  <2>2. ASSUME NEW w \in ItemPlaces(r)' PROVE w.val.shelf = ShelfOf[r]
    <3>1. w \in places' /\ w.ins \in {Nobody, r} /\ w.del # r /\ w.val.item = item[r]
      BY <2>1 DEF ItemPlaces, Visible
    <3>2. CASE \E v \in places : Is(w, v, v.ins, v.del)
      BY <1>1, <2>1, <3>1, <3>2 DEF Is, ItemPlaces, Visible, ElsewhereOK
    <3>3. CASE Is(w, NewPlace(r), r, Nobody)
      BY <3>3 DEF Is, NewPlace
    <3>4. QED
      BY <1>1, <1>4, <3>1, <3>2, <3>3, InsertLeaves
  <2>3. QED
    BY <2>1, <2>2 DEF ElsewhereOK
<1>5. CASE pc'[r] \notin {"clear", "insert", "commit"}
  BY <1>5 DEF ElsewhereOK
<1>6. CASE pc'[r] = "clear" /\ ~running'[r]
  BY <1>6 DEF ElsewhereOK
<1>7. QED
  <2>1. CheckSlot(r) => pc'[r] # "clear" \/ ~running'[r]
    BY <1>1 DEF CheckSlot, Goto, TypesOK, Scanning
  <2>2. Commit(r) \/ Abort(r) => pc'[r] \in {"done", "failed"}
    BY <1>1 DEF Commit, Abort, TypesOK
  <2>3. CheckItem(r) \/ CheckShelf(r) \/ FindByISBN(r) \/ CreateItem(r) \/ CheckSlot(r) =>
          pc'[r] \notin {"insert", "commit"}
    BY <1>1 DEF CheckItem, CheckShelf, FindByISBN, CreateItem, CheckSlot, Goto, Finish, TypesOK
  <2>4. CheckItem(r) \/ CheckShelf(r) \/ FindByISBN(r) \/ CreateItem(r) => pc'[r] # "clear"
    BY <1>1 DEF CheckItem, CheckShelf, FindByISBN, CreateItem, Goto, Finish, TypesOK
  <2>5. ASSUME InsertPlace(r), KeysHold(r), Place(r) PROVE Inserts(r)
    BY <1>1, <2>5, Finishes, WhoBlocks DEF InsertPlace, Inserts, NewPlace, Goes
  <2>6. InsertPlace(r) /\ ~KeysHold(r) => Abort(r)
    BY DEF InsertPlace
  <2>7. ~ReadShelf(r) /\ ~Plan(r) /\ ~SaveLayout(r) /\ ~RemoveItem(r) /\ ~DeleteItem(r)
    BY <1>1 DEF ReadShelf, Plan, SaveLayout, RemoveItem, DeleteItem
  <2>8. QED
    BY <1>2, <1>3, <1>4, <1>5, <1>6, <2>1, <2>2, <2>3, <2>4, <2>5, <2>6, <2>7
       DEF Step, CtxEnds, Deadlock, Place

LEMMA OneShelfStep ==
  ASSUME Placed, Kept, OnShelf, NEW r \in Requests, Step(r) \/ CtxEnds(r)
  PROVE  OneShelf'
<1>1. r # Nobody /\ OneShelf /\ Backed
  BY RequestsAreSomebody DEF OnShelf
<1>2. ASSUME NEW w \in Current(places)'
      PROVE  \/ \E v \in Current(places) :
                  SameKey(v, w) /\ (Commits(r) /\ r \in Placing => v.del # r)
             \/ /\ Commits(r) /\ r \in Placing
                /\ w.val.item = item[r] /\ w.val.shelf = ShelfOf[r]
  <2>1. w \in places' /\ w.ins = Nobody
    BY DEF Current
  <2>2. CASE Commits(r) /\ r \in Placing
    <3>1. PICK x \in places : Settled(w, x, r)
      BY <2>1, <2>2, CommitLeaves, PlacedFacts DEF Commits, CommitTables
    <3>2. CASE x.ins # r
      BY <1>1, <2>1, <3>1, <3>2 DEF Settled, Is, Current, SameKey
    <3>3. CASE x.ins = r
      <4>1. x.val = [shelf |-> ShelfOf[r], item |-> item[r], slot |-> SlotOf[r]]
        BY <2>2, <3>3, PlacedFacts DEF PlaceOK, Commits, Goes
      <4>2. QED
        BY <2>2, <3>1, <4>1 DEF Settled, Is
    <3>4. QED
      BY <3>2, <3>3
  <2>3. CASE ~(Commits(r) /\ r \in Placing)
    BY <1>1, <2>1, <2>3, PlacesSeen DEF Current
  <2>4. QED
    BY <2>2, <2>3
<1>3. ASSUME NEW v \in Current(places), v.del # r, Commits(r), r \in Placing, v.val.item = item[r]
      PROVE  v.val.shelf = ShelfOf[r]
  <2>1. pc[r] = "commit" /\ ElsewhereOK(r)
    BY <1>3 DEF Commits, Goes, OnShelf
  <2>2. v \in ItemPlaces(r)
    BY <1>3 DEF Current, ItemPlaces, Visible
  <2>3. QED
    BY <2>1, <2>2 DEF ElsewhereOK
<1>4. ASSUME NEW p \in Current(places)', NEW q \in Current(places)', p.val.item = q.val.item
      PROVE  p.val.shelf = q.val.shelf
  <2>1. CASE /\ \E v \in Current(places) : SameKey(v, p)
             /\ \E v \in Current(places) : SameKey(v, q)
    BY <1>1, <1>4, <2>1 DEF OneShelf, SameKey
  <2>2. ASSUME Commits(r), r \in Placing, NEW x \in Current(places)', x.val.item = item[r]
        PROVE  x.val.shelf = ShelfOf[r]
    BY <1>2, <1>3, <2>2 DEF SameKey
  <2>3. QED
    BY <1>2, <1>4, <2>1, <2>2
<1>5. QED
  BY <1>4 DEF OneShelf

LEMMA OnShelfStep ==
  ASSUME Placed, Kept, OnShelf, Apart, [Next]_vars
  PROVE  OnShelf'
<1>1. ASSUME NEW r \in Requests, Step(r) \/ CtxEnds(r) PROVE OnShelf'
  <2>1. Backed' /\ OneShelf'
    BY <1>1, BackedStep, OneShelfStep DEF OnShelf
  <2>2. ASSUME NEW q \in Placing PROVE ElsewhereOK(q)'
    BY <1>1, <2>2, OwnElsewhere, OthersElsewhere
  <2>3. QED
    BY <2>1, <2>2 DEF OnShelf
<1>2. CASE UNCHANGED vars
  <2>1. OneShelf' = OneShelf /\ Backed' = Backed
    BY <1>2 DEF vars, OneShelf, Backed, Current
  <2>2. \A r : ElsewhereOK(r)' = ElsewhereOK(r)
    BY <1>2 DEF vars, ElsewhereOK, ItemPlaces, Visible
  <2>3. QED
    BY <2>1, <2>2 DEF OnShelf
<1>3. MayEnd \subseteq Requests
  BY PlacementAssumption
<1>4. QED
  BY <1>1, <1>2, <1>3 DEF Next, Quiet

LEMMA OnShelfInit ==
  ASSUME Init
  PROVE  OnShelf
<1>1. \A v \in places : v.ins = Nobody /\ v.val \in FirstPlaces
  BY DEF Init, Stored
<1>2. OneShelf
  BY <1>1, FirstAssumption DEF OneShelf, Current
<1>3. Backed
  BY <1>1, NobodyIsNoRequest DEF Backed
<1>4. ASSUME NEW r \in Placing PROVE ElsewhereOK(r)
  <2>1. pc[r] \in {"start", "done"}
    BY KindsOfRequests DEF Init
  <2>2. QED
    BY <2>1 DEF ElsewhereOK
<1>5. QED
  BY <1>2, <1>3, <1>4 DEF OnShelf

(***************************************************************************)
(* An item is on one shelf at a time, whatever layouts, removals and       *)
(* deletions do meanwhile, as long as no request that places it commits    *)
(* after another, on another shelf, has looked where it is: the clearing   *)
(* of AssignItemToSlot 235-241 is enough but for that one race, which run  *)
(* shelf_both shows.                                                       *)
(***************************************************************************)
THEOREM ItemsAreOnOneShelf == Spec /\ []Apart => []OneShelf
<1>1. Init => OnShelf
  BY OnShelfInit
<1>2. (Placed /\ Kept) /\ OnShelf /\ Apart /\ [Next]_vars => OnShelf'
  BY OnShelfStep
<1>3. OnShelf => OneShelf
  BY DEF OnShelf
<1>4. QED
  BY <1>1, <1>2, <1>3, AlwaysKept, PTL DEF Spec

-----------------------------------------------------------------------------
(* A saved layout is what is stored, if the updates of a shelf share a row. *)

(* Every row of a transaction is there as it saves it. *)
Stores(table, t, new) ==
  \A n \in new : \E v \in table : v.id = n.id /\ v.val = n.val /\ v.ins = t

(* Where a layout update has saved its rows, and where it has swept its slots. *)
PastRows  == PastCols \union {"putCols"}
PastSweep == {"sweepCols", "sweepRows", "commit"}

(* Two updates of a shelf are not both past their rows: the later one waits
   for a row of the other. *)
Exclusive ==
  \A q, r \in Layouts :
    ShelfOf[q] = ShelfOf[r] /\ pc[q] \in PastRows /\ pc[r] \in PastRows => q = r

(* No other slot is left once the update has swept them. *)
SweptOK(r) ==
  /\ pc[r] = "sweepSlots" /\ running[r] => IdsOf(StraySlots(r)) \subseteq target[r]
  /\ pc[r] \in PastSweep => StraySlots(r) = {}

LaidOK(r) ==
  /\ pc[r] \in PastRows => Holds(rows, r, NewRows(r))
  /\ pc[r] \in PastSlots => Stores(slots, r, NewSlots(r))
  /\ SweptOK(r)
  /\ pc[r] = "commit" => Valid(InputOf[r], base[r])

Laid == Exclusive /\ CellsDistinct /\ \A r \in Layouts : LaidOK(r)

(* An update that saves its rows while another of the shelf is past them has
   one in common with it. *)
RowShared ==
  \A q, r \in Layouts :
    q # r /\ ShelfOf[q] = ShelfOf[r] /\ pc[q] \in PastRows /\ pc[r] = "putRows" =>
      \E id \in IdsOf(NewRows(q)) : id \in IdsOf(NewRows(r))

LEMMA RowsFacts ==
  ASSUME Placed
  PROVE  Versions(rows) /\ WrittenBy(rows, Writing(Layouts))
BY DEF Placed, TablesOK

LEMMA RowsChange ==
  ASSUME Placed, NEW r \in Requests, Step(r) \/ CtxEnds(r)
  PROVE  Keeps(rows, rows', r) \/ PutsRows(r)
<1>1. CASE Reads(r) \/ DropsPlaces(r) \/ PutsCols(r) \/ PutsSlots(r) \/ Creates(r) \/ Inserts(r)
           \/ Unplaces(r) \/ DropsItem(r)
  BY <1>1 DEF Reads, tables, DropsPlaces, PutsCols, PutsSlots, Creates, Inserts, Unplaces,
              DropsItem, Keeps
<1>2. CASE Cuts(r)
  BY <1>2, CutTables DEF Cuts, Keeps
<1>3. CASE Commits(r) \/ GivesUp(r)
  BY <1>3 DEF Commits, CommitTables, GivesUp, Abort, Keeps
<1>4. QED
  BY <1>1, <1>2, <1>3, Steps, PlacedFacts

LEMMA RowsKeptToo ==
  ASSUME NEW r, base'[r] = base[r]
  PROVE  NewRows(r)' = NewRows(r)
BY DEF NewRows

(* A transaction leaves the rows of the others as they are. *)
LEMMA OthersStore ==
  ASSUME NEW table, Versions(table), NEW W, WrittenBy(table, W), NEW t, t # Nobody, NEW after,
         Keeps(table, after, t) \/ \E new : after = Put(table, t, new),
         NEW q, q # t, q # Nobody, NEW rest, Stores(table, q, rest)
  PROVE  Stores(after, q, rest)
<1>1. ASSUME NEW v \in table, v.ins = q
      PROVE  \E w \in after : w.id = v.id /\ w.val = v.val /\ w.ins = q
  <2>1. v.del = Nobody
    BY <1>1 DEF WrittenBy
  <2>2. CASE after = table
    BY <1>1, <2>2
  <2>3. CASE \E ids : after = Remove(table, t, ids)
    BY <1>1, <2>3, RemoveLeaves DEF Left, Is
  <2>4. CASE after = Committed(table, t)
    BY <1>1, <2>1, <2>4, CommitLeaves DEF Settled, Is
  <2>5. CASE after = RolledBack(table, t)
    BY <1>1, <2>5, RollbackLeaves DEF Undone, Is
  <2>6. CASE \E new : after = Put(table, t, new)
    BY <1>1, <2>6, PutLeaves DEF Left, Is
  <2>7. QED
    BY <2>2, <2>3, <2>4, <2>5, <2>6 DEF Keeps
<1>2. QED
  BY <1>1 DEF Stores

LEMMA StillStores ==
  ASSUME NEW table, Versions(table), NEW r, NEW new, Stores(table, r, new),
         NEW ids, \A id \in ids : id \notin IdsOf(new)
  PROVE  Stores(Remove(table, r, ids), r, new)
<1>1. ASSUME NEW n \in new
      PROVE  \E w \in Remove(table, r, ids) : w.id = n.id /\ w.val = n.val /\ w.ins = r
  <2>1. PICK v \in table : v.id = n.id /\ v.val = n.val /\ v.ins = r
    BY DEF Stores
  <2>2. v.id \notin ids
    BY <2>1 DEF IdsOf
  <2>3. PICK w \in Remove(table, r, ids) : Left(w, v, r, ids)
    BY <2>2, RemoveLeaves
  <2>4. QED
    BY <2>1, <2>3 DEF Left, Is
<1>2. QED
  BY <1>1 DEF Stores

(* What others see of the slots after a step of r: what they saw before, and
   the slots of the layout that r commits. *)
LEMMA SlotsSeen ==
  ASSUME Placed, Kept, NEW r \in Requests, Step(r) \/ CtxEnds(r),
         NEW w \in slots', w.ins # r
  PROVE  \/ \E v \in slots :
              v.id = w.id /\ v.val = w.val /\ v.ins = w.ins /\ v.del \in {w.del, Nobody, r}
         \/ Commits(r) /\ r \in Layouts /\ w.val.shelf = ShelfOf[r]
<1>1. r # Nobody /\ Versions(slots) /\ WrittenBy(slots, Writing(Layouts))
  BY TablesFacts, RequestsAreSomebody
<1>2. CASE Seen(slots, slots', r)
  BY <1>2 DEF Seen
<1>3. CASE \/ Reads(r) \/ DropsPlaces(r) \/ PutsRows(r) \/ PutsCols(r) \/ Creates(r)
           \/ Inserts(r) \/ Unplaces(r) \/ DropsItem(r) \/ GivesUp(r)
  <2>1. slots' = slots \/ slots' = RolledBack(slots, r)
    BY <1>3 DEF Reads, tables, DropsPlaces, PutsRows, PutsCols, Creates, Inserts, Unplaces,
                DropsItem, GivesUp, Abort
  <2>2. QED
    BY <1>1, <1>2, <2>1, StepsSeen
<1>4. CASE PutsSlots(r)
  BY <1>1, <1>2, <1>4, StepsSeen DEF PutsSlots
<1>5. CASE Cuts(r)
  <2>1. \E ids : slots' = Remove(slots, r, ids) /\ Writers(slots, r, ids) = {}
    BY <1>5, CutTables DEF Cuts
  <2>2. QED
    BY <1>1, <1>2, <2>1, StepsSeen
<1>6. CASE Commits(r)
  <2>1. PICK v \in slots : Settled(w, v, r)
    BY <1>1, <1>6, CommitLeaves DEF Commits, CommitTables
  <2>2. CASE v.ins # r
    BY <2>1, <2>2 DEF Settled, Is
  <2>3. CASE v.ins = r
    <3>1. r \in Layouts
      BY <1>1, <2>3 DEF WrittenBy, Writing
    <3>2. PICK n \in NewSlots(r) : n.val = v.val
      BY <2>3, <3>1 DEF Kept, SavesOK, Wrote
    <3>3. n.val.shelf = ShelfOf[r]
      BY DEF NewSlots, LayoutSlots
    <3>4. QED
      BY <1>6, <2>1, <3>1, <3>2, <3>3 DEF Settled, Is
  <2>4. QED
    BY <2>2, <2>3
<1>7. QED
  BY <1>3, <1>4, <1>5, <1>6, Steps, PlacedFacts

LEMMA ExclusiveStep ==
  ASSUME Placed, Laid, RowShared, NEW r \in Requests, Step(r) \/ CtxEnds(r)
  PROVE  Exclusive'
<1>1. r # Nobody /\ Versions(rows)
  BY RequestsAreSomebody, RowsFacts
<1>2. \A q \in Requests \ {r} : pc'[q] = pc[q]
  BY OnlyOne, PlacedFacts
<1>3. pc'[r] \in PastRows => pc[r] \in PastRows \/ PutsRows(r) \/ r \notin Layouts
  <2>1. CASE r \notin Layouts
    BY <2>1
  <2>2. CASE r \in Layouts
    <3>1. \/ Reads(r) \/ DropsPlaces(r) \/ Cuts(r) \/ PutsRows(r) \/ PutsCols(r) \/ PutsSlots(r)
          \/ Commits(r) \/ GivesUp(r)
      BY <2>2, KindsDiffer, Steps, PlacedFacts DEF Creates, Inserts, Unplaces, DropsItem
    <3>2. PastRows \subseteq WritingPCs /\ "putRows" \notin PastRows
      BY DEF PastRows, PastCols, WritingPCs, SavingPCs, LayoutPCs
    <3>3. Reads(r) => pc'[r] \notin PastRows \/ pc'[r] = pc[r]
      BY <3>2 DEF Reads, Goes
    <3>4. DropsPlaces(r) \/ Cuts(r) \/ PutsCols(r) \/ PutsSlots(r) =>
            pc[r] \in PastRows \/ pc'[r] \notin PastRows
      BY <2>2, KindsDiffer DEF DropsPlaces, Cuts, PutsCols, PutsSlots, Goes, PastRows, PastCols
    <3>5. Commits(r) \/ GivesUp(r) => pc'[r] \notin PastRows
      BY DEF Commits, GivesUp, Goes, PastRows, PastCols
    <3>6. QED
      BY <3>1, <3>3, <3>4, <3>5
  <2>3. QED
    BY <2>1, <2>2
<1>4. ASSUME PutsRows(r), NEW q \in Layouts, q # r, ShelfOf[q] = ShelfOf[r], pc[q] \in PastRows
      PROVE  FALSE
  <2>1. /\ r \in Layouts /\ pc[r] = "putRows" /\ Writers(rows, r, IdsOf(NewRows(r))) = {}
    BY <1>4 DEF PutsRows, Goes
  <2>2. PICK id \in IdsOf(NewRows(q)) : id \in IdsOf(NewRows(r))
    BY <1>4, <2>1 DEF RowShared
  <2>3. Holds(rows, q, NewRows(q))
    BY <1>4 DEF Laid, LaidOK
  <2>4. PICK v \in rows : v.id = id /\ v.ins = q
    BY <2>2, <2>3 DEF Holds, IdsOf
  <2>5. q \in {Nobody, r}
    BY <2>1, <2>2, <2>4, WaitsForWriter
  <2>6. QED
    BY <1>4, <2>5, NobodyIsNoRequest
<1>5. ASSUME NEW p \in Layouts, NEW q \in Layouts, p # q, ShelfOf[p] = ShelfOf[q],
             pc'[p] \in PastRows, pc'[q] \in PastRows
      PROVE  FALSE
  <2>1. p \in Requests /\ q \in Requests /\ (pc[p] \notin PastRows \/ pc[q] \notin PastRows)
    BY <1>5, KindsOfRequests DEF Laid, Exclusive
  <2>2. CASE p = r
    BY <1>2, <1>3, <1>4, <1>5, <2>1, <2>2
  <2>3. CASE q = r
    BY <1>2, <1>3, <1>4, <1>5, <2>1, <2>3
  <2>4. QED
    BY <1>2, <1>5, <2>1, <2>2, <2>3
<1>6. QED
  BY <1>5 DEF Exclusive

LEMMA OthersLaid ==
  ASSUME Placed, Kept, Laid, NEW r \in Requests, Step(r) \/ CtxEnds(r),
         NEW q \in Layouts, q # r
  PROVE  LaidOK(q)'
<1>1. /\ q \in Requests /\ q # Nobody /\ r # Nobody /\ LaidOK(q)
      /\ PastSlots \subseteq PastRows /\ PastSweep \subseteq PastRows /\ "sweepSlots" \in PastRows
  BY KindsOfRequests, RequestsAreSomebody DEF Laid, PastRows, PastCols, PastSlots, PastSweep
<1>2. /\ pc'[q] = pc[q] /\ running'[q] = running[q] /\ target'[q] = target[q]
      /\ base'[q] = base[q]
  BY <1>1, OthersGoOn, OnlyOne, PlacedFacts
<1>3. NewRows(q)' = NewRows(q) /\ NewSlots(q)' = NewSlots(q)
  BY <1>2, RowsKeptToo, LayoutKept
<1>4. Holds(rows, q, NewRows(q)) => Holds(rows', q, NewRows(q))
  <2>1. Keeps(rows, rows', r) \/ \E new : rows' = Put(rows, r, new)
    BY RowsChange DEF PutsRows
  <2>2. QED
    BY <1>1, <2>1, OthersKeep, RowsFacts
<1>5. Stores(slots, q, NewSlots(q)) => Stores(slots', q, NewSlots(q))
  <2>1. Keeps(slots, slots', r) \/ \E new : slots' = Put(slots, r, new)
    BY WhatChanges DEF PutsSlots
  <2>2. QED
    BY <1>1, <2>1, OthersStore, TablesFacts
<1>6. ASSUME pc[q] \in PastRows, NEW w \in StraySlots(q)'
      PROVE  \E v \in StraySlots(q) : v.id = w.id
  <2>1. /\ w \in slots' /\ w.ins \in {Nobody, q} /\ w.del # q /\ w.val.shelf = ShelfOf[q]
        /\ w.id \notin IdsOf(NewSlots(q))
    BY <1>3 DEF StraySlots, ShelfSlots, Visible, IdsOf
  <2>2. CASE \E v \in slots :
               v.id = w.id /\ v.val = w.val /\ v.ins = w.ins /\ v.del \in {w.del, Nobody, r}
    BY <1>1, <2>1, <2>2 DEF StraySlots, ShelfSlots, Visible
  <2>3. CASE Commits(r) /\ r \in Layouts /\ w.val.shelf = ShelfOf[r]
    <3>1. pc[r] \in PastRows
      BY <2>3 DEF Commits, Goes, PastRows, PastCols
    <3>2. QED
      BY <1>6, <2>1, <2>3, <3>1 DEF Laid, Exclusive
  <2>4. QED
    BY <1>1, <2>1, <2>2, <2>3, SlotsSeen
<1>7. SweptOK(q)'
  BY <1>1, <1>2, <1>6 DEF LaidOK, SweptOK, IdsOf
<1>8. pc'[q] = "commit" => Valid(InputOf[q], base'[q])
  BY <1>1, <1>2 DEF LaidOK
<1>9. QED
  BY <1>1, <1>2, <1>3, <1>4, <1>5, <1>7, <1>8 DEF LaidOK

(* The statements of SaveLayout move what the update has swept along. *)
LEMMA SavesLaid ==
  ASSUME Placed, Kept, Laid, NEW r \in Layouts, SaveLayout(r)
  PROVE  LaidOK(r)'
<1>1. /\ r \in Requests /\ r # Nobody /\ LaidOK(r) /\ Step(r) /\ TypesOK
      /\ SavesOK(r) /\ OneWriter(cols) /\ OneWriter(slots)
  BY KindsOfRequests, RequestsAreSomebody, PlacedFacts DEF Laid, Kept, Step
<1>2. base' = base
  BY DEF SaveLayout
<1>3. NewRows(r)' = NewRows(r) /\ NewSlots(r)' = NewSlots(r)
  BY <1>2, RowsKeptToo, LayoutKept
<1>4. DropsPlaces(r) \/ Cuts(r) \/ PutsRows(r) \/ PutsCols(r) \/ PutsSlots(r)
  BY <1>1, SavesStep
<1>5. r \notin Placing
  BY KindsDiffer
<1>6. ASSUME Cuts(r)
      PROVE  /\ \E ids : rows' = Remove(rows, r, ids) /\ \A id \in ids : id \notin IdsOf(NewRows(r))
             /\ \E ids : /\ slots' = Remove(slots, r, ids)
                        /\ \A id \in ids : id \notin IdsOf(NewSlots(r))
             /\ pc[r] = "dropSlots" => pc'[r] = "putRows"
             /\ pc[r] # "dropSlots" => pc[r] \in PastSlots
  <2>1. PICK a, b, c : Cut(r, a, b, c) /\ Swept(r, a, b, c)
    BY <1>6 DEF Cuts
  <2>2. \A id \in a : id \notin IdsOf(NewRows(r))
    <3>1. pc[r] = "sweepRows" => Matching(r) = {v \in RowsOf(r) : v.id \notin IdsOf(NewRows(r))}
      BY DEF Matching
    <3>2. pc[r] # "sweepRows" => a = {}
      BY <2>1 DEF Swept
    <3>3. pc[r] = "sweepRows" => a \subseteq IdsOf(Matching(r))
      BY <2>1 DEF Swept
    <3>4. QED
      BY <3>1, <3>2, <3>3 DEF IdsOf
  <2>3. rows' = Remove(rows, r, a)
    BY <2>1 DEF Cut
  <2>4. \E ids : slots' = Remove(slots, r, ids) /\ \A id \in ids : id \notin IdsOf(NewSlots(r))
    BY <1>1, <1>6, CutsLeave
  <2>5. /\ pc[r] = "dropSlots" => pc'[r] = "putRows"
        /\ pc[r] # "dropSlots" => pc[r] \in PastSlots
    BY <1>6 DEF Cuts, Goes, PastSlots, PastCols
  <2>6. QED
    BY <2>2, <2>3, <2>4, <2>5
<1>7. pc'[r] \in PastRows => Holds(rows', r, NewRows(r))
  <2>1. CASE PutsRows(r)
    BY <2>1, PutLeaves, RowsFacts DEF PutsRows, Holds, Written, Is
  <2>2. CASE DropsPlaces(r) \/ PutsCols(r) \/ PutsSlots(r)
    <3>1. rows' = rows /\ (pc'[r] \in PastRows => pc[r] \in PastRows)
      BY <1>5, <2>2 DEF DropsPlaces, PutsCols, PutsSlots, Goes, PastRows, PastCols
    <3>2. QED
      BY <1>1, <3>1 DEF LaidOK
  <2>3. CASE Cuts(r)
    <3>1. CASE pc[r] = "dropSlots"
      BY <1>6, <2>3, <3>1 DEF PastRows, PastCols
    <3>2. CASE pc[r] # "dropSlots"
      <4>1. Holds(rows, r, NewRows(r))
        BY <1>1, <1>6, <2>3, <3>2 DEF LaidOK, PastRows, PastSlots
      <4>2. QED
        BY <1>6, <2>3, <4>1, StillHolds, RowsFacts
    <3>3. QED
      BY <3>1, <3>2
  <2>4. QED
    BY <1>4, <2>1, <2>2, <2>3
<1>8. pc'[r] \in PastSlots => Stores(slots', r, NewSlots(r))
  <2>1. CASE PutsSlots(r)
    BY <2>1, PutLeaves, TablesFacts DEF PutsSlots, Stores, Written, Is
  <2>2. CASE DropsPlaces(r) \/ PutsCols(r) \/ PutsRows(r)
    <3>1. slots' = slots /\ (pc'[r] \in PastSlots => pc[r] \in PastSlots)
      BY <1>5, <2>2 DEF DropsPlaces, PutsCols, PutsRows, Goes, PastSlots, PastCols
    <3>2. QED
      BY <1>1, <3>1 DEF LaidOK
  <2>3. CASE Cuts(r)
    <3>1. CASE pc[r] = "dropSlots"
      BY <1>6, <2>3, <3>1 DEF PastSlots, PastCols
    <3>2. CASE pc[r] # "dropSlots"
      BY <1>1, <1>6, <2>3, <3>2, StillStores, TablesFacts DEF LaidOK
    <3>3. QED
      BY <3>1, <3>2
  <2>4. QED
    BY <1>4, <2>1, <2>2, <2>3
<1>9. ASSUME NEW ids, slots' = Remove(slots, r, ids), NEW w \in StraySlots(r)'
      PROVE  \E v \in StraySlots(r) : v.id = w.id /\ v.id \notin ids
  <2>1. /\ w \in slots' /\ w.ins \in {Nobody, r} /\ w.del # r /\ w.val.shelf = ShelfOf[r]
        /\ w.id \notin IdsOf(NewSlots(r))
    BY <1>3 DEF StraySlots, ShelfSlots, Visible, IdsOf
  <2>2. PICK v \in slots : Left(w, v, r, ids)
    BY <1>9, <2>1, RemoveLeaves, TablesFacts
  <2>3. v.id \notin ids /\ v.id = w.id /\ v.val = w.val /\ v.ins = w.ins /\ v.del = w.del
    BY <2>1, <2>2 DEF Left, Is
  <2>4. QED
    BY <2>1, <2>3 DEF StraySlots, ShelfSlots, Visible
<1>10. pc'[r] \in PastSweep => StraySlots(r)' = {}
  <2>1. CASE pc[r] = "sweepSlots"
    <3>1. running[r] /\ slots' = Remove(slots, r, SlotsUnder(r, {}, {}, Found(r)))
      BY <2>1 DEF SaveLayout, Finish, Scanning, Cut
    <3>2. /\ IdsOf(StraySlots(r)) \subseteq target[r] /\ Matching(r) = StraySlots(r)
      BY <1>1, <2>1, <3>1 DEF LaidOK, SweptOK, Matching
    <3>3. \A v \in StraySlots(r) : v.id \in SlotsUnder(r, {}, {}, Found(r))
      BY <3>2 DEF Found, SlotsUnder, IdsOf
    <3>4. QED
      BY <1>9, <3>1, <3>3
  <2>2. CASE pc[r] \in {"sweepCols", "sweepRows"}
    <3>1. Cuts(r)
      BY <1>4, <2>2 DEF DropsPlaces, PutsRows, PutsCols, PutsSlots, Goes
    <3>2. StraySlots(r) = {}
      BY <1>1, <2>2 DEF LaidOK, SweptOK, PastSweep
    <3>3. QED
      BY <1>6, <1>9, <3>1, <3>2
  <2>3. CASE pc[r] \notin {"sweepSlots", "sweepCols", "sweepRows"}
    BY <1>1, <2>3 DEF SaveLayout, Finish, TypesOK, PastSweep
  <2>4. QED
    BY <2>1, <2>2, <2>3
<1>11. ~running'[r]
  BY <1>1 DEF SaveLayout, Finish, TypesOK
<1>12. pc'[r] = "commit" => Valid(InputOf[r], base[r])
  <2>1. pc'[r] = "commit" => pc[r] = "sweepRows"
    BY <1>1 DEF SaveLayout, Finish, TypesOK
  <2>2. ReadOK(r)
    BY PlacedFacts DEF ControlOK
  <2>3. QED
    BY <2>1, <2>2 DEF ReadOK, SavingPCs, LayoutPCs
<1>13. QED
  BY <1>2, <1>3, <1>7, <1>8, <1>10, <1>11, <1>12 DEF LaidOK, SweptOK

LEMMA OwnLaid ==
  ASSUME Placed, Kept, Laid, NEW r \in Layouts, Step(r) \/ CtxEnds(r)
  PROVE  LaidOK(r)'
<1>1. /\ r \in Requests /\ LaidOK(r) /\ TypesOK /\ r \notin Placing
      /\ r \notin Removes /\ r \notin Deletes
  BY KindsOfRequests, KindsDiffer, PlacedFacts DEF Laid
<1>2. CASE Begin(r)
  <2>1. /\ pc' = pc /\ base' = base /\ rows' = rows /\ slots' = slots
        /\ target'[r] = IdsOf(Matching(r))
    BY <1>1, <1>2 DEF Begin, tables, TypesOK
  <2>2. NewRows(r)' = NewRows(r) /\ NewSlots(r)' = NewSlots(r)
    BY <2>1, RowsKeptToo, LayoutKept
  <2>3. StraySlots(r)' = StraySlots(r)
    BY <2>1, <2>2 DEF StraySlots, ShelfSlots, Visible, IdsOf
  <2>4. pc[r] = "sweepSlots" => target'[r] = IdsOf(StraySlots(r))
    BY <2>1 DEF Matching
  <2>5. SweptOK(r)'
    BY <1>1, <2>1, <2>3, <2>4 DEF LaidOK, SweptOK, IdsOf
  <2>6. QED
    BY <1>1, <2>1, <2>2, <2>5 DEF LaidOK
<1>3. CASE pc'[r] \in {"done", "failed", "readCols", "readSlots", "readPlaces", "plan",
                       "dropPlaces", "putRows"}
  BY <1>3 DEF LaidOK, SweptOK, PastRows, PastCols, PastSlots, PastSweep
<1>4. CASE SaveLayout(r)
  BY <1>4, SavesLaid
<1>5. QED
  <2>1. Commit(r) \/ Abort(r) => pc'[r] \in {"done", "failed"}
    BY <1>1 DEF Commit, Abort, TypesOK
  <2>2. ReadShelf(r) \/ Plan(r) =>
          pc'[r] \in {"failed", "readCols", "readSlots", "readPlaces", "plan", "dropPlaces",
                      "putRows"}
    BY <1>1 DEF ReadShelf, Plan, Goto, TypesOK
  <2>3. ~Place(r) /\ ~RemoveItem(r) /\ ~DeleteItem(r)
    BY <1>1 DEF Place, RemoveItem, DeleteItem
  <2>4. QED
    BY <1>2, <1>3, <1>4, <2>1, <2>2, <2>3 DEF Step, CtxEnds, Deadlock

(* What a layout update sees of its shelf when it commits is what it saves. *)
LEMMA SeesItsLayout ==
  ASSUME Placed, Kept, Laid, NEW r \in Layouts, pc[r] = "commit"
  PROVE  /\ \A v \in ShelfSlots(r) : \E n \in NewSlots(r) : n.id = v.id /\ n.val = v.val
         /\ \A n \in NewSlots(r) : \E v \in ShelfSlots(r) : n.id = v.id /\ n.val = v.val
<1>1. /\ r # Nobody /\ LaidOK(r) /\ SavesOK(r) /\ OneWriter(slots)
      /\ WrittenBy(slots, Writing(Layouts))
  BY KindsOfRequests, RequestsAreSomebody, TablesFacts DEF Laid, Kept
<1>2. /\ StraySlots(r) = {} /\ Stores(slots, r, NewSlots(r))
      /\ Wrote(slots, r, NewSlots(r)) /\ Holds(slots, r, NewSlots(r))
  BY <1>1 DEF LaidOK, SweptOK, SavesOK, PastSweep, PastSlots, PastCols
<1>3. ASSUME NEW v \in ShelfSlots(r)
      PROVE  \E n \in NewSlots(r) : n.id = v.id /\ n.val = v.val
  <2>1. v.id \in IdsOf(NewSlots(r)) /\ v \in Visible(slots, r)
    BY <1>2 DEF StraySlots, ShelfSlots
  <2>2. QED
    BY <1>1, <1>2, <2>1, SeesItsOwn
<1>4. ASSUME NEW n \in NewSlots(r)
      PROVE  \E v \in ShelfSlots(r) : n.id = v.id /\ n.val = v.val
  <2>1. PICK v \in slots : v.id = n.id /\ v.val = n.val /\ v.ins = r
    BY <1>2 DEF Stores
  <2>2. v.del = Nobody
    BY <1>1, <2>1 DEF WrittenBy
  <2>3. n.val.shelf = ShelfOf[r]
    BY DEF NewSlots, LayoutSlots
  <2>4. QED
    BY <1>1, <2>1, <2>2, <2>3 DEF ShelfSlots, Visible
<1>5. QED
  BY <1>3, <1>4

(* The committed slots after a commit: those of the shelf are what the update
   saw, the others were committed before. *)
LEMMA SlotsCommitted ==
  ASSUME Placed, Kept, NEW r \in Layouts, Commits(r)
  PROVE  /\ \A w \in Current(slots)' :
              \/ /\ w.val.shelf = ShelfOf[r]
                 /\ \E v \in ShelfSlots(r) : w.id = v.id /\ w.val = v.val
              \/ /\ w.val.shelf # ShelfOf[r]
                 /\ \E v \in Current(slots) : w.id = v.id /\ w.val = v.val
         /\ \A v \in ShelfSlots(r) : \E w \in Current(slots)' : w.id = v.id /\ w.val = v.val
<1>1. r # Nobody /\ SavesOK(r) /\ slots' = Committed(slots, r)
  BY KindsOfRequests, RequestsAreSomebody DEF Kept, Commits, CommitTables
<1>2. /\ \A w \in slots' : \E v \in slots : Settled(w, v, r)
      /\ \A v \in slots : v.del # r => \E w \in slots' : Settled(w, v, r)
  BY <1>1, CommitLeaves, TablesFacts
<1>3. ASSUME NEW w \in Current(slots)'
      PROVE  \/ /\ w.val.shelf = ShelfOf[r]
                /\ \E v \in ShelfSlots(r) : w.id = v.id /\ w.val = v.val
             \/ /\ w.val.shelf # ShelfOf[r]
                /\ \E v \in Current(slots) : w.id = v.id /\ w.val = v.val
  <2>1. w \in slots' /\ w.ins = Nobody
    BY DEF Current
  <2>2. PICK v \in slots : Settled(w, v, r)
    BY <1>2, <2>1
  <2>3. v.del # r /\ v.id = w.id /\ v.val = w.val /\ v.ins \in {Nobody, r}
    BY <2>1, <2>2 DEF Settled, Is
  <2>4. v.ins = r => v.val.shelf = ShelfOf[r]
    BY <1>1 DEF SavesOK, Wrote, NewSlots, LayoutSlots
  <2>5. QED
    BY <2>3, <2>4 DEF Current, ShelfSlots, Visible
<1>4. ASSUME NEW v \in ShelfSlots(r)
      PROVE  \E w \in Current(slots)' : w.id = v.id /\ w.val = v.val
  <2>1. v \in slots /\ v.ins \in {Nobody, r} /\ v.del # r
    BY DEF ShelfSlots, Visible
  <2>2. PICK w \in slots' : Settled(w, v, r)
    BY <1>2, <2>1
  <2>3. QED
    BY <2>1, <2>2 DEF Settled, Is, Current
<1>5. QED
  BY <1>3, <1>4

LEMMA CellsStep ==
  ASSUME Placed, Kept, Laid, NEW r \in Requests, Step(r) \/ CtxEnds(r)
  PROVE  CellsDistinct'
<1>1. r # Nobody /\ CellsDistinct
  BY RequestsAreSomebody DEF Laid
<1>2. CASE Commits(r) /\ r \in Layouts
  <2>1. pc[r] = "commit" /\ Valid(InputOf[r], base[r])
    BY <1>2 DEF Commits, Goes, Laid, LaidOK
  <2>2. ASSUME NEW w \in Current(slots)', w.val.shelf = ShelfOf[r]
        PROVE  \E e \in Edits(InputOf[r]) :
                 w.val.cell = e.cell /\ w.id = SlotId(r, InputOf[r], base[r], e)
    <3>1. PICK v \in ShelfSlots(r) : w.id = v.id /\ w.val = v.val
      BY <1>2, <2>2, SlotsCommitted
    <3>2. PICK n \in NewSlots(r) : n.id = v.id /\ n.val = v.val
      BY <1>2, <2>1, <3>1, SeesItsLayout
    <3>3. QED
      BY <3>1, <3>2 DEF NewSlots, LayoutSlots
  <2>3. \A e, f \in Edits(InputOf[r]) : e.cell = f.cell => e = f
    BY <2>1 DEF Valid, Edits
  <2>4. ASSUME NEW s \in Current(slots)', NEW t \in Current(slots)',
               s.val.shelf = t.val.shelf, s.val.cell = t.val.cell
        PROVE  s.id = t.id
    <3>1. CASE s.val.shelf = ShelfOf[r]
      BY <2>2, <2>3, <2>4, <3>1
    <3>2. CASE s.val.shelf # ShelfOf[r]
      BY <1>1, <1>2, <2>4, <3>2, SlotsCommitted DEF CellsDistinct
    <3>3. QED
      BY <3>1, <3>2
  <2>5. QED
    BY <2>4 DEF CellsDistinct
<1>3. CASE ~(Commits(r) /\ r \in Layouts)
  <2>1. \A w \in Current(slots)' : \E v \in Current(slots) : v.id = w.id /\ v.val = w.val
    BY <1>1, <1>3, SlotsSeen DEF Current
  <2>2. QED
    BY <1>1, <2>1 DEF CellsDistinct
<1>4. QED
  BY <1>2, <1>3

LEMMA LaidStep ==
  ASSUME Placed, Kept, Laid, RowShared, [Next]_vars
  PROVE  Laid'
<1>1. ASSUME NEW r \in Requests, Step(r) \/ CtxEnds(r) PROVE Laid'
  <2>1. Exclusive' /\ CellsDistinct'
    BY <1>1, ExclusiveStep, CellsStep
  <2>2. ASSUME NEW q \in Layouts PROVE LaidOK(q)'
    BY <1>1, <2>2, OwnLaid, OthersLaid
  <2>3. QED
    BY <2>1, <2>2 DEF Laid
<1>2. CASE UNCHANGED vars
  <2>1. Exclusive' = Exclusive /\ CellsDistinct' = CellsDistinct
    BY <1>2 DEF vars, Exclusive, CellsDistinct, Current
  <2>2. ASSUME NEW r \in Layouts PROVE LaidOK(r)'
    <3>1. NewRows(r)' = NewRows(r) /\ NewSlots(r)' = NewSlots(r)
      BY <1>2, RowsKeptToo, LayoutKept DEF vars
    <3>2. StraySlots(r)' = StraySlots(r)
      BY <1>2, <3>1 DEF vars, StraySlots, ShelfSlots, Visible, IdsOf
    <3>3. SweptOK(r)'
      BY <1>2, <3>2 DEF vars, Laid, LaidOK, SweptOK, IdsOf
    <3>4. QED
      BY <1>2, <3>1, <3>3 DEF vars, Laid, LaidOK
  <2>3. QED
    BY <2>1, <2>2 DEF Laid
<1>3. MayEnd \subseteq Requests
  BY PlacementAssumption
<1>4. QED
  BY <1>1, <1>2, <1>3 DEF Next, Quiet

LEMMA LaidInit ==
  ASSUME Init
  PROVE  Laid
<1>1. \A r \in Layouts : pc[r] \in {"start", "done"}
  BY KindsOfRequests DEF Init
<1>2. Exclusive /\ \A r \in Layouts : LaidOK(r)
  BY <1>1 DEF Exclusive, LaidOK, SweptOK, PastRows, PastCols, PastSlots, PastSweep
<1>3. ASSUME NEW s \in slots, NEW t \in slots,
             s.val.shelf = t.val.shelf, s.val.cell = t.val.cell
      PROVE  s.id = t.id
  <2>1. PICK a \in FirstSlots : s = Stored(a, [shelf |-> a[1], row |-> <<a[1], a[2][1]>>,
                                              col |-> a, cell |-> a[2]])
    BY DEF Init
  <2>2. PICK b \in FirstSlots : t = Stored(b, [shelf |-> b[1], row |-> <<b[1], b[2][1]>>,
                                              col |-> b, cell |-> b[2]])
    BY DEF Init
  <2>3. s.id = a /\ s.val.shelf = a[1] /\ s.val.cell = a[2]
    BY <2>1 DEF Stored
  <2>4. t.id = b /\ t.val.shelf = b[1] /\ t.val.cell = b[2]
    BY <2>2 DEF Stored
  <2>5. a = <<a[1], a[2]>> /\ b = <<b[1], b[2]>>
    BY FirstAssumption
  <2>6. QED
    BY <1>3, <2>3, <2>4, <2>5
<1>4. QED
  BY <1>2, <1>3 DEF Laid, CellsDistinct, Current

(* Laid is an invariant when updates of a shelf share a row. *)
LEMMA AlwaysLaid == Spec /\ []RowShared => [](Placed /\ Kept /\ Laid)
<1>1. Init => Laid
  BY LaidInit
<1>2. (Placed /\ Kept) /\ Laid /\ RowShared /\ [Next]_vars => Laid'
  BY LaidStep
<1>3. QED
  BY <1>1, <1>2, AlwaysKept, PTL DEF Spec

(* What is stored when a layout update commits is what it asked for. *)
LEMMA SavesReplace ==
  ASSUME Placed, Kept, Laid, [Next]_vars, NEW r \in Layouts, Saves(r)
  PROVE  SlotsOnShelf(ShelfOf[r])' = NewSlots(r)
<1>1. Commits(r) /\ pc[r] = "commit"
  BY KindsOfRequests, SavesCommits DEF Saves
<1>2. \A n \in NewSlots(r) : n = [id |-> n.id, val |-> n.val] /\ n.val.shelf = ShelfOf[r]
  BY DEF NewSlots, LayoutSlots
<1>3. SlotsOnShelf(ShelfOf[r])' =
        {[id |-> w.id, val |-> w.val] : w \in {s \in Current(slots)' : s.val.shelf = ShelfOf[r]}}
  BY DEF SlotsOnShelf, Stripped
<1>4. ASSUME NEW w \in Current(slots)', w.val.shelf = ShelfOf[r]
      PROVE  [id |-> w.id, val |-> w.val] \in NewSlots(r)
  <2>1. PICK v \in ShelfSlots(r) : w.id = v.id /\ w.val = v.val
    BY <1>1, <1>4, SlotsCommitted
  <2>2. PICK n \in NewSlots(r) : n.id = v.id /\ n.val = v.val
    BY <1>1, SeesItsLayout
  <2>3. QED
    BY <1>2, <2>1, <2>2
<1>5. ASSUME NEW n \in NewSlots(r)
      PROVE  \E w \in Current(slots)' :
               w.val.shelf = ShelfOf[r] /\ n = [id |-> w.id, val |-> w.val]
  <2>1. PICK v \in ShelfSlots(r) : n.id = v.id /\ n.val = v.val
    BY <1>1, SeesItsLayout
  <2>2. PICK w \in Current(slots)' : w.id = v.id /\ w.val = v.val
    BY <1>1, SlotsCommitted
  <2>3. QED
    BY <1>2, <2>1, <2>2
<1>6. QED
  BY <1>3, <1>4, <1>5

-----------------------------------------------------------------------------
(* A row that every update of its shelf keeps is one they share. *)
KeepsRow(shelf, row) ==
  \A q \in Layouts : ShelfOf[q] = shelf => \E e \in Edits(InputOf[q]) : e.cell[1] = row

(* The updates of a shelf keep one of the rows it has at the start. *)
RowsKept ==
  \A r \in Layouts : \E s \in FirstSlots : s[1] = ShelfOf[r] /\ KeepsRow(s[1], s[2][1])

(* Where a layout update has read its shelf's rows and goes on. *)
PastRead == LayoutPCs \union {"commit"}

(* The row has one ID, which whoever replaces it writes again. *)
RowThere(id) ==
  \E v \in rows :
    /\ v.id = id /\ v.ins = Nobody
    /\ v.del = Nobody \/ \E n \in rows : n.id = id /\ n.ins = v.del

RowRead(q, shelf, row) ==
  /\ \A b \in base[q].rows : b.id = <<shelf, row>> <=> ShelfOf[q] = shelf /\ b.val.row = row
  /\ ShelfOf[q] = shelf /\ pc[q] \in PastRead => \E b \in base[q].rows : b.id = <<shelf, row>>

RowStays(shelf, row) ==
  /\ \A v \in rows : v.id = <<shelf, row>> <=> v.val.shelf = shelf /\ v.val.row = row
  /\ RowThere(<<shelf, row>>)
  /\ \A q \in Layouts : RowRead(q, shelf, row)

RowsStay == \A s \in FirstSlots : KeepsRow(s[1], s[2][1]) => RowStays(s[1], s[2][1])

LEMMA IdOfSome ==
  ASSUME NEW S, S # {}, NEW new
  PROVE  \E v \in S : IdOf(S, new) = v.id
BY DEF IdOf

(* Under the row's ID every update of the shelf saves the row, and no update
   saves another. *)
LEMMA SavesTheRow ==
  ASSUME NEW shelf \in Shelves, NEW row, KeepsRow(shelf, row), NEW q \in Layouts,
         RowRead(q, shelf, row), pc[q] \in PastRead
  PROVE  /\ ShelfOf[q] = shelf => <<shelf, row>> \in IdsOf(NewRows(q))
         /\ \A n \in NewRows(q) : n.id = <<shelf, row>> <=> n.val.shelf = shelf /\ n.val.row = row
<1> DEFINE read(j) == {b \in base[q].rows : b.val.row = j}
<1>1. q # shelf
  BY KindsAssumption, KindsOfRequests
<1>2. ASSUME NEW j
      PROVE  RowId(q, base[q], j) = <<shelf, row>> <=> ShelfOf[q] = shelf /\ j = row
  <2>1. RowId(q, base[q], j) = IdOf(read(j), <<q, j>>)
    BY DEF RowId
  <2>2. CASE read(j) # {}
    <3>1. PICK b \in read(j) : IdOf(read(j), <<q, j>>) = b.id
      BY <2>2, IdOfSome
    <3>2. b \in base[q].rows /\ b.val.row = j
      BY <3>1
    <3> HIDE DEF read
    <3>3. QED
      BY <2>1, <3>1, <3>2 DEF RowRead
  <2>3. CASE read(j) = {}
    <3>1. RowId(q, base[q], j) = <<q, j>>
      BY <2>1, <2>3 DEF IdOf
    <3>2. ~(ShelfOf[q] = shelf /\ j = row)
      BY <2>3 DEF RowRead
    <3>3. QED
      BY <1>1, <3>1, <3>2
  <2>4. QED
    BY <2>2, <2>3
<1>3. ASSUME ShelfOf[q] = shelf PROVE <<shelf, row>> \in IdsOf(NewRows(q))
  <2>1. PICK e \in Edits(InputOf[q]) : e.cell[1] = row
    BY <1>3 DEF KeepsRow
  <2>2. [id |-> RowId(q, base[q], e.cell[1]), val |-> [shelf |-> ShelfOf[q], row |-> e.cell[1]]]
          \in NewRows(q)
    BY DEF NewRows, LayoutRows
  <2>3. RowId(q, base[q], e.cell[1]) = <<shelf, row>>
    BY <1>2, <1>3, <2>1
  <2>4. QED
    BY <2>2, <2>3 DEF IdsOf
<1>4. ASSUME NEW n \in NewRows(q)
      PROVE  n.id = <<shelf, row>> <=> n.val.shelf = shelf /\ n.val.row = row
  <2>1. PICK e \in Edits(InputOf[q]) :
          /\ n.id = RowId(q, base[q], e.cell[1])
          /\ n.val.shelf = ShelfOf[q] /\ n.val.row = e.cell[1]
    BY DEF NewRows, LayoutRows
  <2>2. QED
    BY <1>2, <2>1
<1>5. QED
  BY <1>3, <1>4

(* Nobody deletes the row. *)
LEMMA CutsSpareTheRow ==
  ASSUME NEW shelf \in Shelves, NEW row, KeepsRow(shelf, row), RowStays(shelf, row),
         NEW r \in Layouts, NEW a, NEW b, NEW c, Swept(r, a, b, c)
  PROVE  <<shelf, row>> \notin a
<1>1. CASE pc[r] = "sweepRows"
  <2>1. a \subseteq IdsOf(RowsOf(r)) /\ \A id \in a : id \notin IdsOf(NewRows(r))
    <3>1. Matching(r) = {v \in RowsOf(r) : v.id \notin IdsOf(NewRows(r))}
      BY <1>1 DEF Matching
    <3>2. a \subseteq IdsOf(Matching(r))
      BY <1>1 DEF Swept
    <3>3. QED
      BY <3>1, <3>2 DEF IdsOf
  <2>2. CASE ShelfOf[r] = shelf
    <3>1. pc[r] \in PastRead /\ RowRead(r, shelf, row)
      BY <1>1 DEF PastRead, LayoutPCs, RowStays
    <3>2. <<shelf, row>> \in IdsOf(NewRows(r))
      BY <2>2, <3>1, SavesTheRow
    <3>3. QED
      BY <2>1, <3>2
  <2>3. CASE ShelfOf[r] # shelf
    BY <2>1, <2>3 DEF IdsOf, RowsOf, Visible, RowStays
  <2>4. QED
    BY <2>2, <2>3
<1>2. CASE pc[r] # "sweepRows"
  BY <1>2 DEF Swept
<1>3. QED
  BY <1>1, <1>2

LEMMA RowNamesStep ==
  ASSUME Placed, NEW shelf \in Shelves, NEW row, KeepsRow(shelf, row), RowStays(shelf, row),
         NEW r \in Requests, Step(r) \/ CtxEnds(r), NEW w \in rows'
  PROVE  w.id = <<shelf, row>> <=> w.val.shelf = shelf /\ w.val.row = row
<1>1. Versions(rows)
  BY RowsFacts
<1>2. CASE Keeps(rows, rows', r)
  <2>1. FromBefore(rows, rows', {})
    BY <1>1, <1>2, AllFromBefore DEF Keeps
  <2>2. QED
    BY <2>1 DEF FromBefore, RowStays
<1>3. CASE PutsRows(r)
  <2>1. /\ r \in Layouts /\ pc[r] \in PastRead
        /\ FromBefore(rows, rows', NewRows(r))
    BY <1>1, <1>3, AllFromBefore DEF PutsRows, Goes, PastRead, LayoutPCs
  <2>2. \A n \in NewRows(r) : n.id = <<shelf, row>> <=> n.val.shelf = shelf /\ n.val.row = row
    BY <2>1, SavesTheRow DEF RowStays
  <2>3. QED
    BY <2>1, <2>2 DEF FromBefore, RowStays
<1>4. QED
  BY <1>2, <1>3, RowsChange

LEMMA RowThereStep ==
  ASSUME Placed, NEW shelf \in Shelves, NEW row, KeepsRow(shelf, row), RowStays(shelf, row),
         NEW r \in Requests, Step(r) \/ CtxEnds(r)
  PROVE  RowThere(<<shelf, row>>)'
<1> DEFINE id == <<shelf, row>>
<1>1. r # Nobody /\ Versions(rows) /\ WrittenBy(rows, Writing(Layouts))
  BY RowsFacts, RequestsAreSomebody
<1>2. PICK v \in rows :
        /\ v.id = id /\ v.ins = Nobody
        /\ v.del = Nobody \/ \E n \in rows : n.id = id /\ n.ins = v.del
  BY DEF RowStays, RowThere
<1>3. ASSUME NEW n \in rows, n.ins = v.del, v.del # Nobody PROVE n.del = Nobody
  BY <1>1, <1>3 DEF WrittenBy
<1> HIDE DEF id
<1>4. CASE rows' = rows
  BY <1>2, <1>4 DEF RowThere, id
<1>5. ASSUME NEW ids, rows' = Remove(rows, r, ids), id \notin ids
      PROVE  RowThere(id)'
  <2>1. \A x \in rows : x.id = id => \E y \in rows' : Is(y, x, x.ins, x.del)
    BY <1>1, <1>5, RemoveLeaves DEF Left
  <2>2. QED
    BY <1>2, <2>1 DEF Is, RowThere
<1>6. CASE Cuts(r)
  <2>1. PICK a, b, c : Cut(r, a, b, c) /\ Swept(r, a, b, c)
    BY <1>6 DEF Cuts
  <2>2. id \notin a
    BY <1>6, <2>1, CutsSpareTheRow DEF Cuts, id
  <2>3. QED
    BY <1>5, <2>1, <2>2 DEF Cut, id
<1>7. CASE PutsRows(r)
  <2>1. rows' = Put(rows, r, NewRows(r)) /\ Writers(rows, r, IdsOf(NewRows(r))) = {}
    BY <1>7 DEF PutsRows
  <2>2. \A x \in rows : ~(x.id \in IdsOf(NewRows(r)) /\ x.ins = r) =>
          \E y \in rows' : Left(y, x, r, IdsOf(NewRows(r)))
    BY <1>1, <2>1, PutLeaves
  <2>3. CASE id \in IdsOf(NewRows(r))
    <3>1. PICK y \in rows' : Left(y, v, r, IdsOf(NewRows(r)))
      BY <1>1, <1>2, <2>2
    <3>2. y.id = id /\ y.ins = Nobody /\ y.del = r
      BY <1>2, <2>3, <3>1 DEF Left, Is
    <3>3. \E w \in rows' : w.id = id /\ w.ins = r
      BY <1>1, <2>1, <2>3, PutLeaves DEF Written, Is, IdsOf
    <3>4. QED
      BY <3>2, <3>3 DEF RowThere, id
  <2>4. CASE id \notin IdsOf(NewRows(r))
    <3>1. \A x \in rows : x.id = id => \E y \in rows' : Is(y, x, x.ins, x.del)
      BY <2>2, <2>4 DEF Left
    <3>2. QED
      BY <1>2, <3>1 DEF Is, RowThere, id
  <2>5. QED
    BY <2>3, <2>4
<1>8. CASE Commits(r)
  <2>1. /\ rows' = Committed(rows, r)
        /\ \A x \in rows : x.del # r => \E y \in rows' : Settled(y, x, r)
    BY <1>1, <1>8, CommitLeaves DEF Commits, CommitTables
  <2>2. CASE v.del = r
    <3>1. PICK n \in rows : n.id = id /\ n.ins = r
      BY <1>1, <1>2, <2>2
    <3>2. n.del = Nobody
      BY <1>1, <1>3, <2>2, <3>1
    <3>3. PICK y \in rows' : Settled(y, n, r)
      BY <1>1, <2>1, <3>2
    <3>4. QED
      BY <3>1, <3>2, <3>3 DEF Settled, Is, RowThere, id
  <2>3. CASE v.del # r
    <3>1. PICK y \in rows' : Settled(y, v, r)
      BY <2>1, <2>3
    <3>2. y.id = id /\ y.ins = Nobody /\ y.del = v.del
      BY <1>1, <1>2, <3>1 DEF Settled, Is
    <3>3. ASSUME v.del # Nobody PROVE \E n \in rows' : n.id = id /\ n.ins = v.del
      <4>1. PICK n \in rows : n.id = id /\ n.ins = v.del
        BY <1>2, <3>3
      <4>2. n.del = Nobody
        BY <1>3, <3>3, <4>1
      <4>3. QED
        BY <1>1, <2>1, <2>3, <4>1, <4>2 DEF Settled, Is
    <3>4. QED
      BY <3>2, <3>3 DEF RowThere, id
  <2>4. QED
    BY <2>2, <2>3
<1>9. CASE GivesUp(r)
  <2>1. \A x \in rows : x.ins # r => \E y \in rows' : Undone(y, x, r)
    BY <1>1, <1>9, RollbackLeaves DEF GivesUp, Abort
  <2>2. PICK y \in rows' : Undone(y, v, r)
    BY <1>1, <1>2, <2>1
  <2>3. y.id = id /\ y.ins = Nobody /\ y.del = (IF v.del = r THEN Nobody ELSE v.del)
    BY <1>2, <2>2 DEF Undone, Is
  <2>4. ASSUME v.del \notin {Nobody, r} PROVE \E n \in rows' : n.id = id /\ n.ins = v.del
    BY <1>2, <2>1, <2>4 DEF Undone, Is
  <2>5. QED
    BY <2>3, <2>4 DEF RowThere, id
<1>10. CASE Reads(r) \/ DropsPlaces(r) \/ PutsCols(r) \/ PutsSlots(r) \/ Creates(r) \/ Inserts(r)
            \/ Unplaces(r) \/ DropsItem(r)
  BY <1>4, <1>10
     DEF Reads, tables, DropsPlaces, PutsCols, PutsSlots, Creates, Inserts, Unplaces, DropsItem
<1>11. QED
  BY <1>4, <1>6, <1>7, <1>8, <1>9, <1>10, Steps, PlacedFacts DEF id

LEMMA RowReadStep ==
  ASSUME Placed, NEW shelf \in Shelves, NEW row, KeepsRow(shelf, row), RowStays(shelf, row),
         NEW r \in Requests, Step(r) \/ CtxEnds(r), NEW q \in Layouts
  PROVE  RowRead(q, shelf, row)'
<1> DEFINE id == <<shelf, row>>
<1>1. /\ q \in Requests /\ TypesOK /\ ReadsTyped /\ RowRead(q, shelf, row)
      /\ q \notin Placing /\ q \notin Removes /\ q \notin Deletes
      /\ base[q] = [rows |-> base[q].rows, cols |-> base[q].cols, slots |-> base[q].slots,
                    places |-> base[q].places]
  BY PlacedFacts, KindsOfRequests, KindsDiffer, TypesParts DEF RowStays, ReadsTyped
<1>2. CASE base'[q].rows = base[q].rows /\ (pc'[q] \in PastRead => pc[q] \in PastRead)
  BY <1>1, <1>2 DEF RowRead
<1>3. CASE q # r
  BY <1>1, <1>2, <1>3, OnlyOne
<1>4. CASE q = r /\ ~ReadShelf(r)
  <2>1. base' = base
    BY <1>4, ReadsKept
  <2>2. pc'[r] \in PastRead => pc[r] \in PastRead
    <3>1. Begin(r) => pc' = pc
      BY DEF Begin
    <3>2. Plan(r) \/ SaveLayout(r) \/ Commit(r) => pc[r] \in PastRead
      BY DEF Plan, SaveLayout, Commit, Goto, Finish, PastRead, LayoutPCs
    <3>3. Abort(r) => pc'[r] \notin PastRead
      BY <1>1, <1>4 DEF Abort, TypesOK, PastRead, LayoutPCs
    <3>4. ~Place(r) /\ ~RemoveItem(r) /\ ~DeleteItem(r)
      BY <1>1, <1>4 DEF Place, RemoveItem, DeleteItem
    <3>5. QED
      BY <1>4, <3>1, <3>2, <3>3, <3>4 DEF Step, CtxEnds, Deadlock
  <2>3. QED
    BY <1>2, <1>4, <2>1, <2>2
<1>5. CASE q = r /\ ReadShelf(r)
  <2>1. CASE pc[r] # "start"
    <3>1. \/ base'[r] = [base[r] EXCEPT !.cols = Stripped(ColsOf(r))]
          \/ base'[r] = [base[r] EXCEPT !.slots = Stripped(ShelfSlots(r))]
          \/ base'[r] = [base[r] EXCEPT !.places = Stripped(ShelfPlaces(r))]
      BY <1>1, <1>5, <2>1 DEF ReadShelf, Read, Goto, TypesOK
    <3>2. base'[q].rows = base[q].rows
      BY <1>1, <1>5, <3>1
    <3>3. pc[q] \in PastRead
      BY <1>5, <2>1 DEF ReadShelf, Goto, PastRead, LayoutPCs
    <3>4. QED
      BY <1>2, <3>2, <3>3
  <2>2. CASE base' = base /\ pc'[r] = "failed"
    BY <1>2, <1>5, <2>2 DEF PastRead, LayoutPCs
  <2>3. CASE pc[r] = "start" /\ base'[r] = [base[r] EXCEPT !.rows = Stripped(RowsOf(r))]
    <3>1. base'[q].rows = {[id |-> v.id, val |-> v.val] : v \in RowsOf(r)}
      BY <1>1, <1>5, <2>3 DEF Stripped
    <3>2. \A v \in RowsOf(r) : /\ v.val.shelf = ShelfOf[r]
                               /\ v.id = id <=> v.val.shelf = shelf /\ v.val.row = row
      BY DEF RowsOf, Visible, RowStays
    <3>3. \A b \in base'[q].rows : b.id = id <=> ShelfOf[q] = shelf /\ b.val.row = row
      BY <1>5, <3>1, <3>2
    <3>4. ASSUME ShelfOf[q] = shelf PROVE \E b \in base'[q].rows : b.id = id
      <4>1. PICK v \in rows : v.id = id /\ v.ins = Nobody
        BY DEF RowStays, RowThere
      <4>2. v.del # r
        BY <1>1, <1>5, <2>3, RowsFacts, RequestsAreSomebody
           DEF WrittenBy, Writing, WritingPCs, SavingPCs, LayoutPCs
      <4>3. v.val.shelf = ShelfOf[r]
        BY <1>5, <3>4, <4>1 DEF RowStays
      <4>4. v \in RowsOf(r)
        BY <4>1, <4>2, <4>3 DEF RowsOf, Visible
      <4>5. [id |-> v.id, val |-> v.val] \in base'[q].rows
        BY <3>1, <4>4
      <4>6. QED
        BY <4>1, <4>5
    <3>5. QED
      BY <3>3, <3>4 DEF RowRead
  <2>4. QED
    <3>1. pc[r] = "start" =>
            \/ base' = base /\ pc'[r] = "failed"
            \/ base'[r] = [base[r] EXCEPT !.rows = Stripped(RowsOf(r))]
      BY <1>1, <1>5 DEF ReadShelf, Read, Goto, TypesOK
    <3>2. QED
      BY <2>1, <2>2, <2>3, <3>1
<1>6. QED
  BY <1>3, <1>4, <1>5

LEMMA RowsStayStep ==
  ASSUME Placed, RowsStay, [Next]_vars
  PROVE  RowsStay'
<1>1. ASSUME NEW r \in Requests, Step(r) \/ CtxEnds(r),
             NEW s \in FirstSlots, KeepsRow(s[1], s[2][1])
      PROVE  RowStays(s[1], s[2][1])'
  <2>1. s[1] \in Shelves /\ RowStays(s[1], s[2][1])
    BY <1>1, FirstAssumption DEF RowsStay
  <2>2. \A w \in rows' : w.id = <<s[1], s[2][1]>> <=> w.val.shelf = s[1] /\ w.val.row = s[2][1]
    BY <1>1, <2>1, RowNamesStep
  <2>3. RowThere(<<s[1], s[2][1]>>)' /\ \A q \in Layouts : RowRead(q, s[1], s[2][1])'
    BY <1>1, <2>1, RowThereStep, RowReadStep
  <2>4. QED
    BY <2>2, <2>3 DEF RowStays
<1>2. CASE UNCHANGED vars
  BY <1>2 DEF vars, RowsStay, RowStays, RowThere, RowRead
<1>3. MayEnd \subseteq Requests
  BY PlacementAssumption
<1>4. QED
  BY <1>1, <1>2, <1>3 DEF Next, Quiet, RowsStay

LEMMA RowsStayInit ==
  ASSUME Init
  PROVE  RowsStay
<1>1. /\ rows = {Stored(<<s[1], s[2][1]>>, [shelf |-> s[1], row |-> s[2][1]]) : s \in FirstSlots}
      /\ \A q \in Layouts : base[q].rows = {} /\ pc[q] \in {"start", "done"}
  BY KindsOfRequests DEF Init
<1>2. ASSUME NEW s \in FirstSlots PROVE RowStays(s[1], s[2][1])
  <2>1. \A v \in rows : v.id = <<v.val.shelf, v.val.row>>
    BY <1>1 DEF Stored
  <2>2. RowThere(<<s[1], s[2][1]>>)
    <3>1. Stored(<<s[1], s[2][1]>>, [shelf |-> s[1], row |-> s[2][1]]) \in rows
      BY <1>1
    <3>2. QED
      BY <3>1 DEF Stored, RowThere
  <2>3. \A q \in Layouts : RowRead(q, s[1], s[2][1])
    BY <1>1 DEF RowRead, PastRead, LayoutPCs
  <2>4. QED
    BY <2>1, <2>2, <2>3 DEF RowStays
<1>3. QED
  BY <1>2 DEF RowsStay

LEMMA KeptRowIsShared ==
  ASSUME RowsKept, RowsStay
  PROVE  RowShared
<1>1. ASSUME NEW q \in Layouts, NEW r \in Layouts, ShelfOf[q] = ShelfOf[r],
             pc[q] \in PastRows, pc[r] = "putRows"
      PROVE  \E id \in IdsOf(NewRows(q)) : id \in IdsOf(NewRows(r))
  <2>1. PICK s \in FirstSlots : s[1] = ShelfOf[r] /\ KeepsRow(s[1], s[2][1])
    BY DEF RowsKept
  <2>2. s[1] \in Shelves /\ RowRead(q, s[1], s[2][1]) /\ RowRead(r, s[1], s[2][1])
    BY <2>1, FirstAssumption DEF RowsStay, RowStays
  <2>3. pc[q] \in PastRead /\ pc[r] \in PastRead
    BY <1>1 DEF PastRead, PastRows, PastCols, LayoutPCs
  <2>4. <<s[1], s[2][1]>> \in IdsOf(NewRows(q)) /\ <<s[1], s[2][1]>> \in IdsOf(NewRows(r))
    BY <1>1, <2>1, <2>2, <2>3, SavesTheRow
  <2>5. QED
    BY <2>4
<1>2. QED
  BY <1>1 DEF RowShared

LEMMA RowsAreShared ==
  ASSUME RowsKept
  PROVE  Spec => []RowShared
<1>1. Init => RowsStay
  BY RowsStayInit
<1>2. Placed /\ RowsStay /\ [Next]_vars => RowsStay'
  BY RowsStayStep
<1>3. RowsStay => RowShared
  BY KeptRowIsShared
<1>4. QED
  BY <1>1, <1>2, <1>3, AlwaysPlaced, PTL DEF Spec

(***************************************************************************)
(* No two slots of a shelf share a row and a column, whatever layouts are  *)
(* saved at once, if the updates that overlap share a row: normalizeSlots  *)
(* sees to it within one layout (service.go 355-359), the second update    *)
(* waits for the row and then sweeps what the first has saved.  Without a  *)
(* row in common they do not wait, as run shelf_emptied shows.             *)
(***************************************************************************)
THEOREM CellsStayDistinct == Spec /\ []RowShared => []CellsDistinct
<1>1. Laid => CellsDistinct
  BY DEF Laid
<1>2. QED
  BY <1>1, AlwaysLaid, PTL

(***************************************************************************)
(* What is stored of a shelf when a layout update commits is what it asked *)
(* for, nothing more and nothing less, whatever other updates of the shelf *)
(* and placements did since it read the shelf, if the updates that overlap *)
(* share a row (SaveLayout 176-205).                                       *)
(***************************************************************************)
THEOREM LayoutsReplace == Spec /\ []RowShared => LayoutReplaces
<1>1. Placed /\ Kept /\ Laid /\ [Next]_vars =>
        [\A r \in Layouts : Saves(r) => SlotsOnShelf(ShelfOf[r])' = NewSlots(r)]_vars
  BY SavesReplace
<1>2. QED
  BY <1>1, AlwaysLaid, PTL DEF Spec, LayoutReplaces

(***************************************************************************)
(* Updates that keep one of the rows their shelf has at the start share    *)
(* it, though others move, rename and delete everything else: so layouts   *)
(* replace each other whole, and no two slots share a cell.                *)
(***************************************************************************)
THEOREM LayoutsWithARowReplace ==
  ASSUME RowsKept
  PROVE  Spec => LayoutReplaces /\ []CellsDistinct
BY RowsAreShared, LayoutsReplace, CellsStayDistinct, PTL

-----------------------------------------------------------------------------
(* Requests that cannot put one item on two shelves. *)

(* Of the requests made together, those that place go to one shelf, or name
   the items they place, which differ. *)
MadeApart ==
  \A made \in Together : \A q, r \in made \intersect Placing :
    q # r => \/ ShelfOf[q] = ShelfOf[r]
             \/ q \in Assigns /\ r \in Assigns /\ ItemOf[q] # ItemOf[r]

(* Who is not made is done; who names its item places that one. *)
OnlyMade ==
  /\ \E made \in Together : \A r \in Requests : r \notin made => pc[r] = "done"
  /\ \A r \in Assigns : item[r] = ItemOf[r] /\ pc[r] \notin {"find", "create"}

LEMMA OnlyMadeStep ==
  ASSUME Placed, OnlyMade, [Next]_vars
  PROVE  OnlyMade'
<1>1. ASSUME NEW r \in Requests, Step(r) \/ CtxEnds(r) PROVE OnlyMade'
  <2>1. /\ TypesOK /\ \A q \in Requests \ {r} : pc'[q] = pc[q] /\ item'[q] = item[q]
    BY <1>1, OnlyOne, PlacedFacts
  <2>2. pc[r] # "done"
    <3>1. CASE Step(r)
      <4>1. Begin(r) => pc[r] \in Scanning
        BY DEF Begin
      <4>2. Deadlock(r) => pc[r] \notin Ended
        BY WhoBlocks DEF Deadlock
      <4>3. ReadShelf(r) \/ Plan(r) \/ SaveLayout(r) \/ Commit(r) => pc[r] # "done"
        BY DEF ReadShelf, Plan, SaveLayout, Commit, Goto, Finish
      <4>4. Place(r) \/ RemoveItem(r) \/ DeleteItem(r) => pc[r] # "done"
        BY DEF Place, CheckItem, CheckShelf, FindByISBN, CreateItem, CheckSlot, Clear,
               InsertPlace, RemoveItem, DeleteItem, Goto, Finish
      <4>5. QED
        BY <3>1, <4>1, <4>2, <4>3, <4>4 DEF Step, Scanning, Ended
    <3>2. CASE CtxEnds(r)
      BY <3>2 DEF CtxEnds, Ended
    <3>3. QED
      BY <1>1, <3>1, <3>2
  <2>3. \E made \in Together : \A q \in Requests : q \notin made => pc'[q] = "done"
    BY <2>1, <2>2 DEF OnlyMade
  <2>4. ASSUME r \in Assigns PROVE item'[r] = item[r] /\ pc'[r] \notin {"find", "create"}
    <3>1. pc[r] \notin {"find", "create"} /\ r \notin Scans /\ r \notin Layouts
          /\ r \notin Removes /\ r \notin Deletes
      BY <2>4, KindsAssumption DEF OnlyMade, Placing
    <3>2. ~FindByISBN(r) /\ ~CreateItem(r) /\ ~CheckShelf(r) /\ ~ReadShelf(r) /\ ~Plan(r)
          /\ ~SaveLayout(r) /\ ~RemoveItem(r) /\ ~DeleteItem(r)
      BY <3>1 DEF FindByISBN, CreateItem, CheckShelf, ReadShelf, Plan, SaveLayout, RemoveItem,
                  DeleteItem, Finish
    <3>3. item' = item
      BY <1>1, <3>2, ReadsKept
    <3>4. Begin(r) => pc' = pc
      BY DEF Begin
    <3>5. Commit(r) \/ Abort(r) \/ CheckItem(r) \/ CheckSlot(r) \/ Clear(r) \/ InsertPlace(r) =>
            pc'[r] \notin {"find", "create"}
      BY <2>1 DEF Commit, Abort, CheckItem, CheckSlot, Clear, InsertPlace, Goto, Finish, TypesOK
    <3>6. QED
      BY <1>1, <3>1, <3>2, <3>3, <3>4, <3>5 DEF Step, CtxEnds, Deadlock, Place
  <2>5. ASSUME NEW q \in Assigns PROVE item'[q] = ItemOf[q] /\ pc'[q] \notin {"find", "create"}
    BY <2>1, <2>4, <2>5, KindsOfRequests DEF OnlyMade, Placing
  <2>6. QED
    BY <2>3, <2>5 DEF OnlyMade
<1>2. CASE UNCHANGED vars
  BY <1>2 DEF vars, OnlyMade
<1>3. MayEnd \subseteq Requests
  BY PlacementAssumption
<1>4. QED
  BY <1>1, <1>2, <1>3 DEF Next, Quiet

LEMMA MadeApartIsApart ==
  ASSUME MadeApart, OnlyMade
  PROVE  Apart
<1>1. PICK made \in Together : \A r \in Requests : r \notin made => pc[r] = "done"
  BY DEF OnlyMade
<1>2. ASSUME NEW q \in Placing, NEW r \in Placing, q # r, Overtakes(q, r), item[q] = item[r]
      PROVE  ShelfOf[q] = ShelfOf[r]
  <2>1. pc[q] # "done" /\ pc[r] # "done"
    BY <1>2 DEF Overtakes
  <2>2. q \in made \intersect Placing /\ r \in made \intersect Placing
    BY <1>1, <1>2, <2>1, KindsOfRequests
  <2>3. QED
    BY <1>2, <2>2 DEF MadeApart, OnlyMade
<1>3. QED
  BY <1>2 DEF Apart

(***************************************************************************)
(* Of requests that go to one shelf, or name different items, none leaves  *)
(* an item on two shelves, in any order of their statements and with any   *)
(* of them failing (AssignItemToSlot 235-255).                             *)
(***************************************************************************)
THEOREM ItemsMadeApartAreOnOneShelf ==
  ASSUME MadeApart
  PROVE  Spec => []OneShelf
<1>1. Init => OnlyMade
  BY KindsOfRequests DEF Init, OnlyMade, Placing
<1>2. Placed /\ OnlyMade /\ [Next]_vars => OnlyMade'
  BY OnlyMadeStep
<1>3. OnlyMade => Apart
  BY MadeApartIsApart
<1>4. Spec => []Apart
  BY <1>1, <1>2, <1>3, AlwaysPlaced, PTL DEF Spec
<1>5. QED
  BY <1>4, ItemsAreOnOneShelf, PTL

=============================================================================
