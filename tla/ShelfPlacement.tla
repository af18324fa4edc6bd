--------------------------- MODULE ShelfPlacement ----------------------------
(***************************************************************************)
(* Shelf layouts and item placements (shelves/service.go,                  *)
(* shelves/postgres_repository.go) edited by concurrent requests, one SQL  *)
(* statement at a time.  A statement that must wait for rows starts, which *)
(* fixes the rows it has seen, and finishes once nobody blocks it.         *)
(*                                                                         *)
(* Left out: the reads that only fill a response, and the placement cache  *)
(* of the in-memory item repository, which PostgreSQL does not have.       *)
(***************************************************************************)
EXTENDS ShelfLayout, ReadCommitted, FiniteSets

CONSTANTS
  Layouts,     \* requests that replace a shelf's layout
  Assigns,     \* that put an item in a slot
  Scans,       \* that put the item of an ISBN in a slot
  Removes,     \* that take an item out of a slot
  Deletes,     \* that delete an item from the library
  Together,    \* the sets of requests that are made
  MayEnd,      \* requests whose context may end early; bounds CtxEnds
  ShelfOf, OwnerOf, SlotOf, ItemOf,   \* what each request asks for
  IsbnOf, InputOf,
  Shelves, ShelfOwner,
  FirstSlots, FirstPlaces, FirstItems   \* what is stored at the start

Requests == Layouts \union Assigns \union Scans \union Removes \union Deletes

Placing == Assigns \union Scans

ASSUME PlacementAssumption ==
  /\ Requests \subseteq DOMAIN ItemOf
  /\ \A r \in Requests : ShelfOf[r] \in Shelves
  /\ DOMAIN ShelfOwner = Shelves
  /\ Nobody \notin Requests /\ MayEnd \subseteq Requests /\ UNION Together \subseteq Requests

(* A request is of one kind; shelves, items and requests name different IDs. *)
ASSUME KindsAssumption ==
  /\ Layouts \intersect (Placing \union Removes \union Deletes) = {}
  /\ Placing \intersect (Removes \union Deletes) = {}
  /\ Assigns \intersect Scans = {} /\ Removes \intersect Deletes = {}
  /\ Shelves \intersect Requests = {}
  /\ \A i \in FirstItems : i.id \notin Requests

(* What is stored at the start is in order. *)
ASSUME FirstAssumption ==
  /\ FirstSlots \subseteq Shelves \X (Nat \X Nat)
  /\ FirstPlaces \subseteq [shelf : Shelves, item : {i.id : i \in FirstItems},
                            slot : FirstSlots \union {NoSlot}]
  /\ \A i, j \in FirstItems : i.id = j.id => i = j
  /\ \A p, q \in FirstPlaces : p.item = q.item => p = q
  /\ \A p \in FirstPlaces, i \in FirstItems : i.id = p.item => i.owner = ShelfOwner[p.shelf]
  /\ \A p \in FirstPlaces : p.slot # NoSlot => p.slot[1] = p.shelf

VARIABLES
  rows, cols, slots, places, items,   \* the tables
  pc,        \* the statement each request is at
  running,   \* whether it has started
  target,    \* the ids of the rows the statement saw to change
  base,      \* the shelf as a layout update read it
  item       \* the item a request places

tables == <<rows, cols, slots, places, items>>
vars == <<rows, cols, slots, places, items, pc, running, target, base, item>>

ShelfOwned(r) == ShelfOwner[ShelfOf[r]] = OwnerOf[r]

-----------------------------------------------------------------------------
(* The layout a request saves, from what it read. *)
NewRows(r)  == LayoutRows(r, ShelfOf[r], InputOf[r], base[r])
NewCols(r)  == LayoutCols(r, InputOf[r], base[r])
NewSlots(r) == LayoutSlots(r, ShelfOf[r], InputOf[r], base[r])
Removed(r)  == RemovedSlots(r, ShelfOf[r], InputOf[r], base[r])

IdsOf(table) == {v.id : v \in table}

(* The items UpdateLayout reports as displaced. *)
Displaced(r) ==
  {p.val.item : p \in {q \in base[r].places : q.val.slot \in Removed(r)}}

-----------------------------------------------------------------------------
(* What a deletion takes along (ON DELETE CASCADE, ON DELETE SET NULL). *)
ColsUnder(r, rowIds, colIds) ==
  colIds \union IdsOf({c \in Visible(cols, r) : c.val.parent \in rowIds})

SlotsUnder(r, rowIds, colIds, slotIds) ==
  slotIds \union IdsOf({s \in Visible(slots, r) :
                          s.val.row \in rowIds \/ s.val.col \in ColsUnder(r, rowIds, colIds)})

PlacesIn(r, slotIds) == {p \in Visible(places, r) : p.val.slot \in slotIds}

(* Who has placed an item, in a transaction still open, that refers to these. *)
Referrers(r, slotIds, itemIds) ==
  {p.ins : p \in {q \in places : q.val.slot \in slotIds \/ q.val.item \in itemIds}}
    \ {Nobody, r}

CutBlockers(r, rowIds, colIds, slotIds) ==
  LET c == ColsUnder(r, rowIds, colIds)
      s == SlotsUnder(r, rowIds, colIds, slotIds)
  IN Writers(rows, r, rowIds) \union Writers(cols, r, c) \union Writers(slots, r, s)
       \union Writers(places, r, IdsOf(PlacesIn(r, s))) \union Referrers(r, s, {})

(* Delete rows, columns and slots, with what hangs on them. *)
Cut(r, rowIds, colIds, slotIds) ==
  LET c == ColsUnder(r, rowIds, colIds)
      s == SlotsUnder(r, rowIds, colIds, slotIds)
  IN /\ rows' = Remove(rows, r, rowIds)
     /\ cols' = Remove(cols, r, c)
     /\ slots' = Remove(slots, r, s)
     /\ places' = Put(places, r, {[p EXCEPT !.val.slot = NoSlot] : p \in PlacesIn(r, s)})
     /\ UNCHANGED items

-----------------------------------------------------------------------------
(* Statements. *)

(* What a statement sees of the request's shelf. *)
RowsOf(r) == {v \in Visible(rows, r) : v.val.shelf = ShelfOf[r]}
ColsOf(r) == {c \in Visible(cols, r) : c.val.parent \in IdsOf(RowsOf(r))}
ShelfSlots(r) == {s \in Visible(slots, r) : s.val.shelf = ShelfOf[r]}
ShelfPlaces(r) == {p \in Visible(places, r) : p.val.shelf = ShelfOf[r]}

(* Seeded fault: placing an item clears its placements on that shelf only. *)
ItemPlacesHere(r) == {p \in ShelfPlaces(r) : p.val.item = item[r]}

(* Every placement of the item a request places, on all shelves. *)
ItemPlaces(r) == {p \in Visible(places, r) : p.val.item = item[r]}

(* Seeded fault: only slots the update read itself are swept. *)
KnownStrays(r) == {s \in ShelfSlots(r) : s.id \in Removed(r)}

(* The shelf's slots that a saved layout does not have. *)
StraySlots(r) == {s \in ShelfSlots(r) : s.id \notin IdsOf(NewSlots(r))}

(* The rows such a statement changes, as its WHERE clause says. *)
Matching(r) ==
  CASE pc[r] = "dropPlaces"  -> {p \in ShelfPlaces(r) : p.val.slot \in Removed(r)}
    [] pc[r] = "dropSlots"   -> {s \in ShelfSlots(r) : s.id \in Removed(r)}
    [] pc[r] = "sweepPlaces" -> {p \in ShelfPlaces(r) :
                                   p.val.slot \notin IdsOf(NewSlots(r)) \union {NoSlot}}
    [] pc[r] = "sweepSlots"  -> StraySlots(r)
    [] pc[r] = "sweepCols"   -> {c \in ColsOf(r) : c.id \notin IdsOf(NewCols(r))}
    [] pc[r] = "sweepRows"   -> {v \in RowsOf(r) : v.id \notin IdsOf(NewRows(r))}
    [] pc[r] = "clear"       -> ItemPlaces(r)
    [] pc[r] = "unplace"     -> {p \in ShelfPlaces(r) :
                                   p.val.item = ItemOf[r] /\ p.val.slot = SlotOf[r]}
    [] pc[r] = "delete"      -> {i \in Visible(items, r) :
                                   i.id = ItemOf[r] /\ i.val.owner = OwnerOf[r]}

(* Where a statement goes through rows in that way. *)
Scanning == {"dropPlaces", "dropSlots", "sweepPlaces", "sweepSlots", "sweepCols",
             "sweepRows", "clear", "unplace", "delete"}

Begin(r) ==
  /\ pc[r] \in Scanning
  /\ ~running[r]
  /\ running' = [running EXCEPT ![r] = TRUE]
  /\ target' = [target EXCEPT ![r] = IdsOf(Matching(r))]
  /\ UNCHANGED <<tables, pc, base, item>>

(* Of the rows it saw, those that still match once it has them. *)
Found(r) == target[r] \intersect IdsOf(Matching(r))

(* The open transactions a request waits for. *)
Blockers(r) ==
  CASE pc[r] \in {"dropPlaces", "sweepPlaces", "clear", "unplace"} /\ running[r] ->
         Writers(places, r, target[r])
    [] pc[r] \in {"dropSlots", "sweepSlots"} /\ running[r] ->
         CutBlockers(r, {}, {}, target[r])
    [] pc[r] = "sweepCols" /\ running[r] -> CutBlockers(r, {}, target[r], {})
    [] pc[r] = "sweepRows" /\ running[r] -> CutBlockers(r, target[r], {}, {})
    [] pc[r] = "delete" /\ running[r] ->
         Writers(items, r, target[r]) \union Referrers(r, {}, target[r])
           \union Writers(places, r, {p.id : p \in {q \in places : q.val.item \in target[r]}})
    [] pc[r] = "putRows"  -> Writers(rows, r, IdsOf(NewRows(r)))
    [] pc[r] = "putCols"  -> Writers(cols, r, IdsOf(NewCols(r)))
    [] pc[r] = "putSlots" -> Writers(slots, r, IdsOf(NewSlots(r)))
    [] pc[r] = "insert" ->
         Removers(slots, r, SlotOf[r]) \union Removers(items, r, item[r])
           \union Writers(places, r, {p.id : p \in {q \in places :
                     q.val.shelf = ShelfOf[r] /\ q.val.item = item[r]}})
    [] OTHER -> {}

(* The statement at p has its rows; the request goes on to the next. *)
Finish(r, p, nextPc) ==
  /\ pc[r] = p
  /\ p \in Scanning => running[r]
  /\ Blockers(r) = {}
  /\ pc' = [pc EXCEPT ![r] = nextPc]
  /\ running' = [running EXCEPT ![r] = FALSE]
  /\ target' = [target EXCEPT ![r] = {}]

(* A statement that only reads, or an answer without one. *)
Goto(r, p, nextPc) ==
  /\ pc[r] = p
  /\ pc' = [pc EXCEPT ![r] = nextPc]
  /\ UNCHANGED <<tables, running, target>>

-----------------------------------------------------------------------------
(* UpdateLayout: read the shelf, one table after the other, then save. *)

Stripped(table) == {[id |-> v.id, val |-> v.val] : v \in table}

Read(r, part, table) == base' = [base EXCEPT ![r] = [@ EXCEPT ![part] = Stripped(table)]]

ReadShelf(r) ==
  /\ r \in Layouts
  /\ UNCHANGED item
  /\ \/ /\ ~ShelfOwned(r)
        /\ Goto(r, "start", "failed")
        /\ UNCHANGED base
     \/ /\ ShelfOwned(r)
        /\ Goto(r, "start", "readCols")
        /\ Read(r, "rows", RowsOf(r))
     \/ Goto(r, "readCols", "readSlots") /\ Read(r, "cols", ColsOf(r))
     \/ Goto(r, "readSlots", "readPlaces") /\ Read(r, "slots", ShelfSlots(r))
     \/ Goto(r, "readPlaces", "plan") /\ Read(r, "places", ShelfPlaces(r))

Plan(r) ==
  /\ r \in Layouts
  /\ \/ /\ ~Valid(InputOf[r], base[r])
        /\ Goto(r, "plan", "failed")
     \/ /\ Valid(InputOf[r], base[r])
        /\ Goto(r, "plan", IF Removed(r) = {} THEN "putRows" ELSE "dropPlaces")
  /\ UNCHANGED <<base, item>>

(* Seeded fault: columns that go are deleted before slots have moved. *)
ColumnsGoFirst(r) ==
  /\ r \in Layouts
  /\ \/ /\ Finish(r, "dropPlaces", "dropSlots")
        /\ places' = Remove(places, r, Found(r))
        /\ UNCHANGED <<rows, cols, slots, items>>
     \/ Finish(r, "dropSlots", "putRows") /\ Cut(r, {}, {}, Found(r))
     \/ /\ Finish(r, "putRows", "sweepCols")
        /\ rows' = Put(rows, r, NewRows(r))
        /\ UNCHANGED <<cols, slots, places, items>>
     \/ /\ Finish(r, "putCols", "putSlots")
        /\ cols' = Put(cols, r, NewCols(r))
        /\ UNCHANGED <<rows, slots, places, items>>
     \/ /\ Finish(r, "putSlots", "sweepPlaces")
        /\ slots' = Put(slots, r, NewSlots(r))
        /\ UNCHANGED <<rows, cols, places, items>>
     \/ /\ Finish(r, "sweepPlaces", "sweepSlots")
        /\ places' = Remove(places, r, Found(r))
        /\ UNCHANGED <<rows, cols, slots, items>>
     \/ Finish(r, "sweepSlots", "sweepRows") /\ Cut(r, {}, {}, Found(r))
     \/ Finish(r, "sweepCols", "putCols") /\ Cut(r, {}, Found(r), {})
     \/ Finish(r, "sweepRows", "commit") /\ Cut(r, Found(r), {}, {})
  /\ UNCHANGED <<base, item>>

(* The statements of SaveLayout, in their order. *)
SaveLayout(r) ==
  /\ r \in Layouts
  /\ \/ /\ Finish(r, "dropPlaces", "dropSlots")
        /\ places' = Remove(places, r, Found(r))
        /\ UNCHANGED <<rows, cols, slots, items>>
     \/ Finish(r, "dropSlots", "putRows") /\ Cut(r, {}, {}, Found(r))
     \/ /\ Finish(r, "putRows", "putCols")
        /\ rows' = Put(rows, r, NewRows(r))
        /\ UNCHANGED <<cols, slots, places, items>>
     \/ /\ Finish(r, "putCols", "putSlots")
        /\ cols' = Put(cols, r, NewCols(r))
        /\ UNCHANGED <<rows, slots, places, items>>
     \/ /\ Finish(r, "putSlots", "sweepPlaces")
        /\ slots' = Put(slots, r, NewSlots(r))
        /\ UNCHANGED <<rows, cols, places, items>>
     \/ /\ Finish(r, "sweepPlaces", "sweepSlots")
        /\ places' = Remove(places, r, Found(r))
        /\ UNCHANGED <<rows, cols, slots, items>>
     \/ Finish(r, "sweepSlots", "sweepCols") /\ Cut(r, {}, {}, Found(r))
     \/ Finish(r, "sweepCols", "sweepRows") /\ Cut(r, {}, Found(r), {})
     \/ Finish(r, "sweepRows", "commit") /\ Cut(r, Found(r), {}, {})
  /\ UNCHANGED <<base, item>>

-----------------------------------------------------------------------------
(* Ending a transaction. *)

CommitTables(r) ==
  /\ rows' = Committed(rows, r)
  /\ cols' = Committed(cols, r)
  /\ slots' = Committed(slots, r)
  /\ places' = Committed(places, r)
  /\ items' = Committed(items, r)

(* Seeded fault: the request ends and its transaction does not. *)
LeftOpen(r) ==
  /\ pc[r] = "commit"
  /\ pc' = [pc EXCEPT ![r] = "done"]
  /\ UNCHANGED <<tables, running, target, base, item>>

Commit(r) ==
  /\ pc[r] = "commit"
  /\ pc' = [pc EXCEPT ![r] = "done"]
  /\ CommitTables(r)
  /\ UNCHANGED <<running, target, base, item>>

(* The deferred Rollback: the request fails and leaves nothing behind. *)
Abort(r) ==
  /\ pc' = [pc EXCEPT ![r] = "failed"]
  /\ running' = [running EXCEPT ![r] = FALSE]
  /\ target' = [target EXCEPT ![r] = {}]
  /\ rows' = RolledBack(rows, r)
  /\ cols' = RolledBack(cols, r)
  /\ slots' = RolledBack(slots, r)
  /\ places' = RolledBack(places, r)
  /\ items' = RolledBack(items, r)
  /\ UNCHANGED <<base, item>>

-----------------------------------------------------------------------------
(* AssignItem and ScanAndAssign. *)

(* Seeded fault: a slot of any shelf will do. *)
AnySlot(r) == {s \in Visible(slots, r) : s.id = SlotOf[r]}

Slot(r) == {s \in ShelfSlots(r) : s.id = SlotOf[r]}

OwnedItems(r) == {i \in Visible(items, r) : i.val.owner = OwnerOf[r]}

(* AssignItem: the owner has the item. *)
CheckItem(r) ==
  /\ r \in Assigns
  /\ \/ item[r] \in IdsOf(OwnedItems(r)) /\ Goto(r, "start", "check")
     \/ item[r] \notin IdsOf(OwnedItems(r)) /\ Goto(r, "start", "failed")
  /\ UNCHANGED <<base, item>>

(* ScanAndAssign: the shelf and its slot, in reads of their own. *)
CheckShelf(r) ==
  /\ r \in Scans
  /\ \/ ShelfOwned(r) /\ Slot(r) # {} /\ Goto(r, "start", "find")
     \/ (~ShelfOwned(r) \/ Slot(r) = {}) /\ Goto(r, "start", "failed")
  /\ UNCHANGED <<base, item>>

(* Where an item is shown to be: one of the slots it is in. *)
ShownIn(r, i) == {p.val.slot : p \in {q \in Visible(places, r) : q.val.item = i}} \ {NoSlot}

(* The item of the ISBN: already there, or to be moved, or to be created, or
   unknown to the catalogue. *)
FindByISBN(r) ==
  LET found == {i \in OwnedItems(r) : i.val.isbn = IsbnOf[r]}
  IN /\ r \in Scans
     /\ \/ \E i \in found :
             /\ item' = [item EXCEPT ![r] = i.id]
             /\ \/ SlotOf[r] \in ShownIn(r, i.id) /\ Goto(r, "find", "done")
                \/ ShownIn(r, i.id) # {SlotOf[r]} /\ Goto(r, "find", "check")
        \/ /\ found = {}
           /\ Goto(r, "find", "create") \/ Goto(r, "find", "failed")
           /\ UNCHANGED item
     /\ UNCHANGED base

(* items.Service.Create in a transaction of its own, which looks for nothing. *)
CreateItem(r) ==
  /\ Finish(r, "create", "check")
  /\ items' = items \union {[id |-> r, val |-> [owner |-> OwnerOf[r], isbn |-> IsbnOf[r]],
                             ins |-> Nobody, del |-> Nobody]}
  /\ item' = [item EXCEPT ![r] = r]
  /\ UNCHANGED <<rows, cols, slots, places, base>>

(* AssignItemToSlot: the shelf is the owner's and the slot is on it. *)
CheckSlot(r) ==
  /\ \/ ShelfOwned(r) /\ Slot(r) # {} /\ Goto(r, "check", "clear")
     \/ (~ShelfOwned(r) \/ Slot(r) = {}) /\ Goto(r, "check", "failed")
  /\ UNCHANGED <<base, item>>

(* DELETE of every placement of the item. *)
Clear(r) ==
  /\ Finish(r, "clear", "insert")
  /\ places' = Remove(places, r, Found(r))
  /\ UNCHANGED <<rows, cols, slots, items, base, item>>

(* What the keys of item_shelf_locations ask of the new placement. *)
KeysHold(r) ==
  /\ SlotOf[r] \in IdsOf(Visible(slots, r))
  /\ item[r] \in IdsOf(Visible(items, r))
  /\ \A p \in ShelfPlaces(r) : p.val.item # item[r]

(* Seeded fault: a refused INSERT leaves the transaction open. *)
FailsOpen(r) ==
  \/ /\ KeysHold(r)
     /\ Finish(r, "insert", "commit")
     /\ places' = Put(places, r, {[id |-> r, val |-> [shelf |-> ShelfOf[r], item |-> item[r],
                                                      slot |-> SlotOf[r]]]})
     /\ UNCHANGED <<rows, cols, slots, items, base, item>>
  \/ /\ pc[r] = "insert"
     /\ Blockers(r) = {}
     /\ ~KeysHold(r)
     /\ pc' = [pc EXCEPT ![r] = "failed"]
     /\ UNCHANGED <<tables, running, target, base, item>>

(* Seeded fault: a refused INSERT is ignored (ON CONFLICT DO NOTHING). *)
ConflictIsFine(r) ==
  \/ /\ KeysHold(r)
     /\ Finish(r, "insert", "commit")
     /\ places' = Put(places, r, {[id |-> r, val |-> [shelf |-> ShelfOf[r], item |-> item[r],
                                                      slot |-> SlotOf[r]]]})
     /\ UNCHANGED <<rows, cols, slots, items, base, item>>
  \/ /\ pc[r] = "insert"
     /\ Blockers(r) = {}
     /\ ~KeysHold(r)
     /\ pc' = [pc EXCEPT ![r] = "commit"]
     /\ UNCHANGED <<tables, running, target, base, item>>

InsertPlace(r) ==
  \/ /\ KeysHold(r)
     /\ Finish(r, "insert", "commit")
     /\ places' = Put(places, r, {[id |-> r, val |-> [shelf |-> ShelfOf[r], item |-> item[r],
                                                      slot |-> SlotOf[r]]]})
     /\ UNCHANGED <<rows, cols, slots, items, base, item>>
  \/ /\ pc[r] = "insert"
     /\ Blockers(r) = {}
     /\ ~KeysHold(r)
     /\ Abort(r)

Place(r) ==
  /\ r \in Placing
  /\ \/ CheckItem(r) \/ CheckShelf(r) \/ FindByISBN(r) \/ CreateItem(r)
     \/ CheckSlot(r) \/ Clear(r) \/ InsertPlace(r)

-----------------------------------------------------------------------------
(* RemoveItemFromSlot: a check, and an UPDATE that commits by itself. *)
RemoveItem(r) ==
  /\ r \in Removes
  /\ \/ /\ Goto(r, "start", IF ShelfOwned(r) THEN "unplace" ELSE "failed")
     \/ /\ Finish(r, "unplace", IF Found(r) = {} THEN "failed" ELSE "done")
        /\ places' = {IF p.id \in Found(r) THEN [p EXCEPT !.val.slot = NoSlot] ELSE p :
                        p \in places}
        /\ UNCHANGED <<rows, cols, slots, items>>
  /\ UNCHANGED <<base, item>>

(* items.Service.Delete: a DELETE that takes the placements along. *)
DeleteItem(r) ==
  /\ r \in Deletes
  /\ \/ Goto(r, "start", "delete")
     \/ /\ Finish(r, "delete", IF Found(r) = {} THEN "failed" ELSE "done")
        /\ items' = {i \in items : i.id \notin Found(r)}
        /\ places' = {p \in places : p.val.item \notin Found(r)}
        /\ UNCHANGED <<rows, cols, slots>>
  /\ UNCHANGED <<base, item>>

-----------------------------------------------------------------------------
Ended == {"done", "failed"}

(* The request's context ends: its transaction is rolled back. *)
CtxEnds(r) == pc[r] \notin Ended /\ Abort(r)

(* PostgreSQL ends a transaction that waits in a circle. *)
Deadlock(r) ==
  /\ Blockers(r) # {}
  /\ \E circle \in SUBSET {a \in Requests : Blockers(a) # {}} :
       /\ r \in circle
       /\ \A a \in circle : \E b, c \in circle : b \in Blockers(a) /\ a \in Blockers(c)
  /\ Abort(r)

Stored(id, val) == [id |-> id, val |-> val, ins |-> Nobody, del |-> Nobody]

(* Shelves with some slots, whose rows and columns are named like them. *)
Init ==
  /\ rows = {Stored(<<s[1], s[2][1]>>, [shelf |-> s[1], row |-> s[2][1]]) : s \in FirstSlots}
  /\ cols = {Stored(s, [parent |-> <<s[1], s[2][1]>>, col |-> s[2][2]]) : s \in FirstSlots}
  /\ slots = {Stored(s, [shelf |-> s[1], row |-> <<s[1], s[2][1]>>, col |-> s,
                         cell |-> s[2]]) : s \in FirstSlots}
  /\ places = {Stored(p.item, p) : p \in FirstPlaces}
  /\ items = {Stored(i.id, [owner |-> i.owner, isbn |-> i.isbn]) : i \in FirstItems}
  /\ \E made \in Together : pc = [r \in Requests |-> IF r \in made THEN "start" ELSE "done"]
  /\ running = [r \in Requests |-> FALSE]
  /\ target = [r \in Requests |-> {}]
  /\ base = [r \in Requests |-> [rows |-> {}, cols |-> {}, slots |-> {}, places |-> {}]]
  /\ item = ItemOf

Step(r) ==
  \/ Begin(r) \/ ReadShelf(r) \/ Plan(r) \/ SaveLayout(r) \/ Place(r)
  \/ RemoveItem(r) \/ DeleteItem(r) \/ Commit(r) \/ Deadlock(r)

Quiet == (\A r \in Requests : pc[r] \in Ended) /\ UNCHANGED vars

Next ==
  \/ \E r \in Requests : Step(r)
  \/ \E r \in MayEnd : CtxEnds(r)
  \/ Quiet

Spec == Init /\ [][Next]_vars

(* Each request's goroutine runs on, and PostgreSQL breaks circles of waiters. *)
FairSpec == Spec /\ \A r \in Requests : WF_vars(Step(r))

-----------------------------------------------------------------------------
(* Every variable has its type. *)
PCs == Scanning \union Ended \union
  {"start", "readCols", "readSlots", "readPlaces", "plan", "putRows", "putCols", "putSlots",
   "find", "create", "check", "insert", "commit"}

(* Only requests under way have rows that are not committed. *)
OpenOnly(table) ==
  \A v \in table : {v.ins, v.del} \subseteq {Nobody} \union {r \in Requests : pc[r] \notin Ended}

TypeOK ==
  /\ pc \in [Requests -> PCs]
  /\ running \in [Requests -> BOOLEAN]
  /\ \A r \in Requests : running[r] => pc[r] \in Scanning
  /\ OpenOnly(rows) /\ OpenOnly(cols) /\ OpenOnly(slots)
  /\ OpenOnly(places) /\ OpenOnly(items)

(***************************************************************************)
(* A stored placement is of an item the shelf's owner has, once per shelf, *)
(* in a slot of that very shelf or in none: no key of the tables relates   *)
(* the slot's shelf, or the item's owner, to the placement's               *)
(* (AssignItemToSlot 212-261, SaveLayout 148-210).                         *)
(***************************************************************************)
PlacementsBelong ==
  \A p \in Current(places) :
    /\ \E i \in Current(items) :
         i.id = p.val.item /\ i.val.owner = ShelfOwner[p.val.shelf]
    /\ p.val.slot # NoSlot =>
         \E s \in Current(slots) : s.id = p.val.slot /\ s.val.shelf = p.val.shelf
    /\ \A q \in Current(places) :
         q.val.item = p.val.item /\ q.val.shelf = p.val.shelf => q.id = p.id

Saves(r) == pc[r] = "commit" /\ pc'[r] = "done"

SlotsOnShelf(shelf) == Stripped({s \in Current(slots) : s.val.shelf = shelf})

(***************************************************************************)
(* A layout update replaces the layout: what is stored when it commits is  *)
(* what it asked for, whatever other updates did since it read the shelf   *)
(* (SaveLayout 176-205; api-deep-dive.md 85).                              *)
(***************************************************************************)
LayoutReplaces ==
  [][\A r \in Layouts : Saves(r) => SlotsOnShelf(ShelfOf[r])' = NewSlots(r)]_vars

(***************************************************************************)
(* An item leaves its slot only by what somebody asked: being placed       *)
(* elsewhere, taken out, deleted, or its slot dropped from the layout.  A  *)
(* slot that is kept keeps its items, though its row or column goes        *)
(* (SaveLayout 185-205).                                                   *)
(***************************************************************************)
ItemsStayPut ==
  [][\A p \in Current(places) :
       p.val.slot # NoSlot /\ (\A q \in Current(places)' : q.val # p.val) =>
         \E r \in Requests :
           /\ pc[r] \notin Ended /\ pc'[r] = "done"
           /\ \/ r \in Placing /\ item[r] = p.val.item
              \/ r \in Removes \union Deletes /\ ItemOf[r] = p.val.item
              \/ r \in Layouts /\ p.val.slot \notin IdsOf(NewSlots(r))]_vars

(***************************************************************************)
(* When an item has been placed, it is in that slot, which exists, and in  *)
(* no other slot of the shelf, whatever layouts and placements ran         *)
(* meanwhile (AssignItemToSlot 237-255).                                   *)
(***************************************************************************)
PlacedWhereAsked ==
  [][\A r \in Placing : Saves(r) =>
       {p.val.slot : p \in {q \in Current(places)' :
          q.val.shelf = ShelfOf[r] /\ q.val.item = item[r]}} = {SlotOf[r]}]_vars

(***************************************************************************)
(* An item can only be on one shelf at a time (the comment of              *)
(* AssignItemToSlot 235-236).                                              *)
(***************************************************************************)
OneShelf ==
  \A p, q \in Current(places) : p.val.item = q.val.item => p.val.shelf = q.val.shelf

(***************************************************************************)
(* Removed slots trigger displaced items returned to the client            *)
(* (api-deep-dive.md 206): an update reports every item it takes out of a  *)
(* slot.                                                                   *)
(***************************************************************************)
DisplacedAreReported ==
  [][\A r \in Layouts : Saves(r) =>
       \A p \in Current(places) :
         p.val.slot # NoSlot /\ (\A q \in Current(places)' : q.val # p.val)
           => p.val.item \in Displaced(r)]_vars

(* No two slots of a shelf share a row and a column, which normalizeSlots
   refuses within one layout (service.go 355-359). *)
CellsDistinct ==
  \A s, t \in Current(slots) :
    s.val.shelf = t.val.shelf /\ s.val.cell = t.val.cell => s.id = t.id

(* Every request ends, though transactions wait for each other. *)
EveryRequestEnds == \A r \in Requests : <>(pc[r] \in Ended)
=============================================================================
