------------------------------ MODULE Library -------------------------------
(***************************************************************************)
(* The items table under the requests that change it, other than shelf     *)
(* placements and reviewed imports: an item is created, updated by a patch,*)
(* re-synced with the catalog or deleted, a series renamed or dissolved.   *)
(* No request holds a lock or a transaction over its statements (Create    *)
(* does: OwnerLibrary, which the imports are shown to implement, makes its *)
(* insert one step), and an item has no version: what a request has read   *)
(* may be old when it writes.                                              *)
(*                                                                         *)
(* One statement of the database is one step.  The in-memory repository    *)
(* takes the same steps, each under its mutex, but answers an update       *)
(* without reading it back.                                                *)
(***************************************************************************)
EXTENDS ItemRules, FiniteSets

CONSTANTS Ids, Owners, Requests,
          Unborn, Gone,    \* an ID not in the table yet, and one deleted from it
          FoldCase,        \* strings.ToLower, for series names
          LongNames,       \* texts of more than 200 bytes
          Metadata,        \* the books the catalog may answer a re-sync with
          NoBook, Broken,  \* its other answers: no such book, and any failure
          Libraries,       \* the tables a run starts from
          Workloads,       \* what its requests ask: functions on Requests
          MaxFaults        \* a bound on the statements that fail

Rows    == [owner : Owners, item : Inputs]
ItemOps == {"update", "resync", "delete"}

(* The IDs are UUIDs.  A request names an ID it has seen; a created item's is
   new.  Google's own texts come without blanks around them, its prices are not
   negative. *)
ASSUME LibraryAssumption ==
  /\ IsFiniteSet(Ids)
  /\ \A lib \in Libraries :
       /\ lib = [id \in Ids |-> lib[id]]
       /\ \A id \in Ids : \/ lib[id] \in {Unborn, Gone}
                          \/ lib[id] \in Rows /\ IsNormal(lib[id].item)
  /\ \A work \in Workloads, r \in Requests :
       /\ work[r].owner \in Owners
       /\ work[r].op \in ItemOps \union {"create", "rename", "dissolve"}
       /\ work[r].op \in ItemOps \union {"create"} => work[r].id \in Ids
       /\ work[r].op = "create" =>
            /\ work[r].input \in Inputs
            /\ \A lib \in Libraries : lib[work[r].id] = Unborn
            /\ \A q \in Requests \ {r} :
                 work[q].op \in ItemOps \union {"create"} => work[q].id # work[r].id
       /\ work[r].op = "update" => IsPatch(work[r].body)
       /\ work[r].op \in {"rename", "dissolve"} => {work[r].name, work[r].new} \subseteq Texts
  /\ Metadata \subseteq
       [title : Texts, volumeId : Texts, genre : Texts, description : Texts,
        price : Nat \union {Nil}, cover : Covers]
  /\ \A m \in Metadata : Trim[m.volumeId] = m.volumeId /\ Trim[m.description] = m.description
  /\ {NoBook, Broken} \intersect Metadata = {} /\ NoBook # Broken
  /\ Unborn \notin Rows /\ Gone \notin Rows /\ Unborn # Gone
  /\ MaxFaults \in Nat

Steps   == {"start", "by_id", "by_isbn", "check", "write", "reread", "done"}
Replies == {"none", "ok", "invalid", "not_found", "error"}

VARIABLES items,   \* the table
          ask,     \* what each request asks, chosen at the start
          step,    \* where it is
          seen,    \* what it last read: a row, or the names of series
          found,   \* what the catalog answered it
          reply,   \* what it answered its client
          faults   \* statements that failed so far

vars == <<items, ask, step, seen, found, reply, faults>>

------------------------------------------------------------------------------
(* Every statement has the owner's ID in its WHERE clause. *)
Has(id, owner) == items[id] \notin {Unborn, Gone} /\ items[id].owner = owner
Mine(r) == Has(ask[r].id, ask[r].owner)

(* Seeded fault: the owner's ID is missing from the series statements. *)
AnyonesBooks(owner) ==
  {id \in Ids : items[id] \notin {Unborn, Gone} /\ IsBook(items[id].item)}

Books(owner) == {id \in Ids : Has(id, owner) /\ IsBook(items[id].item)}
Series(owner, name) == {id \in Books(owner) : items[id].item.series = name}
SeriesNames(owner) == {items[id].item.series : id \in Books(owner)} \ {""}

(* Seeded fault: the new name is looked for as it is written. *)
ListSeriesNamesByName(owner, name) == SeriesNames(owner) \intersect {name}

ListSeriesNamesByNameCI(owner, name) ==
  {n \in SeriesNames(owner) : FoldCase[n] = FoldCase[name]}

At(r, ops, s) == ask[r].op \in ops /\ step[r] = s
Go(r, s)      == step' = [step EXCEPT ![r] = s]
Answer(r, a)  == Go(r, "done") /\ reply' = [reply EXCEPT ![r] = a]
Saw(r, x, s)  == seen' = [seen EXCEPT ![r] = x] /\ Go(r, s) /\ UNCHANGED reply

(* A statement fails: it had no effect, or only its answer was lost. *)
Fault(r)       == faults < MaxFaults /\ faults' = faults + 1 /\ Answer(r, "error")
Store(r, table, next) ==
  /\ items' = table
  /\ UNCHANGED <<ask, seen, found>>
  /\ \/ next /\ UNCHANGED faults
     \/ Fault(r)

Fail(r) ==
  /\ step[r] \in {"start", "check", "write", "reread"}
  /\ Fault(r)
  /\ UNCHANGED <<items, ask, seen, found>>

------------------------------------------------------------------------------
CreateItem(r) ==
  /\ At(r, {"create"}, "start")
  /\ IF Accepts(ask[r].input, TRUE)
     THEN Store(r, [items EXCEPT ![ask[r].id] =
                      [owner |-> ask[r].owner, item |-> Normal(ask[r].input, TRUE)]],
                Answer(r, "ok"))
     ELSE Answer(r, "invalid") /\ UNCHANGED <<items, ask, seen, found, faults>>

(* Seeded fault: the number of deleted rows is not looked at. *)
DeleteItemUncounted(r) ==
  /\ At(r, {"delete"}, "start")
  /\ Store(r, [items EXCEPT ![ask[r].id] = IF Mine(r) THEN Gone ELSE @], Answer(r, "ok"))

DeleteItem(r) ==
  /\ At(r, {"delete"}, "start")
  /\ IF Mine(r)
     THEN Store(r, [items EXCEPT ![ask[r].id] = Gone], Answer(r, "ok"))
     ELSE Answer(r, "not_found") /\ UNCHANGED <<items, ask, seen, found, faults>>

(* The patched item must pass the rules, the cover's only if the patch sets it. *)
Patched(r, item) == applyTo(ParseItemPatch(ask[r].body), item)
ChecksCover(r)   == sets(ParseItemPatch(ask[r].body), "cover")

UpdateReads(r) ==
  /\ At(r, {"update"}, "start")
  /\ \/ Malformed(ask[r].body) /\ Answer(r, "invalid") /\ UNCHANGED seen
     \/ ~Malformed(ask[r].body) /\ ~Mine(r) /\ Answer(r, "not_found") /\ UNCHANGED seen
     \/ /\ ~Malformed(ask[r].body) /\ Mine(r)
        /\ IF Accepts(Patched(r, items[ask[r].id].item), ChecksCover(r))
           THEN Saw(r, items[ask[r].id], "write")
           ELSE Answer(r, "invalid") /\ UNCHANGED seen
  /\ UNCHANGED <<items, ask, found, faults>>

ResyncReads(r) ==
  /\ At(r, {"resync"}, "start")
  /\ IF ~Mine(r) THEN Answer(r, "not_found") /\ UNCHANGED seen
     ELSE IF ~IsBook(items[ask[r].id].item) THEN Answer(r, "invalid") /\ UNCHANGED seen
     ELSE Saw(r, items[ask[r].id],
              IF items[ask[r].id].item.volumeId # "" THEN "by_id" ELSE "by_isbn")
  /\ UNCHANGED <<items, ask, found, faults>>

LookupByVolumeID(r) ==
  /\ At(r, {"resync"}, "by_id")
  /\ \E m \in Metadata \union {NoBook, Broken} :
       /\ found' = [found EXCEPT ![r] = m]
       /\ IF m = Broken THEN Answer(r, "error")
          ELSE /\ Go(r, IF m # NoBook /\ m.title # "" THEN "write" ELSE "by_isbn")
               /\ UNCHANGED reply
  /\ UNCHANGED <<items, ask, seen, faults>>

(* Seeded fault: a lookup that found nothing counts as an answer. *)
LookupByISBNUnchecked(r) ==
  /\ At(r, {"resync"}, "by_isbn")
  /\ \E m \in Metadata \union {NoBook} : found' = [found EXCEPT ![r] = m]
  /\ Go(r, "write")
  /\ UNCHANGED <<items, ask, seen, reply, faults>>

(* Also after a volume without a title. *)
LookupByISBN(r) ==
  /\ At(r, {"resync"}, "by_isbn")
  /\ IF seen[r].item.isbn = "" THEN Answer(r, "invalid") /\ UNCHANGED found
     ELSE \E m \in Metadata \union {NoBook, Broken} :
            /\ found' = [found EXCEPT ![r] = m]
            /\ IF m = Broken THEN Answer(r, "error")
               ELSE IF m = NoBook THEN Answer(r, "invalid")
               ELSE Go(r, "write") /\ UNCHANGED reply
  /\ UNCHANGED <<items, ask, seen, faults>>

(* Seeded fault: the genre is stored as the catalog has it. *)
RefreshedRaw(i, m) ==
  [i EXCEPT !.volumeId = IF m.volumeId # "" THEN m.volumeId ELSE @,
            !.genre = IF m.genre # "" THEN m.genre ELSE @,
            !.price = IF m.price # Nil THEN m.price ELSE @,
            !.cover = IF @.form = "none" THEN m.cover ELSE @,
            !.description = IF @ = "" THEN m.description ELSE @]

(* What ResyncMetadata makes of the row it read; it is not normalized again. *)
Refreshed(i, m) ==
  [i EXCEPT !.volumeId = IF m.volumeId # "" THEN m.volumeId ELSE @,
            !.genre = IF m.genre # "" THEN normalizeGenre(m.genre) ELSE @,
            !.price = IF m.price # Nil THEN m.price ELSE @,
            !.cover = IF @.form = "none" THEN m.cover ELSE @,
            !.description = IF @ = "" THEN m.description ELSE @]

(* Every column is written, from the copy read before. *)
Written(r) ==
  IF ask[r].op = "update" THEN Normal(Patched(r, seen[r].item), ChecksCover(r))
  ELSE Refreshed(seen[r].item, found[r])

(* Seeded fault: a row that is gone is inserted again. *)
WriteItemBack(r) ==
  /\ At(r, {"update", "resync"}, "write")
  /\ Store(r, [items EXCEPT ![ask[r].id] = [owner |-> ask[r].owner, item |-> Written(r)]],
           Go(r, "reread") /\ UNCHANGED reply)

WriteItem(r) ==
  /\ At(r, {"update", "resync"}, "write")
  /\ IF Mine(r)
     THEN Store(r, [items EXCEPT ![ask[r].id].item = Written(r)],
                Go(r, "reread") /\ UNCHANGED reply)
     ELSE Answer(r, "not_found") /\ UNCHANGED <<items, ask, seen, found, faults>>

ReadBack(r) ==
  /\ At(r, {"update", "resync"}, "reread")
  /\ Answer(r, IF Mine(r) THEN "ok" ELSE "not_found")
  /\ UNCHANGED <<items, ask, seen, found, faults>>

------------------------------------------------------------------------------
Old(r) == Trim[ask[r].name]
New(r) == Trim[ask[r].new]

(* UpdateSeriesName and DeleteSeries, first statement. *)
FindSeries(r) ==
  /\ At(r, {"rename", "dissolve"}, "start")
  /\ IF Old(r) = "" \/ (ask[r].op = "rename" /\ New(r) \in LongNames \union {""})
     THEN Answer(r, "invalid")
     ELSE IF Series(ask[r].owner, Old(r)) = {} THEN Answer(r, "not_found")
     ELSE Go(r, IF ask[r].op = "rename" THEN "check" ELSE "write") /\ UNCHANGED reply
  /\ UNCHANGED <<items, ask, seen, found, faults>>

CheckNewName(r) ==
  /\ At(r, {"rename"}, "check")
  /\ LET names == ListSeriesNamesByNameCI(ask[r].owner, New(r))
     IN IF names \subseteq {Old(r)}
        THEN Saw(r, SeriesNames(ask[r].owner), "write")
        ELSE Answer(r, "invalid") /\ UNCHANGED seen
  /\ UNCHANGED <<items, ask, found, faults>>

RenameSeries(r) ==
  /\ At(r, {"rename"}, "write")
  /\ LET renamed == Series(ask[r].owner, Old(r))
     IN Store(r, [id \in Ids |-> IF id \in renamed
                                 THEN [items[id] EXCEPT !.item.series = New(r)]
                                 ELSE items[id]],
              Go(r, "reread") /\ UNCHANGED reply)

GetRenamed(r) ==
  /\ At(r, {"rename"}, "reread")
  /\ Answer(r, IF Series(ask[r].owner, New(r)) # {} THEN "ok" ELSE "not_found")
  /\ UNCHANGED <<items, ask, seen, found, faults>>

ClearSeriesName(r) ==
  /\ At(r, {"dissolve"}, "write")
  /\ LET cleared == Series(ask[r].owner, Old(r))
     IN Store(r, [id \in Ids |-> IF id \in cleared
                                 THEN [items[id] EXCEPT !.item.series = "",
                                         !.item.volume = Nil, !.item.total = Nil]
                                 ELSE items[id]],
              Answer(r, "ok"))

------------------------------------------------------------------------------
Init ==
  /\ items \in Libraries
  /\ ask \in Workloads
  /\ step  = [r \in Requests |-> "start"]
  /\ seen  = [r \in Requests |-> {}]
  /\ found = [r \in Requests |-> NoBook]
  /\ reply = [r \in Requests |-> "none"]
  /\ faults = 0

Next ==
  \/ \E r \in Requests :
       \/ CreateItem(r) \/ DeleteItem(r)
       \/ UpdateReads(r) \/ WriteItem(r) \/ ReadBack(r)
       \/ ResyncReads(r) \/ LookupByVolumeID(r) \/ LookupByISBN(r)
       \/ FindSeries(r) \/ CheckNewName(r) \/ RenameSeries(r) \/ GetRenamed(r)
       \/ ClearSeriesName(r)
       \/ Fail(r)
  \/ (\A r \in Requests : step[r] = "done") /\ UNCHANGED vars

Spec == Init /\ [][Next]_vars

------------------------------------------------------------------------------
TypeOK ==
  /\ \A id \in Ids : items[id] \in {Unborn, Gone} \/ items[id] \in Rows
  /\ ask \in Workloads
  /\ step \in [Requests -> Steps]
  /\ reply \in [Requests -> Replies]
  /\ \A r \in Requests : (step[r] = "done") = (reply[r] # "none")
  /\ \A r \in Requests :
       At(r, {"update", "resync"}, "write") \/ At(r, {"resync"}, "by_isbn") => seen[r] \in Rows
  /\ \A r \in Requests : At(r, {"resync"}, "write") => found[r] \in Metadata
  /\ faults \in 0..MaxFaults

(* Whatever requests overlap, every stored item is one the rules accept and
   leave alone (but for the cover): so an update that sets nothing, or only
   valid fields, is never refused for a field it did not send, though re-sync
   and rename write rows without applying the rules (service.go 134-138,
   service_resync.go 62-82, postgres_repository.go 553-571). *)
RowsAreNormal ==
  \A id \in Ids : items[id] \notin {Unborn, Gone} => IsNormal(items[id].item)

(* "Not found" is said of an item only when its owner has no such item, and of
   two deletes of one item at most one says it deleted it (handlers.go
   207-223, postgres_repository.go 263-319). *)
AnswersAreTrue ==
  /\ \A r \in Requests :
       ask[r].op \in ItemOps /\ reply[r] = "not_found" => ~Mine(r)
  /\ \A r, q \in Requests :
       /\ ask[r].op = "delete" /\ ask[q].op = "delete"
       /\ reply[r] = "ok" /\ reply[q] = "ok" /\ ask[r].id = ask[q].id
       => r = q

(* A deleted item stays deleted: no update, re-sync or rename that read it
   before writes it back (postgres_repository.go 263-303). *)
DeletedStaysGone ==
  [][\A id \in Ids : items[id] = Gone => items'[id] = Gone]_vars

(* Only its owner's requests change a row (postgres_repository.go 290,
   307, 555, 565). *)
OnlyOwnRows ==
  [][\A id \in Ids : items'[id] # items[id] /\ items[id] # Unborn =>
       \E r \in Requests : step'[r] # step[r] /\ ask[r].owner = items[id].owner]_vars

(* The fields a patch may change: those it sets, and those that depend on its
   item type or status. *)
MayChange(r) ==
  LET p == ParseItemPatch(ask[r].body)
  IN IF ask[r].op = "resync" THEN {"volumeId", "genre", "price", "cover", "description"}
     ELSE IF sets(p, "itemType") THEN editableItemKeys
     ELSE {k \in DOMAIN p : sets(p, k) \/ k \in pointerItemKeys}
          \union IF sets(p, "status") THEN {"readAt", "currentPage"} ELSE {}

(* An update or a re-sync changes no field it was not asked to, when nobody
   changed the row since it read it (patch.go 10-12, service_resync.go 14-17). *)
EditsKeepTheRest ==
  [][\A r \in Requests :
       /\ At(r, {"update", "resync"}, "write") /\ step'[r] # "write" /\ Mine(r)
       /\ items[ask[r].id] = seen[r] /\ items' # items
       => \A k \in editableItemKeys \ MayChange(r) :
            items'[ask[r].id].item[k] = items[ask[r].id].item[k]]_vars

(* A rename makes no two series of one name, or of names that differ in case
   only, when no series came or went since it checked the new name
   (service_series.go 73-88). *)
RenamesKeepSeriesApart ==
  [][\A r \in Requests :
       LET names == SeriesNames(ask[r].owner)
           after == SeriesNames(ask[r].owner)'
       IN /\ At(r, {"rename"}, "write") /\ step'[r] # "write" /\ seen[r] = names
          /\ Old(r) \in names
          => Cardinality({FoldCase[n] : n \in after}) >= Cardinality({FoldCase[n] : n \in names})]_vars

(* A re-sync does not overwrite what the user entered (service_resync.go 16-17). *)
ResyncKeepsUserFields ==
  [][\A r \in Requests :
       At(r, {"resync"}, "write") /\ step'[r] = "reread" =>
         LET new == items'[ask[r].id]
             old == items[ask[r].id]
         IN new.item.format = old.item.format /\ new.item.rating = old.item.rating]_vars
=============================================================================
