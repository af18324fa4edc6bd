# Anthology in TLA+

Anthology is a self-hosted library catalog: a Go API over PostgreSQL (one or
more replicas) and an Angular client. This directory models the parts of the
API whose correctness depends on the order in which several requests, database
sessions and failures happen, and the rules and queries an item goes through,
checks the models with TLC on small instances, and proves the central safety
results with TLAPS for every instance.

    tlc -config ImportOverlap.cfg ImportCommitMC.tla   # one run
    tlapm ImportCommitProofs.tla                       # its proofs

## The system

| Component | State | Operations | Hard behaviour |
|---|---|---|---|
| Owner insert lock and insert sessions (`items/postgres_insert_session.go`, `platform/database/postgres.go`) | a pool of connections per replica, a server session behind each, the session's advisory lock | `BeginExclusiveInserts`, `List`, `Insert`, `Close`, `tryCreate` | a session outlives its connection; answers get lost; a pooled connection must be clean |
| Reviewed-import commit (`importer/commit.go`, `importer/duplicates.go`, `items/import_batch.go`) | the rows, a duplicate tracker, an outcome per row | `Commit`, `commitRow` | overlapping commits, a save that cannot be confirmed, a context that ends in mid-loop |
| Plain creation (`items/service.go`, `items/postgres_repository.go`) | `items` table | `Create` | shares the lock; the COMMIT's answer may be lost |
| Item rules and edits (`items/validation.go`, `patch.go`, `service.go`, `service_resync.go`) | `items` table | `Create`, `Update`, `ResyncMetadata`, `Delete` | whole-row read-modify-write without a version; two writers that apply no rules |
| Item queries (`items/postgres_repository.go`, `memory_repository.go`, `lookup.go`) | none | list, histogram, duplicate check, ISBN lookup | the same question in SQL and in Go |
| Series (`items/service_series.go`) | names on items | list, rename, clear | check-then-act rename; missing-volume arithmetic |
| Shelves (`shelves/`) | `shelves`, rows, columns, slots, `item_shelf_locations` | create, `UpdateLayout`, `AssignItem`, `RemoveItem`, `ScanAndAssign` | transactions at READ COMMITTED, layouts computed from an earlier read, cascades |
| Preview and legacy import (`importer/preview.go`, `csv_importer.go`) | none | `Preview`, `Import` | reads the library without the lock |
| Export (`exporter/`) | none | `Export` | pure conversion |
| Catalogue (`catalog/`) | none | `Lookup` | external HTTP |
| Users and sessions (`auth/`, `http/oauth_handler.go`, `middleware.go`) | `users`, `user_sessions`, state cookies | OAuth start and callback, validate, logout, cleanup | concurrent first logins, expiry, allowlist re-check |
| Router, lifecycle, migrations, health, metrics, configuration | request contexts; schema version | serve, shut down, migrate | timeouts at any point; two replicas migrating |
| Web client (`web/`) | page state | import review, scanner, shelf editor | late answers |

Requests talk to each other only through PostgreSQL: rows of the tables, and
advisory locks keyed by a hash of the owner ID. A replica keeps nothing between
requests except its connection pool.

## Modules

| Module | Models |
|---|---|
| `ItemRules` | `normalizeItem`, `NormalizeCreateInput`, `ParseItemPatch` and `applyTo` on item records |
| `Library` | the items table under updates, re-syncs, creates, deletes and series changes, one statement a step |
| `Ordering` | a finite set in an order, as `slices.Sort`, `SortFunc` and `ORDER BY` leave it |
| `IsbnKeys`, `SeriesVolumes` | `lookup.go`; missing volumes and status of a series |
| `ItemQueries` | lists, histogram, duplicate check, scans and the series view of both repositories, over any history of a library |
| `Allowlist`, `Sessions` | who may sign in and stay; users, sign-ins, sessions, requests, logout, cleanup and restarts |
| `LibraryMC`, `ItemQueriesMC`, `SessionsMC` | the instances TLC checks |
| `LibraryProofs`, `QueryProofs`, `SessionProofs` | the theorems about them |
| `ImportRequests` | the constants: requests, owners, lock keys, replicas, and each row as its set of duplicate keys |
| `InsertSession` | connections, sessions and the insert lock: one action per client operation and per thing the server does |
| `ImportCommit` | commits and creates over `InsertSession`, the whole protocol; also its properties and the inductive invariant |
| `OwnerLibrary` | the abstract promise: one inserter per lock key, no duplicate import, truthful reports |
| `ImportCommitMC` | the instances TLC checks |
| `ImportCommitProofs`, `ImportReportProofs`, `ImportLibraryProofs` | the theorems about it: the lock and duplicates; what is reported; that it implements `OwnerLibrary` |
| `ReadCommitted` | tables of PostgreSQL at READ COMMITTED: row versions, who sees them, who waits (external) |
| `ShelfLayout` | `normalizeSlots` and `removedSlots` as operators |
| `ShelfPlacement` | layout updates, assignments, scans, removals and deletions over `ReadCommitted`, one statement at a time |
| `ShelfEditor` | one client that edits one layout again and again, over `ShelfLayout` |
| `ShelfPlacementMC`, `ShelfEditorMC` | the instances TLC checks |
| `ShelfEditorProofs`, `ShelfPlacementProofs` | the theorems about them |

### How the model corresponds to the code

* A request's `pc` names the call it is in: `connect` (waiting for
  `db.Connx`), `lock` (the non-blocking lock request of one attempt),
  `backoff` (`waitForOwnerLock` between attempts), then for a commit `list`,
  `row`, `insert`, `close` and for a create `txinsert`, `commit`, `abort`.
* Every statement is three steps: the client sends it (`Send`), the server runs
  it (`Exec`), the client reads the answer (`Answered`) or learns nothing
  (`AnswerLost`: the context ended, the session is gone, the connection broke).
  A statement that was sent may therefore take effect after its request has
  reported an unknown outcome and gone.
* `conn` and `client` are the pool's view of connections, `live` and `held` the
  server's view of the sessions. `DiscardConn` (`discardConn`) drops the first
  and leaves the second as it is until `EndSession`.
* The duplicate tracker is the set of keys it knows: `ExecList` fills it with
  the owner's library, `RowAnswered` adds the keys of a saved row.
* `saved` grows only; `deleted` are those removed since; the library is the
  difference. This lets a report be compared with what was ever stored.

Simplifications of the import modules that keep every outcome: `tryCreate` opens its transaction and
asks for the lock in one step (nothing can be held in between); when a create's
lock attempt fails its rollback is the end of the discarded session
(`DiscardConn` then `EndSession`); a row that validation refuses is a row with
no keys; back-off intervals have no length.

### How the shelf modules correspond to the code

* `pc` names the statement a request is at: `UpdateLayout` reads the shelf table
  by table (`start`, `readCols`, `readSlots`, `readPlaces`: `GetShelf`, which has
  no transaction), plans (`plan`: `normalizeSlots`, `removedSlots`) and saves
  (`dropPlaces` ... `sweepRows`, `commit`: the statements of `SaveLayout` in
  their order). `AssignItem` is `start`, `check`, `clear`, `insert`, `commit`;
  `ScanAndAssign` puts `find` and `create` before `check`; `RemoveItem` and
  `Delete` are one statement.
* A table is a set of row versions. An UPDATE or DELETE starts (`Begin`), which
  fixes the rows it has seen, and finishes (`Finish`) when no open transaction
  has written them (`Blockers`); of the rows it saw it changes those that still
  match (`Found`). That is READ COMMITTED: a row inserted in between is not
  seen, a row that was changed is looked at again. Inserts wait for unique keys
  and for deletions of the rows they refer to.
* The foreign keys of `migrations/0001_baseline.sql` are `Cut` (columns go with
  their row, slots with either, placements lose their slot) and `KeysHold` (an
  insert needs its slot and item, and one placement per shelf and item).
* A failed statement, a refused key, a deadlock or the end of the context runs
  the deferred `Rollback` (`Abort`).
* An edited slot is a cell, the ID it keeps or `NoSlot`, and `newSlot`. A new ID
  is named after the request that makes it and the place it is for.

Simplifications: the loops of single-row upserts in `insertRows`,
`insertColumns` and `insertSlots` are one statement each (they go through rows
in the order of their indexes, so two updates queue on the first row they
share); ownership checks and single reads are one step with what follows from
them; photo boundaries, and the reads that fill a response after the commit, are
left out. Shelves are neither created nor deleted while requests run (the API
has no deletion). The catalog lookup of a scan is a free choice.

### How the item modules correspond to the code

* An item is a record of `ItemRules`; fields that every rule treats alike share
  one (`description` is also creator and notes, `isbn` both ISBNs, `platform`
  also age group and player count). `Accepts` is the conjunction of the errors
  `normalizeItem` may return, `Normal` the item it leaves. A cover is what
  `sanitizeCoverImage` looks at: form, MIME type or scheme, size, whether it
  parses.
* A body is a function from JSON keys to a value, a null or a value of the wrong
  type. `ParseItemPatch` keeps the editable keys, `FieldAfter` says what a key
  does to a field, `applyTo` does it to an item.
* In `Library`, `step` is the statement a request is at. `Update` is `start`
  (read, apply, normalize), `write`, `reread`; re-sync adds the lookups (`by_id`,
  `by_isbn`); a rename is `start` (the series exists), `check` (the new name is
  free), `write`, `reread`. `seen` is the copy read before: `WriteItem` writes
  every column of it. Any statement may fail, with or without its effect.
* `OwnerLibrary` makes an insert under the lock one step, which is why `Library`
  may do so: the imports are shown to implement it.
* In `ItemQueries` each question is written twice, as the loop over insertion
  order of `memory_repository.go` and as the WHERE and ORDER BY of
  `postgres_repository.go` (`Clauses`); the row history is any sequence of
  creates, updates and deletes, with times as a clock or an imported file gives
  them. Titles are model values with their first byte and first character, the
  searches they contain and those they are LIKE, and two orders (bytes and
  collation). How these go together is left open: a search goes to `ILIKE` as it
  is, where `%`, `_` and `\` mean something, so `LIKE` may find more or less than
  the search in memory, and `upper` of a letter that is not ASCII may be one
  (of `ı`, `I`). `ReadAlike` says of a title that the two repositories do not
  differ on it, and `ListsAgree` and `FiltersAgree` claim the same lists for such
  titles only.
* A list in an order is `InOrder`: the n-th element is the one with n - 1 before
  it. A loop that stops at a limit is `First`: the rows with fewer than `limit`
  matches in front of them. `SetToSortSeq`, `SelectSeq` and the folds of the
  libraries give the same values and are recursive, so nothing could be proved
  of them; the two loops that carry a value along are the gaps of a series
  (`Inside`, a recursive function) and the sums of a check digit (`sum10`,
  `sum13`, written out as they have nine and twelve terms).

Simplifications: `updated_at` is left out of `Library` and nobody reads it
there; the one statement of a rename or a dissolution changes its rows at once.
What the code does and a reader may not expect: the status filter "none" counts
every item that is not a book; in PostgreSQL a search for `c\d` misses the title
`AC\DC`, as the backslash makes the `d` after it a plain `d`, and one for `_`
finds every title.

### How the session module corresponds to the code

* A sign-in is at `started` (the state cookie is set), `exchange` (the callback
  passed the state check), `find`, `create` or `update` (`CreateOrUpdateUser`),
  `session`, `redirect`. A callback arrives in any browser, once: a second use
  of a code is refused by Google. Claims of an account may differ from one
  sign-in to the next.
* A request is at `find`, then `serve` or `drop` (`ValidateSession`, whose
  DELETE is a second statement with its error ignored); the status question
  (`SessionHandler.Status`) asks likewise. A logout is at `find` and `delete`;
  one without a token asks the database nothing; one whose statement fails is
  answered like any other and clears the cookie (`cookie cleared`): its session
  lives on until it expires.
* The answer of a callback clears whatever state cookie its browser has by then,
  the answer of any logout whatever session cookie, also one that came after the
  logout was sent.
* `Restart` drops what is under way and may bring another allowlist. `run`, in a
  session, is the process that made it, for the properties.

Left out: a cookie's own expiry, which can only turn a valid session into a
missing one; redirect paths; the same-origin check.

`ShelfEditor` is the sequential view of the same operators: what any number of
edits in a row do to the IDs, which the concurrent instances are too small to
show.

## Runs

| Run | Instance | Question |
|---|---|---|
| `import_overlap` | two commits of one owner at two replicas, the second repeating a row by ISBN alone and holding an invalid row; one fault, both contexts may end, one item may be deleted | is a duplicate ever saved, is a connection ever pooled with a lock, is every row counted once; does the protocol implement `OwnerLibrary`, whose reports are true |
| `import_live` | a commit with a repeated row and a create of another owner with the same lock key, two connections, one fault, both contexts may end | is every request answered, and truly; is every lock released; has every skipped row a stored source |
| `shelf_editor` | up to three edits of up to two slots in four cells, every input a client may send | do slots keep their IDs, are IDs and cells distinct |
| `shelf_edits` | two scenes (`Together`): two updates of a shelf with two slots, one moving a slot to a new row, one without IDs, an item of another shelf put in both slots, a slot of the wrong shelf; or a placed item scanned elsewhere, removed and deleted and a new ISBN scanned into a slot an update drops; contexts may end | does a saved layout replace the other, does anything move that nobody asked to move, is an item on one shelf |
| `shelf_live` | two updates and an assignment, contexts may end | does every request end, deadlocks included |
| `library` | every two of 23 requests on a library of five items and three series, one failing statement | is every row one the rules accept and leave alone, are answers true, does anything deleted come back, does an edit change more than it was asked to |
| `queries` | up to three items of five kinds, any history of creates, updates and deletes at two times | is each repository's answer right, and the list the same where they read the titles alike |
| `sessions` | two sign-ins of two accounts that may share an address, two browsers, a request or logout, one failing statement, one restart with another allowlist | does every request accept a new session; do sessions end for a cause and only then; is a logout final; does a returning user get in; do expired sessions go |
| `shelf_both`, `shelf_emptied`, `shelf_unreported`, `library_resync` | the smallest instance that shows each finding | see Findings |

Bounds. In the import runs `MaxFaults = 1` counts lost connections, killed
sessions and crashes; a context's end and a server error are free. One fault
suffices to separate a request from its statement, which is what each hazard
needs; the proofs have no bound. `Backends` is the number of sessions that may
exist at once: three lets an abandoned session live on beside one for each of
two requests. With two requests on two connections no request waits for one that
a waiter holds, so the runs show nothing of an exhausted pool. Rows: enough for a first, a repeated and an unprocessed one.
Sessions are symmetric (not used in liveness runs).

In `library` two requests suffice for every read-then-write pair to overlap with
every other write, and `RowsAreNormal` is about one row. The requests set a
field, null it, change the item type, send a key in another case, a cover the
rules now refuse, a volume out of range; the series names differ in case only or
by blanks. In `queries` three items with a limit of one match and a list of one
let every limit cut; the codes are one ISBN in both forms, with hyphens, a
misread digit, a wrong length and a prefix other than 978; the titles and searches
have a wildcard, a backslash, an accented letter and a dotless `ı`. `maxMatches` and
`MaxMissing` are small so that their limits are met. In `sessions` a time to
live of one and two ticks let a session expire under a request. With one
request no logout overlaps another request; with two, four million states are too
many for the temporal properties. For any number of them `LogoutIsFinal` and
`SessionsEndForACause` are the theorems `LogoutsAreFinal` and `EndsHaveACause`.

In the shelf runs two transactions that overlap on two shelves are enough for
every pair of statements to interleave; three or more requests add the waiting
circles. `shelf_edits` starts from a layout that is not empty, where two updates
wait for each other at a row they share: that is why `CellsDistinct` and
`LayoutReplaces` hold there and not in `shelf_emptied`. When a third update
deletes the shared row first, the other two have nothing left to wait for, as
on an emptied shelf; the theorems name what is needed of any number of them
(`RowShared`, `RowsKept`).

Fairness (`FairSpec` of `ImportCommit`). Weak for every step of a request that
has arrived (its goroutine runs on) and for the server running a statement and noticing a client
that is gone; strong for getting a connection, because `database/sql` serves
waiters in order while waiters compete for connections. Nothing makes a context
end, a fault happen or a request arrive. Fairness of the lock itself is not
assumed: `EveryRequestAnswered` holds because the instance has finitely many
requests, each of which finishes. `FairSpec` of `ShelfPlacement` is weak fairness
of each request's steps: its goroutine runs on, and PostgreSQL ends one
transaction of a circle of waiters (`Deadlock`). Contexts need not end. `Spec` of
`Sessions` is weakly fair to the cleanup alone: its ticker fires every day of the
process that runs, and a failed run waits for the next tick.

## Findings

Four statements of the repository do not hold of the code; each has a run whose
counterexample is the argument, and an entry in `PROJECT.json`.

* `shelf_both` (`OneShelf`): the comment at `shelves/postgres_repository.go:235`
  says the DELETE makes sure that an item is on one shelf. Two assignments to two
  shelves that overlap leave it on both: the second DELETE waits for the first
  transaction and then does not see its INSERT.
* `shelf_emptied` (`CellsDistinct`): `normalizeSlots` refuses two slots in one
  cell. Two updates that both read an empty layout each store one, as nothing
  in the tables forbids it and they share no row to wait for.
* `shelf_unreported` (`DisplacedAreReported`): an item placed after the update
  has read the shelf loses its place and is not among the displaced items
  returned (`docs/architecture/api-deep-dive.md:206`).
* `library_resync` (`ResyncKeepsUserFields`): `service_resync.go:16-17` says that
  a re-sync does not overwrite what the user entered. It reads the item, waits
  for the catalog and writes every column of its copy: a rating saved in
  between is undone.

Also seen while modelling, without a run: `docs/architecture/api-deep-dive.md`,
lines 206 and 212, says that the placements of removed slots are nulled;
`SaveLayout` deletes them (`shelves/postgres_repository.go:164`). Line 205 says
that a layout update needs at least one slot; the code accepts an empty layout,
which is what `shelf_emptied` starts from. The comment on `titleInitialSQL`
(`items/postgres_repository.go:325`) says that only ASCII letters count, as in
memory. Its `COLLATE "C"` is applied to what `upper` returns under the database's
collation: a title that begins with `ı` or `ſ` is counted and listed under `I` or
`S`, in memory under `#`.

## Proofs

The theorems hold for all values of the constants that meet the modules' `ASSUME`s.
The assumptions say no more than what the constants stand for: item IDs are
finitely many, requests are of one kind, the placements stored at the start are
in order, what is stored has the fields of an item, codes are sequences of
characters, titles have a place in either order, a series has a name, and `Unset`
and `""` are no letters and no searches. TLC evaluates each on the instances it checks.

Every invariant and every action property of a passing run is stated by a
theorem. Five theorems about shelves have a hypothesis beside `Spec`, because
the code keeps the property only under it; two findings show that it is needed.

### Imports

| Theorem | States |
|---|---|
| `InductiveHolds` | `Spec => []Inductive` |
| `TypesHold` | `Spec => []TypeOK` |
| `LockIsExclusive` | one session at a time holds a lock key |
| `PoolStaysClean` | `Spec => []PoolClean` |
| `SnapshotStaysComplete` | `Spec => []SnapshotComplete` |
| `NoDuplicateIsSaved` | `Spec => ImportsNeverDuplicate` |
| `ReportsHold` | `Spec => []Reports` |
| `OutcomesAreTrue`, `RowsAddUp`, `SkippedRowsHaveASource` | `Spec => []` of `OutcomesTrue`, `OutcomesAddUp`, `SkipsHaveASource` |
| `CommitsImplementTheLibrary` | `Spec => ImplementsOwnerLibrary` |

The argument is the conjunction `Inductive`: a request alone has its
connection while it works (`ConnOK`); the session behind it was last sent what
the request waits for (`StmtOK`); a session that was sent a statement which may
insert holds the lock, and which sessions hold one can be told from their last
statement (`HeldOK`); one session holds a key (`Exclusive`); so what a commit
read, with what it saved, is all there is (`KnownOK`, `RowOK`), and a save that
has not run yet is of a row that is new (`PendingOK`), even when its request is
long gone. Neither `SnapshotComplete` nor `PoolClean` is inductive alone: the
first needs to know that nobody else can insert, the second that an answered
unlock means a free lock.

`Reports` adds what a report rests on. A row is said not to be stored only when
no session is left that may store it, so it must be known which statements may
(`SaveOK`: an import's row after all it stored before), and that an answered save
was stored (`AnswerOK`). Rows are decided in order (`RowsDecided`), a create its
item at its end or on the way to a rollback (`ItemDecided`), and a tracker has
its keys from items that were stored (`KnownFrom`), hence every skip a source.

The refinement maps the holder of a lock key to the request some session holds
it for. A step is `Take` or `Release` when a session's lock comes or goes, `Save`
when a server runs an insert (`Exclusive` and `SnapshotComplete` give its guard),
`Report` when a client reads an answer or gives up (`Reports` gives its truth),
and a stutter else: sending, waiting, pooling and crashes.

### Shelves

`ShelfEditorProofs` proves, for any cells and any number of slots and edits:

| Theorem | States |
|---|---|
| `TypesHold` | `Spec => []TypeOK` |
| `LayoutStaysSound` | `Spec => []LayoutSound` |
| `SlotIdsStayStable` | `Spec => []SlotIdsAreStable` |

The invariant is `TypeOK /\ LayoutSound`. `TypeOK` says that every ID was made
by an edit so far, so those of the next are new (`NextIdsAreNew`); then a row ID
stands for one row index, a column ID for one cell and a slot ID for one slot of
the edit (`RowIdsDiffer`, `ColumnIdsDiffer`, `SlotIdsDiffer`), whether named,
taken over or made, and the new layout is sound (`EditedIsSound`). Neither part
is inductive alone: with two slots in a cell, or IDs used twice, an edit can
give one ID to two slots.

`ShelfPlacementProofs` proves, for any shelves, layouts, any number of requests of
each kind and any order of their statements:

| Theorem | States |
|---|---|
| `PlacementTypes` | `Spec => []TypeOK` |
| `PlacementsStayInOrder` | `Spec => []PlacementsBelong` |
| `ItemsArePlacedWhereAsked` | `Spec => PlacedWhereAsked` |
| `ItemsLeaveWhenAsked` | `Spec => ItemsStayPut` |
| `ItemsAreOnOneShelf` | `Spec /\ []Apart => []OneShelf` |
| `ItemsMadeApartAreOnOneShelf` | `Spec => []OneShelf`, assuming `MadeApart` |
| `CellsStayDistinct` | `Spec /\ []RowShared => []CellsDistinct` |
| `LayoutsReplace` | `Spec /\ []RowShared => LayoutReplaces` |
| `LayoutsWithARowReplace` | `Spec => LayoutReplaces /\ []CellsDistinct`, assuming `RowsKept` |

The invariant `Placed` speaks of row versions, of which `PlacementsBelong` sees the
committed ones. `ControlOK`: what a request knows from the checks it has passed.
`NamesOK`: a slot's ID tells its shelf and an item's its owner, which is why
nobody needs to look again. `TablesOK`: whose versions there are. `PlacesOK`:
of two versions of one placement one replaces the other in one transaction
(`OneKey`), and a version's slot is committed, and whoever removes the slot
removes the placement with it or puts the slot back (`SlotKept`); this is what
the blocking of an insert on the deletion of the row it refers to, and of a
deletion on the rows that refer to it, amounts to. A table's frame lemmas
(`RemoveLeaves`, `CommitLeaves` and the like) say which versions a statement
leaves; every action of a request is put into one of a few classes by what it
does to the tables (`Steps`), and each conjunct is shown to survive each class.

That items leave only when asked rests on a second invariant, `Kept`, which TLC
found to hold in the four shelf instances before it was proved. Of two versions of
a row, one transaction wrote both or one replaces the other (`OneWriter`), since
a write waits for the other's end. So what an update sees of the columns and
slots it saved is its own version of them, in the columns and rows of its plan
(`SavesOK`): sweeping the rows it did not keep takes no saved column along, and
sweeping the columns no saved slot, though the old versions of both hung there.
Hence the cascades empty no slot that is kept (`CutsEmpty`), and whoever has
removed a placement was asked to: it places that item, or drops that slot
(`Asked`), by what `OneVal` says of a placement's versions. `Placed` alone does
not say this: an update that lost the slots it saved would satisfy it.

That an item is on one shelf is false of the code (`shelf_both`), so the theorem
says which race is to blame and that nothing else is. `Apart` excludes exactly
it: a request that commits while another one, which places the same item on
another shelf, has already looked where the item is. It compares where two
requests stand and speaks of no placement. The invariant is `OnShelf`: from the
clearing of the other shelves to the commit, the item is nowhere but on the
request's shelf (`ElsewhereOK`), and the row a layout update empties is still
there as it was (`Backed`), so an update that puts placements back puts none on
another shelf. `ItemsMadeApartAreOnOneShelf` replaces the hypothesis about states
by one about requests: those made together go to one shelf, or are assignments
of different items. Layouts, removals, deletions and failures are free.

That layouts replace each other is false when two updates share no row
(`shelf_emptied`). `RowShared` says that an update about to save its rows has one
in common with any update of the shelf that is past that point. Then it waits
there for the other's end (`Exclusive`), so its later statements see all the
other one stored: `StraySlots` is what the sweep of slots has still to remove,
it is empty afterwards (`SweptOK`), and what is kept is what was asked for
(`Stores`), in distinct cells as `normalizeSlots` refuses two in one (`Laid`).
`LayoutsWithARowReplace` says when that is so: if every layout asked for keeps
some row the shelf had at the start, whatever else it moves, that row's ID goes
from version to version (`RowsStay`) and everybody who reads the shelf finds it.

`Apart`, `RowShared`, `OnShelf`, `Laid` and `RowsStay` were checked by TLC on
the instance of `shelf_edits`, where all of them hold, before they were used:
its layouts meet `RowsKept`. The requests of `shelf_live` meet `MadeApart`, those
of `shelf_both` do not, and those of `shelf_emptied` do not meet `RowsKept`.

### Items

`LibraryProofs` proves, for any item texts, library, requests, interleaving and
number of failures:

| Theorem | States |
|---|---|
| `NormalTwice` | normalizing an accepted item again changes nothing |
| `Typed` | `Spec => []TypeOK` |
| `RowsStayNormal` | `Spec => []RowsAreNormal` |
| `AnswersStayTrue` | `Spec => []AnswersAreTrue` |
| `GoneStaysGone`, `OwnersChangeOnly` | `Spec => DeletedStaysGone`, `Spec => OnlyOwnRows` |
| `EditsKeepOtherFields` | `Spec => EditsKeepTheRest` |
| `RenamesKeepApart` | `Spec => RenamesKeepSeriesApart` |

`RowsAreNormal` is not inductive alone: what a request is about to write comes
from the row it read, so the row in `seen` must have been normal too. Then each
writer keeps the rules for its own reason: creation and update by `NormalTwice`,
a re-sync since each field it sets is one the rules leave alone, renames since
the new name is trimmed and the rows are books. That an edit keeps the other
fields needs `RowsAreNormal` too: the rules normalize all of the item, and leave
alone only what was normal. `RenamesKeepApart` adds what the check of a rename
found, `RenamesApart`: no other series the owner had folds to the new name; then
the one write moves one name onto one that nobody has, and as many are left.

`QueryProofs` proves, for any rows and any history of writes:

| Theorem | States |
|---|---|
| `RowsHold`, `Typed` | rows are items in the order of their insertion; `Spec => []TypeOK` |
| `FormsFindEachOther` | of two codes of 10 and 13 digits, each is the other form of the other or neither is, so it makes no difference which form is saved and which is scanned |
| `FiltersAgree` | for the options of any request the in-memory filters select what the WHERE clause does, of the items whose titles the two read alike |
| `RepositoriesListAlike` | `Spec => []ListsAgree` |
| `CountsAreLengths` | `Spec => []HistogramCountsLists` |
| `DatabaseFindsDuplicates`, `DuplicatesFound` | the database's half of `DuplicatesAreFound`; `Spec => []DuplicatesAreFound` |
| `ScansFind` | `Spec => []ScansFindTheBook` |
| `MissingAreCounted`, `SeriesAreComplete` | the counting half of `SeriesAddUp`; `Spec => []SeriesAddUp` |

`RowsHold` is the inductive part: rows are items with different IDs. The others
then hold of any rows, and are proved about the operators:

* *Lists.* An order that compares any two elements one way ranks a finite set
  without gaps (`InOrderLists`), so `InOrder` holds each element once, those
  before the others in front. `ListsAgree` compares lists made in two orders that
  differ among items of one time: the n-th times agree, as an older n-th item in
  one list would leave n items of the other n - 1 places (`NoOlder`,
  `SameTimes`). A limit keeps a beginning of the list (`ListOfFirst`).
* *Filters.* Each side is the filters that do not read the title, the letter it
  files the title under and its search (`FiltersOfOptions`); the first are the
  same for every item, whatever the two make of its title.
* *Histogram.* In each repository the titles of a letter's bucket are those its
  own list with that letter selects (`MemoryLetterRows`, `PostgresLetterRows`),
  wherever the other one files them.
* *Duplicates.* The rows with fewer than `limit` matches in front are all of the
  matches, or `limit` of them (`FirstOfMany`).
* *Scans.* A body of nine digits has one check digit of each kind: the sums
  modulo 10 and 11 with the computed digit are 0, and no other digit does it
  (`CheckDigits`). So the other form of a key exists exactly if its check digit
  is right, and two checked keys of one body are equal or the forms of each other
  (`FormOf10`, `FormOf13`, `TwinKeys`). Hence the keys looked up are the keys of
  the same book (`KeysOfBook`), and the newest of the rows is one of it.
* *Series.* The loop's invariant is `Filled`: after n owned volumes the list is the
  missing volumes below the n-th in order, cut at the room there is; `GapAdded` is
  its step, and the list in order with these elements is unique
  (`IncreasingIsUnique`). That the recursive function of the loop has the values
  its equation says follows from a least counterexample, without a theorem about
  recursion (`GapsExist`, `InsideHasGaps`). The bound and the counts
  rest on every finite set of integers having a largest element
  (`FiniteHasMax`).

`SessionProofs` proves, for any accounts, addresses, claims, allowlists, browsers,
sign-ins, requests, failures and restarts:

| Theorem | States |
|---|---|
| `LoginsMayStay` | whom `AllowsLogin` admits `AllowsEmail` accepts |
| `Typed` | `Spec => []TypeOK` |
| `FreshStay` | `Spec => []FreshSessionsAreValid` |
| `EndsHaveACause` | `Spec => SessionsEndForACause` |
| `LogoutsAreFinal` | `Spec => []LogoutIsFinal` |

The invariant adds what a request or sign-in under way knows: a sign-in past the
allowlist carries claims it admits, one past its write finds its account's stored
address accepted, a request about to drop a session saw one that was expired or
of an earlier process, and cookies and requests hold only tokens of sign-ins
that were answered with one; such a sign-in makes no second session, so a token
whose session ended stays without one.

### What is only model-checked, and why

* `EveryRequestAnswered`, `EveryLockFreed`, `EveryRequestEnds`,
  `ReturningUsersGetIn` and `ExpiredSessionsGo`: liveness and fairness are out of
  the prover's reach.
* That `CellsDistinct`, `OneShelf` and `LayoutReplaces` need the hypotheses of their
  theorems is shown by counterexample: the runs `shelf_both` and `shelf_emptied`.
* That `InOrder` and `First` give what the sorts and loops of the code compute is
  the translation's claim, as for any other definition; the library's own
  definitions of sorting are recursive and cannot be compared with by proof.

## Not modelled

CSV parsing, preview, the legacy import and the export; catalog lookups,
metrics, logging, configuration and health, which hold no state other parts
depend on; the application of migrations; the in-memory shelves; creation of
shelves beside other requests; the Web client. `PROJECT.json` lists every
component with its status, and every hazard with the property that covers it or
the reason none does.
