---------------------------- MODULE ItemQueries -----------------------------
(***************************************************************************)
(* What the questions about a library answer while items come, change and  *)
(* go: the list and its filters, the letter histogram, the duplicate       *)
(* check, the scan of an ISBN, and the series view, each as the in-memory  *)
(* repository and as PostgreSQL answer it (items/memory_repository.go and  *)
(* postgres_repository.go, http/handlers.go and series_handler.go).        *)
(***************************************************************************)
EXTENDS IsbnKeys, SeriesVolumes

CONSTANTS Pool,        \* what an item may hold
          Owners, Ids,
          NormalizeTitle,  \* a title lowercased
          FirstByte, FirstChar,  \* its first byte and character, upper case
          Letters, Searches,     \* "A" to "Z", and search texts, all in lower case
          Finds, Likes,          \* the searches a title contains, and those it is LIKE:
                                 \* any, as "_", "%" and "\" mean more there
          Bytewise, Collated,    \* titles in byte order, and in the database's
          Series,                \* names of series
          Codes,                 \* codes, scanned or saved
          maxMatches,            \* the longest answer of the duplicate check, 5 in the code
          Times                  \* a bound on the times of writes

Titles == DOMAIN NormalizeTitle
Unset  == "any"   \* an option that is not set

(* What the queries look at in an item, as creates and updates leave it. *)
Items ==
  [owner : Owners, title : Titles, type : {"book", "game", "movie", "music"},
   status : {"none", "read", "reading", "want_to_read"}, isbn13 : Codes, isbn10 : Codes,
   series : Series \union {""}, volume : Int \union {NoNumber},
   total : Int \union {NoNumber}, placed : BOOLEAN]

ASSUME QueryAssumption ==
  /\ Pool \subseteq Items /\ Codes \subseteq Seq(0..11)
  /\ {Bytewise, Collated} \subseteq [Titles -> Nat]
  /\ {Unset, "#", ""} \intersect Letters = {} /\ {Unset, ""} \intersect Searches = {}
  /\ Ids \subseteq Nat /\ Times \subseteq Nat /\ maxMatches \in Nat
  /\ "" \notin Series

VARIABLE rows  \* the items in the order of their insertion

------------------------------------------------------------------------------
ownedItems(owner) == {r \in ToSet(rows) : r.owner = owner}

OfType(o, r) == o.type = Unset \/ r.type = o.type

(* Without a type, a reading status is asked of books only. *)
OfStatus(o, r) ==
  IF o.type # Unset \/ o.status = Unset THEN o.status \in {Unset, r.status}
  ELSE IF o.status = "none" THEN r.type # "book" \/ r.status = "none"
  ELSE r.type = "book" /\ r.status = o.status

OnLetter(o, r) ==
  \/ o.letter = Unset
  \/ o.letter = "#" /\ FirstByte[r.title] \notin Letters
  \/ o.letter = FirstByte[r.title]

OnShelf(o, r) == o.shelf = Unset \/ r.placed = (o.shelf = "on")

MemoryMatches(o, r) ==
  /\ OfType(o, r) /\ OfStatus(o, r) /\ OnLetter(o, r) /\ OnShelf(o, r)
  /\ o.query = Unset \/ o.query \in Finds[r.title]

(* ORDER BY created_at DESC, title ASC, for an order of the titles.  Rows alike
   in both may come in any order: here, in that of their IDs. *)
IsBefore(order, a, b) ==
  \/ a.created > b.created
  \/ a.created = b.created /\ order[a.title] < order[b.title]
  \/ a.created = b.created /\ order[a.title] = order[b.title] /\ a.id < b.id

Sorted(order, S) == InOrder(S, {p \in S \X S : IsBefore(order, p[1], p[2])})

Cut(s, limit) == IF limit = NoNumber THEN s ELSE SubSeq(s, 1, Min({limit, Len(s)}))

(* The rows at these places in the order of insertion, no more than a limit. *)
First(places, limit) ==
  {rows[i] : i \in {j \in places : Cardinality({k \in places : k < j}) < limit}}

(* Seeded fault: the limit is applied in insertion order. *)
MemoryListUnsorted(o) ==
  LET found == {i \in DOMAIN rows : rows[i].owner = o.owner /\ MemoryMatches(o, rows[i])}
  IN First(found, IF o.limit = NoNumber THEN Len(rows) ELSE o.limit)

(* What either repository lists; its order is of no account, as List sorts. *)
MemoryList(o) ==
  LET found == {r \in ownedItems(o.owner) : MemoryMatches(o, r)}
  IN IF o.limit # NoNumber /\ Cardinality(found) > o.limit
     THEN ToSet(Cut(Sorted(Bytewise, found), o.limit)) ELSE found

(* The same statement of the database, clause by clause. *)
titleInitialSQL(title) == FirstChar[title]

Clauses(o, r) ==
  /\ r.owner = o.owner
  /\ o.type # Unset => r.type = o.type
  /\ o.status # Unset =>
       IF o.type # Unset THEN r.status = o.status
       ELSE IF o.status = "none" THEN r.type # "book" \/ r.status = o.status
       ELSE r.type = "book" /\ r.status = o.status
  /\ o.letter = "#" => titleInitialSQL(r.title) \notin Letters
  /\ o.letter \notin {Unset, "#"} => titleInitialSQL(r.title) = o.letter
  /\ o.query # Unset => o.query \in Likes[r.title]
  /\ o.shelf = "on" => r.placed
  /\ o.shelf = "off" => ~r.placed

PostgresList(o) == ToSet(Cut(Sorted(Collated, {r \in ToSet(rows) : Clauses(o, r)}), o.limit))

(* Service.List sorts what either repository returns. *)
List(o, found) == Cut(Sorted(Bytewise, found), o.limit)

(* parseListOptions: the options of a query string, or a refusal.  Every text
   is trimmed first; an empty one sets nothing. *)
maxListLimit == 50
Refused      == "invalid filter"

parseListOptions(q) ==
  LET Set(raw) == IF raw = "" THEN Unset ELSE raw
      ok == /\ q.type \in {"", "book", "game", "movie", "music"}
            /\ q.status \in {"", "none", "read", "reading", "want_to_read"}
            /\ q.shelf_status \in {"", "on", "off", "all"}
            /\ q.letter \in Letters \union {"", "#"}
            /\ q.query \in Searches \union {""}
            /\ q.limit \in {NoNumber} \union 1..maxListLimit
  IN IF ~ok THEN Refused
     ELSE [owner |-> q.owner, type |-> Set(q.type), status |-> Set(q.status),
           letter |-> Set(q.letter), query |-> Set(q.query), limit |-> q.limit,
           shelf |-> IF q.shelf_status = "all" THEN Unset ELSE Set(q.shelf_status)]

------------------------------------------------------------------------------
(* The histogram: how many titles begin with each letter. *)
extractFirstLetter(title) == IF FirstByte[title] \in Letters THEN FirstByte[title] ELSE "#"

MemoryHistogram(o) ==
  LET counted == {r \in ownedItems(o.owner) : OfType(o, r) /\ OfStatus(o, r)}
  IN [l \in {extractFirstLetter(r.title) : r \in counted} |->
        Cardinality({r \in counted : extractFirstLetter(r.title) = l})]

(* Seeded fault: accented letters get a bucket of their own. *)
LetterSQLAccented(title) == titleInitialSQL(title)

LetterSQL(title) == IF titleInitialSQL(title) \in Letters THEN titleInitialSQL(title) ELSE "#"

PostgresHistogram(o) ==
  LET counted == {r \in ToSet(rows) : Clauses([o EXCEPT !.letter = Unset, !.query = Unset,
                                                        !.shelf = Unset], r)}
  IN [l \in {LetterSQL(r.title) : r \in counted} |->
        Cardinality({r \in counted : LetterSQL(r.title) = l})]

------------------------------------------------------------------------------
(* What is left of each code, for the two comparisons. *)
Identifiers == [code \in Codes |-> NormalizeIdentifier(code)]
MatchKeys   == [code \in Codes |-> isbnMatchKey(code)]

(* The duplicate check, of a title and two ISBNs that may be empty. *)
IsDuplicate(input, r) ==
  \/ input.title # "" /\ NormalizeTitle[r.title] = NormalizeTitle[input.title]
  \/ \E k \in {"isbn13", "isbn10"} :
       /\ Identifiers[input[k]] # <<>>
       /\ Identifiers[r[k]] = Identifiers[input[k]]

(* The in-memory repository goes through the items in insertion order. *)
MemoryDuplicates(input, owner) ==
  First({i \in DOMAIN rows : rows[i].owner = owner /\ IsDuplicate(input, rows[i])}, maxMatches)

(* Seeded fault: the limit is applied before the owner's clause. *)
PostgresDuplicatesOfAll(input, owner, answer) ==
  LET found == {r \in ToSet(rows) : IsDuplicate(input, r)}
  IN \E kept \in SUBSET found :
       /\ Cardinality(kept) = Min({maxMatches, Cardinality(found)})
       /\ \A r \in kept, q \in found \ kept : r.updated >= q.updated
       /\ answer = {r \in kept : r.owner = owner}

(* The latest updated matches; rows of one time may come in any order. *)
PostgresDuplicates(input, owner, answer) ==
  LET found == {r \in ToSet(rows) : r.owner = owner /\ IsDuplicate(input, r)}
  IN /\ answer \subseteq found
     /\ Cardinality(answer) = Min({maxMatches, Cardinality(found)})
     /\ \A r \in answer, q \in found \ answer : r.updated >= q.updated

------------------------------------------------------------------------------
(* FindByISBN: the newest book saved under a key of the code. *)
LookupKeys == [code \in Codes |-> isbnLookupKeys(code)]

Saved(code, owner) ==
  {r \in ToSet(rows) :
     /\ r.owner = owner /\ r.type = "book"
     /\ {MatchKeys[r.isbn13], MatchKeys[r.isbn10]} \intersect LookupKeys[code] # {}}

FindByISBN(order, code, owner) == Cut(Sorted(order, Saved(code, owner)), 1)

(* ListByIDs, for the items of a shelf. *)
MemoryByIDs(ids, owner) ==
  Sorted(Bytewise, {r \in ToSet(rows) : \E i \in DOMAIN ids : ids[i] = r.id /\ r.owner = owner})
PostgresByIDs(ids, owner) ==
  Sorted(Collated, {r \in ToSet(rows) : r.id \in ToSet(ids) /\ r.owner = owner})

------------------------------------------------------------------------------
(* The series view. *)
SeriesBooks(owner, name) ==
  {r \in ToSet(rows) : r.owner = owner /\ r.type = "book" /\ r.series # "" /\ r.series = name}

Summary(owner, name) ==
  LET books == SeriesBooks(owner, name)
  IN [name |-> name, owned |-> Cardinality(books), total |-> TotalVolumes(books),
      missing |-> MissingVolumes(books), count |-> MissingCount(books),
      status |-> determineSeriesStatus(books)]

(* An unknown status filters nothing. *)
ListSeries(owner, status) ==
  {s \in {Summary(owner, r.series) : r \in {q \in ownedItems(owner) :
                                              q.type = "book" /\ q.series # ""}} :
     status \in {"complete", "incomplete", "unknown"} => s.status = status}

(* Empty for a series not found. *)
GetSeriesByName(owner, name) ==
  {Summary(owner, r.series) : r \in SeriesBooks(owner, name)}

------------------------------------------------------------------------------
Init == rows = <<>>

(* The row of an item. *)
Row(c, id, created, updated) ==
  LET stamps == [id |-> id, created |-> created, updated |-> updated]
  IN [k \in DOMAIN c \union DOMAIN stamps |-> IF k \in DOMAIN stamps THEN stamps[k] ELSE c[k]]

(* IDs are random; here they count up.  A new item is as old as the request, or
   as old as an imported file says, which may tell of a later update too. *)
Create(c, created, updated) ==
  LET id == Max({0} \union {rows[i].id : i \in DOMAIN rows}) + 1
  IN /\ id \in Ids
     /\ rows' = Append(rows, Row(c, id, created, updated))

(* Seeded fault: an updated item goes to the end. *)
UpdateAtTheEnd(i, c, updated) ==
  /\ c.owner = rows[i].owner
  /\ rows' = Append(RemoveAt(rows, i),
                    Row(c, rows[i].id, rows[i].created, updated))

Update(i, c, updated) ==
  /\ c.owner = rows[i].owner
  /\ rows' = [rows EXCEPT ![i] = Row(c, @.id, @.created, updated)]

Delete(i) == rows' = RemoveAt(rows, i)

Next ==
  \/ \E c \in Pool, created, updated \in Times : Create(c, created, updated)
  \/ \E i \in DOMAIN rows : Delete(i) \/ \E c \in Pool, time \in Times : Update(i, c, time)

Spec == Init /\ [][Next]_rows

------------------------------------------------------------------------------
TypeOK ==
  \A i, j \in DOMAIN rows :
    /\ rows[i].id \in Ids /\ {rows[i].created, rows[i].updated} \subseteq Times
    /\ i < j => rows[i].id < rows[j].id

NoFilter(owner) == [owner |-> owner, type |-> Unset, status |-> Unset, letter |-> Unset,
                    query |-> Unset, shelf |-> Unset, limit |-> NoNumber]
(* The letter rail's counts are the lengths of the lists its letters open, in
   either repository, whatever type and status are chosen
   (memory_repository.go 354-404, postgres_repository.go 320-394). *)
HistogramCountsLists ==
  \A owner \in Owners, type \in {Unset, "book", "game"}, status \in {Unset, "none", "read"},
     l \in Letters \union {"#"} :
    LET o == [NoFilter(owner) EXCEPT !.type = type, !.status = status]
        opened   == [o EXCEPT !.letter = l]
        Count(h) == IF l \in DOMAIN h THEN h[l] ELSE 0
    IN /\ Len(List(opened, MemoryList(opened))) = Count(MemoryHistogram(o))
       /\ Len(List(opened, PostgresList(opened))) = Count(PostgresHistogram(o))

(* The two repositories read a title alike: LIKE finds the search in it if it
   contains it, and the letter they file it under is the same. *)
ReadAlike(o, title) ==
  /\ o.query = Unset \/ (o.query \in Finds[title] <=> o.query \in Likes[title])
  /\ o.letter = Unset \/ extractFirstLetter(title) = LetterSQL(title)

(* Both repositories list the same items, if they read the owner's titles alike;
   a limit leaves out none newer than those it keeps.  Items asked for by ID
   are listed in the same order, each once, and nobody else's
   (memory_repository.go 145-257, postgres_repository.go 133-233). *)
ListsAgree ==
  \A owner \in Owners :
    LET times(list) == [i \in DOMAIN list |-> list[i].created]
    IN /\ \A a, b \in Ids :
            times(MemoryByIDs(<<a, b, a>>, owner)) = times(PostgresByIDs(<<a, b, a>>, owner))
       /\ \A status \in {"", "none", "read"}, letter \in {"", "#"},
             query \in Searches \union {""}, shelf \in {"all", "on", "off"},
             limit \in {NoNumber, 1} :
            LET o == parseListOptions([owner |-> owner, type |-> "", status |-> status,
                       letter |-> letter, query |-> query, shelf_status |-> shelf, limit |-> limit])
                all   == LET any == [o EXCEPT !.limit = NoNumber] IN List(any, PostgresList(any))
                alike == \A r \in ownedItems(owner) : ReadAlike(o, r.title)
            IN \A list \in {List(o, PostgresList(o))}
                           \union (IF alike THEN {List(o, MemoryList(o))} ELSE {}) :
                 /\ times(list) = Cut(times(all), limit)
                 /\ limit = NoNumber => [i \in DOMAIN list |-> list[i].title]
                                       = [i \in DOMAIN all |-> all[i].title]

(* The duplicate check warns of a title or ISBN the owner has, and of nothing
   else; it leaves out matches only when there are too many
   (memory_repository.go 409-465, postgres_repository.go 399-445). *)
DuplicatesAreFound ==
  \A owner \in Owners, c \in Pool :
    LET same == {r \in ToSet(rows) : r.owner = owner /\ IsDuplicate(c, r)}
    IN \A answer \in {MemoryDuplicates(c, owner)}
                      \union {a \in SUBSET ToSet(rows) : PostgresDuplicates(c, owner, a)} :
         /\ answer \subseteq same
         /\ answer = same \/ Cardinality(answer) = maxMatches

(* A code names a book in one of two forms if its check digit is right. *)
Checked(key) ==
  IF Len(key) = 10 THEN (sum10(key) + key[10]) % 11 = 0
  ELSE /\ Len(key) = 13 /\ SubSeq(key, 1, 3) = Prefix978
       /\ key[13] # LetterX /\ (sum13(key) + key[13]) % 10 = 0
Named(key) == IF Len(key) = 10 THEN SubSeq(key, 1, 9) ELSE SubSeq(key, 4, 12)

SameBook ==
  [code \in Codes |-> [isbn \in Codes |->
     LET a == normalizeISBN(code)
         b == isbnMatchKey(isbn)
     IN a # <<>> /\ (a = b \/ (Checked(a) /\ Checked(b) /\ Named(a) = Named(b)))]]

(* A scan finds a book saved under either form of its ISBN; a misread code
   finds a book only if it was saved so (lookup.go 62-89,
   memory_repository.go 262-291, postgres_repository.go 241-261). *)
ScansFindTheBook ==
  \A owner \in Owners, code \in Codes :
    LET same == {r \in ToSet(rows) : /\ r.owner = owner /\ r.type = "book"
                                    /\ (SameBook[code][r.isbn13] \/ SameBook[code][r.isbn10])}
    IN \A order \in {Bytewise, Collated} :
         LET found == FindByISBN(order, code, owner)
         IN IF same = {} THEN found = <<>>
            ELSE found[1] \in same /\ \A r \in same : r.created <= found[1].created

(* Every book of a series is in one entry of the series view, which has the
   missing volumes in order, as many as there is room for, and counts them all;
   a series is incomplete if and only if some are missing
   (service_series.go 117-191, postgres_repository.go 448-530). *)
SeriesAddUp ==
  \A owner \in Owners :
    LET view == ListSeries(owner, Unset)
    IN /\ view = UNION {GetSeriesByName(owner, n) : n \in Series}
       /\ \A s \in view :
            LET books  == SeriesBooks(owner, s.name)
                volumes == (1..UpperBound(books)) \ OwnedVolumes(books)
                first  == {v \in volumes : Cardinality({w \in volumes : w < v}) < MaxMissing}
            IN /\ OwnedVolumes(books) # {} =>
                    s.count = Cardinality(volumes) /\ s.missing = Increasing(first)
               /\ (s.status = "incomplete") = (s.count \notin {NoNumber, 0})
               /\ s \in ListSeries(owner, s.status)
=============================================================================
