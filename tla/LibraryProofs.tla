--------------------------- MODULE LibraryProofs ----------------------------
(***************************************************************************)
(* Proofs about the item rules and the library: normalizing an item a      *)
(* second time changes nothing; whatever requests overlap, the table holds *)
(* only items the rules accept; and what a request may not do to a row.    *)
(***************************************************************************)
EXTENDS Library, FiniteSetTheorems, TLAPS

------------------------------------------------------------------------------
(* The rules, field by field. *)

LEMMA NumbersTwice ==
  ASSUME NEW n \in Numbers
  PROVE  /\ normalizeYear(n) \in Numbers
         /\ normalizeYear(normalizeYear(n)) = normalizeYear(n)
         /\ normalizePositiveInt(n) \in Numbers
         /\ normalizePositiveInt(normalizePositiveInt(n)) = normalizePositiveInt(n)
         /\ normalizeRating(n) \in Numbers
         /\ normalizeRating(normalizeRating(n)) = normalizeRating(n)
BY NilAssumption
   DEF Numbers, normalizeYear, normalizePositiveInt, normalizeRating

LEMMA PriceTwice ==
  ASSUME NEW n \in Numbers \union {NotFinite}
  PROVE  /\ normalizePrice(n) \in Numbers \union {NotFinite}
         /\ normalizePrice(normalizePrice(n)) = normalizePrice(n)
         /\ n # NotFinite => normalizePrice(n) # NotFinite
BY NilAssumption DEF Numbers, normalizePrice

LEMMA NamesTwice ==
  ASSUME NEW t \in Texts
  PROVE  /\ normalizeFormat(t) \in Texts
         /\ normalizeFormat(normalizeFormat(t)) = normalizeFormat(t)
         /\ normalizeGenre(t) \in Texts
         /\ normalizeGenre(normalizeGenre(t)) = normalizeGenre(t)
         /\ Trim[t] \in Texts
         /\ Trim[Trim[t]] = Trim[t]
BY TextAssumption DEF normalizeFormat, normalizeGenre

LEMMA EmptyText == "" \in Texts /\ Trim[""] = ""
BY TextAssumption

LEMMA CoverTwice ==
  ASSUME NEW c \in Covers
  PROVE  /\ TrimCover(c) \in Covers
         /\ TrimCover(TrimCover(c)) = TrimCover(c)
         /\ CoverOK(c) => CoverOK(TrimCover(c))
<1>1. TrimCover(c) \in Covers /\ TrimCover(TrimCover(c)) = TrimCover(c)
  BY DEF Covers, TrimCover
<1>2. /\ TrimCover(c).form = c.form /\ TrimCover(c).whole = c.whole
      /\ TrimCover(c).kind = c.kind /\ TrimCover(c).host = c.host
      /\ TrimCover(c).size = c.size
  BY DEF Covers, TrimCover
<1> QED BY <1>1, <1>2 DEF CoverOK

LEMMA FieldTypes ==
  /\ FieldType("itemType") = ItemTypes \union {"", "other"}
  /\ FieldType("status") = Statuses \union {"", "other"}
  /\ FieldType("cover") = Covers
  /\ FieldType("readAt") = Dates \union {Nil, NeverDate}
  /\ FieldType("price") = Numbers \union {NotFinite}
  /\ FieldType("releaseYear") = Numbers /\ FieldType("pageCount") = Numbers
  /\ FieldType("currentPage") = Numbers /\ FieldType("rating") = Numbers
  /\ FieldType("volume") = Numbers /\ FieldType("total") = Numbers
  /\ FieldType("title") = Texts /\ FieldType("description") = Texts
  /\ FieldType("isbn") = Texts /\ FieldType("format") = Texts
  /\ FieldType("genre") = Texts /\ FieldType("volumeId") = Texts
  /\ FieldType("platform") = Texts /\ FieldType("series") = Texts
BY DEF FieldType

(* The types of the fields. *)
LEMMA Fields ==
  ASSUME NEW i
  PROVE  i \in Inputs =>
           /\ {i.title, i.description, i.isbn, i.format, i.genre, i.volumeId,
               i.platform, i.series} \subseteq Texts
           /\ {i.releaseYear, i.pageCount, i.currentPage, i.rating, i.volume,
               i.total} \subseteq Numbers
           /\ i.price \in Numbers \union {NotFinite}
           /\ i.cover \in Covers
           /\ i.itemType \in ItemTypes \union {"", "other"}
           /\ i.status \in Statuses \union {"", "other"}
           /\ i.readAt \in Dates \union {Nil, NeverDate}
BY DEF Inputs, FieldType

(* A record of the fields of another. *)
Rebuilt(n) ==
  [title |-> n.title, itemType |-> n.itemType, description |-> n.description,
   releaseYear |-> n.releaseYear, pageCount |-> n.pageCount,
   currentPage |-> n.currentPage, isbn |-> n.isbn, cover |-> n.cover,
   format |-> n.format, genre |-> n.genre, rating |-> n.rating, price |-> n.price,
   volumeId |-> n.volumeId, platform |-> n.platform, status |-> n.status,
   readAt |-> n.readAt, series |-> n.series, volume |-> n.volume, total |-> n.total]

LEMMA NormalWhole ==
  ASSUME NEW i, NEW c PROVE Normal(i, c) = Rebuilt(Normal(i, c))
BY DEF Normal, Rebuilt

LEMMA NormalTyped ==
  ASSUME NEW i \in Inputs, NEW c \in BOOLEAN, Accepts(i, c)
  PROVE  Normal(i, c) \in Inputs
<1>1. StatusOf(i) \in Statuses
  BY DEF Accepts, StatusOK, StatusOf, Statuses
<1>2. /\ \A n \in {i.releaseYear, i.pageCount, i.rating, i.volume, i.total} :
           /\ normalizeYear(n) \in Numbers /\ normalizePositiveInt(n) \in Numbers
           /\ normalizeRating(n) \in Numbers
      /\ normalizePrice(i.price) \in Numbers \union {NotFinite}
      /\ \A t \in {i.title, i.description, i.isbn, i.format, i.genre, i.volumeId,
                   i.platform, i.series} :
           /\ Trim[t] \in Texts /\ normalizeFormat(t) \in Texts
           /\ normalizeGenre(t) \in Texts
      /\ TrimCover(i.cover) \in Covers
  BY Fields, NumbersTwice, PriceTwice, NamesTwice, CoverTwice
<1> DEFINE n == Normal(i, c)
<1>3. /\ {n.title, n.description, n.volumeId, n.series} \subseteq Texts
      /\ {n.isbn, n.format, n.genre, n.platform} \subseteq Texts
  BY <1>2, EmptyText DEF Normal
<1>4. /\ {n.releaseYear, n.pageCount, n.rating, n.volume, n.total} \subseteq Numbers
      /\ n.currentPage \in Numbers
      /\ n.price \in Numbers \union {NotFinite}
  <2>1. Nil \in Numbers /\ i.currentPage \in Numbers
    BY Fields DEF Numbers
  <2> QED BY <1>2, <2>1 DEF Normal
<1>5. /\ n.cover \in Covers
      /\ n.itemType \in ItemTypes \union {"", "other"}
      /\ n.status \in Statuses \union {"", "other"}
      /\ n.readAt \in Dates \union {Nil, NeverDate}
  BY <1>1, <1>2, Fields DEF Normal
<1>6. n = Rebuilt(n)
  BY NormalWhole
<1> HIDE DEF n
<1>7. Rebuilt(n) \in Inputs
  BY <1>3, <1>4, <1>5, FieldTypes DEF Inputs, Rebuilt
<1> QED
  BY <1>6, <1>7 DEF n

(* Normalizing again returns the item unchanged, and accepts it (the promise
   of NormalizeCreateInput, service.go 37-40). *)
THEOREM NormalTwice ==
  ASSUME NEW i \in Inputs, NEW c \in BOOLEAN, Accepts(i, c)
  PROVE  /\ Accepts(Normal(i, c), c)
         /\ Normal(Normal(i, c), c) = Normal(i, c)
         /\ IsNormal(Normal(i, c))
<1> DEFINE n == Normal(i, c)
<1>1. n \in Inputs
  BY NormalTyped
<1>2. /\ n.itemType = i.itemType /\ n.title = Trim[i.title]
      /\ n.currentPage = IF StatusOf(i) = "reading" THEN i.currentPage ELSE Nil
      /\ n.price = (IF IsBook(i) THEN normalizePrice(i.price) ELSE Nil)
      /\ n.cover = (IF c THEN TrimCover(i.cover) ELSE i.cover)
      /\ n.status = StatusOf(i)
      /\ n.readAt = IF StatusOf(i) = "read" THEN i.readAt ELSE Nil
      /\ IsBook(i) => /\ n.pageCount = normalizePositiveInt(i.pageCount)
                      /\ n.volume = normalizePositiveInt(i.volume)
                      /\ n.total = normalizePositiveInt(i.total)
  BY DEF Normal
<1>3. /\ IsBook(n) = IsBook(i)
      /\ StatusOf(n) = StatusOf(i)
  <2>1. IsBook(i) => StatusOf(i) # ""
    BY DEF StatusOf
  <2> QED BY <1>2, <2>1 DEF IsBook, StatusOf
<1>4. ASSUME NEW d \in BOOLEAN, d => c PROVE Accepts(n, d)
  <2>1. validateItemInput(n)
    BY <1>2, Fields, NamesTwice DEF Accepts, validateItemInput
  <2>2. n.currentPage = Nil \/ n.currentPage >= 0
    BY <1>2 DEF Accepts
  <2>3. n.price # NotFinite
    BY <1>2, Fields, PriceTwice, NilAssumption DEF Accepts
  <2>4. d => CoverOK(n.cover)
    BY <1>2, <1>4, Fields, CoverTwice DEF Accepts
  <2>5. ASSUME IsBook(n) PROVE SeriesOK(n)
    <3>1. SeriesOK(i) /\ n.volume = normalizePositiveInt(i.volume)
          /\ n.total = normalizePositiveInt(i.total)
      BY <2>5, <1>2, <1>3 DEF Accepts
    <3>2. /\ normalizePositiveInt(n.volume) = n.volume
          /\ normalizePositiveInt(n.total) = n.total
      BY <3>1, Fields, NumbersTwice
    <3> QED
      BY <3>1, <3>2, Fields DEF SeriesOK, normalizePositiveInt, Numbers, maxSeriesVolumes
  <2>6. ASSUME IsBook(n) PROVE StatusOK(n)
    <3>1. StatusOK(i) /\ n.pageCount = normalizePositiveInt(i.pageCount)
      BY <2>6, <1>2, <1>3 DEF Accepts
    <3>2. normalizePositiveInt(n.pageCount) = normalizePositiveInt(i.pageCount)
      BY <3>1, Fields, NumbersTwice
    <3> QED BY <1>2, <1>3, <3>1, <3>2 DEF StatusOK
  <2> QED BY <2>1, <2>2, <2>3, <2>4, <2>5, <2>6 DEF Accepts
<1>5. ASSUME NEW d \in BOOLEAN, d => c PROVE Normal(n, d) = n
  <2>1. /\ \A m \in {i.releaseYear, i.pageCount, i.rating, i.volume, i.total} :
             /\ normalizeYear(normalizeYear(m)) = normalizeYear(m)
             /\ normalizePositiveInt(normalizePositiveInt(m)) = normalizePositiveInt(m)
             /\ normalizeRating(normalizeRating(m)) = normalizeRating(m)
        /\ normalizePrice(normalizePrice(i.price)) = normalizePrice(i.price)
        /\ \A t \in {i.title, i.description, i.isbn, i.format, i.genre, i.volumeId,
                     i.platform, i.series} :
             /\ Trim[Trim[t]] = Trim[t]
             /\ normalizeFormat(normalizeFormat(t)) = normalizeFormat(t)
             /\ normalizeGenre(normalizeGenre(t)) = normalizeGenre(t)
        /\ TrimCover(TrimCover(i.cover)) = TrimCover(i.cover)
    BY Fields, NumbersTwice, PriceTwice, NamesTwice, CoverTwice
  <2>2. (IF d THEN TrimCover(n.cover) ELSE n.cover) = n.cover
    BY <1>2, <1>5, <2>1
  <2>3. /\ Trim[n.title] = n.title /\ Trim[n.description] = n.description
        /\ normalizeYear(n.releaseYear) = n.releaseYear
        /\ (IF n.itemType = "game" THEN Trim[n.platform] ELSE "") = n.platform
    BY <2>1 DEF Normal
  <2>7. /\ (IF StatusOf(n) = "reading" THEN n.currentPage ELSE Nil) = n.currentPage
        /\ StatusOf(n) = n.status
        /\ (IF StatusOf(n) = "read" THEN n.readAt ELSE Nil) = n.readAt
    <3> HIDE DEF n
    <3> QED BY <1>2, <1>3
  <2>4. /\ (IF IsBook(n) THEN normalizePositiveInt(n.pageCount) ELSE Nil) = n.pageCount
        /\ (IF IsBook(n) THEN Trim[n.isbn] ELSE "") = n.isbn
        /\ (IF IsBook(n) THEN normalizeFormat(n.format) ELSE "") = n.format
        /\ (IF IsBook(n) THEN normalizeGenre(n.genre) ELSE "") = n.genre
        /\ (IF IsBook(n) THEN normalizeRating(n.rating) ELSE Nil) = n.rating
        /\ (IF IsBook(n) THEN normalizePrice(n.price) ELSE Nil) = n.price
    BY <1>3, <2>1 DEF Normal
  <2>5. /\ (IF IsBook(n) THEN Trim[n.volumeId] ELSE "") = n.volumeId
        /\ (IF IsBook(n) THEN Trim[n.series] ELSE "") = n.series
        /\ (IF IsBook(n) THEN normalizePositiveInt(n.volume) ELSE Nil) = n.volume
        /\ (IF IsBook(n) THEN normalizePositiveInt(n.total) ELSE Nil) = n.total
    BY <1>3, <2>1 DEF Normal
  <2>6. n = Rebuilt(n)
    BY NormalWhole
  <2> HIDE DEF n
  <2> QED BY <2>2, <2>3, <2>4, <2>5, <2>6, <2>7 DEF Normal, Rebuilt
<1> QED BY <1>4, <1>5 DEF IsNormal

------------------------------------------------------------------------------
(* What the requests write. *)

LEMMA PatchTyped ==
  ASSUME NEW body, IsPatch(body), NEW i \in Inputs
  PROVE  applyTo(ParseItemPatch(body), i) \in Inputs
<1> DEFINE p == ParseItemPatch(body)
<1>1. ASSUME NEW k \in editableItemKeys, sets(p, k) PROVE p[k].val \in FieldType(k)
  <2>1. k \in DOMAIN body
    BY <1>1 DEF sets, ParseItemPatch
  <2>2. CASE body[k].kind = "null" /\ k \in nullResetItemKeys
    <3>1. p[k].val = ""
      BY <2>1, <2>2 DEF ParseItemPatch
    <3>2. "" \in FieldType(k)
      BY <2>2, FieldTypes, EmptyText DEF nullResetItemKeys
    <3> HIDE DEF p
    <3> QED BY <3>1, <3>2
  <2>3. CASE ~(body[k].kind = "null" /\ k \in nullResetItemKeys)
    <3>1. p[k] = body[k]
      BY <2>1, <2>3 DEF ParseItemPatch
    <3> HIDE DEF p
    <3> QED BY <1>1, <2>1, <3>1 DEF IsPatch, sets
  <2> QED BY <2>2, <2>3
<1>2. applyTo(p, i) = Rebuilt(applyTo(p, i))
  BY DEF applyTo, Rebuilt
<1> HIDE DEF p
<1>K. {"title", "description", "isbn", "format", "genre", "volumeId", "platform",
       "series", "releaseYear", "pageCount", "currentPage", "rating", "volume", "total",
       "price", "cover", "itemType", "status", "readAt"} \subseteq editableItemKeys
  BY DEF editableItemKeys, nullResetItemKeys, pointerItemKeys
<1>A. ASSUME NEW k \in editableItemKeys, NEW old \in FieldType(k)
      PROVE  FieldAfter(p, k, old) \in FieldType(k)
  <2>2. k \in pointerItemKeys => Nil \in FieldType(k)
    BY FieldTypes DEF pointerItemKeys, Numbers
  <2> QED BY <1>1, <2>2 DEF FieldAfter
<1>3. /\ FieldAfter(p, "title", i.title) \in Texts
      /\ FieldAfter(p, "description", i.description) \in Texts
      /\ FieldAfter(p, "isbn", i.isbn) \in Texts
      /\ FieldAfter(p, "format", i.format) \in Texts
      /\ FieldAfter(p, "genre", i.genre) \in Texts
      /\ FieldAfter(p, "volumeId", i.volumeId) \in Texts
      /\ FieldAfter(p, "platform", i.platform) \in Texts
      /\ FieldAfter(p, "series", i.series) \in Texts
  BY <1>A, <1>K, FieldTypes, Fields
<1>4. /\ FieldAfter(p, "releaseYear", i.releaseYear) \in Numbers
      /\ FieldAfter(p, "pageCount", i.pageCount) \in Numbers
      /\ FieldAfter(p, "currentPage", i.currentPage) \in Numbers
      /\ FieldAfter(p, "rating", i.rating) \in Numbers
      /\ FieldAfter(p, "volume", i.volume) \in Numbers
      /\ FieldAfter(p, "total", i.total) \in Numbers
  BY <1>A, <1>K, FieldTypes, Fields
<1>5. /\ FieldAfter(p, "price", i.price) \in Numbers \union {NotFinite}
      /\ FieldAfter(p, "cover", i.cover) \in Covers
      /\ FieldAfter(p, "itemType", i.itemType) \in ItemTypes \union {"", "other"}
      /\ FieldAfter(p, "status", i.status) \in Statuses \union {"", "other"}
      /\ FieldAfter(p, "readAt", i.readAt) \in Dates \union {Nil, NeverDate}
  BY <1>A, <1>K, FieldTypes, Fields
<1>6. Rebuilt(applyTo(p, i)) \in Inputs
  BY <1>3, <1>4, <1>5, FieldTypes, Fields DEF Inputs, Rebuilt, applyTo
<1> QED BY <1>2, <1>6 DEF p

LEMMA InputsWhole ==
  ASSUME NEW i \in Inputs PROVE i = Rebuilt(i)
BY DEF Inputs, Rebuilt

(* Fields that only a book has, and none of which the rules check, may change
   to values the rules leave alone. *)
LEMMA BookFieldsFree ==
  ASSUME NEW i \in Inputs, IsNormal(i), IsBook(i),
         NEW j \in Inputs,
         j.title = i.title, j.itemType = i.itemType, j.releaseYear = i.releaseYear,
         j.pageCount = i.pageCount, j.currentPage = i.currentPage, j.isbn = i.isbn,
         j.format = i.format, j.rating = i.rating, j.platform = i.platform,
         j.status = i.status, j.readAt = i.readAt,
         Trim[j.description] = j.description, normalizeGenre(j.genre) = j.genre,
         j.price # NotFinite, normalizePrice(j.price) = j.price,
         Trim[j.volumeId] = j.volumeId, Trim[j.series] = j.series,
         \/ j.volume = i.volume /\ j.total = i.total
         \/ j.volume = Nil /\ j.total = Nil
  PROVE  IsNormal(j)
<1>1. IsBook(j) /\ StatusOf(j) = StatusOf(i)
  BY DEF IsBook, StatusOf
<1>2. Accepts(j, FALSE)
  <2>1. Accepts(i, FALSE)
    BY DEF IsNormal
  <2>2. SeriesOK(j)
    BY <2>1 DEF Accepts, SeriesOK, normalizePositiveInt
  <2>3. StatusOK(j)
    BY <1>1, <2>1 DEF Accepts, StatusOK
  <2> QED BY <2>1, <2>2, <2>3 DEF Accepts, validateItemInput
<1>3. Normal(i, FALSE) = i
  BY DEF IsNormal
<1>4. /\ i.title = Trim[i.title] /\ i.releaseYear = normalizeYear(i.releaseYear)
      /\ i.pageCount = normalizePositiveInt(i.pageCount)
      /\ i.currentPage = (IF StatusOf(i) = "reading" THEN i.currentPage ELSE Nil)
      /\ i.isbn = Trim[i.isbn] /\ i.format = normalizeFormat(i.format)
      /\ i.rating = normalizeRating(i.rating)
      /\ i.status = StatusOf(i)
      /\ i.readAt = (IF StatusOf(i) = "read" THEN i.readAt ELSE Nil)
      /\ i.platform = (IF i.itemType = "game" THEN Trim[i.platform] ELSE "")
      /\ i.volume = normalizePositiveInt(i.volume)
      /\ i.total = normalizePositiveInt(i.total)
  <2> DEFINE n == Normal(i, FALSE)
  <2>1. /\ n.title = Trim[i.title] /\ n.releaseYear = normalizeYear(i.releaseYear)
        /\ n.pageCount = normalizePositiveInt(i.pageCount)
        /\ n.currentPage = (IF StatusOf(i) = "reading" THEN i.currentPage ELSE Nil)
        /\ n.isbn = Trim[i.isbn] /\ n.format = normalizeFormat(i.format)
        /\ n.rating = normalizeRating(i.rating)
        /\ n.status = StatusOf(i)
        /\ n.readAt = (IF StatusOf(i) = "read" THEN i.readAt ELSE Nil)
        /\ n.platform = (IF i.itemType = "game" THEN Trim[i.platform] ELSE "")
        /\ n.volume = normalizePositiveInt(i.volume)
        /\ n.total = normalizePositiveInt(i.total)
    BY DEF Normal
  <2>2. n = i
    BY <1>3
  <2> HIDE DEF n
  <2> QED BY <2>1, <2>2
<1>5. Normal(j, FALSE) = Rebuilt(j)
  <2>1. /\ j.volume = normalizePositiveInt(j.volume)
        /\ j.total = normalizePositiveInt(j.total)
    BY <1>4 DEF normalizePositiveInt
  <2>2. IsBook(i) /\ IsBook(j)
    BY <1>1
  <2> QED BY <1>1, <1>4, <2>1, <2>2 DEF Normal, Rebuilt
<1> QED BY <1>2, <1>5, InputsWhole DEF IsNormal
LEMMA RefreshedNormal ==
  ASSUME NEW i \in Inputs, IsNormal(i), IsBook(i), NEW m \in Metadata
  PROVE  Refreshed(i, m) \in Inputs /\ IsNormal(Refreshed(i, m))
<1> DEFINE j == Refreshed(i, m)
<1>1. /\ m.genre \in Texts /\ m.price \in Nat \union {Nil} /\ m.cover \in Covers
      /\ m.volumeId \in Texts /\ m.description \in Texts
      /\ Trim[m.volumeId] = m.volumeId /\ Trim[m.description] = m.description
  BY LibraryAssumption
<1>2. /\ Trim[i.description] = i.description /\ normalizeGenre(i.genre) = i.genre
      /\ i.price # NotFinite /\ normalizePrice(i.price) = i.price
      /\ Trim[i.volumeId] = i.volumeId /\ Trim[i.series] = i.series
  <2> DEFINE n == Normal(i, FALSE)
  <2>1. /\ n.description = Trim[i.description] /\ n.genre = normalizeGenre(i.genre)
        /\ n.price = normalizePrice(i.price)
        /\ n.volumeId = Trim[i.volumeId] /\ n.series = Trim[i.series]
    BY DEF Normal
  <2>2. n = i /\ i.price # NotFinite
    BY DEF IsNormal, Accepts
  <2> HIDE DEF n
  <2> QED BY <2>1, <2>2
<1>3. /\ j.title = i.title /\ j.itemType = i.itemType /\ j.releaseYear = i.releaseYear
      /\ j.pageCount = i.pageCount /\ j.currentPage = i.currentPage /\ j.isbn = i.isbn
      /\ j.format = i.format /\ j.rating = i.rating /\ j.platform = i.platform
      /\ j.status = i.status /\ j.readAt = i.readAt /\ j.series = i.series
      /\ j.volume = i.volume /\ j.total = i.total
  BY DEF Refreshed, Inputs
<1>4. /\ j.volumeId = (IF m.volumeId # "" THEN m.volumeId ELSE i.volumeId)
      /\ j.genre = (IF m.genre # "" THEN normalizeGenre(m.genre) ELSE i.genre)
      /\ j.price = (IF m.price # Nil THEN m.price ELSE i.price)
      /\ j.cover = (IF i.cover.form = "none" THEN m.cover ELSE i.cover)
      /\ j.description = (IF i.description = "" THEN m.description ELSE i.description)
  BY DEF Refreshed, Inputs
<1>5. j \in Inputs
  <2> DEFINE a == IF m.volumeId # "" THEN m.volumeId ELSE i.volumeId
             b == IF m.genre # "" THEN normalizeGenre(m.genre) ELSE i.genre
             d == IF m.price # Nil THEN m.price ELSE i.price
             e == IF i.cover.form = "none" THEN m.cover ELSE i.cover
             f == IF i.description = "" THEN m.description ELSE i.description
  <2>1. a \in Texts /\ f \in Texts /\ e \in Covers
    BY <1>1, Fields
  <2>2. normalizeGenre(m.genre) \in Texts /\ i.genre \in Texts
    BY <1>1, NamesTwice, Fields
  <2>3. b \in Texts
    BY <2>2
  <2>4. d \in Numbers \union {NotFinite}
    <3>1. m.price \in Numbers
      BY <1>1 DEF Numbers
    <3>2. i.price \in Numbers \union {NotFinite}
      BY Fields
    <3> QED BY <3>1, <3>2
  <2>5. j = [i EXCEPT !.volumeId = a, !.genre = b, !.price = d, !.cover = e,
                      !.description = f]
    BY DEF Refreshed
  <2> HIDE DEF a, b, d, e, f, j
  <2> QED BY <2>1, <2>3, <2>4, <2>5, FieldTypes DEF Inputs
<1> HIDE DEF j
<1>7. /\ Trim[j.description] = j.description /\ normalizeGenre(j.genre) = j.genre
      /\ Trim[j.volumeId] = j.volumeId /\ Trim[j.series] = j.series
  BY <1>1, <1>2, <1>3, <1>4, NamesTwice
<1>8. j.price # NotFinite /\ normalizePrice(j.price) = j.price
  <2>1. CASE m.price = Nil
    BY <1>2, <1>4, <2>1
  <2>2. CASE m.price # Nil
    <3>1. j.price = m.price /\ m.price \in Nat
      BY <1>1, <1>4, <2>2
    <3> QED BY <3>1, NilAssumption DEF normalizePrice
  <2> QED BY <2>1, <2>2
<1>9. IsNormal(j)
  BY <1>3, <1>5, <1>7, <1>8, BookFieldsFree
<1> QED
  BY <1>5, <1>9 DEF j

(* RenameSeries and ClearSeriesName. *)
LEMMA SeriesNormal ==
  ASSUME NEW i \in Inputs, IsNormal(i), IsBook(i), NEW t \in Texts
  PROVE  /\ [i EXCEPT !.series = Trim[t]] \in Inputs
         /\ IsNormal([i EXCEPT !.series = Trim[t]])
         /\ [i EXCEPT !.series = "", !.volume = Nil, !.total = Nil] \in Inputs
         /\ IsNormal([i EXCEPT !.series = "", !.volume = Nil, !.total = Nil])
<1>1. /\ Trim[i.description] = i.description /\ normalizeGenre(i.genre) = i.genre
      /\ i.price # NotFinite /\ normalizePrice(i.price) = i.price
      /\ Trim[i.volumeId] = i.volumeId
  <2> DEFINE n == Normal(i, FALSE)
  <2>1. /\ n.description = Trim[i.description] /\ n.genre = normalizeGenre(i.genre)
        /\ n.price = normalizePrice(i.price) /\ n.volumeId = Trim[i.volumeId]
    BY DEF Normal
  <2>2. n = i /\ i.price # NotFinite
    BY DEF IsNormal, Accepts
  <2> HIDE DEF n
  <2> QED BY <2>1, <2>2
<1>2. ASSUME NEW s \in Texts, Trim[s] = s, NEW v \in Numbers, NEW w \in Numbers,
             \/ v = i.volume /\ w = i.total
             \/ v = Nil /\ w = Nil
      PROVE  LET j == [i EXCEPT !.series = s, !.volume = v, !.total = w]
             IN j \in Inputs /\ IsNormal(j)
  <2> DEFINE j == [i EXCEPT !.series = s, !.volume = v, !.total = w]
  <2>1. j \in Inputs
    BY FieldTypes DEF Inputs
  <2>2. /\ j.title = i.title /\ j.itemType = i.itemType /\ j.releaseYear = i.releaseYear
        /\ j.pageCount = i.pageCount /\ j.currentPage = i.currentPage /\ j.isbn = i.isbn
        /\ j.format = i.format /\ j.rating = i.rating /\ j.platform = i.platform
        /\ j.status = i.status /\ j.readAt = i.readAt
        /\ j.description = i.description /\ j.genre = i.genre /\ j.price = i.price
        /\ j.volumeId = i.volumeId
        /\ j.series = s /\ j.volume = v /\ j.total = w
    BY DEF Inputs
  <2> HIDE DEF j
  <2>3. IsNormal(j)
    BY <1>1, <1>2, <2>1, <2>2, BookFieldsFree
  <2> QED BY <2>1, <2>3 DEF j
<1>3. [i EXCEPT !.series = Trim[t]]
        = [i EXCEPT !.series = Trim[t], !.volume = i.volume, !.total = i.total]
  BY DEF Inputs
<1>4. Nil \in Numbers /\ i.volume \in Numbers /\ i.total \in Numbers
  BY Fields DEF Numbers
<1>5. LET j == [i EXCEPT !.series = Trim[t], !.volume = i.volume, !.total = i.total]
      IN j \in Inputs /\ IsNormal(j)
  BY <1>2, <1>4, NamesTwice
<1>6. LET j == [i EXCEPT !.series = "", !.volume = Nil, !.total = Nil]
      IN j \in Inputs /\ IsNormal(j)
  BY <1>2, <1>4, EmptyText
<1> QED BY <1>3, <1>5, <1>6
------------------------------------------------------------------------------
(* The inductive invariant: what it says of the table, and of each request. *)

RowOK(x) == x \in Rows /\ IsNormal(x.item)

TableOK ==
  /\ items = [id \in Ids |-> items[id]]
  /\ \A id \in Ids : items[id] \in {Unborn, Gone} \/ RowOK(items[id])

Domains ==
  /\ ask \in Workloads
  /\ DOMAIN step = Requests /\ DOMAIN seen = Requests
  /\ DOMAIN found = Requests /\ DOMAIN reply = Requests
  /\ step = [r \in Requests |-> step[r]] /\ reply = [r \in Requests |-> reply[r]]
  /\ faults \in 0..MaxFaults

Progress(r) ==
  /\ step[r] \in Steps /\ reply[r] \in Replies
  /\ (step[r] = "done") = (reply[r] # "none")

(* What a request that is still to write has read. *)
Holds(r) ==
  /\ At(r, {"update", "resync"}, "write") \/ At(r, {"resync"}, "by_id")
       \/ At(r, {"resync"}, "by_isbn") => RowOK(seen[r])
  /\ At(r, {"resync"}, "write") \/ At(r, {"resync"}, "by_id")
       \/ At(r, {"resync"}, "by_isbn") => IsBook(seen[r].item)
  /\ At(r, {"update"}, "write") => Accepts(Patched(r, seen[r].item), ChecksCover(r))
  /\ At(r, {"resync"}, "write") => found[r] \in Metadata

(* What it relies on in the table, and has told its client about it. *)
Relies(r) ==
  /\ At(r, {"create"}, "start") => items[ask[r].id] = Unborn
  /\ ask[r].op \in ItemOps /\ reply[r] = "not_found" => ~Mine(r)
  /\ ask[r].op = "delete" /\ reply[r] = "ok" => items[ask[r].id] = Gone

OneDeletes ==
  \A r, q \in Requests :
    /\ ask[r].op = "delete" /\ ask[q].op = "delete"
    /\ reply[r] = "ok" /\ reply[q] = "ok" /\ ask[r].id = ask[q].id
    => r = q

LibInv ==
  /\ TableOK /\ Domains /\ OneDeletes
  /\ \A r \in Requests : Progress(r) /\ Holds(r) /\ Relies(r)

LEMMA Workload ==
  ASSUME LibInv, NEW r \in Requests
  PROVE  /\ ask[r].owner \in Owners
         /\ ask[r].op \in ItemOps \union {"create", "rename", "dissolve"}
         /\ ask[r].op \in ItemOps \union {"create"} => ask[r].id \in Ids
         /\ ask[r].op = "create" => ask[r].input \in Inputs
         /\ ask[r].op = "create" =>
              \A q \in Requests \ {r} :
                ask[q].op \in ItemOps \union {"create"} => ask[q].id # ask[r].id
         /\ ask[r].op = "update" => IsPatch(ask[r].body)
         /\ ask[r].op \in {"rename", "dissolve"} => {ask[r].name, ask[r].new} \subseteq Texts
BY LibraryAssumption DEF LibInv, Domains

LEMMA InitInv == Init => LibInv
<1> SUFFICES ASSUME Init PROVE LibInv
  OBVIOUS
<1>1. TableOK
  BY LibraryAssumption DEF Init, TableOK, RowOK
<1>2. Domains /\ OneDeletes
  BY LibraryAssumption DEF Init, Domains, OneDeletes
<1>3. ASSUME NEW r \in Requests PROVE Progress(r) /\ Holds(r) /\ Relies(r)
  BY LibraryAssumption DEF Init, Progress, Holds, Relies, At, Steps, Replies
<1> QED BY <1>1, <1>2, <1>3 DEF LibInv

(* What one step of request r does to the table: it may replace rows of its
   owner by rows the rules accept, remove them, or create its new one. *)
TableStep(r) ==
  /\ items' = [id \in Ids |-> items'[id]]
  /\ \A id \in Ids :
       \/ items'[id] = items[id]
       \/ /\ Has(id, ask[r].owner)
          /\ \/ items'[id] = Gone
             \/ RowOK(items'[id]) /\ items'[id].owner = items[id].owner
       \/ /\ items[id] = Unborn /\ RowOK(items'[id])
          /\ ask[r].op = "create" /\ ask[r].id = id

(* It changes nothing that belongs to another request. *)
Alone(r) ==
  /\ Domains'
  /\ ask' = ask
  /\ \A q \in Requests \ {r} :
       /\ step'[q] = step[q] /\ seen'[q] = seen[q]
       /\ found'[q] = found[q] /\ reply'[q] = reply[q]

(* A delete that is answered as done removed a row. *)
Removed(r) ==
  ask[r].op = "delete" /\ reply'[r] = "ok" /\ reply[r] # "ok" =>
    items[ask[r].id] # Gone

Kept(r) == LibInv' /\ TableStep(r)

LEMMA StepKeepsInv ==
  ASSUME LibInv, NEW r \in Requests, TableStep(r), Alone(r), Removed(r),
         Progress(r)', Holds(r)', Relies(r)'
  PROVE  Kept(r)
<1>1. TableOK'
  BY DEF TableStep, TableOK, LibInv
<1>2. ASSUME NEW q \in Requests PROVE Progress(q)' /\ Holds(q)'
  BY <1>2 DEF LibInv, Alone, Progress, Holds, At, Patched, ChecksCover
<1>3. ASSUME NEW q \in Requests \ {r} PROVE Relies(q)'
  <2>1. /\ ask'[q] = ask[q] /\ step'[q] = step[q] /\ reply'[q] = reply[q]
        /\ Relies(q)
    BY DEF Alone, LibInv
  <2>2. ASSUME At(q, {"create"}, "start")' PROVE items'[ask[q].id] = Unborn
    <3>1. items[ask[q].id] = Unborn /\ ask[q].id \in Ids /\ ask[q].op = "create"
      BY <2>1, <2>2, Workload DEF Relies, At
    <3>2. ~(ask[r].op = "create" /\ ask[r].id = ask[q].id)
      BY <3>1, Workload
    <3> QED BY <3>1, <3>2 DEF TableStep, Has
  <2>3. ASSUME ask[q].op \in ItemOps, ~Mine(q) PROVE ~Mine(q)'
    <3>1. ask[q].id \in Ids /\ ~(ask[r].op = "create" /\ ask[r].id = ask[q].id)
      BY <2>3, Workload
    <3>2. ask'[q] = ask[q]
      BY <2>1
    <3> QED BY <2>3, <3>1, <3>2 DEF TableStep, Mine, Has
  <2>4. ASSUME ask[q].op = "delete", items[ask[q].id] = Gone
        PROVE  items'[ask[q].id] = Gone
    <3>1. ask[q].id \in Ids
      BY <2>4, Workload DEF ItemOps
    <3> QED BY <2>4, <3>1, LibraryAssumption DEF TableStep, Has
  <2> QED BY <2>1, <2>2, <2>3, <2>4 DEF Relies, ItemOps
<1>4. OneDeletes'
  <2> SUFFICES ASSUME NEW a \in Requests, NEW b \in Requests,
                      ask[a].op = "delete", ask[b].op = "delete", reply'[a] = "ok",
                      reply'[b] = "ok", ask[a].id = ask[b].id, a # b
               PROVE  FALSE
    BY DEF OneDeletes, Alone
  <2>1. reply[a] # "ok" \/ reply[b] # "ok"
    BY DEF LibInv, OneDeletes
  <2>2. PICK c \in {a, b}, d \in {a, b} :
          c # d /\ reply[c] # "ok" /\ reply'[c] = "ok"
    BY <2>1
  <2>3. c = r /\ d # r
    BY <2>2 DEF Alone
  <2>4. reply[d] = "ok" /\ items[ask[d].id] = Gone
    BY <2>3 DEF Alone, LibInv, Relies
  <2> QED BY <2>2, <2>3, <2>4 DEF Removed
<1> QED BY <1>1, <1>2, <1>3, <1>4 DEF LibInv, Alone, Kept
------------------------------------------------------------------------------
(* One lemma for each action. *)

(* What a step that leaves the table alone has to show. *)
LEMMA NoWrite ==
  ASSUME LibInv, NEW r \in Requests, UNCHANGED items
  PROVE  TableStep(r)
BY DEF TableStep, LibInv, TableOK

(* A failed or unanswered statement. *)
LEMMA FaultKeeps ==
  ASSUME LibInv, NEW r \in Requests, Fault(r), UNCHANGED <<ask, seen, found>>
  PROVE  Alone(r) /\ Progress(r)' /\ Holds(r)' /\ Removed(r) /\ Relies(r)'
<1>1. step'[r] = "done" /\ reply'[r] = "error" /\ faults' \in 0..MaxFaults
  BY LibraryAssumption DEF LibInv, Domains, Fault, Answer, Go
<1>2. Alone(r)
  BY <1>1 DEF LibInv, Domains, Alone, Fault, Answer, Go
<1> QED
  BY <1>1, <1>2 DEF Progress, Holds, At, Removed, Relies, Steps, Replies, ItemOps

(* An answer that is not about the table. *)
LEMMA AnswerKeeps ==
  ASSUME LibInv, NEW r \in Requests, NEW a \in Replies, Answer(r, a), a # "none",
         UNCHANGED <<ask, seen, faults>>,
         \A q \in Requests \ {r} : found'[q] = found[q],
         DOMAIN found' = Requests
  PROVE  /\ Alone(r) /\ Progress(r)' /\ Holds(r)'
         /\ step'[r] = "done" /\ reply'[r] = a
<1>1. step'[r] = "done" /\ reply'[r] = a
  BY DEF LibInv, Domains, Answer, Go
<1>2. Alone(r)
  BY <1>1 DEF LibInv, Domains, Alone, Answer, Go
<1> QED
  BY <1>1, <1>2 DEF Progress, Holds, At, Steps

(* A step that does not answer. *)
LEMMA GoKeeps ==
  ASSUME LibInv, NEW r \in Requests, NEW s \in Steps \ {"done", "start"}, Go(r, s),
         UNCHANGED <<ask, reply, faults>>, step[r] # "done",
         \A q \in Requests \ {r} : found'[q] = found[q] /\ seen'[q] = seen[q],
         DOMAIN found' = Requests, DOMAIN seen' = Requests
  PROVE  /\ Alone(r) /\ Progress(r)' /\ Removed(r) /\ Relies(r)'
         /\ step'[r] = s /\ reply'[r] = "none"
<1>1. step'[r] = s /\ reply'[r] = "none"
  BY DEF LibInv, Domains, Progress, Go
<1>2. Alone(r)
  BY <1>1 DEF LibInv, Domains, Alone, Go
<1>3. Progress(r)'
  BY <1>1, <1>2 DEF Progress, LibInv
<1>4. Removed(r) /\ Relies(r)'
  BY <1>1, <1>2 DEF Removed, Relies, At
<1> QED BY <1>1, <1>2, <1>3, <1>4

(* A request that has given no answer about the table relies on nothing. *)
LEMMA ReliesOnNothing ==
  ASSUME NEW r \in Requests, step'[r] # "start",
         ask'[r].op \in ItemOps => reply'[r] # "not_found",
         ask'[r].op = "delete" => reply'[r] # "ok"
  PROVE  Relies(r)'
BY DEF Relies, At

LEMMA FailKeeps ==
  ASSUME LibInv, NEW r \in Requests, Fail(r) PROVE Kept(r)
BY NoWrite, FaultKeeps, StepKeepsInv DEF Fail

LEMMA CreateKeeps ==
  ASSUME LibInv, NEW r \in Requests, CreateItem(r) PROVE Kept(r)
<1>1. /\ ask[r].op = "create" /\ step[r] = "start" /\ ask[r].input \in Inputs
      /\ ask[r].id \in Ids /\ items[ask[r].id] = Unborn /\ ask[r].owner \in Owners
  BY Workload DEF CreateItem, At, LibInv, Relies
<1>2. CASE Accepts(ask[r].input, TRUE)
  <2> DEFINE new == [owner |-> ask[r].owner, item |-> Normal(ask[r].input, TRUE)]
  <2>1. RowOK(new)
    BY <1>1, <1>2, NormalTyped, NormalTwice DEF RowOK, Rows
  <2>2. /\ items' = [items EXCEPT ![ask[r].id] = new]
        /\ UNCHANGED <<ask, seen, found>>
        /\ (Answer(r, "ok") /\ UNCHANGED faults) \/ Fault(r)
    BY <1>2 DEF CreateItem, Store
  <2> HIDE DEF new
  <2>3. TableStep(r)
    BY <1>1, <2>1, <2>2 DEF TableStep, LibInv, TableOK
  <2>4. CASE Fault(r)
    BY <2>2, <2>3, <2>4, FaultKeeps, StepKeepsInv
  <2>5. CASE Answer(r, "ok") /\ UNCHANGED faults
    <3>1. /\ Alone(r) /\ Progress(r)' /\ Holds(r)'
          /\ step'[r] = "done" /\ reply'[r] = "ok"
      BY <2>2, <2>5, AnswerKeeps DEF LibInv, Domains, Replies
    <3>2. Removed(r) /\ Relies(r)'
      BY <1>1, <3>1, <2>2, ReliesOnNothing DEF Removed, ItemOps
    <3> QED BY <2>3, <3>1, <3>2, StepKeepsInv
  <2> QED BY <2>2, <2>4, <2>5
<1>3. CASE ~Accepts(ask[r].input, TRUE)
  <2>1. Answer(r, "invalid") /\ UNCHANGED <<items, ask, seen, found, faults>>
    BY <1>3 DEF CreateItem
  <2>2. /\ Alone(r) /\ Progress(r)' /\ Holds(r)'
        /\ step'[r] = "done" /\ reply'[r] = "invalid"
    BY <2>1, AnswerKeeps DEF LibInv, Domains, Replies
  <2>3. Removed(r) /\ Relies(r)'
    BY <1>1, <2>1, <2>2, ReliesOnNothing DEF Removed
  <2> QED BY <2>1, <2>2, <2>3, NoWrite, StepKeepsInv
<1> QED BY <1>2, <1>3

LEMMA DeleteKeeps ==
  ASSUME LibInv, NEW r \in Requests, DeleteItem(r) PROVE Kept(r)
<1>1. ask[r].op = "delete" /\ step[r] = "start" /\ ask[r].id \in Ids
  BY Workload DEF DeleteItem, At, ItemOps
<1>2. CASE Mine(r)
  <2>1. /\ items' = [items EXCEPT ![ask[r].id] = Gone]
        /\ UNCHANGED <<ask, seen, found>>
        /\ (Answer(r, "ok") /\ UNCHANGED faults) \/ Fault(r)
    BY <1>2 DEF DeleteItem, Store
  <2>2. TableStep(r)
    BY <1>1, <1>2, <2>1 DEF TableStep, LibInv, TableOK, Mine
  <2>3. CASE Fault(r)
    BY <2>1, <2>2, <2>3, FaultKeeps, StepKeepsInv
  <2>4. CASE Answer(r, "ok") /\ UNCHANGED faults
    <3>1. /\ Alone(r) /\ Progress(r)' /\ Holds(r)'
          /\ step'[r] = "done" /\ reply'[r] = "ok"
      BY <2>1, <2>4, AnswerKeeps DEF LibInv, Domains, Replies
    <3>2. items'[ask[r].id] = Gone
      BY <1>1, <2>1 DEF LibInv, TableOK
    <3>3. Removed(r)
      BY <1>2 DEF Removed, Mine, Has
    <3>4. Relies(r)'
      BY <2>1, <3>1, <3>2 DEF Relies, At
    <3> QED BY <2>2, <3>1, <3>3, <3>4, StepKeepsInv
  <2> QED BY <2>1, <2>3, <2>4
<1>3. CASE ~Mine(r)
  <2>1. Answer(r, "not_found") /\ UNCHANGED <<items, ask, seen, found, faults>>
    BY <1>3 DEF DeleteItem
  <2>2. /\ Alone(r) /\ Progress(r)' /\ Holds(r)'
        /\ step'[r] = "done" /\ reply'[r] = "not_found"
    BY <2>1, AnswerKeeps DEF LibInv, Domains, Replies
  <2>3. Removed(r) /\ Relies(r)'
    BY <1>3, <2>1, <2>2 DEF Removed, Relies, At, Mine, Has
  <2> QED BY <2>1, <2>2, <2>3, NoWrite, StepKeepsInv
<1> QED BY <1>2, <1>3
(* A step that reads, and answers or goes on. *)
LEMMA AnswerInv ==
  ASSUME LibInv, NEW r \in Requests, NEW a \in Replies, Answer(r, a), a # "none",
         UNCHANGED <<items, ask, seen, faults>>,
         \A q \in Requests \ {r} : found'[q] = found[q],
         DOMAIN found' = Requests,
         ask[r].op = "delete" => a # "ok",
         ask[r].op \in ItemOps /\ a = "not_found" => ~Mine(r)
  PROVE  Kept(r)
<1>1. /\ Alone(r) /\ Progress(r)' /\ Holds(r)'
      /\ step'[r] = "done" /\ reply'[r] = a
  BY AnswerKeeps
<1>2. Removed(r)
  BY <1>1 DEF Removed
<1>3. Relies(r)'
  BY <1>1 DEF Relies, At, Mine, Has
<1> QED BY <1>1, <1>2, <1>3, NoWrite, StepKeepsInv

LEMMA FoundDomain ==
  ASSUME LibInv, NEW r \in Requests
  PROVE  /\ found' = found =>
              DOMAIN found' = Requests /\ \A q \in Requests \ {r} : found'[q] = found[q]
         /\ seen' = seen =>
              DOMAIN seen' = Requests /\ \A q \in Requests \ {r} : seen'[q] = seen[q]
         /\ \A x : found' = [found EXCEPT ![r] = x] =>
              /\ DOMAIN found' = Requests /\ found'[r] = x
              /\ \A q \in Requests \ {r} : found'[q] = found[q]
         /\ \A x : seen' = [seen EXCEPT ![r] = x] =>
              /\ DOMAIN seen' = Requests /\ seen'[r] = x
              /\ \A q \in Requests \ {r} : seen'[q] = seen[q]
BY DEF LibInv, Domains

LEMMA UpdateReadsKeeps ==
  ASSUME LibInv, NEW r \in Requests, UpdateReads(r) PROVE Kept(r)
<1>1. /\ ask[r].op = "update" /\ step[r] = "start" /\ ask[r].id \in Ids
      /\ UNCHANGED <<items, ask, found, faults>>
  BY Workload DEF UpdateReads, At, ItemOps
<1>2. CASE Answer(r, "invalid") /\ UNCHANGED seen
  BY <1>1, <1>2, AnswerInv, FoundDomain DEF Replies
<1>3. CASE ~Mine(r) /\ Answer(r, "not_found") /\ UNCHANGED seen
  BY <1>1, <1>3, AnswerInv, FoundDomain DEF Replies
<1>4. CASE /\ Mine(r)
           /\ Accepts(Patched(r, items[ask[r].id].item), ChecksCover(r))
           /\ Saw(r, items[ask[r].id], "write")
  <2>1. RowOK(items[ask[r].id])
    BY <1>1, <1>4 DEF LibInv, TableOK, Mine, Has
  <2>2. /\ Alone(r) /\ Progress(r)' /\ Removed(r) /\ Relies(r)'
        /\ step'[r] = "write" /\ seen'[r] = items[ask[r].id]
    BY <1>1, <1>4, GoKeeps, FoundDomain DEF Saw, Steps
  <2>3. Holds(r)'
    BY <1>1, <1>4, <2>1, <2>2 DEF Holds, At, Patched, ChecksCover
  <2> QED BY <1>1, <2>2, <2>3, NoWrite, StepKeepsInv
<1> QED BY <1>2, <1>3, <1>4 DEF UpdateReads

LEMMA ResyncReadsKeeps ==
  ASSUME LibInv, NEW r \in Requests, ResyncReads(r) PROVE Kept(r)
<1>1. /\ ask[r].op = "resync" /\ step[r] = "start" /\ ask[r].id \in Ids
      /\ UNCHANGED <<items, ask, found, faults>>
  BY Workload DEF ResyncReads, At, ItemOps
<1>2. CASE Answer(r, "invalid") /\ UNCHANGED seen
  BY <1>1, <1>2, AnswerInv, FoundDomain DEF Replies
<1>3. CASE ~Mine(r) /\ Answer(r, "not_found") /\ UNCHANGED seen
  BY <1>1, <1>3, AnswerInv, FoundDomain DEF Replies
<1>4. ASSUME NEW s \in {"by_id", "by_isbn"}, Mine(r), IsBook(items[ask[r].id].item),
             Saw(r, items[ask[r].id], s)
      PROVE  Kept(r)
  <2>1. RowOK(items[ask[r].id])
    BY <1>1, <1>4 DEF LibInv, TableOK, Mine, Has
  <2>2. /\ Alone(r) /\ Progress(r)' /\ Removed(r) /\ Relies(r)'
        /\ step'[r] = s /\ seen'[r] = items[ask[r].id]
    BY <1>1, <1>4, GoKeeps, FoundDomain DEF Saw, Steps
  <2>3. Holds(r)'
    BY <1>1, <1>4, <2>1, <2>2 DEF Holds, At
  <2> QED BY <1>1, <2>2, <2>3, NoWrite, StepKeepsInv
<1> QED BY <1>2, <1>3, <1>4 DEF ResyncReads

LEMMA LookupsKeep ==
  ASSUME LibInv, NEW r \in Requests, LookupByVolumeID(r) \/ LookupByISBN(r)
  PROVE  Kept(r)
<1>1. /\ ask[r].op = "resync" /\ step[r] \in {"by_id", "by_isbn"}
      /\ UNCHANGED <<items, ask, seen, faults>>
      /\ RowOK(seen[r]) /\ IsBook(seen[r].item)
  BY DEF LookupByVolumeID, LookupByISBN, At, LibInv, Holds
<1>2. ASSUME NEW m \in Metadata \union {NoBook, Broken},
             found' = [found EXCEPT ![r] = m], NEW a \in {"error", "invalid"}, Answer(r, a)
      PROVE  Kept(r)
  BY <1>1, <1>2, AnswerInv, FoundDomain DEF Replies
<1>3. ASSUME UNCHANGED found, Answer(r, "invalid") PROVE Kept(r)
  BY <1>1, <1>3, AnswerInv, FoundDomain DEF Replies
<1>4. ASSUME NEW m \in Metadata \union {NoBook, Broken}, found' = [found EXCEPT ![r] = m],
             NEW s \in {"write", "by_isbn"}, s = "write" => m \in Metadata,
             Go(r, s), UNCHANGED reply
      PROVE  Kept(r)
  <2>1. /\ Alone(r) /\ Progress(r)' /\ Removed(r) /\ Relies(r)'
        /\ step'[r] = s /\ found'[r] = m
    BY <1>1, <1>4, GoKeeps, FoundDomain DEF Steps
  <2>2. Holds(r)'
    BY <1>1, <1>4, <2>1 DEF Holds, At
  <2> QED BY <1>1, <2>1, <2>2, NoWrite, StepKeepsInv
<1>5. CASE LookupByVolumeID(r)
  BY <1>2, <1>4, <1>5 DEF LookupByVolumeID
<1>6. CASE LookupByISBN(r)
  BY <1>2, <1>3, <1>4, <1>6 DEF LookupByISBN
<1> QED BY <1>5, <1>6

LEMMA WrittenOK ==
  ASSUME LibInv, NEW r \in Requests, At(r, {"update", "resync"}, "write")
  PROVE  Written(r) \in Inputs /\ IsNormal(Written(r))
<1>1. RowOK(seen[r]) /\ Holds(r)
  BY DEF LibInv, Holds
<1>2. seen[r].item \in Inputs /\ IsNormal(seen[r].item)
  BY <1>1 DEF RowOK, Rows
<1>3. CASE ask[r].op = "update"
  <2>1. Patched(r, seen[r].item) \in Inputs
    BY <1>2, <1>3, Workload, PatchTyped DEF Patched
  <2>2. ChecksCover(r) \in BOOLEAN
    BY DEF ChecksCover, sets
  <2>3. Accepts(Patched(r, seen[r].item), ChecksCover(r))
    BY <1>1, <1>3 DEF Holds, At
  <2> QED BY <1>3, <2>1, <2>2, <2>3, NormalTyped, NormalTwice DEF Written
<1>4. CASE ask[r].op = "resync"
  <2>1. IsBook(seen[r].item) /\ found[r] \in Metadata
    BY <1>1, <1>4 DEF Holds, At
  <2> QED BY <1>2, <1>4, <2>1, RefreshedNormal DEF Written
<1> QED BY <1>3, <1>4 DEF At

LEMMA WriteItemKeeps ==
  ASSUME LibInv, NEW r \in Requests, WriteItem(r) PROVE Kept(r)
<1>1. /\ ask[r].op \in {"update", "resync"} /\ step[r] = "write" /\ ask[r].id \in Ids
  BY Workload DEF WriteItem, At, ItemOps
<1>2. CASE Mine(r)
  <2> DEFINE new == [items[ask[r].id] EXCEPT !.item = Written(r)]
  <2>1. RowOK(new) /\ new.owner = items[ask[r].id].owner
    <3>1. items[ask[r].id] \in Rows
      BY <1>1, <1>2 DEF LibInv, TableOK, RowOK, Mine, Has
    <3>2. Written(r) \in Inputs /\ IsNormal(Written(r))
      BY <1>1, WrittenOK DEF At
    <3> QED BY <3>1, <3>2 DEF RowOK, Rows
  <2>2. /\ items' = [items EXCEPT ![ask[r].id].item = Written(r)]
        /\ UNCHANGED <<ask, seen, found>>
        /\ (Go(r, "reread") /\ UNCHANGED <<reply, faults>>) \/ Fault(r)
    BY <1>2 DEF WriteItem, Store
  <2>3. items' = [items EXCEPT ![ask[r].id] = new]
    BY <2>2
  <2> HIDE DEF new
  <2>4. TableStep(r)
    BY <1>1, <1>2, <2>1, <2>3 DEF TableStep, LibInv, TableOK, Mine
  <2>5. CASE Fault(r)
    BY <2>2, <2>4, <2>5, FaultKeeps, StepKeepsInv
  <2>6. CASE Go(r, "reread") /\ UNCHANGED <<reply, faults>>
    <3>1. /\ Alone(r) /\ Progress(r)' /\ Removed(r) /\ Relies(r)'
          /\ step'[r] = "reread"
      BY <1>1, <2>2, <2>6, GoKeeps, FoundDomain DEF Steps
    <3>2. Holds(r)'
      BY <3>1 DEF Holds, At
    <3> QED BY <2>4, <3>1, <3>2, StepKeepsInv
  <2> QED BY <2>2, <2>5, <2>6
<1>3. CASE ~Mine(r)
  BY <1>1, <1>3, AnswerInv, FoundDomain DEF WriteItem, Replies
<1> QED BY <1>2, <1>3

LEMMA AnsweringKeeps ==
  ASSUME LibInv, NEW r \in Requests, ReadBack(r) \/ GetRenamed(r) PROVE Kept(r)
<1>1. CASE ReadBack(r)
  <2>1. CASE Mine(r)
    BY <1>1, <2>1, AnswerInv, FoundDomain DEF ReadBack, Replies, At
  <2>2. CASE ~Mine(r)
    BY <1>1, <2>2, AnswerInv, FoundDomain DEF ReadBack, Replies, At
  <2> QED BY <2>1, <2>2
<1>2. CASE GetRenamed(r)
  <2>1. PICK a \in {"ok", "not_found"} : Answer(r, a)
    BY <1>2 DEF GetRenamed
  <2> QED BY <1>2, <2>1, AnswerInv, FoundDomain DEF GetRenamed, Replies, At, ItemOps
<1> QED BY <1>1, <1>2

LEMMA SeriesReadsKeep ==
  ASSUME LibInv, NEW r \in Requests, FindSeries(r) \/ CheckNewName(r) PROVE Kept(r)
<1>1. /\ ask[r].op \in {"rename", "dissolve"} /\ step[r] \in {"start", "check"}
      /\ UNCHANGED <<items, ask, found, faults>>
  BY DEF FindSeries, CheckNewName, At
<1>2. ASSUME NEW a \in {"invalid", "not_found"}, Answer(r, a), UNCHANGED seen
      PROVE  Kept(r)
  BY <1>1, <1>2, AnswerInv, FoundDomain DEF Replies, ItemOps
<1>3. ASSUME NEW s \in {"check", "write"}, Go(r, s), UNCHANGED reply,
             \A q \in Requests \ {r} : seen'[q] = seen[q], DOMAIN seen' = Requests
      PROVE  Kept(r)
  <2>1. /\ Alone(r) /\ Progress(r)' /\ Removed(r) /\ Relies(r)' /\ step'[r] = s
    BY <1>1, <1>3, GoKeeps, FoundDomain DEF Steps
  <2>2. Holds(r)'
    BY <1>1 DEF Holds, At
  <2> QED BY <1>1, <2>1, <2>2, NoWrite, StepKeepsInv
<1>4. CASE FindSeries(r)
  BY <1>2, <1>3, <1>4, FoundDomain DEF FindSeries
<1>5. CASE CheckNewName(r)
  <2>1. CASE Answer(r, "invalid") /\ UNCHANGED seen
    BY <1>2, <2>1
  <2>2. CASE Saw(r, SeriesNames(ask[r].owner), "write")
    BY <1>3, <2>2, FoundDomain DEF Saw
  <2> QED BY <1>5, <2>1, <2>2 DEF CheckNewName
<1> QED BY <1>4, <1>5

(* What a rename or a dissolution makes of a row of its series. *)
Renamed(r, id)   == [items[id] EXCEPT !.item.series = New(r)]
Dissolved(id) ==
  [items[id] EXCEPT !.item.series = "", !.item.volume = Nil, !.item.total = Nil]

LEMMA SeriesRows ==
  ASSUME LibInv, NEW r \in Requests, ask[r].new \in Texts, NEW id \in Ids,
         NEW name, id \in Series(ask[r].owner, name)
  PROVE  /\ Has(id, ask[r].owner)
         /\ RowOK(Renamed(r, id)) /\ Renamed(r, id).owner = items[id].owner
         /\ RowOK(Dissolved(id)) /\ Dissolved(id).owner = items[id].owner
<1>1. Has(id, ask[r].owner) /\ IsBook(items[id].item)
  BY DEF Series, Books
<1>2. items[id] \in Rows /\ items[id].item \in Inputs /\ IsNormal(items[id].item)
  BY <1>1 DEF LibInv, TableOK, RowOK, Rows, Has
<1> DEFINE i == items[id].item
           a == [i EXCEPT !.series = Trim[ask[r].new]]
           b == [i EXCEPT !.series = "", !.volume = Nil, !.total = Nil]
<1>3. a \in Inputs /\ IsNormal(a) /\ b \in Inputs /\ IsNormal(b)
  BY <1>1, <1>2, SeriesNormal
<1>4. /\ Renamed(r, id) = [items[id] EXCEPT !.item = a]
      /\ Dissolved(id) = [items[id] EXCEPT !.item = b]
  BY <1>2 DEF Rows, Renamed, Dissolved, New
<1> HIDE DEF i, a, b
<1> QED BY <1>1, <1>2, <1>3, <1>4 DEF RowOK, Rows

LEMMA SeriesWritesKeep ==
  ASSUME LibInv, NEW r \in Requests, RenameSeries(r) \/ ClearSeriesName(r)
  PROVE  Kept(r)
<1>1. /\ ask[r].op \in {"rename", "dissolve"} /\ step[r] = "write"
      /\ ask[r].new \in Texts
  BY Workload DEF RenameSeries, ClearSeriesName, At
<1>2. CASE RenameSeries(r)
  <2>1. /\ items' = [id \in Ids |-> IF id \in Series(ask[r].owner, Old(r))
                                    THEN Renamed(r, id) ELSE items[id]]
        /\ UNCHANGED <<ask, seen, found>>
        /\ (Go(r, "reread") /\ UNCHANGED <<reply, faults>>) \/ Fault(r)
    BY <1>2 DEF RenameSeries, Store, Renamed
  <2>2. TableStep(r)
    BY <1>1, <2>1, SeriesRows DEF TableStep
  <2>3. CASE Go(r, "reread") /\ UNCHANGED <<reply, faults>>
    <3>1. /\ Alone(r) /\ Progress(r)' /\ Removed(r) /\ Relies(r)'
          /\ step'[r] = "reread"
      BY <1>1, <2>1, <2>3, GoKeeps, FoundDomain DEF Steps
    <3>2. Holds(r)'
      BY <3>1 DEF Holds, At
    <3> QED BY <2>2, <3>1, <3>2, StepKeepsInv
  <2> QED BY <2>1, <2>2, <2>3, FaultKeeps, StepKeepsInv
<1>3. CASE ClearSeriesName(r)
  <2>1. /\ items' = [id \in Ids |-> IF id \in Series(ask[r].owner, Old(r))
                                    THEN Dissolved(id) ELSE items[id]]
        /\ UNCHANGED <<ask, seen, found>>
        /\ (Answer(r, "ok") /\ UNCHANGED faults) \/ Fault(r)
    BY <1>3 DEF ClearSeriesName, Store, Dissolved
  <2>2. TableStep(r)
    BY <1>1, <2>1, SeriesRows DEF TableStep
  <2>3. CASE Answer(r, "ok") /\ UNCHANGED faults
    <3>1. /\ Alone(r) /\ Progress(r)' /\ Holds(r)'
          /\ step'[r] = "done" /\ reply'[r] = "ok"
      BY <2>1, <2>3, AnswerKeeps DEF LibInv, Domains, Replies
    <3>2. Removed(r) /\ Relies(r)'
      BY <1>1, <2>1, <3>1, ReliesOnNothing DEF Removed, ItemOps
    <3> QED BY <2>2, <3>1, <3>2, StepKeepsInv
  <2> QED BY <2>1, <2>2, <2>3, FaultKeeps, StepKeepsInv
<1> QED BY <1>2, <1>3

------------------------------------------------------------------------------
(* A step is one request's, or changes nothing. *)
LEMMA NextKeeps ==
  ASSUME LibInv, [Next]_vars
  PROVE  /\ LibInv'
         /\ \/ UNCHANGED items
            \/ \E r \in Requests : TableStep(r) /\ step'[r] # step[r]
<1>1. CASE UNCHANGED vars
  BY <1>1 DEF vars, LibInv, TableOK, Domains, OneDeletes, Progress, Holds, Relies, At,
              Mine, Has, Patched, ChecksCover, RowOK
<1>2. ASSUME NEW r \in Requests,
             \/ CreateItem(r) \/ DeleteItem(r)
             \/ UpdateReads(r) \/ WriteItem(r) \/ ReadBack(r)
             \/ ResyncReads(r) \/ LookupByVolumeID(r) \/ LookupByISBN(r)
             \/ FindSeries(r) \/ CheckNewName(r) \/ RenameSeries(r) \/ GetRenamed(r)
             \/ ClearSeriesName(r)
             \/ Fail(r)
      PROVE  LibInv' /\ TableStep(r) /\ step'[r] # step[r]
  <2>1. Kept(r)
    BY <1>2, FailKeeps, CreateKeeps, DeleteKeeps, UpdateReadsKeeps, ResyncReadsKeeps,
       LookupsKeep, WriteItemKeeps, AnsweringKeeps, SeriesReadsKeep, SeriesWritesKeep
  <2>2. /\ DOMAIN step = Requests /\ step[r] \in Steps
        /\ step = [q \in Requests |-> step[q]]
    BY DEF LibInv, Domains, Progress
  <2>3. PICK s \in Steps : Go(r, s) /\ s # step[r]
    <3>1. CASE Fail(r)
      BY <3>1 DEF Fail, Fault, Answer, Steps
    <3>2. CASE CreateItem(r) \/ DeleteItem(r) \/ WriteItem(r) \/ RenameSeries(r)
               \/ ClearSeriesName(r)
      BY <3>2 DEF CreateItem, DeleteItem, WriteItem, RenameSeries, ClearSeriesName, Store,
                  Fault, Answer, Steps, At
    <3>3. CASE UpdateReads(r) \/ ResyncReads(r) \/ CheckNewName(r)
      BY <3>3 DEF UpdateReads, ResyncReads, CheckNewName, Saw, Answer, Steps, At
    <3>4. CASE LookupByVolumeID(r) \/ LookupByISBN(r)
      BY <3>4 DEF LookupByVolumeID, LookupByISBN, Answer, Steps, At
    <3>5. CASE FindSeries(r) \/ ReadBack(r) \/ GetRenamed(r)
      BY <3>5 DEF FindSeries, ReadBack, GetRenamed, Answer, Steps, At
    <3> QED BY <1>2, <3>1, <3>2, <3>3, <3>4, <3>5
  <2>4. step'[r] # step[r]
    BY <2>2, <2>3 DEF Go
  <2> QED BY <2>1, <2>4 DEF Kept
<1> QED BY <1>1, <1>2 DEF Next, vars

LEMMA LibInvHolds == Spec => []LibInv
BY InitInv, NextKeeps, PTL DEF Spec

(* Every row, step and answer is one of those the requests can make. *)
THEOREM Typed == Spec => []TypeOK
<1>1. ASSUME LibInv PROVE TypeOK
  BY <1>1 DEF LibInv, TableOK, Domains, Progress, Holds, RowOK, TypeOK
<1> QED BY <1>1, LibInvHolds, PTL

(* Whatever requests overlap, every stored item is one the rules accept and
   leave alone (service.go 134-138, service_resync.go 62-82). *)
THEOREM RowsStayNormal == Spec => []RowsAreNormal
<1>1. ASSUME LibInv PROVE RowsAreNormal
  BY <1>1 DEF LibInv, TableOK, RowOK, RowsAreNormal
<1> QED BY <1>1, LibInvHolds, PTL

(* "Not found" is true of the owner's library, and one delete of an item at
   most is answered as done (postgres_repository.go 263-319). *)
THEOREM AnswersStayTrue == Spec => []AnswersAreTrue
<1>1. ASSUME LibInv PROVE AnswersAreTrue
  BY <1>1 DEF LibInv, OneDeletes, Relies, AnswersAreTrue
<1> QED BY <1>1, LibInvHolds, PTL

(* No request writes a deleted item back (postgres_repository.go 263-303). *)
THEOREM GoneStaysGone == Spec => DeletedStaysGone
<1>1. ASSUME LibInv, [Next]_vars
      PROVE  [\A id \in Ids : items[id] = Gone => items'[id] = Gone]_vars
  BY <1>1, NextKeeps, LibraryAssumption DEF TableStep, Has
<1> QED BY <1>1, LibInvHolds, PTL DEF Spec, DeletedStaysGone

(* Only its owner's requests change a row (postgres_repository.go 290, 307,
   555, 565). *)
THEOREM OwnersChangeOnly == Spec => OnlyOwnRows
<1>1. ASSUME LibInv, [Next]_vars
      PROVE  [\A id \in Ids : items'[id] # items[id] /\ items[id] # Unborn =>
                \E r \in Requests : step'[r] # step[r] /\ ask[r].owner = items[id].owner]_vars
  BY <1>1, NextKeeps DEF TableStep, Has
<1> QED BY <1>1, LibInvHolds, PTL DEF Spec, OnlyOwnRows

------------------------------------------------------------------------------
(* Edits: a field a patch says nothing of, and that depends on none it sets,
   is rewritten as it was. *)
Untouched(p, k) ==
  /\ ~sets(p, "itemType") /\ ~sets(p, k)
  /\ ~(k \in DOMAIN p /\ k \in pointerItemKeys)
  /\ k \in {"readAt", "currentPage"} => ~sets(p, "status")

LEMMA PatchKeepsTheRest ==
  ASSUME NEW i \in Inputs, IsNormal(i), NEW p, NEW k \in editableItemKeys, Untouched(p, k)
  PROVE  Normal(applyTo(p, i), sets(p, "cover"))[k] = i[k]
<1> DEFINE j == applyTo(p, i)
           n == Normal(j, sets(p, "cover"))
           o == Normal(i, FALSE)
<1>1. o = i
  BY DEF IsNormal
<1>2. /\ n.title = Trim[j.title] /\ n.itemType = j.itemType
      /\ n.description = Trim[j.description] /\ n.releaseYear = normalizeYear(j.releaseYear)
      /\ n.cover = (IF sets(p, "cover") THEN TrimCover(j.cover) ELSE j.cover)
      /\ n.platform = (IF j.itemType = "game" THEN Trim[j.platform] ELSE "")
      /\ n.status = StatusOf(j)
      /\ n.currentPage = (IF StatusOf(j) = "reading" THEN j.currentPage ELSE Nil)
      /\ n.readAt = (IF StatusOf(j) = "read" THEN j.readAt ELSE Nil)
  BY DEF Normal
<1>3. /\ n.pageCount = (IF IsBook(j) THEN normalizePositiveInt(j.pageCount) ELSE Nil)
      /\ n.isbn = (IF IsBook(j) THEN Trim[j.isbn] ELSE "")
      /\ n.format = (IF IsBook(j) THEN normalizeFormat(j.format) ELSE "")
      /\ n.genre = (IF IsBook(j) THEN normalizeGenre(j.genre) ELSE "")
      /\ n.rating = (IF IsBook(j) THEN normalizeRating(j.rating) ELSE Nil)
      /\ n.price = (IF IsBook(j) THEN normalizePrice(j.price) ELSE Nil)
      /\ n.volumeId = (IF IsBook(j) THEN Trim[j.volumeId] ELSE "")
      /\ n.series = (IF IsBook(j) THEN Trim[j.series] ELSE "")
      /\ n.volume = (IF IsBook(j) THEN normalizePositiveInt(j.volume) ELSE Nil)
      /\ n.total = (IF IsBook(j) THEN normalizePositiveInt(j.total) ELSE Nil)
  BY DEF Normal
<1>4. /\ o.title = Trim[i.title]
      /\ o.description = Trim[i.description] /\ o.releaseYear = normalizeYear(i.releaseYear)
      /\ o.platform = (IF i.itemType = "game" THEN Trim[i.platform] ELSE "")
      /\ o.status = StatusOf(i)
      /\ o.currentPage = (IF StatusOf(i) = "reading" THEN i.currentPage ELSE Nil)
      /\ o.readAt = (IF StatusOf(i) = "read" THEN i.readAt ELSE Nil)
  BY DEF Normal
<1>5. /\ o.pageCount = (IF IsBook(i) THEN normalizePositiveInt(i.pageCount) ELSE Nil)
      /\ o.isbn = (IF IsBook(i) THEN Trim[i.isbn] ELSE "")
      /\ o.format = (IF IsBook(i) THEN normalizeFormat(i.format) ELSE "")
      /\ o.genre = (IF IsBook(i) THEN normalizeGenre(i.genre) ELSE "")
      /\ o.rating = (IF IsBook(i) THEN normalizeRating(i.rating) ELSE Nil)
      /\ o.price = (IF IsBook(i) THEN normalizePrice(i.price) ELSE Nil)
      /\ o.volumeId = (IF IsBook(i) THEN Trim[i.volumeId] ELSE "")
      /\ o.series = (IF IsBook(i) THEN Trim[i.series] ELSE "")
      /\ o.volume = (IF IsBook(i) THEN normalizePositiveInt(i.volume) ELSE Nil)
      /\ o.total = (IF IsBook(i) THEN normalizePositiveInt(i.total) ELSE Nil)
  BY DEF Normal
<1>6. \A old : FieldAfter(p, k, old) = old
  BY DEF Untouched, FieldAfter
<1>t. \A old : FieldAfter(p, "itemType", old) = old
  BY DEF Untouched, FieldAfter, pointerItemKeys
<1>s. ~sets(p, "status") => \A old : FieldAfter(p, "status", old) = old
  BY DEF FieldAfter, pointerItemKeys
<1>7. /\ j.title = FieldAfter(p, "title", i.title)
      /\ j.itemType = FieldAfter(p, "itemType", i.itemType)
      /\ j.description = FieldAfter(p, "description", i.description)
      /\ j.releaseYear = FieldAfter(p, "releaseYear", i.releaseYear)
      /\ j.pageCount = FieldAfter(p, "pageCount", i.pageCount)
      /\ j.currentPage = FieldAfter(p, "currentPage", i.currentPage)
      /\ j.isbn = FieldAfter(p, "isbn", i.isbn) /\ j.cover = FieldAfter(p, "cover", i.cover)
      /\ j.format = FieldAfter(p, "format", i.format) /\ j.genre = FieldAfter(p, "genre", i.genre)
      /\ j.rating = FieldAfter(p, "rating", i.rating) /\ j.price = FieldAfter(p, "price", i.price)
  BY DEF applyTo
<1>8. /\ j.volumeId = FieldAfter(p, "volumeId", i.volumeId)
      /\ j.platform = FieldAfter(p, "platform", i.platform)
      /\ j.status = FieldAfter(p, "status", i.status)
      /\ j.readAt = FieldAfter(p, "readAt", i.readAt)
      /\ j.series = FieldAfter(p, "series", i.series)
      /\ j.volume = FieldAfter(p, "volume", i.volume)
      /\ j.total = FieldAfter(p, "total", i.total)
  BY DEF applyTo
<1> HIDE DEF n, j, o
<1>9. j.itemType = i.itemType /\ IsBook(j) = IsBook(i)
  BY <1>7, <1>t DEF IsBook
<1>10. ~sets(p, "status") => StatusOf(j) = StatusOf(i)
  BY <1>8, <1>9, <1>s DEF StatusOf
<1>11. /\ k = "title" => n.title = i.title
       /\ k = "itemType" => n.itemType = i.itemType
       /\ k = "description" => n.description = i.description
       /\ k = "releaseYear" => n.releaseYear = i.releaseYear
  BY <1>1, <1>2, <1>4, <1>6, <1>7, <1>9
<1>12. /\ k = "cover" => n.cover = i.cover
       /\ k = "platform" => n.platform = i.platform
       /\ k = "status" => n.status = i.status
  BY <1>1, <1>2, <1>4, <1>6, <1>7, <1>8, <1>9, <1>10 DEF Untouched
<1>13. /\ k = "currentPage" => n.currentPage = i.currentPage
       /\ k = "readAt" => n.readAt = i.readAt
  BY <1>1, <1>2, <1>4, <1>6, <1>7, <1>8, <1>10 DEF Untouched
<1>14. /\ k = "pageCount" => n.pageCount = i.pageCount
       /\ k = "isbn" => n.isbn = i.isbn
       /\ k = "format" => n.format = i.format
  BY <1>1, <1>3, <1>5, <1>6, <1>7, <1>9
<1>17. k = "genre" => n.genre = i.genre
  BY <1>1, <1>3, <1>5, <1>6, <1>7, <1>9
<1>18. k = "rating" => n.rating = i.rating
  BY <1>1, <1>3, <1>5, <1>6, <1>7, <1>9
<1>19. k = "price" => n.price = i.price
  BY <1>1, <1>3, <1>5, <1>6, <1>7, <1>9
<1>15. /\ k = "volumeId" => n.volumeId = i.volumeId
       /\ k = "series" => n.series = i.series
       /\ k = "volume" => n.volume = i.volume
       /\ k = "total" => n.total = i.total
  BY <1>1, <1>3, <1>5, <1>6, <1>8, <1>9
<1>16. n[k] = i[k]
  BY <1>11, <1>12, <1>13, <1>14, <1>15, <1>17, <1>18, <1>19
  DEF editableItemKeys, nullResetItemKeys, pointerItemKeys
<1> QED
  BY <1>16 DEF n, j

LEMMA RefreshKeepsTheRest ==
  ASSUME NEW i \in Inputs, NEW m,
         NEW k \in editableItemKeys \ {"volumeId", "genre", "price", "cover", "description"}
  PROVE  Refreshed(i, m)[k] = i[k]
BY DEF Refreshed, Inputs, editableItemKeys, nullResetItemKeys, pointerItemKeys

LEMMA WrittenKeepsTheRest ==
  ASSUME LibInv, NEW r \in Requests, At(r, {"update", "resync"}, "write"),
         NEW k \in editableItemKeys \ MayChange(r)
  PROVE  Written(r)[k] = seen[r].item[k]
<1>1. seen[r].item \in Inputs /\ IsNormal(seen[r].item)
  BY DEF LibInv, Holds, RowOK, Rows
<1>2. CASE ask[r].op = "update"
  <2> DEFINE p == ParseItemPatch(ask[r].body)
  <2>1. ~sets(p, "itemType") /\ ~sets(p, k) /\ ~(k \in DOMAIN p /\ k \in pointerItemKeys)
    BY <1>2 DEF MayChange, sets
  <2>2. k \in {"readAt", "currentPage"} => ~sets(p, "status")
    BY <1>2, <2>1 DEF MayChange
  <2>3. Untouched(p, k)
    BY <2>1, <2>2 DEF Untouched
  <2>4. Written(r) = Normal(applyTo(p, seen[r].item), sets(p, "cover"))
    BY <1>2 DEF Written, Patched, ChecksCover
  <2> HIDE DEF p
  <2> QED
    BY <1>1, <2>3, <2>4, PatchKeepsTheRest
<1>3. CASE ask[r].op = "resync"
  BY <1>1, <1>3, RefreshKeepsTheRest DEF Written, MayChange
<1> QED
  BY <1>2, <1>3 DEF At

(* A step that takes a request on is its own. *)
LEMMA OwnStep ==
  ASSUME LibInv, [Next]_vars, NEW r \in Requests, step'[r] # step[r]
  PROVE  \/ CreateItem(r) \/ DeleteItem(r)
         \/ UpdateReads(r) \/ WriteItem(r) \/ ReadBack(r)
         \/ ResyncReads(r) \/ LookupByVolumeID(r) \/ LookupByISBN(r)
         \/ FindSeries(r) \/ CheckNewName(r) \/ RenameSeries(r) \/ GetRenamed(r)
         \/ ClearSeriesName(r)
         \/ Fail(r)
<1>1. ASSUME NEW q \in Requests,
             \/ CreateItem(q) \/ DeleteItem(q)
             \/ UpdateReads(q) \/ WriteItem(q) \/ ReadBack(q)
             \/ ResyncReads(q) \/ LookupByVolumeID(q) \/ LookupByISBN(q)
             \/ FindSeries(q) \/ CheckNewName(q) \/ RenameSeries(q) \/ GetRenamed(q)
             \/ ClearSeriesName(q)
             \/ Fail(q)
      PROVE  q = r
  <2>1. Kept(q) /\ \E s : Go(q, s)
    <3>1. \E s : Go(q, s)
      <4>1. CASE Fail(q)
        BY <4>1 DEF Fail, Fault, Answer
      <4>2. CASE CreateItem(q) \/ DeleteItem(q) \/ WriteItem(q) \/ RenameSeries(q)
                 \/ ClearSeriesName(q)
        BY <4>2 DEF CreateItem, DeleteItem, WriteItem, RenameSeries, ClearSeriesName, Store,
                    Fault, Answer
      <4>3. CASE UpdateReads(q) \/ ResyncReads(q) \/ CheckNewName(q)
        BY <4>3 DEF UpdateReads, ResyncReads, CheckNewName, Saw, Answer
      <4>4. CASE LookupByVolumeID(q) \/ LookupByISBN(q)
        BY <4>4 DEF LookupByVolumeID, LookupByISBN, Answer
      <4>5. CASE FindSeries(q) \/ ReadBack(q) \/ GetRenamed(q)
        BY <4>5 DEF FindSeries, ReadBack, GetRenamed, Answer
      <4> QED BY <1>1, <4>1, <4>2, <4>3, <4>4, <4>5
    <3> QED BY <3>1, <1>1, FailKeeps, CreateKeeps, DeleteKeeps, UpdateReadsKeeps, ResyncReadsKeeps,
       LookupsKeep, WriteItemKeeps, AnsweringKeeps, SeriesReadsKeep, SeriesWritesKeep
  <2>2. step = [x \in Requests |-> step[x]]
    BY DEF LibInv, Domains
  <2> QED
    BY <2>1, <2>2 DEF Go
<1>2. ~UNCHANGED vars
  BY DEF vars
<1> QED
  BY <1>1, <1>2 DEF Next

(* An update or a re-sync changes no field it was not asked to, when nobody
   changed the row since it read it (patch.go 10-12, service_resync.go 14-17). *)
THEOREM EditsKeepOtherFields == Spec => EditsKeepTheRest
<1>1. ASSUME LibInv, [Next]_vars, NEW r \in Requests,
             At(r, {"update", "resync"}, "write"), step'[r] # "write", Mine(r),
             items[ask[r].id] = seen[r], items' # items,
             NEW k \in editableItemKeys \ MayChange(r)
      PROVE  items'[ask[r].id].item[k] = items[ask[r].id].item[k]
  <2>1. ask[r].op \in {"update", "resync"} /\ step[r] = "write" /\ ask[r].id \in Ids
    BY <1>1, Workload DEF At, ItemOps
  <2>2. WriteItem(r)
    <3>1. ~Fail(r)
      BY <1>1 DEF Fail
    <3> QED
      BY <1>1, <2>1, <3>1, OwnStep DEF CreateItem, DeleteItem, UpdateReads, ReadBack, ResyncReads,
        LookupByVolumeID, LookupByISBN, FindSeries, CheckNewName, RenameSeries, GetRenamed,
        ClearSeriesName, At
  <2>3. items' = [items EXCEPT ![ask[r].id].item = Written(r)]
    BY <1>1, <2>2 DEF WriteItem, Store
  <2>4. items[ask[r].id] \in Rows /\ items = [id \in Ids |-> items[id]]
    BY <1>1, <2>1 DEF LibInv, TableOK, RowOK, Mine, Has
  <2>5. items'[ask[r].id].item = Written(r)
    BY <2>1, <2>3, <2>4 DEF Rows
  <2> QED
    BY <1>1, <2>5, WrittenKeepsTheRest
<1>2. ASSUME LibInv, [Next]_vars
      PROVE  [\A r \in Requests :
                /\ At(r, {"update", "resync"}, "write") /\ step'[r] # "write" /\ Mine(r)
                /\ items[ask[r].id] = seen[r] /\ items' # items
                => \A k \in editableItemKeys \ MayChange(r) :
                     items'[ask[r].id].item[k] = items[ask[r].id].item[k]]_vars
  BY <1>1, <1>2
<1> QED BY <1>2, LibInvHolds, PTL DEF Spec, EditsKeepTheRest

------------------------------------------------------------------------------
(* Renames: one that has been checked has a new name, and no other name that it
   has seen differs from that one in case only. *)
Apart(r) ==
  /\ At(r, {"rename"}, "check") \/ At(r, {"rename"}, "write") => New(r) # ""
  /\ At(r, {"rename"}, "write") =>
       \A n \in seen[r] : FoldCase[n] = FoldCase[New(r)] => n = Old(r)
RenamesApart == \A r \in Requests : Apart(r)

LEMMA ApartStep == LibInv /\ RenamesApart /\ [Next]_vars => RenamesApart'
<1> SUFFICES ASSUME LibInv, RenamesApart, [Next]_vars, NEW r \in Requests PROVE Apart(r)'
  BY DEF RenamesApart
<1>1. ask' = ask /\ New(r)' = New(r) /\ Old(r)' = Old(r)
  <2>1. ask' = ask
    <3>1. ASSUME NEW q \in Requests,
                 \/ CreateItem(q) \/ DeleteItem(q)
                 \/ UpdateReads(q) \/ WriteItem(q) \/ ReadBack(q)
                 \/ ResyncReads(q) \/ LookupByVolumeID(q) \/ LookupByISBN(q)
          PROVE  ask' = ask
      BY <3>1 DEF CreateItem, DeleteItem, UpdateReads, WriteItem, ReadBack, ResyncReads,
         LookupByVolumeID, LookupByISBN, Store
    <3>2. ASSUME NEW q \in Requests,
                 \/ FindSeries(q) \/ CheckNewName(q) \/ RenameSeries(q) \/ GetRenamed(q)
                 \/ ClearSeriesName(q) \/ Fail(q)
          PROVE  ask' = ask
      BY <3>2 DEF FindSeries, CheckNewName, RenameSeries, GetRenamed, ClearSeriesName, Fail, Store
    <3> QED
      BY <3>1, <3>2 DEF Next, vars
  <2> QED
    BY <2>1 DEF New, Old
<1>2. CASE step'[r] = step[r]
  <2> SUFFICES ASSUME At(r, {"rename"}, "write")' PROVE seen'[r] = seen[r]
    BY <1>1, <1>2 DEF RenamesApart, Apart, At
  <2>1. At(r, {"rename"}, "write")
    BY <1>1, <1>2 DEF At
  <2>2. ASSUME NEW q \in Requests, UpdateReads(q) \/ ResyncReads(q) \/ CheckNewName(q)
        PROVE  seen'[r] = seen[r]
    <3>1. CASE q = r
      BY <2>1, <2>2, <3>1 DEF UpdateReads, ResyncReads, CheckNewName, At
    <3>2. CASE q # r
      BY <2>2, <3>2 DEF UpdateReads, ResyncReads, CheckNewName, Saw, LibInv, Domains
    <3> QED BY <3>1, <3>2
  <2>3. ASSUME NEW q \in Requests,
               \/ CreateItem(q) \/ DeleteItem(q) \/ WriteItem(q) \/ ReadBack(q)
               \/ LookupByVolumeID(q) \/ LookupByISBN(q)
        PROVE  seen' = seen
    BY <2>3 DEF CreateItem, DeleteItem, WriteItem, ReadBack, LookupByVolumeID, LookupByISBN, Store
  <2>4. ASSUME NEW q \in Requests,
               \/ FindSeries(q) \/ RenameSeries(q) \/ GetRenamed(q)
               \/ ClearSeriesName(q) \/ Fail(q)
        PROVE  seen' = seen
    BY <2>4 DEF FindSeries, RenameSeries, GetRenamed, ClearSeriesName, Fail, Store
  <2> QED
    BY <2>2, <2>3, <2>4 DEF Next, vars
<1>3. CASE step'[r] # step[r]
  <2> SUFFICES ASSUME ask[r].op = "rename", step'[r] \in {"check", "write"} PROVE Apart(r)'
    BY <1>1 DEF Apart, At
  <2>1. step = [q \in Requests |-> step[q]] /\ DOMAIN seen = Requests
    BY DEF LibInv, Domains
  <2>2. ~RenameSeries(r) /\ ~GetRenamed(r) /\ ~Fail(r)
    BY <2>1 DEF RenameSeries, GetRenamed, Fail, Store, Fault, Answer, Go
  <2>3. FindSeries(r) \/ CheckNewName(r)
    BY <1>3, <2>2, OwnStep DEF CreateItem, DeleteItem, UpdateReads, WriteItem, ReadBack,
      ResyncReads, LookupByVolumeID, LookupByISBN, ClearSeriesName, At
  <2>4. CASE FindSeries(r)
    <3>1. step'[r] = "check" /\ New(r) # ""
      BY <2>1, <2>4 DEF FindSeries, Answer, Go
    <3> QED
      BY <1>1, <3>1 DEF Apart, At
  <2>5. CASE CheckNewName(r)
    <3>1. At(r, {"rename"}, "check") /\ New(r) # ""
      BY <2>5 DEF CheckNewName, RenamesApart, Apart
    <3>2. /\ ListSeriesNamesByNameCI(ask[r].owner, New(r)) \subseteq {Old(r)}
          /\ seen' = [seen EXCEPT ![r] = SeriesNames(ask[r].owner)]
      BY <2>1, <2>5 DEF CheckNewName, Answer, Go, Saw
    <3>3. \A n \in seen'[r] : FoldCase[n] = FoldCase[New(r)] => n = Old(r)
      BY <2>1, <3>2 DEF ListSeriesNamesByNameCI
    <3> QED
      BY <1>1, <3>1, <3>3 DEF Apart
  <2> QED
    BY <2>3, <2>4, <2>5
<1> QED
  BY <1>2, <1>3

LEMMA NamesFinite ==
  ASSUME NEW owner PROVE IsFiniteSet(SeriesNames(owner))
<1> DEFINE S == Books(owner)
           T == {items[id].item.series : id \in S}
           f == [id \in S |-> items[id].item.series]
<1>1. IsFiniteSet(S)
  BY LibraryAssumption, FS_Subset DEF Books
<1>2. f \in Surjection(S, T)
  BY DEF Surjection
<1>3. IsFiniteSet(T)
  <2> HIDE DEF S, T, f
  <2> QED
    BY <1>1, <1>2, FS_Surjection
<1> HIDE DEF S, T
<1>4. SeriesNames(owner) \in SUBSET T
  BY DEF SeriesNames, S, T
<1> QED
  BY <1>3, <1>4, FS_Subset

(* What the names of a library are but for their case. *)
Folded(names) == {FoldCase[n] : n \in names}

LEMMA FoldedFinite ==
  ASSUME NEW S, IsFiniteSet(S) PROVE IsFiniteSet(Folded(S))
<1> DEFINE f == [n \in S |-> FoldCase[n]]
<1>1. f \in Surjection(S, Folded(S))
  BY DEF Surjection, Folded
<1> HIDE DEF f
<1> QED
  BY <1>1, FS_Surjection

LEMMA OneNameForAnother ==
  ASSUME NEW names, IsFiniteSet(names), NEW old \in names, NEW new,
         \A n \in names : FoldCase[n] = FoldCase[new] => n = old
  PROVE  Cardinality(Folded((names \ {old}) \union {new})) >= Cardinality(Folded(names))
<1> DEFINE A == Folded(names \ {old})
           x == FoldCase[old]
           y == FoldCase[new]
<1>1. IsFiniteSet(A)
  BY FS_RemoveElement, FoldedFinite
<1>2. Folded(names) = A \union {x} /\ Folded((names \ {old}) \union {new}) = A \union {y}
  BY DEF Folded
<1>3. y \notin A
  BY DEF Folded
<1> HIDE DEF A, x, y
<1>4. Cardinality(A) \in Nat
  BY <1>1, FS_CardinalityType
<1>5. Cardinality(A \union {y}) = Cardinality(A) + 1
  BY <1>1, <1>3, FS_AddElement
<1>6. Cardinality(A \union {x}) \in {Cardinality(A), Cardinality(A) + 1}
  BY <1>1, FS_AddElement
<1> QED
  BY <1>2, <1>4, <1>5, <1>6

LEMMA RenamedNames ==
  ASSUME LibInv, NEW r \in Requests, RenameSeries(r),
         Old(r) \in SeriesNames(ask[r].owner), New(r) # ""
  PROVE  SeriesNames(ask[r].owner)' = (SeriesNames(ask[r].owner) \ {Old(r)}) \union {New(r)}
<1> DEFINE o == ask[r].owner
<1>0. ask' = ask
  BY DEF RenameSeries, Store
<1>1. items' = [id \in Ids |-> IF id \in Series(o, Old(r))
                               THEN [items[id] EXCEPT !.item.series = New(r)] ELSE items[id]]
  BY DEF RenameSeries, Store
<1>2. \A id \in Ids : Has(id, o) => items[id] \in Rows /\ items[id].item \in Inputs
  BY DEF LibInv, TableOK, RowOK, Rows, Has
<1>3. ASSUME NEW id \in Series(o, Old(r))
      PROVE  /\ Has(id, o)' /\ IsBook(items'[id].item)
             /\ items'[id].item.series = New(r)
  <2>1. id \in Ids /\ Has(id, o) /\ IsBook(items[id].item)
    BY DEF Series, Books
  <2>2. PICK i : i = items[id].item /\ i \in Inputs /\ items[id] = [owner |-> items[id].owner, item |-> i]
    BY <1>2, <2>1 DEF Rows
  <2>3. PICK j : j = [i EXCEPT !.series = New(r)]
    OBVIOUS
  <2>4. j.series = New(r) /\ j.itemType = i.itemType
    BY <2>2, <2>3 DEF Inputs
  <2>6. items'[id] = [owner |-> items[id].owner, item |-> j]
    <3>1. items'[id] = [items[id] EXCEPT !.item = [items[id].item EXCEPT !.series = New(r)]]
      BY <1>1, <2>1
    <3>2. items'[id] = [items[id] EXCEPT !.item = j]
      BY <2>2, <2>3, <3>1
    <3> QED BY <2>2, <3>2
  <2>7. items'[id].owner = items[id].owner /\ items'[id].item = j
    <3>1. PICK row : row = items'[id]
      OBVIOUS
    <3>2. row = [owner |-> items[id].owner, item |-> j]
      BY <2>6, <3>1
    <3>3. row.owner = items[id].owner /\ row.item = j
      BY <3>2
    <3> QED BY <3>1, <3>3
  <2>5. items'[id] \notin {Unborn, Gone}
    <3>1. ask[r].new \in Texts
      BY Workload DEF RenameSeries, At
    <3>2. items'[id] \in Rows
      BY <2>1, <3>1, SeriesRows, <1>1 DEF RowOK, Renamed
    <3> QED BY <3>2, LibraryAssumption
  <2> QED
    BY <1>0, <2>1, <2>2, <2>4, <2>5, <2>7 DEF Has, IsBook
<1>4. ASSUME NEW id \in Ids, id \notin Series(o, Old(r)) PROVE items'[id] = items[id]
  BY <1>1, <1>4
<1>5. Series(o, Old(r)) # {} /\ Series(o, Old(r)) \subseteq Ids
  BY DEF Series, SeriesNames, Books
<1>6. \A id \in Ids : id \in Books(o)' <=> id \in Books(o)
  BY <1>0, <1>3, <1>4 DEF Books, Series, Has
<1>7. \A id \in Books(o) :
        items'[id].item.series = IF id \in Series(o, Old(r)) THEN New(r) ELSE items[id].item.series
  BY <1>3, <1>4 DEF Books
<1>8. Books(o)' = Books(o)
  BY <1>6 DEF Books
<1>9. SeriesNames(o)' = {items'[id].item.series : id \in Books(o)} \ {""}
  BY <1>0, <1>8 DEF SeriesNames
<1>10. ASSUME NEW n \in SeriesNames(o)', n # New(r) PROVE n \in SeriesNames(o) /\ n # Old(r)
  <2>1. PICK id \in Books(o) : items'[id].item.series = n /\ n # ""
    BY <1>9
  <2>2. id \notin Series(o, Old(r)) /\ items[id].item.series = n
    BY <1>7, <1>10, <2>1
  <2> QED BY <2>1, <2>2 DEF SeriesNames, Series
<1>11. ASSUME NEW n \in SeriesNames(o), n # Old(r) PROVE n \in SeriesNames(o)'
  <2>1. PICK id \in Books(o) : items[id].item.series = n /\ n # ""
    BY <1>11 DEF SeriesNames
  <2>2. items'[id].item.series = n
    BY <1>7, <1>11, <2>1 DEF Series
  <2> QED BY <1>9, <2>1, <2>2
<1>12. New(r) \in SeriesNames(o)'
  BY <1>5, <1>7, <1>9 DEF New, Series
<1> QED
  BY <1>10, <1>11, <1>12

(* A rename makes no two series of one name, or of names that differ in case
   only, when no series came or went since it checked the new name
   (service_series.go 73-88). *)
THEOREM RenamesKeepApart == Spec => RenamesKeepSeriesApart
<1>1. ASSUME LibInv, RenamesApart, [Next]_vars, NEW r \in Requests,
             At(r, {"rename"}, "write"), step'[r] # "write",
             seen[r] = SeriesNames(ask[r].owner), Old(r) \in SeriesNames(ask[r].owner)
      PROVE  Cardinality(Folded(SeriesNames(ask[r].owner)'))
               >= Cardinality(Folded(SeriesNames(ask[r].owner)))
  <2> DEFINE names == SeriesNames(ask[r].owner)
  <2>0. IsFiniteSet(names) /\ Cardinality(Folded(names)) \in Nat
    BY NamesFinite, FoldedFinite, FS_CardinalityType
  <2>1. ask[r].op = "rename" /\ step[r] = "write"
    BY <1>1 DEF At
  <2>2. RenameSeries(r) \/ Fail(r)
    BY <1>1, <2>1, OwnStep DEF CreateItem, DeleteItem, UpdateReads, WriteItem, ReadBack, ResyncReads,
      LookupByVolumeID, LookupByISBN, FindSeries, CheckNewName, GetRenamed, ClearSeriesName, At
  <2>3. CASE Fail(r)
    <3>1. UNCHANGED <<items, ask>>
      BY <2>3 DEF Fail
    <3>2. names' = names
      BY <3>1 DEF SeriesNames, Books, Has
    <3> HIDE DEF names
    <3> QED
      BY <2>0, <3>2 DEF names
  <2>4. CASE RenameSeries(r)
    <3>0. New(r) # ""
      BY <1>1 DEF RenamesApart, Apart
    <3>1. names' = (names \ {Old(r)}) \union {New(r)}
      BY <1>1, <2>4, <3>0, RenamedNames
    <3>2. \A n \in names : FoldCase[n] = FoldCase[New(r)] => n = Old(r)
      BY <1>1 DEF RenamesApart, Apart
    <3> HIDE DEF names
    <3>3. Cardinality(Folded((names \ {Old(r)}) \union {New(r)})) >= Cardinality(Folded(names))
      BY <1>1, <2>0, <3>2, OneNameForAnother DEF names
    <3> QED
      BY <3>1, <3>3 DEF names
  <2> QED
    BY <2>2, <2>3, <2>4
<1>2. ASSUME LibInv, RenamesApart, [Next]_vars
      PROVE  [\A r \in Requests :
                LET names == SeriesNames(ask[r].owner)
                    after == SeriesNames(ask[r].owner)'
                IN /\ At(r, {"rename"}, "write") /\ step'[r] # "write" /\ seen[r] = names
                   /\ Old(r) \in names
                   => Cardinality({FoldCase[n] : n \in after})
                        >= Cardinality({FoldCase[n] : n \in names})]_vars
  BY <1>1, <1>2 DEF Folded
<1>3. Init => RenamesApart
  BY DEF Init, RenamesApart, Apart, At
<1> QED BY <1>2, <1>3, ApartStep, InitInv, NextKeeps, PTL DEF Spec, RenamesKeepSeriesApart

=============================================================================
