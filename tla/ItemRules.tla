----------------------------- MODULE ItemRules ------------------------------
(***************************************************************************)
(* The rules every item is stored under: Service.Create normalizes a new   *)
(* item with them, Service.Update the stored item with a patch applied,    *)
(* and the import preview a parsed row (items/validation.go, patch.go,     *)
(* service.go).                                                            *)
(*                                                                         *)
(* An item is a record.  Fields that are treated alike share one:          *)
(* description is also creator and notes, isbn also the other ISBN,        *)
(* platform also ageGroup and playerCount.                                 *)
(***************************************************************************)
EXTENDS Integers

CONSTANTS Nil,         \* a nil pointer: no number or no date
          NotFinite,   \* a price that is NaN or infinite
          Texts, Trim, \* strings, and strings.TrimSpace on them
          Formats, Genres,  \* the named formats other than UNKNOWN, the named genres
          Dates, NeverDate  \* points in time, and the zero time.Time

ASSUME NilAssumption == Nil \notin Int /\ NotFinite \notin Int /\ Nil # NotFinite
ASSUME TextAssumption ==
  /\ {"", "UNKNOWN"} \union Formats \union Genres \subseteq Texts
  /\ Trim \in [Texts -> Texts]
  /\ Trim[""] = ""
  /\ \A t \in Texts : Trim[Trim[t]] = Trim[t]
ASSUME DateAssumption == {Nil, NeverDate} \intersect Dates = {}

ItemTypes == {"book", "game", "movie", "music"}
Statuses  == {"none", "read", "reading", "want_to_read"}
Numbers   == Int \union {Nil}

maxSeriesVolumes == 200

------------------------------------------------------------------------------
(***************************************************************************)
(* A cover image by what sanitizeCoverImage looks at: is it padded with    *)
(* blanks; is it empty, a data URI or a URL; is it whole (a comma and      *)
(* valid base64, or a URL that parses); its MIME type or scheme; has it a  *)
(* host; and its size, the characters of the payload or of the URL.        *)
(***************************************************************************)
allowedImageMIMETypes ==
  {"image/jpeg", "image/png", "image/gif", "image/webp", "image/svg+xml"}

maxCoverImageBytes     == 500 * 1024
maxCoverImageURLLength == 4096

Covers == [padded : BOOLEAN, form : {"none", "data", "url"}, whole : BOOLEAN,
           kind : allowedImageMIMETypes \union {"https", "http", "other"},
           host : BOOLEAN, size : Nat]

CoverOK(c) ==
  \/ c.form = "none"
  \/ /\ c.form = "data" /\ c.whole /\ c.kind \in allowedImageMIMETypes
     /\ (c.size * 3) \div 4 <= maxCoverImageBytes
  \/ /\ c.form = "url" /\ c.size <= maxCoverImageURLLength
     /\ c.whole /\ c.kind = "https" /\ c.host

TrimCover(c) == [c EXCEPT !.padded = FALSE]

------------------------------------------------------------------------------
(* What a field of a create body, a CSV row or a patched item may hold. *)
FieldType(k) ==
  CASE k = "itemType" -> ItemTypes \union {"", "other"}
    [] k = "status"   -> Statuses \union {"", "other"}
    [] k = "cover"    -> Covers
    [] k = "readAt"   -> Dates \union {Nil, NeverDate}
    [] k = "price"    -> Numbers \union {NotFinite}
    [] k \in {"releaseYear", "pageCount", "currentPage", "rating", "volume", "total"}
         -> Numbers
    [] OTHER -> Texts

Inputs ==
  LET T(k) == FieldType(k)
  IN [title : T("title"), itemType : T("itemType"), description : T("description"),
      releaseYear : T("releaseYear"), pageCount : T("pageCount"),
      currentPage : T("currentPage"), isbn : T("isbn"), cover : T("cover"),
      format : T("format"), genre : T("genre"), rating : T("rating"),
      price : T("price"), volumeId : T("volumeId"), platform : T("platform"),
      status : T("status"), readAt : T("readAt"), series : T("series"),
      volume : T("volume"), total : T("total")]

(* A number kept only in a range; the others become nil. *)
normalizeYear(n)        == IF n # Nil /\ n < 0 THEN Nil ELSE n
normalizePositiveInt(n) == IF n # Nil /\ n <= 0 THEN Nil ELSE n
normalizeRating(n)      == IF n # Nil /\ (n < 1 \/ n > 10) THEN Nil ELSE n
normalizePrice(n)       == IF n \notin {Nil, NotFinite} /\ n < 0 THEN Nil ELSE n

normalizeFormat(f) == IF f \in Formats THEN f ELSE "UNKNOWN"
normalizeGenre(g)  == IF g \in Genres THEN g ELSE ""

IsBook(i) == i.itemType = "book"

(* Only books have a reading status; "" is none. *)
StatusOf(i) == IF ~IsBook(i) \/ i.status = "" THEN "none" ELSE i.status

validateItemInput(i) == Trim[i.title] # "" /\ i.itemType \in ItemTypes

(* The limit of 200 holds for the numbers as given, the comparison is of the
   normalized ones. *)
SeriesOK(i) ==
  LET volume == normalizePositiveInt(i.volume)
      total  == normalizePositiveInt(i.total)
  IN /\ i.volume = Nil \/ i.volume <= maxSeriesVolumes
     /\ i.total = Nil \/ i.total <= maxSeriesVolumes
     /\ volume # Nil /\ total # Nil => volume <= total

StatusOK(i) ==
  LET pages == normalizePositiveInt(i.pageCount)
  IN /\ StatusOf(i) \in Statuses
     /\ StatusOf(i) = "read" => i.readAt \notin {Nil, NeverDate}
     /\ StatusOf(i) = "reading" /\ i.currentPage # Nil /\ pages # Nil
          => i.currentPage <= pages

(* normalizeItem returns no error. *)
Accepts(i, checkCover) ==
  /\ validateItemInput(i)
  /\ i.currentPage = Nil \/ i.currentPage >= 0
  /\ i.price # NotFinite
  /\ checkCover => CoverOK(i.cover)
  /\ IsBook(i) => SeriesOK(i) /\ StatusOK(i)

(* The item normalizeItem leaves then. *)
Normal(i, checkCover) ==
  LET book(v, none) == IF IsBook(i) THEN v ELSE none
  IN [title |-> Trim[i.title], itemType |-> i.itemType,
      description |-> Trim[i.description],
      releaseYear |-> normalizeYear(i.releaseYear),
      pageCount   |-> book(normalizePositiveInt(i.pageCount), Nil),
      currentPage |-> IF StatusOf(i) = "reading" THEN i.currentPage ELSE Nil,
      isbn     |-> book(Trim[i.isbn], ""),
      cover    |-> IF checkCover THEN TrimCover(i.cover) ELSE i.cover,
      format   |-> book(normalizeFormat(i.format), ""),
      genre    |-> book(normalizeGenre(i.genre), ""),
      rating   |-> book(normalizeRating(i.rating), Nil),
      price    |-> book(normalizePrice(i.price), Nil),
      volumeId |-> book(Trim[i.volumeId], ""),
      platform |-> IF i.itemType = "game" THEN Trim[i.platform] ELSE "",
      status   |-> StatusOf(i),
      readAt   |-> IF StatusOf(i) = "read" THEN i.readAt ELSE Nil,
      series   |-> book(Trim[i.series], ""),
      volume   |-> book(normalizePositiveInt(i.volume), Nil),
      total    |-> book(normalizePositiveInt(i.total), Nil)]

(* What Update must find in the library: an item its rules leave alone, but
   for the cover, whose rules are younger than some rows (service.go 124-126). *)
IsNormal(i) == Accepts(i, FALSE) /\ Normal(i, FALSE) = i

------------------------------------------------------------------------------
(***************************************************************************)
(* An update body gives JSON keys a value, a null, or a value of the wrong *)
(* type: [kind |-> "value", val |-> v], [kind |-> "null"] or               *)
(* [kind |-> "wrong"].  encoding/json checks the type of a key that is an  *)
(* item's but for its case (TITLE), which the patch then ignores.          *)
(***************************************************************************)
readOnlyItemKeys  == {"id", "createdAt", "updatedAt", "shelfPlacement"}
nullResetItemKeys == {"itemType", "format", "genre", "status"}
pointerItemKeys   == {"releaseYear", "pageCount", "currentPage", "rating", "price",
                      "readAt", "volume", "total"}
editableItemKeys  == nullResetItemKeys \union pointerItemKeys \union
  {"title", "description", "isbn", "cover", "volumeId", "platform", "series"}
caseVariants == {"TITLE"}

(* ParseItemPatch fails; its other keys, the unknown ones included, pass. *)
Malformed(body) ==
  \E k \in DOMAIN body \intersect (editableItemKeys \union caseVariants) :
    body[k].kind = "wrong"

(* The fields of the patch it returns otherwise. *)
ParseItemPatch(body) ==
  [k \in DOMAIN body \intersect editableItemKeys |->
     IF body[k].kind = "null" /\ k \in nullResetItemKeys
       THEN [kind |-> "value", val |-> ""] ELSE body[k]]

sets(p, k) == k \in DOMAIN p /\ p[k].kind = "value"

(* The values have the types of their fields. *)
IsPatch(p) ==
  \A k \in DOMAIN p \intersect editableItemKeys :
    sets(p, k) => p[k].val \in FieldType(k)

(* Seeded fault: a null clears a string too. *)
FieldAfterNullClears(p, k, old) ==
  IF sets(p, k) THEN p[k].val
  ELSE IF k \in DOMAIN p THEN IF k \in pointerItemKeys THEN Nil ELSE ""
  ELSE old

(* A null clears a pointer and leaves a plain string alone. *)
FieldAfter(p, k, old) ==
  IF sets(p, k) THEN p[k].val
  ELSE IF k \in DOMAIN p /\ k \in pointerItemKeys THEN Nil ELSE old

applyTo(p, i) ==
  LET f(k, old) == FieldAfter(p, k, old)
  IN [title |-> f("title", i.title), itemType |-> f("itemType", i.itemType),
      description |-> f("description", i.description),
      releaseYear |-> f("releaseYear", i.releaseYear),
      pageCount |-> f("pageCount", i.pageCount),
      currentPage |-> f("currentPage", i.currentPage),
      isbn |-> f("isbn", i.isbn), cover |-> f("cover", i.cover),
      format |-> f("format", i.format), genre |-> f("genre", i.genre),
      rating |-> f("rating", i.rating), price |-> f("price", i.price),
      volumeId |-> f("volumeId", i.volumeId), platform |-> f("platform", i.platform),
      status |-> f("status", i.status), readAt |-> f("readAt", i.readAt),
      series |-> f("series", i.series), volume |-> f("volume", i.volume),
      total |-> f("total", i.total)]
=============================================================================
