----------------------------- MODULE LibraryMC ------------------------------
(***************************************************************************)
(* A small library for TLC: two novels of one series, a third of another,  *)
(* a game, and a book of another owner's in a series of the first name;    *)
(* every two of a dozen requests run together.                             *)
(***************************************************************************)
EXTENDS Library, TLC

CONSTANTS ann, bob, req1, req2, dune1, dune2, emma, chess, bobs, fresh, may, june

TheTexts  == {"", "UNKNOWN", "EBOOK", "HISTORY", "Dune", "dune", "Emma", " Emma ", "Long", "x", "g1"}
TheTrim   == [t \in TheTexts |-> IF t = " Emma " THEN "Emma" ELSE t]
TheFold   == [t \in TheTexts |-> IF t = "Dune" THEN "dune" ELSE t]
TheDates  == {may, june}

NoCover   == [padded |-> FALSE, form |-> "none", whole |-> TRUE, kind |-> "other",
              host |-> FALSE, size |-> 0]
HttpCover == [NoCover EXCEPT !.form = "url", !.kind = "http", !.host = TRUE, !.size = 9]
Cover     == [HttpCover EXCEPT !.kind = "https"]

Plain == [title |-> "x", itemType |-> "book", description |-> "", releaseYear |-> Nil,
          pageCount |-> Nil, currentPage |-> Nil, isbn |-> "", cover |-> NoCover,
          format |-> "UNKNOWN", genre |-> "", rating |-> Nil, price |-> Nil,
          volumeId |-> "", platform |-> "", status |-> "none", readAt |-> Nil,
          series |-> "", volume |-> Nil, total |-> Nil]

Dune1 == [Plain EXCEPT !.series = "Dune", !.volume = 1, !.total = 2, !.volumeId = "g1",
            !.description = "x", !.cover = HttpCover, !.status = "reading", !.pageCount = 9, !.currentPage = 3]
Dune2 == [Plain EXCEPT !.series = "Dune", !.volume = 2, !.total = 2, !.isbn = "x",
            !.status = "read", !.readAt = may, !.rating = 7]
Emma  == [Plain EXCEPT !.series = "Emma", !.format = "EBOOK"]
Chess == [Plain EXCEPT !.itemType = "game", !.format = "", !.platform = "x"]

Row(who, i) == [owner |-> who, item |-> i]

TheIds       == {dune1, dune2, emma, chess, bobs, fresh}
TheLibraries ==
  {dune1 :> Row(ann, Dune1) @@ dune2 :> Row(ann, Dune2) @@ emma :> Row(ann, Emma)
   @@ chess :> Row(ann, Chess) @@ bobs :> Row(bob, Dune2) @@ fresh :> Unborn}

Val(v) == [kind |-> "value", val |-> v]
Null   == [kind |-> "null"]

Ask(who, op, id)    == [owner |-> who, op |-> op, id |-> id]
Patch(who, id, b)   == [owner |-> who, op |-> "update", id |-> id, body |-> b]
Rename(who, a, b)   == [owner |-> who, op |-> "rename", name |-> a, new |-> b]
Dissolve(who, a)    == [owner |-> who, op |-> "dissolve", name |-> a, new |-> ""]

Asks ==
  { Patch(ann, dune1, "rating" :> Val(9) @@ "description" :> Null @@ "id" :> Val("x")),
    Patch(ann, dune1, "status" :> Val("want_to_read") @@ "pageCount" :> Null),
    Patch(ann, dune1, "cover" :> Val(HttpCover)),
    Patch(ann, dune2, "itemType" :> Val("game") @@ "platform" :> Val("x")),
    Patch(ann, dune2, "readAt" :> Null),
    Patch(ann, chess, "TITLE" :> [kind |-> "wrong"]),
    Patch(bob, dune2, "title" :> Val("x")),
    Ask(ann, "resync", dune1), Ask(ann, "resync", dune2), Ask(ann, "resync", chess),
    Ask(ann, "resync", emma),
    Ask(ann, "delete", dune1), Ask(ann, "delete", dune2), Ask(bob, "delete", dune1),
    [owner |-> ann, op |-> "create", id |-> fresh,
     input |-> [Plain EXCEPT !.series = " Emma ", !.status = "", !.rating = 11, !.volume = -1]],
    [owner |-> ann, op |-> "create", id |-> fresh, input |-> [Plain EXCEPT !.volume = 201]],
    Rename(ann, "Dune", "dune"), Rename(ann, "Emma", "dune"), Rename(ann, "Dune", "x"),
    Rename(ann, "Dune", "Long"), Rename(ann, " Emma ", "x"),
    Dissolve(ann, "Dune"), Dissolve(ann, "Long") }

(* One create at most: created IDs are new. *)
Overlaps == {w \in [Requests -> Asks] : w[req1].op # "create" \/ w[req2].op # "create"}

TheMetadata ==
  { [title |-> "x", volumeId |-> "g1", genre |-> "HISTORY", description |-> "x",
     price |-> 5, cover |-> Cover],
    [title |-> "", volumeId |-> "", genre |-> "x", description |-> "", price |-> Nil,
     cover |-> NoCover] }
=============================================================================
