---------------------------- MODULE ItemQueriesMC ---------------------------
(***************************************************************************)
(* A few items for TLC: two books of one series whose ISBNs are one book's *)
(* in its two forms, a misread of it, a book without a volume number, a    *)
(* game, and another owner's book.                                         *)
(***************************************************************************)
EXTENDS ItemQueries

CONSTANTS ann, bob

(* "em\ma" is spelled with an accent and a backslash, "ilk" with the dotless i,
   whose upper case is "I".  As a pattern, "m\m" asks for "mm". *)
TheTitle == [t \in {"Dune", "dune", "Emma", "em\\ma", "ilk"} |->
               IF t = "Dune" THEN "dune" ELSE t]
TheByte  == [t \in DOMAIN TheTitle |->
               CASE t = "em\\ma" -> "A~" [] t = "ilk" -> "A:" [] t = "Emma" -> "E" [] OTHER -> "D"]
TheChar  == [TheByte EXCEPT !["em\\ma"] = "E'", !["ilk"] = "I"]
TheFinds == [t \in DOMAIN TheTitle |->
               CASE t = "Emma" -> {"m"} [] t = "em\\ma" -> {"m", "m\\m"} [] OTHER -> {}]
TheLikes == [t \in DOMAIN TheTitle |->
               CASE t = "Emma" -> {"m", "m\\m", "_"} [] t = "em\\ma" -> {"m", "_"}
                 [] OTHER -> {"_"}]
TheSearches == {"m", "_", "m\\m"}
TheBytes == [t \in DOMAIN TheTitle |->
               CASE t = "Dune" -> 1 [] t = "Emma" -> 2 [] t = "dune" -> 3 [] t = "em\\ma" -> 4
                 [] OTHER -> 5]
TheCollation == [t \in DOMAIN TheTitle |->
               CASE t = "dune" -> 1 [] t = "Dune" -> 2 [] t = "em\\ma" -> 3 [] t = "Emma" -> 4
                 [] OTHER -> 5]

(* 0-8044-2957-X is 978-0-8044-2957-3. *)
Ten      == <<0, 11, 8, 0, 4, 4, 11, 2, 9, 5, 7, 11, 10>>
Thirteen == <<9, 7, 8, 0, 8, 0, 4, 4, 2, 9, 5, 7, 3>>
Misread  == <<9, 7, 8, 0, 8, 0, 4, 4, 2, 9, 5, 1, 3>>
Short    == <<0, 8, 0, 4, 4, 2, 9, 5, 7>>
TheCodes == {Ten, Thirteen, Misread, Short, <<0, 8, 0, 4, 4, 2, 9, 5, 7, 0>>, <<>>,
             [Thirteen EXCEPT ![3] = 9]}

Book == [owner |-> ann, title |-> "Dune", type |-> "book", status |-> "none",
         isbn13 |-> <<>>, isbn10 |-> <<>>, series |-> "", volume |-> NoNumber,
         total |-> NoNumber, placed |-> FALSE]

ThePool ==
  { [Book EXCEPT !.isbn10 = Ten, !.series = "s", !.volume = 2, !.placed = TRUE],
    [Book EXCEPT !.isbn13 = Thirteen, !.title = "dune", !.status = "read", !.series = "s",
                 !.volume = 6, !.total = 7],
    [Book EXCEPT !.isbn13 = Misread, !.isbn10 = Short, !.title = "Emma",
                 !.series = "s", !.total = 3],
    [Book EXCEPT !.title = "em\\ma", !.type = "game", !.isbn10 = Ten, !.placed = TRUE],
    [Book EXCEPT !.owner = bob, !.title = "ilk", !.isbn10 = Short, !.series = "s", !.volume = 1] }
=============================================================================
