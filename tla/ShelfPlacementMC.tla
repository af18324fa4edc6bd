-------------------------- MODULE ShelfPlacementMC ---------------------------
(***************************************************************************)
(* Small instances of ShelfPlacement for TLC: ann has two shelves, one     *)
(* with two slots in a row, and books.                                     *)
(***************************************************************************)
EXTENDS ShelfPlacement, TLC

CONSTANTS ann, bob, sh1, sh2, book, comic, novel, isbn1, isbn2, isbn3,
          l1, l2, l3, a1, a2, a3, s1, s2, x1, d1

TheShelves == {sh1, sh2}
TheOwners  == sh1 :> ann @@ sh2 :> ann

Left  == <<sh1, <<0, 0>>>>
Right == <<sh1, <<0, 1>>>>
Other == <<sh2, <<0, 0>>>>

TwoSlots == {Left, Right, Other}
Emptied  == {Other}

TheItems == {[id |-> book,  owner |-> ann, isbn |-> isbn1],
             [id |-> comic, owner |-> ann, isbn |-> isbn2],
             [id |-> novel, owner |-> bob, isbn |-> isbn1]}

At(shelf, i, slot) == [shelf |-> shelf, item |-> i, slot |-> slot]

BookLeft   == {At(sh1, book, Left), At(sh2, comic, Other)}
NonePlaced == {}

Keep(cell, slot) == [cell |-> cell, keep |-> slot,   fresh |-> FALSE]
Same(cell)       == [cell |-> cell, keep |-> NoSlot, fresh |-> FALSE]
Fresh(cell)      == [cell |-> cell, keep |-> NoSlot, fresh |-> TRUE]

By(who) == [r \in Requests |-> who]
ByAnn   == By(ann)

(* Two edits of sh1: l1 moves the left slot to a row of its own and replaces
   the right one; l2, from a client that sends no IDs, keeps both.  Meanwhile
   the comic, from the other shelf, is put in both slots (a1, a2), and a3 names
   a slot of the wrong shelf.

   Or: the book is scanned into the other shelf (s1), taken out of its slot (x1)
   and deleted (d1); a new ISBN is scanned into the right slot (s2) while l3
   drops it; bob has a book of the same ISBN. *)
EditShelf == a3 :> sh2 @@ s1 :> sh2 @@ By(sh1)
EditSlot  == a1 :> Right @@ s1 :> Other @@ s2 :> Right @@ By(Left)
EditItem  == x1 :> book @@ d1 :> book @@ By(comic)
EditIsbn  == s1 :> isbn1 @@ By(isbn3)
EditInput == l1 :> <<Fresh(<<0, 1>>), Keep(<<1, 0>>, Left)>>
          @@ l2 :> <<Same(<<0, 0>>), Same(<<0, 1>>)>>
          @@ l3 :> <<Keep(<<0, 0>>, Left)>>

(* One item, put on two shelves at once. *)
BothShelf == a1 :> sh1 @@ a2 :> sh2
BothSlot  == a1 :> Right @@ a2 :> Other
BothItem  == By(book)

(* Two edits of a shelf whose layout was emptied. *)
EmptyInput == By(<<Fresh(<<0, 0>>)>>)

(* An edit that drops the right slot. *)
DropInput == By(<<Keep(<<0, 0>>, Left)>>)
=============================================================================
