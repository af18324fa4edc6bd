------------------------------ MODULE IsbnKeys ------------------------------
(***************************************************************************)
(* How a scanned code finds a book saved under the other form of its ISBN  *)
(* (items/lookup.go).  A code is a sequence of characters: 0..9 are the    *)
(* digits, 10 is an x or X, 11 is any other.                               *)
(***************************************************************************)
EXTENDS Ordering, SequencesExt

LetterX == 10

(* The characters up to the last that is kept, one after the other. *)
Kept(value, last) ==
  LET at == Increasing({i \in DOMAIN value : value[i] <= last})
  IN [n \in DOMAIN at |-> value[at[n]]]

NormalizeIdentifier(value) == Kept(value, 9)
isbnMatchKey(value)        == Kept(value, LetterX)

Digits(n) == [1..n -> 0..9]
ISBN13s   == Digits(13)
ISBN10s   == {k \in [1..10 -> 0..LetterX] : \A i \in 1..9 : k[i] # LetterX}

(* The empty sequence is no ISBN. *)
normalizeISBN(value) ==
  LET key == isbnMatchKey(value)
  IN IF Len(key) = 13 /\ ~Contains(key, LetterX) THEN key
     ELSE IF Len(key) = 10 /\ ~Contains(SubSeq(key, 1, 9), LetterX) THEN key
     ELSE <<>>

Prefix978 == <<9, 7, 8>>

(* The sums the loops over the digits in front of a check digit add up. *)
sum13(d) == d[1] + 3*d[2] + d[3] + 3*d[4] + d[5] + 3*d[6]
              + d[7] + 3*d[8] + d[9] + 3*d[10] + d[11] + 3*d[12]
sum10(d) == 10*d[1] + 9*d[2] + 8*d[3] + 7*d[4] + 6*d[5] + 5*d[6] + 4*d[7] + 3*d[8] + 2*d[9]

isbn10To13(isbn10) ==
  LET body == [i \in 1..12 |-> IF i <= 3 THEN Prefix978[i] ELSE isbn10[i - 3]]
  IN [i \in 1..13 |-> IF i <= 12 THEN body[i] ELSE (10 - (sum13(body) % 10)) % 10]

(* A check digit of 10 is an X. *)
isbn13To10(isbn13) ==
  LET body == [i \in 1..9 |-> isbn13[i + 3]]
  IN [i \in 1..10 |-> IF i <= 9 THEN body[i] ELSE (11 - (sum10(body) % 11)) % 11]

(* The other form of a key; one whose check digit is wrong has none. *)
OtherForm(key) ==
  IF Len(key) = 10 THEN {k \in {isbn10To13(key)} : isbn13To10(k) = key}
  ELSE IF \A i \in 1..3 : key[i] = Prefix978[i]
       THEN {k \in {isbn13To10(key)} : isbn10To13(k) = key}
  ELSE {}

(* Seeded fault: a key is converted whatever its check digit. *)
isbnLookupKeysUnchecked(value) ==
  LET key == normalizeISBN(value)
  IN IF key = <<>> THEN {}
     ELSE {key, IF Len(key) = 10 THEN isbn10To13(key) ELSE isbn13To10(key)}

isbnLookupKeys(value) ==
  LET key == normalizeISBN(value) IN IF key = <<>> THEN {} ELSE {key} \union OtherForm(key)
=============================================================================
