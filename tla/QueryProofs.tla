---------------------------- MODULE QueryProofs -----------------------------
(***************************************************************************)
(* Proofs about the queries: rows stay well formed under any history, and  *)
(* whatever they hold the two repositories list the same items, count what *)
(* their lists hold, find the duplicates and the book a scan names, and    *)
(* the series view says what is missing.                                   *)
(***************************************************************************)
EXTENDS ItemQueries, SequenceTheorems, FiniteSetTheorems, WellFoundedInduction, TLAPS

------------------------------------------------------------------------------
(* What a list in an order holds. *)
Strict(R, S) ==
  /\ \A x \in S : <<x, x>> \notin R
  /\ \A x, y \in S : x # y => <<x, y>> \in R \/ <<y, x>> \in R
  /\ \A x, y, z \in S : <<x, y>> \in R /\ <<y, z>> \in R => <<x, z>> \in R

(* The n-th element has n - 1 before it, and is the only one. *)
Sequenced(s, S, R) ==
  /\ Cardinality(S) \in Nat /\ s \in [1..Cardinality(S) -> S]
  /\ \A n \in 1..Cardinality(S) : Cardinality(Before(s[n], S, R)) = n - 1
  /\ \A x \in S : \E n \in 1..Cardinality(S) : s[n] = x
  /\ \A x \in S : \A n \in 1..Cardinality(S) :
       Cardinality(Before(x, S, R)) = n - 1 => x = s[n]
  /\ \A i, j \in 1..Cardinality(S) : i < j <=> <<s[i], s[j]>> \in R

LEMMA InOrderLists ==
  ASSUME NEW S, IsFiniteSet(S), NEW R, Strict(R, S)
  PROVE  Sequenced(InOrder(S, R), S, R)
<1> DEFINE size == Cardinality(S)
           p == [x \in S |-> Cardinality(Before(x, S, R)) + 1]
           s == InOrder(S, R)
<1>1. size \in Nat
  BY FS_CardinalityType
<1>2. ASSUME NEW x \in S
      PROVE  /\ IsFiniteSet(Before(x, S, R)) /\ Cardinality(Before(x, S, R)) \in Nat
             /\ IsFiniteSet(Before(x, S, R) \union {x})
             /\ Cardinality(Before(x, S, R) \union {x}) = p[x]
             /\ p[x] \in 1..size
  <2> DEFINE B == Before(x, S, R)
  <2>1. B \in SUBSET S /\ x \notin B
    BY DEF Before, Strict
  <2> HIDE DEF B
  <2>2. IsFiniteSet(B) /\ Cardinality(B) \in Nat
    BY <2>1, FS_Subset, FS_CardinalityType
  <2>3. IsFiniteSet(B \union {x}) /\ Cardinality(B \union {x}) = Cardinality(B) + 1
    BY <2>1, <2>2, FS_AddElement
  <2>4. Cardinality(B \union {x}) <= size
    <3>1. B \union {x} \in SUBSET S
      BY <2>1
    <3> QED
      BY <3>1, FS_Subset
  <2> QED
    BY <1>1, <2>2, <2>3, <2>4 DEF B
<1>8. /\ p \in [S -> 1..size]
      /\ \A x \in S : p[x] = Cardinality(Before(x, S, R)) + 1
  BY <1>2
<1> HIDE DEF p
<1>3. ASSUME NEW x \in S, NEW y \in S, <<x, y>> \in R PROVE p[x] < p[y]
  <2>1. Before(x, S, R) \union {x} \in SUBSET Before(y, S, R)
    BY <1>3 DEF Before, Strict
  <2>2. Cardinality(Before(x, S, R) \union {x}) <= Cardinality(Before(y, S, R))
    BY <1>2, <2>1, FS_Subset
  <2>3. /\ Cardinality(Before(x, S, R) \union {x}) = p[x] /\ p[x] \in 1..size
        /\ p[y] = Cardinality(Before(y, S, R)) + 1 /\ Cardinality(Before(y, S, R)) \in Nat
    BY <1>2, <1>8
  <2> QED
    BY <1>1, <2>2, <2>3
<1>4. \A x, y \in S : p[x] = p[y] => x = y
  <2> SUFFICES ASSUME NEW x \in S, NEW y \in S, x # y PROVE p[x] # p[y]
    OBVIOUS
  <2>1. <<x, y>> \in R \/ <<y, x>> \in R
    BY DEF Strict
  <2>2. p[x] \in Nat /\ p[y] \in Nat
    BY <1>1, <1>8
  <2>3. p[x] < p[y] \/ p[y] < p[x]
    BY <1>3, <2>1
  <2>4. \A a, b \in Nat : a < b => a # b
    OBVIOUS
  <2> QED
    BY <2>2, <2>3, <2>4
<1>5. \A n \in 1..size : \E x \in S : p[x] = n
  <2>1. p \in Injection(S, 1..size)
    <3>1. p \in [S -> 1..size]
      BY <1>8
    <3>2. IsInjective(p)
      <4>1. DOMAIN p = S
        BY <3>1
      <4> QED
        BY <1>4, <4>1 DEF IsInjective
    <3> QED
      BY <3>1, <3>2 DEF Injection
  <2>2. IsFiniteSet(1..size) /\ Cardinality(1..size) = size
    <3>1. 1 \in Int /\ size \in Int
      BY <1>1
    <3>2. IsFiniteSet(1..size) /\ Cardinality(1..size) = IF 1 > size THEN 0 ELSE size - 1 + 1
      BY <3>1, FS_Interval
    <3> QED
      BY <1>1, <3>2
  <2>3. p \in Surjection(S, 1..size)
    BY <2>1, <2>2, FS_Injection
  <2> QED
    BY <2>3 DEF Surjection
<1>6. ASSUME NEW n \in 1..size PROVE s[n] \in S /\ p[s[n]] = n
  <2>1. s[n] = CHOOSE x \in S : Cardinality(Before(x, S, R)) = n - 1
    BY DEF InOrder
  <2>2. \E x \in S : Cardinality(Before(x, S, R)) = n - 1
    <3>1. PICK x \in S : p[x] = n
      BY <1>5
    <3>2. Cardinality(Before(x, S, R)) + 1 = n /\ Cardinality(Before(x, S, R)) \in Nat
      BY <1>2, <1>8, <3>1
    <3> QED
      BY <3>2
  <2> HIDE DEF s
  <2>3. s[n] \in S /\ Cardinality(Before(s[n], S, R)) = n - 1
    BY <2>1, <2>2
  <2> QED
    BY <1>8, <2>3
<1>7. s \in [1..size -> S]
  <2>1. s = [n \in 1..size |-> CHOOSE x \in S : Cardinality(Before(x, S, R)) = n - 1]
    BY DEF InOrder
  <2> HIDE DEF s
  <2>2. s = [n \in 1..size |-> s[n]]
    BY <2>1
  <2> QED
    BY <1>6, <2>2
<1> HIDE DEF s
<1>9. \A x \in S : \A n \in 1..size : Cardinality(Before(x, S, R)) = n - 1 => x = s[n]
  BY <1>2, <1>4, <1>6, <1>8
<1>10. \A n \in 1..size : Cardinality(Before(s[n], S, R)) = n - 1
  <2> TAKE n \in 1..size
  <2>1. /\ Cardinality(Before(s[n], S, R)) + 1 = n
        /\ Cardinality(Before(s[n], S, R)) \in Nat
    BY <1>2, <1>6, <1>8
  <2> QED
    BY <2>1
<1>11. \A x \in S : \E n \in 1..size : s[n] = x
  <2> TAKE x \in S
  <2>1. p[x] \in 1..size
    BY <1>8
  <2> QED
    BY <1>4, <1>6, <2>1
<1>12. ASSUME NEW i \in 1..size, NEW j \in 1..size PROVE i < j <=> <<s[i], s[j]>> \in R
  <2>1. <<s[i], s[j]>> \in R => i < j
    BY <1>3, <1>6
  <2>2. <<s[j], s[i]>> \in R => j < i
    BY <1>3, <1>6
  <2>3. i < j => s[i] # s[j]
    BY <1>6
  <2>4. s[i] # s[j] => <<s[i], s[j]>> \in R \/ <<s[j], s[i]>> \in R
    BY <1>6 DEF Strict
  <2> QED
    BY <2>1, <2>2, <2>3, <2>4
<1> QED
  BY <1>1, <1>7, <1>9, <1>10, <1>11, <1>12 DEF Sequenced, s

LEMMA LessIsStrict ==
  ASSUME NEW S \in SUBSET Int PROVE Strict(Less(S), S)
BY DEF Less, Strict

------------------------------------------------------------------------------
(* The two forms of an ISBN. *)
LEMMA LengthOfFunction ==
  ASSUME NEW n \in Nat, NEW S, NEW f \in [1..n -> S]
  PROVE  f \in Seq(S) /\ Len(f) = n
BY LenProperties, SeqDef

LEMMA Lengths ==
  /\ \A k \in ISBN10s : Len(k) = 10 /\ Len(isbn10To13(k)) = 13
  /\ \A k \in ISBN13s : Len(k) = 13 /\ Len(isbn13To10(k)) = 10
<1>1. /\ \A k \in ISBN10s : Len(k) = 10
      /\ \A k \in ISBN13s : Len(k) = 13
  BY LengthOfFunction DEF ISBN10s, ISBN13s, Digits
<1>2. \A k : Len(isbn10To13(k)) = 13
  <2> TAKE k
  <2> DEFINE g == isbn10To13(k)
  <2>1. g \in [1..13 -> {g[i] : i \in 1..13}]
    BY DEF isbn10To13
  <2> HIDE DEF g
  <2>2. Len(g) = 13
    BY <2>1, LengthOfFunction
  <2> QED BY <2>2 DEF g
<1>3. \A k : Len(isbn13To10(k)) = 10
  <2> TAKE k
  <2> DEFINE g == isbn13To10(k)
  <2>1. g \in [1..10 -> {g[i] : i \in 1..10}]
    BY DEF isbn13To10
  <2> HIDE DEF g
  <2>2. Len(g) = 10
    BY <2>1, LengthOfFunction
  <2> QED BY <2>2 DEF g
<1> QED BY <1>1, <1>2, <1>3

LEMMA Has978 ==
  ASSUME NEW k PROVE \A i \in 1..3 : isbn10To13(k)[i] = Prefix978[i]
<1> TAKE i \in 1..3
<1>1. i \in 1..12 /\ i \in 1..13 /\ i <= 12 /\ i <= 3
  OBVIOUS
<1>2. isbn10To13(k)[i] = [j \in 1..12 |-> IF j <= 3 THEN Prefix978[j] ELSE k[j - 3]][i]
  BY <1>1, Zenon DEF isbn10To13
<1> QED BY <1>1, <1>2

(* A scan of either form of an ISBN has the other among its keys: whatever is
   saved under the one is found by the other, and a code that does not convert
   back is found by itself only (lookup.go 62-89). *)
THEOREM FormsFindEachOther ==
  ASSUME NEW a \in ISBN10s \union ISBN13s, NEW b \in ISBN10s \union ISBN13s
  PROVE  b \in OtherForm(a) <=> a \in OtherForm(b)
<1>1. ASSUME NEW x \in ISBN10s, NEW y \in ISBN13s
      PROVE  y \in OtherForm(x) <=> x \in OtherForm(y)
  <2>1. y \in OtherForm(x) <=> y = isbn10To13(x) /\ isbn13To10(y) = x
    BY <1>1, Lengths DEF OtherForm
  <2>2. x \in OtherForm(y) <=> /\ \A i \in 1..3 : y[i] = Prefix978[i]
                               /\ x = isbn13To10(y) /\ isbn10To13(x) = y
    BY <1>1, Lengths DEF OtherForm
  <2>3. y = isbn10To13(x) => \A i \in 1..3 : y[i] = Prefix978[i]
    BY Has978
  <2> QED BY <2>1, <2>2, <2>3
<1>2. ASSUME NEW x \in ISBN10s, NEW y \in ISBN10s PROVE y \notin OtherForm(x)
  BY <1>2, Lengths DEF OtherForm
<1>3. ASSUME NEW x \in ISBN13s, NEW y \in ISBN13s PROVE y \notin OtherForm(x)
  BY <1>3, Lengths DEF OtherForm
<1> QED BY <1>1, <1>2, <1>3

------------------------------------------------------------------------------
(* The rows there may be, in the order of their IDs. *)
AllRows == {Row(c, id, created, updated) :
              c \in Pool, id \in Ids, created \in Times, updated \in Times}
Ordered == \A i, j \in DOMAIN rows : i < j => rows[i].id < rows[j].id
RowsOK  == rows \in Seq(AllRows) /\ Ordered

LEMMA StoredRow ==
  ASSUME NEW c, NEW id, NEW created, NEW updated
  PROVE  /\ Row(c, id, created, updated).id = id
         /\ Row(c, id, created, updated).created = created
         /\ Row(c, id, created, updated).updated = updated
BY DEF Row

LEMMA Stamps ==
  ASSUME NEW r \in AllRows
  PROVE  r.id \in Ids /\ r.id \in Nat /\ r.created \in Times /\ r.updated \in Times
<1>1. PICK c \in Pool, id \in Ids, created \in Times, updated \in Times :
        r = Row(c, id, created, updated)
  BY DEF AllRows
<1>2. r.id = id /\ r.created = created /\ r.updated = updated
  BY <1>1, StoredRow
<1> QED
  BY <1>2, QueryAssumption

LEMMA RowsCreated ==
  ASSUME RowsOK, NEW c \in Pool, NEW created \in Times, NEW updated \in Times,
         Create(c, created, updated)
  PROVE  RowsOK'
<1> DEFINE ids == {rows[i].id : i \in DOMAIN rows}
           all == {0} \union ids
           id == Max(all) + 1
           new == Row(c, id, created, updated)
<1>1. /\ DOMAIN rows = 1..Len(rows) /\ Len(rows) \in Nat
      /\ \A i \in DOMAIN rows : rows[i] \in AllRows /\ rows[i].id \in Nat
  BY Stamps DEF RowsOK
<1>2. \E x \in all : \A y \in all : x >= y
  <2>1. CASE Len(rows) = 0
    BY <1>1, <2>1
  <2>2. CASE Len(rows) # 0
    <3>1. Len(rows) \in DOMAIN rows
      BY <1>1, <2>2
    <3>2. \A i \in DOMAIN rows : rows[Len(rows)].id >= rows[i].id
      BY <1>1, <3>1 DEF RowsOK, Ordered
    <3>3. PICK x \in ids : x = rows[Len(rows)].id /\ x \in Nat
      BY <1>1, <3>1
    <3>4. \A y \in all : x >= y
      BY <3>2, <3>3
    <3> QED
      BY <3>3, <3>4
  <2> QED
    BY <2>1, <2>2
<1>3. \A i \in DOMAIN rows : rows[i].id < id
  <2>1. Max(all) \in all /\ \A y \in all : Max(all) >= y
    BY <1>2 DEF Max
  <2>2. \A i \in DOMAIN rows : rows[i].id \in all
    OBVIOUS
  <2>3. Max(all) \in Nat
    BY <1>1, <2>1
  <2> HIDE DEF all
  <2> QED
    BY <1>1, <2>1, <2>2, <2>3
<1>4. id \in Ids /\ rows' = Append(rows, new)
  BY DEF Create
<1> HIDE DEF id, ids, all
<1>5. new \in AllRows /\ new.id = id
  <2>1. new.id = id
    BY StoredRow
  <2> QED
    BY <1>4, <2>1 DEF AllRows
<1> HIDE DEF new
<1>6. rows' \in Seq(AllRows)
  BY <1>4, <1>5 DEF RowsOK
<1>7. /\ DOMAIN rows' = 1..(Len(rows) + 1)
      /\ \A i \in DOMAIN rows : rows'[i] = rows[i]
      /\ rows'[Len(rows) + 1] = new
  BY <1>1, <1>4, <1>5 DEF RowsOK
<1>8. Ordered'
  <2> SUFFICES ASSUME NEW i \in DOMAIN rows', NEW j \in DOMAIN rows', i < j
               PROVE  rows'[i].id < rows'[j].id
    BY DEF Ordered
  <2>1. i \in DOMAIN rows /\ (j \in DOMAIN rows \/ j = Len(rows) + 1)
    BY <1>1, <1>7
  <2> QED
    BY <1>3, <1>5, <1>7, <2>1 DEF RowsOK, Ordered
<1> QED
  BY <1>6, <1>8 DEF RowsOK

LEMMA RowsUpdated ==
  ASSUME RowsOK, NEW i \in DOMAIN rows, NEW c \in Pool, NEW time \in Times, Update(i, c, time)
  PROVE  RowsOK'
<1> DEFINE new == Row(c, rows[i].id, rows[i].created, time)
<1>1. rows[i] \in AllRows /\ DOMAIN rows = 1..Len(rows)
  BY DEF RowsOK
<1>2. new \in AllRows /\ new.id = rows[i].id
  BY <1>1, Stamps, StoredRow DEF AllRows
<1>3. rows' = [rows EXCEPT ![i] = new]
  BY DEF Update
<1> HIDE DEF new
<1>4. rows' \in Seq(AllRows) /\ DOMAIN rows' = DOMAIN rows
  BY <1>2, <1>3 DEF RowsOK
<1>5. \A j \in DOMAIN rows : rows'[j].id = rows[j].id
  BY <1>2, <1>3 DEF RowsOK
<1> QED
  BY <1>4, <1>5 DEF RowsOK, Ordered

LEMMA RowsDeleted ==
  ASSUME RowsOK, NEW i \in DOMAIN rows, Delete(i)
  PROVE  RowsOK'
<1> DEFINE a == SubSeq(rows, 1, i - 1)
           b == SubSeq(rows, i + 1, Len(rows))
<1>1. i \in 1..Len(rows) /\ DOMAIN rows = 1..Len(rows) /\ Len(rows) \in Nat
      /\ \A j \in 1..Len(rows) : rows[j] \in AllRows
  BY DEF RowsOK
<1>2. /\ a \in Seq(AllRows) /\ Len(a) = i - 1
      /\ \A j \in 1..(i - 1) : a[j] = rows[j]
  <2>1. \A j \in 1..(i - 1) : rows[j] \in AllRows
    BY <1>1
  <2> QED
    BY <1>1, <2>1, SubSeqProperties
<1>3. /\ b \in Seq(AllRows) /\ Len(b) = Len(rows) - i
      /\ \A j \in 1..(Len(rows) - i) : b[j] = rows[i + j]
  <2>1. \A j \in (i + 1)..Len(rows) : rows[j] \in AllRows
    BY <1>1
  <2>2. /\ b \in Seq(AllRows)
        /\ Len(b) = (IF i + 1 <= Len(rows) THEN Len(rows) - (i + 1) + 1 ELSE 0)
        /\ \A j \in 1..(Len(rows) - (i + 1) + 1) : b[j] = rows[i + 1 + j - 1]
    BY <1>1, <2>1, SubSeqProperties
  <2> HIDE DEF b
  <2>3. Len(b) = Len(rows) - i
    BY <1>1, <2>2
  <2>4. ASSUME NEW j \in 1..(Len(rows) - i) PROVE b[j] = rows[i + j]
    <3>1. b[j] = rows[i + 1 + j - 1]
      BY <1>1, <2>2
    <3>2. i + 1 + j - 1 = i + j
      BY <1>1
    <3> QED
      BY <3>1, <3>2
  <2> QED
    BY <2>2, <2>3, <2>4
<1>4. rows' = a \o b
  BY DEF Delete, RemoveAt
<1> HIDE DEF a, b
<1>5. /\ rows' \in Seq(AllRows) /\ Len(rows') = Len(a) + Len(b)
      /\ \A j \in 1..(Len(a) + Len(b)) : rows'[j] = IF j <= Len(a) THEN a[j] ELSE b[j - Len(a)]
  BY <1>2, <1>3, <1>4, ConcatProperties
<1>6. DOMAIN rows' = 1..(Len(rows) - 1)
  BY <1>1, <1>2, <1>3, <1>5
<1>7. ASSUME NEW j \in 1..(Len(rows) - 1) PROVE rows'[j] = rows[IF j < i THEN j ELSE j + 1]
  <2>1. CASE j < i
    BY <1>1, <1>2, <1>3, <1>5, <2>1
  <2>2. CASE ~(j < i)
    <3>1. rows'[j] = b[j - (i - 1)] /\ j - (i - 1) \in 1..(Len(rows) - i)
      BY <1>1, <1>2, <1>3, <1>5, <2>2
    <3>2. b[j - (i - 1)] = rows[i + (j - (i - 1))]
      BY <1>3, <3>1
    <3>3. i + (j - (i - 1)) = j + 1
      BY <1>1
    <3> QED
      BY <2>2, <3>1, <3>2, <3>3
  <2> QED
    BY <2>1, <2>2
<1>8. Ordered'
  <2> SUFFICES ASSUME NEW j \in 1..(Len(rows) - 1), NEW k \in 1..(Len(rows) - 1), j < k
               PROVE  rows'[j].id < rows'[k].id
    BY <1>6 DEF Ordered
  <2>1. PICK x \in DOMAIN rows, y \in DOMAIN rows :
          x < y /\ x = (IF j < i THEN j ELSE j + 1) /\ y = (IF k < i THEN k ELSE k + 1)
    BY <1>1
  <2> QED
    BY <1>7, <2>1 DEF RowsOK, Ordered
<1> QED
  BY <1>5, <1>8 DEF RowsOK

THEOREM RowsHold == Spec => []RowsOK
<1>1. Init => RowsOK
  BY DEF Init, RowsOK, Ordered
<1>2. RowsOK /\ [Next]_rows => RowsOK'
  <2> SUFFICES ASSUME RowsOK, [Next]_rows PROVE RowsOK'
    OBVIOUS
  <2>1. CASE UNCHANGED rows
    BY <2>1 DEF RowsOK, Ordered
  <2> QED
    BY <2>1, RowsCreated, RowsUpdated, RowsDeleted DEF Next
<1> QED
  BY <1>1, <1>2, PTL DEF Spec

(* The rows are kept in the order of their IDs, which is that of their
   insertion, and hold what the writes say (memory_repository.go 35-140). *)
THEOREM Typed == Spec => []TypeOK
<1>1. RowsOK => TypeOK
  BY Stamps DEF RowsOK, Ordered, TypeOK
<1> QED
  BY <1>1, RowsHold, PTL

(* Whatever is stored has the fields of an item. *)
LEMMA StoredItems ==
  ASSUME RowsOK, NEW r \in ToSet(rows)
  PROVE  /\ r.title \in Titles /\ r.placed \in BOOLEAN
         /\ r.isbn13 \in Codes /\ r.isbn10 \in Codes /\ r.series \in Series \union {""}
         /\ {r.volume, r.total} \subseteq Int \union {NoNumber}
         /\ r.id \in Nat /\ r.created \in Nat /\ r.updated \in Nat
<1>1. PICK i \in DOMAIN rows : r = rows[i]
  BY DEF ToSet
<1>2. r \in AllRows
  BY <1>1 DEF RowsOK
<1>3. PICK c \in Pool, id \in Ids, created \in Times, updated \in Times :
        r = Row(c, id, created, updated)
  BY <1>2 DEF AllRows
<1> DEFINE Numbers == Int \union {NoNumber}
           Names == Series \union {""}
           fields == {"owner", "title", "type", "status", "isbn13", "isbn10", "series", "volume",
                      "total", "placed"}
<1>4. /\ DOMAIN c = fields
      /\ c.title \in Titles /\ c.placed \in BOOLEAN /\ c.isbn13 \in Codes /\ c.isbn10 \in Codes
      /\ c.series \in Names /\ c.volume \in Numbers /\ c.total \in Numbers
  <2>1. c \in [owner : Owners, title : Titles, type : {"book", "game", "movie", "music"},
               status : {"none", "read", "reading", "want_to_read"}, isbn13 : Codes,
               isbn10 : Codes, series : Names, volume : Numbers, total : Numbers,
               placed : BOOLEAN]
    BY QueryAssumption DEF Items
  <2> HIDE DEF Numbers, Names
  <2> QED
    BY <2>1
<1>5. \A k \in fields : r[k] = c[k]
  <2>1. ASSUME NEW k \in DOMAIN c, k \notin {"id", "created", "updated"} PROVE r[k] = c[k]
    BY <1>3, <2>1 DEF Row
  <2>2. \A k \in fields : k \notin {"id", "created", "updated"}
    OBVIOUS
  <2> HIDE DEF fields
  <2> QED
    BY <1>4, <2>1, <2>2
<1>6. /\ r.title = c.title /\ r.placed = c.placed /\ r.isbn13 = c.isbn13 /\ r.isbn10 = c.isbn10
      /\ r.series = c.series /\ r.volume = c.volume /\ r.total = c.total
  BY <1>5
<1>7. r.id \in Nat /\ r.created \in Nat /\ r.updated \in Nat
  BY <1>2, Stamps, QueryAssumption
<1> QED
  BY <1>4, <1>6, <1>7

(* The order of a list of rows, whatever the order of their titles. *)
RowOrder(order, S) == {p \in S \X S : IsBefore(order, p[1], p[2])}

LEMMA RowOrderIsStrict ==
  ASSUME NEW S, NEW order \in [Titles -> Nat],
         \A r \in S : r.title \in Titles /\ r.created \in Nat /\ r.id \in Nat,
         \A q, r \in S : q.id = r.id => q = r
  PROVE  Strict(RowOrder(order, S), S)
<1>1. \A r \in S : order[r.title] \in Nat
  OBVIOUS
<1>2. \A q, r \in S : <<q, r>> \in RowOrder(order, S) <=> IsBefore(order, q, r)
  BY DEF RowOrder
<1>3. \A x \in S : ~IsBefore(order, x, x)
  BY <1>1 DEF IsBefore
<1>4. ASSUME NEW x \in S, NEW y \in S, x # y PROVE IsBefore(order, x, y) \/ IsBefore(order, y, x)
  <2>1. x.id # y.id
    BY <1>4
  <2> QED
    BY <1>1, <2>1 DEF IsBefore
<1>5. ASSUME NEW x \in S, NEW y \in S, NEW z \in S, IsBefore(order, x, y), IsBefore(order, y, z)
      PROVE  IsBefore(order, x, z)
  BY <1>1, <1>5 DEF IsBefore
<1> QED
  BY <1>2, <1>3, <1>4, <1>5 DEF Strict

------------------------------------------------------------------------------
(* What a query string may ask for, item by item. *)
LEMMA LettersRead ==
  ASSUME NEW t \in Titles, NEW l \in Letters \union {"#"}
  PROVE  /\ extractFirstLetter(t) = l <=> IF l = "#" THEN FirstByte[t] \notin Letters
                                                    ELSE FirstByte[t] = l
         /\ LetterSQL(t) = l <=> IF l = "#" THEN titleInitialSQL(t) \notin Letters
                                           ELSE titleInitialSQL(t) = l
<1>1. "#" \notin Letters
  BY QueryAssumption
<1> QED
  BY <1>1 DEF extractFirstLetter, LetterSQL

(* Options as a request may ask for. *)
Asked(o) ==
  /\ o.type \in {Unset, "book", "game", "movie", "music"}
  /\ o.status \in {Unset, "none", "read", "reading", "want_to_read"}
  /\ o.shelf \in {Unset, "on", "off"}
  /\ o.letter \in Letters \union {Unset, "#"}
  /\ o.query \in Searches \union {Unset}

(* The filters that do not read the title. *)
Besides(o, r) == OfType(o, r) /\ OfStatus(o, r) /\ OnShelf(o, r)

LEMMA FiltersOfOptions ==
  ASSUME NEW o, Asked(o), NEW r, r.title \in Titles, r.placed \in BOOLEAN
  PROVE  /\ MemoryMatches(o, r) <=>
              /\ Besides(o, r)
              /\ o.letter = Unset \/ extractFirstLetter(r.title) = o.letter
              /\ o.query = Unset \/ o.query \in Finds[r.title]
         /\ Clauses(o, r) <=>
              /\ r.owner = o.owner /\ Besides(o, r)
              /\ o.letter = Unset \/ LetterSQL(r.title) = o.letter
              /\ o.query = Unset \/ o.query \in Likes[r.title]
         /\ ReadAlike(o, r.title) =>
              (Clauses(o, r) <=> r.owner = o.owner /\ MemoryMatches(o, r))
<1>1. /\ o.type \in {Unset, "book", "game", "movie", "music"}
      /\ o.status \in {Unset, "none", "read", "reading", "want_to_read"}
      /\ o.shelf \in {Unset, "on", "off"}
      /\ o.letter \in Letters \union {Unset, "#"}
      /\ o.query \in Searches \union {Unset}
  BY DEF Asked
<1>2. OfType(o, r) <=> (o.type # Unset => r.type = o.type)
  BY DEF OfType
<1>3. OfStatus(o, r) <=>
        (o.status # Unset =>
           IF o.type # Unset THEN r.status = o.status
           ELSE IF o.status = "none" THEN r.type # "book" \/ r.status = o.status
           ELSE r.type = "book" /\ r.status = o.status)
  BY <1>1 DEF OfStatus, Unset
<1>4. /\ OnLetter(o, r) <=> o.letter = Unset \/ extractFirstLetter(r.title) = o.letter
      /\ (/\ o.letter = "#" => titleInitialSQL(r.title) \notin Letters
          /\ o.letter \notin {Unset, "#"} => titleInitialSQL(r.title) = o.letter)
         <=> o.letter = Unset \/ LetterSQL(r.title) = o.letter
  <2>1. Unset \notin Letters /\ "#" \notin Letters /\ Unset # "#"
    BY QueryAssumption DEF Unset
  <2>2. CASE o.letter \in Letters \union {"#"}
    BY <2>1, <2>2, LettersRead DEF OnLetter
  <2>3. CASE o.letter = Unset
    BY <2>1, <2>3 DEF OnLetter
  <2> QED
    BY <1>1, <2>2, <2>3
<1>5. OnShelf(o, r) <=> (o.shelf = "on" => r.placed) /\ (o.shelf = "off" => ~r.placed)
  BY <1>1 DEF OnShelf, Unset
<1>6. MemoryMatches(o, r) <=>
        /\ Besides(o, r)
        /\ o.letter = Unset \/ extractFirstLetter(r.title) = o.letter
        /\ o.query = Unset \/ o.query \in Finds[r.title]
  BY <1>4 DEF MemoryMatches, Besides
<1>7. Clauses(o, r) <=>
        /\ r.owner = o.owner /\ Besides(o, r)
        /\ o.letter = Unset \/ LetterSQL(r.title) = o.letter
        /\ o.query = Unset \/ o.query \in Likes[r.title]
  BY <1>2, <1>3, <1>4, <1>5 DEF Clauses, Besides
<1> QED
  BY <1>6, <1>7 DEF ReadAlike

LEMMA ParsedOptions ==
  ASSUME NEW q, NEW o, o = parseListOptions(q), o # Refused
  PROVE  /\ Asked(o) /\ o.query = IF q.query = "" THEN Unset ELSE q.query
         /\ o.owner = q.owner /\ o.limit = q.limit
BY DEF parseListOptions, Refused, Unset, Asked

(* Whatever a client asks for, the statement of the database and the filters in
   memory select the same items of those whose titles they read alike: type,
   status, shelf, letter and search together, with and without a type.  An item
   only one of them selects is one whose letter or search they read differently
   (memory_repository.go 145-257, postgres_repository.go 133-233). *)
THEOREM FiltersAgree ==
  ASSUME NEW q, NEW o, o = parseListOptions(q), o # Refused,
         NEW r, r.title \in Titles, r.placed \in BOOLEAN, ReadAlike(o, r.title)
  PROVE  Clauses(o, r) <=> r.owner = q.owner /\ MemoryMatches(o, r)
<1>1. Asked(o) /\ o.owner = q.owner
  BY ParsedOptions
<1> QED
  BY <1>1, FiltersOfOptions

------------------------------------------------------------------------------
(* The duplicate check of the database. *)
LEMMA RowsFinite ==
  ASSUME RowsOK PROVE IsFiniteSet(ToSet(rows))
<1>1. DOMAIN rows = 1..Len(rows) /\ Len(rows) \in Nat
  BY DEF RowsOK
<1>2. IsFiniteSet(DOMAIN rows)
  <2>1. Len(rows) \in Int /\ 1 \in Int
    BY <1>1
  <2> QED
    BY <1>1, <2>1, FS_Interval
<1>3. rows \in Surjection(DOMAIN rows, ToSet(rows))
  BY DEF RowsOK, ToSet, Surjection
<1> QED
  BY <1>2, <1>3, FS_Surjection

LEMMA MinOfTwo ==
  ASSUME NEW a \in Nat, NEW b \in Nat
  PROVE  Min({a, b}) = IF a <= b THEN a ELSE b
<1>1. \E x \in {a, b} : \A y \in {a, b} : x =< y
  OBVIOUS
<1> DEFINE m == Min({a, b})
<1>2. m \in {a, b} /\ \A y \in {a, b} : m =< y
  BY <1>1 DEF Min
<1> HIDE DEF m
<1> QED
  BY <1>2 DEF m

LEMMA FoundDuplicates ==
  ASSUME RowsOK, NEW owner, NEW input, NEW answer, PostgresDuplicates(input, owner, answer)
  PROVE  LET same == {r \in ToSet(rows) : r.owner = owner /\ IsDuplicate(input, r)}
         IN /\ answer \subseteq same
            /\ answer = same \/ Cardinality(answer) = maxMatches
<1> DEFINE same == {r \in ToSet(rows) : r.owner = owner /\ IsDuplicate(input, r)}
<1>1. answer \subseteq same /\ Cardinality(answer) = Min({maxMatches, Cardinality(same)})
  BY DEF PostgresDuplicates
<1>2. IsFiniteSet(same)
  BY RowsFinite, FS_Subset
<1> HIDE DEF same
<1>3. Cardinality(same) \in Nat
  BY <1>2, FS_CardinalityType
<1>4. Cardinality(answer) = maxMatches \/ Cardinality(answer) = Cardinality(same)
  BY <1>1, <1>3, MinOfTwo, QueryAssumption
<1>5. Cardinality(answer) = Cardinality(same) => answer = same
  BY <1>1, <1>2, FS_Subset
<1> QED
  BY <1>1, <1>4, <1>5 DEF same

(* Every answer of the database's duplicate check holds only items of the owner
   that have the title or an ISBN, and leaves some out only when there are more
   than it may name (postgres_repository.go 399-445). *)
DatabaseDuplicates ==
  \A owner \in Owners, input \in Pool : \A answer \in SUBSET ToSet(rows) :
    PostgresDuplicates(input, owner, answer) =>
      LET same == {r \in ToSet(rows) : r.owner = owner /\ IsDuplicate(input, r)}
      IN /\ answer \subseteq same
         /\ answer = same \/ Cardinality(answer) = maxMatches

THEOREM DatabaseFindsDuplicates == Spec => []DatabaseDuplicates
<1>1. RowsOK => DatabaseDuplicates
  BY FoundDuplicates DEF DatabaseDuplicates
<1> QED
  BY <1>1, RowsHold, PTL

------------------------------------------------------------------------------
(* Every finite set of integers has a largest one. *)
LEMMA LeastNatural ==
  ASSUME NEW T \in SUBSET Nat, T # {} PROVE \E x \in T : \A y \in T : x <= y
<1> DEFINE R == {ss \in Nat \X Nat : ss[1] < ss[2]}
<1>1. IsWellFoundedOn(R, Nat)
  BY NatLessThanWellFounded DEF OpToRel
<1>2. PICK x \in T : \A y \in T : <<y, x>> \notin R
  <2> HIDE DEF R
  <2> QED
    BY <1>1, WFMin
<1>3. ASSUME NEW y \in T PROVE x <= y
  <2>1. x \in Nat /\ y \in Nat /\ <<y, x>> \notin R
    BY <1>2
  <2>2. ~(y < x)
    BY <2>1
  <2> QED
    BY <2>1, <2>2
<1> QED
  BY <1>3

LEMMA FiniteHasMax ==
  ASSUME NEW S \in SUBSET Int, IsFiniteSet(S), S # {}
  PROVE  \E x \in S : \A y \in S : x >= y
<1> DEFINE Bad(X) == IsFiniteSet(X) /\ X # {} /\ ~\E x \in X : \A y \in X : x >= y
           T == {Cardinality(X) : X \in {Y \in SUBSET Int : Bad(Y)}}
<1> SUFFICES ASSUME Bad(S) PROVE FALSE
  OBVIOUS
<1>1. T \in SUBSET Nat /\ T # {}
  BY FS_CardinalityType
<1> HIDE DEF T
<1>2. PICK n \in T : \A m \in T : n <= m
  BY <1>1, LeastNatural
<1>3. PICK X \in SUBSET Int : Bad(X) /\ n = Cardinality(X)
  BY <1>2 DEF T
<1>4. PICK e \in X : TRUE
  BY <1>3
<1>5. IsFiniteSet(X \ {e}) /\ Cardinality(X \ {e}) = n - 1
  BY <1>3, <1>4, FS_RemoveElement
<1>6. ~Bad(X \ {e})
  <2>1. SUFFICES ASSUME Bad(X \ {e}) PROVE FALSE
    OBVIOUS
  <2>2. n - 1 \in T
    BY <1>5, <2>1 DEF T
  <2> QED
    BY <1>1, <1>2, <2>2
<1>7. CASE X \ {e} = {}
  BY <1>3, <1>4, <1>7
<1>8. CASE X \ {e} # {}
  <2>1. PICK x \in X \ {e} : \A y \in X \ {e} : x >= y
    BY <1>5, <1>6, <1>8
  <2>2. x \in Int /\ e \in Int
    BY <1>4, <2>1
  <2>3. PICK z \in {x, e} : z >= x /\ z >= e
    BY <2>2
  <2>4. z \in X /\ \A y \in X : z >= y
    BY <1>4, <2>1, <2>2, <2>3
  <2> QED
    BY <1>3, <2>4
<1> QED
  BY <1>7, <1>8

(* The missing volumes of a series *)
NumberedBooks(books) ==
  /\ IsFiniteSet(books)
  /\ \A b \in books : {b.volume, b.total} \subseteq Int \union {NoNumber}

LEMMA ImageFinite ==
  ASSUME NEW S, IsFiniteSet(S), NEW f, DOMAIN f = S
  PROVE  IsFiniteSet({f[x] : x \in S})
<1> DEFINE g == [x \in S |-> f[x]]
           T == {f[x] : x \in S}
<1>1. g \in Surjection(S, T)
  BY DEF Surjection
<1> HIDE DEF g, T
<1>2. IsFiniteSet(T)
  BY <1>1, FS_Surjection
<1> QED
  BY <1>2 DEF T

LEMMA VolumesOfBooks ==
  ASSUME NEW books, NumberedBooks(books)
  PROVE  /\ OwnedVolumes(books) \subseteq Nat \ {0} /\ IsFiniteSet(OwnedVolumes(books))
         /\ TotalVolumes(books) \in Int \union {NoNumber}
<1> DEFINE v == [b \in books |-> b.volume]
           t == [b \in books |-> b.total]
           V == {v[b] : b \in books}
           T == {t[b] : b \in books}
<1>1. IsFiniteSet(V) /\ IsFiniteSet(T)
  BY ImageFinite DEF NumberedBooks
<1>2. V = {b.volume : b \in books} /\ T = {b.total : b \in books}
  OBVIOUS
<1>3. V \subseteq Int \union {NoNumber} /\ T \subseteq Int \union {NoNumber}
  BY <1>2 DEF NumberedBooks
<1> HIDE DEF V, T
<1>4. OwnedVolumes(books) \subseteq Nat \ {0} /\ OwnedVolumes(books) \in SUBSET V
  BY <1>2, <1>3 DEF OwnedVolumes
<1>5. IsFiniteSet(OwnedVolumes(books))
  BY <1>1, <1>4, FS_Subset
<1>6. TotalVolumes(books) \in Int \union {NoNumber}
  <2> DEFINE totals == T \ {NoNumber}
  <2>1. TotalVolumes(books) = IF totals = {} THEN NoNumber ELSE Max(totals)
    BY <1>2 DEF TotalVolumes
  <2>2. totals \in SUBSET Int /\ IsFiniteSet(totals)
    BY <1>1, <1>3, FS_RemoveElement
  <2> HIDE DEF totals
  <2>3. totals # {} => Max(totals) \in totals
    BY <2>2, FiniteHasMax DEF Max
  <2> QED
    BY <2>1, <2>2, <2>3
<1> QED
  BY <1>4, <1>5, <1>6

LEMMA BoundOfVolumes ==
  ASSUME NEW books, NumberedBooks(books)
  PROVE  UpperBound(books) \in Nat /\ OwnedVolumes(books) \subseteq 1..UpperBound(books)
<1> DEFINE owned == OwnedVolumes(books)
           total == TotalVolumes(books)
           known == owned \union {0} \union IF total = NoNumber THEN {} ELSE {total}
           last == UpperBound(books)
<1>1. owned \subseteq Nat \ {0} /\ IsFiniteSet(owned) /\ total \in Int \union {NoNumber}
  BY VolumesOfBooks
<1>2. last = Max(known)
  BY DEF UpperBound
<1>3. known \in SUBSET Int /\ IsFiniteSet(known)
  <2>1. known \in SUBSET Int
    BY <1>1
  <2>2. known = owned \union {0} \/ known = (owned \union {0}) \union {total}
    OBVIOUS
  <2> HIDE DEF owned, total, known
  <2>3. PICK z, t : z = 0 /\ t = total
    OBVIOUS
  <2>4. IsFiniteSet(owned \union {z})
    BY <1>1, FS_AddElement
  <2>5. IsFiniteSet((owned \union {z}) \union {t})
    BY <2>4, FS_AddElement
  <2> QED
    BY <2>1, <2>2, <2>3, <2>4, <2>5
<1>4. 0 \in known /\ owned \subseteq known
  OBVIOUS
<1> HIDE DEF owned, known, last, total
<1>5. last \in known /\ \A y \in known : last >= y
  BY <1>2, <1>3, <1>4, FiniteHasMax DEF Max
<1>6. last \in Nat /\ owned \subseteq 1..last
  BY <1>1, <1>3, <1>4, <1>5
<1> QED
  BY <1>6 DEF owned, last

LEMMA CountedVolumes ==
  ASSUME NEW books, NumberedBooks(books), OwnedVolumes(books) # {}
  PROVE  LET missing == (1..UpperBound(books)) \ OwnedVolumes(books)
         IN /\ MissingCount(books) = Cardinality(missing)
            /\ determineSeriesStatus(books) = "incomplete" <=> missing # {}
<1> DEFINE owned == OwnedVolumes(books)
           last == UpperBound(books)
           missing == (1..last) \ owned
<1>1. IsFiniteSet(owned) /\ last \in Nat /\ owned \subseteq 1..last
  BY VolumesOfBooks, BoundOfVolumes
<1>2. MissingCount(books) = last - Cardinality(owned)
  BY DEF MissingCount
<1>3. determineSeriesStatus(books) = "incomplete" <=> MissingCount(books) \notin {NoNumber, 0}
  BY DEF determineSeriesStatus
<1> HIDE DEF owned, last
<1>4. IsFiniteSet(1..last) /\ Cardinality(1..last) = last
  <2>1. last \in Int /\ 1 \in Int
    BY <1>1
  <2> QED
    BY <1>1, <2>1, FS_Interval
<1>5. (1..last) \intersect owned = owned
  BY <1>1
<1>6. IsFiniteSet(missing) /\ Cardinality(missing) = last - Cardinality(owned)
  BY <1>4, <1>5, FS_Difference
<1> HIDE DEF missing
<1>7. Cardinality(missing) = 0 <=> missing = {}
  BY <1>6, FS_EmptySet
<1>8. Cardinality(missing) \in Nat
  BY <1>6, FS_CardinalityType
<1>9. MissingCount(books) = Cardinality(missing) /\ MissingCount(books) # NoNumber
  BY <1>2, <1>6, <1>8, SeriesAssumption
<1> QED
  BY <1>3, <1>7, <1>9 DEF missing, owned, last

(* The number of missing volumes the series view tells is that of the volumes
   from 1 to the last one known that nobody has, and a series with numbered
   volumes is incomplete exactly if there is one, whatever numbers its rows hold
   (service_series.go 117-191). *)
SeriesCounted ==
  \A owner \in Owners, name \in Series :
    LET books   == SeriesBooks(owner, name)
        missing == (1..UpperBound(books)) \ OwnedVolumes(books)
    IN OwnedVolumes(books) # {} =>
         /\ MissingCount(books) = Cardinality(missing)
         /\ determineSeriesStatus(books) = "incomplete" <=> missing # {}

THEOREM MissingAreCounted == Spec => []SeriesCounted
<1>1. RowsOK => SeriesCounted
  <2> SUFFICES ASSUME RowsOK, NEW owner \in Owners, NEW name \in Series
               PROVE  NumberedBooks(SeriesBooks(owner, name))
    BY CountedVolumes DEF SeriesCounted
  <2>1. SeriesBooks(owner, name) \in SUBSET ToSet(rows)
    BY DEF SeriesBooks
  <2>2. IsFiniteSet(SeriesBooks(owner, name))
    BY <2>1, RowsFinite, FS_Subset
  <2> QED
    BY <2>1, <2>2, StoredItems DEF NumberedBooks
<1> QED
  BY <1>1, RowsHold, PTL

------------------------------------------------------------------------------
(* s lists the rows S, the newest first. *)
Newest(s, S) ==
  /\ Cardinality(S) \in Nat /\ s \in [1..Cardinality(S) -> S]
  /\ \A r \in S : \E i \in 1..Cardinality(S) : s[i] = r
  /\ \A i, j \in 1..Cardinality(S) : i # j => s[i] # s[j]
  /\ \A i, j \in 1..Cardinality(S) : i <= j => s[i].created >= s[j].created

LEMMA RowsById ==
  ASSUME RowsOK
  PROVE  /\ \A q, r \in ToSet(rows) : q.id = r.id => q = r
         /\ \A i, j \in DOMAIN rows : rows[i] = rows[j] => i = j
<1>1. ASSUME NEW i \in DOMAIN rows, NEW j \in DOMAIN rows, rows[i].id = rows[j].id PROVE i = j
  <2>1. DOMAIN rows = 1..Len(rows) /\ rows[i] \in AllRows /\ rows[j] \in AllRows
    BY DEF RowsOK
  <2>2. rows[i].id \in Nat /\ rows[j].id \in Nat
    BY <2>1, Stamps
  <2>3. ~(i < j) /\ ~(j < i)
    BY <1>1, <2>2 DEF RowsOK, Ordered
  <2> QED
    BY <2>1, <2>3
<1> QED
  BY <1>1 DEF ToSet

LEMMA SortedRows ==
  ASSUME RowsOK, NEW S \in SUBSET ToSet(rows), NEW order \in {Bytewise, Collated}
  PROVE  Newest(Sorted(order, S), S)
<1> DEFINE s == Sorted(order, S)
           n == Cardinality(S)
<1>1. \A r \in S : r.title \in Titles /\ r.created \in Nat /\ r.id \in Nat
  BY StoredItems
<1>2. Strict(RowOrder(order, S), S)
  <2>1. order \in [Titles -> Nat]
    BY QueryAssumption
  <2> QED
    BY <1>1, <2>1, RowsById, RowOrderIsStrict
<1>3. Sequenced(s, S, RowOrder(order, S))
  <2>1. IsFiniteSet(S)
    BY RowsFinite, FS_Subset
  <2>2. s = InOrder(S, RowOrder(order, S))
    BY DEF Sorted, RowOrder
  <2> QED
    BY <1>2, <2>1, <2>2, InOrderLists
<1> HIDE DEF s
<1>4. /\ n \in Nat /\ s \in [1..n -> S] /\ \A r \in S : \E i \in 1..n : s[i] = r
      /\ \A i, j \in 1..n : i < j <=> <<s[i], s[j]>> \in RowOrder(order, S)
  BY <1>3 DEF Sequenced
<1>5. ASSUME NEW i \in 1..n, NEW j \in 1..n, i < j
      PROVE  s[i] # s[j] /\ s[i].created >= s[j].created
  <2>1. s[i] \in S /\ s[j] \in S /\ <<s[i], s[j]>> \in RowOrder(order, S)
    BY <1>4, <1>5
  <2>2. s[i].created >= s[j].created
    BY <1>1, <2>1 DEF RowOrder, IsBefore
  <2>3. s[i] # s[j]
    BY <1>2, <2>1 DEF Strict
  <2> QED
    BY <2>2, <2>3
<1>6. \A i, j \in 1..n : i # j => s[i] # s[j]
  <2> TAKE i, j \in 1..n
  <2>1. i # j => i < j \/ j < i
    BY <1>4
  <2> QED
    BY <1>5, <2>1
<1>7. \A i, j \in 1..n : i <= j => s[i].created >= s[j].created
  <2> TAKE i, j \in 1..n
  <2>1. i <= j => i = j \/ i < j
    BY <1>4
  <2>2. s[i].created >= s[i].created
    BY <1>1, <1>4
  <2> QED
    BY <1>5, <2>1, <2>2
<1> QED
  BY <1>4, <1>6, <1>7 DEF Newest, s

(* Two lists of the same rows, newest first, have the same times. *)
LEMMA NoOlder ==
  ASSUME NEW S, \A r \in S : r.created \in Nat, NEW s, Newest(s, S), NEW t, Newest(t, S),
         NEW i \in 1..Cardinality(S)
  PROVE  s[i].created >= t[i].created
<1> DEFINE n == Cardinality(S)
<1>1. /\ n \in Nat /\ s \in [1..n -> S] /\ t \in [1..n -> S]
      /\ \A r \in S : \E k \in 1..n : s[k] = r
  BY DEF Newest
<1>2. SUFFICES ASSUME s[i].created < t[i].created PROVE FALSE
  BY <1>1
<1> DEFINE f == [j \in 1..i |-> CHOOSE k \in 1..n : s[k] = t[j]]
<1>3. ASSUME NEW j \in 1..i PROVE f[j] \in 1..(i - 1) /\ s[f[j]] = t[j]
  <2>1. j \in 1..n /\ j <= i /\ t[j] \in S
    BY <1>1
  <2>2. f[j] \in 1..n /\ s[f[j]] = t[j]
    BY <1>1, <2>1
  <2> HIDE DEF f
  <2>3. t[j].created >= t[i].created
    BY <2>1 DEF Newest
  <2>4. i <= f[j] => s[i].created >= s[f[j]].created
    BY <2>2 DEF Newest
  <2>5. s[i].created \in Nat /\ t[i].created \in Nat /\ t[j].created \in Nat
    BY <1>1, <2>1
  <2>6. ~(i <= f[j])
    BY <1>2, <2>2, <2>3, <2>4, <2>5
  <2> QED
    BY <1>1, <2>2, <2>6
<1>4. f \in [1..i -> 1..(i - 1)]
  BY <1>3
<1> HIDE DEF f
<1>5. /\ IsFiniteSet(1..i) /\ IsFiniteSet(1..(i - 1))
      /\ Cardinality(1..i) = i /\ Cardinality(1..(i - 1)) = i - 1
  <2>1. i \in Int /\ i - 1 \in Int /\ 1 \in Int /\ i >= 1
    BY <1>1
  <2>2. /\ IsFiniteSet(1..i) /\ Cardinality(1..i) = IF 1 > i THEN 0 ELSE i - 1 + 1
        /\ IsFiniteSet(1..(i - 1))
        /\ Cardinality(1..(i - 1)) = IF 1 > i - 1 THEN 0 ELSE i - 1 - 1 + 1
    BY <2>1, FS_Interval
  <2> QED
    BY <2>1, <2>2
<1>6. Cardinality(1..(i - 1)) < Cardinality(1..i)
  BY <1>1, <1>5
<1>7. PICK x, y \in 1..i : x # y /\ f[x] = f[y]
  BY <1>4, <1>5, <1>6, FS_PigeonHole
<1>8. x \in 1..n /\ y \in 1..n /\ t[x] = t[y]
  BY <1>1, <1>3, <1>7
<1> QED
  BY <1>7, <1>8 DEF Newest

LEMMA SameTimes ==
  ASSUME NEW S, \A r \in S : r.created \in Nat, NEW s, Newest(s, S), NEW t, Newest(t, S),
         NEW i \in 1..Cardinality(S)
  PROVE  s[i].created = t[i].created
<1>1. s[i].created >= t[i].created /\ t[i].created >= s[i].created
  BY NoOlder
<1>2. s[i] \in S /\ t[i] \in S
  BY DEF Newest
<1> QED
  BY <1>1, <1>2

LEMMA CutList ==
  ASSUME NEW S, NEW s \in Seq(S), NEW limit \in Nat \union {NoNumber}
  PROVE  LET n == IF limit = NoNumber \/ Len(s) <= limit THEN Len(s) ELSE limit
         IN /\ Cut(s, limit) \in Seq(S) /\ Len(Cut(s, limit)) = n
            /\ n \in 0..Len(s)
            /\ \A i \in 1..n : Cut(s, limit)[i] = s[i]
<1> DEFINE n == IF limit = NoNumber \/ Len(s) <= limit THEN Len(s) ELSE limit
<1>1. Len(s) \in Nat /\ NoNumber \notin Int
  BY SeriesAssumption
<1>2. n \in Nat /\ n <= Len(s)
  BY <1>1
<1>3. CASE limit = NoNumber
  BY <1>1, <1>3 DEF Cut
<1>4. CASE limit # NoNumber
  <2>1. limit \in Nat
    BY <1>4
  <2>2. Min({limit, Len(s)}) = n
    BY <1>1, <1>4, <2>1, MinOfTwo
  <2>3. Cut(s, limit) = SubSeq(s, 1, n)
    BY <1>4, <2>2 DEF Cut
  <2> HIDE DEF n
  <2>4. \A i \in 1..n : s[i] \in S
    BY <1>1, <1>2
  <2>5. /\ SubSeq(s, 1, n) \in Seq(S)
        /\ Len(SubSeq(s, 1, n)) = (IF 1 <= n THEN n - 1 + 1 ELSE 0)
        /\ \A i \in 1..(n - 1 + 1) : SubSeq(s, 1, n)[i] = s[1 + i - 1]
    BY <1>2, <2>4, SubSeqProperties
  <2>6. Len(SubSeq(s, 1, n)) = n
    BY <1>2, <2>5
  <2>7. \A i \in 1..n : SubSeq(s, 1, n)[i] = s[i]
    <3> TAKE i \in 1..n
    <3>1. i \in 1..(n - 1 + 1) /\ 1 + i - 1 = i
      BY <1>2
    <3> QED
      BY <2>5, <3>1
  <2> QED
    BY <1>2, <2>3, <2>5, <2>6, <2>7 DEF n
<1> QED
  BY <1>3, <1>4

LEMMA NewestIsSeq ==
  ASSUME NEW S, NEW s, Newest(s, S)
  PROVE  /\ s \in Seq(S) /\ Len(s) = Cardinality(S) /\ Cardinality(S) \in Nat
         /\ ToSet(s) = S
<1> DEFINE n == Cardinality(S)
<1>1. n \in Nat /\ s \in [1..n -> S] /\ \A r \in S : \E i \in 1..n : s[i] = r
  BY DEF Newest
<1> HIDE DEF n
<1>2. s \in Seq(S) /\ Len(s) = n
  BY <1>1, LengthOfFunction
<1>3. ToSet(s) = S
  BY <1>1 DEF ToSet
<1> QED
  BY <1>2, <1>3 DEF n

(* The first of a list are a list, of as many rows. *)
LEMMA CutNewest ==
  ASSUME NEW S, NEW s, Newest(s, S), NEW limit \in Nat \union {NoNumber}
  PROVE  LET c == Cut(s, limit)
         IN /\ Newest(c, ToSet(c)) /\ ToSet(c) \in SUBSET S
            /\ Cardinality(ToSet(c)) = Len(c)
<1> DEFINE c == Cut(s, limit)
           m == Len(c)
           T == ToSet(c)
           n == Cardinality(S)
<1>1. s \in Seq(S) /\ Len(s) = n /\ n \in Nat
  BY NewestIsSeq
<1>2. /\ c \in Seq(S) /\ m \in 0..n /\ \A i \in 1..m : c[i] = s[i]
  BY <1>1, CutList
<1> HIDE DEF c
<1>3. c \in [1..m -> S] /\ DOMAIN c = 1..m /\ m \in Nat
  BY <1>2
<1>4. \A i \in 1..m : i \in 1..n
  BY <1>1, <1>2
<1>5. /\ \A i, j \in 1..m : i # j => c[i] # c[j]
      /\ \A i, j \in 1..m : i <= j => c[i].created >= c[j].created
  BY <1>2, <1>4 DEF Newest
<1>6. T \in SUBSET S /\ \A r \in T : \E i \in 1..m : c[i] = r
  BY <1>3 DEF ToSet
<1>7. c \in [1..m -> T]
  BY <1>3 DEF ToSet
<1> HIDE DEF T
<1>8. Cardinality(T) = m
  <2>1. c \in Surjection(1..m, T)
    BY <1>6, <1>7 DEF Surjection
  <2>2. c \in Injection(1..m, T)
    BY <1>5, <1>7 DEF Injection, IsInjective
  <2>3. IsFiniteSet(1..m) /\ Cardinality(1..m) = m
    <3>1. 1 \in Int /\ m \in Int
      BY <1>3
    <3>2. IsFiniteSet(1..m) /\ Cardinality(1..m) = IF 1 > m THEN 0 ELSE m - 1 + 1
      BY <3>1, FS_Interval
    <3> QED
      BY <1>3, <3>2
  <2> QED
    BY <2>1, <2>2, <2>3, FS_Surjection
<1>9. Newest(c, T)
  BY <1>3, <1>5, <1>6, <1>7, <1>8 DEF Newest
<1> QED
  BY <1>6, <1>8, <1>9 DEF T, c, m

TimesOf(list) == [i \in DOMAIN list |-> list[i].created]

(* A list of as many rows, with their times, has the first of the times. *)
LEMMA TimesCut ==
  ASSUME NEW S, \A r \in S : r.created \in Nat, NEW s, Newest(s, S),
         NEW limit \in Nat \union {NoNumber},
         NEW T \in SUBSET S, NEW t, Newest(t, T), Len(t) = Len(Cut(s, limit)),
         \A i \in 1..Len(t) : t[i].created = s[i].created
  PROVE  TimesOf(t) = Cut(TimesOf(s), limit)
<1> DEFINE n == Len(s)
           m == Len(t)
           short == Cut(TimesOf(s), limit)
<1>1. /\ s \in Seq(S) /\ n = Cardinality(S) /\ n \in Nat
      /\ t \in Seq(T) /\ m = Cardinality(T) /\ m \in Nat
  BY NewestIsSeq
<1>2. TimesOf(s) \in Seq(Nat) /\ Len(TimesOf(s)) = n
      /\ \A i \in 1..n : TimesOf(s)[i] = s[i].created
  <2>1. TimesOf(s) \in [1..n -> Nat]
    BY <1>1 DEF TimesOf
  <2>2. \A i \in 1..n : TimesOf(s)[i] = s[i].created
    BY <1>1 DEF TimesOf
  <2> HIDE DEF n
  <2> QED
    BY <1>1, <2>1, <2>2, LengthOfFunction
<1>3. TimesOf(t) \in Seq(Nat) /\ Len(TimesOf(t)) = m
      /\ \A i \in 1..m : TimesOf(t)[i] = t[i].created
  <2>1. TimesOf(t) \in [1..m -> Nat]
    BY <1>1 DEF TimesOf
  <2>2. \A i \in 1..m : TimesOf(t)[i] = t[i].created
    BY <1>1 DEF TimesOf
  <2> HIDE DEF m
  <2> QED
    BY <1>1, <2>1, <2>2, LengthOfFunction
<1>4. /\ m = (IF limit = NoNumber \/ n <= limit THEN n ELSE limit) /\ m \in 0..n
  BY <1>1, CutList
<1>5. /\ short \in Seq(Nat) /\ Len(short) = m /\ \A i \in 1..m : short[i] = TimesOf(s)[i]
  BY <1>2, <1>4, CutList
<1> HIDE DEF short, n, m
<1>6. \A i \in 1..m : short[i] = TimesOf(t)[i]
  <2> TAKE i \in 1..m
  <2>1. i \in 1..n
    BY <1>1, <1>4
  <2>2. t[i].created = s[i].created
    BY DEF m
  <2> QED
    BY <1>2, <1>3, <1>5, <2>1, <2>2
<1>7. TimesOf(t) = short
  BY <1>3, <1>5, <1>6, SeqEqual
<1> QED
  BY <1>7 DEF short

(* Service.List of what a repository lists has the times of the whole list, as
   many as there is room for, and the whole list if there is room for all. *)
LEMMA ListOfFirst ==
  ASSUME RowsOK, NEW S \in SUBSET ToSet(rows), NEW order \in {Bytewise, Collated},
         NEW limit \in Nat \union {NoNumber}, NEW o, o.limit = limit
  PROVE  LET list == List(o, ToSet(Cut(Sorted(order, S), limit)))
             all  == Sorted(Bytewise, S)
         IN /\ TimesOf(list) = Cut(TimesOf(all), limit)
            /\ limit = NoNumber => list = all
<1> DEFINE first == Cut(Sorted(order, S), limit)
           T == ToSet(first)
           again == Sorted(Bytewise, T)
           all == Sorted(Bytewise, S)
           sorted == Sorted(order, S)
<1>1. Newest(sorted, S) /\ Newest(all, S) /\ \A r \in S : r.created \in Nat
  BY SortedRows, StoredItems
<1>2. Newest(first, T) /\ T \in SUBSET S /\ Cardinality(T) = Len(first)
  BY <1>1, CutNewest
<1>3. Newest(again, T)
  BY <1>2, SortedRows
<1>4. List(o, T) = Cut(again, limit)
  BY DEF List
<1>5. /\ sorted \in Seq(S) /\ all \in Seq(S) /\ again \in Seq(T)
      /\ Len(sorted) = Len(all) /\ Len(again) = Len(first) /\ Len(sorted) \in Nat
      /\ ToSet(sorted) = S
  BY <1>1, <1>2, <1>3, NewestIsSeq
<1>6. /\ Len(first) = (IF limit = NoNumber \/ Len(sorted) <= limit THEN Len(sorted) ELSE limit)
      /\ Len(first) \in 0..Len(sorted)
      /\ \A i \in 1..Len(first) : first[i] = sorted[i]
      /\ Len(Cut(all, limit)) = Len(first)
  BY <1>5, CutList
<1>7. Cut(again, limit) = again
  <2> DEFINE cut == Cut(again, limit)
  <2>1. /\ cut \in Seq(T) /\ Len(cut) = Len(again)
        /\ \A i \in 1..Len(again) : cut[i] = again[i]
    <3>1. limit = NoNumber \/ Len(again) <= limit
      BY <1>5, <1>6
    <3> QED
      BY <1>5, <3>1, CutList
  <2> HIDE DEF cut, again, T
  <2>2. cut = again
    BY <1>5, <2>1, SeqEqual
  <2> QED
    BY <2>2 DEF cut
<1>8. ASSUME NEW i \in 1..Len(again) PROVE again[i].created = all[i].created
  <2>1. i \in 1..Cardinality(T) /\ i \in 1..Cardinality(S) /\ first[i] = sorted[i]
    BY <1>1, <1>2, <1>5, <1>6, NewestIsSeq
  <2>2. again[i].created = first[i].created
    BY <1>1, <1>2, <1>3, <2>1, SameTimes
  <2>3. sorted[i].created = all[i].created
    BY <1>1, <2>1, SameTimes
  <2> QED
    BY <2>1, <2>2, <2>3
<1>9. TimesOf(again) = Cut(TimesOf(all), limit)
  BY <1>1, <1>2, <1>3, <1>5, <1>6, <1>8, TimesCut
<1>10. limit = NoNumber => T = S
  BY <1>5 DEF Cut
<1> QED
  BY <1>4, <1>7, <1>9, <1>10

(* The rows the statement of the database selects. *)
Selected(o) == {r \in ToSet(rows) : Clauses(o, r)}

LEMMA MemoryLists ==
  ASSUME RowsOK, NEW o, Asked(o), \A r \in ownedItems(o.owner) : ReadAlike(o, r.title),
         o.limit \in Nat \union {NoNumber}
  PROVE  MemoryList(o) = ToSet(Cut(Sorted(Bytewise, Selected(o)), o.limit))
<1> DEFINE found == {r \in ownedItems(o.owner) : MemoryMatches(o, r)}
           all == Sorted(Bytewise, found)
           limit == o.limit
<1>1. found = Selected(o)
  <2>1. ASSUME NEW r \in ToSet(rows)
        PROVE  r \in found <=> r \in Selected(o)
    <3>1. r.title \in Titles /\ r.placed \in BOOLEAN
      BY StoredItems
    <3>2. r.owner = o.owner => ReadAlike(o, r.title)
      BY DEF ownedItems
    <3>3. Clauses(o, r) <=> r.owner = o.owner /\ MemoryMatches(o, r)
      BY <3>1, <3>2, FiltersOfOptions
    <3> QED
      BY <3>3 DEF ownedItems, Selected
  <2>2. found \in SUBSET ToSet(rows) /\ Selected(o) \in SUBSET ToSet(rows)
    BY DEF ownedItems, Selected
  <2> QED
    BY <2>1, <2>2
<1>2. MemoryList(o) = IF limit # NoNumber /\ Cardinality(found) > limit
                      THEN ToSet(Cut(all, limit)) ELSE found
  BY DEF MemoryList
<1>3. found \in SUBSET ToSet(rows)
  BY DEF ownedItems
<1>4. /\ all \in Seq(found) /\ Len(all) = Cardinality(found) /\ Cardinality(found) \in Nat
      /\ ToSet(all) = found
  BY <1>3, SortedRows, NewestIsSeq
<1>5. CASE limit # NoNumber /\ Cardinality(found) > limit
  BY <1>1, <1>2, <1>5
<1>6. CASE ~(limit # NoNumber /\ Cardinality(found) > limit)
  <2>1. limit = NoNumber \/ Len(all) <= limit
    BY <1>4, <1>6
  <2> DEFINE cut == Cut(all, limit)
  <2>2. cut \in Seq(found) /\ Len(cut) = Len(all) /\ \A i \in 1..Len(all) : cut[i] = all[i]
    <3>1. limit \in Nat \union {NoNumber}
      OBVIOUS
    <3> HIDE DEF found, all, limit
    <3> QED
      BY <1>4, <2>1, <3>1, CutList
  <2> HIDE DEF cut, all, found
  <2>3. cut = all
    BY <1>4, <2>2, SeqEqual
  <2>4. MemoryList(o) = found /\ ToSet(cut) = found
    BY <1>2, <1>4, <1>6, <2>3
  <2> QED
    BY <1>1, <2>4 DEF cut, all, found
<1> QED
  BY <1>5, <1>6

LEMMA AnswersOfLists ==
  ASSUME RowsOK, NEW o, Asked(o), o.limit \in Nat \union {NoNumber},
         NEW list,
         \/ list = List(o, PostgresList(o))
         \/ list = List(o, MemoryList(o)) /\ \A r \in ownedItems(o.owner) : ReadAlike(o, r.title)
  PROVE  /\ TimesOf(list) = Cut(TimesOf(Sorted(Bytewise, Selected(o))), o.limit)
         /\ o.limit = NoNumber => list = Sorted(Bytewise, Selected(o))
<1>1. PICK order \in {Bytewise, Collated} :
        list = List(o, ToSet(Cut(Sorted(order, Selected(o)), o.limit)))
  <2>1. CASE list = List(o, PostgresList(o))
    BY <2>1 DEF PostgresList, Selected
  <2>2. CASE list = List(o, MemoryList(o)) /\ \A r \in ownedItems(o.owner) : ReadAlike(o, r.title)
    BY <2>2, MemoryLists
  <2> QED
    BY <2>1, <2>2
<1>2. Selected(o) \in SUBSET ToSet(rows)
  BY DEF Selected
<1> QED
  BY <1>1, <1>2, ListOfFirst

LEMMA SameByIDs ==
  ASSUME RowsOK, NEW ids, NEW owner
  PROVE  TimesOf(MemoryByIDs(ids, owner)) = TimesOf(PostgresByIDs(ids, owner))
<1> DEFINE S == {r \in ToSet(rows) : r.id \in ToSet(ids) /\ r.owner = owner}
           s == Sorted(Bytewise, S)
           t == Sorted(Collated, S)
<1>1. MemoryByIDs(ids, owner) = s
  <2>1. {r \in ToSet(rows) : \E i \in DOMAIN ids : ids[i] = r.id /\ r.owner = owner} = S
    BY DEF ToSet
  <2> QED
    BY <2>1 DEF MemoryByIDs
<1>2. PostgresByIDs(ids, owner) = t
  BY DEF PostgresByIDs
<1>3. S \in SUBSET ToSet(rows)
  OBVIOUS
<1>4. \A r \in S : r.created \in Nat
  BY StoredItems
<1> HIDE DEF S
<1>5. Newest(s, S) /\ Newest(t, S)
  BY <1>3, SortedRows
<1> HIDE DEF s, t
<1>6. DOMAIN s = 1..Cardinality(S) /\ DOMAIN t = 1..Cardinality(S)
  BY <1>5 DEF Newest
<1>7. \A i \in 1..Cardinality(S) : s[i].created = t[i].created
  BY <1>4, <1>5, SameTimes
<1>8. TimesOf(s) = TimesOf(t)
  BY <1>6, <1>7 DEF TimesOf
<1> QED
  BY <1>1, <1>2, <1>8

(* The options the parser makes of a good query string, and those without
   their limit. *)
Accepted(q) ==
  /\ q.type \in {"", "book", "game", "movie", "music"}
  /\ q.status \in {"", "none", "read", "reading", "want_to_read"}
  /\ q.shelf_status \in {"", "on", "off", "all"}
  /\ q.letter \in Letters \union {"", "#"} /\ q.query \in Searches \union {""}
  /\ q.limit \in {NoNumber} \union 1..maxListLimit

LEMMA Parsed ==
  ASSUME NEW q, Accepted(q)
  PROVE  LET o == parseListOptions(q)
             any == [o EXCEPT !.limit = NoNumber]
         IN /\ Asked(o) /\ o.query = (IF q.query = "" THEN Unset ELSE q.query)
            /\ o.owner = q.owner /\ o.limit = q.limit /\ Asked(any) /\ any.limit = NoNumber
            /\ Selected(any) = Selected(o)
<1> DEFINE o == parseListOptions(q)
           any == [o EXCEPT !.limit = NoNumber]
           Set(raw) == IF raw = "" THEN Unset ELSE raw
           shelf == IF q.shelf_status = "all" THEN Unset ELSE Set(q.shelf_status)
<1>1. o = [owner |-> q.owner, type |-> Set(q.type), status |-> Set(q.status),
           letter |-> Set(q.letter), query |-> Set(q.query), limit |-> q.limit,
           shelf |-> shelf]
  BY DEF parseListOptions, Accepted
<1>2. /\ Set(q.type) \in {Unset, "book", "game", "movie", "music"}
      /\ Set(q.status) \in {Unset, "none", "read", "reading", "want_to_read"}
      /\ shelf \in {Unset, "on", "off"}
      /\ Set(q.letter) \in Letters \union {Unset, "#"}
      /\ Set(q.query) \in Searches \union {Unset}
  BY DEF Accepted
<1>3. Set(q.query) = IF q.query = "" THEN Unset ELSE q.query
  OBVIOUS
<1> HIDE DEF o, Set, shelf
<1>4. /\ o.type = Set(q.type) /\ o.status = Set(q.status) /\ o.letter = Set(q.letter)
      /\ o.query = Set(q.query) /\ o.shelf = shelf /\ o.limit = q.limit
      /\ o.owner = q.owner
  BY <1>1
<1>5. /\ any.owner = o.owner /\ any.type = o.type /\ any.status = o.status
      /\ any.letter = o.letter /\ any.query = o.query /\ any.shelf = o.shelf
      /\ any.limit = NoNumber
  BY <1>1
<1> HIDE DEF any
<1>6. Asked(o) /\ Asked(any)
  BY <1>2, <1>4, <1>5 DEF Asked
<1>7. \A r : Clauses(any, r) <=> Clauses(o, r)
  BY <1>5 DEF Clauses
<1>8. Selected(any) = Selected(o)
  BY <1>7 DEF Selected
<1> QED
  BY <1>3, <1>4, <1>5, <1>6, <1>8 DEF o, any

LEMMA Limits ==
  ASSUME NEW limit \in {NoNumber, 1}
  PROVE  limit \in Nat \union {NoNumber} /\ limit \in {NoNumber} \union 1..maxListLimit
<1>1. 1 \in Nat /\ 1 \in 1..maxListLimit
  BY DEF maxListLimit
<1>2. limit = NoNumber \/ limit = 1
  OBVIOUS
<1> QED
  BY <1>1, <1>2, Zenon

LEMMA AnsweredLists ==
  ASSUME RowsOK, NEW q, q.type = "", q.status \in {"", "none", "read"}, q.letter \in {"", "#"},
         q.query \in Searches \union {""}, q.shelf_status \in {"all", "on", "off"},
         q.limit \in {NoNumber, 1}
  PROVE  LET o == parseListOptions(q)
             any == [o EXCEPT !.limit = NoNumber]
             all == List(any, PostgresList(any))
             alike == \A r \in ownedItems(q.owner) : ReadAlike(o, r.title)
         IN \A list \in {List(o, PostgresList(o))}
                        \union (IF alike THEN {List(o, MemoryList(o))} ELSE {}) :
              TimesOf(list) = Cut(TimesOf(all), q.limit) /\ (q.limit = NoNumber => list = all)
<1> DEFINE o == parseListOptions(q)
           any == [o EXCEPT !.limit = NoNumber]
           all == List(any, PostgresList(any))
           alike == \A r \in ownedItems(q.owner) : ReadAlike(o, r.title)
<1>1. q.limit \in Nat \union {NoNumber} /\ q.limit \in {NoNumber} \union 1..maxListLimit
  BY Limits
<1>2. /\ Asked(o) /\ o.owner = q.owner /\ o.limit = q.limit
      /\ Asked(any) /\ any.limit = NoNumber /\ Selected(any) = Selected(o)
  <2>1. Accepted(q)
    BY <1>1 DEF Accepted
  <2> QED
    BY ONLY <2>1, Parsed
<1> HIDE DEF o, any
<1>3. all = Sorted(Bytewise, Selected(o))
  BY <1>2, AnswersOfLists
<1>4. alike => \A r \in ownedItems(o.owner) : ReadAlike(o, r.title)
  BY <1>2
<1> HIDE DEF all, alike
<1> SUFFICES ASSUME NEW list \in {List(o, PostgresList(o))}
                                \union (IF alike THEN {List(o, MemoryList(o))} ELSE {})
             PROVE  TimesOf(list) = Cut(TimesOf(all), q.limit) /\ (q.limit = NoNumber => list = all)
  BY Zenon DEF o, any, all, alike
<1>5. \/ list = List(o, PostgresList(o))
      \/ list = List(o, MemoryList(o)) /\ \A r \in ownedItems(o.owner) : ReadAlike(o, r.title)
  BY <1>4
<1> QED
  BY <1>1, <1>2, <1>3, <1>5, AnswersOfLists

(* Both repositories list the same items, whatever filters a request sets, if
   they read the owner's titles alike, and a limit leaves out none newer than
   those it keeps; items asked for by ID come in the same order, each once
   (memory_repository.go 145-257, postgres_repository.go 133-233). *)
THEOREM RepositoriesListAlike == Spec => []ListsAgree
<1>1. RowsOK => ListsAgree
  <2> SUFFICES ASSUME RowsOK, NEW owner \in Owners
               PROVE  LET times(list) == [i \in DOMAIN list |-> list[i].created]
    IN /\ \A a, b \in Ids :
            times(MemoryByIDs(<<a, b, a>>, owner)) = times(PostgresByIDs(<<a, b, a>>, owner))
       /\ \A status \in {"", "none", "read"}, letter \in {"", "#"},
             query \in Searches \union {""}, shelf \in {"all", "on", "off"},
             limit \in {NoNumber, 1} :
            LET o == parseListOptions([owner |-> owner, type |-> "", status |-> status,
                       letter |-> letter, query |-> query, shelf_status |-> shelf, limit |-> limit])
                all   == LET any == [o EXCEPT !.limit = NoNumber] IN List(any, PostgresList(any))
                alike == \A r \in ownedItems(owner) : ReadAlike(o, r.title)
            IN \A list \in {List(o, PostgresList(o))}
                           \union (IF alike THEN {List(o, MemoryList(o))} ELSE {}) :
                 /\ times(list) = Cut(times(all), limit)
                 /\ limit = NoNumber => [i \in DOMAIN list |-> list[i].title]
                                       = [i \in DOMAIN all |-> all[i].title]
    BY DEF ListsAgree
  <2> DEFINE times(list) == [i \in DOMAIN list |-> list[i].created]
  <2>1. ASSUME NEW a \in Ids, NEW b \in Ids
        PROVE  times(MemoryByIDs(<<a, b, a>>, owner)) = times(PostgresByIDs(<<a, b, a>>, owner))
    BY SameByIDs DEF TimesOf
  <2>2. ASSUME NEW status \in {"", "none", "read"}, NEW letter \in {"", "#"},
               NEW query \in Searches \union {""}, NEW shelf \in {"all", "on", "off"},
               NEW limit \in {NoNumber, 1}
        PROVE  LET o == parseListOptions([owner |-> owner, type |-> "", status |-> status,
                       letter |-> letter, query |-> query, shelf_status |-> shelf, limit |-> limit])
                all   == LET any == [o EXCEPT !.limit = NoNumber] IN List(any, PostgresList(any))
                alike == \A r \in ownedItems(owner) : ReadAlike(o, r.title)
            IN \A list \in {List(o, PostgresList(o))}
                           \union (IF alike THEN {List(o, MemoryList(o))} ELSE {}) :
                 /\ times(list) = Cut(times(all), limit)
                 /\ limit = NoNumber => [i \in DOMAIN list |-> list[i].title]
                                       = [i \in DOMAIN all |-> all[i].title]
    <3> DEFINE q == [owner |-> owner, type |-> "", status |-> status, letter |-> letter,
                     query |-> query, shelf_status |-> shelf, limit |-> limit]
               o == parseListOptions(q)
               all == LET any == [o EXCEPT !.limit = NoNumber] IN List(any, PostgresList(any))
               alike == \A r \in ownedItems(owner) : ReadAlike(o, r.title)
    <3>1. /\ q.type = "" /\ q.status \in {"", "none", "read"} /\ q.letter \in {"", "#"}
          /\ q.query \in Searches \union {""} /\ q.shelf_status \in {"all", "on", "off"}
          /\ q.limit \in {NoNumber, 1} /\ q.owner = owner /\ q.limit = limit
      OBVIOUS
    <3> HIDE DEF q
    <3>2. \A list \in {List(o, PostgresList(o))}
                      \union (IF alike THEN {List(o, MemoryList(o))} ELSE {}) :
            TimesOf(list) = Cut(TimesOf(all), limit) /\ (limit = NoNumber => list = all)
      BY <3>1, AnsweredLists
    <3> QED
      BY <3>2 DEF TimesOf, q
  <2> QED
    BY <2>1, <2>2
<1> QED
  BY <1>1, RowsHold, PTL

------------------------------------------------------------------------------
(* The options of the histogram, and of the list a letter opens. *)
Counting(o) ==
  /\ o.type \in {Unset, "book", "game"} /\ o.status \in {Unset, "none", "read"}
  /\ o.letter = Unset /\ o.query = Unset /\ o.shelf = Unset
  /\ [o EXCEPT !.letter = Unset, !.query = Unset, !.shelf = Unset] = o

Opening(ol, o, l) ==
  /\ ol.owner = o.owner /\ ol.type = o.type /\ ol.status = o.status /\ ol.letter = l
  /\ ol.query = Unset /\ ol.shelf = Unset /\ ol.limit = NoNumber

LEMMA RailOptions ==
  ASSUME NEW owner, NEW type, NEW status, NEW l
  PROVE  LET o == [NoFilter(owner) EXCEPT !.type = type, !.status = status]
         IN /\ o.owner = owner /\ o.type = type /\ o.status = status
            /\ type \in {Unset, "book", "game"} /\ status \in {Unset, "none", "read"} => Counting(o)
            /\ Opening([o EXCEPT !.letter = l], o, l)
<1> DEFINE o == [NoFilter(owner) EXCEPT !.type = type, !.status = status]
           ol == [o EXCEPT !.letter = l]
           bare == [o EXCEPT !.letter = Unset, !.query = Unset, !.shelf = Unset]
<1>1. o = [owner |-> owner, type |-> type, status |-> status, letter |-> Unset,
           query |-> Unset, shelf |-> Unset, limit |-> NoNumber]
  <2> DEFINE typed == [NoFilter(owner) EXCEPT !.type = type]
  <2>1. typed = [owner |-> owner, type |-> type, status |-> Unset, letter |-> Unset,
                 query |-> Unset, shelf |-> Unset, limit |-> NoNumber]
    BY DEF NoFilter
  <2>2. o = [typed EXCEPT !.status = status]
    OBVIOUS
  <2> HIDE DEF typed, o
  <2> QED
    BY <2>1, <2>2
<1> HIDE DEF o
<1>2. ol = [owner |-> owner, type |-> type, status |-> status, letter |-> l,
            query |-> Unset, shelf |-> Unset, limit |-> NoNumber]
  BY <1>1
<1>3. bare = o
  <2>1. [o EXCEPT !.letter = Unset] = o
    BY <1>1
  <2>2. [o EXCEPT !.query = Unset] = o
    BY <1>1
  <2>3. [o EXCEPT !.shelf = Unset] = o
    BY <1>1
  <2>4. bare = [[[o EXCEPT !.letter = Unset] EXCEPT !.query = Unset] EXCEPT !.shelf = Unset]
    OBVIOUS
  <2> QED
    BY <2>1, <2>2, <2>3, <2>4
<1> HIDE DEF ol, bare
<1>4. /\ o.owner = owner /\ o.type = type /\ o.status = status
      /\ o.letter = Unset /\ o.query = Unset /\ o.shelf = Unset
  BY <1>1
<1>5. /\ ol.owner = owner /\ ol.type = type /\ ol.status = status /\ ol.letter = l
      /\ ol.query = Unset /\ ol.shelf = Unset /\ ol.limit = NoNumber
  BY <1>2
<1> QED
  BY <1>3, <1>4, <1>5 DEF Counting, Opening, o, ol, bare

(* The rows a histogram counts. *)
CountedBy(o) == {r \in ToSet(rows) : r.owner = o.owner /\ OfType(o, r) /\ OfStatus(o, r)}

LEMMA RailAsked ==
  ASSUME NEW o, Counting(o), NEW l \in Letters \union {"#"}, NEW ol, Opening(ol, o, l)
  PROVE  Asked(ol)
<1>1. /\ o.type \in {Unset, "book", "game"} /\ o.status \in {Unset, "none", "read"}
      /\ ol.type = o.type /\ ol.status = o.status /\ ol.letter = l
      /\ ol.query = Unset /\ ol.shelf = Unset
  BY DEF Counting, Opening
<1> QED
  BY <1>1 DEF Asked

LEMMA RailFilters ==
  ASSUME NEW o, NEW l, NEW ol, Opening(ol, o, l), NEW r
  PROVE  Besides(ol, r) <=> OfType(o, r) /\ OfStatus(o, r)
<1>1. ol.type = o.type /\ ol.status = o.status /\ ol.shelf = Unset
  BY DEF Opening
<1> QED
  BY <1>1 DEF Besides, OfType, OfStatus, OnShelf

(* The list a letter opens, in either repository, has the rows counted under
   that letter as the same repository files titles. *)
LEMMA MemoryLetterRows ==
  ASSUME RowsOK, NEW o, Counting(o), NEW l \in Letters \union {"#"}, NEW ol, Opening(ol, o, l)
  PROVE  Len(List(ol, MemoryList(ol)))
           = Cardinality({r \in CountedBy(o) : extractFirstLetter(r.title) = l})
<1> DEFINE found == {r \in ownedItems(ol.owner) : MemoryMatches(ol, r)}
           counted == {r \in CountedBy(o) : extractFirstLetter(r.title) = l}
<1>1. /\ Asked(ol) /\ ol.limit = NoNumber /\ ol.owner = o.owner /\ ol.letter = l
      /\ ol.query = Unset /\ l # Unset
  <2>1. l # Unset
    BY QueryAssumption DEF Unset
  <2>2. Asked(ol)
    BY RailAsked
  <2> QED
    BY <2>1, <2>2 DEF Opening
<1>2. \A r : Besides(ol, r) <=> OfType(o, r) /\ OfStatus(o, r)
  BY RailFilters
<1>3. List(ol, MemoryList(ol)) = Sorted(Bytewise, found)
  BY <1>1 DEF List, MemoryList, Cut
<1>4. ASSUME NEW r \in ToSet(rows)
      PROVE  r \in found <=> r \in counted
  <2>1. r.title \in Titles /\ r.placed \in BOOLEAN
    BY StoredItems
  <2>2. MemoryMatches(ol, r) <=> Besides(ol, r) /\ extractFirstLetter(r.title) = l
    BY <1>1, <2>1, FiltersOfOptions
  <2> QED
    BY <1>1, <1>2, <2>2 DEF ownedItems, CountedBy
<1>5. found \in SUBSET ToSet(rows) /\ counted \in SUBSET ToSet(rows)
  BY DEF ownedItems, CountedBy
<1>6. found = counted
  BY <1>4, <1>5
<1>7. Len(Sorted(Bytewise, found)) = Cardinality(found)
  BY <1>5, SortedRows, NewestIsSeq
<1> QED
  BY <1>3, <1>6, <1>7

LEMMA PostgresLetterRows ==
  ASSUME RowsOK, NEW o, Counting(o), NEW l \in Letters \union {"#"}, NEW ol, Opening(ol, o, l)
  PROVE  Len(List(ol, PostgresList(ol)))
           = Cardinality({r \in CountedBy(o) : LetterSQL(r.title) = l})
<1> DEFINE counted == {r \in CountedBy(o) : LetterSQL(r.title) = l}
<1>1. /\ Asked(ol) /\ ol.limit = NoNumber /\ ol.owner = o.owner /\ ol.letter = l
      /\ ol.query = Unset /\ l # Unset
  <2>1. l # Unset
    BY QueryAssumption DEF Unset
  <2>2. Asked(ol)
    BY RailAsked
  <2> QED
    BY <2>1, <2>2 DEF Opening
<1>2. \A r : Besides(ol, r) <=> OfType(o, r) /\ OfStatus(o, r)
  BY RailFilters
<1>3. List(ol, PostgresList(ol)) = Sorted(Bytewise, Selected(ol))
  BY <1>1, AnswersOfLists
<1>4. ASSUME NEW r \in ToSet(rows)
      PROVE  r \in Selected(ol) <=> r \in counted
  <2>1. r.title \in Titles /\ r.placed \in BOOLEAN
    BY StoredItems
  <2>2. Clauses(ol, r) <=> r.owner = o.owner /\ Besides(ol, r) /\ LetterSQL(r.title) = l
    BY <1>1, <2>1, FiltersOfOptions
  <2> QED
    BY <1>2, <2>2 DEF Selected, CountedBy
<1>5. Selected(ol) \in SUBSET ToSet(rows) /\ counted \in SUBSET ToSet(rows)
  BY DEF Selected, CountedBy
<1>6. Selected(ol) = counted
  BY <1>4, <1>5
<1>7. Len(Sorted(Bytewise, Selected(ol))) = Cardinality(Selected(ol))
  BY <1>5, SortedRows, NewestIsSeq
<1> QED
  BY <1>3, <1>6, <1>7

LEMMA CountedRows ==
  ASSUME RowsOK, NEW o, Counting(o)
  PROVE  /\ MemoryHistogram(o) = [l \in {extractFirstLetter(r.title) : r \in CountedBy(o)} |->
                Cardinality({r \in CountedBy(o) : extractFirstLetter(r.title) = l})]
         /\ PostgresHistogram(o) = [l \in {LetterSQL(r.title) : r \in CountedBy(o)} |->
                Cardinality({r \in CountedBy(o) : LetterSQL(r.title) = l})]
<1> DEFINE bare == [o EXCEPT !.letter = Unset, !.query = Unset, !.shelf = Unset]
<1>1. /\ o.type \in {Unset, "book", "game"} /\ o.status \in {Unset, "none", "read"}
      /\ o.letter = Unset /\ o.query = Unset /\ o.shelf = Unset /\ bare = o
  BY DEF Counting
<1>2. Asked(o)
  BY <1>1 DEF Asked
<1>3. ASSUME NEW r \in ToSet(rows) PROVE Clauses(o, r) <=> r \in CountedBy(o)
  <2>1. r.title \in Titles /\ r.placed \in BOOLEAN
    BY StoredItems
  <2>2. Clauses(o, r) <=> r.owner = o.owner /\ Besides(o, r)
    BY <1>1, <1>2, <2>1, FiltersOfOptions
  <2>3. OnShelf(o, r)
    BY <1>1 DEF OnShelf
  <2> QED
    BY <2>2, <2>3 DEF Besides, CountedBy
<1>4. {r \in ToSet(rows) : Clauses(bare, r)} = CountedBy(o)
  <2>1. \A r \in ToSet(rows) : Clauses(bare, r) <=> r \in CountedBy(o)
    BY <1>1, <1>3
  <2>2. CountedBy(o) \subseteq ToSet(rows)
    BY DEF CountedBy
  <2> HIDE DEF bare
  <2> QED
    BY <2>1, <2>2
<1>5. {r \in ownedItems(o.owner) : OfType(o, r) /\ OfStatus(o, r)} = CountedBy(o)
  BY DEF ownedItems, CountedBy
<1>6. PostgresHistogram(o) = [l \in {LetterSQL(r.title) : r \in CountedBy(o)} |->
                                Cardinality({r \in CountedBy(o) : LetterSQL(r.title) = l})]
  BY <1>4, Zenon DEF PostgresHistogram
<1>7. MemoryHistogram(o) = [l \in {extractFirstLetter(r.title) : r \in CountedBy(o)} |->
                Cardinality({r \in CountedBy(o) : extractFirstLetter(r.title) = l})]
  BY <1>5, Zenon DEF MemoryHistogram
<1> QED
  BY <1>6, <1>7

(* The letter rail's counts are the lengths of the lists its letters open, in
   either repository, whatever titles there are and however their letters are
   written: a title no letter of the rail opens is counted, and listed, under
   "#" (memory_repository.go 354-404, postgres_repository.go 320-394). *)
THEOREM CountsAreLengths == Spec => []HistogramCountsLists
<1>1. RowsOK => HistogramCountsLists
  <2> SUFFICES ASSUME RowsOK, NEW owner \in Owners, NEW type \in {Unset, "book", "game"},
                      NEW status \in {Unset, "none", "read"}, NEW l \in Letters \union {"#"}
               PROVE  LET o == [NoFilter(owner) EXCEPT !.type = type, !.status = status]
                          opened   == [o EXCEPT !.letter = l]
                          Count(h) == IF l \in DOMAIN h THEN h[l] ELSE 0
                      IN /\ Len(List(opened, MemoryList(opened))) = Count(MemoryHistogram(o))
                         /\ Len(List(opened, PostgresList(opened))) = Count(PostgresHistogram(o))
    BY DEF HistogramCountsLists
  <2> DEFINE o == [NoFilter(owner) EXCEPT !.type = type, !.status = status]
             opened == [o EXCEPT !.letter = l]
             Count(h) == IF l \in DOMAIN h THEN h[l] ELSE 0
  <2>1. Counting(o) /\ Opening(opened, o, l)
    BY RailOptions
  <2> HIDE DEF o, opened
  <2>2. Len(List(opened, MemoryList(opened))) = Count(MemoryHistogram(o))
    <3> DEFINE selected == {r \in CountedBy(o) : extractFirstLetter(r.title) = l}
               h == MemoryHistogram(o)
    <3>1. h = [k \in {extractFirstLetter(r.title) : r \in CountedBy(o)} |->
                 Cardinality({r \in CountedBy(o) : extractFirstLetter(r.title) = k})]
      BY <2>1, CountedRows
    <3>2. Len(List(opened, MemoryList(opened))) = Cardinality(selected)
      BY <2>1, MemoryLetterRows
    <3>3. CASE l \in DOMAIN h
      BY <3>1, <3>2, <3>3
    <3>4. CASE l \notin DOMAIN h
      <4>1. selected = {}
        BY <3>1, <3>4
      <4> QED
        BY <3>2, <3>4, <4>1, FS_EmptySet
    <3> QED
      BY <3>3, <3>4
  <2>3. Len(List(opened, PostgresList(opened))) = Count(PostgresHistogram(o))
    <3> DEFINE selected == {r \in CountedBy(o) : LetterSQL(r.title) = l}
               h == PostgresHistogram(o)
    <3>1. h = [k \in {LetterSQL(r.title) : r \in CountedBy(o)} |->
                 Cardinality({r \in CountedBy(o) : LetterSQL(r.title) = k})]
      BY <2>1, CountedRows
    <3>2. Len(List(opened, PostgresList(opened))) = Cardinality(selected)
      BY <2>1, PostgresLetterRows
    <3>3. CASE l \in DOMAIN h
      BY <3>1, <3>2, <3>3
    <3>4. CASE l \notin DOMAIN h
      <4>1. selected = {}
        BY <3>1, <3>4
      <4> QED
        BY <3>2, <3>4, <4>1, FS_EmptySet
    <3> QED
      BY <3>3, <3>4
  <2> QED
    BY <2>2, <2>3, Zenon DEF o, opened
<1> QED
  BY <1>1, RowsHold, PTL

------------------------------------------------------------------------------
(* The duplicate check of the in-memory repository. *)
LEMMA FirstOfMany ==
  ASSUME RowsOK, NEW places \in SUBSET DOMAIN rows, NEW limit \in Nat
  PROVE  LET all == {rows[i] : i \in places}
         IN /\ First(places, limit) \subseteq all
            /\ First(places, limit) = all \/ Cardinality(First(places, limit)) = limit
<1> DEFINE n == Cardinality(places)
           s == Increasing(places)
           kept == {j \in places : Cardinality({k \in places : k < j}) < limit}
           first == {rows[i] : i \in kept}
<1>1. DOMAIN rows = 1..Len(rows) /\ Len(rows) \in Nat
  BY DEF RowsOK
<1>2. IsFiniteSet(places) /\ places \in SUBSET Int
  <2>1. Len(rows) \in Int /\ 1 \in Int
    BY <1>1
  <2>2. IsFiniteSet(DOMAIN rows)
    BY <1>1, <2>1, FS_Interval
  <2> QED
    BY <1>1, <2>2, FS_Subset
<1>3. Sequenced(s, places, Less(places))
  BY <1>2, InOrderLists, LessIsStrict DEF Increasing
<1>4. \A j \in places : Before(j, places, Less(places)) = {k \in places : k < j}
  BY DEF Before, Less
<1> HIDE DEF s
<1>5. /\ n \in Nat /\ s \in [1..n -> places]
      /\ \A j \in places : \E m \in 1..n : s[m] = j
      /\ \A m \in 1..n : Cardinality({k \in places : k < s[m]}) = m - 1
      /\ \A i, j \in 1..n : i < j <=> <<s[i], s[j]>> \in Less(places)
  BY <1>3, <1>4 DEF Sequenced
<1>6. \A m \in 1..n : s[m] \in kept <=> m <= limit
  <2> TAKE m \in 1..n
  <2>1. s[m] \in kept <=> Cardinality({k \in places : k < s[m]}) < limit
    BY <1>5
  <2>2. Cardinality({k \in places : k < s[m]}) = m - 1
    BY <1>5
  <2>3. m - 1 < limit <=> m <= limit
    BY <1>5
  <2> HIDE DEF kept
  <2> QED
    BY <2>1, <2>2, <2>3
<1>7. First(places, limit) = first
  BY DEF First
<1>8. CASE n <= limit
  <2>1. kept = places
    <3>1. \A j \in places : j \in kept
      <4> TAKE j \in places
      <4>1. PICK m \in 1..n : s[m] = j
        BY <1>5
      <4>2. m <= limit
        BY <1>5, <1>8
      <4> HIDE DEF kept
      <4> QED
        BY <1>6, <4>1, <4>2
    <3> QED
      BY <3>1
  <2> QED
    BY <1>7, <2>1
<1>9. CASE ~(n <= limit)
  <2> DEFINE f == [m \in 1..limit |-> rows[s[m]]]
  <2>1. \A m \in 1..limit : m \in 1..n /\ m <= limit
    BY <1>5, <1>9
  <2>2. \A m \in 1..limit : s[m] \in kept
    BY <1>6, <2>1
  <2>3. ASSUME NEW j \in kept PROVE \E m \in 1..limit : s[m] = j
    <3>1. PICK m \in 1..n : s[m] = j
      BY <1>5
    <3>2. m <= limit
      BY <1>6, <2>3, <3>1
    <3> QED
      BY <1>5, <3>1, <3>2
  <2> HIDE DEF kept
  <2>4. f \in Surjection(1..limit, first)
    <3>1. f \in [1..limit -> first]
      BY <2>2
    <3>2. \A r \in first : \E m \in 1..limit : f[m] = r
      BY <2>3
    <3> QED
      BY <3>1, <3>2 DEF Surjection
  <2>5. f \in Injection(1..limit, first)
    <3>1. ASSUME NEW i \in 1..limit, NEW j \in 1..limit, f[i] = f[j] PROVE i = j
      <4>1. i \in 1..n /\ j \in 1..n /\ s[i] \in places /\ s[j] \in places
        BY <1>5, <2>1
      <4>2. rows[s[i]] = rows[s[j]]
        BY <3>1
      <4>3. s[i] = s[j]
        BY <4>1, <4>2, RowsById
      <4>4. <<s[i], s[i]>> \notin Less(places)
        BY <1>2, <4>1 DEF Less
      <4>5. ~(i < j) /\ ~(j < i)
        BY <1>5, <4>1, <4>3, <4>4
      <4> QED
        BY <4>1, <4>5
    <3>2. f \in [1..limit -> first]
      BY <2>4 DEF Surjection
    <3> HIDE DEF f
    <3> QED
      BY <3>1, <3>2 DEF Injection, IsInjective
  <2>6. IsFiniteSet(1..limit) /\ Cardinality(1..limit) = limit
    <3>1. 1 \in Int /\ limit \in Int
      OBVIOUS
    <3>2. IsFiniteSet(1..limit) /\ Cardinality(1..limit) = IF 1 > limit THEN 0 ELSE limit - 1 + 1
      BY <3>1, FS_Interval
    <3> QED
      BY <3>2
  <2>7. Cardinality(first) = limit
    <3> HIDE DEF f, first
    <3> QED
      BY <2>4, <2>5, <2>6, FS_Surjection
  <2> QED
    BY <1>7, <2>7 DEF kept
<1>10. First(places, limit) \subseteq {rows[i] : i \in places}
  BY <1>7
<1> QED
  BY <1>8, <1>9, <1>10

LEMMA RememberedDuplicates ==
  ASSUME RowsOK, NEW owner, NEW input
  PROVE  LET same == {r \in ToSet(rows) : r.owner = owner /\ IsDuplicate(input, r)}
         IN /\ MemoryDuplicates(input, owner) \subseteq same
            /\ \/ MemoryDuplicates(input, owner) = same
               \/ Cardinality(MemoryDuplicates(input, owner)) = maxMatches
<1> DEFINE same == {r \in ToSet(rows) : r.owner = owner /\ IsDuplicate(input, r)}
           places == {i \in DOMAIN rows : rows[i].owner = owner /\ IsDuplicate(input, rows[i])}
<1>1. {rows[i] : i \in places} = same
  BY DEF ToSet
<1>2. MemoryDuplicates(input, owner) = First(places, maxMatches)
  BY DEF MemoryDuplicates
<1>3. places \in SUBSET DOMAIN rows /\ maxMatches \in Nat
  BY QueryAssumption
<1> HIDE DEF places, same
<1> QED
  BY <1>1, <1>2, <1>3, FirstOfMany DEF same

(* The duplicate check of either repository warns of a title or an ISBN the
   owner has, and of nothing else, and leaves a match out only when there are
   more than it may name (memory_repository.go 409-465,
   postgres_repository.go 399-445). *)
THEOREM DuplicatesFound == Spec => []DuplicatesAreFound
<1>1. RowsOK => DuplicatesAreFound
  <2> SUFFICES ASSUME RowsOK, NEW owner \in Owners, NEW c \in Pool,
                      NEW answer, \/ answer = MemoryDuplicates(c, owner)
                                  \/ PostgresDuplicates(c, owner, answer)
               PROVE  LET same == {r \in ToSet(rows) : r.owner = owner /\ IsDuplicate(c, r)}
                      IN /\ answer \subseteq same
                         /\ answer = same \/ Cardinality(answer) = maxMatches
    BY DEF DuplicatesAreFound
  <2> QED
    BY FoundDuplicates, RememberedDuplicates
<1> QED
  BY <1>1, RowsHold, PTL

------------------------------------------------------------------------------
(* When a scanned code and a saved one name one book. *)
LEMMA SameSums ==
  ASSUME NEW d, NEW e
  PROVE  /\ (\A i \in 1..9 : d[i] = e[i]) => sum10(d) = sum10(e)
         /\ (\A i \in 1..12 : d[i] = e[i]) => sum13(d) = sum13(e)
<1>1. ASSUME \A i \in 1..9 : d[i] = e[i] PROVE sum10(d) = sum10(e)
  <2>1. /\ d[1] = e[1] /\ d[2] = e[2] /\ d[3] = e[3] /\ d[4] = e[4] /\ d[5] = e[5]
        /\ d[6] = e[6] /\ d[7] = e[7] /\ d[8] = e[8] /\ d[9] = e[9]
    BY <1>1
  <2> QED
    BY <2>1 DEF sum10
<1>2. ASSUME \A i \in 1..12 : d[i] = e[i] PROVE sum13(d) = sum13(e)
  <2>1. /\ d[1] = e[1] /\ d[2] = e[2] /\ d[3] = e[3] /\ d[4] = e[4] /\ d[5] = e[5]
        /\ d[6] = e[6] /\ d[7] = e[7] /\ d[8] = e[8] /\ d[9] = e[9]
        /\ d[10] = e[10] /\ d[11] = e[11] /\ d[12] = e[12]
    BY <1>2
  <2> QED
    BY <2>1 DEF sum13
<1> QED
  BY <1>1, <1>2

LEMMA SumsAreNumbers ==
  /\ \A x \in [1..10 -> 0..LetterX] : sum10(x) \in Nat
  /\ \A y \in [1..13 -> 0..LetterX] : sum13(y) \in Nat
<1>1. ASSUME NEW x \in [1..10 -> 0..LetterX] PROVE sum10(x) \in Nat
  <2>1. \A i \in 1..10 : x[i] \in Nat
    BY DEF LetterX
  <2>2. /\ x[1] \in Nat /\ x[2] \in Nat /\ x[3] \in Nat /\ x[4] \in Nat /\ x[5] \in Nat
        /\ x[6] \in Nat /\ x[7] \in Nat /\ x[8] \in Nat /\ x[9] \in Nat
    BY <2>1
  <2> QED
    BY <2>2 DEF sum10
<1>2. ASSUME NEW y \in [1..13 -> 0..LetterX] PROVE sum13(y) \in Nat
  <2>1. \A i \in 1..13 : y[i] \in Nat
    BY DEF LetterX
  <2>2. /\ y[1] \in Nat /\ y[2] \in Nat /\ y[3] \in Nat /\ y[4] \in Nat /\ y[5] \in Nat
        /\ y[6] \in Nat /\ y[7] \in Nat /\ y[8] \in Nat /\ y[9] \in Nat
        /\ y[10] \in Nat /\ y[11] \in Nat /\ y[12] \in Nat
    BY <2>1
  <2> QED
    BY <2>2 DEF sum13
<1> QED
  BY <1>1, <1>2

(* The check digit a sum calls for is the one that makes it whole. *)
LEMMA CheckDigits ==
  ASSUME NEW s \in Nat, NEW c \in 0..LetterX
  PROVE  /\ c = (11 - (s % 11)) % 11 <=> (s + c) % 11 = 0
         /\ c = (10 - (s % 10)) % 10 <=> c # LetterX /\ (s + c) % 10 = 0
BY DEF LetterX

LEMMA FormOf13 ==
  ASSUME NEW x \in [1..10 -> 0..LetterX], NEW y \in [1..13 -> 0..LetterX]
  PROVE  x = isbn13To10(y) <=> (\A i \in 1..9 : x[i] = y[i + 3]) /\ (sum10(x) + x[10]) % 11 = 0
<1> DEFINE body == [i \in 1..9 |-> y[i + 3]]
           digit == (11 - (sum10(body) % 11)) % 11
           g == isbn13To10(y)
<1>1. g = [i \in 1..10 |-> IF i <= 9 THEN body[i] ELSE digit]
  BY DEF isbn13To10
<1> HIDE DEF g, digit
<1>2. (\A i \in 1..9 : g[i] = y[i + 3]) /\ g[10] = digit
  BY <1>1
<1> HIDE DEF body
<1>3. x = g <=> (\A i \in 1..9 : x[i] = g[i]) /\ x[10] = g[10]
  <2>1. DOMAIN g = 1..10 /\ DOMAIN x = 1..10 /\ g = [i \in 1..10 |-> g[i]]
        /\ x = [i \in 1..10 |-> x[i]]
    BY <1>1
  <2>2. \A i \in 1..10 : i \in 1..9 \/ i = 10
    OBVIOUS
  <2> QED
    BY <2>1, <2>2
<1>4. (\A i \in 1..9 : x[i] = y[i + 3]) => sum10(body) = sum10(x)
  <2>1. \A i \in 1..9 : body[i] = y[i + 3]
    BY DEF body
  <2> QED
    BY <2>1, SameSums
<1>5. x[10] = (11 - (sum10(x) % 11)) % 11 <=> (sum10(x) + x[10]) % 11 = 0
  <2>1. sum10(x) \in Nat
    BY SumsAreNumbers
  <2>2. x[10] \in 0..LetterX
    OBVIOUS
  <2> QED
    BY ONLY <2>1, <2>2, CheckDigits
<1> QED
  BY <1>2, <1>3, <1>4, <1>5 DEF digit, g

LEMMA FormOf10 ==
  ASSUME NEW x \in [1..10 -> 0..LetterX], NEW y \in [1..13 -> 0..LetterX]
  PROVE  y = isbn10To13(x) <=> /\ \A i \in 1..3 : y[i] = Prefix978[i]
                               /\ \A i \in 1..9 : x[i] = y[i + 3]
                               /\ y[13] # LetterX /\ (sum13(y) + y[13]) % 10 = 0
<1> DEFINE body == [i \in 1..12 |-> IF i <= 3 THEN Prefix978[i] ELSE x[i - 3]]
           digit == (10 - (sum13(body) % 10)) % 10
           g == isbn10To13(x)
<1>1. g = [i \in 1..13 |-> IF i <= 12 THEN body[i] ELSE digit]
  BY DEF isbn10To13
<1> HIDE DEF g, digit
<1>2. (\A i \in 1..12 : g[i] = body[i]) /\ g[13] = digit
  BY <1>1
<1>3. (\A i \in 1..3 : body[i] = Prefix978[i]) /\ (\A i \in 1..9 : body[i + 3] = x[i])
  <2>1. \A i \in 1..3 : body[i] = Prefix978[i]
    OBVIOUS
  <2>2. ASSUME NEW i \in 1..9 PROVE body[i + 3] = x[i]
    <3>1. i + 3 \in 1..12 /\ ~(i + 3 <= 3) /\ i + 3 - 3 = i
      OBVIOUS
    <3> QED
      BY <3>1
  <2> QED
    BY <2>1, <2>2
<1> HIDE DEF body
<1>4. y = g <=> (\A i \in 1..12 : y[i] = g[i]) /\ y[13] = g[13]
  <2>1. DOMAIN g = 1..13 /\ DOMAIN y = 1..13 /\ g = [i \in 1..13 |-> g[i]]
        /\ y = [i \in 1..13 |-> y[i]]
    BY <1>1
  <2>2. \A i \in 1..13 : i \in 1..12 \/ i = 13
    OBVIOUS
  <2> QED
    BY <2>1, <2>2
<1>5. (\A i \in 1..12 : y[i] = body[i]) <=> /\ \A i \in 1..3 : y[i] = Prefix978[i]
                                            /\ \A i \in 1..9 : x[i] = y[i + 3]
  <2>1. \A i \in 1..3 : i \in 1..12
    OBVIOUS
  <2>2. \A i \in 1..9 : i + 3 \in 1..12
    OBVIOUS
  <2>3. \A i \in 1..12 : i \in 1..3 \/ \E j \in 1..9 : i = j + 3
    <3> TAKE i \in 1..12
    <3>1. CASE i <= 3
      BY <3>1
    <3>2. CASE ~(i <= 3)
      <4>1. i - 3 \in 1..9 /\ i = (i - 3) + 3
        BY <3>2
      <4> QED
        BY <4>1
    <3> QED
      BY <3>1, <3>2
  <2> QED
    BY <1>3, <2>1, <2>2, <2>3
<1>6. (\A i \in 1..12 : y[i] = body[i]) => sum13(body) = sum13(y)
  BY SameSums
<1>7. y[13] = (10 - (sum13(y) % 10)) % 10 <=> y[13] # LetterX /\ (sum13(y) + y[13]) % 10 = 0
  <2>1. sum13(y) \in Nat
    BY SumsAreNumbers
  <2>2. y[13] \in 0..LetterX
    OBVIOUS
  <2> QED
    BY ONLY <2>1, <2>2, CheckDigits
<1> QED
  BY <1>2, <1>4, <1>5, <1>6, <1>7 DEF digit, g

LEMMA KeptCharacters ==
  ASSUME NEW value \in Seq(0..11), NEW last \in Int
  PROVE  Kept(value, last) \in Seq(0..last)
<1> DEFINE P == {i \in DOMAIN value : value[i] <= last}
           at == Increasing(P)
           kept == [n \in DOMAIN at |-> value[at[n]]]
<1>1. DOMAIN value = 1..Len(value) /\ Len(value) \in Nat /\ \A i \in DOMAIN value : value[i] \in Nat
  OBVIOUS
<1>2. IsFiniteSet(P) /\ P \in SUBSET Int
  <2>1. Len(value) \in Int /\ 1 \in Int
    BY <1>1
  <2>2. IsFiniteSet(DOMAIN value) /\ P \in SUBSET DOMAIN value
    BY <1>1, <2>1, FS_Interval
  <2> QED
    BY <1>1, <2>2, FS_Subset
<1>3. \A i \in P : value[i] \in 0..last
  BY <1>1
<1>4. Kept(value, last) = kept
  BY DEF Kept
<1> HIDE DEF P, at
<1>5. at \in [1..Cardinality(P) -> P] /\ Cardinality(P) \in Nat
  BY <1>2, InOrderLists, LessIsStrict DEF Increasing, Sequenced, at
<1>6. kept \in [1..Cardinality(P) -> 0..last]
  BY <1>3, <1>5
<1> QED
  BY <1>4, <1>5, <1>6, LengthOfFunction

LEMMA SeqIsFunction ==
  ASSUME NEW S, NEW s \in Seq(S)
  PROVE  s \in [1..Len(s) -> S] /\ Len(s) \in Nat
BY SeqDef, LenProperties

(* A part of a sequence. *)
LEMMA PartOfSeq ==
  ASSUME NEW S, NEW s \in Seq(S), NEW a \in Nat, NEW b \in Nat, 1 <= a, a <= b, b <= Len(s)
  PROVE  LET part == SubSeq(s, a, b)
         IN /\ part \in Seq(S) /\ Len(part) = b - a + 1
            /\ \A i \in 1..(b - a + 1) : part[i] = s[i + (a - 1)]
<1> DEFINE part == SubSeq(s, a, b)
<1>1. \A i \in a..b : s[i] \in S
  OBVIOUS
<1>2. /\ part \in Seq(S)
      /\ Len(part) = IF a <= b THEN b - a + 1 ELSE 0
      /\ \A i \in 1..(b - a + 1) : part[i] = s[a + i - 1]
  BY <1>1, SubSeqProperties
<1> HIDE DEF part
<1>3. \A i \in 1..(b - a + 1) : a + i - 1 = i + (a - 1)
  OBVIOUS
<1> QED
  BY <1>2, <1>3 DEF part

(* The parts of a key that the comparisons look at. *)
LEMMA Parts ==
  ASSUME NEW S, NEW key \in Seq(S)
  PROVE  /\ Len(key) = 10 =>
              /\ SubSeq(key, 1, 9) \in Seq(S) /\ Len(SubSeq(key, 1, 9)) = 9
              /\ \A i \in 1..9 : SubSeq(key, 1, 9)[i] = key[i]
         /\ Len(key) = 13 =>
              /\ SubSeq(key, 4, 12) \in Seq(S) /\ Len(SubSeq(key, 4, 12)) = 9
              /\ \A i \in 1..9 : SubSeq(key, 4, 12)[i] = key[i + 3]
              /\ SubSeq(key, 1, 3) \in Seq(S) /\ Len(SubSeq(key, 1, 3)) = 3
              /\ \A i \in 1..3 : SubSeq(key, 1, 3)[i] = key[i]
<1>1. ASSUME NEW a \in Nat, NEW b \in Nat, 1 <= a, a <= b, b <= Len(key),
             NEW n \in Nat, n = b - a + 1, NEW shift \in Nat, shift = a - 1
      PROVE  /\ SubSeq(key, a, b) \in Seq(S) /\ Len(SubSeq(key, a, b)) = n
             /\ \A i \in 1..n : SubSeq(key, a, b)[i] = key[i + shift]
  BY ONLY <1>1, PartOfSeq, key \in Seq(S)
<1>2. ASSUME Len(key) = 10
      PROVE  /\ SubSeq(key, 1, 9) \in Seq(S) /\ Len(SubSeq(key, 1, 9)) = 9
             /\ \A i \in 1..9 : SubSeq(key, 1, 9)[i] = key[i]
  <2>1. /\ SubSeq(key, 1, 9) \in Seq(S) /\ Len(SubSeq(key, 1, 9)) = 9
        /\ \A i \in 1..9 : SubSeq(key, 1, 9)[i] = key[i + 0]
    <3>1. PICK a, b, n, shift \in Nat : a = 1 /\ b = 9 /\ n = 9 /\ shift = 0
      OBVIOUS
    <3>2. 1 <= a /\ a <= b /\ b <= Len(key) /\ n = b - a + 1 /\ shift = a - 1
      BY <1>2, <3>1
    <3>3. /\ SubSeq(key, a, b) \in Seq(S) /\ Len(SubSeq(key, a, b)) = n
          /\ \A i \in 1..n : SubSeq(key, a, b)[i] = key[i + shift]
      BY <1>1, <3>2
    <3> QED
      BY <3>1, <3>3
  <2>2. \A i \in 1..9 : i + 0 = i
    OBVIOUS
  <2> QED
    BY <2>1, <2>2
<1>3. ASSUME Len(key) = 13
      PROVE  /\ SubSeq(key, 4, 12) \in Seq(S) /\ Len(SubSeq(key, 4, 12)) = 9
             /\ \A i \in 1..9 : SubSeq(key, 4, 12)[i] = key[i + 3]
  <2>1. PICK a, b, n, shift \in Nat : a = 4 /\ b = 12 /\ n = 9 /\ shift = 3
    OBVIOUS
  <2>2. 1 <= a /\ a <= b /\ b <= Len(key) /\ n = b - a + 1 /\ shift = a - 1
    BY <1>3, <2>1
  <2>3. /\ SubSeq(key, a, b) \in Seq(S) /\ Len(SubSeq(key, a, b)) = n
        /\ \A i \in 1..n : SubSeq(key, a, b)[i] = key[i + shift]
    BY <1>1, <2>2
  <2> QED
    BY <2>1, <2>3
<1>4. ASSUME Len(key) = 13
      PROVE  /\ SubSeq(key, 1, 3) \in Seq(S) /\ Len(SubSeq(key, 1, 3)) = 3
             /\ \A i \in 1..3 : SubSeq(key, 1, 3)[i] = key[i]
  <2>1. /\ SubSeq(key, 1, 3) \in Seq(S) /\ Len(SubSeq(key, 1, 3)) = 3
        /\ \A i \in 1..3 : SubSeq(key, 1, 3)[i] = key[i + 0]
    <3>1. PICK a, b, n, shift \in Nat : a = 1 /\ b = 3 /\ n = 3 /\ shift = 0
      OBVIOUS
    <3>2. 1 <= a /\ a <= b /\ b <= Len(key) /\ n = b - a + 1 /\ shift = a - 1
      BY <1>4, <3>1
    <3>3. /\ SubSeq(key, a, b) \in Seq(S) /\ Len(SubSeq(key, a, b)) = n
          /\ \A i \in 1..n : SubSeq(key, a, b)[i] = key[i + shift]
      BY <1>1, <3>2
    <3> QED
      BY <3>1, <3>3
  <2>2. \A i \in 1..3 : i + 0 = i
    OBVIOUS
  <2> QED
    BY <2>1, <2>2
<1> QED
  BY <1>2, <1>3, <1>4

Characters == 0..LetterX

LEMMA NormalKeys ==
  ASSUME NEW value \in Seq(0..11)
  PROVE  /\ isbnMatchKey(value) \in Seq(Characters)
         /\ normalizeISBN(value) = <<>> \/ normalizeISBN(value) \in ISBN10s \union ISBN13s
<1> DEFINE key == isbnMatchKey(value)
<1>1. key \in Seq(Characters)
  <2>1. LetterX \in Int
    BY DEF LetterX
  <2> QED
    BY <2>1, KeptCharacters DEF isbnMatchKey, Characters
<1>2. \/ normalizeISBN(value) = <<>>
      \/ normalizeISBN(value) = key /\ Len(key) = 13 /\ ~Contains(key, LetterX)
      \/ normalizeISBN(value) = key /\ Len(key) = 10 /\ ~Contains(SubSeq(key, 1, 9), LetterX)
  BY DEF normalizeISBN
<1> HIDE DEF key
<1>3. ASSUME Len(key) = 13, ~Contains(key, LetterX) PROVE key \in ISBN13s
  <2>1. key \in [1..13 -> Characters] /\ \A i \in 1..13 : key[i] # LetterX
    BY <1>1, <1>3, SeqIsFunction DEF Contains
  <2>2. \A c \in Characters : c # LetterX => c \in 0..9
    BY DEF LetterX, Characters
  <2>3. key \in [1..13 -> 0..9]
    BY <2>1, <2>2
  <2> QED
    BY <2>3 DEF ISBN13s, Digits
<1>4. ASSUME Len(key) = 10, ~Contains(SubSeq(key, 1, 9), LetterX) PROVE key \in ISBN10s
  <2> DEFINE front == SubSeq(key, 1, 9)
  <2>1. key \in [1..10 -> Characters]
    BY <1>1, <1>4, SeqIsFunction
  <2>2. Len(front) = 9 /\ \A i \in 1..9 : front[i] = key[i]
    BY <1>1, <1>4, Parts
  <2>3. ~(\E i \in 1..Len(front) : front[i] = LetterX)
    BY <1>4 DEF Contains
  <2> HIDE DEF front
  <2>4. \A i \in 1..9 : key[i] # LetterX
    BY <2>2, <2>3
  <2> QED
    BY <2>1, <2>4 DEF ISBN10s, Characters
<1> QED
  BY <1>1, <1>2, <1>3, <1>4 DEF key

LEMMA NamedParts ==
  ASSUME NEW S, NEW key \in Seq(S), Len(key) \in {10, 13}
  PROVE  /\ Named(key) \in Seq(S) /\ Len(Named(key)) = 9
         /\ Len(key) = 10 => \A i \in 1..9 : Named(key)[i] = key[i]
         /\ Len(key) = 13 => \A i \in 1..9 : Named(key)[i] = key[i + 3]
<1>1. CASE Len(key) = 10
  BY <1>1, Parts DEF Named
<1>2. CASE Len(key) = 13
  BY <1>2, Parts DEF Named
<1> QED
  BY <1>1, <1>2

LEMMA PrefixOfKey ==
  ASSUME NEW key \in Seq(Nat), Len(key) = 13
  PROVE  SubSeq(key, 1, 3) = Prefix978 <=> \A i \in 1..3 : key[i] = Prefix978[i]
<1> DEFINE part == SubSeq(key, 1, 3)
<1>1. part \in Seq(Nat) /\ Len(part) = 3 /\ \A i \in 1..3 : part[i] = key[i]
  BY Parts
<1>2. Prefix978 \in Seq(Nat) /\ Len(Prefix978) = 3
  BY DEF Prefix978
<1> HIDE DEF part
<1>3. ASSUME \A i \in 1..3 : part[i] = Prefix978[i] PROVE part = Prefix978
  BY <1>1, <1>2, <1>3, SeqEqual
<1> QED
  BY <1>1, <1>3 DEF part

LEMMA KeysChecked ==
  /\ \A x \in [1..10 -> Characters] :
       /\ x \in Seq(Characters) /\ Len(x) = 10
       /\ Checked(x) <=> (sum10(x) + x[10]) % 11 = 0
  /\ \A y \in [1..13 -> Characters] :
       /\ y \in Seq(Characters) /\ Len(y) = 13
       /\ Checked(y) <=> /\ \A i \in 1..3 : y[i] = Prefix978[i]
                         /\ y[13] # LetterX /\ (sum13(y) + y[13]) % 10 = 0
<1>1. \A x \in [1..10 -> Characters] : x \in Seq(Characters) /\ Len(x) = 10
  BY LengthOfFunction
<1>2. \A y \in [1..13 -> Characters] : y \in Seq(Characters) /\ y \in Seq(Nat) /\ Len(y) = 13
  <2> TAKE y \in [1..13 -> Characters]
  <2>1. y \in [1..13 -> Nat]
    BY DEF Characters, LetterX
  <2> QED
    BY <2>1, LengthOfFunction
<1>3. \A x \in [1..10 -> Characters] : Checked(x) <=> (sum10(x) + x[10]) % 11 = 0
  BY <1>1 DEF Checked
<1>4. ASSUME NEW y \in [1..13 -> Characters]
      PROVE  Checked(y) <=> /\ \A i \in 1..3 : y[i] = Prefix978[i]
                            /\ y[13] # LetterX /\ (sum13(y) + y[13]) % 10 = 0
  <2>1. Len(y) = 13 /\ 13 # 10
    BY <1>2
  <2>2. SubSeq(y, 1, 3) = Prefix978 <=> \A i \in 1..3 : y[i] = Prefix978[i]
    BY <1>2, PrefixOfKey
  <2> QED
    BY <2>1, <2>2 DEF Checked
<1> QED
  BY <1>1, <1>2, <1>3, <1>4

LEMMA SameName ==
  ASSUME NEW a \in Seq(Characters), NEW b \in Seq(Characters),
         Len(a) \in {10, 13}, Len(b) \in {10, 13}
  PROVE  Named(a) = Named(b) <=> \A i \in 1..9 : Named(a)[i] = Named(b)[i]
<1>1. /\ Named(a) \in Seq(Characters) /\ Len(Named(a)) = 9
      /\ Named(b) \in Seq(Characters) /\ Len(Named(b)) = 9
  BY NamedParts
<1>2. ASSUME \A i \in 1..9 : Named(a)[i] = Named(b)[i] PROVE Named(a) = Named(b)
  BY <1>1, <1>2, SeqEqual
<1> QED
  BY <1>2

LEMMA TwinKeys ==
  ASSUME NEW x \in [1..10 -> Characters], NEW y \in [1..13 -> Characters]
  PROVE  y = isbn10To13(x) /\ x = isbn13To10(y) <=>
           Checked(x) /\ Checked(y) /\ Named(x) = Named(y)
<1>1. x \in Seq(Characters) /\ Len(x) = 10 /\ y \in Seq(Characters) /\ Len(y) = 13
  BY KeysChecked
<1>2. Named(x) = Named(y) <=> \A i \in 1..9 : x[i] = y[i + 3]
  <2>1. \A i \in 1..9 : Named(x)[i] = x[i] /\ Named(y)[i] = y[i + 3]
    BY <1>1, NamedParts
  <2> QED
    BY <1>1, <2>1, SameName
<1>3. x = isbn13To10(y) <=> (\A i \in 1..9 : x[i] = y[i + 3]) /\ (sum10(x) + x[10]) % 11 = 0
  BY FormOf13 DEF Characters
<1>4. y = isbn10To13(x) <=> /\ \A i \in 1..3 : y[i] = Prefix978[i]
                            /\ \A i \in 1..9 : x[i] = y[i + 3]
                            /\ y[13] # LetterX /\ (sum13(y) + y[13]) % 10 = 0
  BY FormOf10 DEF Characters
<1>5. Checked(x) <=> (sum10(x) + x[10]) % 11 = 0
  BY KeysChecked
<1>6. Checked(y) <=> /\ \A i \in 1..3 : y[i] = Prefix978[i]
                     /\ y[13] # LetterX /\ (sum13(y) + y[13]) % 10 = 0
  BY KeysChecked
<1> QED
  BY <1>2, <1>3, <1>4, <1>5, <1>6

(* Of two keys of one form that name one book only one has the right digit. *)
LEMMA OneKeyOfAForm ==
  ASSUME NEW a \in Seq(Characters), NEW b \in Seq(Characters),
         Len(a) \in {10, 13}, Len(a) = Len(b), Checked(a), Checked(b), Named(a) = Named(b)
  PROVE  a = b
<1>1. CASE Len(a) = 10
  <2>1. a \in [1..10 -> Characters] /\ b \in [1..10 -> Characters]
    BY <1>1, SeqIsFunction
  <2>2. \A i \in 1..9 : a[i] = b[i]
    <3>1. \A i \in 1..9 : Named(a)[i] = a[i] /\ Named(b)[i] = b[i]
      BY <1>1, NamedParts
    <3> QED
      BY <3>1
  <2>3. sum10(a) = sum10(b)
    BY <2>2, SameSums
  <2>4. (sum10(a) + a[10]) % 11 = 0 /\ (sum10(b) + b[10]) % 11 = 0
    BY <2>1, KeysChecked
  <2>5. sum10(a) \in Nat
    BY <2>1, SumsAreNumbers DEF Characters
  <2>6. a[10] \in 0..LetterX /\ b[10] \in 0..LetterX
    <3>1. a[10] \in Characters /\ b[10] \in Characters
      BY <2>1
    <3> QED
      BY <3>1 DEF Characters
  <2>7. a[10] = (11 - (sum10(a) % 11)) % 11
    BY ONLY <2>4, <2>5, <2>6, CheckDigits
  <2>8. b[10] = (11 - (sum10(b) % 11)) % 11
    BY ONLY <2>3, <2>4, <2>5, <2>6, CheckDigits
  <2>9. \A i \in 1..10 : a[i] = b[i]
    <3>1. \A i \in 1..10 : i \in 1..9 \/ i = 10
      OBVIOUS
    <3> QED
      BY <2>2, <2>3, <2>7, <2>8, <3>1
  <2> QED
    BY <1>1, <2>9, SeqEqual
<1>2. CASE Len(a) = 13
  <2>1. a \in [1..13 -> Characters] /\ b \in [1..13 -> Characters]
    BY <1>2, SeqIsFunction
  <2>2. \A i \in 1..9 : a[i + 3] = b[i + 3]
    <3>1. \A i \in 1..9 : Named(a)[i] = a[i + 3] /\ Named(b)[i] = b[i + 3]
      BY <1>2, NamedParts
    <3> QED
      BY <3>1
  <2>3. /\ \A i \in 1..3 : a[i] = Prefix978[i] /\ b[i] = Prefix978[i]
        /\ a[13] # LetterX /\ (sum13(a) + a[13]) % 10 = 0
        /\ b[13] # LetterX /\ (sum13(b) + b[13]) % 10 = 0
    BY <2>1, KeysChecked
  <2>4. \A i \in 1..12 : a[i] = b[i]
    <3> TAKE i \in 1..12
    <3>1. i \in 1..3 \/ (i - 3 \in 1..9 /\ i = (i - 3) + 3)
      OBVIOUS
    <3> QED
      BY <2>2, <2>3, <3>1
  <2>5. sum13(a) = sum13(b)
    BY <2>4, SameSums
  <2>6. sum13(a) \in Nat
    BY <2>1, SumsAreNumbers DEF Characters
  <2>7. a[13] \in 0..LetterX /\ b[13] \in 0..LetterX
    <3>1. a[13] \in Characters /\ b[13] \in Characters
      <4>1. 13 \in 1..13
        OBVIOUS
      <4> QED
        BY ONLY <2>1, <4>1
    <3> QED
      BY <3>1 DEF Characters
  <2>8. a[13] = (10 - (sum13(a) % 10)) % 10
    BY ONLY <2>3, <2>6, <2>7, CheckDigits
  <2>9. b[13] = (10 - (sum13(b) % 10)) % 10
    BY ONLY <2>3, <2>5, <2>6, <2>7, CheckDigits
  <2>10. \A i \in 1..13 : a[i] = b[i]
    <3>1. \A i \in 1..13 : i \in 1..12 \/ i = 13
      OBVIOUS
    <3> QED
      BY <2>4, <2>5, <2>8, <2>9, <3>1
  <2> QED
    BY <1>2, <2>10, SeqEqual
<1> QED
  BY <1>1, <1>2

(* The keys that find a book are those of either form that name it. *)
LEMMA KeysOfBook ==
  ASSUME NEW a \in ISBN10s \union ISBN13s, NEW b \in Seq(Characters)
  PROVE  b = a \/ b \in OtherForm(a) <=>
           b = a \/ (Checked(a) /\ Checked(b) /\ Named(a) = Named(b))
<1>1. /\ a \in ISBN10s => a \in [1..10 -> Characters]
      /\ a \in ISBN13s => a \in [1..13 -> Characters]
  BY DEF ISBN10s, ISBN13s, Digits, Characters, LetterX
<1>2. /\ Len(b) = 10 => b \in [1..10 -> Characters]
      /\ Len(b) = 13 => b \in [1..13 -> Characters]
  BY SeqIsFunction
<1>3. Checked(b) => Len(b) \in {10, 13}
  BY DEF Checked
<1>4. CASE a \in ISBN10s
  <2>1. a \in Seq(Characters) /\ Len(a) = 10 /\ Len(isbn10To13(a)) = 13
    BY <1>1, <1>4, KeysChecked, Lengths
  <2>2. b \in OtherForm(a) <=> b = isbn10To13(a) /\ isbn13To10(b) = a
    BY <2>1 DEF OtherForm
  <2>3. CASE Len(b) = 13
    BY <1>1, <1>2, <1>4, <2>2, <2>3, TwinKeys
  <2>4. CASE Len(b) = 10
    <3>1. b # isbn10To13(a)
      <4>1. SUFFICES ASSUME b = isbn10To13(a) PROVE FALSE
        OBVIOUS
      <4>2. Len(b) = 10 /\ Len(b) = 13
        BY <2>1, <2>4, <4>1
      <4>3. 10 # 13
        OBVIOUS
      <4> QED
        BY ONLY <4>2, <4>3, Zenon
    <3>2. Len(a) = Len(b) /\ Len(a) \in {10, 13}
      BY <2>1, <2>4
    <3>3. Checked(a) /\ Checked(b) /\ Named(a) = Named(b) => a = b
      BY <2>1, <3>2, OneKeyOfAForm
    <3> QED
      BY <2>2, <3>1, <3>3
  <2>5. CASE Len(b) \notin {10, 13}
    BY <1>3, <2>1, <2>2, <2>5
  <2> QED
    BY <2>3, <2>4, <2>5
<1>5. CASE a \in ISBN13s
  <2>1. a \in Seq(Characters) /\ Len(a) = 13 /\ Len(isbn13To10(a)) = 10
    BY <1>1, <1>5, KeysChecked, Lengths
  <2>2. b \in OtherForm(a) <=> b = isbn13To10(a) /\ isbn10To13(b) = a
    <3>1. isbn10To13(b) = a => \A i \in 1..3 : a[i] = Prefix978[i]
      BY Has978
    <3> QED
      BY <2>1, <3>1 DEF OtherForm
  <2>3. CASE Len(b) = 10
    BY <1>1, <1>2, <1>5, <2>2, <2>3, TwinKeys
  <2>4. CASE Len(b) = 13
    <3>1. b # isbn13To10(a)
      <4>1. SUFFICES ASSUME b = isbn13To10(a) PROVE FALSE
        OBVIOUS
      <4>2. Len(b) = 10 /\ Len(b) = 13
        BY <2>1, <2>4, <4>1
      <4>3. 10 # 13
        OBVIOUS
      <4> QED
        BY ONLY <4>2, <4>3, Zenon
    <3>2. Len(a) = Len(b) /\ Len(a) \in {10, 13}
      BY <2>1, <2>4
    <3>3. Checked(a) /\ Checked(b) /\ Named(a) = Named(b) => a = b
      BY <2>1, <3>2, OneKeyOfAForm
    <3> QED
      BY <2>2, <3>1, <3>3
  <2>5. CASE Len(b) \notin {10, 13}
    BY <1>3, <2>1, <2>2, <2>5
  <2> QED
    BY <2>3, <2>4, <2>5
<1> QED
  BY <1>4, <1>5

LEMMA ScannedKeys ==
  ASSUME NEW code \in Codes, NEW isbn \in Codes
  PROVE  SameBook[code][isbn] <=> MatchKeys[isbn] \in LookupKeys[code]
<1> DEFINE a == normalizeISBN(code)
           b == isbnMatchKey(isbn)
<1>1. code \in Seq(0..11) /\ isbn \in Seq(0..11)
  BY QueryAssumption
<1>2. b \in Seq(Characters) /\ (a = <<>> \/ a \in ISBN10s \union ISBN13s)
  BY <1>1, NormalKeys
<1>3. SameBook[code][isbn] <=>
        a # <<>> /\ (a = b \/ (Checked(a) /\ Checked(b) /\ Named(a) = Named(b)))
  BY DEF SameBook
<1>4. MatchKeys[isbn] = b
  BY DEF MatchKeys
<1>5. LookupKeys[code] = IF a = <<>> THEN {} ELSE {a} \union OtherForm(a)
  BY DEF LookupKeys, isbnLookupKeys
<1> HIDE DEF a, b
<1>6. CASE a = <<>>
  BY <1>3, <1>5, <1>6
<1>7. CASE a # <<>>
  <2>1. b = a \/ b \in OtherForm(a) <=>
          b = a \/ (Checked(a) /\ Checked(b) /\ Named(a) = Named(b))
    BY <1>2, <1>7, KeysOfBook
  <2> QED
    BY <1>3, <1>4, <1>5, <1>7, <2>1
<1> QED
  BY <1>6, <1>7

LEMMA FirstOfNewest ==
  ASSUME RowsOK, NEW S \in SUBSET ToSet(rows), NEW order \in {Bytewise, Collated}
  PROVE  LET found == Cut(Sorted(order, S), 1)
         IN IF S = {} THEN found = <<>>
            ELSE found[1] \in S /\ \A r \in S : r.created <= found[1].created
<1> DEFINE s == Sorted(order, S)
           found == Cut(s, 1)
           n == Cardinality(S)
<1>1. Newest(s, S)
  BY SortedRows
<1>2. s \in Seq(S) /\ Len(s) = n /\ n \in Nat
  BY <1>1, NewestIsSeq
<1>3. IsFiniteSet(S) /\ \A r \in S : r.created \in Nat
  BY RowsFinite, FS_Subset, StoredItems
<1>4. 1 \in Nat \union {NoNumber} /\ 1 # NoNumber
  BY SeriesAssumption
<1>5. /\ found \in Seq(S) /\ Len(found) = IF n <= 1 THEN n ELSE 1
      /\ \A i \in 1..Len(found) : found[i] = s[i]
  <2> HIDE DEF s, n
  <2>1. Len(found) = IF 1 = NoNumber \/ Len(s) <= 1 THEN Len(s) ELSE 1
    BY <1>2, <1>4, CutList
  <2>2. found \in Seq(S) /\ \A i \in 1..Len(found) : found[i] = s[i]
    BY <1>2, <1>4, CutList
  <2> QED
    BY <1>2, <1>4, <2>1, <2>2
<1>6. n = 0 <=> S = {}
  BY <1>3, FS_EmptySet
<1> HIDE DEF found, s
<1>7. CASE S = {}
  <2>1. Len(found) = 0
    BY <1>2, <1>5, <1>6, <1>7
  <2>2. found = <<>>
    BY <1>5, <2>1
  <2> QED
    BY <1>7, <2>2 DEF found, s
<1>8. CASE S # {}
  <2>1. 1 \in 1..n /\ 1 \in 1..Len(found)
    BY <1>2, <1>5, <1>6, <1>8
  <2>2. found[1] = s[1] /\ s[1] \in S
    BY <1>1, <1>5, <2>1 DEF Newest
  <2>3. ASSUME NEW r \in S PROVE r.created <= s[1].created
    <3>1. PICK i \in 1..n : s[i] = r
      BY <1>1 DEF Newest
    <3>2. s[1].created >= s[i].created
      BY <1>1, <1>2, <2>1, <3>1 DEF Newest
    <3> QED
      BY <1>3, <2>2, <3>1, <3>2
  <2> QED
    BY <1>8, <2>2, <2>3 DEF found, s
<1> QED
  BY <1>7, <1>8

(* A scan finds a book exactly if the owner saved one under that code or under
   the other form of its ISBN, with a check digit that fits, and then a newest
   one; a misread code finds a book only if it was saved so, whatever the codes
   are and however the repositories order what they find (lookup.go 62-89,
   memory_repository.go 262-291, postgres_repository.go 241-261). *)
THEOREM ScansFind == Spec => []ScansFindTheBook
<1>1. RowsOK => ScansFindTheBook
  <2> SUFFICES ASSUME RowsOK, NEW owner \in Owners, NEW code \in Codes,
                      NEW order \in {Bytewise, Collated}
               PROVE  LET same == {r \in ToSet(rows) :
                                     /\ r.owner = owner /\ r.type = "book"
                                     /\ \/ SameBook[code][r.isbn13]
                                        \/ SameBook[code][r.isbn10]}
                          found == FindByISBN(order, code, owner)
                      IN IF same = {} THEN found = <<>>
                         ELSE found[1] \in same /\ \A r \in same : r.created <= found[1].created
    BY DEF ScansFindTheBook
  <2> DEFINE same == {r \in ToSet(rows) : /\ r.owner = owner /\ r.type = "book"
                                          /\ \/ SameBook[code][r.isbn13]
                                             \/ SameBook[code][r.isbn10]}
             found == FindByISBN(order, code, owner)
  <2>1. Saved(code, owner) = same
    <3>1. ASSUME NEW r \in ToSet(rows)
          PROVE  {MatchKeys[r.isbn13], MatchKeys[r.isbn10]} \intersect LookupKeys[code] # {} <=>
                   SameBook[code][r.isbn13] \/ SameBook[code][r.isbn10]
      <4>1. r.isbn13 \in Codes /\ r.isbn10 \in Codes
        BY StoredItems
      <4> QED
        BY <4>1, ScannedKeys
    <3> QED
      BY <3>1 DEF Saved
  <2>2. found = Cut(Sorted(order, same), 1)
    BY <2>1 DEF FindByISBN
  <2>3. same \in SUBSET ToSet(rows)
    OBVIOUS
  <2> HIDE DEF same, found
  <2>4. IF same = {} THEN found = <<>>
        ELSE found[1] \in same /\ \A r \in same : r.created <= found[1].created
    BY <2>2, <2>3, FirstOfNewest
  <2> QED
    BY <2>4 DEF same, found
<1> QED
  BY <1>1, RowsHold, PTL

------------------------------------------------------------------------------
(* The list of missing volumes, gap by gap. *)
Gaps(f, owned, m) ==
  f = [n \in 0..m |-> IF n = 0 THEN <<>>
                      ELSE appendGap(f[n - 1], next(owned, n), owned[n] - 1)]

LEMMA GapsExist ==
  ASSUME NEW owned, NEW m \in Nat PROVE \E f : Gaps(f, owned, m)
<1> DEFINE T == {k \in Nat : ~\E f : Gaps(f, owned, k)}
<1> SUFFICES ASSUME m \in T PROVE FALSE
  OBVIOUS
<1>1. T \in SUBSET Nat /\ T # {}
  OBVIOUS
<1> HIDE DEF T
<1>2. PICK k \in T : \A j \in T : k <= j
  BY <1>1, LeastNatural
<1>3. k \in Nat /\ ~\E f : Gaps(f, owned, k)
  BY <1>2 DEF T
<1>4. CASE k = 0
  <2> DEFINE f == [n \in 0..k |-> <<>>]
  <2>1. f = [n \in 0..k |-> IF n = 0 THEN <<>>
                            ELSE appendGap(f[n - 1], next(owned, n), owned[n] - 1)]
    BY <1>4
  <2> HIDE DEF f
  <2> QED
    BY <1>3, <2>1 DEF Gaps
<1>5. CASE k # 0
  <2>1. k - 1 \in Nat /\ k - 1 \notin T
    BY <1>2, <1>3, <1>5
  <2>2. PICK g : Gaps(g, owned, k - 1)
    BY <2>1 DEF T
  <2> DEFINE e(h, n) == IF n = 0 THEN <<>>
                        ELSE appendGap(h[n - 1], next(owned, n), owned[n] - 1)
             f == [n \in 0..k |-> IF n = k THEN e(g, k) ELSE g[n]]
  <2>3. g = [n \in 0..(k - 1) |-> e(g, n)]
    BY <2>2 DEF Gaps
  <2>4. ASSUME NEW n \in 0..k PROVE f[n] = e(f, n)
    <3>1. n # 0 => n - 1 \in 0..k /\ n - 1 # k
      BY <1>3
    <3>2. n # 0 => f[n - 1] = g[n - 1]
      BY <3>1
    <3>3. e(f, n) = e(g, n)
      BY <3>2
    <3>4. n = k => f[n] = e(g, n)
      OBVIOUS
    <3>5. n # k => n \in 0..(k - 1) /\ f[n] = g[n]
      BY <1>3
    <3> HIDE DEF f, e
    <3> QED
      BY <2>3, <3>3, <3>4, <3>5
  <2>5. f = [n \in 0..k |-> e(f, n)]
    <3>1. f = [n \in 0..k |-> f[n]]
      OBVIOUS
    <3> HIDE DEF f, e
    <3> QED
      BY <2>4, <3>1
  <2>6. Gaps(f, owned, k)
    <3> HIDE DEF f
    <3> QED
      BY <2>5 DEF Gaps
  <2> QED
    BY <1>3, <2>6
<1> QED
  BY <1>4, <1>5

LEMMA InsideHasGaps ==
  ASSUME NEW owned \in Seq(Nat)
  PROVE  \E f : Gaps(f, owned, Len(owned)) /\ Inside(owned) = f[Len(owned)]
<1> DEFINE f == CHOOSE g : Gaps(g, owned, Len(owned))
<1>1. \E g : Gaps(g, owned, Len(owned))
  <2>1. Len(owned) \in Nat
    OBVIOUS
  <2> QED
    BY ONLY <2>1, GapsExist
<1>2. Gaps(f, owned, Len(owned))
  BY <1>1
<1>3. Inside(owned) = f[Len(owned)]
  BY DEF Inside, Gaps
<1> HIDE DEF f
<1> QED
  BY <1>2, <1>3

(* L lists the first of V in order: all, or as many as there is room for. *)
Filled(L, V) ==
  /\ L \in Seq(V) /\ Len(L) <= MaxMissing
  /\ \A i, j \in 1..Len(L) : i < j => L[i] < L[j]
  /\ \A v \in V : \/ \E i \in 1..Len(L) : L[i] = v
                  \/ Len(L) = MaxMissing /\ \A i \in 1..Len(L) : L[i] < v

LEMMA GapAdded ==
  ASSUME NEW V \in SUBSET Nat, NEW L, Filled(L, V), NEW first \in Nat, NEW last \in Int,
         first <= last + 1, \A v \in V : v < first
  PROVE  Filled(appendGap(L, first, last), V \union (first..last))
<1> DEFINE W == V \union (first..last)
           size == last - first + 1
           room == MaxMissing - Len(L)
           k == IF size <= room THEN size ELSE room
           gap == [i \in 1..k |-> first + i - 1]
           new == appendGap(L, first, last)
           m == Len(L)
<1>1. /\ L \in Seq(V) /\ m \in Nat /\ m <= MaxMissing /\ MaxMissing \in Nat
      /\ \A i \in 1..m : L[i] \in V
  BY SeriesAssumption DEF Filled
<1>2. size \in Nat /\ room \in Nat /\ k \in Nat /\ k <= size /\ k <= room
  BY <1>1
<1>3. new = L \o gap
  <2>1. Min({size, room}) = k
    BY <1>2, MinOfTwo
  <2> QED
    BY <2>1 DEF appendGap
<1>4. \A i \in 1..k : gap[i] = first + i - 1 /\ gap[i] \in first..last
  BY <1>2
<1>5. gap \in Seq(W) /\ Len(gap) = k
  <2>1. gap \in [1..k -> W]
    BY <1>4
  <2> HIDE DEF gap, W, k
  <2> QED
    BY <1>2, <2>1, LengthOfFunction
<1>6. L \in Seq(W)
  BY <1>1
<1> HIDE DEF gap, new, k, W, size, room
<1>7. /\ new \in Seq(W) /\ Len(new) = m + k
      /\ \A i \in 1..(m + k) : new[i] = IF i <= m THEN L[i] ELSE gap[i - m]
  BY <1>3, <1>5, <1>6, ConcatProperties
<1>8. /\ \A i \in 1..m : i \in 1..(m + k) /\ new[i] = L[i]
      /\ \A i \in 1..k : m + i \in 1..(m + k) /\ new[m + i] = gap[i]
      /\ \A i \in 1..(m + k) : i \in 1..m \/ \E j \in 1..k : i = m + j
  <2>1. \A i \in 1..m : i \in 1..(m + k) /\ new[i] = L[i]
    BY <1>1, <1>2, <1>7
  <2>2. ASSUME NEW i \in 1..k PROVE m + i \in 1..(m + k) /\ new[m + i] = gap[i]
    <3>1. m + i \in 1..(m + k) /\ ~(m + i <= m) /\ (m + i) - m = i
      BY <1>1, <1>2
    <3> QED
      BY <1>7, <3>1
  <2>3. ASSUME NEW i \in 1..(m + k), i \notin 1..m PROVE \E j \in 1..k : i = m + j
    <3>1. i - m \in 1..k /\ i = m + (i - m)
      BY <1>1, <1>2, <2>3
    <3> QED
      BY <3>1
  <2> QED
    BY <2>1, <2>2, <2>3
<1>9. Len(new) <= MaxMissing
  BY <1>1, <1>2, <1>7 DEF room
<1>10. ASSUME NEW i \in 1..(m + k), NEW j \in 1..(m + k), i < j PROVE new[i] < new[j]
  <2>1. CASE j \in 1..m
    <3>1. i \in 1..m
      BY <1>1, <1>10, <2>1
    <3> QED
      BY <1>8, <1>10, <2>1, <3>1 DEF Filled
  <2>2. CASE j \notin 1..m
    <3>1. PICK b \in 1..k : j = m + b
      BY <1>8, <2>2
    <3>2. new[j] = first + b - 1 /\ new[j] >= first /\ new[j] \in Int
      <4>1. new[j] = gap[b] /\ gap[b] = first + b - 1
        BY <1>4, <1>8, <3>1
      <4> QED
        BY ONLY <1>2, <4>1, first \in Nat, b \in 1..k
    <3>3. CASE i \in 1..m
      <4>1. new[i] \in V
        BY <1>1, <1>8, <3>3
      <4>2. new[i] < first /\ new[i] \in Nat
        BY <4>1
      <4> QED
        BY ONLY <3>2, <4>2, first \in Nat
    <3>4. CASE i \notin 1..m
      <4>1. PICK a \in 1..k : i = m + a
        BY <1>8, <3>4
      <4>2. new[i] = first + a - 1
        BY <1>4, <1>8, <4>1
      <4>3. a < b
        BY ONLY <1>1, <1>2, <1>10, <3>1, <4>1, a \in 1..k, b \in 1..k
      <4> QED
        BY ONLY <1>2, <3>2, <4>2, <4>3, first \in Nat, a \in 1..k, b \in 1..k
    <3> QED
      BY <3>3, <3>4
  <2> QED
    BY <2>1, <2>2
<1>11. ASSUME NEW v \in W
       PROVE  \/ \E i \in 1..(m + k) : new[i] = v
              \/ m + k = MaxMissing /\ \A i \in 1..(m + k) : new[i] < v
  <2>1. CASE v \in V /\ \E i \in 1..m : L[i] = v
    BY <1>8, <2>1
  <2>2. CASE v \in V /\ m = MaxMissing /\ \A i \in 1..m : L[i] < v
    <3>1. k = 0
      BY <1>1, <1>2, <2>2 DEF room
    <3>2. m + k = m
      BY <1>1, <3>1
    <3> QED
      BY <1>8, <2>2, <3>2
  <2>3. CASE v \in first..last
    <3>1. CASE v - first + 1 <= k
      <4>1. v - first + 1 \in 1..k
        BY <1>2, <2>3, <3>1
      <4>2. gap[v - first + 1] = v
        BY <1>4, <2>3, <4>1
      <4> QED
        BY <1>8, <4>1, <4>2
    <3>2. CASE ~(v - first + 1 <= k)
      <4>1. k = room /\ m + k = MaxMissing
        BY <1>1, <1>2, <2>3, <3>2 DEF k, size, room
      <4>2. ASSUME NEW i \in 1..(m + k) PROVE new[i] < v
        <5>1. CASE i \in 1..m
          <6>1. new[i] \in V
            BY <1>1, <1>8, <5>1
          <6>2. new[i] < first /\ new[i] \in Nat
            BY <6>1
          <6> QED
            BY ONLY <2>3, <6>2, first \in Nat, last \in Int
        <5>2. CASE i \notin 1..m
          <6>1. PICK a \in 1..k : i = m + a
            BY <1>8, <5>2
          <6>2. new[i] = first + a - 1
            BY <1>4, <1>8, <6>1
          <6> QED
            BY <1>2, <2>3, <3>2, <6>2
        <5> QED
          BY <5>1, <5>2
      <4> QED
        BY <4>1, <4>2
    <3> QED
      BY <3>1, <3>2
  <2> QED
    BY <2>1, <2>2, <2>3 DEF Filled, W
<1> QED
  BY <1>7, <1>9, <1>10, <1>11 DEF Filled, new, W

(* The elements of an increasing sequence, and those before one of them. *)
LEMMA IncreasingElements ==
  ASSUME NEW m \in Nat, NEW s \in [1..m -> Int], \A i, j \in 1..m : i < j => s[i] < s[j],
         NEW k \in 0..m
  PROVE  LET front == {s[i] : i \in 1..k}
         IN IsFiniteSet(front) /\ Cardinality(front) = k
<1> DEFINE front == {s[i] : i \in 1..k}
           f == [i \in 1..k |-> s[i]]
<1>1. \A i \in 1..k : i \in 1..m
  OBVIOUS
<1>2. f \in Surjection(1..k, front)
  <2>1. f \in [1..k -> front] /\ \A x \in front : \E i \in 1..k : f[i] = x
    OBVIOUS
  <2> QED
    BY <2>1 DEF Surjection
<1>3. f \in Injection(1..k, front)
  <2>1. ASSUME NEW i \in 1..k, NEW j \in 1..k, f[i] = f[j] PROVE i = j
    <3>1. i \in 1..m /\ j \in 1..m /\ s[i] = s[j] /\ s[i] \in Int /\ s[j] \in Int
      BY <1>1, <2>1
    <3>2. ~(i < j) /\ ~(j < i)
      BY <3>1
    <3> QED
      BY <3>1, <3>2
  <2>2. f \in [1..k -> front]
    BY <1>2 DEF Surjection
  <2> HIDE DEF f
  <2> QED
    BY <2>1, <2>2 DEF Injection, IsInjective
<1>4. IsFiniteSet(1..k) /\ Cardinality(1..k) = k
  <2>1. 1 \in Int /\ k \in Int /\ k >= 0
    OBVIOUS
  <2>2. IsFiniteSet(1..k) /\ Cardinality(1..k) = IF 1 > k THEN 0 ELSE k - 1 + 1
    BY <2>1, FS_Interval
  <2> QED
    BY <2>1, <2>2
<1> HIDE DEF f, front
<1>5. IsFiniteSet(front) /\ Cardinality(front) = k
  BY <1>2, <1>3, <1>4, FS_Surjection
<1> QED
  BY <1>5 DEF front

LEMMA IncreasingIsUnique ==
  ASSUME NEW m \in Nat, NEW s \in [1..m -> Int], \A i, j \in 1..m : i < j => s[i] < s[j]
  PROVE  s = Increasing({s[i] : i \in 1..m})
<1> DEFINE T == {s[i] : i \in 1..m}
           t == Increasing(T)
<1>1. IsFiniteSet(T) /\ Cardinality(T) = m
  <2>1. m \in 0..m
    OBVIOUS
  <2> QED
    BY <2>1, IncreasingElements
<1>2. T \in SUBSET Int
  OBVIOUS
<1>3. ASSUME NEW n \in 1..m PROVE Cardinality(Before(s[n], T, Less(T))) = n - 1
  <2>1. n - 1 \in 0..m
    OBVIOUS
  <2>2. \A i \in 1..m : s[i] < s[n] <=> i \in 1..(n - 1)
    <3> TAKE i \in 1..m
    <3>1. s[i] \in Int /\ s[n] \in Int
      OBVIOUS
    <3>2. i < n => s[i] < s[n]
      OBVIOUS
    <3>3. n < i => s[n] < s[i]
      OBVIOUS
    <3>4. i < n \/ i = n \/ n < i
      OBVIOUS
    <3> QED
      BY <3>1, <3>2, <3>3, <3>4
  <2>3. Before(s[n], T, Less(T)) = {s[i] : i \in 1..(n - 1)}
    <3>1. Before(s[n], T, Less(T)) = {y \in T : y < s[n]}
      BY DEF Before, Less
    <3>2. \A i \in 1..(n - 1) : i \in 1..m
      OBVIOUS
    <3> QED
      BY <2>2, <3>1, <3>2
  <2>4. Cardinality({s[i] : i \in 1..(n - 1)}) = n - 1
    BY <2>1, IncreasingElements
  <2> QED
    BY <2>3, <2>4
<1>4. \A n \in 1..m : s[n] \in T
  OBVIOUS
<1> HIDE DEF T
<1>5. Sequenced(t, T, Less(T))
  BY <1>1, <1>2, InOrderLists, LessIsStrict DEF Increasing
<1> HIDE DEF t
<1>6. t \in [1..m -> T] /\ \A n \in 1..m : s[n] = t[n]
  BY <1>1, <1>3, <1>4, <1>5 DEF Sequenced
<1>7. s = t
  BY <1>6
<1> QED
  BY <1>7 DEF t, T

LEMMA FilledIsFirst ==
  ASSUME NEW V \in SUBSET Nat, NEW L, Filled(L, V)
  PROVE  L = Increasing({v \in V : Cardinality({w \in V : w < v}) < MaxMissing})
<1> DEFINE m == Len(L)
           first == {v \in V : Cardinality({w \in V : w < v}) < MaxMissing}
           T == {L[i] : i \in 1..m}
<1>1. /\ L \in Seq(V) /\ m \in Nat /\ m <= MaxMissing /\ MaxMissing \in Nat
      /\ L \in [1..m -> V] /\ L \in [1..m -> Int]
      /\ \A i, j \in 1..m : i < j => L[i] < L[j]
      /\ \A v \in V : (\E i \in 1..m : L[i] = v) \/ (m = MaxMissing /\ \A i \in 1..m : L[i] < v)
  <2>1. L \in Seq(V) /\ m \in Nat /\ L \in [1..m -> V]
    BY SeqIsFunction DEF Filled
  <2>2. L \in [1..m -> Int]
    <3>1. \A v \in V : v \in Int
      OBVIOUS
    <3> HIDE DEF m
    <3> QED
      BY <2>1, <3>1
  <2> QED
    BY <2>1, <2>2, SeriesAssumption DEF Filled
<1> HIDE DEF m
<1>2. ASSUME NEW n \in 1..m PROVE L[n] \in first
  <2>1. \A i \in 1..m : L[i] < L[n] => i \in 1..(n - 1)
    <3> TAKE i \in 1..m
    <3>1. L[i] \in Int /\ L[n] \in Int /\ (n < i => L[n] < L[i])
      BY <1>1
    <3> QED
      BY <1>1, <3>1
  <2>2. \A i \in 1..(n - 1) : i \in 1..m /\ i < n
    BY <1>1
  <2>3. {w \in V : w < L[n]} = {L[i] : i \in 1..(n - 1)}
    <3>1. ASSUME NEW w \in V, w < L[n] PROVE \E i \in 1..(n - 1) : w = L[i]
      <4>1. L[n] \in Nat /\ w \in Nat
        BY <1>1
      <4>2. ~(\A i \in 1..m : L[i] < w)
        BY <3>1, <4>1
      <4>3. PICK i \in 1..m : L[i] = w
        BY <1>1, <4>2
      <4> QED
        BY <2>1, <3>1, <4>3
    <3>2. ASSUME NEW i \in 1..(n - 1) PROVE L[i] \in V /\ L[i] < L[n]
      BY <1>1, <2>2
    <3> QED
      BY <3>1, <3>2
  <2>4. n - 1 \in 0..m
    BY <1>1
  <2>5. Cardinality({L[i] : i \in 1..(n - 1)}) = n - 1
    BY <1>1, <2>4, IncreasingElements
  <2>6. n - 1 < MaxMissing
    BY <1>1
  <2> QED
    BY <1>1, <2>3, <2>5, <2>6
<1>3. ASSUME NEW v \in V, v \notin T PROVE v \notin first
  <2>1. m = MaxMissing /\ \A i \in 1..m : L[i] < v
    BY <1>1, <1>3
  <2>2. T \in SUBSET {w \in V : w < v}
    BY <1>1, <2>1
  <2>3. IsFiniteSet(T) /\ Cardinality(T) = m
    <3>1. m \in 0..m
      BY <1>1
    <3> QED
      BY <1>1, <3>1, IncreasingElements
  <2>4. IsFiniteSet({w \in V : w < v})
    <3>1. 0 \in Int /\ v \in Int
      OBVIOUS
    <3>2. IsFiniteSet(0..v)
      BY <3>1, FS_Interval
    <3>3. {w \in V : w < v} \in SUBSET (0..v)
      <4>1. \A w \in V : w \in Nat
        OBVIOUS
      <4>2. \A w \in V : w < v => w \in 0..v
        BY <4>1
      <4> QED
        BY <4>2
    <3> QED
      BY <3>2, <3>3, FS_Subset
  <2> DEFINE below == {w \in V : w < v}
  <2> HIDE DEF below, T
  <2>5. Cardinality(T) <= Cardinality(below) /\ Cardinality(below) \in Nat
    BY <2>2, <2>4, FS_Subset, FS_CardinalityType DEF below
  <2>6. ~(Cardinality(below) < MaxMissing)
    BY <1>1, <2>1, <2>3, <2>5
  <2> QED
    BY <2>6 DEF below
<1>4. T = first
  <2>1. T \subseteq first
    BY <1>2
  <2>2. first \subseteq V
    OBVIOUS
  <2> HIDE DEF T, first
  <2> QED
    BY <1>3, <2>1, <2>2
<1>5. L = Increasing(T)
  BY <1>1, IncreasingIsUnique
<1> QED
  BY <1>4, <1>5

(* The gaps in front of each volume hold what is missing below it. *)
LEMMA MissingInside ==
  ASSUME NEW O \in SUBSET (Nat \ {0}), IsFiniteSet(O), O # {}, NEW last \in Nat,
         O \subseteq 1..last
  PROVE  LET owned == Increasing(O)
         IN /\ owned # <<>>
            /\ Filled(appendGap(Inside(owned), next(owned, Len(owned) + 1), last), (1..last) \ O)
<1> DEFINE owned == Increasing(O)
           m == Cardinality(O)
           bound(n) == IF n = 0 THEN 0 ELSE owned[n]
           below(n) == (1..bound(n)) \ O
<1>1. Sequenced(owned, O, Less(O))
  <2>1. O \in SUBSET Int
    OBVIOUS
  <2> QED
    BY <2>1, InOrderLists, LessIsStrict DEF Increasing
<1>2. m \in Nat /\ m # 0
  BY FS_CardinalityType, FS_EmptySet
<1> HIDE DEF owned, m
<1>3. /\ owned \in [1..m -> O] /\ \A v \in O : \E n \in 1..m : owned[n] = v
      /\ \A i, j \in 1..m : i < j => owned[i] < owned[j]
  <2>1. \A i, j \in 1..m : i < j <=> <<owned[i], owned[j]>> \in Less(O)
    BY <1>1 DEF Sequenced, m
  <2>2. \A p \in Less(O) : p[1] < p[2]
    BY DEF Less
  <2>3. \A i, j \in 1..m : i < j => owned[i] < owned[j]
    <3> TAKE i, j \in 1..m
    <3>1. i < j => <<owned[i], owned[j]>>[1] < <<owned[i], owned[j]>>[2]
      BY <2>1, <2>2
    <3> QED
      BY <3>1
  <2> QED
    BY <1>1, <2>3 DEF Sequenced, m
<1>4. \A n \in 1..m : owned[n] \in Nat /\ owned[n] > 0 /\ owned[n] <= last /\ owned[n] \in O
  <2>1. \A v \in O : v \in Nat /\ v > 0 /\ v <= last
    OBVIOUS
  <2>2. \A n \in 1..m : owned[n] \in O
    BY <1>3
  <2> QED
    BY <2>1, <2>2
<1>5. owned \in Seq(Nat) /\ Len(owned) = m
  <2>1. owned \in [1..m -> Nat]
    BY <1>3, <1>4
  <2> QED
    BY <1>2, <2>1, LengthOfFunction
<1>6. ASSUME NEW n \in 0..m PROVE bound(n) \in Nat /\ next(owned, n + 1) = bound(n) + 1
  <2>1. CASE n = 0
    <3>1. n + 1 = 1 /\ bound(n) = 0
      BY <2>1
    <3> QED
      BY <3>1 DEF next
  <2>2. CASE n # 0
    <3>1. n + 1 # 1 /\ n + 1 - 1 = n /\ n \in 1..m /\ bound(n) = owned[n]
      BY <1>2, <2>2
    <3> QED
      BY <1>4, <3>1 DEF next
  <2> QED
    BY <2>1, <2>2
<1>7. ASSUME NEW n \in 0..m, NEW top \in Nat, bound(n) <= top,
             \A v \in O : v <= bound(n) \/ v > top
      PROVE  (1..top) \ O = below(n) \union ((bound(n) + 1)..top)
  <2> DEFINE b == bound(n)
  <2>1. b \in Nat
    BY <1>6
  <2> HIDE DEF b
  <2>2. \A v \in O : v <= b \/ v > top
    BY <1>7 DEF b
  <2>3. b <= top
    BY <1>7 DEF b
  <2>4. ((1..b) \ O) \union ((b + 1)..top) = (1..top) \ O
    <3>1. \A v \in (b + 1)..top : v \in 1..top /\ v \notin O
      BY <2>1, <2>2
    <3>2. \A v \in 1..b : v \in 1..top
      BY <2>1, <2>3
    <3>3. \A v \in 1..top : v \in 1..b \/ v \in (b + 1)..top
      BY <2>1
    <3> QED
      BY <3>1, <3>2, <3>3
  <2> QED
    BY <2>4 DEF b
<1>8. ASSUME NEW n \in 0..m, NEW v \in O PROVE v <= bound(n) \/ (n < m /\ v >= owned[n + 1])
  <2>1. PICK k \in 1..m : owned[k] = v
    BY <1>3
  <2>2. CASE k <= n
    <3>1. n \in 1..m /\ bound(n) = owned[n]
      BY <1>2, <2>2
    <3>2. owned[k] <= owned[n]
      <4>1. CASE k = n
        BY <1>4, <4>1
      <4>2. CASE k < n
        BY <1>3, <1>4, <3>1, <4>2
      <4> QED
        BY <1>2, <2>2, <4>1, <4>2
    <3> QED
      BY <2>1, <3>1, <3>2
  <2>3. CASE ~(k <= n)
    <3>1. n < m /\ n + 1 \in 1..m /\ (n + 1 = k \/ n + 1 < k)
      BY <1>2, <2>3
    <3>2. owned[n + 1] <= owned[k]
      <4>1. CASE n + 1 = k
        BY <1>4, <4>1
      <4>2. CASE n + 1 < k
        BY <1>3, <1>4, <3>1, <4>2
      <4> QED
        BY <3>1, <4>1, <4>2
    <3> QED
      BY <1>4, <2>1, <3>1, <3>2
  <2> QED
    BY <2>2, <2>3
<1>9. PICK f : Gaps(f, owned, m) /\ Inside(owned) = f[m]
  BY <1>5, InsideHasGaps
<1>10. ASSUME NEW n \in 0..m, NEW L, Filled(L, below(n)), NEW top \in Nat, bound(n) <= top,
              \A v \in O : v <= bound(n) \/ v > top
       PROVE  Filled(appendGap(L, next(owned, n + 1), top), (1..top) \ O)
  <2>1. below(n) \in SUBSET Nat /\ \A v \in below(n) : v < bound(n) + 1
    <3>1. bound(n) \in Nat
      BY <1>6
    <3> HIDE DEF bound
    <3> QED
      BY <3>1
  <2>2. /\ next(owned, n + 1) = bound(n) + 1 /\ bound(n) + 1 \in Nat
        /\ bound(n) + 1 <= top + 1 /\ top \in Int
    <3>1. bound(n) \in Nat /\ next(owned, n + 1) = bound(n) + 1
      BY <1>6
    <3> HIDE DEF bound
    <3> QED
      BY <1>10, <3>1
  <2>3. (1..top) \ O = below(n) \union ((bound(n) + 1)..top)
    BY <1>7, <1>10
  <2> HIDE DEF below, bound
  <2>4. Filled(appendGap(L, bound(n) + 1, top), below(n) \union ((bound(n) + 1)..top))
    BY <1>10, <2>1, <2>2, GapAdded
  <2> QED
    BY <2>2, <2>3, <2>4
<1>11. f[0] = <<>> /\ \A n \in 1..m : f[n] = appendGap(f[n - 1], next(owned, n), owned[n] - 1)
  <2> DEFINE e(n) == IF n = 0 THEN <<>>
                     ELSE appendGap(f[n - 1], next(owned, n), owned[n] - 1)
  <2>1. f = [n \in 0..m |-> e(n)]
    BY <1>9 DEF Gaps
  <2>2. 0 \in 0..m /\ \A n \in 1..m : n \in 0..m /\ n # 0
    BY <1>2
  <2> HIDE DEF e
  <2>3. f[0] = e(0) /\ \A n \in 1..m : f[n] = e(n)
    BY <2>1, <2>2
  <2> QED
    BY <2>2, <2>3 DEF e
<1>12. \A n \in 0..m : Filled(f[n], below(n))
  <2> DEFINE T == {n \in 0..m : ~Filled(f[n], below(n))}
  <2> SUFFICES ASSUME T # {} PROVE FALSE
    OBVIOUS
  <2>1. T \in SUBSET Nat
    OBVIOUS
  <2>2. \A n \in T : n \in 0..m /\ ~Filled(f[n], below(n))
    OBVIOUS
  <2>3. \A n \in 0..m : n \notin T => Filled(f[n], below(n))
    OBVIOUS
  <2> HIDE DEF T
  <2>4. PICK n \in T : \A j \in T : n <= j
    BY <2>1, LeastNatural
  <2>5. n \in 0..m /\ ~Filled(f[n], below(n))
    BY <2>2
  <2>6. CASE n = 0
    <3>1. below(0) = {}
      OBVIOUS
    <3>2. Filled(<<>>, {})
      BY SeriesAssumption DEF Filled
    <3> QED
      BY <1>11, <2>5, <2>6, <3>1, <3>2
  <2>7. CASE n # 0
    <3>1. n \in 1..m /\ n - 1 \in 0..m /\ n - 1 < n /\ (n - 1) + 1 = n /\ n - 1 < m
      BY <1>2, <2>5, <2>7
    <3>2. n - 1 \notin T
      BY <2>4, <3>1
    <3>3. Filled(f[n - 1], below(n - 1))
      BY <2>3, <3>1, <3>2
    <3> DEFINE top == owned[n] - 1
    <3>4. top \in Nat
      BY <1>4, <3>1
    <3>5. bound(n - 1) <= top
      <4>1. CASE n - 1 = 0
        <5>1. bound(n - 1) = 0
          BY <4>1
        <5> QED
          BY <3>4, <5>1
      <4>2. CASE n - 1 # 0
        <5>1. n - 1 \in 1..m /\ bound(n - 1) = owned[n - 1]
          BY <3>1, <4>2
        <5>2. owned[n - 1] < owned[n] /\ owned[n - 1] \in Nat /\ owned[n] \in Nat
          BY <1>3, <1>4, <3>1, <5>1
        <5> QED
          BY <5>1, <5>2
      <4> QED
        BY <4>1, <4>2
    <3>6. ASSUME NEW v \in O PROVE v <= bound(n - 1) \/ v > top
      <4>1. v <= bound(n - 1) \/ v >= owned[n]
        BY <1>8, <3>1
      <4>2. owned[n] \in Nat /\ v \in Nat
        BY <1>4, <3>1
      <4> QED
        BY <4>1, <4>2
    <3>7. below(n) = (1..top) \ O
      <4>1. bound(n) = owned[n] /\ owned[n] \in O /\ owned[n] \in Nat
        BY <1>4, <2>7, <3>1
      <4>2. \A v \in 1..owned[n] : v \in 1..top \/ v = owned[n]
        BY <4>1
      <4>3. \A v \in 1..top : v \in 1..owned[n]
        BY <4>1
      <4> QED
        BY <4>1, <4>2, <4>3
    <3>8. f[n] = appendGap(f[n - 1], next(owned, n), top)
      BY <1>11, <3>1
    <3> HIDE DEF top, below, bound
    <3>9. Filled(appendGap(f[n - 1], next(owned, (n - 1) + 1), top), (1..top) \ O)
      BY <1>10, <3>1, <3>3, <3>4, <3>5, <3>6
    <3> QED
      BY <2>5, <3>1, <3>7, <3>8, <3>9
  <2> QED
    BY <2>6, <2>7
<1>13. Filled(appendGap(f[m], next(owned, m + 1), last), (1..last) \ O)
  <2>1. m \in 0..m /\ m \in 1..m /\ bound(m) = owned[m]
    BY <1>2
  <2>2. bound(m) <= last
    BY <1>4, <2>1
  <2>3. \A v \in O : v <= bound(m) \/ v > last
    <3> TAKE v \in O
    <3>1. ~(m < m)
      BY <1>2
    <3> QED
      BY <1>8, <2>1, <3>1
  <2>4. Filled(f[m], below(m))
    BY <1>12, <2>1
  <2> HIDE DEF below, bound
  <2> QED
    BY <1>10, <2>1, <2>2, <2>3, <2>4
<1>14. owned # <<>>
  <2>1. 1 \in 1..m
    BY <1>2
  <2> QED
    BY <1>2, <1>5
<1> QED
  BY <1>5, <1>9, <1>13, <1>14 DEF owned

LEMMA MissingListed ==
  ASSUME NEW books, NumberedBooks(books), OwnedVolumes(books) # {}
  PROVE  LET volumes == (1..UpperBound(books)) \ OwnedVolumes(books)
             first == {v \in volumes : Cardinality({w \in volumes : w < v}) < MaxMissing}
         IN MissingVolumes(books) = Increasing(first)
<1> DEFINE O == OwnedVolumes(books)
           last == UpperBound(books)
           owned == Increasing(O)
           volumes == (1..last) \ O
           first == {v \in volumes : Cardinality({w \in volumes : w < v}) < MaxMissing}
           list == appendGap(Inside(owned), next(owned, Len(owned) + 1), last)
<1>1. /\ O \in SUBSET (Nat \ {0}) /\ IsFiniteSet(O) /\ O # {}
      /\ last \in Nat /\ O \subseteq 1..last
  BY VolumesOfBooks, BoundOfVolumes
<1>2. MissingVolumes(books) = IF owned = <<>> THEN <<>> ELSE list
  BY DEF MissingVolumes
<1> HIDE DEF O, last
<1>3. owned # <<>> /\ Filled(list, volumes)
  BY <1>1, MissingInside
<1>4. volumes \in SUBSET Nat
  BY <1>1
<1> HIDE DEF list, volumes, owned
<1>5. list = Increasing(first)
  BY <1>3, <1>4, FilledIsFirst
<1> QED
  BY <1>2, <1>3, <1>5 DEF first, volumes, O, last

LEMMA SeriesStatus ==
  ASSUME NEW books
  PROVE  /\ determineSeriesStatus(books) \in {"incomplete", "complete", "unknown"}
         /\ determineSeriesStatus(books) = "incomplete" <=> MissingCount(books) \notin {NoNumber, 0}
BY DEF determineSeriesStatus

(* Every book of a series is in one entry of the series view.  The entry lists
   the missing volumes in order, the first of them if there are more than there
   is room for, and counts them all; a series is incomplete exactly if some are
   missing, and each status lists the series that have it, whatever numbers the
   rows hold (service_series.go 117-191, postgres_repository.go 448-530). *)
THEOREM SeriesAreComplete == Spec => []SeriesAddUp
<1>1. RowsOK => SeriesAddUp
  <2> SUFFICES ASSUME RowsOK, NEW owner \in Owners
               PROVE  LET view == ListSeries(owner, Unset)
                      IN /\ view = UNION {GetSeriesByName(owner, n) : n \in Series}
                         /\ \A s \in view :
                              LET books  == SeriesBooks(owner, s.name)
                                  volumes == (1..UpperBound(books)) \ OwnedVolumes(books)
                                  first  == {v \in volumes :
                                               Cardinality({w \in volumes : w < v}) < MaxMissing}
                              IN /\ OwnedVolumes(books) # {} =>
                                      /\ s.count = Cardinality(volumes)
                                      /\ s.missing = Increasing(first)
                                 /\ (s.status = "incomplete") = (s.count \notin {NoNumber, 0})
                                 /\ s \in ListSeries(owner, s.status)
    BY DEF SeriesAddUp
  <2> DEFINE named == {q \in ownedItems(owner) : q.type = "book" /\ q.series # ""}
             all == {Summary(owner, r.series) : r \in named}
             view == ListSeries(owner, Unset)
  <2>1. \A status : ListSeries(owner, status) =
          {s \in all : status \in {"complete", "incomplete", "unknown"} => s.status = status}
    BY DEF ListSeries
  <2>2. view = all
    <3>1. Unset \notin {"complete", "incomplete", "unknown"}
      BY DEF Unset
    <3> HIDE DEF all
    <3> QED
      BY <2>1, <3>1
  <2>3. all = UNION {GetSeriesByName(owner, n) : n \in Series}
    <3>1. \A r \in named : r.series \in Series /\ r \in SeriesBooks(owner, r.series)
      <4> TAKE r \in named
      <4>1. r \in ToSet(rows) /\ r.owner = owner /\ r.type = "book" /\ r.series # ""
        BY DEF ownedItems
      <4>2. r.series \in Series \union {""}
        BY <4>1, StoredItems
      <4> QED
        BY <4>1, <4>2 DEF SeriesBooks
    <3>2. \A n : SeriesBooks(owner, n) \subseteq named
      BY DEF SeriesBooks, ownedItems
    <3>3. \A n : GetSeriesByName(owner, n) =
                   {Summary(owner, r.series) : r \in SeriesBooks(owner, n)}
      BY DEF GetSeriesByName
    <3> HIDE DEF named
    <3>4. ASSUME NEW s \in all PROVE \E n \in Series : s \in GetSeriesByName(owner, n)
      BY <3>1, <3>3
    <3>5. ASSUME NEW n \in Series, NEW s \in GetSeriesByName(owner, n) PROVE s \in all
      BY <3>2, <3>3
    <3> QED
      BY <3>4, <3>5
  <2>4. ASSUME NEW s \in all
        PROVE  LET books == SeriesBooks(owner, s.name)
                   volumes == (1..UpperBound(books)) \ OwnedVolumes(books)
                   first == {v \in volumes : Cardinality({w \in volumes : w < v}) < MaxMissing}
               IN /\ OwnedVolumes(books) # {} =>
                       s.count = Cardinality(volumes) /\ s.missing = Increasing(first)
                  /\ (s.status = "incomplete") = (s.count \notin {NoNumber, 0})
                  /\ s \in ListSeries(owner, s.status)
    <3>1. PICK name : s = Summary(owner, name)
      OBVIOUS
    <3> DEFINE books == SeriesBooks(owner, name)
    <3>2. /\ s.name = name /\ s.missing = MissingVolumes(books)
          /\ s.count = MissingCount(books) /\ s.status = determineSeriesStatus(books)
      BY <3>1 DEF Summary
    <3>3. NumberedBooks(books)
      <4>1. books \in SUBSET ToSet(rows)
        BY DEF SeriesBooks
      <4>2. IsFiniteSet(books)
        BY <4>1, RowsFinite, FS_Subset
      <4> QED
        BY <4>1, <4>2, StoredItems DEF NumberedBooks
    <3>4. s \in ListSeries(owner, s.status)
      BY <2>1
    <3> HIDE DEF books, all
    <3>5. (s.status = "incomplete") = (s.count \notin {NoNumber, 0})
      BY <3>2, SeriesStatus
    <3>6. OwnedVolumes(books) # {} =>
            s.count = Cardinality((1..UpperBound(books)) \ OwnedVolumes(books))
      BY <3>2, <3>3, CountedVolumes
    <3>7. OwnedVolumes(books) # {} =>
            LET volumes == (1..UpperBound(books)) \ OwnedVolumes(books)
                first == {v \in volumes : Cardinality({w \in volumes : w < v}) < MaxMissing}
            IN s.missing = Increasing(first)
      BY <3>2, <3>3, MissingListed
    <3> QED
      BY <3>2, <3>4, <3>5, <3>6, <3>7 DEF books
  <2> HIDE DEF all
  <2> QED
    BY <2>2, <2>3, <2>4
<1> QED
  BY <1>1, RowsHold, PTL

=============================================================================
