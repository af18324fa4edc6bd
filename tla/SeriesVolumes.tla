---------------------------- MODULE SeriesVolumes ---------------------------
(***************************************************************************)
(* What the series view says of a series: which volumes are missing, how   *)
(* many, and whether it is complete (items/service_series.go).  Rows saved *)
(* before volumes were limited to 200 may hold any number.                 *)
(***************************************************************************)
EXTENDS Ordering, SequencesExt

CONSTANTS NoNumber,   \* a nil pointer
          MaxMissing  \* the longest list of missing volumes, 200 in the code

ASSUME SeriesAssumption == NoNumber \notin Int /\ MaxMissing \in Nat

(* The largest total_volumes of its books, if any. *)
TotalVolumes(books) ==
  LET totals == {b.total : b \in books} \ {NoNumber}
  IN IF totals = {} THEN NoNumber ELSE Max(totals)

OwnedVolumes(books) == {v \in {b.volume : b \in books} \ {NoNumber} : v > 0}

UpperBound(books) ==
  LET total == TotalVolumes(books)
  IN Max(OwnedVolumes(books) \union {0} \union IF total = NoNumber THEN {} ELSE {total})

(* Without volume numbers the count is an estimate, of books with a total. *)
MissingCount(books) ==
  IF OwnedVolumes(books) # {} THEN UpperBound(books) - Cardinality(OwnedVolumes(books))
  ELSE IF TotalVolumes(books) = NoNumber THEN NoNumber
  ELSE Max({0, TotalVolumes(books) - Cardinality(books)})

(* appendGap: as much of first..last as there is room for. *)
appendGap(missing, first, last) ==
  missing \o [i \in 1..Min({last - first + 1, MaxMissing - Len(missing)}) |-> first + i - 1]

(* The gaps before the n-th and earlier volumes: where they begin, the list. *)
next(owned, n) == IF n = 1 THEN 1 ELSE owned[n - 1] + 1

Inside(owned) ==
  LET list[n \in 0..Len(owned)] ==
        IF n = 0 THEN <<>> ELSE appendGap(list[n - 1], next(owned, n), owned[n] - 1)
  IN list[Len(owned)]

(* Seeded fault: the gap after the last volume is forgotten. *)
MissingVolumesInside(books) == Inside(Increasing(OwnedVolumes(books)))

(* The gaps before each owned volume, then the one behind the last.  Once the
   list is full, or the upper bound is reached, the gaps add nothing. *)
MissingVolumes(books) ==
  LET owned == Increasing(OwnedVolumes(books))
  IN IF owned = <<>> THEN <<>>
     ELSE appendGap(Inside(owned), next(owned, Len(owned) + 1), UpperBound(books))

determineSeriesStatus(books) ==
  IF MissingCount(books) \notin {NoNumber, 0} THEN "incomplete"
  ELSE IF TotalVolumes(books) # NoNumber THEN "complete"
  ELSE "unknown"
=============================================================================
