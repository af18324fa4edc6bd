SPECIFICATION Spec
CONSTANTS
  Nil = Nil
  NotFinite = NotFinite
  NeverDate = NeverDate
  NoBook = NoBook
  Broken = Broken
  Unborn = Unborn
  Gone = Gone
  ann = ann
  bob = bob
  req1 = req1
  req2 = req2
  dune1 = dune1
  dune2 = dune2
  emma = emma
  chess = chess
  bobs = bobs
  fresh = fresh
  may = may
  june = june
  Texts <- TheTexts
  Trim <- TheTrim
  FoldCase <- TheFold
  LongNames = {"Long"}
  Formats = {"EBOOK"}
  Genres = {"HISTORY"}
  Dates <- TheDates
  Ids <- TheIds
  Owners = {ann, bob}
  Requests = {req1, req2}
  Metadata <- TheMetadata
  Libraries <- TheLibraries
  Workloads <- Overlaps
  MaxFaults = 1
INVARIANTS
  TypeOK
  RowsAreNormal
  AnswersAreTrue
PROPERTIES
  DeletedStaysGone
  OnlyOwnRows
  EditsKeepTheRest
  RenamesKeepSeriesApart
