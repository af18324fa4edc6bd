SPECIFICATION Spec
CONSTANTS
  ann = ann
  bob = bob
  NoNumber = NoNumber
  MaxMissing = 3
  Pool <- ThePool
  Owners = {ann, bob}
  Ids = {1, 2, 3}
  NormalizeTitle <- TheTitle
  FirstByte <- TheByte
  FirstChar <- TheChar
  Letters = {"D", "E", "I"}
  Searches <- TheSearches
  Finds <- TheFinds
  Likes <- TheLikes
  Bytewise <- TheBytes
  Collated <- TheCollation
  Series = {"s"}
  Codes <- TheCodes
  maxMatches = 1
  Times = {1, 2}
INVARIANTS
  TypeOK
  HistogramCountsLists
  ListsAgree
  DuplicatesAreFound
  ScansFindTheBook
  SeriesAddUp
