SPECIFICATION Spec
CONSTANTS
  ann = ann
  bob = bob
  sh1 = sh1
  sh2 = sh2
  book = book
  comic = comic
  novel = novel
  isbn1 = isbn1
  isbn2 = isbn2
  isbn3 = isbn3
  l1 = l1
  l2 = l2
  l3 = l3
  a1 = a1
  a2 = a2
  a3 = a3
  s1 = s1
  s2 = s2
  x1 = x1
  d1 = d1
  NoSlot = NoSlot
  Nobody = Nobody
  Shelves <- TheShelves
  ShelfOwner <- TheOwners
  FirstItems <- TheItems
  Layouts = {l1}
  Assigns = {a1}
  Scans = {}
  Removes = {}
  Deletes = {}
  Together = {{l1, a1}}
  MayEnd = {}
  ShelfOf <- EditShelf
  OwnerOf <- ByAnn
  SlotOf <- EditSlot
  ItemOf <- EditItem
  IsbnOf <- EditIsbn
  InputOf <- DropInput
  FirstSlots <- TwoSlots
  FirstPlaces <- NonePlaced
PROPERTIES
  DisplacedAreReported
