SPECIFICATION Spec
CONSTANTS
  NoSlot = NoSlot
  Cells <- TwoByTwo
  MaxSlots = 2
  MaxEdits = 3
INVARIANTS
  TypeOK
  LayoutSound
  SlotIdsAreStable
