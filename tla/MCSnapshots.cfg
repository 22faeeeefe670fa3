SPECIFICATION Spec
CONSTANTS
  Guest = vm1
  Names = {vm1, vm2}
  Slots = {s1, s2}
  FBs = {f1, f2}
  Faults = {}
  NoName = NoName
  NoFb = NoFb
  NoPos = NoPos
  NoSlot = NoSlot
  NoFile = NoFile
  Ring = 3
  QueueMax = 2
  MaxPicture = 1
  StreamFaults = {"export", "send"}
  Old = Old
  None = None
INVARIANTS TypeOK InOrder
PROPERTIES LastPictureShown SenderGoesOn
