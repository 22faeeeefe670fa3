SPECIFICATION FairSpec
CONSTANTS
  Names = {vm1, vm2}
  Slots = {s1, s2}
  Geoms = {1, 2}
  Positions = {p1, p2}
  FBs = {f1, f2, f3}
  Faults = {}
  NoName = NoName
  NoFb = NoFb
  NoPos = NoPos
  NoSlot = NoSlot
  NoFile = NoFile
INVARIANTS ActivePresented SizesAgree PointerFollows
PROPERTIES ImplementsSwitchboard StatusCatchesUp SelectedIsShown
