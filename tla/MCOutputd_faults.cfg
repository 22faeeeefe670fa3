SPECIFICATION Spec
CONSTANTS
  Names = {vm1, vm2, vm3}
  Slots = {s1, s2}
  Geoms = {1, 2}
  Positions = {p1}
  FBs = {f1, f2, f3}
  Faults <- AllFaults
  NoName = NoName
  NoFb = NoFb
  NoPos = NoPos
  NoSlot = NoSlot
  NoFile = NoFile
SYMMETRY Symmetry
INVARIANTS TypeOK TableSound FramebufferOwnership FramebuffersNeedKms NothingLeftBehind
PROPERTIES OnlyActiveShown
