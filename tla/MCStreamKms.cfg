SPECIFICATION Spec
CONSTANTS
  small = small
  next = next
  wide = wide
  odd = odd
  Bufs = {b1, b2, b3}
  Scanouts = {small, next, wide, odd}
  Cursors = {c1, c2}
  SizeOf <- Sizes
  Modes = {1, 2}
  FBs = {f1, f2}
  Positions = {0, 1}
  Origin = 0
  Atomic = TRUE
  Faults <- AllFaults
  Host = Host
  Off = Off
  NoBuf = NoBuf
  NoFb = NoFb
  NoImage = NoImage
  NoCrtc = NoCrtc
SYMMETRY Symmetry
INVARIANTS FramebuffersOwned FailuresAreSeen HostPictureReturns PointerFollowsGuest
