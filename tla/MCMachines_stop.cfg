SPECIFICATION Spec
CONSTANTS
  Commands = {c1}
  Machines = {m1, m2}
  Pids = {p1, p2}
  small = small
  large = large
  Profiles = {small, large}
  Size <- Sizes
  Pixels <- Sizes
  Capacity = 2
  Nobody = Nobody
  NoPid = NoPid
  NoProfile = NoProfile
SYMMETRY Symmetry
PROPERTIES StopsOnlyItsOwn
