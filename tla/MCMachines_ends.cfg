SPECIFICATION FairSpec
CONSTANTS
  Commands = {c1, c2}
  Machines = {m1}
  Pids = {p1, p2}
  small = small
  large = large
  Profiles = {small, large}
  Size <- Sizes
  Pixels <- Sizes
  Capacity = 3
  Nobody = Nobody
  NoPid = NoPid
  NoProfile = NoProfile
PROPERTIES QuietStopEnds
