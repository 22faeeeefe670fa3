SPECIFICATION Spec
CONSTANTS
  Threads = {t1, t2}
  Ids = {d1, d2}
  Names = {vm1, vm2, n1, n2}
  vm1 = vm1
  vm2 = vm2
  BuiltIn <- Baseline
  First <- FirstPort
  Step <- PortStep
  Faults <- NoFaults
  NoDesktop = NoDesktop
  Absent = Absent
  Empty = Empty
  Torn = Torn
  Nobody = Nobody
SYMMETRY Symmetry
CONSTRAINT SavesApart
INVARIANTS DesktopsDistinct
