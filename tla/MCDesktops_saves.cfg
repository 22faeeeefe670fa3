SPECIFICATION Spec
CONSTANTS
  Threads = {t1, t2}
  Ids = {d1}
  Names = {vm1, vm2, n1}
  vm1 = vm1
  vm2 = vm2
  BuiltIn <- Baseline
  First <- FirstPort
  Step <- PortStep
  Faults <- AllFaults
  NoDesktop = NoDesktop
  Absent = Absent
  Empty = Empty
  Torn = Torn
  Nobody = Nobody
SYMMETRY Symmetry
INVARIANTS TypeOK FileReadable AnswersAreDurable
PROPERTIES QuietSaveRepairs ImplementsRegistry
