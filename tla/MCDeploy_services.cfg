SPECIFICATION Spec
CONSTANTS
  Sessions = {p1}
  Timer = timer
  Services = {s1, s2}
  Trees = {s1, s2}
  TreeOf <- OwnTree
  Embedded = {}
  Roles = {"panel"}
  CarefulUser = TRUE
  PatientExit = TRUE
  NoOne = NoOne
  NoService = NoService
SYMMETRY Sym
CONSTRAINT RepairNext
PROPERTIES
  NoSelfDeferral
  RefinesCleanRemoval
