SPECIFICATION FairSpec
CONSTANTS
  Sessions = {p1}
  Timer = timer
  Services = {s1}
  Trees = {s1}
  TreeOf <- OwnTree
  Embedded = {s1}
  Roles = {"panel", "cli"}
  CarefulUser = TRUE
  PatientExit = FALSE
  NoOne = NoOne
  NoService = NoService
INVARIANTS
  UnitsAreAccounted
PROPERTIES
  InterruptedIsCleaned
  DeployEnds
  ExitEnds
