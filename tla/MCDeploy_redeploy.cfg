SPECIFICATION Spec
CONSTANTS
  Sessions = {p1}
  Timer = timer
  Services = {s1}
  Trees = {s1}
  TreeOf <- OwnTree
  Embedded = {}
  Roles = {"panel"}
  CarefulUser = TRUE
  PatientExit = TRUE
  NoOne = NoOne
  NoService = NoService
INVARIANT CleanupSparesLiveServices
