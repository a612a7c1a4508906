SPECIFICATION Spec
CONSTANTS
  Sessions = {p1, p2}
  Timer = timer
  Services = {s1}
  Trees = {s1}
  TreeOf <- OwnTree
  Embedded = {}
  Roles = {"panel"}
  CarefulUser = TRUE
  PatientExit = TRUE
  NoOne = NoOne
  NoService = NoService
PROPERTY ForeignBuildsSurvive
