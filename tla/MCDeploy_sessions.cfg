SPECIFICATION Spec
CONSTANTS
  Sessions = {p1, p2}
  Timer = timer
  Services = {s1}
  Trees = {s1}
  TreeOf <- OwnTree
  Embedded = {}
  Roles = {"panel", "cli"}
  CarefulUser = TRUE
  PatientExit = FALSE
  NoOne = NoOne
  NoService = NoService
SYMMETRY Sym
INVARIANTS
  TypeOK
  LockContract
  JournalTracksDeploys
  LiveBuildsAreLocked
  FinishedDeploysSurvive
PROPERTIES
  DeployUndisturbed
  ReconcileSettlesAll
