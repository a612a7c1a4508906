SPECIFICATION PartsSpec
CONSTANTS
  Targets = {t1, t2}
  NoTarget = NoTarget
  MaxJobs = 2
  Steps <- ShortWizard
  Writers = {w1, w2}
  Stopped = {t1}
  Cap = 1
  Keep = 1
  MaxLines = 3
  Windows = {w1}
  Versions = {v1, v2}
  NoPin = NoPin
  Sizes <- FileSizes
  Ignored = {2}
  Segment = 2
  Workers = {a, b}
  CloneRetries = 2
  Newest = 2
  Segments = {s1, s2}
  Plugins = {p1, p2}
  Revisions = 2
  MaxNotes = 1
  MaxFindings = 2
  Core = {g1, g2}
  Niche = {n1}
  MaxHosts = 2
  MaxEngines = 3
  Procs = {p1, p2}
  Rotate = 2
  KeepCrash = 1
  MaxRecords = 5
  MaxScans = 2
  MaxDeploys = 2
  MaxOpens = 2
  JournalLines = 2
INVARIANTS
  SpinnersHaveWorkers
  ConsentDeploysOnce
  ReviewAsConfirmed
  
  PinnedTreeKept
  UnpinnedTreeWhole
  UsedToolsMeetTheBar
  BuildInputsPinned
  SeededZipsWhole
  OfflineBuildProvided
  LockedIsProved
  CoreSurvivesTheCap
  LogsStaySmall
  AnswersAreTheirOwn
PROPERTIES
  UserListKept
CHECK_DEADLOCK FALSE
