SPECIFICATION EndsSpec
CONSTANTS
  Fetches = {f1}
  MaxRedirects = 2
  SlowRetries = 1
  Grace = 3
  Budget = 5
  JobDelay = 3
  Clients = {c1, c2, c3}
PROPERTIES
  WedgedPanelEnds
  FetchEnds
  KilledRunsReturn
  StartEnds
  ConnectedIsAnswered
  VerdictsAreRight
CHECK_DEADLOCK FALSE
