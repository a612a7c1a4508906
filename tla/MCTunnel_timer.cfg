SPECIFICATION Spec
CONSTANTS
  Panels = {p1}
  Cleaners = {c1}
  Sups = {a}
  NoPid = NoPid
  Overlap = FALSE
INVARIANT
  CleanupSparesLiveShares
