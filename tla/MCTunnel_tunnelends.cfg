SPECIFICATION FairSpec
CONSTANTS
  Panels = {p1}
  Cleaners = {c1}
  Sups = {a}
  NoPid = NoPid
  Overlap = TRUE
PROPERTIES
  TunnelsDieWithPanel
  LostSharesAreSwept
