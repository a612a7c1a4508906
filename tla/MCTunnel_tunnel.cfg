SPECIFICATION Spec
CONSTANTS
  Panels = {p1}
  Cleaners = {c1}
  Sups = {a, b}
  NoPid = NoPid
  Overlap = FALSE
SYMMETRY Sym
INVARIANTS
  TypeOK
  NoHiddenTunnel
  LiveRowsPublished
  ExitLeavesNothing
