CONSTANTS
  Requests = {r1, r2, r3}
  Ops = {"pause", "resume", "save"}
  AskSpreads = {2, 3}
  MaxBuys = {1}
  PauseSpread = 500
  PauseBuy = 0
  NoToml = NoToml
  InitialToml <- InitialConfig
  Forms <- OperatorForms
  Overlap = TRUE
  SwapAtStart = {FALSE}
  Takers = FALSE
  Faults = {"handler", "pod"}
  Cooldown = 2
  MaxClock = 3
SPECIFICATION Spec
SYMMETRY Symmetry
INVARIANTS TypeOK StaleAsbAccounted ConfigAudited
