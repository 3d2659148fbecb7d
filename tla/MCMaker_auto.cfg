CONSTANTS
  Requests = {r1, r2, r3}
  Ops = {"pause", "resume", "tick", "apply"}
  AskSpreads = {2}
  MaxBuys = {1}
  PauseSpread = 500
  PauseBuy = 0
  NoToml = NoToml
  InitialToml <- InitialConfig
  Forms <- OperatorForms
  Overlap = TRUE
  SwapAtStart = {FALSE}
  Takers = FALSE
  Faults = {"handler"}
  Cooldown = 2
  MaxClock = 4
SPECIFICATION Spec
SYMMETRY Symmetry
INVARIANT CooldownRespected
PROPERTY OldPausesRespected
