CONSTANTS
  Requests = {r1, r2}
  Ops = {"pause", "tick"}
  AskSpreads = {2}
  MaxBuys = {1}
  PauseSpread = 500
  PauseBuy = 0
  NoToml = NoToml
  InitialToml <- InitialConfig
  Forms <- OperatorForms
  Overlap = TRUE
  SwapAtStart = {FALSE}
  Takers = FALSE
  Faults = {}
  Cooldown = 1
  MaxClock = 3
SPECIFICATION Spec
PROPERTY AutoApplyRespectsPause
