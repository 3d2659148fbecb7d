CONSTANTS
  Requests = {r1, r2, r3}
  Ops = {"pause", "resume", "save", "tick"}
  AskSpreads = {2, 3}
  MaxBuys = {1}
  PauseSpread = 500
  PauseBuy = 0
  NoToml = NoToml
  InitialToml <- InitialConfig
  Forms <- OperatorForms
  Overlap = FALSE
  SwapAtStart = {TRUE, FALSE}
  Takers = TRUE
  Faults = {}
  Cooldown = 1
  MaxClock = 3
SPECIFICATION DrainSpec
INVARIANTS ResumeRestoresLive PauseResumeAlternate
PROPERTIES ImplementsAtomic AsbConverges PauseDrains
