CONSTANTS
  Requests = {r1, r2, r3}
  Ops = {"pause", "resume"}
  AskSpreads = {2}
  MaxBuys = {1}
  PauseSpread = 500
  PauseBuy = 0
  NoToml = NoToml
  InitialToml <- InitialConfig
  Forms <- OperatorForms
  Overlap = FALSE
  SwapAtStart = {FALSE}
  Takers = FALSE
  Faults = {"handler"}
  Cooldown = 1
  MaxClock = 3
SPECIFICATION Spec
INVARIANT ResumeRestoresLive
