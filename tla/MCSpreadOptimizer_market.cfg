CONSTANTS
  Configs <- DefaultOnly
  Markets <- FewMarkets
  Drifts <- StepDrifts
  MaxDrift = 25
  NoTier = NoTier
  NoRec = NoRec
  InitialAsks <- InsideAsks
  MarketMoves = TRUE
  ConfigMoves = FALSE
  Outages = FALSE
  QuotesMissed = FALSE
SPECIFICATION Spec
INVARIANT AskInBand
