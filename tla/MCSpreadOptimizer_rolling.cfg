CONSTANTS
  Configs <- DefaultOnly
  Markets <- FewMarkets
  Drifts <- NoDrift
  MaxDrift = 0
  NoTier = NoTier
  NoRec = NoRec
  InitialAsks <- InsideAsks
  MarketMoves = FALSE
  ConfigMoves = FALSE
  Outages = FALSE
  QuotesMissed = TRUE
SPECIFICATION Spec
INVARIANT AskInBand
