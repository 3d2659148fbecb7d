CONSTANTS
  Configs <- SavedConfigs
  Markets <- FewMarkets
  Drifts <- FewDrifts
  MaxDrift = 10
  NoTier = NoTier
  NoRec = NoRec
  InitialAsks <- FewAsks
  MarketMoves = FALSE
  ConfigMoves = TRUE
  Outages = TRUE
  QuotesMissed = TRUE
SPECIFICATION FairSpec
PROPERTIES RecommendationTowardBand Settles
