CONSTANTS
  Us = "us"
  NoTier = NoTier
  Unknown = Unknown
  MaxScans = 2
  PollLimit = 3
  Listings <- SampleListings
  OurSpreads <- SampleSpreads
  Disabled = Disabled
  Nothing = Nothing
  Faults = {"kube", "db", "crash"}
SPECIFICATION FairSpec
INVARIANTS CompletedScansAreWhole AdviceHolds
PROPERTY ScansEnd
