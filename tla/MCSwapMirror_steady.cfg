CONSTANTS
  Swaps = {s1, s2}
  Undated = {s2}
  Null = Null
  FirstNow = 1
  MaxNow = 5
  MaxFaults = 1
  HoursPerDay = 1
  KrakenHours = 720
  Sampled = TRUE
SPECIFICATION FairSpec
CHECK_DEADLOCK FALSE
INVARIANTS ProfitMatchesOutcome PricedWithinTheHour
PROPERTY EndedSwapsAreBooked
