CONSTANTS
  Swaps = {s1}
  Undated = {}
  Null = Null
  FirstNow = 5
  MaxNow = 7
  MaxFaults = 0
  HoursPerDay = 2
  KrakenHours = 720
  Sampled = TRUE
SPECIFICATION Spec
CHECK_DEADLOCK FALSE
INVARIANT BackfillEndsStalePrices
