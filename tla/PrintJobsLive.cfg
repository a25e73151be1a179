SPECIFICATION LiveSpec
CONSTANTS
  Names = {"a"}
  MaxPending = 1
  PayloadMax = 4
  Weather = {"no_id", "reprint"}
  MaxPrints = 2
  MaxDeaths = 1
  MaxRebuilds = 1
PROPERTIES EventuallyBilled
