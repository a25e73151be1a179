SPECIFICATION Spec
CONSTANTS
  Names = {"a", "b"}
  MaxPending = 1
  PayloadMax = 4
  Weather = {"gap", "no_id", "reprint"}
  MaxPrints = 2
  MaxDeaths = 1
  MaxRebuilds = 1
INVARIANTS RecordsKept BilledOnce 
