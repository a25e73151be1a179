SPECIFICATION LiveSpec
CONSTANTS
  Files = {"a", "b"}
  MaxPending = 1
  MaxDur = 2
  MaxPrints = 2
  Endings = {"complete", "error"}
  MaxUpsets = 1
INVARIANTS RecordsKept CountedOnce DoneIsDone 
PROPERTIES Settled
