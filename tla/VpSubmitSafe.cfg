SPECIFICATION Spec
CONSTANTS
  j1 = j1
  j2 = j2
  Uids <- MCUids
  QueueMax = 1
  DrainMax = 1
  MaxAttempts = 2
  Faults = {"capture", "retry", "remove", "model"}
  MaxCaptures = 2
  MaxCrashes = 1
  MaxOutages = 1
SYMMETRY UidSymmetry
INVARIANTS TypeOK DurableCustody DeadletterEarned
PROPERTIES ImplementsLedger
