SPECIFICATION LiveSpec
CONSTANTS
  j1 = j1
  j2 = j2
  Uids <- MCUids
  QueueMax = 2
  DrainMax = 1
  MaxAttempts = 2
  Faults = {}
  MaxCaptures = 2
  MaxCrashes = 1
  MaxOutages = 0
PROPERTIES EventuallySettled
