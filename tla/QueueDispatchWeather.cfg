SPECIFICATION Spec
CONSTANTS
  q1 = q1
  q2 = q2
  QueueJobs <- MCQueueJobs
  Nobody = Nobody
  GuardMax = 2
  Weather = {"outage", "foreign", "slow"}
  MaxPrints = 2
  MaxAssigns = 1
  MaxCrashes = 1
  MaxRebuilds = 1
  MaxBacklog = 2
SYMMETRY QueueJobSymmetry
INVARIANTS TrackedOnce
