SPECIFICATION Spec
CONSTANTS
  q1 = q1
  q2 = q2
  QueueJobs <- MCQueueJobs
  Nobody = Nobody
  GuardMax = 2
  Weather = {"outage"}
  MaxPrints = 3
  MaxAssigns = 2
  MaxCrashes = 0
  MaxRebuilds = 0
  MaxBacklog = 3
INVARIANTS StartedOnce
