SPECIFICATION LiveSpec
CONSTANTS
  q1 = q1
  q2 = q2
  QueueJobs <- MCQueueJobs
  Nobody = Nobody
  GuardMax = 2
  Weather = {}
  MaxPrints = 3
  MaxAssigns = 3
  MaxCrashes = 0
  MaxRebuilds = 1
  MaxBacklog = 3
INVARIANTS MapRespected 
PROPERTIES Resolved
