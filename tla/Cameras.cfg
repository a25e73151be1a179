SPECIFICATION Spec
CONSTANTS
  Targets <- MCTargets
  Source <- MCSource
  Workers = 2
  EdgeBeats = 1
  MidBeats = 2
  IdleBeats = 3
  Retries = 1
  MaxChanges = 2
INVARIANTS HangingDoNotStarve NoBlackout ColdAfterBreak ModelVerified
PROPERTIES ReenabledIsDue
