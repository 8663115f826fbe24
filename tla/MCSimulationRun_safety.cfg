SPECIFICATION Spec
CONSTANTS
  Requests = {q1, q2}
  Conditions = {c1}
  Participants = {user, pbot}
  PersonalBot = pbot
  Workers = 1
  Faults <- AllFaults
  MaxRuns = 2
  MaxBots = 2
  MaxRestarts = 1
INVARIANTS
  TypeOK
  RunningIsOwned
  HitServesQuestion
PROPERTIES ImplementsBoard RunSettlesInProcess
CHECK_DEADLOCK FALSE
