SPECIFICATION Spec
CONSTANTS
  Requests = {q1}
  Conditions = {c1}
  Participants = {user, pbot}
  PersonalBot = pbot
  Workers = 1
  Faults <- StageFaults
  MaxRuns = 1
  MaxBots = 1
  MaxRestarts = 1
PROPERTY RunSettles
CHECK_DEADLOCK FALSE
