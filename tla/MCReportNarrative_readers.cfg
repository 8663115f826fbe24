SPECIFICATION NarrativeSpec
CONSTANTS
  Requests = {q1}
  Conditions = {c1}
  Participants = {user}
  PersonalBot = pbot
  Workers = 1
  Faults <- ReportsStored
  MaxRuns = 1
  MaxBots = 1
  MaxRestarts = 0
  Readers = {x1, x2}
  Threads = {t1, t2}
INVARIANT OneNarrativeAtATime
PROPERTIES DeterministicFirst CompletedGetsReport
CHECK_DEADLOCK FALSE
