SPECIFICATION NarrativeSpec
CONSTANTS
  Requests = {q1, q2}
  Conditions = {c1}
  Participants = {user}
  PersonalBot = pbot
  Workers = 1
  Faults <- ThreadsStart
  MaxRuns = 1
  MaxBots = 0
  MaxRestarts = 1
  Readers = {x1}
  Threads = {t1, t2}
INVARIANTS
  NarrativeTypeOK
  InProgressIsAlive
  CacheIsBacked
PROPERTY NarrativeEnds
CHECK_DEADLOCK FALSE
