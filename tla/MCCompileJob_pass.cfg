SPECIFICATION Spec
CONSTANTS
  Posts = {p1, p2, p3}
  NoJob = NoJob
  Users = {u1}
  Inputs = {i1, i2}
  MaxRestarts = 1
INVARIANTS
  TypeOK
  PublishedBotAnswersInput
  ToldJobIsKnown
PROPERTIES
  SlotReleasedByOwner
  PollEnds
  SlotFrees
CHECK_DEADLOCK FALSE
