SPECIFICATION Spec
CONSTANTS
  Posts = {p1, p2}
  NoJob = NoJob
  Users = {u1}
  Inputs = {i1}
  MaxRestarts = 0
INVARIANT AtMostOneCompile
CHECK_DEADLOCK FALSE
