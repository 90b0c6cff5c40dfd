SPECIFICATION Spec
CONSTANTS
  w1 = w1
  w2 = w2
  s1 = s1
  s2 = s2
  u1 = u1
  u2 = u2
  u3 = u3
  x1 = x1
  Worker <- MCWorker
  Session <- MCSession
  Turn <- MCTurn
  Source <- MCSource
  None = None
SYMMETRY Symmetry
INVARIANTS
  LineageStaysInSession
  LineageKeepsSources
PROPERTY HydratesNewestOfSession
CHECK_DEADLOCK FALSE
