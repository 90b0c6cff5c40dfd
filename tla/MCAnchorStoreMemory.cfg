SPECIFICATION Spec
CONSTANTS
  t1 = t1
  t2 = t2
  s1 = s1
  s2 = s2
  u1 = u1
  u2 = u2
  u3 = u3
  Thread <- MCThread
  Session <- MCSession
  Turn <- MCTurn
  NoRecord = NoRecord
  TTL = 2
  MaxTime = 4
SYMMETRY Symmetry
INVARIANTS TypeOK MapsAgree EmittedTurnsResolvable 
PROPERTY ImplementsLedger
CHECK_DEADLOCK FALSE
