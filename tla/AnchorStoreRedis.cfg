SPECIFICATION FairSpec
CONSTANTS
  Thread = {t1, t2}
  Session = {s1, s2}
  Turn = {u1, u2, u3, u4}
  NoRecord = NoRecord
  TTL = 1
  MaxTime = 1
  MaxFaults = 2
INVARIANTS
  EmittedTurnsStored
  TurnKeyFollowsSessionKey
PROPERTIES
  ImplementsLedger
  SavesEnd
CHECK_DEADLOCK FALSE
