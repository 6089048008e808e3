SPECIFICATION Spec
CONSTANTS
  f1 = f1
  f2 = f2
  e1 = e1
  e2 = e2
  Files = {f1, f2}
  Ids = {e1, e2}
  IdsIn <- TwoInOne
  Clients = {c1}
  FileOf <- Changes
  Ops <- ServerOps
  KSkip = 0
  KFewSkip = 0
  KSnooze = 1
  KDay = 1
  KWindows = 1
  KMaxCopies = 1
  MaxAlarm = 1
  MaxTime = 1
INVARIANTS
  TypeOK
  SessionAlarmAgrees
