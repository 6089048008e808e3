SPECIFICATION FairSpec
CONSTANTS
  f1 = f1
  f2 = f2
  e1 = e1
  e2 = e2
  Files = {f1}
  Ids = {e1, e2}
  IdsIn <- OneFile
  Clients = {}
  FileOf <- Changes
  Ops <- EditOps
  KSkip = 2
  KFewSkip = 1
  KSnooze = 1
  KDay = 9
  KWindows = 1
  KMaxCopies = 1
  MaxAlarm = 4
  MaxTime = 4
INVARIANTS
  NotQueuedTwice
  DeletedStaysQuiet
  ListedEntriesExist
  NextAlarmIsQueued
PROPERTY
  AlarmsGoOff
