\* A calendar is closed during a backup.
SPECIFICATION FairSpec
CONSTANTS
  Sessions = {s1, s2}
  Clients = {c1, c2}
  Ids = {1, 2}
  FileNames <- TwoNames
  IdsOf <- OneId
  Watchers = {}
  Taskers = {}
  Deleters = {}
  Engines = {"backup", "restore"}
  KMaxTUint8 = 3
INVARIANTS
  SessionsUnlockedAfterEnd
