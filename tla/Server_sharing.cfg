\* Two clients of one session with two calendars.
SPECIFICATION FairSpec
CONSTANTS
  Sessions = {s1}
  Clients = {c1, c2}
  Ids = {1, 2}
  FileNames <- TwoNames
  IdsOf <- OneId
  Watchers = {}
  Taskers = {s1}
  Deleters = {s1}
  Engines = {"backup", "restore"}
  KMaxTUint8 = 3
INVARIANTS
  ExitOnlyWhenUnused
  CollectionIdsUnique
  LookupFindsEntry
PROPERTIES
  UnusedServerExits
  FilesAreUnlocked
