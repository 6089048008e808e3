\* Two client processes with one calendar; backups and restores.
SPECIFICATION Spec
CONSTANTS
  Sessions = {s1, s2}
  Clients = {c1}
  Ids = {1, 2}
  FileNames <- OneName
  IdsOf <- NewIds
  Watchers = {c1}
  Taskers = {s1, s2}
  Deleters = {s1, s2}
  Engines = {"backup", "restore"}
  KMaxTUint8 = 2
SYMMETRY SessionSymmetry
INVARIANTS
  TypeOK
  ReferencesAgree
  FilesFollowAgent
  NoTaskWhileClosed
  EndIsTold
