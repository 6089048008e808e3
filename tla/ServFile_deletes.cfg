\* Asynchronous deletes beside builds and synchronous changes and writes of
\* calendar information; the delayed close.
SPECIFICATION Spec
CONSTANTS
  NoSession = NoSession
  Gone = Gone
  Sessions = {s1, s2}
  Quitters = {s1, s2}
  Entries = {1, 2}
  MaxProcessed = 4
  Tasks = {"EBuildIndex", "EDeleteEntry"}
  Writers = {s1}
  InfoWriters = {s2}
  Faults = {"step", "commit"}
  MaxCallBacks = 2
  MaxCategorySteps = 1
  Ranges <- TwoRanges
INVARIANTS
  IndexInStore
  DeleteIsolated
  IndexFileCurrent
  CallBacksHaveRequest
PROPERTIES
  DeleteAtomicOnDisk
  SuccessMeansDeleted
  UnusedFileCloses
