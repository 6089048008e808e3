\* Builds and category tasks of three sessions, against the abstract queue.
INIT Init
NEXT Next
CONSTANTS
  NoSession = NoSession
  Gone = Gone
  Sessions = {s1, s2, s3}
  Quitters = {s1, s2, s3}
  Entries = {1, 2, 3}
  MaxProcessed = 5
  Tasks = {"EBuildIndex", "EFilterCategory"}
  Writers = {}
  InfoWriters = {}
  Faults = {"load"}
  MaxCallBacks = 1
  MaxCategorySteps = 1
  Ranges <- OneRange
SYMMETRY SessionSymmetry
INVARIANTS
  TypeOK
  HeldIffQueued
  FileReferenced
PROPERTIES
  CancelTouchesOwn
  ImplementsQueue
