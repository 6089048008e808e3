\* A statement of the sources that the code does not keep.
INIT Init
NEXT Next
CONSTANTS
  NoSession = NoSession
  Gone = Gone
  Sessions = {s1, s2}
  Quitters = {s1, s2}
  Entries = {1, 2}
  MaxProcessed = 4
  Tasks = {"EBuildIndex", "EDeleteEntry"}
  Writers = {}
  InfoWriters = {}
  Faults = {}
  MaxCallBacks = 1
  MaxCategorySteps = 1
  Ranges <- OneRange
PROPERTIES
  SessionNotUsedAgain
