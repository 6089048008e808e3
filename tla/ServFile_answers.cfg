\* No client cancels, closes or ends: everybody is answered.
SPECIFICATION Spec
CONSTANTS
  NoSession = NoSession
  Gone = Gone
  Sessions = {s1, s2}
  Quitters = {}
  Entries = {1, 2}
  MaxProcessed = 4
  Tasks = {"EBuildIndex", "EDeleteEntry", "EDeleteCategory"}
  Writers = {}
  InfoWriters = {}
  Faults = {"step", "commit"}
  MaxCallBacks = 1
  MaxCategorySteps = 2
  Ranges <- OneRange
PROPERTIES
  RequestsAnswered
