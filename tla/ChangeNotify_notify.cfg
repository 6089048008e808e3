\* One watcher, another session, three changes, buffers of two.
SPECIFICATION Spec
CONSTANTS
  Watcher = w
  Others = {o}
  Disablers = {o}
  Changes = {c1, c2, c3}
  MaxBuffered = 2
  MaxRequests = 2
INVARIANTS
  TypeOK
  MessageIffRequested
  NoLostWakeup
  EntryChangesCovered
  FileChangesCovered
  CancelReturns
  NeverCancelled
PROPERTIES
  EntryChangesReported
