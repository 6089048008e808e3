--------------------------- MODULE AgnEntryModel ---------------------------
(***************************************************************************)
(* The entry model of one calendar file (CAgnEntryModel of the agenda      *)
(* server), as operators on a record.  An entry stands for the stream that *)
(* holds it and is a number: the order of the numbers is the order of the  *)
(* stream id set.                                                          *)
(*                                                                         *)
(*   committed  the entries the stream id set on the disk names            *)
(*   lost       those of them whose streams are not on the disk any more   *)
(*   store      the entries in the set, uncommitted changes included       *)
(*   index      the entries the indexes in RAM know                        *)
(*   added      iAddRollbackArray,  deleted  iDeleteRollbackArray          *)
(*   pos        iPos, the iterator of the stream id set                    *)
(*   num        iNumStreamsProcessed                                       *)
(*   indexFile  the index file on the disk: the set of the index in it,    *)
(*              or empty if there is none (or only a dirty one)            *)
(*   present    iIndexFileIsPresent                                        *)
(***************************************************************************)
EXTENDS Naturals, FiniteSets

CONSTANTS Entries,        \* the entries a calendar file may hold
          MaxProcessed    \* bound: the count of processed streams

ASSUME EntriesAssumption ==
  /\ Entries \subseteq Nat /\ IsFiniteSet(Entries)
  /\ MaxProcessed \in Nat /\ MaxProcessed >= Cardinality(Entries) + 2

ModelType == [committed : SUBSET Entries, lost : SUBSET Entries,
              store : SUBSET Entries, index : SUBSET Entries,
              added : SUBSET Entries, deleted : SUBSET Entries,
              pos : Nat, num : Nat,
              indexFile : SUBSET SUBSET Entries, present : BOOLEAN]

\* A model just read from a file whose set names the entries E and whose
\* streams L are missing: nothing is indexed yet.
NewModel(E, L, F) == [committed |-> E, lost |-> L, store |-> E, index |-> {},
                      added |-> {}, deleted |-> {}, pos |-> 0, num |-> 0,
                      indexFile |-> F, present |-> TRUE]

StreamsAreEmpty(m) == m.store = {}

\* The entries a server that starts now can read from the file.
OnDisk(m) == m.committed \ m.lost

-----------------------------------------------------------------------------
(* Transactions *)

\* Every entry put into or taken out of the indexes removes the index file.
MarkNothingDirty(m, D) == m.indexFile   \* faulty variant: the file stays

MarkIndexFileAsDirty(m, D) == IF D = {} THEN m.indexFile ELSE {}

\* Faulty variant of CommitL: the rollback arrays are not reset.
CommitKeepsRollback(m) == [m EXCEPT !.committed = m.store, !.lost = @ \cap m.store]

\* Faulty variant of CommitL: the store is not committed.
CommitForgetsStore(m) == [m EXCEPT !.added = {}, !.deleted = {}]

CommitL(m) == [m EXCEPT !.committed = m.store, !.lost = @ \cap m.store,
                        !.added = {}, !.deleted = {}]

\* CAgnServFile::SetCalendarInfoL commits the streams and nothing else: not the
\* stream id set, and the rollback arrays stay.
CommitStore(m) == [m EXCEPT !.lost = @ \cup (m.committed \ m.store)]

\* RollbackIndexesL: what was added leaves the indexes, what is still in the
\* rollback array of deletes enters them again.
RollbackIndexes(m) == (m.index \ m.added) \cup m.deleted

Rollback(m) ==
  [m EXCEPT !.store = m.committed, !.index = RollbackIndexes(m),
            !.added = {}, !.deleted = {},
            !.indexFile = MarkIndexFileAsDirty(m, (m.added \cap m.index) \cup m.deleted)]

DeleteEntries(m, D) ==
  [m EXCEPT !.store = @ \ D, !.index = @ \ D, !.deleted = @ \cup D,
            !.indexFile = MarkIndexFileAsDirty(m, D)]

ResetDeleteRollbackArray(m) == [m EXCEPT !.deleted = {}]

\* Faulty variant of DeleteTidiedEntries: every batch is committed.
DeleteAndCommitBatch(m, D) == CommitL(DeleteEntries(m, D))

\* One full batch of the asynchronous delete.
DeleteTidiedEntries(m, D) == ResetDeleteRollbackArray(DeleteEntries(m, D))

-----------------------------------------------------------------------------
(* Building the indexes, two streams at a time *)

\* ResetIndexes: the count of processed streams is reset only for an empty set.
ResetIndexes(m) == [m EXCEPT !.index = {}, !.pos = 0,
                             !.num = IF m.store = {} THEN 0 ELSE @]

\* DoLoadIndexFile: the first step takes a whole index from the index file.
CanLoadIndexFile(m) == m.present /\ m.indexFile # {}

LoadIndexFile(m) == [m EXCEPT !.index = UNION m.indexFile]

\* The index file could not be read and is removed.
WithoutIndexFile(m) == [m EXCEPT !.indexFile = {}, !.present = FALSE]

SaveIndexFile(m) == [m EXCEPT !.indexFile = {m.index}]

StreamCount(m) == Cardinality(m.store)

\* The n streams from position pos on.
StreamsFrom(m, n) ==
  {e \in m.store : LET p == Cardinality({d \in m.store : d < e})
                   IN m.pos <= p /\ p < m.pos + n}

\* A step returns when the count of processed streams is even.
StepSize(m) == IF m.num % 2 = 0 THEN 2 ELSE 1

\* The step reaches the last stream before its count is even.
LastStep(m) == StreamCount(m) <= m.pos + StepSize(m)

\* Increments of the count the step makes if nothing stops it.
Increments(m) == IF LastStep(m) THEN StreamCount(m) - m.pos - 1 ELSE StepSize(m)

\* The assertion iNumStreamsProcessed <= Count() fails in this step.
CountOverrun(m) ==
  /\ ~CanLoadIndexFile(m) /\ StreamCount(m) > m.pos
  /\ Increments(m) > 0 /\ m.num + Increments(m) > StreamCount(m)

\* Streams read when the assertion fails: the one that carries the count over.
ReadBeforeOverrun(m) == IF m.num >= StreamCount(m) THEN 1
                        ELSE StreamCount(m) - m.num + 1

\* The step comes to a stream that is not there.
MeetsLost(m) ==
  /\ ~CanLoadIndexFile(m) /\ StreamCount(m) > m.pos
  /\ m.lost \cap StreamsFrom(m, IF CountOverrun(m) THEN ReadBeforeOverrun(m)
                                 ELSE StepSize(m)) # {}

\* A count beyond the bound keeps its parity: it is past any set of streams.
Processed(m, k) == IF m.num + k > MaxProcessed THEN (m.num + k) - 2 ELSE m.num + k

\* n streams enter the indexes and the iterator moves k times.
IndexStreams(m, n, k) ==
  [m EXCEPT !.index = @ \cup StreamsFrom(m, n), !.added = @ \cup StreamsFrom(m, n),
            !.pos = @ + k, !.num = Processed(m, k),
            !.indexFile = {}, !.present = FALSE]

\* DoIndexBuildStepL reports 100 per cent ...
IndexBuildDone(m) == \/ CanLoadIndexFile(m)
                     \/ LastStep(m)
                     \/ m.num + Increments(m) = StreamCount(m)

\* ... and the model after the step.
DoIndexBuildStep(m) ==
  IF CanLoadIndexFile(m) THEN LoadIndexFile(m)
  ELSE IF StreamCount(m) <= m.pos THEN SaveIndexFile(WithoutIndexFile(m))
  ELSE IF CountOverrun(m) THEN IndexStreams(m, ReadBeforeOverrun(m), ReadBeforeOverrun(m))
  ELSE IF IndexBuildDone(m) THEN SaveIndexFile(IndexStreams(m, StepSize(m), Increments(m)))
  ELSE IndexStreams(m, StepSize(m), Increments(m))

\* The step leaves at the stream after the next n.
FailsAfter(m, n) == StreamsFrom(m, n + 1) \cap m.lost # {}

\* The model when the step leaves after it read n streams of its StepSize.
FailedIndexBuildStep(m, n) == IndexStreams(m, n, n)
=============================================================================
