------------------------ MODULE AgnEntryModelProofs ------------------------
(***************************************************************************)
(* What the operators of AgnEntryModel preserve: a model stays a model     *)
(* whose indexes, rollback arrays and index file name entries of the file. *)
(***************************************************************************)
EXTENDS AgnEntryModel, FiniteSetTheorems, TLAPS

\* The indexes and the index file name entries of the store, which holds no
\* more than the set on the disk; a rollback reinstates what was there, and what
\* is lost was there.
ModelOK(m) == /\ m \in ModelType
              /\ m.index \subseteq m.store
              /\ m.store \subseteq m.committed
              /\ m.deleted \subseteq m.committed
              /\ m.lost \subseteq m.committed
              /\ UNION m.indexFile \subseteq m.store

LEMMA NewModelOK ==
  ASSUME NEW E \in SUBSET Entries, NEW L \in SUBSET E,
         NEW F \in SUBSET SUBSET Entries, UNION F \subseteq E
  PROVE  ModelOK(NewModel(E, L, F))
  BY DEF ModelOK, ModelType, NewModel

LEMMA CommitOK ==
  ASSUME NEW m, ModelOK(m)
  PROVE  /\ ModelOK(CommitL(m))
         /\ CommitL(m).committed = m.store /\ CommitL(m).store = m.store
         /\ CommitL(m).index = m.index
  BY DEF ModelOK, ModelType, CommitL

\* A commit of the streams changes nothing but what is lost.
LEMMA CommitStoreOK ==
  ASSUME NEW m, ModelOK(m)
  PROVE  /\ ModelOK(CommitStore(m))
         /\ CommitStore(m).committed = m.committed /\ CommitStore(m).store = m.store
         /\ CommitStore(m).index = m.index /\ CommitStore(m).indexFile = m.indexFile
  BY DEF ModelOK, ModelType, CommitStore

LEMMA RollbackOK ==
  ASSUME NEW m, ModelOK(m)
  PROVE  /\ ModelOK(Rollback(m))
         /\ Rollback(m).committed = m.committed /\ Rollback(m).lost = m.lost
  BY DEF ModelOK, ModelType, Rollback, RollbackIndexes, MarkIndexFileAsDirty

LEMMA DeleteEntriesOK ==
  ASSUME NEW m, ModelOK(m), NEW D \in SUBSET m.committed
  PROVE  /\ ModelOK(DeleteEntries(m, D))
         /\ DeleteEntries(m, D).committed = m.committed
         /\ DeleteEntries(m, D).lost = m.lost
         /\ DeleteEntries(m, D).store = m.store \ D
         /\ DeleteEntries(m, D).index = m.index \ D
  <1>1. D = {} \/ MarkIndexFileAsDirty(m, D) = {}
    BY DEF MarkIndexFileAsDirty
  <1>2. DeleteEntries(m, D) \in ModelType
    BY DEF DeleteEntries, ModelOK, ModelType, MarkIndexFileAsDirty
  <1> QED
    BY <1>1, <1>2 DEF ModelOK, ModelType, DeleteEntries, MarkIndexFileAsDirty

LEMMA DeleteTidiedEntriesOK ==
  ASSUME NEW m, ModelOK(m), NEW D \in SUBSET m.committed
  PROVE  /\ ModelOK(DeleteTidiedEntries(m, D))
         /\ DeleteTidiedEntries(m, D).committed = m.committed
         /\ DeleteTidiedEntries(m, D).lost = m.lost
         /\ DeleteTidiedEntries(m, D).store = m.store \ D
         /\ DeleteTidiedEntries(m, D).index = m.index \ D
  BY DeleteEntriesOK DEF DeleteTidiedEntries, ResetDeleteRollbackArray, ModelOK, ModelType

LEMMA ResetIndexesOK ==
  ASSUME NEW m, ModelOK(m)
  PROVE  /\ ModelOK(ResetIndexes(m))
         /\ ResetIndexes(m).committed = m.committed /\ ResetIndexes(m).lost = m.lost
  BY DEF ModelOK, ModelType, ResetIndexes

LEMMA WithoutIndexFileOK ==
  ASSUME NEW m, ModelOK(m)
  PROVE  /\ ModelOK(WithoutIndexFile(m))
         /\ WithoutIndexFile(m).committed = m.committed
         /\ WithoutIndexFile(m).store = m.store
  BY DEF ModelOK, ModelType, WithoutIndexFile

LEMMA SaveIndexFileOK ==
  ASSUME NEW m, ModelOK(m)
  PROVE  ModelOK(SaveIndexFile(m)) /\ SaveIndexFile(m).committed = m.committed
  BY DEF ModelOK, ModelType, SaveIndexFile

LEMMA LoadIndexFileOK ==
  ASSUME NEW m, ModelOK(m)
  PROVE  ModelOK(LoadIndexFile(m)) /\ LoadIndexFile(m).committed = m.committed
  BY DEF ModelOK, ModelType, LoadIndexFile

\* The number of streams is a number: the files are finite.
LEMMA StreamCountType ==
  ASSUME NEW m, m \in ModelType
  PROVE  StreamCount(m) \in Nat
  <1>1. IsFiniteSet(m.store)
    BY EntriesAssumption, FS_Subset DEF ModelType
  <1> QED
    BY <1>1, FS_CardinalityType DEF StreamCount

LEMMA IndexStreamsOK ==
  ASSUME NEW m, ModelOK(m), NEW n \in Nat, NEW k \in Nat
  PROVE  ModelOK(IndexStreams(m, n, k)) /\ IndexStreams(m, n, k).committed = m.committed
  <1>1. StreamsFrom(m, n) \subseteq m.store
    BY DEF StreamsFrom
  <1>2. MaxProcessed \in Nat /\ MaxProcessed >= 2
    <2>1. Cardinality(Entries) \in Nat
      BY EntriesAssumption, FS_CardinalityType
    <2> QED
      BY <2>1, EntriesAssumption
  <1>3. Processed(m, k) \in Nat
    BY <1>2 DEF Processed, ModelOK, ModelType
  <1>4. IndexStreams(m, n, k) \in ModelType
    <2>1. ASSUME NEW I \in SUBSET Entries, NEW A \in SUBSET Entries,
                 NEW p \in Nat, NEW q \in Nat, NEW F \in SUBSET SUBSET Entries
          PROVE  [m EXCEPT !.index = I, !.added = A, !.pos = p, !.num = q,
                           !.indexFile = F, !.present = FALSE] \in ModelType
      BY DEF ModelOK, ModelType
    <2>2. /\ m.index \cup StreamsFrom(m, n) \in SUBSET Entries
          /\ m.added \cup StreamsFrom(m, n) \in SUBSET Entries
      BY <1>1 DEF ModelOK, ModelType
    <2>3. m.pos + k \in Nat /\ {} \in SUBSET SUBSET Entries
      BY DEF ModelOK, ModelType
    <2> QED
      BY <2>1, <2>2, <2>3, <1>3 DEF IndexStreams
  <1>5. UNION {} = {}
    OBVIOUS
  <1> QED
    BY <1>1, <1>4, <1>5 DEF IndexStreams, ModelOK, ModelType

LEMMA StepSizeType ==
  ASSUME NEW m
  PROVE  StepSize(m) \in {1, 2}
  BY DEF StepSize

\* A step of the index build keeps the model consistent and the file unchanged.
LEMMA DoIndexBuildStepOK ==
  ASSUME NEW m, ModelOK(m)
  PROVE  ModelOK(DoIndexBuildStep(m)) /\ DoIndexBuildStep(m).committed = m.committed
  <1>1. StreamCount(m) \in Nat /\ m.pos \in Nat /\ m.num \in Nat /\ StepSize(m) \in Nat
    BY StreamCountType, StepSizeType DEF ModelOK, ModelType
  <1>2. CASE CanLoadIndexFile(m)
    BY <1>2, LoadIndexFileOK DEF DoIndexBuildStep
  <1>3. CASE ~CanLoadIndexFile(m) /\ StreamCount(m) <= m.pos
    BY <1>3, WithoutIndexFileOK, SaveIndexFileOK DEF DoIndexBuildStep
  <1>4. CASE ~CanLoadIndexFile(m) /\ ~(StreamCount(m) <= m.pos) /\ CountOverrun(m)
    <2>1. ReadBeforeOverrun(m) \in Nat
      BY <1>1 DEF ReadBeforeOverrun
    <2> QED
      BY <1>4, <2>1, IndexStreamsOK DEF DoIndexBuildStep
  <1>5. CASE ~CanLoadIndexFile(m) /\ ~(StreamCount(m) <= m.pos) /\ ~CountOverrun(m)
    <2>1. Increments(m) \in Nat
      BY <1>1, <1>5 DEF Increments
    <2>2. ModelOK(IndexStreams(m, StepSize(m), Increments(m)))
          /\ IndexStreams(m, StepSize(m), Increments(m)).committed = m.committed
      BY <1>1, <2>1, IndexStreamsOK
    <2> QED
      BY <1>5, <2>2, SaveIndexFileOK DEF DoIndexBuildStep
  <1> QED
    BY <1>2, <1>3, <1>4, <1>5

LEMMA FailedIndexBuildStepOK ==
  ASSUME NEW m, ModelOK(m), NEW n \in Nat
  PROVE  /\ ModelOK(FailedIndexBuildStep(m, n))
         /\ FailedIndexBuildStep(m, n).committed = m.committed
  BY IndexStreamsOK DEF FailedIndexBuildStep

-----------------------------------------------------------------------------
(* The index file *)

\* The file holds at most one index, and the index in RAM is the one in it.
OneIndexFile(m) == \A F, G \in m.indexFile : F = G
Current(m)      == m.indexFile # {} => m.indexFile = {m.index}

LEMMA CurrentIsOne ==
  ASSUME NEW m, Current(m)
  PROVE  OneIndexFile(m)
  BY DEF Current, OneIndexFile

\* Transactions take the index file away before the indexes change.
LEMMA TransactionsKeepCurrent ==
  ASSUME NEW m, m \in ModelType, NEW D \in SUBSET Entries, Current(m)
  PROVE  /\ Current(CommitL(m)) /\ Current(Rollback(m))
         /\ Current(DeleteEntries(m, D)) /\ Current(DeleteTidiedEntries(m, D))
  <1>1. Current(CommitL(m))
    BY DEF Current, CommitL, ModelType
  <1>2. Current(Rollback(m))
    BY DEF Current, Rollback, RollbackIndexes, MarkIndexFileAsDirty, ModelType
  <1>3. Current(DeleteEntries(m, D))
    BY DEF Current, DeleteEntries, MarkIndexFileAsDirty, ModelType
  <1>4. Current(DeleteTidiedEntries(m, D))
    BY <1>3 DEF Current, DeleteTidiedEntries, ResetDeleteRollbackArray, DeleteEntries, ModelType
  <1> QED
    BY <1>1, <1>2, <1>3, <1>4

LEMMA CommitStoreKeepsFile ==
  ASSUME NEW m, m \in ModelType
  PROVE  /\ Current(m) => Current(CommitStore(m))
         /\ OneIndexFile(m) => OneIndexFile(CommitStore(m))
  BY DEF Current, OneIndexFile, CommitStore, ModelType

LEMMA TransactionsKeepOne ==
  ASSUME NEW m, m \in ModelType, NEW D \in SUBSET Entries, OneIndexFile(m)
  PROVE  /\ OneIndexFile(CommitL(m)) /\ OneIndexFile(Rollback(m))
         /\ OneIndexFile(DeleteEntries(m, D)) /\ OneIndexFile(DeleteTidiedEntries(m, D))
         /\ OneIndexFile(ResetIndexes(m)) /\ OneIndexFile(WithoutIndexFile(m))
  BY DEF OneIndexFile, CommitL, Rollback, DeleteEntries, DeleteTidiedEntries, ResetIndexes,
     ResetDeleteRollbackArray, MarkIndexFileAsDirty, WithoutIndexFile, ModelType

\* A build begins with the index file, or replaces it.
LEMMA BuildMakesCurrent ==
  ASSUME NEW m, m \in ModelType, OneIndexFile(m)
  PROVE  Current(DoIndexBuildStep(m)) /\ Current(CommitL(DoIndexBuildStep(m)))
  <1>1. CASE CanLoadIndexFile(m)
    <2>1. PICK F : m.indexFile = {F}
      BY <1>1 DEF CanLoadIndexFile, OneIndexFile
    <2>2. UNION {F} = F
      OBVIOUS
    <2>3. LoadIndexFile(m).index = F /\ LoadIndexFile(m).indexFile = {F}
      BY <2>1, <2>2 DEF LoadIndexFile, ModelType
    <2>4. /\ CommitL(LoadIndexFile(m)).index = F
          /\ CommitL(LoadIndexFile(m)).indexFile = {F}
      BY <2>3 DEF LoadIndexFile, CommitL, ModelType
    <2> QED
      BY <1>1, <2>3, <2>4 DEF DoIndexBuildStep, Current
  <1>2. ASSUME NEW n, NEW k
        PROVE  /\ IndexStreams(m, n, k).indexFile = {}
               /\ CommitL(IndexStreams(m, n, k)).indexFile = {}
    BY DEF IndexStreams, CommitL, ModelType
  <1>3. ASSUME NEW n, NEW k
        PROVE  /\ Current(SaveIndexFile(IndexStreams(m, n, k)))
               /\ Current(CommitL(SaveIndexFile(IndexStreams(m, n, k))))
    BY DEF IndexStreams, SaveIndexFile, CommitL, Current, ModelType
  <1>4. /\ Current(SaveIndexFile(WithoutIndexFile(m)))
        /\ Current(CommitL(SaveIndexFile(WithoutIndexFile(m))))
    BY DEF SaveIndexFile, WithoutIndexFile, CommitL, Current, ModelType
  <1>5. ASSUME NEW n, NEW k
        PROVE  Current(IndexStreams(m, n, k)) /\ Current(CommitL(IndexStreams(m, n, k)))
    BY <1>2 DEF Current
  <1> QED
    BY <1>1, <1>3, <1>4, <1>5 DEF DoIndexBuildStep

LEMMA FailedBuildIsCurrent ==
  ASSUME NEW m, m \in ModelType, NEW n
  PROVE  Current(FailedIndexBuildStep(m, n))
  BY DEF FailedIndexBuildStep, IndexStreams, Current, ModelType

\* The indexes of a file without streams are the ones in its index file.
LEMMA EmptyIsCurrent ==
  ASSUME NEW m, ModelOK(m), StreamsAreEmpty(m)
  PROVE  Current(ResetIndexes(m))
  <1>1. \A F \in m.indexFile : F = {}
    BY DEF ModelOK, ModelType, StreamsAreEmpty
  <1>2. m.indexFile # {} => m.indexFile = {{}}
    BY <1>1
  <1>3. ResetIndexes(m).index = {} /\ ResetIndexes(m).indexFile = m.indexFile
    BY DEF ResetIndexes, ModelOK, ModelType
  <1> QED
    BY <1>2, <1>3 DEF Current
=============================================================================
