------------------------- MODULE AgnServFileProofs -------------------------
(***************************************************************************)
(* Inv is an inductive invariant of AgnServFile, for every set of sessions *)
(* and of entries; the safety properties of the file follow from it, and   *)
(* that its queue of messages implements AgnTaskQueue.                     *)
(***************************************************************************)
EXTENDS AgnServFile, AgnEntryModelProofs

LEMMA InvModelOK ==
  ASSUME Inv
  PROVE  ModelOK(model)
  BY DEF Inv, TypeOK, StoreOK, IndexInStore, ModelOK

LEMMA InitInv ==
  ASSUME Init
  PROVE  Inv
  <1>1. PICK E \in SUBSET Entries : model = NewModel(E, {}, {})
    BY DEF Init
  <1>2. ModelOK(model)
    <2>1. {} \in SUBSET SUBSET Entries /\ UNION {} = {}
      OBVIOUS
    <2> QED
      BY <1>1, <2>1, NewModelOK
  <1>3. TypeOK
    <2>1. 0 \in 0..MaxCallBacks /\ 0 \in 0..MaxCategorySteps
      BY BoundsAssumption
    <2>2. /\ session \in [Sessions -> {"gone", "connected", "open"}]
          /\ bulkChange \in [Sessions -> BOOLEAN]
          /\ iAction \in [Sessions -> AsyncActions \cup {"ENoAction"}]
          /\ iCallBacks \in [Sessions -> 0..MaxCallBacks]
          /\ request \in [Sessions -> Codes \cup {"none", "held"}]
          /\ waiting \in [Sessions -> BOOLEAN]
          /\ preparing \in [Sessions -> BOOLEAN]
      BY <2>1 DEF Init
    <2>3. model \in ModelType
      BY <1>2 DEF ModelOK
    <2> QED
      BY <2>1, <2>2, <2>3 DEF Init, TypeOK
  <1>4. StoreOK /\ IndexInStore
    BY <1>2 DEF ModelOK, StoreOK, IndexInStore
  <1>5. ClientOK /\ HeldIffQueued /\ QueueOK /\ OpenOK /\ DeleteOK /\ DeleteIsolated
    BY DEF Init, ClientOK, HeldIffQueued, HasMessage, QueueOK, OpenOK, DeleteOK, DeleteIsolated
  <1>6. FileReferenced
    <2>1. {s \in Sessions : session[s] = "open"} = {}
      BY DEF Init
    <2> QED
      BY <2>1, FS_EmptySet DEF Init, FileReferenced
  <1> QED
    BY <1>3, <1>4, <1>5, <1>6 DEF Inv

-----------------------------------------------------------------------------
(* The entry model *)

LEMMA RunLModelOK ==
  ASSUME Inv, RunL
  PROVE  ModelOK(model')
  <1>0. ModelOK(model)
    BY InvModelOK
  <1>1. CASE RunLIdle
    BY <1>0, <1>1 DEF RunLIdle
  <1>2. CASE BuildIndexStep
    <2>1. PICK m \in StepModels :
            \/ model' = DoIndexBuildStep(m) \/ model' = CommitL(DoIndexBuildStep(m))
            \/ \E n \in 0..1 : model' = FailedIndexBuildStep(m, n)
      BY <1>2 DEF BuildIndexStep
    <2>2. ModelOK(m)
      BY <1>0, <2>1, WithoutIndexFileOK DEF StepModels
    <2> QED
      BY <2>1, <2>2, DoIndexBuildStepOK, CommitOK, FailedIndexBuildStepOK
  <1>3. CASE DeleteEntryStep
    <2>1. toDelete \subseteq model.committed
      BY <1>3 DEF DeleteEntryStep, Stepping, Inv, DeleteOK
    <2>2. PICK B \in SUBSET toDelete :
            \/ model' = DeleteTidiedEntries(model, B)
            \/ model' = CommitL(DeleteTidiedEntries(model, B))
            \/ model' = Rollback(DeleteEntries(model, B))
      BY <1>3 DEF DeleteEntryStep
    <2>3. B \in SUBSET model.committed
      BY <2>1, <2>2
    <2> QED
      BY <1>0, <2>2, <2>3, DeleteTidiedEntriesOK, CommitOK, DeleteEntriesOK, RollbackOK
  <1>4. CASE CategoryStep
    BY <1>0, <1>4, CommitOK, RollbackOK DEF CategoryStep
  <1> QED
    BY <1>1, <1>2, <1>3, <1>4 DEF RunL

LEMMA StartBuildIndexModelOK ==
  ASSUME Inv, NEW s, NEW kind, NEW report, StartBuildIndex(s, kind, report)
  PROVE  ModelOK(model') /\ model'.committed = model.committed /\ model'.lost = model.lost
  BY InvModelOK, ResetIndexesOK DEF StartBuildIndex

LEMMA ClientModelOK ==
  ASSUME Inv, NEW s \in Sessions, ClientNext(s)
  PROVE  ModelOK(model')
  <1>0. ModelOK(model)
    BY InvModelOK
  <1>1. CASE \/ Connect(s) \/ OpenAgenda(s) \/ CloseSessionFile(s) \/ AppendCallBack(s)
             \/ StartDeleteEntryL(s) \/ StartCategoryTaskL(s)
             \/ RefuseTask(s) \/ CategoryTaskStart(s) \/ ClientCompleted(s)
    BY <1>0, <1>1 DEF Connect, OpenAgenda, OpenFile, CloseSessionFile, AppendCallBack,
         StartDeleteEntryL, StartCategoryTaskL, RefuseTask, CategoryTaskStart, ClientCompleted
  <1>2. CASE StartBuildIndexL(s) \/ WaitUntilLoadedL(s) \/ ClientProgress(s)
    BY <1>0, <1>2, StartBuildIndexModelOK DEF StartBuildIndexL, WaitUntilLoadedL, ClientProgress
  <1>3. CASE Disconnect(s) \/ CancelAsynTask(s) \/ RollbackChanges(s)
    BY <1>0, <1>3, RollbackOK DEF Disconnect, CancelAsynTask, TaskFailed, RollbackChanges
  <1>4. CASE TidyByDateStart(s) \/ CommitChanges(s)
    BY <1>0, <1>4, CommitOK DEF TidyByDateStart, EntriesInRange, BeforeDelete, CommitChanges
  <1>5. CASE DeleteEntry(s)
    <2>1. PICK e \in model.index : model' = DeleteEntries(model, {e})
      BY <1>5 DEF DeleteEntry
    <2>2. {e} \in SUBSET model.committed
      BY <1>0, <2>1 DEF ModelOK
    <2> QED
      BY <1>0, <2>1, <2>2, DeleteEntriesOK
  <1>6. CASE SetCalendarInfo(s)
    BY <1>0, <1>6, CommitStoreOK DEF SetCalendarInfo
  <1> QED
    BY <1>1, <1>2, <1>3, <1>4, <1>5, <1>6 DEF ClientNext, SecondCall, ClientRunL

\* Every step leaves a consistent model.
LEMMA NextModelOK ==
  ASSUME Inv, Next
  PROVE  ModelOK(model')
  <1>0. ModelOK(model)
    BY InvModelOK
  <1>1. CASE CloseTimerRunL
    <2>1. /\ model.committed \in SUBSET Entries /\ model.lost \in SUBSET model.committed
          /\ {model.index} \in SUBSET SUBSET Entries
          /\ model.indexFile \in SUBSET SUBSET Entries
          /\ UNION {model.index} \subseteq model.committed
          /\ UNION model.indexFile \subseteq model.committed
      BY <1>0 DEF ModelOK, ModelType
    <2> QED
      BY <1>1, <2>1, NewModelOK DEF CloseTimerRunL, ModelClosed
  <1>2. CASE ServerTerminates
    <2>1. /\ model.committed \in SUBSET Entries /\ model.lost \in SUBSET model.committed
          /\ model.indexFile \in SUBSET SUBSET Entries
          /\ UNION model.indexFile \subseteq model.committed
      BY <1>0 DEF ModelOK, ModelType
    <2> QED
      BY <1>2, <2>1, NewModelOK DEF ServerTerminates
  <1> QED
    BY <1>1, <1>2, RunLModelOK, ClientModelOK DEF Next

-----------------------------------------------------------------------------
(* The delete *)

LEMMA NextDeleteOK ==
  ASSUME Inv, Next
  PROVE  DeleteOK' /\ DeleteIsolated'
  <1>0. DeleteOK /\ DeleteIsolated /\ ModelOK(model)
    BY InvModelOK DEF Inv
  <1>1. CASE DeleteEntryStep /\ iActiveStep' = "EDeleteEntry"
    <2>1. PICK B \in SUBSET toDelete : /\ model' = DeleteTidiedEntries(model, B)
                                       /\ toDelete' = toDelete \ B /\ tidyRange' = tidyRange
      BY <1>1 DEF DeleteEntryStep, EndDelete, StepEnd, CompleteRequests
    <2>2. toDelete \subseteq tidyRange \cap model.committed
      BY <1>0, <1>1 DEF DeleteOK, DeleteEntryStep, Stepping
    <2>3. /\ model'.committed = model.committed /\ model'.store = model.store \ B
          /\ model'.index = model.index \ B
      BY <1>0, <2>1, <2>2, DeleteTidiedEntriesOK
    <2> QED
      BY <1>0, <1>1, <2>1, <2>2, <2>3 DEF DeleteOK, DeleteIsolated, DeleteEntryStep, Stepping
  <1>2. ASSUME NEW s \in Sessions, TidyByDateStart(s), iActiveStep' = "EDeleteEntry"
        PROVE  DeleteOK' /\ DeleteIsolated'
    <2>1. /\ model' = CommitL(model) /\ toDelete' = model.index \cap tidyRange
          /\ tidyRange' = tidyRange
      BY <1>2 DEF TidyByDateStart, EntriesInRange, BeforeDelete, IsLocked
    <2>2. /\ model'.committed = model.store /\ model'.store = model.store
          /\ model'.index = model.index
      BY <1>0, <2>1, CommitOK
    <2> QED
      BY <1>0, <2>1, <2>2 DEF DeleteOK, DeleteIsolated, ModelOK
  <1>3. CASE UNCHANGED <<iActiveStep, toDelete, model>> /\ (tidyRange' = tidyRange \/ ~IsLocked)
    BY <1>0, <1>3 DEF DeleteOK, DeleteIsolated, IsLocked
  <1>4. CASE iActiveStep' # "EDeleteEntry"
    BY <1>4 DEF DeleteOK, DeleteIsolated
  <1>5. CASE RunL
    <2>1. RunLIdle \/ BuildIndexStep \/ CategoryStep
            => \/ UNCHANGED iActiveStep /\ iActiveStep # "EDeleteEntry"
               \/ iActiveStep' = "ENoAction"
      BY DEF RunLIdle, BuildIndexStep, CategoryStep, Stepping, StepProgress, StepEnd,
             CompleteRequests, CategoryTasks
    <2> QED
      BY <1>1, <1>4, <1>5, <2>1 DEF RunL
  <1>6. CASE CloseTimerRunL \/ ServerTerminates
    BY <1>4, <1>6 DEF CloseTimerRunL, ServerTerminates, FileDeleted
  <1>7. ASSUME NEW s \in Sessions, ClientNext(s)
        PROVE  DeleteOK' /\ DeleteIsolated'
    <2>1. CASE StartBuildIndexL(s) \/ WaitUntilLoadedL(s) \/ ClientProgress(s)
      <3>1. UNCHANGED <<toDelete, tidyRange>>
        BY <2>1 DEF StartBuildIndexL, WaitUntilLoadedL, ClientProgress, deleteVars
      <3>2. ASSUME NEW k, NEW r, StartBuildIndex(s, k, r)
            PROVE  UNCHANGED <<iActiveStep, model>> \/ iActiveStep' # "EDeleteEntry"
        BY <3>2 DEF StartBuildIndex, taskVars
      <3>3. UNCHANGED <<iActiveStep, model>> \/ iActiveStep' # "EDeleteEntry"
        BY <2>1, <3>2 DEF StartBuildIndexL, WaitUntilLoadedL, ClientProgress
      <3> QED
        BY <1>3, <1>4, <3>1, <3>3
    <2>2. CASE Disconnect(s) \/ CancelAsynTask(s)
      BY <1>3, <1>4, <2>2 DEF Disconnect, CancelAsynTask, deleteVars
    <2>3. CASE Connect(s) \/ OpenAgenda(s) \/ CloseSessionFile(s) \/ AppendCallBack(s)
               \/ RefuseTask(s) \/ StartCategoryTaskL(s) \/ ClientCompleted(s)
      BY <1>3, <2>3 DEF Connect, OpenAgenda, OpenFile, CloseSessionFile, AppendCallBack, RefuseTask,
           StartCategoryTaskL, ClientCompleted, deleteVars, taskVars
    <2>4. CASE StartDeleteEntryL(s)
      BY <1>3, <2>4 DEF StartDeleteEntryL
    <2>5. CASE CategoryTaskStart(s)
      BY <1>4, <2>5 DEF CategoryTaskStart, CategoryTasks
    <2>6. CASE DeleteEntry(s) \/ CommitChanges(s) \/ RollbackChanges(s)
      BY <1>4, <2>6 DEF DeleteEntry, CommitChanges, RollbackChanges, Change, IsLocked, taskVars
    <2>7. CASE TidyByDateStart(s)
      BY <1>2, <1>4, <2>7
    <2>8. CASE SetCalendarInfo(s)
      <3>1. /\ model'.committed = model.committed /\ model'.store = model.store
            /\ model'.index = model.index
        BY <1>0, <2>8, CommitStoreOK DEF SetCalendarInfo
      <3>2. UNCHANGED <<iActiveStep, toDelete, tidyRange>>
        BY <2>8 DEF SetCalendarInfo, taskVars, deleteVars
      <3> QED
        BY <1>0, <3>1, <3>2 DEF DeleteOK, DeleteIsolated
    <2> QED
      BY <1>7, <2>1, <2>2, <2>3, <2>4, <2>5, <2>6, <2>7, <2>8 DEF ClientNext, SecondCall, ClientRunL
  <1> QED
    BY <1>5, <1>6, <1>7 DEF Next

-----------------------------------------------------------------------------
(* The queue of messages and the requests of the clients *)

QueueInv == HeldIffQueued /\ QueueOK

\* A step answers held requests only, or the one s makes of this kind.
OnlyAnswers(s, kind) ==
  \A t \in Sessions :
    /\ request'[t] = request[t] \/ request[t] = "held" \/ (t = s /\ kind = "task")
    /\ waiting'[t] => waiting[t] \/ (t = s /\ kind = "wait")

LEMMA QueueUnchanged ==
  ASSUME Inv, UNCHANGED <<iMessageVector, request, waiting>>
  PROVE  QueueInv' /\ OnlyAnswers(NoSession, "task")
  BY DEF Inv, QueueInv, HeldIffQueued, HasMessage, QueueOK, OnlyAnswers

\* Completing any messages of the queue keeps requests and messages in step.
LEMMA AnswerQueue ==
  ASSUME Inv, NEW X \in SUBSET iMessageVector, NEW code \in Codes,
         iMessageVector' = iMessageVector \ X, Answer(X, code)
  PROVE  QueueInv' /\ OnlyAnswers(NoSession, "task")
  <1>1. HeldIffQueued /\ QueueOK /\ code # "held"
    BY DEF Inv, Codes
  <1>2. \A s \in Sessions :
          /\ request'[s] = IF \E x \in X : x.session = s /\ x.kind = "task"
                           THEN code ELSE request[s]
          /\ waiting'[s] <=> waiting[s] /\ ~ \E x \in X : x.session = s /\ x.kind = "wait"
    BY DEF Answer, Answered, StillWaiting
  <1>3. QueueOK'
    BY <1>1 DEF QueueOK
  <1>4. HeldIffQueued'
    BY <1>1, <1>2 DEF HeldIffQueued, HasMessage, QueueOK
  <1>5. OnlyAnswers(NoSession, "task")
    BY <1>1, <1>2 DEF HeldIffQueued, HasMessage, OnlyAnswers
  <1> QED
    BY <1>3, <1>4, <1>5 DEF QueueInv

LEMMA CompletedSubset ==
  ASSUME NEW M, M = iMessageVector, NEW b, NEW c, NEW s
  PROVE  Completed(M, b, c, s) \in SUBSET iMessageVector
  BY DEF Completed, LatestOf, MessagesOf

LEMMA CompleteRequestsQueue ==
  ASSUME Inv, NEW b, NEW code \in Codes, NEW s, CompleteRequests(b, code, s)
  PROVE  QueueInv' /\ OnlyAnswers(NoSession, "task")
  BY AnswerQueue, CompletedSubset DEF CompleteRequests

\* A session without a request, or not blocked, may queue one.
LEMMA AddAsyncRequesterQueue ==
  ASSUME Inv, NEW s \in Sessions, NEW kind \in {"task", "wait"}, NEW report \in BOOLEAN,
         kind = "task" => request[s] # "held", kind = "wait" => ~waiting[s],
         AddAsyncRequester(s, kind, report)
  PROVE  QueueInv' /\ OnlyAnswers(s, kind)
  <1>1. /\ HeldIffQueued /\ QueueOK
        /\ request \in [Sessions -> Codes \cup {"none", "held"}]
        /\ waiting \in [Sessions -> BOOLEAN]
    BY DEF Inv, TypeOK
  <1>2. \A t \in Sessions :
          /\ request'[t] = IF t = s /\ kind = "task" THEN "held" ELSE request[t]
          /\ waiting'[t] <=> waiting[t] \/ (t = s /\ kind = "wait")
    BY <1>1 DEF AddAsyncRequester, Held
  <1> DEFINE y == Message(s, kind, report)
  <1>3. /\ iMessageVector' = iMessageVector \cup {y}
        /\ y.session = s /\ y.kind = kind
    BY DEF AddAsyncRequester, Message
  <1> HIDE DEF y
  <1>4. ~HasMessage(s, kind)
    BY <1>1 DEF HeldIffQueued
  <1>5. QueueOK'
    BY <1>1, <1>3, <1>4 DEF QueueOK, HasMessage
  <1>6. HeldIffQueued'
    BY <1>1, <1>2, <1>3 DEF HeldIffQueued, HasMessage
  <1>7. OnlyAnswers(s, kind)
    BY <1>2 DEF OnlyAnswers
  <1> QED
    BY <1>5, <1>6, <1>7 DEF QueueInv

LEMMA AnswerAtOnceQueue ==
  ASSUME Inv, NEW s \in Sessions, NEW kind \in {"task", "wait"}, NEW code \in Codes,
         kind = "task" => request[s] # "held",
         AnswerAtOnce(s, kind, code), UNCHANGED iMessageVector
  PROVE  QueueInv' /\ OnlyAnswers(s, kind)
  <1>1. /\ HeldIffQueued /\ QueueOK /\ code # "held"
        /\ request \in [Sessions -> Codes \cup {"none", "held"}]
    BY DEF Inv, TypeOK, Codes
  <1>2. \A t \in Sessions :
          request'[t] = IF t = s /\ kind = "task" THEN code ELSE request[t]
    BY <1>1 DEF AnswerAtOnce
  <1>3. UNCHANGED <<waiting, iMessageVector>>
    BY DEF AnswerAtOnce
  <1> QED
    BY <1>1, <1>2, <1>3 DEF QueueInv, HeldIffQueued, HasMessage, QueueOK, OnlyAnswers

LEMMA StartBuildIndexQueue ==
  ASSUME Inv, NEW s \in Sessions, NEW kind \in {"task", "wait"}, NEW report \in BOOLEAN,
         kind = "task" => request[s] # "held", kind = "wait" => ~waiting[s],
         StartBuildIndex(s, kind, report)
  PROVE  QueueInv' /\ OnlyAnswers(s, kind)
  <1>1. CASE AddAsyncRequester(s, kind, report)
    BY <1>1, AddAsyncRequesterQueue
  <1>2. CASE AnswerAtOnce(s, kind, "ok") /\ UNCHANGED taskVars
    BY <1>2, AnswerAtOnceQueue DEF taskVars, Codes
  <1>3. CASE /\ iMessageVector' = {}
             /\ Answer(iMessageVector \cup {Message(s, kind, report)}, "ok")
    <2>1. HeldIffQueued
      BY DEF Inv
    <2> DEFINE y == Message(s, kind, report)
               M == iMessageVector \cup {y}
    <2>5. y.session = s /\ y.kind = kind
      BY DEF Message
    <2>6. \A t \in Sessions :
            /\ request'[t] = IF \E x \in M : x.session = t /\ x.kind = "task"
                             THEN "ok" ELSE request[t]
            /\ waiting'[t] <=> waiting[t] /\ ~ \E x \in M : x.session = t /\ x.kind = "wait"
      BY <1>3 DEF Answer, Answered, StillWaiting
    <2> HIDE DEF y
    <2>2. \A t \in Sessions :
            /\ HasMessage(t, "task") => request'[t] = "ok"
            /\ HasMessage(t, "wait") => ~waiting'[t]
            /\ waiting'[t] => waiting[t]
            /\ request'[t] = "ok" \/ request'[t] = request[t]
            /\ request'[t] # request[t] => HasMessage(t, "task") \/ (t = s /\ kind = "task")
      BY <2>5, <2>6 DEF HasMessage
    <2>3. HeldIffQueued' /\ QueueOK'
      BY <1>3, <2>1, <2>2 DEF HeldIffQueued, HasMessage, QueueOK
    <2>4. OnlyAnswers(s, kind)
      BY <2>1, <2>2 DEF HeldIffQueued, OnlyAnswers
    <2> QED
      BY <2>3, <2>4 DEF QueueInv
  <1> QED
    BY <1>1, <1>2, <1>3 DEF StartBuildIndex

LEMMA ClientKept ==
  ASSUME Inv, OnlyAnswers(NoSession, "task"), UNCHANGED <<iAction, session, preparing>>
  PROVE  ClientOK'
  BY SessionsAssumption DEF Inv, ClientOK, OnlyAnswers

LEMMA RunLQueue ==
  ASSUME Inv, RunL
  PROVE  QueueInv' /\ ClientOK'
  <1>1. UNCHANGED <<iAction, session, preparing>>
    BY DEF RunL, RunLIdle, BuildIndexStep, DeleteEntryStep, CategoryStep, clientVars
  <1>2. CASE RunLIdle
    BY <1>1, <1>2, QueueUnchanged, ClientKept DEF RunLIdle
  <1>3. CASE BuildIndexStep \/ DeleteEntryStep \/ CategoryStep
    <2>1. \E b \in BOOLEAN, code \in Codes : CompleteRequests(b, code, iSession)
      BY <1>3 DEF BuildIndexStep, DeleteEntryStep, CategoryStep, StepProgress, StepEnd, Codes
    <2> QED
      BY <1>1, <2>1, CompleteRequestsQueue, ClientKept
  <1> QED
    BY <1>2, <1>3 DEF RunL

\* Opening, closing and the end of the server: nobody has a request then.
LEMMA LifeQueue ==
  ASSUME Inv, NEW s \in Sessions,
         \/ CloseTimerRunL \/ ServerTerminates
         \/ Connect(s) \/ OpenAgenda(s) \/ CloseSessionFile(s)
  PROVE  QueueInv' /\ ClientOK'
  <1>0. /\ ClientOK /\ HeldIffQueued /\ FileReferenced
        /\ session \in [Sessions -> {"gone", "connected", "open"}]
    BY DEF Inv, TypeOK
  <1>1. CASE CloseTimerRunL
    <2>1. {t \in Sessions : session[t] = "open"} = {}
      <3>1. IsFiniteSet({t \in Sessions : session[t] = "open"})
        BY SessionsAssumption, FS_Subset
      <3> QED
        BY <1>0, <1>1, <3>1, FS_EmptySet DEF FileReferenced, CloseTimerRunL
    <2>2. \A t \in Sessions : request[t] = "none" /\ ~waiting[t]
      BY <1>0, <2>1 DEF ClientOK
    <2>3. iMessageVector' = {} /\ UNCHANGED <<request, waiting, iAction, session, preparing>>
      BY <1>1 DEF CloseTimerRunL, FileDeleted, clientVars
    <2> QED
      BY <1>0, <2>2, <2>3 DEF QueueInv, HeldIffQueued, HasMessage, QueueOK, ClientOK
  <1>2. CASE ServerTerminates
    BY <1>2 DEF ServerTerminates, FileDeleted, QueueInv, HeldIffQueued, HasMessage,
         QueueOK, ClientOK
  <1>3. CASE Connect(s) \/ OpenAgenda(s) \/ CloseSessionFile(s)
    <2>1. UNCHANGED <<iMessageVector, request, waiting, iAction, preparing>>
      BY <1>3 DEF Connect, OpenAgenda, OpenFile, CloseSessionFile, taskVars, clientVars
    <2>2. \A t \in Sessions : session'[t] # "open" =>
             session[t] # "open" \/ (iAction[t] = "ENoAction" /\ ~waiting[t])
      BY <1>0, <1>3 DEF Connect, OpenAgenda, OpenFile, CloseSessionFile
    <2> QED
      BY <1>0, <2>1, <2>2, QueueUnchanged DEF ClientOK
  <1> QED
    BY <1>1, <1>2, <1>3

\* The destructor of a session takes its requests with it.
LEMMA DisconnectQueue ==
  ASSUME Inv, NEW s \in Sessions, Disconnect(s)
  PROVE  QueueInv' /\ ClientOK'
  <1>0. /\ ClientOK /\ HeldIffQueued /\ QueueOK /\ Gone \notin Sessions
        /\ iMessageVector \in SUBSET Messages
        /\ session \in [Sessions -> {"gone", "connected", "open"}]
        /\ iAction \in [Sessions -> AsyncActions \cup {"ENoAction"}]
        /\ request \in [Sessions -> Codes \cup {"none", "held"}]
        /\ waiting \in [Sessions -> BOOLEAN] /\ preparing \in [Sessions -> BOOLEAN]
    BY SessionsAssumption DEF Inv, TypeOK
  <1>1. \A t \in Sessions :
          /\ t = s => /\ request'[t] = "none" /\ ~waiting'[t] /\ iAction'[t] = "ENoAction"
                      /\ ~preparing'[t] /\ session'[t] = "gone"
          /\ t # s => /\ request'[t] = request[t] /\ waiting'[t] = waiting[t]
                      /\ iAction'[t] = iAction[t] /\ preparing'[t] = preparing[t]
                      /\ session'[t] = session[t]
    BY <1>0 DEF Disconnect
  <1>2. iMessageVector' = {[x EXCEPT !.session = IF @ = s THEN Gone ELSE @] :
                             x \in iMessageVector \ LatestOf(s)}
    BY DEF Disconnect
  <1>3. \A x \in iMessageVector :
          LET y == [x EXCEPT !.session = IF @ = s THEN Gone ELSE @]
          IN /\ y.session = IF x.session = s THEN Gone ELSE x.session
             /\ y.kind = x.kind
             /\ x.session # s => y = x
    BY <1>0 DEF Messages
  <1>4. \A x : x.session # s => x \notin LatestOf(s)
    BY DEF LatestOf, MessagesOf
  <1>5. \A y \in iMessageVector' : y.session \in Sessions =>
          y \in iMessageVector /\ y.session # s
    <2> TAKE y \in iMessageVector'
    <2>1. PICK x \in iMessageVector :
            y = [x EXCEPT !.session = IF @ = s THEN Gone ELSE @]
      BY <1>2
    <2> QED
      BY <1>0, <1>3, <2>1
  <1>6. \A x \in iMessageVector : x.session # s => x \in iMessageVector'
    BY <1>2, <1>3, <1>4
  <1>7. QueueOK'
    BY <1>0, <1>5 DEF QueueOK
  <1>8. HeldIffQueued'
    BY <1>0, <1>1, <1>5, <1>6 DEF HeldIffQueued, HasMessage
  <1>9. ClientOK'
    BY <1>0, <1>1 DEF ClientOK
  <1> QED
    BY <1>7, <1>8, <1>9 DEF QueueInv

\* A client that starts a task, or asks for its progress, has no request held.
LEMMA RequestQueue ==
  ASSUME Inv, NEW s \in Sessions,
         \/ StartBuildIndexL(s) \/ WaitUntilLoadedL(s) \/ ClientProgress(s)
         \/ TidyByDateStart(s) \/ CategoryTaskStart(s)
  PROVE  QueueInv' /\ ClientOK'
  <1>0. /\ ClientOK /\ HeldIffQueued
        /\ iAction \in [Sessions -> AsyncActions \cup {"ENoAction"}]
        /\ preparing \in [Sessions -> BOOLEAN] /\ NoSession \notin Sessions
    BY SessionsAssumption DEF Inv, TypeOK
  <1>1. CASE StartBuildIndexL(s)
    <2>1. PICK report \in BOOLEAN : StartBuildIndex(s, "task", report)
      BY <1>1 DEF StartBuildIndexL
    <2>2. /\ iAction[s] = "ENoAction" /\ iAction' = [iAction EXCEPT ![s] = "EBuildIndex"]
          /\ session[s] = "open" /\ ~preparing[s] /\ UNCHANGED <<session, preparing>>
      BY <1>1 DEF StartBuildIndexL, BeginTask, ClientRuns
    <2>3. QueueInv' /\ OnlyAnswers(s, "task")
      BY <1>0, <2>1, <2>2, StartBuildIndexQueue DEF ClientOK
    <2> QED
      BY <1>0, <2>2, <2>3 DEF ClientOK, OnlyAnswers
  <1>2. CASE WaitUntilLoadedL(s)
    <2>1. StartBuildIndex(s, "wait", FALSE)
      BY <1>2 DEF WaitUntilLoadedL
    <2>2. /\ session[s] = "open" /\ ~preparing[s] /\ ~waiting[s]
          /\ UNCHANGED <<iAction, session, preparing>>
      BY <1>2 DEF WaitUntilLoadedL, ClientRuns, clientVars
    <2>3. QueueInv' /\ OnlyAnswers(s, "wait")
      BY <2>1, <2>2, StartBuildIndexQueue
    <2> QED
      BY <1>0, <2>2, <2>3 DEF ClientOK, OnlyAnswers
  <1>3. CASE ClientProgress(s)
    <2>1. /\ request[s] = "progress" /\ session[s] = "open" /\ ~preparing[s]
          /\ UNCHANGED <<iAction, session, preparing>>
      BY <1>3 DEF ClientProgress, ClientRuns, clientVars
    <2>2. QueueInv' /\ OnlyAnswers(s, "task")
      <3>1. CASE StartBuildIndex(s, "task", TRUE)
        BY <2>1, <3>1, StartBuildIndexQueue
      <3>2. CASE RequestProgress(s)
        BY <2>1, <3>2, AnswerAtOnceQueue, AddAsyncRequesterQueue DEF RequestProgress, Codes
      <3> QED
        BY <1>3, <3>1, <3>2 DEF ClientProgress
    <2> QED
      BY <1>0, <2>1, <2>2 DEF ClientOK, OnlyAnswers
  <1>4. CASE TidyByDateStart(s) \/ CategoryTaskStart(s)
    <2>1. /\ preparing[s] /\ request[s] = "none" /\ ~waiting[s]
          /\ iAction[s] # "ENoAction" /\ session[s] = "open"
          /\ preparing' = [preparing EXCEPT ![s] = FALSE]
          /\ UNCHANGED <<iAction, session>>
      BY <1>0, <1>4 DEF TidyByDateStart, EntriesInRange, CategoryTaskStart, ClientOK
    <2>2. \/ \E code \in {"ok", "error"} : AnswerAtOnce(s, "task", code) /\ UNCHANGED iMessageVector
          \/ \E report \in BOOLEAN : AddAsyncRequester(s, "task", report)
      BY <1>4 DEF TidyByDateStart, EntriesInRange, CategoryTaskStart
    <2>3. QueueInv' /\ OnlyAnswers(s, "task")
      BY <2>1, <2>2, AnswerAtOnceQueue, AddAsyncRequesterQueue DEF Codes
    <2> QED
      BY <1>0, <2>1, <2>3 DEF ClientOK, OnlyAnswers
  <1> QED
    BY <1>1, <1>2, <1>3, <1>4

\* A cancel takes the messages of its session out of the queue, and no other.
LEMMA CancelOwn ==
  ASSUME Inv, NEW s \in Sessions, CancelAsynTask(s)
  PROVE  /\ iMessageVector' = iMessageVector \ MessagesOf(s)
         /\ \A t \in Sessions : /\ request'[t] = IF t = s THEN "none" ELSE request[t]
                                /\ waiting'[t] <=> waiting[t]
  <1>0. /\ HeldIffQueued /\ iMessageVector \in SUBSET Messages
        /\ request \in [Sessions -> Codes \cup {"none", "held"}]
    BY DEF Inv, TypeOK
  <1>1. \A x \in MessagesOf(s) : x.kind = "task"
    BY <1>0 DEF CancelAsynTask, ClientRuns, HeldIffQueued, HasMessage, MessagesOf, Messages
  <1>2. LatestOf(s) = MessagesOf(s)
    BY <1>1 DEF LatestOf
  <1>3. CASE ~IsInterestedSession(s)
    BY <1>0, <1>3 DEF CancelAsynTask, IsInterestedSession
  <1>4. CASE IsInterestedSession(s)
    <2>1. /\ iMessageVector' = iMessageVector \ MessagesOf(s)
          /\ request' = [Answered(MessagesOf(s), "cancel") EXCEPT ![s] = "none"]
          /\ waiting' = StillWaiting(MessagesOf(s))
      BY <1>2, <1>4 DEF CancelAsynTask, Completed
    <2>2. \A t \in Sessions \ {s} : Answered(MessagesOf(s), "cancel")[t] = request[t]
      BY DEF Answered, MessagesOf
    <2>3. \A t \in Sessions : request'[t] = IF t = s THEN "none" ELSE request[t]
      BY <2>1, <2>2 DEF Answered
    <2>4. \A t \in Sessions : waiting'[t] <=> waiting[t]
      BY <1>1, <2>1 DEF StillWaiting
    <2> QED
      BY <2>1, <2>3, <2>4
  <1> QED
    BY <1>3, <1>4

\* The other steps of a client.
LEMMA ClientQueue ==
  ASSUME Inv, NEW s \in Sessions,
         \/ AppendCallBack(s) \/ StartDeleteEntryL(s) \/ StartCategoryTaskL(s)
         \/ RefuseTask(s) \/ CancelAsynTask(s) \/ ClientCompleted(s)
         \/ DeleteEntry(s) \/ CommitChanges(s) \/ RollbackChanges(s) \/ SetCalendarInfo(s)
  PROVE  QueueInv' /\ ClientOK'
  <1>0. /\ ClientOK /\ HeldIffQueued /\ QueueOK
        /\ iAction \in [Sessions -> AsyncActions \cup {"ENoAction"}]
        /\ preparing \in [Sessions -> BOOLEAN]
        /\ request \in [Sessions -> Codes \cup {"none", "held"}]
    BY DEF Inv, TypeOK
  <1>1. CASE \/ AppendCallBack(s) \/ DeleteEntry(s) \/ CommitChanges(s) \/ RollbackChanges(s)
             \/ SetCalendarInfo(s)
    BY <1>1, QueueUnchanged, ClientKept
       DEF AppendCallBack, DeleteEntry, CommitChanges, RollbackChanges, SetCalendarInfo, Change,
           taskVars, clientVars
  <1>2. CASE StartDeleteEntryL(s) \/ StartCategoryTaskL(s)
    <2>1. /\ session[s] = "open" /\ ~waiting[s] /\ iAction[s] = "ENoAction"
          /\ UNCHANGED <<iMessageVector, request, waiting, session>>
          /\ preparing' = [preparing EXCEPT ![s] = TRUE]
          /\ \E a \in AsyncActions : iAction' = [iAction EXCEPT ![s] = a]
      BY <1>2 DEF StartDeleteEntryL, StartCategoryTaskL, BeginTask, ClientRuns, taskVars,
           AsyncActions
    <2>2. "ENoAction" \notin AsyncActions
      BY DEF AsyncActions, CategoryTasks
    <2>3. ClientOK'
      BY <1>0, <2>1, <2>2 DEF ClientOK
    <2> QED
      BY <2>1, <2>3, QueueUnchanged
  <1>3. CASE RefuseTask(s) \/ ClientCompleted(s)
    <2>1. /\ request[s] # "held" /\ UNCHANGED <<iMessageVector, waiting, session>>
          /\ \E c \in {"locked", "none"} : request' = [request EXCEPT ![s] = c]
      BY <1>0, <1>3 DEF RefuseTask, ClientCompleted, ClientOK, taskVars, Codes
    <2>2. QueueInv'
      BY <1>0, <2>1 DEF QueueInv, HeldIffQueued, HasMessage, QueueOK
    <2>3. ClientOK'
      BY <1>0, <1>3, <2>1 DEF ClientOK, RefuseTask, ClientCompleted, ClientRuns
    <2> QED
      BY <2>2, <2>3
  <1>4. CASE CancelAsynTask(s)
    <2>1. /\ session[s] = "open" /\ ~waiting[s] /\ ~preparing[s]
          /\ iAction' = [iAction EXCEPT ![s] = "ENoAction"]
          /\ UNCHANGED <<session, preparing>>
      BY <1>4 DEF CancelAsynTask, ClientRuns
    <2>4. iMessageVector' = iMessageVector \ MessagesOf(s)
      BY <1>4, CancelOwn
    <2>5. \A t \in Sessions : /\ request'[t] = IF t = s THEN "none" ELSE request[t]
                              /\ waiting'[t] <=> waiting[t]
      BY <1>4, CancelOwn
    <2>6. QueueInv'
      <3>1. QueueOK'
        BY <1>0, <2>4 DEF QueueOK
      <3>2. \A t \in Sessions : \A k : HasMessage(t, k)' <=> HasMessage(t, k) /\ t # s
        BY <2>4 DEF HasMessage, MessagesOf
      <3>3. HeldIffQueued'
        BY <1>0, <2>1, <2>5, <3>2 DEF HeldIffQueued
      <3> QED
        BY <3>1, <3>3 DEF QueueInv
    <2>7. ClientOK'
      BY <1>0, <2>1, <2>5 DEF ClientOK
    <2> QED
      BY <2>6, <2>7
  <1> QED
    BY <1>1, <1>2, <1>3, <1>4

LEMMA NextQueueOK ==
  ASSUME Inv, Next
  PROVE  QueueInv' /\ ClientOK'
  <1>1. CASE RunL
    BY <1>1, RunLQueue
  <1>2. ASSUME NEW s \in Sessions, CloseTimerRunL \/ ServerTerminates \/ ClientNext(s)
        PROVE  QueueInv' /\ ClientOK'
    BY <1>2, LifeQueue, DisconnectQueue, RequestQueue, ClientQueue
       DEF ClientNext, SecondCall, ClientRunL
  <1>3. CASE (CloseTimerRunL \/ ServerTerminates) /\ Sessions = {}
    BY <1>3 DEF CloseTimerRunL, ServerTerminates, FileDeleted, QueueInv, HeldIffQueued,
         QueueOK, ClientOK
  <1> QED
    BY <1>1, <1>2, <1>3 DEF Next

-----------------------------------------------------------------------------
(* The references to the file *)

Users == {s \in Sessions : session[s] = "open"}

LEMMA UsersFinite ==
  ASSUME Inv
  PROVE  /\ IsFiniteSet(Users) /\ Cardinality(Users) \in Nat /\ iRefCount = Cardinality(Users)
         /\ Users # {} => iRefCount > 0 /\ open
  <1>1. IsFiniteSet(Users)
    BY SessionsAssumption, FS_Subset DEF Users
  <1>2. Cardinality(Users) \in Nat /\ (Cardinality(Users) = 0 <=> Users = {})
    BY <1>1, FS_CardinalityType, FS_EmptySet
  <1> QED
    BY <1>1, <1>2 DEF Inv, FileReferenced, OpenOK, Users

LEMMA UsersUnchanged ==
  ASSUME Inv, UNCHANGED fileVars, UNCHANGED session
  PROVE  FileReferenced' /\ OpenOK'
  BY DEF Inv, FileReferenced, OpenOK, fileVars

\* The last user that leaves starts the timer.
LEMMA CloseAgendaReferences ==
  ASSUME Inv, NEW s \in Sessions, session[s] = "open", CloseAgenda,
         NEW c, c # "open", session' = [session EXCEPT ![s] = c]
  PROVE  FileReferenced' /\ OpenOK'
  <1>1. s \in Users /\ open /\ iRefCount > 0 /\ iRefCount = Cardinality(Users)
    BY UsersFinite DEF Users
  <1>2. session \in [Sessions -> {"gone", "connected", "open"}]
    BY DEF Inv, TypeOK
  <1>3. Users' = Users \ {s}
    BY <1>2 DEF Users
  <1>4. Cardinality(Users') = iRefCount - 1
    BY <1>1, <1>3, UsersFinite, FS_RemoveElement
  <1>5. closeTimer = FALSE
    BY <1>1 DEF Inv, TypeOK, FileReferenced
  <1>6. iRefCount' = Cardinality(Users') /\ (closeTimer' <=> open' /\ iRefCount' = 0)
    <2>1. iRefCount' = iRefCount - 1 /\ open' = open /\ (closeTimer' <=> iRefCount = 1)
      BY <1>5 DEF CloseAgenda
    <2>2. iRefCount \in Nat
      BY DEF Inv, TypeOK
    <2>3. iRefCount' = 0 <=> iRefCount = 1
      BY <2>1, <2>2
    <2> QED
      BY <1>1, <1>4, <2>1, <2>3
  <1>7. OpenOK'
    BY <1>1 DEF CloseAgenda, OpenOK
  <1> QED
    BY <1>6, <1>7 DEF FileReferenced, Users

LEMMA NextFileOK ==
  ASSUME Inv, Next
  PROVE  FileReferenced' /\ OpenOK'
  <1>0. /\ session \in [Sessions -> {"gone", "connected", "open"}]
        /\ FileReferenced /\ OpenOK
    BY DEF Inv, TypeOK
  <1>1. CASE RunL
    BY <1>1, UsersUnchanged DEF RunL, RunLIdle, BuildIndexStep, DeleteEntryStep, CategoryStep
  <1>2. CASE CloseTimerRunL
    <2>1. Users = {}
      BY <1>0, <1>2, UsersFinite DEF CloseTimerRunL, FileReferenced
    <2> QED
      BY <1>0, <1>2, <2>1 DEF CloseTimerRunL, FileDeleted, FileReferenced, OpenOK, Users
  <1>3. CASE ServerTerminates
    <2>1. Users' = {}
      BY <1>3 DEF ServerTerminates, Users
    <2> QED
      BY <1>3, <2>1, FS_EmptySet DEF ServerTerminates, FileDeleted, FileReferenced, OpenOK, Users
  <1>4. ASSUME NEW s \in Sessions, ClientNext(s)
        PROVE  FileReferenced' /\ OpenOK'
    <2>1. CASE Connect(s)
      <3>1. Users' = Users
        BY <1>0, <2>1 DEF Connect, Users
      <3>2. UNCHANGED fileVars
        BY <2>1 DEF Connect
      <3> QED
        BY <1>0, <3>1, <3>2 DEF FileReferenced, OpenOK, Users, fileVars
    <2>2. CASE OpenAgenda(s)
      <3>1. Users' = Users \cup {s} /\ s \notin Users
        BY <1>0, <2>2 DEF OpenAgenda, OpenFile, Users
      <3>2. Cardinality(Users') = iRefCount + 1
        BY <3>1, UsersFinite, FS_AddElement
      <3>3. iRefCount' = Cardinality(Users') /\ closeTimer' = FALSE /\ iRefCount' # 0
        BY <2>2, <3>2, UsersFinite DEF OpenAgenda, OpenFile
      <3>4. OpenOK'
        BY <2>2 DEF OpenAgenda, OpenFile, OpenOK
      <3> QED
        BY <3>3, <3>4 DEF FileReferenced, Users
    <2>3. CASE CloseSessionFile(s)
      BY <2>3, CloseAgendaReferences DEF CloseSessionFile
    <2>4. CASE Disconnect(s)
      <3>1. CASE session[s] = "open"
        BY <2>4, <3>1, CloseAgendaReferences DEF Disconnect, UsesFile
      <3>2. CASE session[s] # "open"
        <4>1. Users' = Users /\ UNCHANGED fileVars
          BY <1>0, <2>4, <3>2 DEF Disconnect, UsesFile, Users
        <4> QED
          BY <1>0, <4>1 DEF FileReferenced, OpenOK, Users, fileVars
      <3> QED
        BY <3>1, <3>2
    <2>5. CASE ~(Connect(s) \/ OpenAgenda(s) \/ CloseSessionFile(s) \/ Disconnect(s))
      <3>1. UNCHANGED fileVars /\ UNCHANGED session
        BY <1>4, <2>5 DEF ClientNext, SecondCall, ClientRunL, StartBuildIndexL, AppendCallBack,
             WaitUntilLoadedL, StartDeleteEntryL, StartCategoryTaskL, RefuseTask,
             TidyByDateStart, EntriesInRange, CategoryTaskStart, CancelAsynTask, ClientProgress,
             ClientCompleted, DeleteEntry, CommitChanges, RollbackChanges, SetCalendarInfo, Change
      <3> QED
        BY <3>1, UsersUnchanged
    <2> QED
      BY <2>1, <2>2, <2>3, <2>4, <2>5
  <1> QED
    BY <1>1, <1>2, <1>3, <1>4 DEF Next

-----------------------------------------------------------------------------
(* Types *)

LEMMA AnswerType ==
  ASSUME TypeOK, NEW X, NEW code \in Codes
  PROVE  /\ Answered(X, code) \in [Sessions -> Codes \cup {"none", "held"}]
         /\ StillWaiting(X) \in [Sessions -> BOOLEAN]
  BY DEF TypeOK, Answered, StillWaiting

RequestType == /\ request \in [Sessions -> Codes \cup {"none", "held"}]
               /\ waiting \in [Sessions -> BOOLEAN]
QueueType   == iMessageVector \in SUBSET Messages /\ iSession \in Sessions \cup {NoSession, Gone}
TaskType    == /\ isActive \in BOOLEAN /\ iActiveStep \in AsyncActions \cup {"ENoAction"}
               /\ iIndexesBuilt \in BOOLEAN
DeleteType  == /\ hasAsyncDelete \in BOOLEAN /\ toDelete \in SUBSET Entries
               /\ tidyRange \in SUBSET Entries /\ bufferedDeleting \in BOOLEAN
               /\ bulkChange \in [Sessions -> BOOLEAN]
FileType    == open \in BOOLEAN /\ iRefCount \in Nat /\ closeTimer \in BOOLEAN
ClientType  == /\ session \in [Sessions -> {"gone", "connected", "open"}]
               /\ iAction \in [Sessions -> AsyncActions \cup {"ENoAction"}]
               /\ iCallBacks \in [Sessions -> 0..MaxCallBacks]
               /\ preparing \in [Sessions -> BOOLEAN]
                    /\ categoryLeft \in 0..MaxCategorySteps

LEMMA TypeOKParts ==
  TypeOK <=> /\ model \in ModelType /\ RequestType /\ QueueType /\ TaskType
             /\ DeleteType /\ FileType /\ ClientType
  BY DEF TypeOK, RequestType, QueueType, TaskType, DeleteType, FileType, ClientType

LEMMA CompleteRequestsType ==
  ASSUME TypeOK, NEW b, NEW code \in Codes, NEW s, CompleteRequests(b, code, s)
  PROVE  /\ RequestType' /\ iMessageVector' \in SUBSET Messages
         /\ iActiveStep' \in {"ENoAction", iActiveStep}
  <1>1. RequestType'
    BY AnswerType DEF CompleteRequests, Answer, RequestType
  <1> QED
    BY <1>1 DEF CompleteRequests, TypeOK

LEMMA AnswerAtOnceType ==
  ASSUME TypeOK, NEW s, NEW kind, NEW code \in Codes, AnswerAtOnce(s, kind, code)
  PROVE  RequestType'
  BY DEF AnswerAtOnce, TypeOK, RequestType

LEMMA AddAsyncRequesterType ==
  ASSUME TypeOK, NEW s \in Sessions, NEW kind \in {"task", "wait"}, NEW report \in BOOLEAN,
         AddAsyncRequester(s, kind, report)
  PROVE  RequestType' /\ QueueType'
  <1>1. Message(s, kind, report) \in Messages
    BY DEF Message, Messages
  <1>2. request' \in [Sessions -> Codes \cup {"none", "held"}]
    BY DEF AddAsyncRequester, Held, TypeOK
  <1>3. waiting' \in [Sessions -> BOOLEAN]
    <2>1. waiting' = [waiting EXCEPT ![s] = waiting[s] \/ kind = "wait"]
      BY DEF AddAsyncRequester
    <2>2. (waiting[s] \/ kind = "wait") \in BOOLEAN
      OBVIOUS
    <2> QED
      BY <2>1, <2>2 DEF TypeOK
  <1> QED
    BY <1>1, <1>2, <1>3 DEF AddAsyncRequester, TypeOK, QueueType, RequestType

LEMMA StartBuildIndexType ==
  ASSUME TypeOK, NEW s \in Sessions, NEW kind \in {"task", "wait"}, NEW report \in BOOLEAN,
         StartBuildIndex(s, kind, report)
  PROVE  RequestType' /\ QueueType' /\ TaskType'
  <1>1. TaskType'
    BY DEF StartBuildIndex, TaskType, TypeOK, taskVars, AsyncActions
  <1>2. CASE AddAsyncRequester(s, kind, report)
    BY <1>1, <1>2, AddAsyncRequesterType
  <1>3. CASE AnswerAtOnce(s, kind, "ok") /\ UNCHANGED taskVars
    BY <1>1, <1>3, AnswerAtOnceType DEF Codes, TypeOK, QueueType, taskVars
  <1>4. CASE /\ iMessageVector' = {} /\ iSession' = s
             /\ Answer(iMessageVector \cup {Message(s, kind, report)}, "ok")
    BY <1>1, <1>4, AnswerType DEF Answer, Codes, QueueType, RequestType
  <1> QED
    BY <1>2, <1>3, <1>4 DEF StartBuildIndex

LEMMA EndDeleteType ==
  ASSUME TypeOK, EndDelete
  PROVE  DeleteType' /\ iSession' = NoSession
  BY DEF EndDelete, BulkChangeCompleted, DeleteType, TypeOK

LEMMA RunLType ==
  ASSUME TypeOK, RunL
  PROVE  RequestType' /\ QueueType' /\ TaskType' /\ DeleteType' /\ FileType' /\ ClientType'
  <1>0. FileType' /\ UNCHANGED clientVars /\ UNCHANGED session
    BY DEF RunL, RunLIdle, BuildIndexStep, DeleteEntryStep, CategoryStep, fileVars, FileType, TypeOK
  <1>1. categoryLeft' \in 0..MaxCategorySteps
    <2>1. \/ categoryLeft' = categoryLeft \/ categoryLeft' = 0
          \/ categoryLeft > 1 /\ categoryLeft' = categoryLeft - 1
      BY DEF RunL, RunLIdle, BuildIndexStep, DeleteEntryStep, CategoryStep
    <2> QED
      BY <2>1, BoundsAssumption DEF TypeOK
  <1>2. ClientType'
    BY <1>0, <1>1 DEF clientVars, ClientType, TypeOK
  <1>3. DeleteType' /\ iSession' \in {iSession, NoSession}
    <2>1. CASE EndDelete
      BY <2>1, EndDeleteType
    <2>2. CASE DeleteEntryStep /\ ~EndDelete
      BY <2>2 DEF DeleteEntryStep, StepProgress, DeleteType, TypeOK
    <2>3. CASE RunLIdle \/ BuildIndexStep \/ CategoryStep
      BY <2>3 DEF RunLIdle, BuildIndexStep, CategoryStep, deleteVars, DeleteType, TypeOK
    <2> QED
      BY <2>1, <2>2, <2>3 DEF RunL
  <1>4. CASE RunLIdle
    BY <1>0, <1>2, <1>3, <1>4 DEF RunLIdle, RequestType, QueueType, TaskType, TypeOK
  <1>5. CASE ~RunLIdle
    <2>1. PICK b \in BOOLEAN, code \in Codes : CompleteRequests(b, code, iSession)
      BY <1>5 DEF RunL, BuildIndexStep, DeleteEntryStep, CategoryStep, StepProgress, StepEnd, Codes
    <2>2. /\ RequestType' /\ iMessageVector' \in SUBSET Messages
          /\ iActiveStep' \in {"ENoAction", iActiveStep}
      BY <2>1, CompleteRequestsType
    <2>3. isActive' \in BOOLEAN /\ iIndexesBuilt' \in BOOLEAN
      BY <1>5 DEF RunL, BuildIndexStep, DeleteEntryStep, CategoryStep, StepProgress, StepEnd, TypeOK
    <2> QED
      BY <1>0, <1>2, <1>3, <2>2, <2>3 DEF QueueType, TaskType, TypeOK
  <1> QED
    BY <1>4, <1>5

\* The types of the parts that a step leaves alone.
LEMMA UnchangedTypes ==
  ASSUME TypeOK
  PROVE  /\ UNCHANGED <<request, waiting>> => RequestType'
         /\ UNCHANGED <<iMessageVector, iSession>> => QueueType'
         /\ UNCHANGED <<isActive, iActiveStep, iIndexesBuilt>> => TaskType'
         /\ UNCHANGED deleteVars => DeleteType'
         /\ UNCHANGED fileVars => FileType'
         /\ UNCHANGED <<clientVars, session, categoryLeft>> => ClientType'
  BY DEF TypeOK, RequestType, QueueType, TaskType, DeleteType, FileType, ClientType,
         deleteVars, fileVars, clientVars

LEMMA FileTypeNext ==
  ASSUME Inv, Next
  PROVE  FileType'
  <1>1. iRefCount' \in Nat
    <2>1. IsFiniteSet({s \in Sessions : session'[s] = "open"})
      BY SessionsAssumption, FS_Subset
    <2> QED
      BY <2>1, NextFileOK, FS_CardinalityType DEF FileReferenced
  <1>2. open' \in BOOLEAN /\ closeTimer' \in BOOLEAN
    <2>1. TypeOK
      BY DEF Inv
    <2>2. CASE UNCHANGED fileVars
      BY <2>1, <2>2 DEF TypeOK, fileVars
    <2>3. CASE CloseAgenda
      BY <2>1, <2>3 DEF TypeOK, CloseAgenda
    <2>4. CASE CloseTimerRunL \/ ServerTerminates
      BY <2>4 DEF CloseTimerRunL, ServerTerminates, FileDeleted
    <2>5. CASE RunL
      BY <2>1, <2>5, RunLType DEF FileType
    <2>6. ASSUME NEW s \in Sessions, OpenAgenda(s)
          PROVE  open' \in BOOLEAN /\ closeTimer' \in BOOLEAN
      BY <2>6 DEF OpenAgenda, OpenFile
    <2>7. ASSUME NEW s \in Sessions, ClientNext(s), ~OpenAgenda(s)
          PROVE  UNCHANGED fileVars \/ CloseAgenda
      BY <2>7 DEF ClientNext, SecondCall, ClientRunL, Connect, CloseSessionFile, Disconnect,
             StartBuildIndexL, AppendCallBack, WaitUntilLoadedL, StartDeleteEntryL,
             StartCategoryTaskL, RefuseTask, TidyByDateStart, EntriesInRange, CategoryTaskStart,
             CancelAsynTask, ClientProgress, ClientCompleted, DeleteEntry, CommitChanges,
             RollbackChanges, SetCalendarInfo, Change
    <2> QED
      BY <2>2, <2>3, <2>4, <2>5, <2>6, <2>7 DEF Next
  <1> QED
    BY <1>1, <1>2 DEF FileType

LEMMA LifeType ==
  ASSUME TypeOK, NEW s \in Sessions,
         Connect(s) \/ OpenAgenda(s) \/ CloseSessionFile(s)
  PROVE  RequestType' /\ QueueType' /\ TaskType' /\ DeleteType' /\ ClientType'
  <1>1. RequestType' /\ QueueType'
    BY UnchangedTypes DEF Connect, OpenAgenda, OpenFile, CloseSessionFile, taskVars
  <1>2. TaskType'
    BY DEF Connect, OpenAgenda, OpenFile, CloseSessionFile, CloseAgenda, taskVars, TaskType, TypeOK
  <1>3. DeleteType'
    BY DEF Connect, OpenAgenda, OpenFile, CloseSessionFile, deleteVars, DeleteType, TypeOK
  <1>4. ClientType'
    BY DEF Connect, OpenAgenda, OpenFile, CloseSessionFile, clientVars, ClientType, TypeOK
  <1> QED
    BY <1>1, <1>2, <1>3, <1>4

LEMMA EndType ==
  ASSUME TypeOK, CloseTimerRunL \/ ServerTerminates
  PROVE  RequestType' /\ QueueType' /\ TaskType' /\ DeleteType' /\ ClientType'
  <1>1. QueueType' /\ TaskType'
    BY DEF CloseTimerRunL, ServerTerminates, FileDeleted, QueueType, TaskType
  <1>2. CASE CloseTimerRunL
    <2>1. RequestType'
      BY <1>2, UnchangedTypes DEF CloseTimerRunL
    <2>2. DeleteType'
      BY <1>2 DEF CloseTimerRunL, FileDeleted, DeleteType, TypeOK
    <2>3. ClientType'
      BY <1>2, BoundsAssumption DEF CloseTimerRunL, FileDeleted, clientVars, ClientType, TypeOK
    <2> QED
      BY <1>1, <2>1, <2>2, <2>3
  <1>3. CASE ServerTerminates
    <2>1. RequestType'
      BY <1>3 DEF ServerTerminates, RequestType
    <2>2. DeleteType'
      BY <1>3 DEF ServerTerminates, FileDeleted, DeleteType
    <2>3. 0 \in 0..MaxCallBacks /\ 0 \in 0..MaxCategorySteps
      BY BoundsAssumption
    <2>4. ClientType'
      BY <1>3, <2>3 DEF ServerTerminates, FileDeleted, ClientType
    <2> QED
      BY <1>1, <2>1, <2>2, <2>4
  <1> QED
    BY <1>2, <1>3

LEMMA DisconnectType ==
  ASSUME TypeOK, NEW s \in Sessions, Disconnect(s)
  PROVE  RequestType' /\ QueueType' /\ TaskType' /\ DeleteType' /\ ClientType'
  <1>1. RequestType' /\ ClientType'
    <2>1. 0 \in 0..MaxCallBacks
      BY BoundsAssumption
    <2> QED
      BY <2>1 DEF Disconnect, RequestType, ClientType, TypeOK
  <1>2. TaskType'
    BY DEF Disconnect, CloseAgenda, TaskType, TypeOK
  <1>3. DeleteType'
    BY DEF Disconnect, DeleteType, TypeOK
  <1>4. iMessageVector' \in SUBSET Messages
    <2>1. ASSUME NEW x \in Messages
          PROVE  [x EXCEPT !.session = IF @ = s THEN Gone ELSE @] \in Messages
      BY DEF Messages
    <2> QED
      BY <2>1 DEF Disconnect, TypeOK
  <1>5. iSession' \in {NoSession, Gone, iSession}
    BY DEF Disconnect
  <1> QED
    BY <1>1, <1>2, <1>3, <1>4, <1>5 DEF QueueType, TypeOK

LEMMA BuildRequestType ==
  ASSUME TypeOK, NEW s \in Sessions,
         StartBuildIndexL(s) \/ WaitUntilLoadedL(s) \/ ClientProgress(s)
  PROVE  RequestType' /\ QueueType' /\ TaskType' /\ DeleteType' /\ ClientType'
  <1>1. DeleteType'
    BY UnchangedTypes DEF StartBuildIndexL, WaitUntilLoadedL, ClientProgress
  <1>2. CASE StartBuildIndexL(s)
    <2>1. RequestType' /\ QueueType' /\ TaskType'
      BY <1>2, StartBuildIndexType DEF StartBuildIndexL
    <2>2. 1 \in 0..MaxCallBacks
      BY BoundsAssumption
    <2>3. ClientType'
      BY <1>2, <2>2 DEF StartBuildIndexL, BeginTask, ClientType, TypeOK, AsyncActions
    <2> QED
      BY <1>1, <2>1, <2>3
  <1>3. CASE WaitUntilLoadedL(s)
    BY <1>1, <1>3, StartBuildIndexType, UnchangedTypes DEF WaitUntilLoadedL
  <1>4. CASE ClientProgress(s)
    <2>1. ClientType'
      BY <1>4, UnchangedTypes DEF ClientProgress
    <2>2. CASE StartBuildIndex(s, "task", TRUE)
      BY <1>1, <2>1, <2>2, StartBuildIndexType
    <2>3. CASE RequestProgress(s) /\ UNCHANGED <<isActive, iActiveStep, iIndexesBuilt>>
      <3>1. RequestType' /\ QueueType'
        BY <2>3, AnswerAtOnceType, AddAsyncRequesterType, UnchangedTypes
           DEF RequestProgress, Codes
      <3> QED
        BY <1>1, <2>1, <2>3, <3>1, UnchangedTypes
    <2> QED
      BY <1>4, <2>2, <2>3 DEF ClientProgress
  <1> QED
    BY <1>2, <1>3, <1>4

LEMMA StartType ==
  ASSUME TypeOK, NEW s \in Sessions,
         \/ AppendCallBack(s) \/ StartDeleteEntryL(s) \/ StartCategoryTaskL(s) \/ RefuseTask(s)
  PROVE  RequestType' /\ QueueType' /\ TaskType' /\ DeleteType' /\ ClientType'
  <1>1. TaskType'
    BY UnchangedTypes DEF AppendCallBack, StartDeleteEntryL, StartCategoryTaskL, RefuseTask, taskVars
  <1>2. QueueType'
    BY DEF AppendCallBack, StartDeleteEntryL, StartCategoryTaskL, RefuseTask, taskVars,
           QueueType, TypeOK
  <1>3. RequestType'
    BY DEF AppendCallBack, StartDeleteEntryL, StartCategoryTaskL, RefuseTask,
           RequestType, TypeOK, Codes
  <1>4. DeleteType'
    BY RangesAssumption DEF AppendCallBack, StartDeleteEntryL, StartCategoryTaskL, RefuseTask,
           deleteVars, DeleteType, TypeOK
  <1>5. ClientType'
    <2>1. 1 \in 0..MaxCallBacks
      BY BoundsAssumption
    <2>2. CASE AppendCallBack(s)
      <3>1. iCallBacks[s] + 1 \in 0..MaxCallBacks
        BY <2>2, BoundsAssumption DEF AppendCallBack, TypeOK
      <3> QED
        BY <2>2, <3>1 DEF AppendCallBack, ClientType, TypeOK
    <2>3. CASE StartDeleteEntryL(s)
      BY <2>1, <2>3, RangesAssumption
         DEF StartDeleteEntryL, BeginTask, ClientType, TypeOK, AsyncActions
    <2>4. CASE StartCategoryTaskL(s)
      <3>1. PICK a \in CategoryTasks, n \in 1..MaxCategorySteps :
              BeginTask(s, a) /\ categoryLeft' = n
        BY <2>4 DEF StartCategoryTaskL
      <3>2. categoryLeft' \in 0..MaxCategorySteps
        BY <3>1, BoundsAssumption
      <3> QED
        BY <2>1, <2>4, <3>1, <3>2
           DEF StartCategoryTaskL, BeginTask, ClientType, TypeOK, AsyncActions
    <2>5. CASE RefuseTask(s)
      BY <2>5 DEF RefuseTask, ClientType, TypeOK
    <2> QED
      BY <2>2, <2>3, <2>4, <2>5
  <1> QED
    BY <1>1, <1>2, <1>3, <1>4, <1>5

LEMMA SecondCallType ==
  ASSUME TypeOK, NEW s \in Sessions, TidyByDateStart(s) \/ CategoryTaskStart(s)
  PROVE  RequestType' /\ QueueType' /\ TaskType' /\ DeleteType' /\ ClientType'
  <1>1. RequestType' /\ QueueType'
    <2>1. CASE \E report \in BOOLEAN : AddAsyncRequester(s, "task", report)
      BY <2>1, AddAsyncRequesterType
    <2>2. CASE /\ \E code \in {"ok", "error"} : AnswerAtOnce(s, "task", code)
               /\ iMessageVector' = iMessageVector /\ iSession' \in {iSession, NoSession}
      BY <2>2, AnswerAtOnceType DEF Codes, QueueType, TypeOK
    <2> QED
      BY <2>1, <2>2 DEF TidyByDateStart, EntriesInRange, CategoryTaskStart
  <1>2. TaskType'
    BY DEF TidyByDateStart, EntriesInRange, CategoryTaskStart, TaskType, TypeOK, AsyncActions
  <1>3. DeleteType'
    <2>1. bufferedDeleting' \in BOOLEAN
      BY DEF TidyByDateStart, EntriesInRange, CategoryTaskStart, deleteVars, TypeOK
    <2>2. bulkChange' \in [Sessions -> BOOLEAN] /\ hasAsyncDelete' \in BOOLEAN
      BY DEF TidyByDateStart, EntriesInRange, CategoryTaskStart, deleteVars, TypeOK
    <2>3. toDelete' \in SUBSET Entries /\ tidyRange' \in SUBSET Entries
      BY DEF TidyByDateStart, EntriesInRange, CategoryTaskStart, deleteVars, TypeOK
    <2> QED
      BY <2>1, <2>2, <2>3 DEF DeleteType
  <1>4. ClientType'
    BY DEF TidyByDateStart, EntriesInRange, CategoryTaskStart, ClientType, TypeOK
  <1> QED
    BY <1>1, <1>2, <1>3, <1>4

LEMMA EndOfTaskType ==
  ASSUME TypeOK, NEW s \in Sessions,
         \/ CancelAsynTask(s) \/ ClientCompleted(s)
         \/ DeleteEntry(s) \/ CommitChanges(s) \/ RollbackChanges(s) \/ SetCalendarInfo(s)
  PROVE  RequestType' /\ QueueType' /\ TaskType' /\ DeleteType' /\ ClientType'
  <1>1. CASE DeleteEntry(s) \/ CommitChanges(s) \/ RollbackChanges(s) \/ SetCalendarInfo(s)
    BY <1>1, UnchangedTypes
    DEF DeleteEntry, CommitChanges, RollbackChanges, SetCalendarInfo, Change, taskVars
  <1>2. ASSUME CancelAsynTask(s) \/ ClientCompleted(s)
        PROVE  ClientType'
    <2>1. 0 \in 0..MaxCallBacks
      BY BoundsAssumption
    <2>2. /\ iAction' = [iAction EXCEPT ![s] = "ENoAction"]
          /\ iCallBacks' = [iCallBacks EXCEPT ![s] = 0]
          /\ UNCHANGED <<preparing, categoryLeft, session>>
      BY <1>2 DEF CancelAsynTask, ClientCompleted, CallBacksReset
    <2> QED
      BY <2>1, <2>2 DEF ClientType, TypeOK
  <1>3. CASE ClientCompleted(s)
    <2>1. RequestType'
      BY <1>3 DEF ClientCompleted, RequestType, TypeOK
    <2> QED
      BY <1>2, <1>3, <2>1, UnchangedTypes DEF ClientCompleted, taskVars
  <1>4. CASE CancelAsynTask(s)
    <2>1. RequestType'
      <3>1. \/ UNCHANGED waiting /\ request' = [request EXCEPT ![s] = "none"]
            \/ \E X : /\ request' = [Answered(X, "cancel") EXCEPT ![s] = "none"]
                      /\ waiting' = StillWaiting(X)
        BY <1>4 DEF CancelAsynTask
      <3>2. "cancel" \in Codes
        BY DEF Codes
      <3> QED
        BY <3>1, <3>2, AnswerType DEF RequestType, TypeOK
    <2>2. DeleteType' /\ iSession' \in {iSession, NoSession}
      <3>1. CASE EndDelete
        BY <3>1, EndDeleteType
      <3>2. CASE UNCHANGED <<iSession, deleteVars>>
        BY <3>2, UnchangedTypes
      <3> QED
        BY <1>4, <3>1, <3>2 DEF CancelAsynTask, TaskFailed
    <2>3. TaskType'
      BY <1>4 DEF CancelAsynTask, TaskType, TypeOK
    <2>4. iMessageVector' \subseteq iMessageVector
      BY <1>4 DEF CancelAsynTask
    <2> QED
      BY <1>2, <1>4, <2>1, <2>2, <2>3, <2>4 DEF QueueType, TypeOK
  <1> QED
    BY <1>1, <1>3, <1>4

LEMMA NextTypeOK ==
  ASSUME Inv, Next
  PROVE  TypeOK'
  <1>0. TypeOK
    BY DEF Inv
  <1>1. model' \in ModelType /\ FileType'
    BY NextModelOK, FileTypeNext DEF ModelOK
  <1>2. RequestType' /\ QueueType' /\ TaskType' /\ DeleteType' /\ ClientType'
    <2>1. CASE RunL
      BY <1>0, <2>1, RunLType
    <2>2. CASE CloseTimerRunL \/ ServerTerminates
      BY <1>0, <2>2, EndType
    <2>3. ASSUME NEW s \in Sessions, ClientNext(s)
          PROVE  RequestType' /\ QueueType' /\ TaskType' /\ DeleteType' /\ ClientType'
      BY <1>0, <2>3, LifeType, DisconnectType, BuildRequestType, StartType, SecondCallType,
         EndOfTaskType DEF ClientNext, SecondCall, ClientRunL
    <2> QED
      BY <2>1, <2>2, <2>3 DEF Next
  <1> QED
    BY <1>1, <1>2 DEF TypeOK, RequestType, QueueType, TaskType, DeleteType, FileType, ClientType

-----------------------------------------------------------------------------
(* The theorems *)

LEMMA NextInv ==
  ASSUME Inv, Next
  PROVE  Inv'
  <1>1. StoreOK' /\ IndexInStore'
    BY NextModelOK DEF ModelOK, StoreOK, IndexInStore
  <1> QED
    BY <1>1, NextTypeOK, NextQueueOK, NextFileOK, NextDeleteOK DEF Inv, QueueInv

LEMMA StutterInv ==
  ASSUME Inv, UNCHANGED vars
  PROVE  Inv'
  BY DEF vars, fileVars, taskVars, deleteVars, clientVars, Inv, TypeOK, StoreOK, IndexInStore,
         ClientOK, HeldIffQueued, HasMessage, QueueOK, FileReferenced, OpenOK, DeleteOK,
         DeleteIsolated

\* Inv holds in every reachable state, for any sessions, entries and ranges.
THEOREM InvInvariant == Spec => []Inv
  <1>1. Init => Inv
    BY InitInv
  <1>2. Inv /\ [Next]_vars => Inv'
    BY NextInv, StutterInv
  <1> QED
    BY <1>1, <1>2, PTL DEF Spec

\* Every state of the file and of its clients is well formed.
THEOREM TypeCorrect == Spec => []TypeOK
  <1>1. Inv => TypeOK
    BY DEF Inv
  <1> QED
    BY <1>1, InvInvariant, PTL

\* No request is forgotten and none is completed twice (CompleteRequests).
THEOREM RequestsHeldIffQueued == Spec => []HeldIffQueued
  <1>1. Inv => HeldIffQueued
    BY DEF Inv
  <1> QED
    BY <1>1, InvInvariant, PTL

\* The references are the sessions with the file open; without users it is
\* scheduled for its close (CloseAgenda, the shutdown delay timer).
THEOREM FileIsReferenced == Spec => []FileReferenced
  <1>1. Inv => FileReferenced
    BY DEF Inv
  <1> QED
    BY <1>1, InvInvariant, PTL

\* The indexes, and the index file of an open or a closed calendar, name only
\* entries of the stream id set (DoIndexBuildStepL, RollbackIndexesL, DeleteEntryL).
THEOREM IndexesInStore == Spec => []IndexInStore
  <1>1. Inv => IndexInStore
    BY DEF Inv
  <1> QED
    BY <1>1, InvInvariant, PTL

\* A running delete has uncommitted work of its own range only, so its commit
\* and its rollback touch no other session's changes (TidyByDateStartL).
THEOREM DeletesAreIsolated == Spec => []DeleteIsolated
  <1>1. Inv => DeleteIsolated
    BY DEF Inv
  <1> QED
    BY <1>1, InvInvariant, PTL

-----------------------------------------------------------------------------
(* What a step may never do *)

LEMMA DiskStep ==
  ASSUME Inv, Next, iActiveStep = "EDeleteEntry", OnDisk(model') # OnDisk(model),
         ~ \E s \in Sessions : SetCalendarInfo(s)
  PROVE  OnDisk(model') \cap toDelete = {}
  <1>0. ModelOK(model) /\ IsLocked /\ toDelete \subseteq model.committed
    BY InvModelOK DEF Inv, DeleteOK, IsLocked
  <1>1. ~(model'.committed = model.committed /\ model'.lost = model.lost)
    BY DEF OnDisk
  <1>2. CASE DeleteEntryStep
    <2>1. ASSUME NEW B \in SUBSET toDelete
          PROVE  /\ ModelOK(DeleteTidiedEntries(model, B)) /\ ModelOK(DeleteEntries(model, B))
                 /\ DeleteTidiedEntries(model, B).committed = model.committed
                 /\ DeleteTidiedEntries(model, B).lost = model.lost
                 /\ DeleteTidiedEntries(model, B).store = model.store \ B
                 /\ DeleteEntries(model, B).committed = model.committed
                 /\ DeleteEntries(model, B).lost = model.lost
      <3>1. B \in SUBSET model.committed
        BY <1>0
      <3> QED
        BY <1>0, <3>1, DeleteTidiedEntriesOK, DeleteEntriesOK
    <2>2. PICK B \in SUBSET toDelete :
            \/ model' = DeleteTidiedEntries(model, B)
            \/ model' = CommitL(DeleteTidiedEntries(model, B)) /\ B = toDelete
            \/ model' = Rollback(DeleteEntries(model, B))
      BY <1>2 DEF DeleteEntryStep
    <2>3. model' # DeleteTidiedEntries(model, B)
      BY <1>1, <2>1
    <2>4. model' # Rollback(DeleteEntries(model, B))
      BY <1>1, <2>1, RollbackOK
    <2>5. model' = CommitL(DeleteTidiedEntries(model, toDelete))
      BY <2>2, <2>3, <2>4
    <2> QED
      BY <2>1, <2>5, CommitOK DEF OnDisk
  <1>3. ~(RunL /\ ~DeleteEntryStep)
    BY DEF RunL, RunLIdle, BuildIndexStep, CategoryStep, Stepping, CategoryTasks
  <1>4. ~(CloseTimerRunL \/ ServerTerminates)
    BY <1>1 DEF CloseTimerRunL, ServerTerminates, ModelClosed, NewModel
  <1>5. ASSUME NEW s \in Sessions, ClientNext(s)
        PROVE  FALSE
    <2>1. CASE StartBuildIndexL(s) \/ WaitUntilLoadedL(s) \/ ClientProgress(s)
      BY <1>1, <2>1, StartBuildIndexModelOK DEF StartBuildIndexL, WaitUntilLoadedL, ClientProgress
    <2>2. CASE Disconnect(s) \/ CancelAsynTask(s)
      BY <1>0, <1>1, <2>2, RollbackOK DEF Disconnect, CancelAsynTask, TaskFailed
    <2>3. CASE \/ Connect(s) \/ OpenAgenda(s) \/ CloseSessionFile(s) \/ AppendCallBack(s)
               \/ StartDeleteEntryL(s) \/ StartCategoryTaskL(s)
               \/ RefuseTask(s) \/ ClientCompleted(s)
      BY <1>1, <2>3 DEF Connect, OpenAgenda, OpenFile, CloseSessionFile, AppendCallBack,
           StartDeleteEntryL, StartCategoryTaskL, RefuseTask, ClientCompleted
    <2>4. ~ \/ TidyByDateStart(s) \/ CategoryTaskStart(s)
            \/ DeleteEntry(s) \/ CommitChanges(s) \/ RollbackChanges(s)
      BY <1>0 DEF TidyByDateStart, EntriesInRange, CategoryTaskStart, DeleteEntry, CommitChanges,
           RollbackChanges, Change
    <2> QED
      BY <1>5, <2>1, <2>2, <2>3, <2>4 DEF ClientNext, SecondCall, ClientRunL
  <1> QED
    BY <1>2, <1>3, <1>4, <1>5 DEF Next

\* While a delete runs, what the disk has of the entries changes in two ways: a
\* write of calendar information puts the batches so far on it, and the end of the
\* delete all of it.  No other step of the file, its sessions or the server does
\* (DeleteTidiedEntriesL, DoTaskCompleteL, CloseAgendaImmediately).
THEOREM DeletesAreAtomic == Spec => DeleteAtomicOnDisk
  <1>1. Inv /\ [Next]_vars =>
          [/\ iActiveStep = "EDeleteEntry"
           /\ OnDisk(model') # OnDisk(model)
           /\ ~ \E s \in Sessions : SetCalendarInfo(s)
           => OnDisk(model') \cap toDelete = {}]_vars
    BY DiskStep
  <1> QED
    BY <1>1, InvInvariant, PTL DEF Spec, DeleteAtomicOnDisk

\* Only s itself, or the end of the server, makes it give up its task.
LEMMA GivesUpAlone ==
  ASSUME Inv, Next, NEW s \in Sessions, GivesUp(s), open'
  PROVE  CancelAsynTask(s) \/ Disconnect(s)
  <1>0. iAction \in [Sessions -> AsyncActions \cup {"ENoAction"}] /\ "ENoAction" \notin AsyncActions
    BY DEF Inv, TypeOK, AsyncActions, CategoryTasks
  <1>1. UNCHANGED iAction => FALSE
    BY DEF GivesUp
  <1>2. CASE RunL \/ CloseTimerRunL \/ ServerTerminates
    BY <1>1, <1>2 DEF RunL, RunLIdle, BuildIndexStep, DeleteEntryStep, CategoryStep,
         CloseTimerRunL, ServerTerminates, FileDeleted, clientVars
  <1>3. ASSUME NEW u \in Sessions, ClientNext(u)
        PROVE  CancelAsynTask(s) \/ Disconnect(s)
    <2>1. CASE CancelAsynTask(u) \/ Disconnect(u) \/ ClientCompleted(u)
      <3>1. iAction' = [iAction EXCEPT ![u] = "ENoAction"]
        BY <2>1 DEF CancelAsynTask, Disconnect, ClientCompleted
      <3>2. u = s
        BY <1>0, <3>1 DEF GivesUp
      <3>3. ~ClientCompleted(s)
        BY DEF ClientCompleted, GivesUp, Codes
      <3> QED
        BY <2>1, <3>2, <3>3
    <2>2. CASE StartBuildIndexL(u) \/ StartDeleteEntryL(u) \/ StartCategoryTaskL(u)
      <3>1. PICK a \in AsyncActions : iAction' = [iAction EXCEPT ![u] = a]
        BY <2>2 DEF StartBuildIndexL, StartDeleteEntryL, StartCategoryTaskL, BeginTask, AsyncActions
      <3> QED
        BY <1>0, <3>1 DEF GivesUp
    <2>3. CASE \/ Connect(u) \/ OpenAgenda(u) \/ CloseSessionFile(u) \/ AppendCallBack(u)
               \/ WaitUntilLoadedL(u) \/ SecondCall(u) \/ ClientProgress(u)
               \/ DeleteEntry(u) \/ CommitChanges(u) \/ RollbackChanges(u) \/ SetCalendarInfo(u)
      BY <1>1, <2>3 DEF Connect, OpenAgenda, OpenFile, CloseSessionFile, AppendCallBack, WaitUntilLoadedL,
           SecondCall, RefuseTask, TidyByDateStart, EntriesInRange, CategoryTaskStart, ClientProgress,
           DeleteEntry, CommitChanges, RollbackChanges, SetCalendarInfo, Change, clientVars
    <2> QED
      BY <1>3, <2>1, <2>2, <2>3 DEF ClientNext, ClientRunL
  <1> QED
    BY <1>2, <1>3 DEF Next

\* A cancel, or the end of a client, completes no other session's request
\* (CompleteRequests, ~CAgnServerSession).
THEOREM CancelsTouchTheirOwn == Spec => CancelTouchesOwn
  <1>1. ASSUME Inv, Next, NEW s \in Sessions, NEW t \in Sessions, GivesUp(s), s # t, open'
        PROVE  request'[t] = request[t] /\ waiting'[t] = waiting[t]
    <2>1. CASE CancelAsynTask(s)
      <3>1. waiting'[t] \in BOOLEAN /\ waiting[t] \in BOOLEAN
        BY <1>1, NextTypeOK DEF Inv, TypeOK
      <3> QED
        <4>1. \A u \in Sessions : /\ request'[u] = IF u = s THEN "none" ELSE request[u]
                                  /\ waiting'[u] <=> waiting[u]
          BY <1>1, <2>1, CancelOwn
        <4> QED
          BY <1>1, <3>1, <4>1
    <2>2. CASE Disconnect(s)
      BY <1>1, <2>2 DEF Disconnect, Inv, TypeOK
    <2> QED
      BY <1>1, <2>1, <2>2, GivesUpAlone
  <1>2. Inv /\ [Next]_vars =>
          [\A s, t \in Sessions :
             GivesUp(s) /\ s # t /\ open'
               => request'[t] = request[t] /\ waiting'[t] = waiting[t]]_vars
    BY <1>1
  <1> QED
    BY <1>2, InvInvariant, PTL DEF Spec, CancelTouchesOwn

-----------------------------------------------------------------------------
(* The callbacks of a client *)

\* A client that has begun a task has a request for it, or is about to make one.
TaskHasRequest ==
  \A s \in Sessions :
    iAction[s] # "ENoAction" \/ iCallBacks[s] > 0 => preparing[s] \/ request[s] # "none"

\* Requests that are answered or made stay requests.
RequestsStay == \A s \in Sessions : request[s] # "none" => request'[s] # "none"

LEMMA AnsweredStay ==
  ASSUME NEW X, NEW code \in Codes
  PROVE  \A s \in Sessions : request[s] # "none" => Answered(X, code)[s] # "none"
  BY DEF Answered, Codes

LEMMA CompleteRequestsStay ==
  ASSUME NEW done, NEW code \in Codes, NEW s, CompleteRequests(done, code, s)
  PROVE  RequestsStay
  BY AnsweredStay DEF CompleteRequests, Answer, RequestsStay

LEMMA StartBuildIndexStays ==
  ASSUME Inv, NEW s \in Sessions, NEW kind \in {"task", "wait"}, NEW report \in BOOLEAN,
         StartBuildIndex(s, kind, report)
  PROVE  RequestsStay /\ (kind = "task" => request'[s] # "none")
  <1>0. request \in [Sessions -> Codes \cup {"none", "held"}]
    BY DEF Inv, TypeOK
  <1>1. CASE AnswerAtOnce(s, kind, "ok") \/ AddAsyncRequester(s, kind, report)
    BY <1>0, <1>1 DEF AnswerAtOnce, AddAsyncRequester, Held, RequestsStay
  <1>2. CASE Answer(iMessageVector \cup {Message(s, kind, report)}, "ok")
    <2>1. RequestsStay
      BY <1>2, AnsweredStay DEF Answer, RequestsStay, Codes
    <2>2. kind = "task" => request'[s] = "ok"
      <3> DEFINE X == iMessageVector \cup {Message(s, kind, report)}
      <3>1. Message(s, kind, report) \in X
        OBVIOUS
      <3>2. Message(s, kind, report).session = s /\ Message(s, kind, report).kind = kind
        BY DEF Message
      <3>3. request' = Answered(X, "ok")
        BY <1>2 DEF Answer
      <3> HIDE DEF X
      <3> QED
        BY <3>1, <3>2, <3>3 DEF Answered
    <2> QED
      BY <2>1, <2>2
  <1> QED
    BY <1>1, <1>2 DEF StartBuildIndex

\* A step that takes no request away and begins no task.
LEMMA NoTaskBegins ==
  ASSUME TaskHasRequest, RequestsStay, UNCHANGED <<iAction, iCallBacks, preparing>>
  PROVE  TaskHasRequest'
  BY DEF TaskHasRequest, RequestsStay

LEMMA RunLCallBacks ==
  ASSUME TaskHasRequest, RunL
  PROVE  TaskHasRequest'
  <1>1. UNCHANGED clientVars
    BY DEF RunL, RunLIdle, BuildIndexStep, DeleteEntryStep, CategoryStep
  <1>2. RequestsStay
    <2>1. CASE RunLIdle
      BY <2>1 DEF RunLIdle, RequestsStay
    <2>2. CASE BuildIndexStep
      BY <2>2, CompleteRequestsStay DEF BuildIndexStep, StepEnd, StepProgress, Codes
    <2>3. CASE DeleteEntryStep
      BY <2>3, CompleteRequestsStay DEF DeleteEntryStep, StepEnd, StepProgress, Codes
    <2>4. CASE CategoryStep
      BY <2>4, CompleteRequestsStay DEF CategoryStep, StepEnd, StepProgress, Codes
    <2> QED
      BY <2>1, <2>2, <2>3, <2>4 DEF RunL
  <1> QED
    BY <1>1, <1>2, NoTaskBegins DEF clientVars

\* A client begins a task, or goes on with its start.
LEMMA BeginCallBacks ==
  ASSUME Inv, TaskHasRequest, NEW s \in Sessions,
         \/ StartBuildIndexL(s) \/ StartDeleteEntryL(s) \/ StartCategoryTaskL(s)
         \/ SecondCall(s)
  PROVE  TaskHasRequest'
  <1>0. /\ request \in [Sessions -> Codes \cup {"none", "held"}]
        /\ iAction \in [Sessions -> AsyncActions \cup {"ENoAction"}]
        /\ iCallBacks \in [Sessions -> 0..MaxCallBacks]
        /\ preparing \in [Sessions -> BOOLEAN]
    BY DEF Inv, TypeOK
  <1>1. /\ RequestsStay
        /\ \A t \in Sessions : t # s =>
             UNCHANGED <<iAction[t], iCallBacks[t], preparing[t]>>
        /\ request'[s] # "none" \/ preparing'[s]
    <2>1. CASE StartBuildIndexL(s)
      <3>1. RequestsStay /\ request'[s] # "none"
        BY <2>1, StartBuildIndexStays DEF StartBuildIndexL
      <3> QED
        BY <1>0, <2>1, <3>1 DEF StartBuildIndexL, BeginTask
    <2>2. CASE StartDeleteEntryL(s)
      BY <1>0, <2>2 DEF StartDeleteEntryL, BeginTask, RequestsStay
    <2>3. CASE StartCategoryTaskL(s)
      BY <1>0, <2>3 DEF StartCategoryTaskL, BeginTask, RequestsStay
    <2>4. CASE RefuseTask(s)
      BY <1>0, <2>4 DEF RefuseTask, RequestsStay
    <2>5. CASE CategoryTaskStart(s)
      BY <1>0, <2>5 DEF CategoryTaskStart, AddAsyncRequester, Held, RequestsStay
    <2>6. CASE TidyByDateStart(s)
      BY <1>0, <2>6 DEF TidyByDateStart, AnswerAtOnce, AddAsyncRequester, Held, RequestsStay
    <2> QED
      BY <2>1, <2>2, <2>3, <2>4, <2>5, <2>6 DEF SecondCall
  <1> QED
    BY <1>1 DEF TaskHasRequest, RequestsStay

\* A client's task ends: it is cancelled or completed, or its session ends.
LEMMA EndCallBacks ==
  ASSUME Inv, TaskHasRequest, NEW s \in Sessions,
         CancelAsynTask(s) \/ ClientCompleted(s) \/ Disconnect(s)
  PROVE  TaskHasRequest'
  <1>0. /\ request \in [Sessions -> Codes \cup {"none", "held"}]
        /\ iAction \in [Sessions -> AsyncActions \cup {"ENoAction"}]
        /\ iCallBacks \in [Sessions -> 0..MaxCallBacks]
        /\ preparing \in [Sessions -> BOOLEAN]
    BY DEF Inv, TypeOK
  <1>1. /\ iAction' = [iAction EXCEPT ![s] = "ENoAction"]
        /\ iCallBacks' = [iCallBacks EXCEPT ![s] = 0]
        /\ \A t \in Sessions : t # s => UNCHANGED preparing[t]
    BY <1>0 DEF CancelAsynTask, ClientCompleted, Disconnect, CallBacksReset
  <1>2. \A t \in Sessions : t # s /\ request[t] # "none" => request'[t] # "none"
    <2>1. CASE CancelAsynTask(s)
      <3>1. CASE ~IsInterestedSession(s)
        BY <1>0, <2>1, <3>1 DEF CancelAsynTask
      <3>2. CASE IsInterestedSession(s)
        <4>1. PICK X : request' = [Answered(X, "cancel") EXCEPT ![s] = "none"]
          BY <2>1, <3>2 DEF CancelAsynTask
        <4>2. \A t \in Sessions : request[t] # "none" => Answered(X, "cancel")[t] # "none"
          BY AnsweredStay DEF Codes
        <4> QED
          BY <4>1, <4>2 DEF Answered
      <3> QED
        BY <3>1, <3>2
    <2>2. CASE ClientCompleted(s) \/ Disconnect(s)
      BY <1>0, <2>2 DEF ClientCompleted, Disconnect
    <2> QED
      BY <2>1, <2>2
  <1>3. iAction'[s] = "ENoAction" /\ iCallBacks'[s] = 0
    BY <1>0, <1>1
  <1>4. \A t \in Sessions : t # s => iAction'[t] = iAction[t] /\ iCallBacks'[t] = iCallBacks[t]
    BY <1>0, <1>1
  <1> QED
    BY <1>1, <1>2, <1>3, <1>4 DEF TaskHasRequest

LEMMA NextCallBacks ==
  ASSUME Inv, TaskHasRequest, Next
  PROVE  TaskHasRequest'
  <1>1. CASE RunL
    BY <1>1, RunLCallBacks
  <1>2. CASE CloseTimerRunL
    BY <1>2, NoTaskBegins DEF CloseTimerRunL, clientVars, RequestsStay
  <1>3. CASE ServerTerminates
    BY <1>3 DEF ServerTerminates, TaskHasRequest
  <1>4. ASSUME NEW s \in Sessions, ClientNext(s)
        PROVE  TaskHasRequest'
    <2>1. CASE \/ Connect(s) \/ OpenAgenda(s) \/ CloseSessionFile(s)
               \/ DeleteEntry(s) \/ CommitChanges(s) \/ RollbackChanges(s) \/ SetCalendarInfo(s)
      BY <2>1, NoTaskBegins DEF Connect, OpenAgenda, OpenFile, CloseSessionFile, DeleteEntry,
         CommitChanges, RollbackChanges, SetCalendarInfo, Change, clientVars, RequestsStay
    <2>2. CASE WaitUntilLoadedL(s)
      <3>1. RequestsStay
        BY <2>2, StartBuildIndexStays DEF WaitUntilLoadedL
      <3> QED
        BY <2>2, <3>1, NoTaskBegins DEF WaitUntilLoadedL, clientVars
    <2>3. CASE ClientProgress(s)
      <3>0. request \in [Sessions -> Codes \cup {"none", "held"}]
        BY DEF Inv, TypeOK
      <3>1. RequestsStay
        <4>1. CASE StartBuildIndex(s, "task", TRUE)
          BY <4>1, StartBuildIndexStays
        <4>2. CASE RequestProgress(s)
          BY <3>0, <4>2 DEF RequestProgress, AnswerAtOnce, AddAsyncRequester, Held, RequestsStay
        <4> QED
          BY <2>3, <4>1, <4>2 DEF ClientProgress
      <3> QED
        BY <2>3, <3>1, NoTaskBegins DEF ClientProgress, clientVars
    <2>4. CASE AppendCallBack(s)
      <3>1. iAction[s] # "ENoAction"
        BY <2>4 DEF AppendCallBack
      <3> QED
        BY <2>4, <3>1 DEF AppendCallBack, TaskHasRequest, Inv, TypeOK
    <2> QED
      BY <1>4, <2>1, <2>2, <2>3, <2>4, BeginCallBacks, EndCallBacks DEF ClientNext, ClientRunL
  <1> QED
    BY <1>1, <1>2, <1>3, <1>4 DEF Next

\* No callback is left without a request that completes it, through starts in
\* two calls, joined builds, refusals, cancels and progress reports
\* (CCalAsyncTaskManager of the client, CAgnServFile::CompleteRequests).
THEOREM CallBacksAreAnswered == Spec => []CallBacksHaveRequest
  <1>1. Init => TaskHasRequest
    BY DEF Init, TaskHasRequest
  <1>2. Inv /\ TaskHasRequest /\ [Next]_vars => TaskHasRequest'
    <2>1. ASSUME TaskHasRequest, UNCHANGED vars
          PROVE  TaskHasRequest'
      BY <2>1 DEF vars, clientVars, TaskHasRequest
    <2> QED
      BY <2>1, NextCallBacks
  <1>3. TaskHasRequest => CallBacksHaveRequest
    BY DEF TaskHasRequest, CallBacksHaveRequest
  <1> QED
    BY <1>1, <1>2, <1>3, InvInvariant, PTL DEF Spec

-----------------------------------------------------------------------------
(* The index file *)

\* The index file holds one index, the one in RAM once that is built.
IndexFileInv == OneIndexFile(model) /\ (iIndexesBuilt => Current(model))

\* What a commit, a rollback or a delete makes of the model.
LEMMA TransactionIndexFile ==
  ASSUME Inv, IndexFileInv, NEW D \in SUBSET Entries, UNCHANGED iIndexesBuilt,
         \/ model' = CommitL(model) \/ model' = Rollback(model)
         \/ model' = DeleteEntries(model, D) \/ model' = DeleteTidiedEntries(model, D)
  PROVE  IndexFileInv'
  <1>1. model \in ModelType
    BY DEF Inv, TypeOK
  <1>2. OneIndexFile(model')
    BY <1>1, TransactionsKeepOne DEF IndexFileInv
  <1>3. iIndexesBuilt => Current(model')
    BY <1>1, TransactionsKeepCurrent DEF IndexFileInv
  <1> QED
    BY <1>2, <1>3 DEF IndexFileInv, OneIndexFile, Current

\* A transaction on the model after a delete, which is a model again.
LEMMA DeleteIndexFile ==
  ASSUME Inv, IndexFileInv, NEW B \in SUBSET model.committed, UNCHANGED iIndexesBuilt,
         \/ model' = CommitL(DeleteTidiedEntries(model, B))
         \/ model' = Rollback(DeleteEntries(model, B))
  PROVE  IndexFileInv'
  <1> DEFINE d == DeleteTidiedEntries(model, B)
             e == DeleteEntries(model, B)
  <1>1. ModelOK(model) /\ B \in SUBSET Entries /\ model \in ModelType
    BY InvModelOK DEF ModelOK, ModelType
  <1>2. d \in ModelType /\ e \in ModelType
    BY <1>1, DeleteTidiedEntriesOK, DeleteEntriesOK DEF ModelOK
  <1>3. OneIndexFile(d) /\ OneIndexFile(e)
    BY <1>1, TransactionsKeepOne DEF IndexFileInv
  <1>4. iIndexesBuilt => Current(d) /\ Current(e)
    BY <1>1, TransactionsKeepCurrent DEF IndexFileInv
  <1>5. model' = CommitL(d) \/ model' = Rollback(e)
    OBVIOUS
  <1> HIDE DEF d, e
  <1>6. OneIndexFile(model')
    BY <1>2, <1>3, <1>5, TransactionsKeepOne
  <1>7. iIndexesBuilt => Current(model')
    BY <1>2, <1>4, <1>5, TransactionsKeepCurrent
  <1> QED
    BY <1>6, <1>7 DEF IndexFileInv, OneIndexFile, Current

LEMMA UntouchedIndexFile ==
  ASSUME IndexFileInv, UNCHANGED <<model, iIndexesBuilt>>
  PROVE  IndexFileInv'
  BY DEF IndexFileInv, OneIndexFile, Current

LEMMA RunLIndexFile ==
  ASSUME Inv, IndexFileInv, RunL
  PROVE  IndexFileInv'
  <1>0. ModelOK(model) /\ model \in ModelType
    BY InvModelOK DEF ModelOK
  <1>1. CASE RunLIdle
    BY <1>1, UntouchedIndexFile DEF RunLIdle
  <1>2. CASE BuildIndexStep
    <2>1. PICK m \in StepModels :
            \/ model' = DoIndexBuildStep(m) \/ model' = CommitL(DoIndexBuildStep(m))
            \/ \E n \in 0..1 : model' = FailedIndexBuildStep(m, n)
      BY <1>2 DEF BuildIndexStep
    <2>2. m \in ModelType
      BY <1>0, <2>1, WithoutIndexFileOK DEF StepModels, ModelOK
    <2>3. OneIndexFile(m)
      BY <1>0, <2>1, TransactionsKeepOne DEF StepModels, IndexFileInv
    <2>4. Current(model')
      BY <2>1, <2>2, <2>3, BuildMakesCurrent, FailedBuildIsCurrent
    <2>5. OneIndexFile(model')
      BY <2>4, CurrentIsOne
    <2> QED
      BY <2>4, <2>5 DEF IndexFileInv, OneIndexFile, Current
  <1>3. CASE DeleteEntryStep
    <2>1. toDelete \subseteq model.committed
      BY <1>3 DEF DeleteEntryStep, Stepping, Inv, DeleteOK
    <2>2. PICK B \in SUBSET toDelete :
            \/ model' = DeleteTidiedEntries(model, B)
            \/ model' = CommitL(DeleteTidiedEntries(model, B))
            \/ model' = Rollback(DeleteEntries(model, B))
      BY <1>3 DEF DeleteEntryStep
    <2>3. B \in SUBSET model.committed /\ B \in SUBSET Entries
      BY <1>0, <2>1, <2>2 DEF ModelOK, ModelType
    <2>4. UNCHANGED iIndexesBuilt
      BY <1>3 DEF DeleteEntryStep
    <2> QED
      BY <2>2, <2>3, <2>4, TransactionIndexFile, DeleteIndexFile
  <1>4. CASE CategoryStep
    <2>1. /\ UNCHANGED iIndexesBuilt
          /\ model' = model \/ model' = CommitL(model) \/ model' = Rollback(model)
      BY <1>4 DEF CategoryStep
    <2>2. {} \in SUBSET Entries
      OBVIOUS
    <2> QED
      BY <2>1, <2>2, UntouchedIndexFile, TransactionIndexFile
  <1> QED
    BY <1>1, <1>2, <1>3, <1>4 DEF RunL

LEMMA BuildRequestIndexFile ==
  ASSUME Inv, IndexFileInv, NEW s, NEW kind, NEW report, StartBuildIndex(s, kind, report)
  PROVE  IndexFileInv'
  <1>0. ModelOK(model) /\ model \in ModelType
    BY InvModelOK DEF ModelOK
  <1>1. CASE UNCHANGED <<model, iIndexesBuilt>>
    BY <1>1, UntouchedIndexFile
  <1>2. CASE model' = ResetIndexes(model) /\ UNCHANGED iIndexesBuilt /\ ~iIndexesBuilt
    <2>1. OneIndexFile(model')
      BY <1>0, <1>2, TransactionsKeepOne DEF IndexFileInv
    <2> QED
      BY <1>2, <2>1 DEF IndexFileInv, OneIndexFile, Current
  <1>3. CASE model' = ResetIndexes(model) /\ StreamsAreEmpty(model)
    <2>1. Current(model')
      BY <1>0, <1>3, EmptyIsCurrent
    <2>2. OneIndexFile(model')
      BY <2>1, CurrentIsOne
    <2> QED
      BY <2>1, <2>2 DEF IndexFileInv, OneIndexFile, Current
  <1> QED
    BY <1>1, <1>2, <1>3 DEF StartBuildIndex, taskVars

LEMMA NextIndexFile ==
  ASSUME Inv, IndexFileInv, Next
  PROVE  IndexFileInv'
  <1>1. CASE CloseTimerRunL
    <2>1. /\ ~iIndexesBuilt'
          /\ model'.indexFile = {model.index} \/ model'.indexFile = model.indexFile
      BY <1>1 DEF CloseTimerRunL, FileDeleted, ModelClosed, NewModel
    <2> QED
      BY <2>1 DEF IndexFileInv, OneIndexFile
  <1>2. CASE ServerTerminates
    <2>1. ~iIndexesBuilt' /\ model'.indexFile = model.indexFile
      BY <1>2 DEF ServerTerminates, FileDeleted, NewModel
    <2> QED
      BY <2>1 DEF IndexFileInv, OneIndexFile
  <1>3. ASSUME NEW s \in Sessions, ClientNext(s)
        PROVE  IndexFileInv'
    <2>0. {} \in SUBSET Entries
      OBVIOUS
    <2>1. CASE \/ Connect(s) \/ OpenAgenda(s) \/ CloseSessionFile(s) \/ AppendCallBack(s)
               \/ StartDeleteEntryL(s) \/ StartCategoryTaskL(s)
               \/ RefuseTask(s) \/ CategoryTaskStart(s) \/ ClientCompleted(s)
      BY <2>1, UntouchedIndexFile DEF Connect, OpenAgenda, OpenFile, CloseSessionFile,
         AppendCallBack, StartDeleteEntryL, StartCategoryTaskL, RefuseTask, CategoryTaskStart,
         ClientCompleted, taskVars
    <2>2. CASE StartBuildIndexL(s) \/ WaitUntilLoadedL(s) \/ ClientProgress(s)
      BY <2>2, UntouchedIndexFile, BuildRequestIndexFile
         DEF StartBuildIndexL, WaitUntilLoadedL, ClientProgress
    <2>3. CASE Disconnect(s) \/ CancelAsynTask(s) \/ RollbackChanges(s)
      <3>1. UNCHANGED iIndexesBuilt /\ (model' = model \/ model' = Rollback(model))
        BY <2>3 DEF Disconnect, CancelAsynTask, TaskFailed, RollbackChanges, Change, taskVars
      <3> QED
        BY <2>0, <3>1, UntouchedIndexFile, TransactionIndexFile
    <2>4. CASE TidyByDateStart(s) \/ CommitChanges(s)
      <3>1. UNCHANGED iIndexesBuilt /\ (model' = model \/ model' = CommitL(model))
        BY <2>4 DEF TidyByDateStart, EntriesInRange, BeforeDelete, CommitChanges, Change, taskVars
      <3> QED
        BY <2>0, <3>1, UntouchedIndexFile, TransactionIndexFile
    <2>5. CASE DeleteEntry(s)
      <3>1. PICK e \in model.index : model' = DeleteEntries(model, {e})
        BY <2>5 DEF DeleteEntry
      <3>2. {e} \in SUBSET Entries /\ UNCHANGED iIndexesBuilt
        BY <2>5, <3>1 DEF DeleteEntry, Change, taskVars, Inv, TypeOK, ModelType
      <3> QED
        BY <3>1, <3>2, TransactionIndexFile
    <2>6. CASE SetCalendarInfo(s)
      <3>1. /\ UNCHANGED iIndexesBuilt /\ model' = CommitStore(model) /\ model \in ModelType
        BY <2>6 DEF SetCalendarInfo, taskVars, Inv, TypeOK
      <3>2. OneIndexFile(model') /\ (iIndexesBuilt => Current(model'))
        BY <3>1, CommitStoreKeepsFile DEF IndexFileInv
      <3> QED
        BY <3>1, <3>2 DEF IndexFileInv, OneIndexFile, Current
    <2> QED
      BY <1>3, <2>1, <2>2, <2>3, <2>4, <2>5, <2>6 DEF ClientNext, SecondCall, ClientRunL
  <1> QED
    BY <1>1, <1>2, <1>3, RunLIndexFile DEF Next

\* While the file is open with built indexes, an index file on the disk has the
\* indexes in RAM: it is gone before they differ, through builds, deletes, commits,
\* rollbacks and steps that leave (MarkIndexFileAsDirty).  Nothing is said of the
\* index file of a closed calendar, nor of the entries in the file.
THEOREM IndexFileIsCurrent == Spec => []IndexFileCurrent
  <1>1. Init => IndexFileInv
    BY DEF Init, NewModel, IndexFileInv, OneIndexFile
  <1>2. Inv /\ IndexFileInv /\ [Next]_vars => IndexFileInv'
    <2>1. ASSUME IndexFileInv, UNCHANGED vars
          PROVE  IndexFileInv'
      BY <2>1, UntouchedIndexFile DEF vars, taskVars
    <2> QED
      BY <2>1, NextIndexFile
  <1>3. IndexFileInv => IndexFileCurrent
    BY DEF IndexFileInv, Current, IndexFileCurrent
  <1> QED
    BY <1>1, <1>2, <1>3, InvInvariant, PTL DEF Spec

-----------------------------------------------------------------------------
(* The success of a delete                                                 *)

\* A delete begins, and runs, only with built indexes: no build that joins the
\* queue can answer its requester in its place.
DeleteIndexed ==
  /\ iActiveStep = "EDeleteEntry" => iIndexesBuilt
  /\ \A s \in Sessions : preparing[s] /\ iAction[s] = "EDeleteEntry" => iIndexesBuilt

LEMMA RunLIndexed ==
  ASSUME DeleteIndexed, RunL
  PROVE  DeleteIndexed'
  <1>1. /\ UNCHANGED <<preparing, iAction>>
        /\ iActiveStep' \in {iActiveStep, "ENoAction"}
        /\ iIndexesBuilt' = iIndexesBuilt \/ iIndexesBuilt' = TRUE
    BY DEF RunL, RunLIdle, BuildIndexStep, DeleteEntryStep, CategoryStep, StepProgress,
       StepEnd, CompleteRequests, clientVars
  <1> QED
    BY <1>1 DEF DeleteIndexed

LEMMA BuildIndexed ==
  ASSUME DeleteIndexed, NEW s, NEW kind, NEW report, StartBuildIndex(s, kind, report),
         \A t \in Sessions : preparing'[t] = preparing[t],
         \A t \in Sessions : iAction'[t] = "EDeleteEntry" => iAction[t] = "EDeleteEntry"
  PROVE  DeleteIndexed'
  <1>1. /\ iActiveStep' \in {iActiveStep, "ENoAction", "EBuildIndex"}
        /\ iIndexesBuilt' = iIndexesBuilt \/ iIndexesBuilt' = TRUE
    BY DEF StartBuildIndex, taskVars
  <1> QED
    BY <1>1 DEF DeleteIndexed

LEMMA NextIndexed ==
  ASSUME Inv, DeleteIndexed, Next
  PROVE  DeleteIndexed'
  <1>0. /\ iAction \in [Sessions -> AsyncActions \cup {"ENoAction"}]
        /\ preparing \in [Sessions -> BOOLEAN]
    BY DEF Inv, TypeOK
  <1>1. CASE RunL
    BY <1>1, RunLIndexed
  <1>2. CASE CloseTimerRunL
    <2>1. \A s \in Sessions : iAction[s] = "ENoAction"
      BY <1>2, UsersFinite DEF CloseTimerRunL, Users, Inv, ClientOK, FileReferenced
    <2> QED
      BY <1>2, <2>1 DEF CloseTimerRunL, FileDeleted, clientVars, DeleteIndexed
  <1>3. CASE ServerTerminates
    BY <1>3 DEF ServerTerminates, FileDeleted, DeleteIndexed
  <1>4. ASSUME NEW s \in Sessions, ClientNext(s)
        PROVE  DeleteIndexed'
    <2>1. CASE StartBuildIndexL(s)
      <3>1. \A t \in Sessions : iAction'[t] = "EDeleteEntry" => iAction[t] = "EDeleteEntry"
        BY <1>0, <2>1 DEF StartBuildIndexL, BeginTask
      <3> QED
        BY <2>1, <3>1, BuildIndexed DEF StartBuildIndexL
    <2>2. CASE WaitUntilLoadedL(s)
      BY <2>2, BuildIndexed DEF WaitUntilLoadedL, clientVars
    <2>3. CASE ClientProgress(s)
      <3>1. CASE StartBuildIndex(s, "task", TRUE)
        BY <2>3, <3>1, BuildIndexed DEF ClientProgress, clientVars
      <3>2. CASE UNCHANGED <<iActiveStep, iIndexesBuilt>>
        BY <2>3, <3>2 DEF ClientProgress, clientVars, DeleteIndexed
      <3> QED
        BY <2>3, <3>1, <3>2 DEF ClientProgress
    <2>4. CASE StartDeleteEntryL(s)
      BY <1>0, <2>4 DEF StartDeleteEntryL, BeginTask, DeleteIndexed
    <2>5. CASE StartCategoryTaskL(s)
      <3>1. /\ \A t \in Sessions : iAction'[t] = "EDeleteEntry" =>
                 iAction[t] = "EDeleteEntry" /\ preparing'[t] = preparing[t]
            /\ UNCHANGED <<iActiveStep, iIndexesBuilt>>
        <4>1. PICK a \in CategoryTasks :
                /\ iAction' = [iAction EXCEPT ![s] = a]
                /\ preparing' = [preparing EXCEPT ![s] = TRUE]
                /\ UNCHANGED <<iActiveStep, iIndexesBuilt>>
          BY <2>5 DEF StartCategoryTaskL, BeginTask, taskVars
        <4> QED
          BY <1>0, <4>1 DEF CategoryTasks
      <3> QED
        BY <3>1 DEF DeleteIndexed
    <2>6. CASE TidyByDateStart(s)
      <3>1. iIndexesBuilt' = iIndexesBuilt /\ iIndexesBuilt
        BY <2>6 DEF TidyByDateStart, DeleteIndexed
      <3> QED
        BY <3>1 DEF DeleteIndexed
    <2>7. CASE CategoryTaskStart(s)
      BY <1>0, <2>7 DEF CategoryTaskStart, CategoryTasks, DeleteIndexed
    <2>8. CASE RefuseTask(s)
      BY <1>0, <2>8 DEF RefuseTask, taskVars, DeleteIndexed
    <2>9. CASE CancelAsynTask(s) \/ ClientCompleted(s)
      <3>1. /\ iActiveStep' \in {iActiveStep, "ENoAction"}
            /\ UNCHANGED <<iIndexesBuilt, preparing>>
            /\ iAction' = [iAction EXCEPT ![s] = "ENoAction"]
        BY <2>9 DEF CancelAsynTask, ClientCompleted, taskVars
      <3> QED
        BY <1>0, <3>1 DEF DeleteIndexed
    <2>10. CASE Disconnect(s)
      <3>1. /\ iActiveStep' \in {iActiveStep, "ENoAction"} /\ UNCHANGED iIndexesBuilt
            /\ iAction' = [iAction EXCEPT ![s] = "ENoAction"]
            /\ preparing' = [preparing EXCEPT ![s] = FALSE]
        BY <2>10 DEF Disconnect
      <3> QED
        BY <1>0, <3>1 DEF DeleteIndexed
    <2>11. CASE \/ Connect(s) \/ OpenAgenda(s) \/ CloseSessionFile(s) \/ AppendCallBack(s)
                \/ DeleteEntry(s) \/ CommitChanges(s) \/ RollbackChanges(s) \/ SetCalendarInfo(s)
      BY <2>11 DEF Connect, OpenAgenda, CloseSessionFile, AppendCallBack, DeleteEntry,
         CommitChanges, RollbackChanges, SetCalendarInfo, Change, taskVars, clientVars, DeleteIndexed
    <2> QED
      BY <1>4, <2>1, <2>2, <2>3, <2>4, <2>5, <2>6, <2>7, <2>8, <2>9, <2>10, <2>11
         DEF ClientNext, SecondCall, ClientRunL
  <1> QED
    BY <1>1, <1>2, <1>3, <1>4 DEF Next

\* Completing messages with another code answers nobody with success.
LEMMA OtherAnswers ==
  ASSUME NEW X, NEW code, code # "ok", NEW s \in Sessions, request[s] = "held"
  PROVE  Answered(X, code)[s] # "ok"
  BY DEF Answered

LEMMA DeleteSucceeds ==
  ASSUME Inv, DeleteEntryStep, NEW s \in Sessions, request[s] = "held", request'[s] = "ok"
  PROVE  /\ model'.committed \cap toDelete = {} /\ model'.store = model'.committed
         /\ model'.index \cap tidyRange = {}
  <1>1. /\ ModelOK(model) /\ toDelete \in SUBSET model.committed
        /\ model.index \cap tidyRange \subseteq toDelete
    BY InvModelOK DEF Inv, DeleteOK, DeleteEntryStep, Stepping
  <1>2. \/ StepProgress \/ StepEnd("error")
        \/ model' = CommitL(DeleteTidiedEntries(model, toDelete))
    BY DEF DeleteEntryStep
  <1>3. ~StepProgress /\ ~StepEnd("error")
    BY OtherAnswers DEF StepProgress, StepEnd, CompleteRequests, Answer
  <1> DEFINE d == DeleteTidiedEntries(model, toDelete)
  <1>4. model' = CommitL(d)
    BY <1>2, <1>3
  <1>5. ModelOK(d) /\ d.store = model.store \ toDelete /\ d.index = model.index \ toDelete
    BY <1>1, DeleteTidiedEntriesOK
  <1> HIDE DEF d
  <1>6. model'.committed = d.store /\ model'.store = d.store /\ model'.index = d.index
    BY <1>4, <1>5, CommitOK
  <1> QED
    BY <1>1, <1>5, <1>6

LEMMA ClientsSucceed ==
  ASSUME Inv, DeleteIndexed, iActiveStep = "EDeleteEntry", NEW t \in Sessions, ClientNext(t),
         NEW s \in Sessions, request[s] = "held"
  PROVE  request'[s] # "ok"
  <1>0. /\ IsLocked /\ iIndexesBuilt /\ request \in [Sessions -> Codes \cup {"none", "held"}]
    BY DEF IsLocked, DeleteIndexed, Inv, TypeOK
  <1>1. ASSUME NEW kind, NEW report, StartBuildIndex(t, kind, report),
               kind = "task" => request[t] # "held"
        PROVE  request'[s] # "ok"
    BY <1>0, <1>1 DEF StartBuildIndex, AnswerAtOnce
  <1>2. CASE StartBuildIndexL(t) \/ WaitUntilLoadedL(t)
    <2>1. iAction[t] = "ENoAction" => request[t] # "held"
      BY DEF Inv, ClientOK
    <2> QED
      BY <1>1, <1>2, <2>1 DEF StartBuildIndexL, WaitUntilLoadedL, BeginTask
  <1>3. CASE ClientProgress(t)
    <2>1. CASE StartBuildIndex(t, "task", TRUE)
      BY <1>1, <1>3, <2>1 DEF ClientProgress
    <2>2. CASE RequestProgress(t)
      BY <1>0, <2>2 DEF RequestProgress, AddAsyncRequester, Held
    <2> QED
      BY <1>3, <2>1, <2>2 DEF ClientProgress
  <1>4. CASE CancelAsynTask(t)
    <2>1. \/ request' = [request EXCEPT ![t] = "none"]
          \/ \E X : request' = [Answered(X, "cancel") EXCEPT ![t] = "none"]
      BY <1>4 DEF CancelAsynTask
    <2>2. \A X : Answered(X, "cancel") \in [Sessions -> Codes \cup {"none", "held"}]
      BY <1>0 DEF Answered, Codes
    <2>3. \A X : Answered(X, "cancel")[s] # "ok"
      BY OtherAnswers
    <2> QED
      BY <1>0, <2>1, <2>2, <2>3
  <1>5. CASE RefuseTask(t) \/ ClientCompleted(t) \/ Disconnect(t)
    BY <1>0, <1>5 DEF RefuseTask, ClientCompleted, Disconnect
  <1>6. CASE \/ Connect(t) \/ OpenAgenda(t) \/ CloseSessionFile(t) \/ AppendCallBack(t)
             \/ StartDeleteEntryL(t) \/ StartCategoryTaskL(t) \/ SetCalendarInfo(t)
    BY <1>6 DEF Connect, OpenAgenda, CloseSessionFile, AppendCallBack, StartDeleteEntryL,
       StartCategoryTaskL, SetCalendarInfo
  <1>7. ~ \/ TidyByDateStart(t) \/ CategoryTaskStart(t)
          \/ DeleteEntry(t) \/ CommitChanges(t) \/ RollbackChanges(t)
    BY <1>0 DEF TidyByDateStart, CategoryTaskStart, DeleteEntry, CommitChanges,
       RollbackChanges, Change
  <1> QED
    BY <1>2, <1>3, <1>4, <1>5, <1>6, <1>7 DEF ClientNext, SecondCall, ClientRunL

LEMMA NextSucceeds ==
  ASSUME Inv, DeleteIndexed, Next, iActiveStep = "EDeleteEntry",
         NEW s \in Sessions, request[s] = "held", request'[s] = "ok"
  PROVE  /\ model'.committed \cap toDelete = {} /\ model'.store = model'.committed
         /\ model'.index \cap tidyRange = {}
  <1>1. CASE DeleteEntryStep
    BY <1>1, DeleteSucceeds
  <1>2. ~(RunL /\ ~DeleteEntryStep)
    BY DEF RunL, RunLIdle, BuildIndexStep, CategoryStep, Stepping, CategoryTasks
  <1>3. ~(CloseTimerRunL \/ ServerTerminates)
    BY DEF CloseTimerRunL, ServerTerminates
  <1>4. \A t \in Sessions : ~ClientNext(t)
    BY ClientsSucceed
  <1> QED
    BY <1>1, <1>2, <1>3, <1>4 DEF Next

\* A request held while a delete runs that is answered ok is answered by the end of
\* the delete, which has committed: the entries left in its last step are gone from
\* the disk, nothing is uncommitted, and the indexes name none of the range.  No
\* other answer of the file (a build that ends, a cancel, a report) reaches the
\* request meanwhile (CAgnServFile::DoTaskCompleteL and CompleteRequests).  Entries
\* of the range that the indexes did not name are not covered.
THEOREM SuccessIsDeleted == Spec => SuccessMeansDeleted
  <1>1. Init => DeleteIndexed
    BY DEF Init, DeleteIndexed
  <1>2. Inv /\ DeleteIndexed /\ [Next]_vars => DeleteIndexed'
    <2>1. ASSUME DeleteIndexed, UNCHANGED vars
          PROVE  DeleteIndexed'
      BY <2>1 DEF vars, taskVars, clientVars, DeleteIndexed
    <2> QED
      BY <2>1, NextIndexed
  <1>3. Inv /\ DeleteIndexed /\ [Next]_vars =>
          [\A s \in Sessions :
             /\ iActiveStep = "EDeleteEntry" /\ request[s] = "held" /\ request'[s] = "ok"
             => /\ model'.committed \cap toDelete = {}
                /\ model'.store = model'.committed
                /\ model'.index \cap tidyRange = {}]_vars
    BY NextSucceeds
  <1> QED
    BY <1>1, <1>2, <1>3, InvInvariant, PTL DEF Spec, SuccessMeansDeleted

-----------------------------------------------------------------------------
(* The file keeps the promise of its queue                                 *)

\* The messages of sessions that are alive.
Pending == {x \in iMessageVector : x.session \in Sessions}

LEMMA QueueStutters ==
  ASSUME UNCHANGED <<iMessageVector, iActiveStep>>
  PROVE  [Queue!Next]_Queue!vars
  BY DEF Queue!vars, IsLocked

\* Everybody is answered and nothing runs.
LEMMA QueueFinishes ==
  ASSUME iMessageVector' = {}, iActiveStep' = "ENoAction"
  PROVE  [Queue!Next]_Queue!vars
  <1>1. Queue!Finish
    BY DEF Queue!Finish, IsLocked
  <1> QED
    BY <1>1 DEF Queue!Next

LEMMA QueueReports ==
  ASSUME IsLocked, UNCHANGED iActiveStep,
         iMessageVector' = {x \in iMessageVector : ~x.reportProgress}
  PROVE  [Queue!Next]_Queue!vars
  <1>1. Queue!Progress
    BY DEF Queue!Progress, IsLocked
  <1> QED
    BY <1>1 DEF Queue!Next

\* One more message, of a session that has none of this kind.
LEMMA QueueGrows ==
  ASSUME Inv, NEW s \in Sessions, NEW kind \in {"task", "wait"}, NEW report \in BOOLEAN,
         kind = "task" => request[s] # "held", kind = "wait" => ~waiting[s],
         AddAsyncRequester(s, kind, report), iActiveStep' # "ENoAction"
  PROVE  [Queue!Next]_Queue!vars
  <1> DEFINE y == Message(s, kind, report)
  <1>1. /\ iMessageVector' = iMessageVector \cup {y}
        /\ y \in Queue!Messages /\ y.session = s /\ y.kind = kind
    BY DEF AddAsyncRequester, Message, Queue!Messages
  <1>2. ~HasMessage(s, kind)
    BY DEF Inv, HeldIffQueued
  <1> HIDE DEF y
  <1>3. \A x \in Pending : x.session # y.session \/ x.kind # y.kind
    BY <1>1, <1>2 DEF Pending, HasMessage
  <1>4. Pending' = Pending \cup {y}
    BY <1>1 DEF Pending
  <1>5. Queue!Submit(y)
    BY <1>3, <1>4 DEF Queue!Submit, Pending, IsLocked
  <1> QED
    BY <1>1, <1>5 DEF Queue!Next

\* A session takes messages of its own out of the queue, and the task ends.
LEMMA QueueLoses ==
  ASSUME NEW s \in Sessions, NEW X, X # {}, X \subseteq MessagesOf(s),
         Pending' = Pending \ X, iActiveStep' = "ENoAction"
  PROVE  [Queue!Next]_Queue!vars
  <1>1. X \in SUBSET {x \in Pending : x.session = s}
    BY DEF MessagesOf, Pending
  <1>2. Queue!GiveUp(s)
    BY <1>1 DEF Queue!GiveUp, Pending, IsLocked
  <1> QED
    BY <1>2 DEF Queue!Next

LEMMA StepImplements ==
  ASSUME IsLocked, StepProgress \/ \E code \in {"ok", "error", "corrupt"} : StepEnd(code)
  PROVE  [Queue!Next]_Queue!vars
  <1>1. CASE StepProgress
    <2>1. /\ iMessageVector' = {x \in iMessageVector : ~x.reportProgress}
          /\ UNCHANGED iActiveStep
      BY <1>1 DEF StepProgress, CompleteRequests, Completed
    <2> QED
      BY <2>1, QueueReports
  <1>2. ASSUME NEW code \in {"ok", "error", "corrupt"}, StepEnd(code)
        PROVE  [Queue!Next]_Queue!vars
    <2>1. iMessageVector' = {} /\ iActiveStep' = "ENoAction"
      BY <1>2 DEF StepEnd, CompleteRequests, Completed
    <2> QED
      BY <2>1, QueueFinishes
  <1> QED
    BY <1>1, <1>2

LEMMA RunLImplements ==
  ASSUME RunL
  PROVE  [Queue!Next]_Queue!vars
  <1>1. CASE RunLIdle
    BY <1>1, QueueStutters DEF RunLIdle
  <1>2. CASE BuildIndexStep
    BY <1>2, StepImplements DEF BuildIndexStep, Stepping, IsLocked
  <1>3. CASE DeleteEntryStep
    BY <1>3, StepImplements DEF DeleteEntryStep, Stepping, IsLocked
  <1>4. CASE CategoryStep
    BY <1>4, StepImplements DEF CategoryStep, CategoryTasks, IsLocked
  <1> QED
    BY <1>1, <1>2, <1>3, <1>4 DEF RunL

LEMMA BuildImplements ==
  ASSUME Inv, NEW s \in Sessions, NEW kind \in {"task", "wait"}, NEW report \in BOOLEAN,
         kind = "task" => request[s] # "held", kind = "wait" => ~waiting[s],
         StartBuildIndex(s, kind, report)
  PROVE  [Queue!Next]_Queue!vars
  <1>1. \/ UNCHANGED taskVars
        \/ /\ AddAsyncRequester(s, kind, report)
           /\ iActiveStep' = "EBuildIndex"
        \/ iMessageVector' = {} /\ iActiveStep' = "ENoAction"
    BY DEF StartBuildIndex
  <1> QED
    BY <1>1, QueueStutters, QueueGrows, QueueFinishes DEF taskVars

\* The messages a session that ends leaves belong to nobody.
LEMMA DisconnectImplements ==
  ASSUME Inv, NEW s \in Sessions, Disconnect(s)
  PROVE  [Queue!Next]_Queue!vars
  <1> DEFINE rest == iMessageVector \ LatestOf(s)
  <1>1. /\ iMessageVector' = {[x EXCEPT !.session = IF @ = s THEN Gone ELSE @] : x \in rest}
        /\ iActiveStep' = IF IsInterestedSession(s) THEN "ENoAction" ELSE iActiveStep
    BY DEF Disconnect
  <1>2. LatestOf(s) \subseteq MessagesOf(s) /\ iMessageVector \subseteq Messages
    BY DEF LatestOf, MessagesOf, Inv, TypeOK
  <1>3. ASSUME NEW x \in rest
        PROVE  LET y == [x EXCEPT !.session = IF @ = s THEN Gone ELSE @] IN
               /\ x.session # s => y = x
               /\ x.session = s => y.session = Gone
    BY <1>2 DEF Messages
  <1>4. Pending' = Pending \ MessagesOf(s)
    <2>1. Pending' = {y \in {[x EXCEPT !.session = IF @ = s THEN Gone ELSE @] : x \in rest} :
                       y.session \in Sessions}
      BY <1>1 DEF Pending
    <2>2. \A x \in iMessageVector : x \in rest \/ x.session = s
      BY <1>2 DEF MessagesOf
    <2>3. \A y : y \in Pending' <=> y \in rest /\ y.session \in Sessions /\ y.session # s
      BY <1>3, <2>1, SessionsAssumption
    <2> QED
      BY <2>2, <2>3 DEF Pending, MessagesOf
  <1>5. CASE IsInterestedSession(s)
    BY <1>1, <1>4, <1>5, QueueLoses DEF IsInterestedSession
  <1>6. CASE ~IsInterestedSession(s)
    <2>1. Pending' = Pending /\ iActiveStep' = iActiveStep
      BY <1>1, <1>4, <1>6 DEF IsInterestedSession
    <2> QED
      BY <2>1 DEF Queue!vars, Pending, IsLocked
  <1> QED
    BY <1>5, <1>6

LEMMA CancelImplements ==
  ASSUME NEW s \in Sessions, CancelAsynTask(s)
  PROVE  [Queue!Next]_Queue!vars
  <1>1. CASE IsInterestedSession(s)
    <2> DEFINE X == LatestOf(s)
    <2>1. iMessageVector' = iMessageVector \ X /\ iActiveStep' = "ENoAction"
      BY <1>1 DEF CancelAsynTask, Completed
    <2>2. X \subseteq MessagesOf(s) /\ X # {}
      BY <1>1 DEF LatestOf, IsInterestedSession
    <2> HIDE DEF X
    <2>3. Pending' = Pending \ X
      BY <2>1 DEF Pending
    <2> QED
      BY <2>1, <2>2, <2>3, QueueLoses
  <1>2. CASE ~IsInterestedSession(s)
    BY <1>2, QueueStutters DEF CancelAsynTask
  <1> QED
    BY <1>1, <1>2

LEMMA NextImplements ==
  ASSUME Inv, Next
  PROVE  [Queue!Next]_Queue!vars
  <1>1. CASE CloseTimerRunL \/ ServerTerminates
    BY <1>1, QueueFinishes DEF CloseTimerRunL, ServerTerminates, FileDeleted
  <1>2. ASSUME NEW s \in Sessions, ClientNext(s)
        PROVE  [Queue!Next]_Queue!vars
    <2>0. /\ iAction[s] = "ENoAction" \/ preparing[s] => request[s] # "held"
      BY DEF Inv, ClientOK
    <2>1. CASE StartBuildIndexL(s) \/ WaitUntilLoadedL(s)
      BY <2>0, <2>1, BuildImplements DEF StartBuildIndexL, WaitUntilLoadedL, BeginTask, ClientRuns
    <2>2. CASE ClientProgress(s)
      <3>1. CASE StartBuildIndex(s, "task", TRUE)
        BY <2>2, <3>1, BuildImplements DEF ClientProgress
      <3>2. CASE RequestProgress(s) /\ UNCHANGED iActiveStep
        <4>1. CASE ~IsLocked
          BY <3>2, <4>1, QueueStutters DEF RequestProgress
        <4>2. CASE IsLocked
          BY <2>2, <3>2, <4>2, QueueGrows DEF RequestProgress, ClientProgress, IsLocked
        <4> QED
          BY <4>1, <4>2
      <3> QED
        BY <2>2, <3>1, <3>2 DEF ClientProgress
    <2>3. CASE TidyByDateStart(s)
      <3>1. \/ UNCHANGED <<iMessageVector, iActiveStep>>
            \/ /\ \E report \in BOOLEAN : AddAsyncRequester(s, "task", report)
               /\ iActiveStep' = "EDeleteEntry"
        BY <2>3 DEF TidyByDateStart
      <3>2. request[s] # "held"
        BY <2>0, <2>3 DEF TidyByDateStart
      <3> QED
        BY <3>1, <3>2, QueueStutters, QueueGrows
    <2>4. CASE CategoryTaskStart(s)
      <3>1. /\ \E report \in BOOLEAN : AddAsyncRequester(s, "task", report)
            /\ iActiveStep' \in CategoryTasks /\ request[s] # "held"
        BY <2>0, <2>4 DEF CategoryTaskStart
      <3>2. iActiveStep' # "ENoAction"
        BY <3>1 DEF CategoryTasks
      <3> QED
        BY <3>1, <3>2, QueueGrows
    <2>5. CASE \/ Connect(s) \/ OpenAgenda(s) \/ CloseSessionFile(s) \/ AppendCallBack(s)
               \/ StartDeleteEntryL(s) \/ StartCategoryTaskL(s) \/ RefuseTask(s)
               \/ ClientCompleted(s) \/ DeleteEntry(s) \/ CommitChanges(s) \/ RollbackChanges(s) \/ SetCalendarInfo(s)
      <3>1. UNCHANGED <<iMessageVector, iActiveStep>>
        BY <2>5 DEF Connect, OpenAgenda, CloseSessionFile, AppendCallBack, StartDeleteEntryL,
           StartCategoryTaskL, RefuseTask, ClientCompleted, DeleteEntry, CommitChanges,
           RollbackChanges, SetCalendarInfo, Change, taskVars
      <3> QED
        BY <3>1, QueueStutters
    <2> QED
      BY <1>2, <2>1, <2>2, <2>3, <2>4, <2>5, DisconnectImplements, CancelImplements
         DEF ClientNext, SecondCall, ClientRunL
  <1> QED
    BY <1>1, <1>2, RunLImplements DEF Next

\* A calendar file keeps what AgnTaskQueue promises the sessions that are alive:
\* a request joins the queue or begins a task, a report answers those that asked
\* for reports, the end of the task answers all, and only the end of a session
\* or its own cancel takes a message out otherwise (CAgnServFile:
\* AddAsyncRequesterL and CompleteRequests, CAgnServerSession::~CAgnServerSession).
THEOREM QueueImplemented == Spec => ImplementsQueue
  <1>1. Init => Queue!Init
    BY DEF Init, Queue!Init, IsLocked
  <1>2. Inv /\ [Next]_vars => [Queue!Next]_Queue!vars
    BY NextImplements, QueueStutters DEF vars, taskVars
  <1> QED
    BY <1>1, <1>2, InvInvariant, PTL DEF Spec, ImplementsQueue, Queue!Spec
=============================================================================
