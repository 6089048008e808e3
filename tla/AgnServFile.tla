---------------------------- MODULE AgnServFile ----------------------------
(***************************************************************************)
(* One calendar file of the agenda server (CAgnServFile) with the sessions *)
(* that use it: opening and the delayed close, the asynchronous tasks the  *)
(* file's active object runs in steps, the messages the tasks hold, and on *)
(* the client side the CCalAsyncTaskManager of every session.              *)
(*                                                                         *)
(* A session is one server session together with the CCalSession object    *)
(* that has (or may have) the file open in it: the server refuses a second *)
(* one.  A synchronous call is one step.                                   *)
(***************************************************************************)
EXTENDS AgnEntryModel

CONSTANTS Sessions,          \* the sessions
          NoSession,         \* a null iSession
          Gone,              \* a pointer to a session that was deleted
          Ranges,            \* the time ranges (with filter) a delete may name
          Tasks,             \* the tasks the clients start
          Writers,           \* the sessions that also change entries synchronously
          InfoWriters,       \* the sessions that write calendar information
          Quitters,          \* the sessions that cancel, close or end
          Faults,            \* what may fail: "step", "commit", "load"
          MaxCallBacks,      \* bound: callbacks queued in a task manager
          MaxCategorySteps   \* bound: steps of a category task

ASSUME SessionsAssumption ==
  /\ IsFiniteSet(Sessions)
  /\ NoSession \notin Sessions /\ Gone \notin Sessions /\ NoSession # Gone
ASSUME RangesAssumption == Ranges \subseteq SUBSET Entries
ASSUME BoundsAssumption == /\ MaxCallBacks \in Nat \ {0}
                           /\ MaxCategorySteps \in Nat \ {0}

CategoryTasks == {"EFilterCategory", "EDeleteCategory"}
AsyncActions  == {"EBuildIndex", "EDeleteEntry"} \cup CategoryTasks

VARIABLES
  (* the file *)
  open,             \* the CAgnServFile exists
  model,            \* iModel; its committed part is the file on the disk
  iRefCount, closeTimer,                \* references; delay timer IsActive()
  isActive, iActiveStep, iIndexesBuilt, \* the active object
  iMessageVector, iSession,             \* held messages; last requester
  hasAsyncDelete, toDelete,             \* iAsyncDelete, entries it has left
  tidyRange,                            \* iTidyByDate filter and dates
  bufferedDeleting,                     \* of the entry manager
  categoryLeft,                         \* steps a prepared category task has left
  (* the sessions in the server *)
  session,          \* "gone", "connected" or "open" (it has the file open)
  bulkChange,       \* iBulkChangeInProgress of its CAgnSessionFile
  (* the clients *)
  iAction, iCallBacks, request, waiting, preparing

fileVars   == <<open, iRefCount, closeTimer>>
taskVars   == <<isActive, iActiveStep, iIndexesBuilt, iMessageVector, iSession>>
deleteVars == <<hasAsyncDelete, toDelete, tidyRange, bufferedDeleting, bulkChange>>
clientVars == <<iAction, iCallBacks, preparing>>
vars == <<fileVars, taskVars, deleteVars, clientVars, model, categoryLeft,
          session, request, waiting>>

Messages == [session : Sessions \cup {Gone}, kind : {"task", "wait"},
             reportProgress : BOOLEAN]
Codes == {"progress", "ok", "cancel", "error", "corrupt", "locked"}

TypeOK ==
  /\ open \in BOOLEAN /\ model \in ModelType
  /\ iRefCount \in Nat /\ closeTimer \in BOOLEAN
  /\ isActive \in BOOLEAN /\ iActiveStep \in AsyncActions \cup {"ENoAction"}
  /\ iIndexesBuilt \in BOOLEAN /\ iMessageVector \in SUBSET Messages
  /\ iSession \in Sessions \cup {NoSession, Gone}
  /\ hasAsyncDelete \in BOOLEAN /\ toDelete \in SUBSET Entries
  /\ tidyRange \in SUBSET Entries /\ bufferedDeleting \in BOOLEAN
  /\ categoryLeft \in 0..MaxCategorySteps
  /\ session \in [Sessions -> {"gone", "connected", "open"}]
  /\ bulkChange \in [Sessions -> BOOLEAN]
  /\ iAction \in [Sessions -> AsyncActions \cup {"ENoAction"}]
  /\ iCallBacks \in [Sessions -> 0..MaxCallBacks]
  /\ request \in [Sessions -> Codes \cup {"none", "held"}]
  /\ waiting \in [Sessions -> BOOLEAN]
  /\ preparing \in [Sessions -> BOOLEAN]

Init ==
  /\ open = FALSE
  /\ \E E \in SUBSET Entries : model = NewModel(E, {}, {})
  /\ iRefCount = 0 /\ closeTimer = FALSE
  /\ isActive = FALSE /\ iActiveStep = "ENoAction" /\ iIndexesBuilt = FALSE
  /\ iMessageVector = {} /\ iSession = NoSession
  /\ hasAsyncDelete = FALSE /\ toDelete = {} /\ tidyRange = {}
  /\ bufferedDeleting = FALSE /\ categoryLeft = 0
  /\ session = [s \in Sessions |-> "gone"]
  /\ bulkChange = [s \in Sessions |-> FALSE]
  /\ iAction = [s \in Sessions |-> "ENoAction"]
  /\ iCallBacks = [s \in Sessions |-> 0]
  /\ request = [s \in Sessions |-> "none"]
  /\ waiting = [s \in Sessions |-> FALSE]
  /\ preparing = [s \in Sessions |-> FALSE]

-----------------------------------------------------------------------------
(* Messages *)

MessagesOf(s) == {x \in iMessageVector : x.session = s}

IsInterestedSession(s) == MessagesOf(s) # {}

\* Faulty variant of LatestOf: the cancelled message stays in the queue.
NoneOf(s) == {}

\* The client thread sends its blocking wait last.
LatestOf(s) == IF \E x \in MessagesOf(s) : x.kind = "wait"
               THEN {x \in MessagesOf(s) : x.kind = "wait"} ELSE MessagesOf(s)

\* Faulty variants of Completed: a cancel completes the requests of all; a
\* progress report completes all; the end completes only those that report.
CancelCompletesAll(M, aIsCompleted, code, s) ==
  {x \in M : aIsCompleted \/ x.reportProgress}
ProgressCompletesAll(M, aIsCompleted, code, s) ==
  IF code = "cancel" THEN LatestOf(s) ELSE M
EndCompletesReporters(M, aIsCompleted, code, s) ==
  IF code = "cancel" THEN LatestOf(s) ELSE {x \in M : x.reportProgress}

\* The messages CompleteRequests completes.
Completed(M, aIsCompleted, code, s) ==
  IF code = "cancel" THEN LatestOf(s)
  ELSE {x \in M : aIsCompleted \/ x.reportProgress}

\* The clients see the messages X complete with code.
Answered(X, code) ==
  [s \in Sessions |->
     IF \E x \in X : x.session = s /\ x.kind = "task" THEN code ELSE request[s]]
StillWaiting(X) ==
  [s \in Sessions |-> waiting[s] /\ ~ \E x \in X : x.session = s /\ x.kind = "wait"]

Answer(X, code) == request' = Answered(X, code) /\ waiting' = StillWaiting(X)

CompleteRequests(aIsCompleted, code, s) ==
  LET X == Completed(iMessageVector, aIsCompleted, code, s)
  IN /\ iMessageVector' = iMessageVector \ X
     /\ Answer(X, code)
     /\ iActiveStep' = IF aIsCompleted THEN "ENoAction" ELSE iActiveStep

IsLocked == iActiveStep # "ENoAction"

Message(s, kind, report) == [session |-> s, kind |-> kind, reportProgress |-> report]

\* The message is answered at once, or the client's request is now held.
AnswerAtOnce(s, kind, code) ==
  /\ request' = IF kind = "task" THEN [request EXCEPT ![s] = code] ELSE request
  /\ UNCHANGED waiting

Held(s, kind) ==
  IF kind = "task" THEN [request EXCEPT ![s] = "held"] ELSE request

AddAsyncRequester(s, kind, report) ==
  /\ iMessageVector' = iMessageVector \cup {Message(s, kind, report)}
  /\ iSession' = s
  /\ request' = Held(s, kind)
  /\ waiting' = [waiting EXCEPT ![s] = @ \/ kind = "wait"]

-----------------------------------------------------------------------------
(* Requests to the file *)

\* CAgnServFile::StartBuildIndex with DoStartBuildIndex.
StartBuildIndex(s, kind, report) ==
  \/ /\ iIndexesBuilt
     /\ AnswerAtOnce(s, kind, "ok")
     /\ UNCHANGED <<taskVars, model>>
  \/ /\ ~iIndexesBuilt
     /\ iActiveStep = "EBuildIndex"
     /\ AddAsyncRequester(s, kind, report)
     /\ UNCHANGED <<isActive, iActiveStep, iIndexesBuilt, model>>
  \/ /\ ~iIndexesBuilt
     /\ iActiveStep # "EBuildIndex"
     /\ ~StreamsAreEmpty(model)
     /\ AddAsyncRequester(s, kind, report)
     /\ model' = ResetIndexes(model)
     /\ iActiveStep' = "EBuildIndex"
     /\ isActive' = TRUE
     /\ UNCHANGED iIndexesBuilt
  \/ /\ ~iIndexesBuilt
     /\ iActiveStep # "EBuildIndex"
     /\ StreamsAreEmpty(model)
     /\ model' = ResetIndexes(model)
     /\ iIndexesBuilt' = TRUE
     /\ iActiveStep' = "ENoAction"
     /\ iSession' = s
     /\ iMessageVector' = {}
     /\ Answer(iMessageVector \cup {Message(s, kind, report)}, "ok")
     /\ UNCHANGED isActive

RequestProgress(s) ==
  \/ /\ ~IsLocked
     /\ AnswerAtOnce(s, "task", "ok")
     /\ UNCHANGED <<iMessageVector, iSession>>
  \/ /\ IsLocked
     /\ AddAsyncRequester(s, "task", TRUE)

\* BulkChangeCompletedL through the iSession pointer.
BulkChangeCompleted ==
  bulkChange' = IF iSession \in Sessions THEN [bulkChange EXCEPT ![iSession] = FALSE]
                ELSE bulkChange

\* DoTaskCompleteL of a delete, once its work is committed or undone.
EndDelete ==
  /\ bufferedDeleting' = FALSE /\ hasAsyncDelete' = FALSE
  /\ toDelete' = {} /\ iSession' = NoSession
  /\ BulkChangeCompleted
  /\ UNCHANGED tidyRange

\* The part of DoTaskCompleteL(aErr) that depends on the step, for aErr # ok.
TaskFailed ==
  IF iActiveStep = "EDeleteEntry"
  THEN model' = Rollback(model) /\ EndDelete
  ELSE UNCHANGED <<model, iSession, deleteVars>>

-----------------------------------------------------------------------------
(* RunL of the file: one step of the task *)

\* DoStepL reported less than 100 per cent: the active object goes on.
StepProgress ==
  /\ CompleteRequests(FALSE, "progress", iSession)
  /\ UNCHANGED <<isActive, iSession>>

\* The task is over, for everybody who waits for it.
StepEnd(code) ==
  /\ CompleteRequests(TRUE, code, iSession)
  /\ isActive' = FALSE

Stepping(a) == isActive /\ iActiveStep = a

RunLIdle ==
  /\ Stepping("ENoAction")
  /\ isActive' = FALSE
  /\ UNCHANGED <<fileVars, iActiveStep, iIndexesBuilt, iMessageVector, iSession,
                 deleteVars, clientVars, model, categoryLeft, session, request, waiting>>

\* The model the step works on: reading the index file may fail.
StepModels == {model} \cup IF "load" \in Faults THEN {WithoutIndexFile(model)} ELSE {}

BuildIndexStep ==
  /\ Stepping("EBuildIndex")
  /\ UNCHANGED <<fileVars, deleteVars, clientVars, categoryLeft, session, iSession>>
  /\ \E m \in StepModels :
       \/ /\ CountOverrun(m) /\ ~MeetsLost(m)
          /\ model' = DoIndexBuildStep(m)
          /\ StepEnd("corrupt")
          /\ UNCHANGED iIndexesBuilt
       \/ /\ ~CountOverrun(m) /\ ~IndexBuildDone(m) /\ ~MeetsLost(m)
          /\ model' = DoIndexBuildStep(m)
          /\ StepProgress
          /\ UNCHANGED iIndexesBuilt
       \/ /\ ~CountOverrun(m) /\ IndexBuildDone(m) /\ ~MeetsLost(m)
          /\ model' = CommitL(DoIndexBuildStep(m))
          /\ iIndexesBuilt' = TRUE
          /\ StepEnd("ok")
       \/ \* BuildIndexCompleteL or CommitL leaves
          /\ "commit" \in Faults
          /\ ~CountOverrun(m) /\ IndexBuildDone(m) /\ ~MeetsLost(m)
          /\ model' = DoIndexBuildStep(m)
          /\ iIndexesBuilt' = TRUE
          /\ StepEnd("error")
       \/ \* a stream cannot be read, or is not there
          /\ ~CanLoadIndexFile(m)
          /\ \/ "step" \in Faults /\ ~CountOverrun(m)
             \/ MeetsLost(m)
          /\ \E n \in 0..1 : /\ n < StepSize(m) /\ m.pos + n < StreamCount(m)
                             /\ m.lost \cap StreamsFrom(m, n) = {}
                             /\ "step" \in Faults \/ FailsAfter(m, n)
                             /\ model' = FailedIndexBuildStep(m, n)
          /\ StepEnd("error")
          /\ UNCHANGED iIndexesBuilt

\* A delete fetches an entry before it deletes it, and leaves at a lost one.
DeleteEntryStep ==
  /\ Stepping("EDeleteEntry")
  /\ UNCHANGED <<fileVars, clientVars, categoryLeft, session, iIndexesBuilt>>
  /\ \E B \in SUBSET (toDelete \ model.lost) :
       \/ /\ B # {} /\ B # toDelete
          /\ model' = DeleteTidiedEntries(model, B)
          /\ toDelete' = toDelete \ B
          /\ StepProgress
          /\ UNCHANGED <<hasAsyncDelete, tidyRange, bufferedDeleting, bulkChange>>
       \/ /\ B = toDelete
          /\ model' = CommitL(DeleteTidiedEntries(model, B))
          /\ EndDelete
          /\ StepEnd("ok")
       \/ \* CommitL leaves: the second DoTaskCompleteL finds no step to undo
          /\ "commit" \in Faults
          /\ B = toDelete
          /\ model' = DeleteTidiedEntries(model, B)
          /\ toDelete' = {}
          /\ StepEnd("error")
          /\ UNCHANGED <<hasAsyncDelete, tidyRange, bufferedDeleting, bulkChange, iSession>>
       \/ \* the step leaves in the middle of a batch
          /\ "step" \in Faults \/ toDelete \cap model.lost # {}
          /\ model' = Rollback(DeleteEntries(model, B))
          /\ EndDelete
          /\ StepEnd("error")

CategoryStep ==
  /\ isActive /\ iActiveStep \in CategoryTasks
  /\ UNCHANGED <<fileVars, deleteVars, clientVars, session, iIndexesBuilt, iSession>>
  /\ \/ /\ categoryLeft > 1
        /\ categoryLeft' = categoryLeft - 1
        /\ StepProgress
        /\ UNCHANGED model
     \/ /\ categoryLeft <= 1
        /\ categoryLeft' = 0
        /\ model' = IF iActiveStep = "EDeleteCategory" THEN CommitL(model) ELSE model
        /\ StepEnd("ok")
     \/ /\ "commit" \in Faults
        /\ categoryLeft <= 1 /\ iActiveStep = "EDeleteCategory"
        /\ categoryLeft' = 0
        /\ model' = Rollback(model)
        /\ StepEnd("error")
     \/ \* an entry cannot be fetched
        /\ "step" \in Faults \/ model.index \cap model.lost # {}
        /\ StepEnd("error")
        /\ UNCHANGED <<model, categoryLeft>>

RunL == RunLIdle \/ BuildIndexStep \/ DeleteEntryStep \/ CategoryStep

-----------------------------------------------------------------------------
(* Opening and closing *)

Connect(s) ==
  /\ session[s] = "gone"
  /\ session' = [session EXCEPT ![s] = "connected"]
  /\ UNCHANGED <<fileVars, taskVars, deleteVars, clientVars, model, categoryLeft,
                 request, waiting>>

\* CAgnServFileMgr::OpenAgendaL: the file is created or taken over, and
\* AddReference stops its delay.
OpenFile ==
  /\ open' = TRUE
  /\ iRefCount' = iRefCount + 1
  /\ closeTimer' = FALSE

OpenAgenda(s) ==
  /\ session[s] = "connected"
  /\ session' = [session EXCEPT ![s] = "open"]
  /\ OpenFile
  /\ UNCHANGED <<taskVars, deleteVars, clientVars, model, categoryLeft, request, waiting>>

\* Faulty variants of CloseAgenda: every close starts the delay; none does.
CloseAgendaAlwaysDelays ==
  /\ iRefCount' = iRefCount - 1 /\ closeTimer' = TRUE
  /\ isActive' = FALSE /\ UNCHANGED open
CloseAgendaWithoutTimer ==
  /\ iRefCount' = iRefCount - 1
  /\ isActive' = (isActive /\ iRefCount > 1) /\ UNCHANGED <<open, closeTimer>>

\* CAgnServFile::CloseAgenda(EFalse): the last user stops the active object
\* and starts the delay.
CloseAgenda ==
  /\ iRefCount' = iRefCount - 1
  /\ closeTimer' = (closeTimer \/ iRefCount = 1)
  /\ isActive' = (isActive /\ iRefCount > 1)
  /\ UNCHANGED open

\* ECloseAgenda, sent by ~CCalSessionImpl after it deleted the task manager.
CloseSessionFile(s) ==
  /\ s \in Quitters
  /\ session[s] = "open" /\ iAction[s] = "ENoAction" /\ ~waiting[s]
  /\ CloseAgenda
  /\ session' = [session EXCEPT ![s] = "connected"]
  /\ bulkChange' = [bulkChange EXCEPT ![s] = FALSE]
  /\ UNCHANGED <<iActiveStep, iIndexesBuilt, iMessageVector, iSession, hasAsyncDelete,
                 toDelete, tidyRange, bufferedDeleting, clientVars, model, categoryLeft,
                 request, waiting>>

\* CloseAgendaImmediately brings the index file up to date and deletes the
\* model with what it did not commit.
ModelClosed == NewModel(model.committed, model.lost,
                        IF iIndexesBuilt THEN {model.index} ELSE model.indexFile)

\* The file object is deleted: its next one begins anew.
FileDeleted ==
  /\ open' = FALSE /\ closeTimer' = FALSE
  /\ isActive' = FALSE /\ iActiveStep' = "ENoAction" /\ iIndexesBuilt' = FALSE
  /\ iMessageVector' = {} /\ iSession' = NoSession
  /\ hasAsyncDelete' = FALSE /\ toDelete' = {} /\ tidyRange' = {}
  /\ bufferedDeleting' = FALSE /\ categoryLeft' = 0

\* The delay is over.
CloseTimerRunL ==
  /\ closeTimer
  /\ model' = ModelClosed
  /\ FileDeleted
  /\ UNCHANGED <<iRefCount, bulkChange, clientVars, session, request, waiting>>

\* The server's process ends: the disk keeps what was written, the clients'
\* requests complete with KErrServerTerminated and their sessions are lost.
ServerTerminates ==
  /\ open
  /\ model' = NewModel(model.committed, model.lost, model.indexFile)
  /\ FileDeleted
  /\ iRefCount' = 0
  /\ bulkChange' = [s \in Sessions |-> FALSE]
  /\ session' = [s \in Sessions |-> "gone"]
  /\ iAction' = [s \in Sessions |-> "ENoAction"]
  /\ iCallBacks' = [s \in Sessions |-> 0]
  /\ request' = [s \in Sessions |-> "none"]
  /\ waiting' = [s \in Sessions |-> FALSE]
  /\ preparing' = [s \in Sessions |-> FALSE]

AlwaysUsesFile(s) == TRUE   \* faulty variant: it closes a file it never opened

UsesFile(s) == session[s] = "open"

\* ~CAgnServerSession: cancel its task, close its file, forget the session.
\* The client has ended or closed its handle; its requests end with it.
Disconnect(s) ==
  LET undo == IsInterestedSession(s) /\ iActiveStep = "EDeleteEntry"
      rest == iMessageVector \ LatestOf(s)
  IN /\ s \in Quitters
     /\ session[s] # "gone"
     /\ session' = [session EXCEPT ![s] = "gone"]
     /\ IF UsesFile(s) THEN CloseAgenda ELSE UNCHANGED <<fileVars, isActive>>
     /\ model' = IF undo THEN Rollback(model) ELSE model
     /\ iActiveStep' = IF IsInterestedSession(s) THEN "ENoAction" ELSE iActiveStep
     /\ iMessageVector' =
          {[x EXCEPT !.session = IF @ = s THEN Gone ELSE @] : x \in rest}
     /\ bufferedDeleting' = (bufferedDeleting /\ ~undo)
     /\ hasAsyncDelete' = (hasAsyncDelete /\ ~undo)
     /\ toDelete' = IF undo THEN {} ELSE toDelete
     /\ bulkChange' = [t \in Sessions |->
                         bulkChange[t] /\ t # s /\ ~(undo /\ t = iSession)]
     /\ iSession' = IF undo THEN NoSession ELSE IF iSession = s THEN Gone ELSE iSession
     /\ iAction' = [iAction EXCEPT ![s] = "ENoAction"]
     /\ iCallBacks' = [iCallBacks EXCEPT ![s] = 0]
     /\ preparing' = [preparing EXCEPT ![s] = FALSE]
     /\ request' = [request EXCEPT ![s] = "none"]
     /\ waiting' = [waiting EXCEPT ![s] = FALSE]
     /\ UNCHANGED <<iIndexesBuilt, tidyRange, categoryLeft>>

-----------------------------------------------------------------------------
(* The task manager of a client *)

\* The client's thread can run: it has the file open and is in no call.
ClientRuns(s) == session[s] = "open" /\ ~waiting[s] /\ ~preparing[s]

BeginTask(s, action) ==
  /\ ClientRuns(s) /\ iAction[s] = "ENoAction" /\ action \in Tasks
  /\ iAction' = [iAction EXCEPT ![s] = action]
  /\ iCallBacks' = [iCallBacks EXCEPT ![s] = 1]

StartBuildIndexL(s) ==
  /\ BeginTask(s, "EBuildIndex")
  /\ \E report \in BOOLEAN : StartBuildIndex(s, "task", report)
  /\ UNCHANGED <<fileVars, deleteVars, preparing, categoryLeft, session>>

\* A second observer of the same build.
AppendCallBack(s) ==
  /\ ClientRuns(s) /\ iAction[s] = "EBuildIndex" /\ iCallBacks[s] < MaxCallBacks
  /\ iCallBacks' = [iCallBacks EXCEPT ![s] = @ + 1]
  /\ UNCHANGED <<fileVars, taskVars, deleteVars, iAction, preparing, model,
                 categoryLeft, session, request, waiting>>

\* A view made without callback blocks its thread until the index is built.
WaitUntilLoadedL(s) ==
  /\ ClientRuns(s) /\ iAction[s] \in {"ENoAction", "EBuildIndex"}
  /\ "EBuildIndex" \in Tasks
  /\ StartBuildIndex(s, "wait", FALSE)
  /\ UNCHANGED <<fileVars, deleteVars, clientVars, categoryLeft, session>>

\* ETidyByDateReadParams: nothing is read while the file is locked.
StartDeleteEntryL(s) ==
  /\ BeginTask(s, "EDeleteEntry")
  /\ iIndexesBuilt
  /\ preparing' = [preparing EXCEPT ![s] = TRUE]
  /\ \E R \in Ranges : tidyRange' = IF IsLocked THEN tidyRange ELSE R
  /\ iSession' = IF IsLocked THEN iSession ELSE s
  /\ UNCHANGED <<fileVars, isActive, iActiveStep, iIndexesBuilt, iMessageVector,
                 hasAsyncDelete, toDelete, bufferedDeleting, bulkChange, model,
                 categoryLeft, session, request, waiting>>

\* The second call of a client in preparation is refused with KErrLocked.
RefuseTask(s) ==
  /\ preparing[s] /\ IsLocked
  /\ preparing' = [preparing EXCEPT ![s] = FALSE]
  /\ request' = [request EXCEPT ![s] = "locked"]
  /\ UNCHANGED <<fileVars, taskVars, deleteVars, iAction, iCallBacks, model,
                 categoryLeft, session, waiting>>

BeforeDeleteUncommitted == model   \* faulty variant: no commit

\* What TidyByDateStartL commits before it begins.
BeforeDelete == CommitL(model)

\* CCalAsyncDelete::SetUpDeleteL finds the entries of the range in the indexes;
\* one that TidyEntryL keeps for a child outside the dates is in no range.
EntriesInRange == model.index \cap tidyRange

\* ETidyByDateStart.
TidyByDateStart(s) ==
  /\ preparing[s] /\ iAction[s] = "EDeleteEntry" /\ ~IsLocked
  /\ preparing' = [preparing EXCEPT ![s] = FALSE]
  /\ UNCHANGED <<fileVars, iAction, iCallBacks, categoryLeft, session,
                 iIndexesBuilt, tidyRange>>
  /\ \/ \* CommitL leaves
        /\ "commit" \in Faults
        /\ hasAsyncDelete' = TRUE
        /\ bufferedDeleting' = (bufferedDeleting /\ ~hasAsyncDelete)
        /\ AnswerAtOnce(s, "task", "error")
        /\ UNCHANGED <<model, toDelete, bulkChange, iSession, iMessageVector,
                       iActiveStep, isActive>>
     \/ \* nothing to delete
        /\ EntriesInRange = {}
        /\ model' = BeforeDelete
        /\ hasAsyncDelete' = FALSE
        /\ bufferedDeleting' = (bufferedDeleting /\ ~hasAsyncDelete)
        /\ bulkChange' = [bulkChange EXCEPT ![s] = TRUE]
        /\ iSession' = NoSession
        /\ AnswerAtOnce(s, "task", "ok")
        /\ UNCHANGED <<toDelete, iMessageVector, iActiveStep, isActive>>
     \/ /\ EntriesInRange # {}
        /\ model' = BeforeDelete
        /\ hasAsyncDelete' = TRUE
        /\ toDelete' = EntriesInRange
        /\ bufferedDeleting' = TRUE
        /\ bulkChange' = [bulkChange EXCEPT ![s] = TRUE]
        /\ \E report \in BOOLEAN : AddAsyncRequester(s, "task", report)
        /\ iActiveStep' = "EDeleteEntry"
        /\ isActive' = TRUE

\* ECategoryStart: prepares the steps, refused while the file is locked.
StartCategoryTaskL(s) ==
  \E a \in CategoryTasks :
    /\ BeginTask(s, a)
    /\ ~IsLocked
    /\ \E n \in 1..MaxCategorySteps : categoryLeft' = n
    /\ preparing' = [preparing EXCEPT ![s] = TRUE]
    /\ UNCHANGED <<fileVars, taskVars, deleteVars, model, session, request, waiting>>

\* ECategoryStartAsyn.
CategoryTaskStart(s) ==
  /\ preparing[s] /\ iAction[s] \in CategoryTasks /\ ~IsLocked
  /\ preparing' = [preparing EXCEPT ![s] = FALSE]
  /\ \E report \in BOOLEAN : AddAsyncRequester(s, "task", report)
  /\ iActiveStep' = iAction[s]
  /\ isActive' = TRUE
  /\ UNCHANGED <<fileVars, deleteVars, iAction, iCallBacks, model, categoryLeft,
                 session, iIndexesBuilt>>

\* Faulty variant of CallBacksReset: only the last callback is completed.
LastCallBackReset(s) == [iCallBacks EXCEPT ![s] = @ - 1]

\* CompleteRequest completes every callback.
CallBacksReset(s) == [iCallBacks EXCEPT ![s] = 0]

\* CancelAsynTask: ECancelTask, the callbacks are completed, and Cancel()
\* takes the completed request.
CancelAsynTask(s) ==
  /\ s \in Quitters
  /\ ClientRuns(s) /\ iAction[s] # "ENoAction"
  /\ IF IsInterestedSession(s)
     THEN LET X == Completed(iMessageVector, TRUE, "cancel", s)
          IN /\ TaskFailed
             /\ iActiveStep' = "ENoAction"
             /\ iMessageVector' = iMessageVector \ X
             /\ request' = [Answered(X, "cancel") EXCEPT ![s] = "none"]
             /\ waiting' = StillWaiting(X)
     ELSE /\ request' = [request EXCEPT ![s] = "none"]
          /\ UNCHANGED <<model, iSession, deleteVars, iActiveStep, iMessageVector, waiting>>
  /\ iAction' = [iAction EXCEPT ![s] = "ENoAction"]
  /\ iCallBacks' = CallBacksReset(s)
  /\ UNCHANGED <<fileVars, isActive, iIndexesBuilt, preparing, categoryLeft, session>>

\* RunL of the task manager: a progress report, and the request is made again.
ClientProgress(s) ==
  /\ ClientRuns(s) /\ request[s] = "progress"
  /\ \/ iAction[s] = "EBuildIndex" /\ StartBuildIndex(s, "task", TRUE)
     \/ /\ iAction[s] # "EBuildIndex" /\ RequestProgress(s)
        /\ UNCHANGED <<isActive, iActiveStep, iIndexesBuilt, model>>
  /\ UNCHANGED <<fileVars, deleteVars, clientVars, categoryLeft, session>>

\* RunL of the task manager: the task is over, every callback is completed.
ClientCompleted(s) ==
  /\ ClientRuns(s) /\ request[s] \in Codes \ {"progress"}
  /\ request' = [request EXCEPT ![s] = "none"]
  /\ iAction' = [iAction EXCEPT ![s] = "ENoAction"]
  /\ iCallBacks' = CallBacksReset(s)
  /\ UNCHANGED <<fileVars, taskVars, deleteVars, preparing, model, categoryLeft, session, waiting>>

-----------------------------------------------------------------------------
(* Synchronous changes of entries: refused while the file is locked *)

Change(s) ==
  /\ ClientRuns(s) /\ s \in Writers /\ ~IsLocked
  /\ UNCHANGED <<fileVars, taskVars, deleteVars, clientVars, categoryLeft, session,
                 request, waiting>>

DeleteEntry(s) ==
  /\ Change(s)
  /\ \E e \in model.index \ model.lost : model' = DeleteEntries(model, {e})

CommitChanges(s)   == Change(s) /\ model' = CommitL(model)
RollbackChanges(s) == Change(s) /\ model' = Rollback(model)

\* ESetCalendarInfo, which looks neither at the lock nor for a file the session
\* has open.  A file that nobody has open is opened and closed around it.
SetCalendarInfo(s) ==
  /\ s \in InfoWriters /\ open
  /\ session[s] # "gone" /\ ~waiting[s] /\ ~preparing[s]
  /\ model' = CommitStore(model)
  /\ UNCHANGED <<fileVars, taskVars, deleteVars, clientVars, categoryLeft, session,
                 request, waiting>>

-----------------------------------------------------------------------------

ClientRunL(s) == ClientProgress(s) \/ ClientCompleted(s)
SecondCall(s) == RefuseTask(s) \/ TidyByDateStart(s) \/ CategoryTaskStart(s)

ClientNext(s) ==
  \/ Connect(s) \/ OpenAgenda(s) \/ CloseSessionFile(s) \/ Disconnect(s)
  \/ StartBuildIndexL(s) \/ AppendCallBack(s) \/ WaitUntilLoadedL(s)
  \/ StartDeleteEntryL(s) \/ StartCategoryTaskL(s) \/ SecondCall(s)
  \/ CancelAsynTask(s) \/ ClientRunL(s)
  \/ DeleteEntry(s) \/ CommitChanges(s) \/ RollbackChanges(s) \/ SetCalendarInfo(s)

Next == RunL \/ CloseTimerRunL \/ ServerTerminates \/ \E s \in Sessions : ClientNext(s)

\* The active schedulers run what is ready: the file's active object and its
\* timer in the server, the task manager in every client; a client that is in
\* the middle of a start goes on to its second call.
Fairness ==
  /\ WF_vars(RunL)
  /\ WF_vars(CloseTimerRunL)
  /\ \A s \in Sessions : WF_vars(ClientRunL(s)) /\ WF_vars(SecondCall(s))

Spec == Init /\ [][Next]_vars /\ Fairness

-----------------------------------------------------------------------------
(* Properties that hold *)

HasMessage(s, kind) == \E x \in iMessageVector : x.session = s /\ x.kind = kind

\* No request is forgotten and none is completed twice: the client waits for a
\* request exactly when the file holds its message, whatever was cancelled,
\* closed or killed in between (AddAsyncRequesterL, CompleteRequests).
HeldIffQueued ==
  \A s \in Sessions : /\ request[s] = "held" <=> HasMessage(s, "task")
                      /\ waiting[s] <=> HasMessage(s, "wait")

\* Every callback a client queued has a request that will complete it.
CallBacksHaveRequest ==
  \A s \in Sessions :
    iCallBacks[s] > 0 => preparing[s] \/ request[s] # "none"

\* The reference count is the number of sessions with the file open, and a
\* file object without users is always scheduled for its delayed close.
FileReferenced ==
  /\ iRefCount = Cardinality({s \in Sessions : session[s] = "open"})
  /\ closeTimer <=> (open /\ iRefCount = 0)

\* Neither the indexes nor the index file, also the one a closed file or a server
\* that ended left on the disk, name an entry that is no longer in the stream id
\* set: a rollback puts back only what the set gets back (RollbackIndexesL).
IndexInStore == model.index \cup UNION model.indexFile \subseteq model.store

\* What a running delete would commit or undo is its own work: the other
\* sessions' changes were committed before it began and are refused since.
DeleteIsolated ==
  iActiveStep = "EDeleteEntry" => (model.committed \ model.store) \subseteq tidyRange

\* No step but the write of calendar information, which commits the streams,
\* puts one half of a running delete on the disk (DeleteTidiedEntriesL does not
\* commit a batch, DoTaskCompleteL commits or rolls back the whole).  What a
\* write of calendar information does to it is RollbackReinstates below.
DeleteAtomicOnDisk ==
  [][/\ iActiveStep = "EDeleteEntry"
     /\ OnDisk(model') # OnDisk(model)
     /\ ~ \E s \in Sessions : SetCalendarInfo(s)
     => OnDisk(model') \cap toDelete = {}]_vars

\* When the end of a delete answers ok, the entries it had left are gone from the
\* disk, nothing of anybody is uncommitted, and the indexes name no entry of the
\* range any more.  It says nothing of entries of the range that the indexes of a
\* built file miss (BuiltIndexIsComplete): the delete does not find them.
SuccessMeansDeleted ==
  [][\A s \in Sessions :
       /\ iActiveStep = "EDeleteEntry" /\ request[s] = "held" /\ request'[s] = "ok"
       => /\ model'.committed \cap toDelete = {}
          /\ model'.store = model'.committed
          /\ model'.index \cap tidyRange = {}]_vars

\* s gives up its task while its request is held.
GivesUp(s) == request[s] = "held" /\ iAction[s] # "ENoAction" /\ iAction'[s] = "ENoAction"

\* "One client should only cancel its own building index task": a cancel, or
\* the end of a client, completes no other session's request.
CancelTouchesOwn ==
  [][\A s, t \in Sessions :
       GivesUp(s) /\ s # t /\ open' => request'[t] = request[t] /\ waiting'[t] = waiting[t]]_vars

\* A file without users is closed unless somebody opens it again.
UnusedFileCloses == (open /\ iRefCount = 0) ~> (~open \/ iRefCount > 0)

\* While no client cancels, closes or ends, every request is answered, also
\* the ones that joined another session's build, and every blocked view runs.
RequestsAnswered ==
  \A s \in Sessions : /\ (request[s] = "held") ~> (request[s] # "held")
                      /\ waiting[s] ~> ~waiting[s]

\* While a file is open and its indexes are built, an index file on the disk has
\* the indexes in RAM: it is removed before they differ (MarkIndexFileAsDirty).
\* The file itself may differ from both (IndexFileUpToDate).
IndexFileCurrent ==
  open /\ iIndexesBuilt /\ model.indexFile # {} => model.indexFile = {model.index}

\* The file keeps the promise of its queue to the sessions that are alive.
Queue == INSTANCE AgnTaskQueue
           WITH busy <- IsLocked,
                pending <- {x \in iMessageVector : x.session \in Sessions}
ImplementsQueue == Queue!Spec

-----------------------------------------------------------------------------
(* The inductive invariant of the proofs *)

\* A rollback may reinstate what it holds; what is lost is named in the file.
StoreOK ==
  /\ model.store \subseteq model.committed
  /\ model.deleted \subseteq model.committed
  /\ model.lost \subseteq model.committed

\* A client has a request only for a task it began, in a file it has open.
ClientOK ==
  \A s \in Sessions :
    /\ iAction[s] = "ENoAction" => request[s] = "none" /\ ~preparing[s]
    /\ session[s] # "open" => iAction[s] = "ENoAction" /\ ~waiting[s]
    /\ preparing[s] => request[s] = "none" /\ ~waiting[s]

\* A running delete has only entries of its range left, those are in the file,
\* and all that the indexes name of the range are among them.
DeleteOK ==
  iActiveStep = "EDeleteEntry" =>
    /\ toDelete \subseteq tidyRange \cap model.committed
    /\ model.index \cap tidyRange \subseteq toDelete

\* A session has one message of a kind in the queue; a file in use is open.
QueueOK ==
  \A x, y \in iMessageVector :
    x.session \in Sessions /\ x.session = y.session /\ x.kind = y.kind => x = y
OpenOK == \A s \in Sessions : session[s] = "open" => open

Inv == /\ TypeOK /\ StoreOK /\ IndexInStore /\ ClientOK /\ HeldIffQueued /\ QueueOK
       /\ FileReferenced /\ OpenOK /\ DeleteOK /\ DeleteIsolated

-----------------------------------------------------------------------------
(* Statements of the sources that the code does not keep *)

\* agsfilemanager.cpp: "One client should only cancel its own building index
\* task" (CompleteRequests): the build goes on for the others in the queue.
CancelKeepsOthersBuild ==
  [][\A s \in Sessions :
       GivesUp(s) /\ iActiveStep = "EBuildIndex" /\ iMessageVector' # {}
         => iActiveStep' = "EBuildIndex"]_vars

\* agssess.cpp, ~CAgnServerSession: the task is cancelled "so it does not
\* attempt to use the session again": DoTaskCompleteL does not use a pointer to
\* a deleted session.
SessionNotUsedAgain ==
  [][iActiveStep = "EDeleteEntry" /\ iActiveStep' = "ENoAction" /\ hasAsyncDelete
       /\ ~hasAsyncDelete' /\ open' => iSession # Gone]_vars

\* agsfilemanager.cpp, AddAsyncRequesterL: "It is only possible to have more
\* than one client in the message queue if the asych task is building index",
\* asserted with EAgmErrTwoAsyncTasksStarted.
OneMessageUnlessBuilding ==
  [][iActiveStep \notin {"ENoAction", "EBuildIndex"}
       /\ ~(iMessageVector' \subseteq iMessageVector)
       => Cardinality(iMessageVector') = 1]_vars

\* agsfilemanager.cpp, DoBuildIndexStepL: "If the file has been completely
\* loaded": when the indexes are built and nothing runs, they know every entry.
BuiltIndexIsComplete ==
  iIndexesBuilt /\ iActiveStep = "ENoAction" => model.index = model.store

\* agsentrymodel.cpp, Rollback "reverts changes to the file and to the indexes
\* held in RAM": the indexes lose no entry that the rollback reinstates.
RollbackRevertsIndexes ==
  [][iActiveStep = "EDeleteEntry" /\ iActiveStep' = "ENoAction" /\ open'
       /\ model'.store = model.committed => model.committed \ model'.index = {}]_vars

\* agsentrymodel.cpp, Rollback "reinstates all entries which have been deleted":
\* after the rollback of a delete the entries the stream id set names are there.
RollbackReinstates ==
  [][iActiveStep = "EDeleteEntry" /\ iActiveStep' = "ENoAction" /\ open'
       /\ model'.store = model.committed => model'.lost = {}]_vars

\* agsfilemanager.cpp, CloseAgendaImmediately: "bring the cached index file up
\* to date": the index file of a closed calendar names the entries in it.
IndexFileUpToDate ==
  ~open /\ model.indexFile # {} => model.indexFile = {model.committed}
=============================================================================
