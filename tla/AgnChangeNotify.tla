--------------------------- MODULE AgnChangeNotify ---------------------------
(***************************************************************************)
(* Change notification: how a client learns of the entries other sessions  *)
(* change in its file, and of calendar files that appear, vanish or change *)
(* their information.  On the server the CAgnSessionFile of the watching   *)
(* session holds one notification message and two buffers of changes; in   *)
(* the client the active object CAgnChangeReporter sends the request, is   *)
(* completed, reads a buffer, calls the observer and requests again.       *)
(*                                                                         *)
(* Only one session watches: what the server keeps for a watcher depends   *)
(* on no other watcher.  Its file stays open.                              *)
(***************************************************************************)
EXTENDS Integers, Sequences

CONSTANTS Watcher,      \* the session whose client has the reporter
          Others,       \* other sessions of the file
          Disablers,    \* the sessions that may disable their broadcasts
          Changes,      \* the changes, by identities that are used again
          MaxBuffered,  \* KMaxNumberOfBufferedNotifications
          MaxRequests   \* bound: requests that are under way, held or completed
                        \* and not yet consumed when the client starts a reporter

ASSUME WatcherAssumption == Watcher \notin Others
ASSUME DisablersAssumption == Disablers \subseteq Others \cup {Watcher}
ASSUME BufferAssumption  == MaxBuffered \in Nat \ {0}
ASSUME RequestsAssumption == MaxRequests \in Nat \ {0}

Sessions == Others \cup {Watcher}
Kinds    == {"entry", "file"}  \* EEntryChangeInSameFile, EFileChange

VARIABLES
  (* CAgnSessionFile of the watcher *)
  iChangeNotificationPending,    \* "NotRequested", "Requested" or "Awaiting"
  iChangeNotificationMessage,    \* the message is not null
  iChangeIterested,              \* the kinds of change it is interested in
  iBufferedNotification,         \* the changes of entries in the buffer, and
  hasUndefined,                  \* whether an "undefined change" is in it
  iBufferedNotificationsCount, iNotificationBufferFull,
  iFileBufferedNotification,     \* the changes of files in the buffer
  garbled,                       \* its records cannot be read back
  iFileBufferedNotificationsCount,
  (* TAgnChangeFilter of every session; the lock of backup and restore *)
  iChangeBroadcastEnabled, iChangeMadeWhileDisabled, locked,
  (* the client: CAgnChangeReporter and its thread *)
  interested,                    \* its own iChangeIterested
  isActive, iStatus, signals,    \* the active object, the thread's semaphore
  sent,                          \* requests on their way to the server
  thread,                        \* "idle", "callback" or "ended"
  (* history *)
  due,       \* the changes of each kind the client has still to be told of
  hidden,    \* those made while the broadcast of their session was disabled
  wanted     \* the kinds the application has started and not stopped

entryVars   == <<iBufferedNotification, hasUndefined, iBufferedNotificationsCount,
                 iNotificationBufferFull>>
fileVars    == <<iFileBufferedNotification, garbled, iFileBufferedNotificationsCount>>
pendingVars == <<iChangeNotificationPending, iChangeNotificationMessage>>
answerVars  == <<pendingVars, iStatus, signals>>
filterVars  == <<iChangeBroadcastEnabled, iChangeMadeWhileDisabled>>
reporter    == <<interested, isActive, sent, thread, wanted>>
history     == <<due, hidden>>
vars == <<entryVars, fileVars, answerVars, filterVars, reporter, history,
          iChangeIterested, locked>>

CountTypes ==
  /\ iBufferedNotificationsCount \in 0..MaxBuffered
  /\ iFileBufferedNotificationsCount \in 0..MaxBuffered
  /\ signals \in Nat
SetTypes ==
  /\ iChangeNotificationPending \in {"NotRequested", "Requested", "Awaiting"}
  /\ iChangeIterested \in SUBSET Kinds
  /\ iBufferedNotification \in SUBSET Changes
  /\ iFileBufferedNotification \in SUBSET Changes
  /\ interested \in SUBSET Kinds /\ wanted \in SUBSET Kinds
  /\ iStatus \in Kinds \cup {"pending", "corrupt", "cancel"}
  /\ sent \in Seq(SUBSET Kinds) /\ thread \in {"idle", "callback", "ended"}
FlagTypes ==
  /\ iChangeNotificationMessage \in BOOLEAN /\ locked \in BOOLEAN
  /\ hasUndefined \in BOOLEAN /\ iNotificationBufferFull \in BOOLEAN
  /\ garbled \in BOOLEAN /\ isActive \in BOOLEAN
FunctionTypes ==
  /\ iChangeBroadcastEnabled \in [Sessions -> BOOLEAN]
  /\ iChangeMadeWhileDisabled \in [Sessions -> BOOLEAN]
  /\ due \in [Kinds -> SUBSET Changes] /\ hidden \in [Sessions -> SUBSET Changes]

\* The types of all variables of CAgnSessionFile and CAgnChangeReporter.
TypeOK == CountTypes /\ SetTypes /\ FlagTypes /\ FunctionTypes

\* What is left of the watcher when its session is deleted.
Fresh ==
  /\ iChangeNotificationPending' = "NotRequested"
  /\ iChangeNotificationMessage' = FALSE /\ iChangeIterested' = {}
  /\ iBufferedNotification' = {} /\ hasUndefined' = FALSE
  /\ iBufferedNotificationsCount' = 0 /\ iNotificationBufferFull' = FALSE
  /\ iFileBufferedNotification' = {} /\ garbled' = FALSE
  /\ iFileBufferedNotificationsCount' = 0
  /\ interested' = {} /\ isActive' = FALSE /\ iStatus' = "pending" /\ signals' = 0
  /\ sent' = <<>> /\ wanted' = {}
  /\ due' = [k \in Kinds |-> {}] /\ hidden' = [s \in Sessions |-> {}]

Init ==
  /\ iChangeNotificationPending = "NotRequested"
  /\ iChangeNotificationMessage = FALSE /\ iChangeIterested = {}
  /\ iBufferedNotification = {} /\ hasUndefined = FALSE
  /\ iBufferedNotificationsCount = 0 /\ iNotificationBufferFull = FALSE
  /\ iFileBufferedNotification = {} /\ garbled = FALSE
  /\ iFileBufferedNotificationsCount = 0
  /\ iChangeBroadcastEnabled = [s \in Sessions |-> TRUE]
  /\ iChangeMadeWhileDisabled = [s \in Sessions |-> FALSE] /\ locked = FALSE
  /\ interested = {} /\ isActive = FALSE /\ iStatus = "pending" /\ signals = 0
  /\ sent = <<>> /\ thread = "idle" /\ wanted = {}
  /\ due = [k \in Kinds |-> {}] /\ hidden = [s \in Sessions |-> {}]

-----------------------------------------------------------------------------
(* The message *)

Requested == iChangeNotificationPending = "Requested"

\* Faulty variant: the session still counts as waiting once it is answered.
CompleteStillRequested(code) ==
  /\ iChangeNotificationMessage' = FALSE
  /\ iChangeNotificationPending' = "Requested"
  /\ iStatus' = code /\ signals' = signals + 1

\* The message is completed, the client's thread signalled.
Complete(code) ==
  /\ iChangeNotificationMessage' = FALSE
  /\ iChangeNotificationPending' = "Awaiting"
  /\ iStatus' = code /\ signals' = signals + 1

CompleteIfRequested(code) ==
  \/ Requested /\ Complete(code)
  \/ ~Requested /\ UNCHANGED answerVars

Buffered(k) == IF k = "entry" THEN iBufferedNotification # {} \/ hasUndefined
                              ELSE iFileBufferedNotification # {}

\* Faulty variant of Answers: a new request does not look at the buffers.
NoAnswers(I) == {}

\* The kinds a new request is answered with at once; entries come first.
Answers(I) == {k \in I : Buffered(k) /\ (k = "file" /\ "entry" \in I => ~Buffered("entry"))}

\* CAgnSessionFile::RequestChangeNotification.
RequestChangeNotification(I) ==
  /\ iChangeIterested' = iChangeIterested \cup I
  /\ \/ \E k \in Answers(I) : Complete(k)
     \/ /\ Answers(I) = {}
        /\ iChangeNotificationPending' = "Requested"
        /\ iChangeNotificationMessage' = TRUE
        /\ UNCHANGED <<iStatus, signals>>

ServiceRequest ==
  /\ sent # <<>>
  /\ RequestChangeNotification(Head(sent))
  /\ sent' = Tail(sent)
  /\ UNCHANGED <<entryVars, fileVars, filterVars, history, locked,
                 interested, isActive, thread, wanted>>

\* The changes of kinds nobody is interested in any more are not due.
Forget(K) ==
  /\ due' = [k \in Kinds |-> IF k \in K THEN {} ELSE due[k]]
  /\ hidden' = IF "entry" \in K THEN [s \in Sessions |-> {}] ELSE hidden

\* Faulty variant of Uninterested: a cancel of one kind drops none.
StillInterested(K) == IF K = Kinds THEN {} ELSE iChangeIterested

\* Faulty variant of Uninterested: a cancel of one kind drops all.
NobodyInterested(K) == {}

Uninterested(K) == iChangeIterested \ K

\* CAgnSessionFile::CancelChangeNotification, and how many signals it sends.
CancelChangeNotification(K) ==
  /\ Forget(K)
  /\ \/ /\ iChangeNotificationPending = "NotRequested"
        /\ UNCHANGED <<iChangeIterested, pendingVars>>
     \/ /\ iChangeNotificationPending # "NotRequested"
        /\ iChangeIterested' = Uninterested(K)
        /\ Uninterested(K) # {}
        /\ UNCHANGED pendingVars
     \/ /\ iChangeNotificationPending # "NotRequested"
        /\ iChangeIterested' = Uninterested(K)
        /\ Uninterested(K) = {}
        /\ iChangeNotificationPending' = "NotRequested"
        /\ iChangeNotificationMessage' = FALSE

Cancels(K) == /\ iChangeNotificationPending # "NotRequested"
              /\ Uninterested(K) = {}
              /\ iChangeNotificationMessage

-----------------------------------------------------------------------------
(* Changes of entries *)

\* CAgnSessionFile::ToNotifyL of a change of its own session, of another
\* one that passes the filter or not, or of the system.
ToNotify(system, own, passes) ==
  /\ iChangeNotificationPending # "NotRequested"
  /\ "entry" \in iChangeIterested
  /\ system \/ (~own /\ passes)

\* Faulty variant of RoomFor: one change too many.
RoomForOneMore(count) == count <= MaxBuffered

RoomFor(count) == count < MaxBuffered

\* The tail of AddChangeToBufferL: the changes C, or an undefined change.
BufferChange(C, undefined) ==
  \/ /\ RoomFor(iBufferedNotificationsCount) /\ ~iNotificationBufferFull
     /\ iBufferedNotification' = iBufferedNotification \cup C
     /\ hasUndefined' = (hasUndefined \/ undefined)
     /\ iBufferedNotificationsCount' = iBufferedNotificationsCount + 1
     /\ CompleteIfRequested("entry")
     /\ UNCHANGED iNotificationBufferFull
  \/ /\ RoomFor(iBufferedNotificationsCount) /\ iNotificationBufferFull
     /\ UNCHANGED <<entryVars, answerVars>>
  \/ /\ ~RoomFor(iBufferedNotificationsCount)
     /\ iNotificationBufferFull' = TRUE
     /\ iBufferedNotification' = {} /\ hasUndefined' = TRUE
     /\ iBufferedNotificationsCount' = 1
     /\ UNCHANGED answerVars

AddChangeToBuffer(C, undefined, system, own, passes) ==
  \/ ToNotify(system, own, passes) /\ BufferChange(C, undefined)
  \/ ~ToNotify(system, own, passes) /\ UNCHANGED <<entryVars, answerVars>>

\* CAgnEntryModel::NotifyChangeL: every session is told of a change by session s,
\* the watcher's session file buffers it.
NotifyChange(s, C, undefined, passes) ==
  AddChangeToBuffer(C, undefined, FALSE, s = Watcher, passes)

\* An identity no change that is in a buffer or due has.
Unused(c) == /\ c \notin iBufferedNotification \cup iFileBufferedNotification
             /\ \A k \in Kinds : c \notin due[k]

\* A change the watcher has asked to be told of.
Due(c, kind, cond) ==
  /\ due' = IF cond /\ kind \in iChangeIterested
            THEN [due EXCEPT ![kind] = @ \cup {c}] ELSE due

\* Session s stores, updates or deletes an entry (CAgnEntryModel::NotifyingL).
ChangeEntry(s, c, passes) ==
  /\ Unused(c) /\ ~locked
  /\ s = Watcher => thread # "ended" /\ sent = <<>>
  /\ Due(c, "entry", s # Watcher /\ passes)
  /\ \/ /\ iChangeBroadcastEnabled[s]
        /\ NotifyChange(s, {c}, FALSE, passes)
        /\ UNCHANGED <<iChangeMadeWhileDisabled, hidden>>
     \/ /\ ~iChangeBroadcastEnabled[s]
        /\ iChangeMadeWhileDisabled' = [iChangeMadeWhileDisabled EXCEPT ![s] = TRUE]
        /\ hidden' = [hidden EXCEPT ![s] = @ \cup (due'["entry"] \cap {c})]
        /\ UNCHANGED <<entryVars, answerVars>>
  /\ UNCHANGED <<fileVars, reporter, iChangeBroadcastEnabled, iChangeIterested, locked>>

\* CAgnSessionFile::EnableChangeBroadcastL.
EnableChangeBroadcast(s) ==
  /\ iChangeBroadcastEnabled' = [iChangeBroadcastEnabled EXCEPT ![s] = TRUE]
  /\ hidden' = [hidden EXCEPT ![s] = {}]
  /\ s = Watcher => thread # "ended" /\ sent = <<>>
  /\ \/ /\ iChangeMadeWhileDisabled[s]
        /\ NotifyChange(s, {}, TRUE, TRUE)
        /\ iChangeMadeWhileDisabled' = [iChangeMadeWhileDisabled EXCEPT ![s] = FALSE]
     \/ /\ ~iChangeMadeWhileDisabled[s]
        /\ UNCHANGED <<entryVars, answerVars, iChangeMadeWhileDisabled>>
  /\ UNCHANGED <<fileVars, reporter, due, iChangeIterested, locked>>

\* CAgnSessionFile::DisableChangeBroadcast.
DisableChangeBroadcast(s) ==
  /\ s = Watcher => thread # "ended" /\ sent = <<>>
  /\ iChangeBroadcastEnabled' = [iChangeBroadcastEnabled EXCEPT ![s] = FALSE]
  /\ UNCHANGED <<entryVars, fileVars, answerVars, reporter, history,
                 iChangeIterested, iChangeMadeWhileDisabled, locked>>

\* CAgnSessionFile::BulkChangeCompletedL: session s has deleted the entries C.
BulkChangeCompleted(s, c) ==
  /\ Unused(c)
  /\ s = Watcher => thread # "ended"
  /\ Due(c, "entry", s # Watcher)
  /\ \/ /\ iChangeBroadcastEnabled[s]
        /\ NotifyChange(s, {}, TRUE, TRUE)
        /\ iChangeMadeWhileDisabled' = [iChangeMadeWhileDisabled EXCEPT ![s] = FALSE]
        /\ UNCHANGED hidden
     \/ /\ ~iChangeBroadcastEnabled[s]
        /\ iChangeMadeWhileDisabled' = [iChangeMadeWhileDisabled EXCEPT ![s] = TRUE]
        /\ hidden' = [hidden EXCEPT ![s] = @ \cup (due'["entry"] \cap {c})]
        /\ UNCHANGED <<entryVars, answerVars>>
  /\ UNCHANGED <<fileVars, reporter, iChangeBroadcastEnabled, iChangeIterested, locked>>

\* The time zone rules change, or a backup or restore starts or ends well.
SystemChange(c, l) ==
  /\ Unused(c)
  /\ locked' = l
  /\ Due(c, "entry", TRUE)
  /\ AddChangeToBuffer({c}, FALSE, TRUE, TRUE, TRUE)
  /\ UNCHANGED <<fileVars, filterVars, reporter, hidden, iChangeIterested>>

\* The restored file cannot be opened.  What the message does not set decides
\* whether the change passes the filter.
RestoredFileCanNotBeOpened(c) ==
  /\ locked /\ locked' = FALSE
  /\ Unused(c)
  /\ \/ Requested /\ Complete("corrupt") /\ UNCHANGED entryVars
     \/ /\ ~Requested
        /\ \E passes \in BOOLEAN : AddChangeToBuffer({c}, FALSE, FALSE, FALSE, passes)
  /\ UNCHANGED <<fileVars, filterVars, reporter, due, hidden, iChangeIterested>>

\* Another session ends; nobody is told of what it changed while disabled.
SessionEnds(s) ==
  /\ iChangeBroadcastEnabled' = [iChangeBroadcastEnabled EXCEPT ![s] = TRUE]
  /\ iChangeMadeWhileDisabled' = [iChangeMadeWhileDisabled EXCEPT ![s] = FALSE]
  /\ due' = [due EXCEPT !["entry"] = @ \ hidden[s]]
  /\ hidden' = [hidden EXCEPT ![s] = {}]
  /\ UNCHANGED <<entryVars, fileVars, answerVars, reporter, iChangeIterested,
                 locked>>

-----------------------------------------------------------------------------
(* Changes of files *)

\* Faulty variant of WithRecord: the stream is not brought back to its end.
LastRecordOnly(c) == {c}

WithRecord(c) == iFileBufferedNotification \cup {c}

ToNotifyOfFiles == /\ iChangeNotificationPending # "NotRequested"
                   /\ "file" \in iChangeIterested

\* CAgnSessionFile::AddFileChangeToBufferL of a change to notify of.
AddFileChangeToBuffer(c) ==
  /\ \/ /\ RoomFor(iFileBufferedNotificationsCount)
        /\ iFileBufferedNotification' = WithRecord(c)
        /\ iFileBufferedNotificationsCount' = iFileBufferedNotificationsCount + 1
        /\ UNCHANGED garbled
     \/ /\ ~RoomFor(iFileBufferedNotificationsCount)
        /\ iFileBufferedNotification' = {c}
        /\ garbled' = TRUE      \* the count overwrites the start of the record
        /\ iFileBufferedNotificationsCount' = 1
  /\ CompleteIfRequested("file")

\* Another session creates or deletes a file or changes its information.
ChangeFile(c) ==
  /\ Unused(c) /\ ~locked
  /\ Due(c, "file", TRUE)
  /\ \/ ToNotifyOfFiles /\ AddFileChangeToBuffer(c)
     \/ ~ToNotifyOfFiles /\ UNCHANGED <<fileVars, answerVars>>
  /\ UNCHANGED <<entryVars, filterVars, reporter, hidden, iChangeIterested, locked>>

-----------------------------------------------------------------------------
(* The client *)

serverVars == <<entryVars, fileVars, pendingVars, filterVars, iChangeIterested, locked>>

Runs  == thread # "ended"
Calls == Runs /\ sent = <<>>  \* a synchronous call, after the requests before it

Outstanding == Len(sent) + signals + IF iChangeNotificationMessage THEN 1 ELSE 0

Send(I) == sent' = Append(sent, I) /\ iStatus' = "pending"

\* CAgnChangeReporter::StartReporterL and StartFileChangeReporterL.
Start(k) ==
  /\ IF k = "entry" THEN Calls ELSE Runs
  /\ Outstanding < MaxRequests
  /\ wanted' = wanted \cup {k}
  /\ interested' = interested \cup {k}
  /\ isActive' = TRUE
  /\ Send(interested')
  /\ UNCHANGED <<serverVars, signals, thread, history>>

\* CAgnChangeReporter::StopReporter: CActive::Cancel of an active reporter
\* waits until its request is completed and consumes the signal.
StopReporter ==
  /\ CancelChangeNotification(interested)
  /\ \/ /\ isActive
        /\ Cancels(interested) \/ iStatus # "pending"
        /\ interested' = {} /\ isActive' = FALSE
        /\ iStatus' = IF Cancels(interested) THEN "cancel" ELSE iStatus
        /\ signals' = IF Cancels(interested) THEN signals ELSE signals - 1
     \/ /\ ~isActive
        /\ iStatus' = IF Cancels(interested) THEN "cancel" ELSE iStatus
        /\ signals' = IF Cancels(interested) THEN signals + 1 ELSE signals
        /\ UNCHANGED <<interested, isActive>>

\* StopEntryChangeNotification, StopFileChangeNotification.
Stop(k) ==
  /\ Calls
  /\ wanted' = wanted \ {k}
  /\ \/ /\ interested \subseteq {k}
        /\ StopReporter
     \/ /\ ~(interested \subseteq {k})
        /\ CancelChangeNotification({k})
        /\ iStatus' = IF Cancels({k}) THEN "cancel" ELSE iStatus
        /\ signals' = IF Cancels({k}) THEN signals + 1 ELSE signals
        /\ interested' = interested \ {k}
        /\ UNCHANGED isActive
  /\ UNCHANGED <<entryVars, fileVars, filterVars, locked, sent, thread>>

\* Faulty variant of FullAfterGet: the flag survives the read.
FullForever == iNotificationBufferFull

FullAfterGet == FALSE

\* GetChangesSinceLastNotificationL, whatever is in the buffer.
GetChanges ==
  /\ iBufferedNotification' = {} /\ hasUndefined' = FALSE
  /\ iBufferedNotificationsCount' = 0 /\ iNotificationBufferFull' = FullAfterGet
  /\ due' = [due EXCEPT !["entry"] =
                IF hasUndefined THEN {} ELSE @ \ iBufferedNotification]
  /\ hidden' = [s \in Sessions |-> IF hasUndefined THEN {} ELSE hidden[s]]
  /\ UNCHANGED fileVars

\* GetFileChangesSinceLastNotificationL.
GetFileChanges ==
  /\ iFileBufferedNotification' = {} /\ garbled' = FALSE
  /\ iFileBufferedNotificationsCount' = 0
  /\ due' = [due EXCEPT !["file"] = {}]
  /\ UNCHANGED <<entryVars, hidden>>

Dispatched == thread = "idle" /\ isActive /\ iStatus # "pending" /\ signals > 0

\* The client's thread ends, and with it the session.
ClientEnds ==
  /\ Fresh
  /\ thread' = "ended"
  /\ iChangeBroadcastEnabled' = [iChangeBroadcastEnabled EXCEPT ![Watcher] = TRUE]
  /\ iChangeMadeWhileDisabled' = [iChangeMadeWhileDisabled EXCEPT ![Watcher] = FALSE]
  /\ UNCHANGED locked

\* CAgnChangeReporter::RunL with ReportChangeL, up to the observer.  RunL does
\* nothing for KErrCancel, which never comes here (NeverCancelled).
Report ==
  /\ Dispatched /\ sent = <<>>
  /\ iStatus # "cancel"
  /\ isActive' = FALSE /\ signals' = signals - 1
  /\ thread' = "callback"
  /\ \/ iStatus = "entry" /\ GetChanges
     \/ iStatus = "file" /\ ~locked /\ GetFileChanges
     \/ iStatus = "corrupt" /\ UNCHANGED <<entryVars, fileVars, due, hidden>>
  /\ UNCHANGED <<pendingVars, filterVars, iChangeIterested, locked, interested,
                 iStatus, sent, wanted>>

\* ReportChangeL leaves: the server refuses the read during a backup, or the
\* records cannot be read.  The reporter has no RunError.
ReportLeaves ==
  /\ Dispatched /\ sent = <<>>
  /\ iStatus = "file" /\ (locked \/ garbled)
  /\ ClientEnds

\* A signal of a request that no active object waits for: the scheduler panics.
StraySignal ==
  /\ thread = "idle" /\ signals > 0
  /\ ~(isActive /\ iStatus # "pending")
  /\ ClientEnds

\* Faulty variant of ToRepeat: only a report of entries is repeated.
RepeatEntriesOnly == ~isActive /\ iStatus = "entry"

ToRepeat == ~isActive /\ iStatus # "corrupt"

\* RunL after the observer was called: request again.
Repeat ==
  /\ thread = "callback"
  /\ thread' = "idle"
  /\ \/ ToRepeat /\ isActive' = TRUE /\ Send(interested)
     \/ ~ToRepeat /\ UNCHANGED <<isActive, iStatus, sent>>
  /\ UNCHANGED <<serverVars, signals, interested, wanted, history>>

\* The client ends on its own, or a client begins with a new session.
ClientDies == Runs /\ ClientEnds

ClientBegins ==
  /\ thread = "ended"
  /\ thread' = "idle"
  /\ UNCHANGED <<serverVars, iStatus, signals, interested, isActive, sent, wanted,
                 history>>

-----------------------------------------------------------------------------
Client == \/ \E k \in Kinds : Start(k) \/ Stop(k)
          \/ Report \/ ReportLeaves \/ StraySignal \/ Repeat
          \/ ClientDies \/ ClientBegins

Server == \/ ServiceRequest
          \/ \E c \in Changes : \/ ChangeFile(c) \/ RestoredFileCanNotBeOpened(c)
                                \/ \E l \in BOOLEAN : SystemChange(c, l)
          \/ \E s \in Sessions, c \in Changes :
               \/ \E passes \in BOOLEAN : ChangeEntry(s, c, passes)
               \/ BulkChangeCompleted(s, c)
          \/ \E s \in Disablers : EnableChangeBroadcast(s) \/ DisableChangeBroadcast(s)
          \/ \E s \in Others : SessionEnds(s)

Next == Client \/ Server

\* The active schedulers of the server and of the client go on.
Fairness == /\ WF_vars(ServiceRequest)
            /\ WF_vars(Report \/ ReportLeaves \/ StraySignal)
            /\ WF_vars(Repeat)

SafeSpec == Init /\ [][Next]_vars
Spec     == SafeSpec /\ Fairness

-----------------------------------------------------------------------------
(* What must hold *)

\* The server holds a message exactly while it has a request to answer: it
\* never completes one twice (CAgnSessionFile::iChangeNotificationMessage).
MessageIffRequested == iChangeNotificationMessage <=> Requested

\* No lost wake-up: a watcher whose request is held has nothing to read of what
\* it is interested in (RequestEntryChangeNotification looks at the buffer,
\* AddChangeToBufferL completes the message).
NoLostWakeup == Requested => \A k \in iChangeIterested : ~Buffered(k)

\* Every change of an entry the client has to be told of is in the buffer or
\* covered by an "undefined change" there, or its session has disabled the
\* broadcast and owes the undefined change when it enables it again.
EntryChangesCovered ==
  /\ \A c \in due["entry"] :
       hasUndefined \/ c \in iBufferedNotification \/ \E s \in Sessions : c \in hidden[s]
  /\ \A s \in Sessions : hidden[s] # {} => /\ ~iChangeBroadcastEnabled[s]
                                           /\ iChangeMadeWhileDisabled[s]

\* Every change of a file the client has to be told of is in the buffer, unless
\* the buffer ran over.
FileChangesCovered == garbled \/ due["file"] \subseteq iFileBufferedNotification

\* Once the server has the requests of a client, what the client waits for is
\* a message the server holds and completes when the client cancels all it is
\* interested in: the wait in CActive::Cancel of StopReporter ends.
CancelReturns ==
  isActive /\ iStatus = "pending" /\ sent = <<>> /\ Runs =>
     /\ iChangeNotificationMessage
     /\ iChangeIterested \subseteq interested

\* An active reporter never gets KErrCancel, for which RunL would neither report
\* nor request again: stopping one kind of change leaves a reporter of the other
\* kind its request, whatever completions and requests cross on the way.
NeverCancelled == isActive => iStatus # "cancel"

\* The last request under way names all the client is interested in; once they
\* have arrived the server agrees with the client or was told to stop.
Agreed == /\ sent # <<>> => sent[Len(sent)] = interested
          /\ sent = <<>> => \/ iChangeIterested = interested
                            \/ iChangeNotificationPending = "NotRequested"

\* The inductive invariant: a session that has not requested is interested in
\* nothing, a full buffer has an undefined change and a counted one something, a
\* completed reporter has its signal, a client that ended has none, and the
\* requests under way grow from what the server is interested in to what the
\* client has on its list.
PendingOK == /\ iChangeNotificationPending = "NotRequested" => iChangeIterested = {}
             /\ iNotificationBufferFull => hasUndefined
             /\ iBufferedNotificationsCount = 0 \/ Buffered("entry")
             /\ isActive /\ iStatus # "pending" => signals > 0
             /\ thread = "ended" => ~isActive
             /\ iChangeIterested \subseteq interested
             /\ \A i \in 1..Len(sent) :
                  /\ iChangeIterested \subseteq sent[i] /\ sent[i] \subseteq interested
                  /\ \A j \in i..Len(sent) : sent[i] \subseteq sent[j]

\* Nothing is due of what nobody is interested in, and no change of its own
\* session is held back from the watcher.
DueOK == /\ "entry" \notin iChangeIterested => due["entry"] = {}
         /\ hidden[Watcher] = {}

Inv == /\ TypeOK /\ PendingOK /\ DueOK
       /\ MessageIffRequested /\ NoLostWakeup
       /\ EntryChangesCovered /\ FileChangesCovered /\ CancelReturns

\* A change of an entry is told to a client that goes on watching, once its
\* session does not hold it back; a reporter that was told KErrCorrupt stops.
EntryChangesReported ==
  \A c \in Changes :
     (c \in due["entry"] /\ \A s \in Sessions : c \notin hidden[s])
       ~> (c \notin due["entry"] \/ (iStatus = "corrupt" /\ ~isActive))

\* StopChangeNotification: "Stop entry notifications from this session."
\* (client/src/calsession.cpp): no entries are reported once it has returned.
StoppedMeansQuiet ==
  [][(thread = "idle" /\ thread' = "callback" /\ iStatus = "entry") => "entry" \in wanted]_vars
=============================================================================
