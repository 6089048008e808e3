# Verification of the calendar server

TLA+ models of the agenda (calendar) server of the organizer package, the TLC
configurations that check them on small instances, and TLAPS proofs about them.
Paths below are relative to `src/pimappservices/calendar/` unless they begin
with `src/`.

The organizer package is a calendar server with its client library, and a set
of applications (calendar, clock, notepad, alarm UI, search) on top of it. The
core logic that is concurrent, has to survive failures and is shared by all the
applications is in the calendar server and its client library; that is what is
modelled here.

## 1. Inventory

| Component | State | Operations | Hard behaviour |
|---|---|---|---|
| Calendar file (`server/src/agsfilemanager.cpp`, `CAgnServFile`) | reference count, delay timer, active object with the step of one task, queue of held messages (`iMessageVector`), last requester (`iSession`), `iIndexesBuilt` | open, close, delayed close, build of the indexes, delete by date, category tasks, progress reports, cancel | one task shared by several sessions; clients that cancel, close or die while their message is held; failures in any step; what is left of a task in a closing file |
| Entry model (`server/src/agsentrymodel.cpp`, `agsstreamidset.cpp`) | entries in the store (committed and not), indexes in RAM, rollback arrays, index file, iterator and count of a build | store, update, delete, commit, rollback, index build step, load and save of the index file | transactions without isolation between sessions, crash consistency of the file and the index file, rollback of the indexes |
| Asynchronous delete (`server/src/agsasyncdelete.cpp`) | entries left, batch | one step, batch, commit or rollback | batches against the atomicity of the whole |
| Category index (`server/src/agscategoryindex.cpp`) | index of categories, steps left | filter, delete category | steps with commit or rollback |
| Server session (`server/src/agssess.cpp`, `CAgnServerSession`) | session files, buffers, lock of backup and restore | dispatch of all requests | sessions that end at any time |
| Session file table (`CAgnSessionFileManager`) | one `CAgnSessionFile` per client of a session: the id of its calendar, whether it watches | add, find, delete, reset of the model | a table searched with a binary search whose keys change, references counted elsewhere |
| Change notification (`CAgnSessionFile`, `client/src/calsessionimpl.cpp`, `CAgnChangeReporter`) | per watcher: one message and its state, interests, two buffers, filter; in the client: an active object and its interests | request, cancel, change of an entry or a file, bulk change, disable and enable of broadcasts, read of the buffers | lost wake-ups, overflow, requests and completions that cross, cancel, backup and restore |
| Client task manager (`client/src/calasynctask.cpp`) | one request, the action, callbacks | start, join, cancel, completion | several callbacks on one request |
| Server life cycle, backup and restore (`server/src/agsmain.cpp`, `agsbackuprestoreagent.cpp`, file manager) | session count, undertaker, list of files, agent's state, lock of every file and session | start, connect, exit, backup, restore | exit against new sessions and delayed closes; restore under open files and tasks; states of the engine the agent never sees |
| Alarm queue (`server/src/agsalarm.cpp`, the alarm search of `agsentrymodel.cpp`) | per open calendar: the entries with the next alarm, the one queued, its request; at the alarm server: session alarms, orphans, alarms put off | search and queue, expiry, cancel, orphans at a close or shutdown, batches of changes | expiry against changes, alarms of the same time, closing and opening again, ids shared by calendars |
| Recurrence and instance search (`shared/src/agmrptdef.cpp`, `server/src/agsinstanceiterator.cpp`) | none | instances of a repeat rule, iterator | calendar arithmetic |
| Plug-ins, engines, applications | see `PROJECT.json` | | conversion and user interface |

How they interact: a client calls the server synchronously (one kernel message
that blocks the client's thread) or asynchronously (the message is held and
completed later, which sets a `TRequestStatus` and signals the thread). The
server is one thread with an active scheduler: a request is handled to its end,
then the next request or one step of a file's active object runs. Sessions
share files through `CAgnServFile`; a change of an entry goes from the entry
model through all sessions to the `CAgnSessionFile`s of the same file.

What makes each part correct: a held message is completed once and not
forgotten; one session's cancel does not touch another's request; a delete is
atomic on the disk; the indexes agree with the entries; a file nobody uses is
closed; a watcher learns of every change, or of an "undefined" one in its
place; a client that waits is answered; references are as many as the session
files that hold them; the server ends when and only when nobody needs it; files
and sessions are locked during a backup and not after; an alarm goes off once,
and only while its entry has it. Section 4 names the property of each.

## 2. Modules

| Module | Models | Lines of code it stands for |
|---|---|---|
| `AgnEntryModel` | the entry model of one file as operators on a record | commit, rollback, delete, index build and index file of `agsentrymodel.cpp`, iterators of `agsstreamidset.cpp`, the batch of `agsasyncdelete.cpp` |
| `AgnServFile` | one calendar file, its sessions and the task managers of its clients | `agsfilemanager.cpp`, `agsasyncdelete.cpp`, the steps of `agscategoryindex.cpp`, the task requests of `agssess.cpp`, `calasynctask.cpp` |
| `AgnTaskQueue` | what a file promises to the requests it holds (abstract) | implemented by `AgnServFile` (`ImplementsQueue`) |
| `AgnChangeNotify` | change notification to one watcher: its session file, the other sessions, its reporter | `CAgnSessionFile` and `CAgnServerSession` of `agssess.cpp`, `CAgnChangeReporter` and `ReportChangeL` of `calsessionimpl.cpp` |
| `AgnSessionFiles` | the table of session files of one session as operators on a sequence | `CAgnSessionFileManager` of `agssess.cpp` |
| `AgnServer` | the server process, its list of files, its sessions with their tables, the backup agent | `agsmain.cpp`, `agsbackuprestoreagent.cpp`, the open, close, backup and restore parts of `agsfilemanager.cpp` and `agssess.cpp`, `RAgendaServ::Connect` of `calclient.cpp` |
| `AgnAlarmQueue` | the alarms of the calendars and the alarm server | `agsalarm.cpp`, the alarm search and the changes of entries of `agsentrymodel.cpp`, the closes and shutdowns of `agsfilemanager.cpp`, `agssystemstateobserver.cpp` |
| `MCAgnServFile`, `MCAgnChangeNotify`, `MCAgnServer`, `MCAgnAlarmQueue` | instances for TLC | |
| `AgnEntryModelProofs`, `AgnServFileProofs`, `AgnChangeNotifyProofs`, `AgnSessionFilesProofs`, `AgnServerProofs`, `AgnReferencesProofs`, `AgnAlarmQueueProofs` | the proofs | |

`PROJECT.json` maps every definition to the lines it translates. Names are those
of the source where TLA+ allows it.

### AgnEntryModel, AgnServFile

An entry is a number, the place of its stream in the stream id set. The model of
a file is a record with the entries the stream id set on the disk names
(`committed`), those of them whose streams are gone (`lost`), the entries in the store
(`store`), in the indexes (`index`), in the two rollback arrays, and the index
file. Deleting, committing, rolling back and each step of a build are operators
on the record, so that they can be proved about one by one. `OnDisk` is what a server
that starts now can read.

`lost` is there for one operation: `SetCalendarInfo` commits the store of the file
(`CommitStore`) without the stream id set, which only `DoCommitL` writes, and without
looking at the lock. The streams that the batches of a running delete removed are then
gone from the disk, while the set still names them. `InfoWriters` are the sessions that
do this. `AddStreamToDictionaryL` and the time zone rules (`agstzruleindex.cpp`) commit
the same store alone too; what that does to the entries is what `SetCalendarInfo` does.
A build that comes to a lost stream leaves (`FailsAfter`, `MeetsLost`), and so do a
delete and a category task.

In `AgnServFile` one action is one handler: a client call with what the server
does in it, one step of the active object (`BuildIndexStep`, `DeleteEntryStep`,
`CategoryStep`), the timer, the end of a client (`Disconnect`) or of the server
(`ServerTerminates`). The two calls of a delete (parameters, then start) and of a
category task are two actions (`StartDeleteEntryL`/`StartCategoryTaskL`, then
`RefuseTask`, `TidyByDateStart` or `CategoryTaskStart`) since other sessions run
in between. A message is the session, whether it is a task or a blocked view, and
whether it asks for progress; `request[s]` and `waiting[s]` say what the client
sees of it. A pointer to a deleted session is the value `Gone`.

Faults are chosen: `"step"` lets any step leave, `"commit"` the commit of a task,
`"load"` the load of an index file. A server that ends drops everything but the
committed entries and the index file.

### AgnChangeNotify

The server's side of a watcher is one message with its state (`NotRequested`,
`Requested`, `Awaiting`), the interests, the two buffers (the set of changes in
each, its counter, the flag of a full one) and the broadcast flags of every
session. The client's side is the active object: `isActive`, `iStatus`, the
signals the thread has, and the requests on their way (`sent`), because an
asynchronous request is handled after the call has returned. The callback into
the application is a state of its own (`thread = "callback"`): the application may
start and stop notifications from it, as the code allows.

The history variables say what a client is owed: `due` has the changes made while
it was interested and not yet read, `hidden` those whose session held its
broadcasts back, `wanted` what the application asked for.

One watcher is enough: the server keeps nothing for a watcher that depends on
another. The filter of a change (times, types) is a free choice per change.

### AgnSessionFiles, AgnServer

A session file is a record of the client (`CCalSession` of the process) it belongs
to, the id of its calendar (0 while it only watches the files), whether it watches,
and whether it was told of the start of a backup or restore. The table is a
sequence, and `FindL` is the binary search itself (`BinarySearch`), so that an
unsorted table is searched as the code searches it. `Users(tables, id)` is who has
the calendar with an id open, over all sessions. At the end of a restore every
session is told of the files one by one in the order of the list: `ToldOfRestore`
is that loop, `TellRestored` what it does for the file at one place.

`AgnServer` has the phone (the state the backup engine publishes, the id in each
calendar file, the index files), the server (session count, undertaker, list of
files, the agent and whether it has a signal to answer) and the sessions with their
tables. An open file is a record of id, collection id, references, timer, lock,
store and model, the session whose task runs, and its indexes. One action is one
handler; where a handler can end in a panic or an access through a null pointer
(`CloseWithoutModel`, `OpenWithoutModel`, `TaskWithoutModel`, `StartWithoutStore`,
`EndWithoutModel`) that is an action of its own that ends the server with
`lastExit = "panic"` and all its sessions. A task is only who runs it: its steps are
`AgnServFile`'s, where the file is not backed up. The engine is external: it
publishes its states as fast as it likes and replaces files that are not held open.
A client of the server starts it when it is not there (`ConnectAndStart`).

### AgnAlarmQueue

One record for each open calendar is its `CAgnAlarmActive`: the entries in the list,
their common time, the one that is queued (a set, for none), the status of the
request and the session's alarms that the alarm server holds. `orphans` counts the
copies of every alarm left by a close or a shutdown, `snoozed` has what the user
put off, `rang` and `disturbed` are history: the alarms that have gone off, and the
times a search skipped. Time is a counter that stops at `MaxTime` and does not pass
an alarm that is due. The alarm server is external: it completes the request of an
alarm that goes off or is cancelled, as `agsalarm.cpp` relies on.

The search (`NextAlarms`) follows `NextAlarmForServerL`: windows of days, the first
that has an alarmed instance, then the first time after `now`; `SearchFrom` is the
skip of two seconds for an alarm that goes off early. `Ops` chooses which operations
occur, so that a run or a theorem can say for which it holds: `"strip"` is an update
that removes the alarm, `"move"` one that gives the entry another id, `"batch"` and
`"die"` are clients that stop the updates of the alarm.

How the modules meet. `AgnServFile` is one file between its opening and its close,
`AgnServer` all files with their opening and closing; they share the reference count
and the timer, which the first refines with tasks and the second with sessions and
backups. `AgnChangeNotify` is what one `CAgnSessionFile` of `AgnSessionFiles` does
with a change. `AgnAlarmQueue` sees of a file that it opens, builds its indexes and
closes. No two are composed into one state space: what one needs of another is a
handful of states, and a product would not finish.

## 3. Runs

| Run | Instance | Shows |
|---|---|---|
| `queue` | 3 sessions, 3 entries, builds and category tasks of 1 step, failures of load | `TypeOK`, `HeldIffQueued`, `FileReferenced`, `CancelTouchesOwn`, `ImplementsQueue` |
| `deletes` | 2 sessions, 2 entries, 2 ranges, deletes beside builds of 2 callbacks, synchronous changes of one session, calendar information written by the other, steps and commits that fail | `IndexInStore`, `DeleteIsolated`, `IndexFileCurrent`, `CallBacksHaveRequest`, `DeleteAtomicOnDisk`, `SuccessMeansDeleted`, `UnusedFileCloses` |
| `answers` | 2 sessions that do not cancel, close or end; builds, deletes and category tasks of 2 steps, steps and commits that fail | `RequestsAnswered` |
| `notify` | a watcher, another session, 3 changes, buffers of 2, 2 requests | `TypeOK`, `MessageIffRequested`, `NoLostWakeup`, `EntryChangesCovered`, `FileChangesCovered`, `CancelReturns`, `NeverCancelled`, `EntryChangesReported` |
| `server` | 2 sessions of one client each, one calendar with two ids, tasks, watchers, backup and restore | `TypeOK`, `ReferencesAgree`, `FilesFollowAgent`, `NoTaskWhileClosed`, `EndIsTold` |
| `sharing` | 1 session of 2 clients, 2 calendars, tasks, backup and restore | `ExitOnlyWhenUnused`, `CollectionIdsUnique`, `LookupFindsEntry`, `UnusedServerExits`, `FilesAreUnlocked` |
| `alarm_queue` | 1 calendar, 2 entries, alarms up to 4, a skip of 2; adds, updates, deletes, alarms put off | `NotQueuedTwice`, `DeletedStaysQuiet`, `ListedEntriesExist`, `NextAlarmIsQueued`, `AlarmsGoOff` |
| `alarm_all` | 2 calendars that share an id, alarms at one time; batches, death of a client, calendar information, shutdown and its cancellation, moves, removed alarms | `TypeOK`, `SessionAlarmAgrees` |
| `v_*` | as above | one statement of the sources each that the code does not keep (section 6) |

Why the bounds are enough. Sessions of a file interact pairwise (a task's owner and
one that joins, cancels or ends); the third of `queue` is one that neither owns nor
cancels. A step of a build takes at least one stream, so 3 entries give builds of
several steps, and 4 (`v_partial_index`) a build that is stopped in the middle and one
that counts past the end. A batch of a delete is one entry or all that are left, so 2
entries give two batches. `MaxProcessed` caps the counter of processed streams above
the number of entries; the code reports a corrupt file as soon as the counter passes
it, so the cap is not met. An index file that cannot be read is in `queue` only: in
`deletes` it leads to no state that is not reached without. `MaxCallBacks` and
`MaxCategorySteps` bound the callbacks of a task manager (two in `deletes`, which has
the property about them) and the length of a category task (two in `answers`). With
`MaxBuffered = 2` a third change runs a buffer over, and with three identities one
change may be read, one buffered and one new; an identity is used again once nobody
holds it. `MaxRequests` bounds how often an application starts a notification while
requests are outstanding: two, one to be replaced. Symmetry is used for the sessions
of `queue` and `server`, which have no liveness property. Deadlock is checked in every
run.

References, locks and the table are pairwise questions too: two clients, in one
process or in two, and a second calendar for what depends on the order of the list
(collection ids, the first file that fails a restore). `sharing` has one session
since a second multiplies the states by more than a run can take; two processes are
in `server`. Restores in `sharing` bring back the calendar's own id: those that
change it are in `server`, and the two together are where the search of the table is
known to fail (section 6). A skip of 2 and alarms up to 4 put an alarm before, at and
after the end of the skip, with two entries for two alarms of one time and for one
that follows another. In `alarm_all` all alarms are at one time, so that batches of
equal alarms, deletes and shutdowns meet with two calendars. `KMaxCopies` bounds the
copies of one alarm; `CopiesBound` is in the guard of the actions that add one.

## 4. Properties

| Property | Against |
|---|---|
| `HeldIffQueued`, `RequestsAnswered`, `ImplementsQueue` | a request forgotten, completed twice, or answered by the wrong event |
| `CancelTouchesOwn` | a cancel or the end of a client that completes another session's request |
| `CallBacksHaveRequest` | a callback queued on a request that is over |
| `FileReferenced`, `UnusedFileCloses` | a file that is never closed, or closed while in use |
| `DeleteIsolated`, `DeleteAtomicOnDisk`, `SuccessMeansDeleted` | a delete that commits or undoes others' work, half a delete on the disk, success without a commit |
| `IndexInStore` | an index in RAM or in the index file, also that of a closed calendar, with entries that are gone |
| `IndexFileCurrent` | an index file that a change left behind |
| `MessageIffRequested`, `CancelReturns` | a message completed twice (which panics the server) or a reporter that waits for ever in `CActive::Cancel` |
| `NeverCancelled` | a reporter that goes on watching one kind of change and is cancelled with the other: `RunL` would not request again |
| `NoLostWakeup`, `EntryChangesReported` | a watcher that sleeps on a change in its buffer |
| `ReferencesAgree` | a reference dropped twice or kept for ever when clients close, end, delete or watch while a restore changes the id their session files have |
| `FilesFollowAgent`, `NoTaskWhileClosed` | a file that was opened, reopened or closed during a backup and is locked, detached or written to against the agent |
| `EndIsTold` | a client told of the start of a restore and, under the new id, not of its end |
| `ExitOnlyWhenUnused`, `UnusedServerExits` | the undertaker under a new session, a server that waits for ever |
| `FilesAreUnlocked` | a start of a backup whose end the agent misses |
| `CollectionIdsUnique` | an id given twice after a close in the middle of the list |
| `LookupFindsEntry` | an entry the binary search does not find |
| `SessionAlarmAgrees` | an alarm left at the alarm server, or taken for queued when it was cancelled |
| `NotQueuedTwice` | the orphan of a closed calendar beside the alarm of the open one |
| `DeletedStaysQuiet`, `ListedEntriesExist` | an alarm of a deleted or changed entry, at the alarm server or in the list `RunL` goes through |
| `NextAlarmIsQueued`, `AlarmsGoOff` | an alarm nobody queues, while the calendar is open or through closes and openings |
| `EntryChangesCovered`, `FileChangesCovered` | changes dropped by an overflow, a bulk change, a held back broadcast or a read |

`DeleteAtomicOnDisk` leaves out the writes of calendar information: they do put half
a delete on the disk, and `RollbackReinstates` (section 6) is what is lost by it.
`SuccessMeansDeleted` is about the requests that the end of a delete answers; it covers
the entries the delete had left and that the indexes then name none of the range. An
entry of the range that a built index misses (`v_partial_index`) is not found by the
delete and not covered. `IndexFileCurrent` compares the index file with the indexes in
RAM of an open, built file; the entries in the file are the business of
`IndexFileUpToDate`, which the code does not keep.

`EntryChangesReported` is stated for a client that goes on watching: stopping a
kind of notification or ending clears what is due, and a reporter that was told
`KErrCorrupt` does not request again (`RunL`). `FileChangesCovered` stops at the
overflow of the buffer, whose contents cannot be read back (section 6).

`LookupFindsEntry` is stated where the code keeps its table sorted: without watchers,
whose entries are appended, and without restores that change ids. `ReferencesAgree`
leaves out calendars whose restore failed, which the server closes itself.
`ExitOnlyWhenUnused` speaks of the undertaker, `lastExit` of panics. `AlarmsGoOff`
leaves out the times in `disturbed`: those within the skip of a search, or passed
before `RunL` ran. Time stops at
`MaxTime`, and no alarm lies beyond it.

Each property is broken by a variant of one definition ("Faulty variant" in the
modules), a mistake that code could plausibly have.

## 5. Fairness

`AgnServFile`: weak fairness of the file's active object (`RunL`), of its timer, of
the client's active object and of the second of two calls. `AgnChangeNotify`: weak
fairness of the request handler, of the client's dispatch (one disjunction: the
scheduler runs some ready object) and of the end of a callback. Active schedulers
run every ready object, a ready object stays ready until it runs, and a callback
is assumed to return. `AgnServer`: weak fairness of the end of a task, of each file's
timer, of the undertaker, and of the agent answering its signal (on the signal, not
on the whole state: the agent may answer while everything else goes on).
`AgnAlarmQueue`: weak fairness of each `CAgnAlarmActive`, of the alarm server letting
due alarms go off, and of time. Nothing is assumed of clients starting, stopping or making
changes, of faults, of backups or of the end of processes.

## 6. Where the code does not keep what the sources say

Four runs have `expect: violation`; TLC's trace is the counterexample and
`PROJECT.json` quotes the line.

* `v_dead_session`: a session that ends between a progress report and its next
  request is not in the queue; its task goes on and ends through its pointer.
* `v_partial_index`: a build that is started again goes on counting from where the
  last one stopped and reports 100 per cent too early.
* `v_info_commit`: `ESetCalendarInfo` is not refused while a delete runs and commits the
  store. The entries of the batches so far are gone from the disk, and a rollback of the
  delete brings them back into the stream id set only: the next build of the file leaves
  with `KErrNotFound` at the first of them, as does a delete that finds it in the indexes.
* `v_locked`: the sessions are unlocked while the manager goes through the open
  files; when the last one was closed during the backup, nobody unlocks them.

The modules state more such sentences, as definitions that TLC refutes when one is
added to a `.cfg`:

* `CancelKeepsOthersBuild` (`AgnServFile`): cancelling a build resets the step before
  the queue is looked at, so the build stops for every session that waits for it.
* `OneMessageUnlessBuilding`: a build is not refused on a file whose category task
  runs; two tasks' messages meet in the queue.
* `RollbackRevertsIndexes`: the rollback data of a delete is dropped after each batch;
  a cancel in a later batch leaves the indexes without the earlier entries.
* `IndexFileUpToDate`: a file closed with uncommitted deletes saves an index file
  without entries that are still in the file.
* `StoppedMeansQuiet` (`AgnChangeNotify`): `StopChangeNotification` of a client that
  also watches files leaves a completion in its thread; the observer is called with
  entries afterwards.
* `ClosingStaysSafe` (`AgnServer`): a lookup by id (`GetFileL`) reads the model of every
  file in the list; after a failed restore one has none, although `calchangecallback.h`
  says that closing stays permitted.
* `OpenedOnce` (`AgnServer`): `FileHasBeenOpenedL` trusts the binary search; with a
  watcher's entry or a new id in the table it misses one, and two clients of a session
  have one calendar.
* `NotQueuedTwice` (`AgnAlarmQueue`, with `"info"` in `Ops`): writing the information of
  an enabled calendar queues its alarms as orphans each time, and the next change of an
  entry queues the session's alarm beside them; they are deleted at the next build.
* `NextAlarmIsQueued` (`AgnAlarmQueue`, with `"strip"` in `Ops`): an update that removes the
  alarm of the next entry deletes that alarm and searches for no other.

Behaviour met while modelling that no run states, because no line of the sources
promises otherwise or because a model of its own is needed:

* A task that fails between a progress report and the next request is reported as
  `KErrNone` (`RequestProgressL`).
* A file that is opened again while its delay timer runs keeps a task whose active
  object was stopped.
* The parameters of a delete belong to the file: another session may replace them
  before the delete starts.
* `CommitL` or `BuildIndexCompleteL` may leave after `iIndexesBuilt` or
  `iActiveStep` was set: a later rollback empties the indexes, or a failed delete
  stays uncommitted in the model.
* A backup cancels one message per session and does not roll a delete back;
  `BackupReStoreChanged` of the file manager keeps `ERestoredFileCanNotBeOpened` for
  the files after the first that failed.
* The buffer of file changes that runs over gets the record of the last change, not
  an undefined one, and the counter is written over its beginning
  (`AddFileChangeToBufferL`): the reader cannot parse it. In the model the buffer is
  `garbled` and the client's `RunL` leaves.
* Reading file changes is not among the requests a backup lets through
  (`CheckBackupRestore`), and the reporter has no `RunError`.
* Starting a second kind of notification while a completion is queued may complete
  the reporter twice: a stray signal.
* `KErrCorrupt` also stops a reporter that watches only files.
* A session that ends with its broadcasts disabled never announces its changes.
* Of two open calendars the first of which cannot be opened after a restore the second
  gets `ERestoredFileCanNotBeOpened`, which `CAgnServFile` answers with
  `User::Invariant()` (`EndWithoutModel`).
* A restore that ends and is followed by a backup before the agent runs is not seen to
  end: the start of the backup uses the store that is gone (`StartWithoutStore`).
* A server started during a backup takes the engine for idle (its agent has seen no
  change), and locks its files only at the next change.
* A collection id of 255 ends the opening of files until the last of the list closes.
* A close during a restore saves the indexes of the old content to the index file.
* The entry of a watcher is deleted when it opens a calendar (`OpenAgendaL` closes
  first); the notification it asked for ends with it.
* `DeleteEntriesAlarmL` compares ids of entries only: the alarm of another calendar's
  entry with the same id is cancelled and not queued again.
* Two alarms of one time are queued one after the other; a change of any entry between
  the two skips the second. The skip of two seconds does the same to an alarm due within
  two seconds of a change or a close.
* An entry deleted in a batch, whose alarm updates are stopped, stays in the list of
  alarms; `RunL` leaves with `KErrNotFound` for it, which ends the server
  (`AlarmOfDeletedEntry`). A client that dies in a batch leaves the updates stopped.
* A shutdown that is called off deletes the alarms of the whole category for each file:
  only the file handled last keeps its alarm.
* The search stops at the first window with an alarmed instance, past ones included: an
  alarm more than two days ahead is not queued while another entry's has just passed.
* An update that moves the entry to another stream leaves the alarms of its old id.

## 7. Proofs

TLAPS proves the following for any finite set of sessions and entries, any ranges
and any choice of tasks, faults, writers (of entries and of calendar information) and
quitters (`AgnServFile`), and for any
sets of sessions and changes, any buffer size and any number of requests
(`AgnChangeNotify`). `AgnServerProofs` and `AgnReferencesProofs` are about any finite
set of file names and any sets of sessions, clients, ids, watchers and engine states,
`AgnSessionFilesProofs` about tables of any length, `AgnAlarmQueueProofs` about any
files, ids, clients, operations, skips, days and bounds. The assumptions are the `ASSUME`s of the modules: the null and
dangling pointers are not sessions, ranges are sets of entries, the bounds are
positive and the cap on processed streams lies above the number of entries; the
watcher is not one of the others, and buffers have room for a change; two calendars
never have the same id. What a theorem about alarms assumes beyond that is in its
statement: `EditsOnly` (no batches, no update that removes an alarm or moves the
entry), `NoRequeue` (no calendar information is written and the phone is not shut
down), `WithinReach` (alarms within the first window of the search), `OwnIds`
(calendars do not share ids). Without each of these the statement is false in the
code (section 6).

The theorems of `AgnReferencesProofs` that depend on the search of a table have one
of two conditions on the instance. `Apart`: the clients of a process share no session
(`OneClient`), or a restore brings a calendar back with the id it had (`StableIds`).
`Ordered`: `OneClient`, or `StableIds` and no client watches the files, since a
watcher's entry is appended without an id. `OneClient` is an application with one
`CCalSession`, `StableIds` a backup that is restored to the calendar it was made of, not
to one that was deleted and created anew since; the run `server` satisfies the first
condition, with ids that change and watchers, `sharing` the second. Outside of them a
table with several entries gets out of order, the search misses one, and the statements
are false (`OpenedOnce`, section 6): with two clients in a session and changed ids TLC
finds counterexamples to `ReferencesAgree`, `ExitOnlyWhenUnused`, `LookupFindsEntry` and
`EndIsTold`, and with a watcher beside a client to the last two. `TypeCorrect` and
`NoTasksWhileClosed` have no condition.

| Module | Theorem | States |
|---|---|---|
| `AgnServFileProofs` | `InvInvariant` | `Inv` is inductive |
| | `TypeCorrect`, `RequestsHeldIffQueued`, `FileIsReferenced`, `IndexesInStore`, `DeletesAreIsolated` | the invariants of that name |
| | `CallBacksAreAnswered`, `IndexFileIsCurrent` | `CallBacksHaveRequest`, `IndexFileCurrent` |
| | `SuccessIsDeleted` | `SuccessMeansDeleted` |
| | `DeletesAreAtomic`, `CancelsTouchTheirOwn` | the action properties |
| | `QueueImplemented` | `ImplementsQueue`: the file refines `AgnTaskQueue` |
| `AgnChangeNotifyProofs` | `InvInvariant` | `Inv` is inductive |
| | `TypeCorrect`, `MessagesAnsweredOnce`, `NoWakeupIsLost`, `NoEntryChangeIsLost`, `NoFileChangeIsLost`, `CancelDoesNotHang`, `WatchingIsNotCancelled` | the invariants |
| `AgnServerProofs` | `FilesInvariant` | the list of files is well formed |
| | `FilesFollow`, `CollectionIds` | `FilesFollowAgent`, `CollectionIdsUnique` |
| | `ExitsUnused` | the first two parts of `ExitOnlyWhenUnused` and the count of sessions |
| `AgnSessionFilesProofs` | `FindSound`, `FindComplete` | a lookup returns an entry with the id or none; in a sorted table it finds every entry |
| `AgnReferencesProofs` | `TypeCorrect` | `TypeOK`, without a condition |
| | `Tasks`, `NoTasksWhileClosed` | the inductive invariant of the tasks and `NoTaskWhileClosed`, without a condition |
| | `References` | the inductive invariant of the references, under `Apart` |
| | `ReferencesAgreed`, `ExitsWhenUnused` | `ReferencesAgree`, all of `ExitOnlyWhenUnused`, under `Apart` |
| | `Tables` | the inductive invariant of the tables, under `Ordered` |
| | `LookupsFind`, `EndsAreTold` | `LookupFindsEntry`, `EndIsTold`, under `Ordered` |
| `AgnAlarmQueueProofs` | `InvInvariant`, `TypeCorrect`, `SessionAlarmsAgree` | for all operations |
| | `ListedEntries`, `DeletedAreQuiet` | under `EditsOnly` |
| | `NoAlarmTwice` | under `NoRequeue` |
| | `NextAlarmQueued` | under `EditsOnly`, `NoRequeue`, `WithinReach`, `OwnIds` |

The argument for `AgnServFile`. `HeldIffQueued` needs that a session has one message
of a kind (`QueueOK`) and that a client has a request only for a task it began in a
file it has open (`ClientOK`): otherwise a second message of a session would survive
the answer to the first. `IndexInStore` needs `StoreOK`, since a rollback puts back
what the rollback array of deletes holds, which must still be in the file.
`DeleteIsolated` needs that a running delete has only entries of its range left, and
`SuccessMeansDeleted` that it has all of them that the indexes name (`DeleteOK`).
`DeletesAreAtomic` has one lemma (`DiskStep`): of all steps only a commit, the end of a
task and a write of calendar information change what is on the disk, and a running
delete refuses the first. The operators of the entry model have their
own lemmas in `AgnEntryModelProofs`; the actions then need only those. The proof of
`Inv` is split by concern (model, delete, queue, references, types), one lemma per
group of actions.

The argument for `AgnChangeNotify`. `NoLostWakeup` is not inductive: a change could
find a counter at its limit, or the flag of a full buffer, beside an empty buffer,
and neither would complete the message. `PendingOK` says that a counted buffer has
something in it and a full one the undefined change. `CancelReturns` needs that what
the server is interested in is contained in every request on its way, that those
requests grow, and that they are contained in the client's own interests: then the
cancel of all the client's interests leaves the server none and the message is
completed. `EntryChangesCovered` needs `DueOK`: nothing is due of what nobody is
interested in, so the undefined change that is not buffered when a session
broadcasts again loses nothing. All five actions that add changes of entries go
through one lemma about `AddChangeToBufferL` (`AddChangeAdded`). `NeverCancelled`
has a second invariant on top of `Inv`: `Agreed`, that the last request on its way
names all the client is interested in, and that once the requests have arrived the
server has that very list or was told to stop. Stopping one of two kinds then leaves
the server the other one, and the message is not completed. It follows that the
branch of `CAgnChangeReporter::RunL` for `KErrCancel` is never taken; the model has
no action for it.

The index file of `AgnServFile`. `IndexFileCurrent` needs that the index file holds one
index (`OneIndexFile`) and, once the indexes are built, that it is the index in RAM with
the entries of the file (`Current`): every change removes the file before the indexes
differ from it, and only a build that ends or a close writes it. The lemmas are about
the operators of the entry model, one per operator.

The argument for `AgnServer`. `Good` says of the list of files that each is a record of
the right shape, that no two have one collection id, and that lock and store follow the
agent. Nearly every action makes of each file the same with other references, timer,
task or indexes, or closes it (`Same`, lemma `GoodSame`); opening adds one with an id above that of
the last, which has the greatest (`LastCollection`, `GoodOpened`); starts and ends of backups
and restores move all files at once (`GoodMoved`). `ExitsUnused` needs that a server that is
down has no sessions and no files, and that every step that leaves a session or a timer
behind cancels the undertaker or finds it idle.

Success and the queue of `AgnServFile`. A delete that finds no indexes would find no
entries and report success; `SuccessIsDeleted` therefore has a second invariant,
`DeleteIndexed`: between the two calls of a delete and while it runs, the indexes are
built. `QueueImplemented` maps the queue and the step of the file to those of
`AgnTaskQueue`. What a handler does to the queue is one of five things, a lemma each:
nothing (`QueueStutters`), the end of the task (`QueueFinishes`), a report
(`QueueReports`), a new message (`QueueGrows`), and messages of one session taken out
(`QueueLoses`); every action is one of them. `Inv` is needed because a message that is
added must be the session's only one.

The tables of `AgnServer`. The binary search and the loop at the end of a restore are
recursive functions, over intervals and over collection ids. What holds of their
results is proved without an induction theorem: if it failed somewhere, there would be
a shortest interval, or a least collection id, where it fails, and one round of the
definition contradicts that (`SearchResult`). Each operation on a table then has a lemma
for what it does to the clients, the ids and the order.

The references. `TypeInv` has what a table needs to stay one entry per client, and that
a file without a model is one a restore has broken (`FileOK`). `AgreeInv` says of each
calendar that its file has as many references as it has users, over all sessions, and
at most that many when it is broken; and that a calendar that is not broken and has
users is open, under the id they have it by: without this a client that closes would
not find the file it holds a reference to. The number of users is a cardinality of
pairs of session and client, so that an open adds one and a close or the end of a
session removes those of one session. `TasksInv` says that a task belongs to a session
that has the calendar open, so that the cancels of all sessions at the start of a
backup reach it, and that no task runs during one. It is kept whatever the ids are: the
end of a restore changes the ids of entries, but then no task runs, except in a server
that was started while the restore ran. Such a server holds its files open, the restore
does not replace them (`HeldInv`), and its end changes no id. `KeptOrder` says that tables of
several clients are sorted by distinct ids, which with `FindComplete` gives
`LookupsFind`; and `ToldInv` that after a backup or restore only the users of broken
calendars still wait for its end. It needs `KeptOrder`, since the end is sent by id to
the entry the search finds.

The argument for `AgnAlarmQueue`. `QueueOK` says of one calendar's queue that the alarm
server has exactly the queued alarm, that it is one of the list, and that only a built
calendar has one; searching, cancelling, expiring and losing the alarm are lemmas about
that record, so that every action that does one of them to each file follows. The
theorems with assumptions add invariants about the entries: the list has the alarm time
of its entries (`ListsOK`), an entry with an alarm exists (`AlarmedExist`), a built
calendar has no orphans (`OrphansOnce`). `NextAlarmQueued` needs that a search reaches
every alarm after `now` (`WithinReach`) and that the smallest of a finite set of times
is found.

Only model-checked: the liveness properties (`RequestsAnswered`, `UnusedFileCloses`,
`EntryChangesReported`, `UnusedServerExits`, `FilesAreUnlocked`, `AlarmsGoOff`), which
are about fairness and out of the reach of the proof system, and the violations of
section 6, which are counterexamples. Every invariant and action property of a passing
run has a theorem.

## 8. Not modelled

Storing and updating entries with their children and attachments, time zones and
conversion of the entry model; compaction; the categories themselves; publish and
subscribe flags and the filter of changes; `SetChangeNotificationParametersL` failing.
Of the server: the permanent server, which never ends; a failed allocation between
`CancelUndertaker` and the new session; commits that a backup skips
(`IsBackupRestoreLock`). Of the alarms: changes of the clock and the time zone,
the restore-completed event of the alarm server, disabled calendars, alarms that
go off early, the limit of ten orphans (the code does not apply it) and `KErrLocked`.
Out of scope: recurrence arithmetic without interaction, exchange formats, engines and
applications; these are most of the repository's lines, and they are parsers, views
and dialogs, each the whole of its own state. The alarm UI and the search server are
the two of them that have a protocol; they are next in the plan. Memory failures are modelled only as the faults named above.

## 9. Plan

Done: `AgnEntryModel`, `AgnTaskQueue`, `AgnServFile`, `AgnChangeNotify`,
`AgnSessionFiles`, `AgnServer`, `AgnAlarmQueue` with their runs and the proofs of
section 7. Next, in this order:

1. Entry changes in `AgnEntryModel`: store, update and child entries with their
   rollback arrays, so that `RollbackIndexes` is checked for every change; the
   modifying rules of a parent and its children.
2. The alarms under changes of the clock and with disabled calendars.
3. Recurrence rules as operators against a reference definition over small ranges.
4. The control of the alarm UI, and the session manager of the search server.

Proofs planned: `ReferencesAgree` and `EndIsTold` for several clients whose calendars
change ids without passing each other, so that the tables stay sorted; the safety
properties of the modules listed above.
