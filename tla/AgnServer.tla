---------------------------- MODULE AgnServer ----------------------------
(***************************************************************************)
(* The life of the agenda server: started by the first client, kept while  *)
(* sessions or delayed closes need it, ended by its undertaker; the        *)
(* calendar files it has open and the sessions that hold references to     *)
(* them; and the backups and restores during which the files are locked.   *)
(*                                                                         *)
(* A handler of the server (a request, the end of a session, the RunL of   *)
(* an active object) is one step: the server has one thread.  The server   *)
(* modelled is the transient one, which clients start.                     *)
(***************************************************************************)
EXTENDS AgnSessionFiles, FiniteSets

CONSTANTS Sessions,        \* the client processes' sessions (RAgendaServ)
          FileNames,       \* the calendar files
          IdsOf,           \* the ids the contents of a calendar file have had
          Watchers,        \* the clients that watch the calendar files
          Taskers,         \* the sessions that start asynchronous tasks
          Engines,         \* what the engine does: "backup", "restore"
          Deleters,        \* the sessions that create and delete calendars
          KMaxTUint8       \* the last collection id

ASSUME IdsOfAssumption ==
  /\ IdsOf \in [FileNames -> SUBSET Ids]
  /\ \A m, n \in FileNames : m # n => IdsOf[m] \cap IdsOf[n] = {}
ASSUME CollectionAssumption == KMaxTUint8 \in Nat \ {0}
ASSUME NamesAssumption == IsFiniteSet(FileNames) /\ Engines \subseteq {"backup", "restore"}

NoSession == "none"
ASSUME NoSessionAssumption == NoSession \notin Sessions

VARIABLES
  (* the phone *)
  engine,           \* the published state of the backup engine
  disk,             \* the id in each calendar file, 0 when it does not exist
  indexFile,        \* the id of the calendar whose indexes the index file has
  (* the server *)
  server,           \* "down" or "up"
  lastExit,         \* how the last server ended
  iSessionCount,
  undertaker,       \* [active, cancelled]
  files,            \* iFileList, by name, in the order of the collection ids
  iCurrentState,    \* of the backup agent
  agentSignalled,   \* the property changed since the agent ran last
  iBackupRestoreInProgress,
  unopenable,       \* history: the calendars a restore has left broken
  (* the sessions *)
  session,          \* "closed" or "open"
  iBackupRestoreLock,
  table             \* iSessionFiles of each session

phoneVars  == <<engine, disk, indexFile>>
exitVars   == <<server, lastExit, iSessionCount, undertaker>>
agentVars  == <<iCurrentState, agentSignalled, iBackupRestoreInProgress, unopenable>>
clientVars == <<session, iBackupRestoreLock, table>>
vars == <<phoneVars, exitVars, files, agentVars, clientVars>>

OpenFile == [id : Ids, coll : 1..KMaxTUint8, ref : Nat, timer : BOOLEAN,
             locked : BOOLEAN, store : {"open", "detached", "none"},
             model : BOOLEAN, task : Sessions \cup {NoSession},
             indexes : {"none", "saved", "dirty"}]
Closed == [coll |-> 0]      \* of a calendar that is not in the list
States == {"normal", "backup", "restore"}

TypeOK ==
  /\ engine \in States
  /\ disk \in [FileNames -> Ids \cup {0}] /\ indexFile \in [FileNames -> Ids \cup {0}]
  /\ server \in {"down", "up"} /\ lastExit \in {"none", "undertaker", "panic"}
  /\ iSessionCount \in Nat /\ undertaker \in [active : BOOLEAN, cancelled : BOOLEAN]
  /\ files \in [FileNames -> OpenFile \cup {Closed}]
  /\ iCurrentState \in States /\ agentSignalled \in BOOLEAN
  /\ iBackupRestoreInProgress \in BOOLEAN /\ unopenable \in SUBSET FileNames
  /\ session \in [Sessions -> {"closed", "open"}]
  /\ iBackupRestoreLock \in [Sessions -> BOOLEAN]
  /\ table \in [Sessions -> Seq(SessionFile)]

IsOpen(n)     == files[n] # Closed
OpenNames     == {n \in FileNames : IsOpen(n)}
Connected     == {s \in Sessions : session[s] = "open"}
TimerOn(fs, n) == fs[n] # Closed /\ fs[n].timer
FileCloseTimersRunning(fs) == \E n \in FileNames : TimerOn(fs, n)

Init ==
  /\ engine = "normal"
  /\ disk \in [FileNames -> Ids \cup {0}]
  /\ \A n \in FileNames : disk[n] \in IdsOf[n] \cup {0}
  /\ indexFile = [n \in FileNames |-> 0]
  /\ server = "down" /\ lastExit = "none"
  /\ iSessionCount = 0 /\ undertaker = [active |-> FALSE, cancelled |-> FALSE]
  /\ files = [n \in FileNames |-> Closed]
  /\ iCurrentState = "normal" /\ agentSignalled = FALSE
  /\ iBackupRestoreInProgress = FALSE /\ unopenable = {}
  /\ session = [s \in Sessions |-> "closed"]
  /\ iBackupRestoreLock = [s \in Sessions |-> FALSE]
  /\ table = [s \in Sessions |-> <<>>]

-----------------------------------------------------------------------------
(* The end of the server process. *)

\* Faulty variant: does nothing when the undertaker is about to run.
DestroyServerOnce ==
  IF undertaker.active THEN UNCHANGED undertaker
  ELSE undertaker' = [active |-> TRUE, cancelled |-> FALSE]
DestroyServer == undertaker' = [active |-> TRUE, cancelled |-> FALSE]

\* ShutdownServer with the sessions and files that are left.
ShutdownServer(count, fs) ==
  IF count = 0 /\ ~FileCloseTimersRunning(fs) THEN DestroyServer
  ELSE UNCHANGED undertaker

ServerEnds(how) ==
  /\ server' = "down" /\ lastExit' = how
  /\ iSessionCount' = 0 /\ undertaker' = [active |-> FALSE, cancelled |-> FALSE]
  /\ files' = [n \in FileNames |-> Closed]
  /\ iCurrentState' = "normal" /\ agentSignalled' = FALSE
  /\ iBackupRestoreInProgress' = FALSE /\ unopenable' = {}
  /\ session' = [s \in Sessions |-> "closed"]
  /\ iBackupRestoreLock' = [s \in Sessions |-> FALSE]
  /\ table' = [s \in Sessions |-> <<>>]
  /\ UNCHANGED phoneVars

(* The files. *)

\* Faulty variant: drops references the file does not have.
CloseAgendaUnchecked(fs, closes, immediately) ==
  [n \in FileNames |->
    IF fs[n] = Closed \/ closes[n] = 0 THEN fs[n]
    ELSE IF closes[n] # fs[n].ref THEN [fs[n] EXCEPT !.ref = @ - closes[n]]
    ELSE IF immediately \/ iCurrentState # "normal" THEN Closed
    ELSE [fs[n] EXCEPT !.ref = 0, !.timer = TRUE]]
\* The references of the files in fs after closes[n] more calls of CloseAgenda
\* for each n.  Without a reference a file closes, at once or after a delay;
\* there is no delay while the agent knows of a backup or restore.
CloseAgenda(fs, closes, immediately) ==
  [n \in FileNames |->
    IF fs[n] = Closed \/ closes[n] = 0 \/ fs[n].ref = 0 THEN fs[n]
    ELSE IF closes[n] < fs[n].ref THEN [fs[n] EXCEPT !.ref = @ - closes[n]]
    ELSE IF immediately \/ iCurrentState # "normal" THEN Closed
    ELSE [fs[n] EXCEPT !.ref = 0, !.timer = TRUE]]

\* CloseAgendaImmediately saves indexes that are built and not saved yet.
SavedIndexes(fs) ==
  [n \in FileNames |->
    IF IsOpen(n) /\ fs[n] = Closed /\ files[n].model /\ files[n].indexes = "dirty"
    THEN files[n].id ELSE indexFile[n]]

\* GetFileL with a file id reads the model of every file before the one it
\* looks for: there is none in a file whose restore failed.
LookupPanics(id) ==
  \E n \in OpenNames :
    /\ ~files[n].model
    /\ \A m \in OpenNames : files[m].coll < files[n].coll => files[m].id # id

Once(n)        == [m \in FileNames |-> IF m = n THEN 1 ELSE 0]
NamesWith(id)  == {n \in OpenNames : files[n].model /\ files[n].id = id}
\* How many entries of a session name each file.
EntriesOf(s) ==
  [n \in FileNames |->
    IF IsOpen(n) /\ files[n].model
    THEN Cardinality(ClientsOf(table[s], files[n].id)) ELSE 0]
\* Faulty variant: the length of the list.
FileCount(fs) == Cardinality({n \in FileNames : fs[n] # Closed})
LastCollectionId(fs) ==
  CHOOSE k \in 0..KMaxTUint8 :
    /\ \A n \in FileNames : fs[n].coll <= k
    /\ k = 0 \/ \E n \in FileNames : fs[n].coll = k

-----------------------------------------------------------------------------
(* Sessions: RAgendaServ::Connect and the end of a client or its session. *)

NewSession(s) ==
  /\ session' = [session EXCEPT ![s] = "open"]
  /\ iBackupRestoreLock' = [iBackupRestoreLock EXCEPT ![s] = FALSE]

\* The server is not running: the client starts it.  Its agent reads the
\* engine's state; iBackupRestoreInProgress stays clear.
ConnectAndStart(s) ==
  /\ server = "down" /\ session[s] = "closed"
  /\ server' = "up" /\ lastExit' = "none" /\ iSessionCount' = 1
  /\ iCurrentState' = engine
  /\ NewSession(s)
  /\ UNCHANGED <<phoneVars, undertaker, files, agentSignalled,
                 iBackupRestoreInProgress, unopenable, table>>

\* Faulty variant: leaves the undertaker to its work.
ConnectOnly(s) ==
  /\ server = "up" /\ session[s] = "closed"
  /\ iSessionCount' = iSessionCount + 1
  /\ NewSession(s)
  /\ UNCHANGED <<phoneVars, server, lastExit, undertaker, files, agentVars, table>>

Connect(s) ==
  /\ server = "up" /\ session[s] = "closed"
  /\ undertaker' = [undertaker EXCEPT !.cancelled = TRUE]
  /\ iSessionCount' = iSessionCount + 1
  /\ NewSession(s)
  /\ UNCHANGED <<phoneVars, server, lastExit, files, agentVars, table>>

SessionEnds(s) ==
  LET cancelled == [n \in FileNames |->
                     IF IsOpen(n) /\ files[n].task = s /\ EntriesOf(s)[n] > 0
                     THEN [files[n] EXCEPT !.task = NoSession] ELSE files[n]]
      fs == CloseAgenda(cancelled, EntriesOf(s), FALSE) IN
  /\ session[s] = "open"
  /\ \A i \in Positions(table[s]) : ~LookupPanics(table[s][i].id)
  /\ files' = fs /\ indexFile' = SavedIndexes(fs)
  /\ iSessionCount' = iSessionCount - 1
  /\ ShutdownServer(iSessionCount - 1, fs)
  /\ session' = [session EXCEPT ![s] = "closed"]
  /\ iBackupRestoreLock' = [iBackupRestoreLock EXCEPT ![s] = FALSE]
  /\ table' = [table EXCEPT ![s] = <<>>]
  /\ UNCHANGED <<engine, disk, server, lastExit, agentVars>>

\* The end of a session, or the close of a client's calendar, that looks past
\* a file whose restore failed.
CloseWithoutModel(s) ==
  /\ session[s] = "open"
  /\ \E i \in Positions(table[s]) : LookupPanics(table[s][i].id)
  /\ ServerEnds("panic")

-----------------------------------------------------------------------------
(* Requests. *)

\* CheckBackupRestore lets the request of session s through.
Permitted(s) ==
  session[s] = "open" /\ ~iBackupRestoreLock[s] /\ ~iBackupRestoreInProgress

\* CloseAgendaL(aSessionId): the files after the close of client c's calendar.
ClosedFor(s, c) ==
  LET i == GetSessionFile(table[s], c) IN
  IF i = 0 \/ NamesWith(table[s][i].id) = {} THEN files
  ELSE LET n == CHOOSE n \in NamesWith(table[s][i].id) : TRUE
           stopped == [files EXCEPT ![n].task = IF @ = s THEN NoSession ELSE @]
       IN CloseAgenda(stopped, Once(n), FALSE)
CloseIsSafe(s, c) ==
  LET i == GetSessionFile(table[s], c) IN i # 0 => ~LookupPanics(table[s][i].id)

\* Of the clients of session s, c itself or another has calendar n open as far
\* as the table tells.
FileHasBeenOpened(s, c, n) ==
  LET i == GetSessionFile(table[s], c) IN
  \/ (i # 0 /\ table[s][i].id = files[n].id)
  \/ FindL(table[s], files[n].id) # 0

\* The open of calendar n reads the model of a file that has none: of n itself,
\* or of one that AddClientL meets before it in the list.
OpenPanics(s, c, n) ==
  \E m \in OpenNames :
    /\ ~files[m].model
    /\ \/ m = n
       \/ ~IsOpen(n) /\ disk[n] # 0
       \/ IsOpen(n) /\ files[m].coll < files[n].coll /\ ~FileHasBeenOpened(s, c, n)

\* OpenAgendaL.  The calendar the client had open is closed before the new one
\* opens; an open file gets one more reference and its timer is cancelled.
OpenAgenda(s, c, n) ==
  LET fs == ClosedFor(s, c)
      t  == DeleteSessionFile(table[s], c)
      new == [id |-> disk[n], coll |-> LastCollectionId(fs) + 1, ref |-> 1,
              timer |-> FALSE, locked |-> FALSE, store |-> "open", model |-> TRUE,
              task |-> NoSession, indexes |-> "none"] IN
  /\ Permitted(s) /\ CloseIsSafe(s, c)
  /\ disk[n] # 0
  /\ IsOpen(n) => ~FileHasBeenOpened(s, c, n)
  /\ ~OpenPanics(s, c, n)
  /\ fs[n] = Closed => LastCollectionId(fs) < KMaxTUint8
  /\ LET opened == IF fs[n] = Closed THEN [fs EXCEPT ![n] = new]
                   ELSE [fs EXCEPT ![n].ref = @ + 1, ![n].timer = FALSE] IN
     /\ IF CanAddClient(t, opened[n].id)
        THEN /\ files' = opened
             /\ table' = [table EXCEPT ![s] = AddClient(t, c, opened[n].id)]
        ELSE /\ files' = CloseAgenda(opened, Once(n), TRUE)
             /\ table' = [table EXCEPT ![s] = t]
  /\ indexFile' = SavedIndexes(files')
  /\ UNCHANGED <<engine, disk, exitVars, agentVars, session, iBackupRestoreLock>>

\* The calendar does not exist, or the collection ids are used up (KErrOverflow):
\* the one the client had open is closed all the same.
OpenFails(s, c, n) ==
  /\ Permitted(s) /\ CloseIsSafe(s, c)
  /\ ~IsOpen(n)
  /\ disk[n] = 0 \/ LastCollectionId(ClosedFor(s, c)) = KMaxTUint8
  /\ files' = ClosedFor(s, c) /\ indexFile' = SavedIndexes(files')
  /\ table' = [table EXCEPT ![s] = DeleteSessionFile(@, c)]
  /\ UNCHANGED <<engine, disk, exitVars, agentVars, session, iBackupRestoreLock>>

\* An open (or a delete) that meets a file whose restore failed.
OpenWithoutModel(s, c, n) ==
  /\ Permitted(s) /\ OpenPanics(s, c, n)
  /\ ServerEnds("panic")

\* ECloseAgenda; the client has cancelled its task.
CloseAgendaOf(s, c) ==
  /\ session[s] = "open" /\ CloseIsSafe(s, c)
  /\ GetSessionFile(table[s], c) # 0
  /\ files' = ClosedFor(s, c) /\ indexFile' = SavedIndexes(files')
  /\ table' = [table EXCEPT ![s] = DeleteSessionFile(@, c)]
  /\ UNCHANGED <<engine, disk, exitVars, agentVars, session, iBackupRestoreLock>>

RequestFileNotification(s, c) ==
  /\ session[s] = "open" /\ c \in Watchers
  /\ table' = [table EXCEPT ![s] = Watch(@, c)]
  /\ UNCHANGED <<phoneVars, exitVars, files, agentVars, session, iBackupRestoreLock>>

CancelFileNotification(s, c) ==
  /\ session[s] = "open" /\ c \in Watchers
  /\ table' = [table EXCEPT ![s] = Unwatch(@, c)]
  /\ UNCHANGED <<phoneVars, exitVars, files, agentVars, session, iBackupRestoreLock>>

\* CreateAgendaFileL replaces the file; it cannot while the file is open.
CreateAgendaFile(s, n) ==
  /\ Permitted(s) /\ s \in Deleters /\ ~IsOpen(n)
  /\ \E id \in IdsOf[n] : disk' = [disk EXCEPT ![n] = id]
  /\ UNCHANGED <<engine, indexFile, exitVars, files, agentVars, clientVars>>

\* DeleteAgendaFileL: a calendar nobody has open, or only the client itself.
DeleteAgendaFile(s, c, n) ==
  LET i   == GetSessionFile(table[s], c)
      own == IsOpen(n) /\ i # 0 /\ table[s][i].id = files[n].id IN
  /\ Permitted(s) /\ s \in Deleters /\ disk[n] # 0
  /\ IsOpen(n) /\ i # 0 => files[n].model
  /\ IsOpen(n) => files[n].ref = 0 \/ (own /\ files[n].ref = 1)
  /\ files' = [files EXCEPT ![n] = Closed]
  /\ disk' = [disk EXCEPT ![n] = 0] /\ indexFile' = [indexFile EXCEPT ![n] = 0]
  /\ table' = [table EXCEPT ![s] = IF own THEN DeleteUnlessWatching(@, c) ELSE @]
  /\ UNCHANGED <<engine, exitVars, agentVars, session, iBackupRestoreLock>>

\* An asynchronous task of a client on the calendar it has open.
StartTask(s, n) ==
  /\ Permitted(s) /\ s \in Taskers /\ IsOpen(n)
  /\ ClientsOf(table[s], files[n].id) # {}
  /\ files[n].model /\ ~files[n].locked /\ files[n].task = NoSession
  /\ files' = [files EXCEPT ![n].task = s]
  /\ UNCHANGED <<phoneVars, exitVars, agentVars, clientVars>>

-----------------------------------------------------------------------------
(* Active objects of the server. *)

\* The task ends: it has built the indexes, from the index file if there is
\* one, or has changed entries, which makes the index file out of date.
TaskEnds(n) ==
  /\ IsOpen(n) /\ files[n].task # NoSession /\ files[n].model
  /\ \/ /\ files[n].indexes = "none"
        /\ files' = [files EXCEPT ![n].task = NoSession, ![n].indexes =
                       IF indexFile[n] = 0 THEN "dirty" ELSE "saved"]
        /\ UNCHANGED indexFile
     \/ /\ files[n].indexes # "none"
        /\ files' = [files EXCEPT ![n].task = NoSession, ![n].indexes = "dirty"]
        /\ indexFile' = [indexFile EXCEPT ![n] = 0]
  /\ UNCHANGED <<engine, disk, exitVars, agentVars, clientVars>>

\* A task that the end of a restore the server did not see start left running.
TaskWithoutModel(n) ==
  /\ IsOpen(n) /\ files[n].task # NoSession /\ ~files[n].model
  /\ ServerEnds("panic")

\* The delay of a close is over.  The last file asks the server to shut down.
CloseTimerFires(n) ==
  /\ TimerOn(files, n)
  /\ files' = [files EXCEPT ![n] = Closed] /\ indexFile' = SavedIndexes(files')
  /\ IF OpenNames = {n} THEN ShutdownServer(iSessionCount, files')
     ELSE UNCHANGED undertaker
  /\ UNCHANGED <<engine, disk, server, lastExit, iSessionCount, agentVars, clientVars>>

UndertakerRuns ==
  /\ undertaker.active
  /\ \/ ~undertaker.cancelled /\ ServerEnds("undertaker")
     \/ /\ undertaker.cancelled
        /\ undertaker' = [undertaker EXCEPT !.active = FALSE]
        /\ UNCHANGED <<phoneVars, server, lastExit, iSessionCount, files,
                       agentVars, clientVars>>

-----------------------------------------------------------------------------
(* Backup and restore: the agent's RunL, when the engine's state changed.   *)
(* States the engine left before the agent ran are not seen.               *)

\* BackupRestoreLock of a file sets or clears the lock of every session.
LockSessions(fs, lock) ==
  iBackupRestoreLock' =
    IF \A n \in FileNames : fs[n] = Closed THEN iBackupRestoreLock
    ELSE [s \in Sessions |-> lock /\ session[s] = "open"]

AgentSees(state) ==
  /\ server = "up" /\ agentSignalled /\ engine = state
  /\ agentSignalled' = FALSE /\ iCurrentState' = state

\* The files CloseScheduledFilesImmediately leaves.
StillReferenced == [n \in FileNames |-> IF TimerOn(files, n) THEN Closed ELSE files[n]]
\* Faulty variant: only the files every session has open.
TaskCancelledIfShared(n) ==
  \A s \in Connected : ClientsOf(table[s], files[n].id) # {}
\* BackupRestoreCancelTask reaches the files in the tables of all sessions.
TaskCancelled(n) == \E s \in Connected : ClientsOf(table[s], files[n].id) # {}
Locked(fs, kind) ==
  [n \in FileNames |->
    IF fs[n] = Closed THEN Closed
    ELSE [fs[n] EXCEPT
            !.locked = TRUE,
            !.store = IF kind = "backup" THEN "detached" ELSE "none",
            !.task = IF TaskCancelled(n) THEN NoSession ELSE @,
            !.indexes = IF kind = "restore" /\ @ # "none" THEN "dirty" ELSE @]]
\* Nothing to detach: the store went with a restore whose end was not seen.
StartPanics(fs, kind) ==
  \E n \in FileNames : /\ fs[n] # Closed
                       /\ ~fs[n].model \/ (kind = "backup" /\ fs[n].store = "none")

\* EBackupStart or ERestoreStart reaches every file, and every session's entry.
BackupRestoreStarts(kind) ==
  LET fs == StillReferenced
      toldOf(t) == {FindL(t, fs[n].id) : n \in {m \in FileNames : fs[m] # Closed}} IN
  /\ AgentSees(kind) /\ iCurrentState # kind
  /\ ~StartPanics(fs, kind)
  /\ iBackupRestoreInProgress' = TRUE
  /\ files' = Locked(fs, kind)
  /\ indexFile' = [n \in FileNames |-> IF kind = "restore" /\ fs[n] # Closed THEN 0
                                        ELSE SavedIndexes(fs)[n]]
  /\ IF FileCloseTimersRunning(files) THEN ShutdownServer(iSessionCount, fs)
     ELSE UNCHANGED undertaker
  /\ LockSessions(fs, TRUE)
  /\ table' = [s \in Sessions |-> [i \in Positions(table[s]) |->
                 [table[s][i] EXCEPT !.told = @ \/ i \in toldOf(table[s])]]]
  /\ UNCHANGED <<engine, disk, server, lastExit, iSessionCount, unopenable, session>>

StartWithoutStore(kind) ==
  /\ server = "up" /\ agentSignalled /\ engine = kind /\ iCurrentState # kind
  /\ StartPanics(StillReferenced, kind)
  /\ ServerEnds("panic")

BackupEnds ==
  LET toldOf(t) == {FindL(t, files[n].id) : n \in OpenNames} IN
  /\ AgentSees("normal") /\ iCurrentState = "backup"
  /\ \A n \in OpenNames : files[n].model
  /\ iBackupRestoreInProgress' = FALSE
  /\ files' = [n \in FileNames |->
        IF IsOpen(n) THEN [files[n] EXCEPT !.locked = FALSE, !.store = "open"] ELSE Closed]
  /\ LockSessions(files, FALSE)
  /\ table' = [s \in Sessions |-> [i \in Positions(table[s]) |->
                 [table[s][i] EXCEPT !.told = @ /\ i \notin toldOf(table[s])]]]
  /\ UNCHANGED <<phoneVars, exitVars, unopenable, session>>

IsLastInList(n) == \A m \in OpenNames : files[m].coll <= files[n].coll

\* Faulty variant: the file stays locked.
ReopenedLocked(n) ==
  [files[n] EXCEPT !.id = disk[n], !.store = "open"]
\* The file after ReopenAgendaAfterRestoreL.
Reopened(n) ==
  [files[n] EXCEPT !.id = disk[n], !.locked = FALSE, !.store = "open",
                   !.indexes = IF @ = "none" THEN @
                               ELSE IF indexFile[n] = 0 THEN "dirty" ELSE "saved"]
\* The file that cannot be opened loses one reference, and closes with the last.
Unopenable(n) ==
  IF files[n].ref <= 1 THEN Closed
  ELSE [files[n] EXCEPT !.ref = @ - 1, !.locked = FALSE, !.store = "none", !.model = FALSE]

\* A session's table t is told the end of the restore of the calendar with
\* collection id k, when there is one; those in bad cannot be opened.
TellRestored(t, k, bad) ==
  IF \A n \in OpenNames : files[n].coll # k THEN t
  ELSE LET n == CHOOSE n \in OpenNames : files[n].coll = k IN
       IF n \in bad THEN AddChange(t, files[n].id, FALSE)
       ELSE ReSetModel(t, files[n].id, disk[n])
\* All calendars of the list in its order, which is that of the collection ids.
ToldOfRestore(t, bad) ==
  LET told[k \in 0..KMaxTUint8] ==
        IF k = 0 THEN t ELSE TellRestored(told[k - 1], k, bad)
  IN told[KMaxTUint8]

\* ERestoreEnd; the calendars in bad cannot be opened.  After such a file the
\* loop over the list has no case for the next one.
RestoreEnds(bad) ==
  /\ AgentSees("normal") /\ iCurrentState = "restore"
  /\ \A n \in OpenNames : files[n].model /\ disk[n] # 0
  /\ \A n \in bad : IsLastInList(n)
  /\ iBackupRestoreInProgress' = FALSE
  /\ files' = [n \in FileNames |-> IF ~IsOpen(n) THEN Closed
                                   ELSE IF n \in bad THEN Unopenable(n) ELSE Reopened(n)]
  /\ IF OpenNames # {} /\ \A n \in FileNames : files'[n] = Closed
     THEN ShutdownServer(iSessionCount, files') ELSE UNCHANGED undertaker
  /\ LockSessions(files, FALSE)
  /\ table' = [s \in Sessions |-> ToldOfRestore(table[s], bad)]
  /\ unopenable' = unopenable \cup bad
  /\ UNCHANGED <<phoneVars, server, lastExit, iSessionCount, session>>

EndWithoutModel(bad) ==
  /\ server = "up" /\ agentSignalled /\ engine = "normal"
  /\ \/ iCurrentState = "restore" /\ \E n \in bad : ~IsLastInList(n)
     \/ iCurrentState # "normal" /\ \E n \in OpenNames : ~files[n].model
  /\ ServerEnds("panic")

\* Nothing to do: the states between were not seen.
AgentSeesNoChange ==
  /\ AgentSees(iCurrentState)
  /\ UNCHANGED <<phoneVars, exitVars, files, iBackupRestoreInProgress, unopenable,
                 clientVars>>

AgentRuns ==
  \/ \E kind \in Engines : BackupRestoreStarts(kind) \/ StartWithoutStore(kind)
  \/ BackupEnds
  \/ \E bad \in SUBSET OpenNames : RestoreEnds(bad) \/ EndWithoutModel(bad)
  \/ AgentSeesNoChange

(* The backup engine (external): publishes its state and, in a restore,     *)
(* replaces the calendars that are not held open, with or without indexes.  *)
EngineChanges(state) ==
  /\ engine # state /\ "normal" \in {engine, state}
  /\ engine' = state /\ agentSignalled' = (server = "up")
  /\ UNCHANGED <<disk, indexFile, exitVars, files, iCurrentState,
                 iBackupRestoreInProgress, unopenable, clientVars>>

EngineRestores(n) ==
  /\ engine = "restore"
  /\ IsOpen(n) => files[n].store # "open"
  /\ \E id \in IdsOf[n] :
       /\ disk' = [disk EXCEPT ![n] = id]
       /\ \E saved \in {0, id} : indexFile' = [indexFile EXCEPT ![n] = saved]
  /\ UNCHANGED <<engine, exitVars, files, agentVars, clientVars>>

-----------------------------------------------------------------------------
Request(s) ==
  \/ \E c \in Clients :
       \/ \E n \in FileNames : \/ OpenAgenda(s, c, n) \/ OpenFails(s, c, n)
                               \/ OpenWithoutModel(s, c, n)
                               \/ DeleteAgendaFile(s, c, n)
       \/ CloseAgendaOf(s, c)
       \/ RequestFileNotification(s, c) \/ CancelFileNotification(s, c)
  \/ \E n \in FileNames : CreateAgendaFile(s, n) \/ StartTask(s, n)

Next ==
  \/ \E s \in Sessions : \/ ConnectAndStart(s) \/ Connect(s) \/ Request(s)
                        \/ SessionEnds(s) \/ CloseWithoutModel(s)
  \/ \E n \in FileNames : \/ TaskEnds(n) \/ TaskWithoutModel(n)
                          \/ CloseTimerFires(n) \/ EngineRestores(n)
  \/ UndertakerRuns \/ AgentRuns
  \/ \E state \in Engines \cup {"normal"} : EngineChanges(state)

\* The server's active objects run when they are ready (the agent's RunL answers
\* its signal).  Clients and the engine need not do anything.
AgentAnswers == server = "up" /\ agentSignalled /\ agentSignalled' = FALSE
Fairness ==
  /\ \A n \in FileNames : WF_vars(TaskEnds(n)) /\ WF_vars(CloseTimerFires(n))
  /\ WF_vars(UndertakerRuns) /\ WF_agentSignalled(AgentAnswers)

Spec == Init /\ [][Next]_vars
FairSpec == Spec /\ Fairness

-----------------------------------------------------------------------------
(* Properties.                                                             *)

\* The server counts its sessions right, and its undertaker, once it is sure
\* to delete the server, finds no session, no reference to a calendar and no
\* close that is still delayed: a client that connects, opens a calendar or
\* ends between the last close and the undertaker's turn is not cut off.
ExitOnlyWhenUnused ==
  /\ iSessionCount = Cardinality(Connected)
  /\ undertaker.active /\ ~undertaker.cancelled =>
       /\ Connected = {}
       /\ ~FileCloseTimersRunning(files)
       /\ \A n \in OpenNames : files[n].ref = 0

\* An open calendar has as many references as clients have it open, through
\* opens, closes, deletes, ends of sessions and restores that change its id.
\* (Of a calendar whose restore failed the server drops one reference itself.)
Users(tables, id) ==
  {u \in Sessions \X Clients :
     \E i \in Positions(tables[u[1]]) :
       tables[u[1]][i].client = u[2] /\ tables[u[1]][i].id = id}
ReferencesAgree ==
  \A n \in OpenNames \ unopenable :
    files[n].ref = Cardinality(Users(table, files[n].id))

\* Between the start and the end of a backup or restore that the agent saw, all
\* files in the list are locked and given up to the engine; otherwise none is.
FilesFollowAgent ==
  \A n \in OpenNames :
    /\ files[n].locked = iBackupRestoreInProgress
    /\ files[n].model =>
         files[n].store = IF ~iBackupRestoreInProgress THEN "open"
                          ELSE IF iCurrentState = "backup" THEN "detached" ELSE "none"

\* No task of a client runs on a file that is given up to the engine.
NoTaskWhileClosed ==
  \A n \in OpenNames :
    files[n].task # NoSession /\ files[n].model => files[n].store = "open"

\* The clients told of the start of a backup or restore have been told of its
\* end when it is over for the server.
EndIsTold ==
  ~iBackupRestoreInProgress =>
    \A s \in Sessions : \A i \in Positions(table[s]) :
      table[s][i].told => \A n \in NamesWith(table[s][i].id) : n \in unopenable

\* The search in the table of session files finds every calendar a client of
\* the session has open, at its one entry (as long as nobody watches the
\* calendar files and no restore changes an id, see README).
LookupFindsEntry ==
  \A s \in Sessions : \A i \in Positions(table[s]) :
    table[s][i].id # KNullFileId => FindL(table[s], table[s][i].id) = i

\* The collection ids by which requests name a calendar are those of one file
\* each, also when files close in another order than they were opened.
CollectionIdsUnique ==
  \A m, n \in OpenNames : m # n => files[m].coll # files[n].coll

\* A server that no client uses ends itself.
UnusedServerExits ==
  (server = "up" /\ Connected = {}) ~> (server = "down" \/ Connected # {})

\* When the engine is done for good the calendars do not stay locked.
FilesAreUnlocked ==
  <>[](engine = "normal") => <>[](\A n \in OpenNames : ~files[n].locked)

-----------------------------------------------------------------------------
(* Statements of the sources that the code does not keep.                  *)

\* "When the backup event is completed, the Calendar file is unlocked.  The
\* application can continue" (calchangecallback.h): no session stays locked.
SessionsUnlockedAfterEnd ==
  ~iBackupRestoreInProgress => \A s \in Sessions : ~iBackupRestoreLock[s]

\* When a restored calendar cannot be opened, closing the session is one of the
\* operations that stay permitted (calchangecallback.h): no client is left with
\* an entry whose close ends the server with a panic.
ClosingStaysSafe ==
  \A s \in Connected : \A i \in Positions(table[s]) : ~LookupPanics(table[s][i].id)

\* "If this file has been opened by a different CCalSession object"
\* (CAgnServerSession::OpenAgendaL): the open is refused, so that two clients
\* of one session never have the same calendar.
OpenedOnce ==
  \A s \in Sessions : \A n \in OpenNames :
    \A i, j \in ClientsOf(table[s], files[n].id) : i = j
=============================================================================
