--------------------------- MODULE AgnAlarmQueue ---------------------------
(***************************************************************************)
(* The alarms of the calendars.  For each open calendar the agenda server  *)
(* keeps the next alarm of its entries queued at the alarm server, as the  *)
(* alarm of its own session (CAgnAlarmActive), and queues another when it  *)
(* goes off or the entries change.  A calendar that closes leaves its next *)
(* alarms with the alarm server as orphans; they are deleted when it has   *)
(* been opened again and its indexes are built.                            *)
(*                                                                         *)
(* A handler of the agenda server is one step.  The alarm server is        *)
(* external.  An entry's alarm is one instant, at which its instance also  *)
(* starts; the clock counts in ticks and is not set.                       *)
(***************************************************************************)
EXTENDS Naturals

CONSTANTS Files,        \* the calendar files
          Ids,          \* the ids of entries, the same numbers in every file
          IdsIn,        \* the ids entries of each file can have
          Clients,      \* the clients that change several entries at once
          FileOf,       \* the file each of them does that in
          Ops,          \* which of the operations below are called
          KSkip,        \* 2 s: how far ahead a search for the next starts
          KFewSkip,     \* 1 s: the same when a calendar closes
          KSnooze,      \* for how long the user puts off an alarm
          KDay,         \* a day
          KWindows,     \* the further searches, of ten days each
          KMaxCopies,   \* bound: copies of one alarm at the alarm server
          MaxAlarm,     \* bound: the latest alarm
          MaxTime       \* bound: where the clock stops

Operations == {"add", "update", "strip", "move", "delete", "batch", "die",
               "info", "shutdown", "snooze"}
ASSUME FilesAssumption == IdsIn \in [Files -> SUBSET Ids] /\ FileOf \in [Clients -> Files]
ASSUME OpsAssumption   == Ops \subseteq Operations
ASSUME TimesAssumption ==
  /\ KSkip \in Nat /\ KFewSkip \in Nat /\ KSnooze \in Nat \ {0}
  /\ KDay \in Nat \ {0} /\ KWindows \in Nat /\ KMaxCopies \in Nat
  /\ MaxAlarm \in Nat /\ MaxTime \in Nat

VARIABLES
  now,              \* the time
  (* the agenda server *)
  fileState,        \* "closed", "opened", "built"
  entries,          \* the entries in each file
  alarmTime,        \* their alarms, 0 for none
  iUpdateAlarm,     \* of each file, TRUE for one that is not open
  batch,            \* the clients that have stopped the alarm updates
  iShutdownNotification,
  alarmQueue,       \* CAgnAlarmActive: [list, time, current, request, session]
  (* the alarm server, external *)
  orphans,          \* the copies of each alarm that belong to no session
  snoozed,          \* the alarms the user has put off
  (* history *)
  rang,             \* the alarms that have gone off
  disturbed         \* the times a search for the next alarm came too late for

entryVars  == <<entries, alarmTime>>
fileVars   == <<fileState, iShutdownNotification>>
updateVars == <<iUpdateAlarm, batch>>
queueVars  == <<alarmQueue, orphans, snoozed, disturbed>>
vars == <<now, fileVars, entryVars, updateVars, queueVars, rang>>

Times   == 1..MaxAlarm
Late    == 1..(MaxTime + KSnooze)
OpenFiles == {f \in Files : fileState[f] # "closed"}
Built(f)  == fileState[f] = "built"

\* The alarms with the list's time that have not gone off, the one of them that
\* is queued, the status of the request for it, and the session's alarms that
\* the alarm server holds.
AlarmQueue == [list : SUBSET Ids, time : 0..MaxAlarm, current : SUBSET Ids,
               request : {"none", "pending", "KErrNone", "KErrCancel"},
               session : SUBSET (Ids \X Times)]
Empty == [list |-> {}, time |-> 0, current |-> {}, request |-> "none", session |-> {}]

TypeOK ==
  /\ now \in 0..MaxTime
  /\ fileState \in [Files -> {"closed", "opened", "built"}]
  /\ entries \in [Files -> SUBSET Ids]
  /\ alarmTime \in [Files -> [Ids -> 0..MaxAlarm]]
  /\ iUpdateAlarm \in [Files -> BOOLEAN]
  /\ batch \in SUBSET Clients
  /\ iShutdownNotification \in [Files -> BOOLEAN]
  /\ alarmQueue \in [Files -> AlarmQueue]
  /\ orphans \in [Files -> [Ids \X Times -> 0..KMaxCopies]]
  /\ snoozed \in [Files -> SUBSET (Ids \X Late)]
  /\ rang \in [Files -> SUBSET (Ids \X Times)]
  /\ disturbed \in [Files -> SUBSET Times]

Init ==
  /\ now = 0
  /\ fileState = [f \in Files |-> "closed"]
  /\ entries = [f \in Files |-> {}]
  /\ alarmTime = [f \in Files |-> [e \in Ids |-> 0]]
  /\ iUpdateAlarm = [f \in Files |-> TRUE]
  /\ batch = {}
  /\ iShutdownNotification = [f \in Files |-> FALSE]
  /\ alarmQueue = [f \in Files |-> Empty]
  /\ orphans = [f \in Files |-> [a \in Ids \X Times |-> 0]]
  /\ snoozed = [f \in Files |-> {}]
  /\ rang = [f \in Files |-> {}] /\ disturbed = [f \in Files |-> {}]

-----------------------------------------------------------------------------
(* The search for alarms, among the alarm times of a file's entries.       *)

Midnight(t) == t - (t % KDay)
\* FindInstancesL in the k-th range of days that NextAlarmForServerL tries.
Found(times, from, k) ==
  {e \in Ids :
     /\ times[e] # 0
     /\ IF k = 0 THEN times[e] + KDay >= Midnight(from) /\ times[e] <= from + 2 * KDay
        ELSE /\ times[e] >= from + 2 * KDay + 10 * KDay * (k - 1)
             /\ times[e] <= from + 2 * KDay + 10 * KDay * k}
\* The next ten days are searched as long as no alarm at all was found.
FindInstances(times, from) ==
  UNION {Found(times, from, k) : k \in {n \in 0..KWindows :
                                   \A j \in 0..KWindows : j < n => Found(times, from, j) = {}}}
\* NextAlarmForServerL: the entries whose alarms are the first after from.
NextAlarms(times, from) ==
  {e \in FindInstances(times, from) :
     /\ times[e] > from
     /\ \A x \in FindInstances(times, from) : times[x] > from => times[e] <= times[x]}
\* NextFewAlarmsForServerL, 31 days ahead; the number of alarms is not limited.
FewAlarms(times, from) ==
  {e \in Ids : times[e] > from /\ times[e] <= now + 31 * KDay}

(* CAgnAlarmActive. *)

\* Cancel: the alarm server forgets the alarm that was queued last.
Cancelled(q) ==
  IF q.request = "none" THEN q
  ELSE [q EXCEPT !.request = "none",
                 !.session = @ \ {<<e, q.time>> : e \in q.current}]

\* Faulty variant: nothing before the last alarm is looked at.
SearchFromLast(q, skip) == IF q.list # {} /\ now < q.time THEN q.time ELSE now
\* The last alarm counts as gone off when it is due within the skip.
SearchFrom(q, skip) == IF q.list # {} /\ now < q.time THEN now + skip ELSE now

\* Faulty variant: the request for the last alarm is left as it is.
QueuedWithoutCancel(q, list, times, e) ==
  [list |-> list, time |-> times[e], current |-> {e}, request |-> "pending",
   session |-> q.session \cup {<<e, times[e]>>}]
\* AlarmAddWithNotification for entry e of the list.
QueuedFirst(q, list, times, e) ==
  [list |-> list, time |-> times[e], current |-> {e}, request |-> "pending",
   session |-> Cancelled(q).session \cup {<<e, times[e]>>}]

\* Faulty variant: the last alarm again when there is no next one.
NextQueuedOrLast(q, times) ==
  LET next == NextAlarms(times, SearchFrom(q, KSkip)) IN
  IF next = {} THEN {QueuedFirst(q, q.list, times, e) : e \in q.list}
                    \cup {x \in {Cancelled(q)} : q.list = {}}
  ELSE {QueuedFirst(q, next, times, e) : e \in next}
\* FindAndQueueNextAlarmL.  The alarms of one time are in the order of their
\* instance ids, which is any order.
NextQueued(q, times) ==
  LET next == NextAlarms(times, SearchFrom(q, KSkip)) IN
  IF next = {} THEN {[Cancelled(q) EXCEPT !.list = {}, !.time = 0, !.current = {}]}
  ELSE {QueuedFirst(q, next, times, e) : e \in next}

\* FindAndQueueNextFewAlarmsL: one more orphan for each of the alarms.
FewQueued(f) ==
  LET from == SearchFrom(alarmQueue[f], KFewSkip)
      few  == IF Built(f) THEN FewAlarms(alarmTime[f], from) ELSE {} IN
  [a \in Ids \X Times |->
     IF a[1] \in few /\ a[2] = alarmTime[f][a[1]] THEN orphans[f][a] + 1 ELSE orphans[f][a]]
CopiesBound(f) == \A a \in Ids \X Times : orphans[f][a] < KMaxCopies

\* What a search for the next alarm at this time no longer finds.
TooLate(f, times) ==
  {t \in Times : t <= now + KSkip /\ \E e \in Ids : times[e] = t /\ <<e, t>> \notin rang[f]}
Disturbs(f, times) == disturbed' = [disturbed EXCEPT ![f] = @ \cup TooLate(f, times)]

\* DeleteEntriesAlarmL compares the entry ids of all alarms of the category.
WithoutEntry(q, e) ==
  [q EXCEPT !.session = {a \in @ : a[1] # e},
            !.request = IF @ = "pending" /\ e \in q.current THEN "KErrCancel" ELSE @]
DeleteEntriesAlarm(e) ==
  /\ orphans' = [f \in Files |-> [a \in Ids \X Times |-> IF a[1] = e THEN 0 ELSE orphans[f][a]]]
  /\ snoozed' = [f \in Files |-> {a \in snoozed[f] : a[1] # e}]

-----------------------------------------------------------------------------
(* Calendars open and close. *)

OpenAgenda(f) ==
  /\ fileState[f] = "closed"
  /\ fileState' = [fileState EXCEPT ![f] = "opened"]
  /\ UNCHANGED <<now, iShutdownNotification, entryVars, updateVars, queueVars, rang>>

\* Faulty variant: the alarms that were left before stay.
BuildIndexKeepsAlarms(f) ==
  /\ fileState[f] = "opened"
  /\ fileState' = [fileState EXCEPT ![f] = "built"]
  /\ \E q \in NextQueued(alarmQueue[f], alarmTime[f]) :
       alarmQueue' = [alarmQueue EXCEPT ![f] = q]
  /\ Disturbs(f, alarmTime[f])
  /\ UNCHANGED <<now, iShutdownNotification, entryVars, updateVars, orphans, snoozed, rang>>

\* BuildIndexCompleteL: the alarms of the file, left at its last close, are
\* deleted, and its next alarm is queued.
BuildIndexComplete(f) ==
  /\ fileState[f] = "opened"
  /\ fileState' = [fileState EXCEPT ![f] = "built"]
  /\ \E q \in NextQueued(alarmQueue[f], alarmTime[f]) :
       alarmQueue' = [alarmQueue EXCEPT ![f] = q]
  /\ orphans' = [orphans EXCEPT ![f] = [a \in Ids \X Times |-> 0]]
  /\ snoozed' = [snoozed EXCEPT ![f] = {}]
  /\ Disturbs(f, alarmTime[f])
  /\ UNCHANGED <<now, iShutdownNotification, entryVars, updateVars, rang>>

\* CloseAgendaImmediately; the alarms are not queued again during a shutdown.
CloseAgenda(f) ==
  /\ fileState[f] # "closed" /\ f \notin {FileOf[c] : c \in batch}
  /\ fileState' = [fileState EXCEPT ![f] = "closed"]
  /\ alarmQueue' = [alarmQueue EXCEPT ![f] = Empty]
  /\ IF iShutdownNotification[f] THEN UNCHANGED orphans
     ELSE CopiesBound(f) /\ orphans' = [orphans EXCEPT ![f] = FewQueued(f)]
  /\ iShutdownNotification' = [iShutdownNotification EXCEPT ![f] = FALSE]
  /\ iUpdateAlarm' = [iUpdateAlarm EXCEPT ![f] = TRUE]
  /\ Disturbs(f, alarmTime[f])
  /\ UNCHANGED <<now, entryVars, batch, snoozed, rang>>

-----------------------------------------------------------------------------
(* Entries change. *)

\* AddEntryL: entry e with the alarm t.
AddEntry(f, e, t) ==
  LET times == [alarmTime[f] EXCEPT ![e] = t] IN
  /\ "add" \in Ops /\ Built(f) /\ e \in IdsIn[f] \ entries[f]
  /\ entries' = [entries EXCEPT ![f] = @ \cup {e}]
  /\ alarmTime' = [alarmTime EXCEPT ![f] = times]
  /\ IF iUpdateAlarm[f] /\ t # 0
     THEN /\ \E q \in NextQueued(alarmQueue[f], times) :
               alarmQueue' = [alarmQueue EXCEPT ![f] = q]
          /\ Disturbs(f, times)
     ELSE UNCHANGED <<alarmQueue, disturbed>>
  /\ UNCHANGED <<now, fileVars, updateVars, orphans, snoozed, rang>>

\* Which updates are made: of the alarm, of one without or to one without an
\* alarm, or one that moves the entry to another stream, with another id.
Update(f, e, moved, t) ==
  \/ "update" \in Ops /\ moved = e /\ t # 0
  \/ "strip" \in Ops /\ moved = e /\ t = 0
  \/ "move" \in Ops /\ moved \in IdsIn[f] \ entries[f]

\* UpdateEntryL: the alarms of the entry are deleted, by the id it has now; the
\* next is searched for when the entry has an alarm.
UpdateEntry(f, e, moved, t) ==
  LET times == [alarmTime[f] EXCEPT ![e] = 0, ![moved] = t]
      had   == alarmTime[f][e] # 0
      after == IF had THEN [g \in Files |-> WithoutEntry(alarmQueue[g], moved)] ELSE alarmQueue IN
  /\ Built(f) /\ e \in entries[f] /\ Update(f, e, moved, t)
  /\ entries' = [entries EXCEPT ![f] = (@ \ {e}) \cup {moved}]
  /\ alarmTime' = [alarmTime EXCEPT ![f] = times]
  /\ IF had THEN DeleteEntriesAlarm(moved) ELSE UNCHANGED <<orphans, snoozed>>
  /\ IF iUpdateAlarm[f] /\ t # 0
     THEN /\ \E q \in NextQueued(after[f], times) : alarmQueue' = [after EXCEPT ![f] = q]
          /\ Disturbs(f, times)
     ELSE alarmQueue' = after /\ UNCHANGED disturbed
  /\ UNCHANGED <<now, fileVars, updateVars, rang>>

\* Faulty variant: only the next alarm is looked at.
DeleteEntryOnly(f, e) ==
  LET times == [alarmTime[f] EXCEPT ![e] = 0] IN
  /\ "delete" \in Ops /\ Built(f) /\ e \in entries[f]
  /\ entries' = [entries EXCEPT ![f] = @ \ {e}]
  /\ alarmTime' = [alarmTime EXCEPT ![f] = times]
  /\ IF iUpdateAlarm[f] /\ alarmTime[f][e] # 0
     THEN /\ \E q \in NextQueued(alarmQueue[f], times) :
               alarmQueue' = [alarmQueue EXCEPT ![f] = q]
          /\ Disturbs(f, times)
     ELSE UNCHANGED <<alarmQueue, disturbed>>
  /\ UNCHANGED <<now, fileVars, updateVars, orphans, snoozed, rang>>

\* Faulty variant: the alarms are deleted and no next one is searched for.
DeleteEntryUnlisted(f, e) ==
  LET times == [alarmTime[f] EXCEPT ![e] = 0] IN
  /\ "delete" \in Ops /\ Built(f) /\ e \in entries[f]
  /\ entries' = [entries EXCEPT ![f] = @ \ {e}]
  /\ alarmTime' = [alarmTime EXCEPT ![f] = times]
  /\ IF iUpdateAlarm[f] /\ alarmTime[f][e] # 0
     THEN /\ alarmQueue' = [g \in Files |-> WithoutEntry(alarmQueue[g], e)]
          /\ DeleteEntriesAlarm(e)
     ELSE UNCHANGED <<alarmQueue, orphans, snoozed>>
  /\ UNCHANGED <<now, fileVars, updateVars, rang, disturbed>>

\* DeleteEntryL.
DeleteEntry(f, e) ==
  LET times == [alarmTime[f] EXCEPT ![e] = 0] IN
  /\ "delete" \in Ops /\ Built(f) /\ e \in entries[f]
  /\ entries' = [entries EXCEPT ![f] = @ \ {e}]
  /\ alarmTime' = [alarmTime EXCEPT ![f] = times]
  /\ IF iUpdateAlarm[f] /\ alarmTime[f][e] # 0
     THEN /\ \E q \in NextQueued(alarmQueue[f], times) :
               alarmQueue' = [g \in Files |->
                 WithoutEntry(IF g = f THEN q ELSE alarmQueue[g], e)]
          /\ DeleteEntriesAlarm(e)
          /\ Disturbs(f, times)
     ELSE UNCHANGED queueVars
  /\ UNCHANGED <<now, fileVars, updateVars, rang>>

(* A client changes several entries: the searches are put off to the end.  *)

StopAlarmUpdates(c) ==
  /\ "batch" \in Ops /\ Built(FileOf[c]) /\ c \notin batch
  /\ batch' = batch \cup {c}
  /\ iUpdateAlarm' = [iUpdateAlarm EXCEPT ![FileOf[c]] = FALSE]
  /\ UNCHANGED <<now, fileVars, entryVars, queueVars, rang>>

ResetAlarmUpdates(c) ==
  LET f == FileOf[c] IN
  /\ c \in batch
  /\ batch' = batch \ {c}
  /\ iUpdateAlarm' = [iUpdateAlarm EXCEPT ![f] = TRUE]
  /\ \E q \in NextQueued(alarmQueue[f], alarmTime[f]) :
       alarmQueue' = [alarmQueue EXCEPT ![f] = q]
  /\ Disturbs(f, alarmTime[f])
  /\ UNCHANGED <<now, fileVars, entryVars, orphans, snoozed, rang>>

\* The client ends in between: nobody resets the alarm updates.
ClientDies(c) ==
  /\ "die" \in Ops /\ c \in batch
  /\ batch' = batch \ {c}
  /\ UNCHANGED <<now, fileVars, entryVars, iUpdateAlarm, queueVars, rang>>

\* SetCalendarInfoL for a calendar that is enabled, whatever it changes.
SetCalendarInfo(f) ==
  /\ "info" \in Ops /\ fileState[f] # "closed" /\ CopiesBound(f)
  /\ orphans' = [orphans EXCEPT ![f] = FewQueued(f)]
  /\ alarmQueue' = [alarmQueue EXCEPT ![f] = Cancelled(@)]
  /\ Disturbs(f, alarmTime[f])
  /\ UNCHANGED <<now, fileVars, entryVars, updateVars, snoozed, rang>>

-----------------------------------------------------------------------------
(* The phone is shut down, or is not after all. *)

\* The files whose close was delayed, closing, close now.
QueueAlarmsImmediatelyForShutdown(closing) ==
  /\ "shutdown" \in Ops /\ OpenFiles # {}
  /\ \A f \in OpenFiles : ~iShutdownNotification[f] /\ CopiesBound(f)
  /\ closing \cap {FileOf[c] : c \in batch} = {}
  /\ orphans' = [f \in Files |-> IF f \in OpenFiles THEN FewQueued(f) ELSE orphans[f]]
  /\ alarmQueue' = [f \in Files |-> IF f \in closing THEN Empty ELSE Cancelled(alarmQueue[f])]
  /\ fileState' = [f \in Files |-> IF f \in closing THEN "closed" ELSE fileState[f]]
  /\ iShutdownNotification' = [f \in Files |-> f \in OpenFiles \ closing]
  /\ iUpdateAlarm' = [f \in Files |-> iUpdateAlarm[f] \/ f \in closing]
  /\ disturbed' = [f \in Files |-> disturbed[f] \cup TooLate(f, alarmTime[f])]
  /\ UNCHANGED <<now, entryVars, batch, snoozed, rang>>

\* For each file the alarms of all files are deleted before its own next alarm
\* is queued: only the last one's stays.
RequeueAlarmsForShutdownCancellation(last) ==
  LET lost(q) == [q EXCEPT !.session = {},
                           !.request = IF @ = "pending" THEN "KErrCancel" ELSE @]
      choices == [f \in Files |-> IF Built(f) THEN NextQueued(lost(alarmQueue[f]), alarmTime[f])
                                  ELSE {Cancelled(alarmQueue[f])}] IN
  /\ "shutdown" \in Ops /\ last \in OpenFiles
  /\ \E f \in OpenFiles : iShutdownNotification[f]
  /\ \E qs \in [Files -> UNION {choices[f] : f \in Files}] :
       /\ \A f \in Files : qs[f] \in choices[f]
       /\ alarmQueue' = [f \in Files |-> IF f = last THEN qs[f] ELSE lost(qs[f])]
  /\ orphans' = [f \in Files |-> [a \in Ids \X Times |-> 0]]
  /\ snoozed' = [f \in Files |-> {}]
  /\ iShutdownNotification' = [f \in Files |-> FALSE]
  /\ disturbed' = [f \in Files |-> disturbed[f] \cup TooLate(f, alarmTime[f])]
  /\ UNCHANGED <<now, fileState, entryVars, updateVars, rang>>

-----------------------------------------------------------------------------
(* The request for the session's alarm completes: CAgnAlarmActive::RunL.   *)

\* Faulty variant: the others of the same time are not looked at.
AlarmHasExpiredAlone(f) ==
  LET q == alarmQueue[f] IN
  /\ q.request = "KErrNone"
  /\ \E next \in NextQueued([q EXCEPT !.request = "none"], alarmTime[f]) :
       alarmQueue' = [alarmQueue EXCEPT ![f] = next]
  /\ disturbed' = [disturbed EXCEPT ![f] = @ \cup {t \in Times : q.time < t /\ t <= now}]
  /\ UNCHANGED <<now, fileVars, entryVars, updateVars, orphans, snoozed, rang>>

\* The alarm has gone off: the next of the same time is queued, it goes off at
\* once; after the last of them the next alarm is searched for.
AlarmHasExpired(f) ==
  LET q    == alarmQueue[f]
      rest == q.list \ q.current
      done == [q EXCEPT !.request = "none"] IN
  /\ q.request = "KErrNone"
  /\ \/ \E e \in rest \cap entries[f] :
          /\ alarmQueue' = [alarmQueue EXCEPT ![f] =
               [done EXCEPT !.list = rest, !.current = {e}, !.request = "pending",
                            !.session = @ \cup {<<e, q.time>>}]]
          /\ UNCHANGED disturbed
     \/ /\ rest = {}
        /\ \E next \in NextQueued(done, alarmTime[f]) :
             alarmQueue' = [alarmQueue EXCEPT ![f] = next]
        /\ disturbed' = [disturbed EXCEPT ![f] = @ \cup {t \in Times : q.time < t /\ t <= now}]
  /\ UNCHANGED <<now, fileVars, entryVars, updateVars, orphans, snoozed, rang>>

\* The next alarm in the list is that of an entry deleted since: RunL leaves, and
\* that ends the server.  The alarms of its session end with it.
AlarmOfDeletedEntry(f) ==
  LET q == alarmQueue[f] IN
  /\ q.request = "KErrNone"
  /\ \E e \in q.list \ q.current : e \notin entries[f]
  /\ fileState' = [g \in Files |-> "closed"]
  /\ alarmQueue' = [g \in Files |-> Empty]
  /\ batch' = {}
  /\ iShutdownNotification' = [g \in Files |-> FALSE]
  /\ iUpdateAlarm' = [g \in Files |-> TRUE]
  /\ UNCHANGED <<now, entryVars, orphans, snoozed, rang, disturbed>>

\* The alarm was deleted: nothing takes its place.
AlarmWasCancelled(f) ==
  /\ alarmQueue[f].request = "KErrCancel"
  /\ alarmQueue' = [alarmQueue EXCEPT ![f] = Cancelled(@)]
  /\ UNCHANGED <<now, fileVars, entryVars, updateVars, orphans, snoozed, rang, disturbed>>

RunL(f) == AlarmHasExpired(f) \/ AlarmOfDeletedEntry(f) \/ AlarmWasCancelled(f)

-----------------------------------------------------------------------------
(* The alarm server (external) and the clock.  Alarms go off in time.      *)

\* The user may put the alarm of entry e off.
Snooze(f, e) ==
  \/ UNCHANGED snoozed
  \/ /\ "snooze" \in Ops
     /\ snoozed' = [snoozed EXCEPT ![f] = @ \cup {<<e, now + KSnooze>>}]

SessionAlarmExpires(f, a) ==
  /\ a \in alarmQueue[f].session /\ a[2] <= now
  /\ alarmQueue' = [alarmQueue EXCEPT ![f].session = @ \ {a},
       ![f].request = IF @ = "pending" /\ a[1] \in alarmQueue[f].current THEN "KErrNone" ELSE @]
  /\ rang' = [rang EXCEPT ![f] = @ \cup {a}]
  /\ Snooze(f, a[1])
  /\ UNCHANGED <<now, fileVars, entryVars, updateVars, orphans, disturbed>>

OrphanExpires(f, a) ==
  /\ orphans[f][a] > 0 /\ a[2] <= now
  /\ orphans' = [orphans EXCEPT ![f][a] = @ - 1]
  /\ rang' = [rang EXCEPT ![f] = @ \cup {a}]
  /\ Snooze(f, a[1])
  /\ UNCHANGED <<now, fileVars, entryVars, updateVars, alarmQueue, disturbed>>

SnoozedExpires(f, a) ==
  /\ a \in snoozed[f] /\ a[2] <= now
  /\ snoozed' = [snoozed EXCEPT ![f] = @ \ {a}]
  /\ UNCHANGED <<now, fileVars, entryVars, updateVars, alarmQueue, orphans, disturbed, rang>>

AlarmExpires(f) ==
  \/ \E a \in Ids \X Times : SessionAlarmExpires(f, a) \/ OrphanExpires(f, a)
  \/ \E a \in Ids \X Late : SnoozedExpires(f, a)

AlarmIsDue(f) ==
  \/ \E a \in alarmQueue[f].session \cup snoozed[f] : a[2] <= now
  \/ \E a \in Ids \X Times : orphans[f][a] > 0 /\ a[2] <= now
Tick ==
  /\ now < MaxTime /\ \A f \in Files : ~AlarmIsDue(f)
  /\ now' = now + 1
  /\ UNCHANGED <<fileVars, entryVars, updateVars, queueVars, rang>>

-----------------------------------------------------------------------------
Change(f) ==
  \E e \in Ids :
    \/ DeleteEntry(f, e)
    \/ \E t \in 0..MaxAlarm :
         AddEntry(f, e, t) \/ \E moved \in Ids : UpdateEntry(f, e, moved, t)

Next ==
  \/ \E f \in Files :
       \/ OpenAgenda(f) \/ BuildIndexComplete(f) \/ CloseAgenda(f)
       \/ Change(f) \/ SetCalendarInfo(f)
       \/ RequeueAlarmsForShutdownCancellation(f)
       \/ RunL(f) \/ AlarmExpires(f)
  \/ \E c \in Clients : StopAlarmUpdates(c) \/ ResetAlarmUpdates(c) \/ ClientDies(c)
  \/ \E closing \in SUBSET OpenFiles : QueueAlarmsImmediatelyForShutdown(closing)
  \/ Tick

\* The active objects of the server run, alarms go off and time passes.
Fairness ==
  /\ \A f \in Files : WF_vars(RunL(f)) /\ WF_vars(AlarmExpires(f))
  /\ WF_vars(Tick)

Spec == Init /\ [][Next]_vars
FairSpec == Spec /\ Fairness

-----------------------------------------------------------------------------
(* Properties.                                                             *)

\* What the server takes for its queued alarm is what the alarm server holds
\* for its session, and nothing else: however entries of this or another file,
\* closes, shutdowns and expiries interleave, no alarm is left behind.
SessionAlarmAgrees ==
  \A f \in Files :
    LET q == alarmQueue[f] IN
    /\ q.session = IF q.request = "pending" THEN {<<e, q.time>> : e \in q.current} ELSE {}
    /\ q.request = "pending" => Built(f) /\ q.current # {} /\ q.current \subseteq q.list

\* No alarm is queued twice for one instance, by the session or as an orphan.
NotQueuedTwice ==
  \A f \in Files : \A a \in Ids \X Times :
    orphans[f][a] + (IF a \in alarmQueue[f].session THEN 1 ELSE 0) <= 1

\* The alarm server holds alarms only of entries that exist, at the time they
\* have now; put off ones, too, end with their entry or its alarm.
DeletedStaysQuiet ==
  \A f \in Files :
    /\ \A a \in Ids \X Times :
         orphans[f][a] > 0 \/ a \in alarmQueue[f].session => alarmTime[f][a[1]] = a[2]
    /\ \A a \in snoozed[f] : a[1] \in entries[f] /\ alarmTime[f][a[1]] # 0

\* The alarms RunL goes through are those of entries that exist: when one of
\* several alarms of the same time goes off, the server does not end.
ListedEntriesExist == \A f \in Files : alarmQueue[f].list \subseteq entries[f]

\* While a calendar is open the next alarm, but for those within KSkip, is the
\* session's alarm or will be when RunL has run.
NextAlarmIsQueued ==
  \A f \in Files : Built(f) /\ iUpdateAlarm[f] =>
    \A e \in Ids : alarmTime[f][e] > now + KSkip =>
      LET q == alarmQueue[f] IN
      q.request = "KErrNone" \/ (q.request = "pending" /\ q.time <= alarmTime[f][e])

\* An alarm in the future goes off, whether its calendar is open then or not,
\* unless it is changed, or a client's change within KSkip before it, or while
\* alarms of its time go off, has skipped it, or RunL runs only after it.
AlarmsGoOff ==
  \A f \in Files, e \in Ids, t \in Times :
    (alarmTime[f][e] = t /\ now < t) ~>
      (<<e, t>> \in rang[f] \/ alarmTime[f][e] # t \/ t \in disturbed[f])
=============================================================================
