------------------------ MODULE AgnAlarmQueueProofs ------------------------
(***************************************************************************)
(* Theorems about AgnAlarmQueue, for every set of files, entries and       *)
(* clients and all times.  Inv, types and the agreement of the server with *)
(* the alarm server, holds for all operations; what else the runs check    *)
(* is proved for the operations that do not break it, which the statements *)
(* name.                                                                   *)
(***************************************************************************)
EXTENDS AgnAlarmQueue, WellFoundedInduction, TLAPS

\* The session's alarms are those of the request, one alarm; only a calendar
\* whose indexes are built has one.
QueueOK(q, built) ==
  /\ q.session = IF q.request = "pending" THEN {<<e, q.time>> : e \in q.current} ELSE {}
  /\ q.request = "pending" => \E e \in q.list : q.current = {e}
  /\ q.request # "none" => built /\ q.time # 0
QueuesOK == \A f \in Files : QueueOK(alarmQueue[f], Built(f))
Inv == TypeOK /\ QueuesOK

\* A client that changes several entries keeps its file open.
BatchBuilt == \A c \in batch : Built(FileOf[c])

TimesOf(times) == times \in [Ids -> 0..MaxAlarm]

-----------------------------------------------------------------------------
(* The operators on a queue *)

LEMMA EmptyQueue ==
  ASSUME NEW b \in BOOLEAN
  PROVE  Empty \in AlarmQueue /\ QueueOK(Empty, b) /\ Empty.request = "none" /\ Empty.list = {}
  BY TimesAssumption DEF Empty, AlarmQueue, QueueOK

\* Cancel leaves no alarm of the session.
LEMMA CancelledQueue ==
  ASSUME NEW q \in AlarmQueue, NEW b \in BOOLEAN, NEW c \in BOOLEAN, QueueOK(q, b)
  PROVE  LET r == Cancelled(q) IN
         /\ r \in AlarmQueue /\ QueueOK(r, c)
         /\ r.request = "none" /\ r.session = {}
         /\ r.list = q.list /\ r.time = q.time /\ r.current = q.current
  <1>1. CASE q.request = "none"
    BY <1>1 DEF Cancelled, QueueOK, AlarmQueue
  <1>2. CASE q.request # "none"
    BY <1>2 DEF Cancelled, QueueOK, AlarmQueue
  <1> QED
    BY <1>1, <1>2

LEMMA NextAlarmsFacts ==
  ASSUME NEW times \in [Ids -> 0..MaxAlarm], NEW from
  PROVE  /\ NextAlarms(times, from) \subseteq {e \in Ids : times[e] \in Times /\ times[e] > from}
         /\ \A e, x \in NextAlarms(times, from) : times[e] = times[x]
  <1>1. ASSUME NEW e \in FindInstances(times, from)
        PROVE  e \in Ids /\ times[e] # 0
    BY DEF FindInstances, Found
  <1>2. \A e \in NextAlarms(times, from) : e \in Ids /\ times[e] # 0 /\ times[e] > from
    BY <1>1 DEF NextAlarms
  <1>3. \A e \in Ids : times[e] # 0 => times[e] \in Times
    BY TimesAssumption DEF Times
  <1>4. ASSUME NEW e \in NextAlarms(times, from), NEW x \in NextAlarms(times, from)
        PROVE  times[e] = times[x]
    <2>1. times[e] <= times[x] /\ times[x] <= times[e]
      BY <1>1 DEF NextAlarms
    <2> QED
      BY <2>1, <1>2, TimesAssumption
  <1> QED
    BY <1>2, <1>3, <1>4

\* The queue after an alarm of the list has been queued.
LEMMA QueuedFirstQueue ==
  ASSUME NEW q \in AlarmQueue, NEW b \in BOOLEAN, QueueOK(q, b),
         NEW list \in SUBSET Ids, NEW times \in [Ids -> 0..MaxAlarm],
         NEW e \in list, times[e] # 0
  PROVE  LET r == QueuedFirst(q, list, times, e) IN
         r \in AlarmQueue /\ QueueOK(r, TRUE)
  <1>1. Cancelled(q).session = {}
    BY CancelledQueue
  <1>2. times[e] \in Times
    BY TimesAssumption DEF Times
  <1> DEFINE r == QueuedFirst(q, list, times, e)
  <1>3. r = [list |-> list, time |-> times[e], current |-> {e}, request |-> "pending",
             session |-> {<<e, times[e]>>}]
    BY <1>1 DEF QueuedFirst
  <1>4. r \in AlarmQueue
    BY <1>2, <1>3 DEF AlarmQueue, Times
  <1>5. QueueOK(r, TRUE)
    <2>1. r.session = {<<x, r.time>> : x \in r.current}
      BY <1>3
    <2> QED
      BY <1>3, <2>1 DEF QueueOK
  <1> QED
    BY <1>4, <1>5

\* FindAndQueueNextAlarmL leaves the queue agreeing with the alarm server.
LEMMA NextQueuedQueue ==
  ASSUME NEW q \in AlarmQueue, NEW b \in BOOLEAN, QueueOK(q, b),
         NEW times \in [Ids -> 0..MaxAlarm], NEW r \in NextQueued(q, times)
  PROVE  r \in AlarmQueue /\ QueueOK(r, TRUE)
  <1> DEFINE next == NextAlarms(times, SearchFrom(q, KSkip))
  <1>1. CASE next = {}
    <2>1. r = [Cancelled(q) EXCEPT !.list = {}, !.time = 0, !.current = {}]
      BY <1>1 DEF NextQueued
    <2>2. Cancelled(q) \in AlarmQueue /\ Cancelled(q).request = "none" /\ Cancelled(q).session = {}
      BY CancelledQueue
    <2> DEFINE c == Cancelled(q)
    <2> HIDE DEF c
    <2>3. r = [c EXCEPT !.list = {}, !.time = 0, !.current = {}] /\ c \in AlarmQueue
      BY <2>1, <2>2 DEF c
    <2>4. r \in AlarmQueue /\ r.request = c.request /\ r.session = c.session
      <3>1. 0 \in 0..MaxAlarm /\ {} \in SUBSET Ids
        BY TimesAssumption
      <3>2. r = [list |-> {}, time |-> 0, current |-> {}, request |-> c.request, session |-> c.session]
        BY <2>3 DEF AlarmQueue
      <3>3. c.request \in {"none", "pending", "KErrNone", "KErrCancel"} /\ c.session \in SUBSET (Ids \X Times)
        BY <2>3 DEF AlarmQueue
      <3> QED
        BY <3>1, <3>2, <3>3 DEF AlarmQueue
    <2> QED
      BY <2>2, <2>4 DEF QueueOK, c
  <1>2. CASE next # {}
    <2>1. PICK e \in next : r = QueuedFirst(q, next, times, e)
      BY <1>2 DEF NextQueued
    <2>2. next \in SUBSET Ids /\ times[e] # 0
      BY NextAlarmsFacts DEF Times
    <2> QED
      BY <2>1, <2>2, QueuedFirstQueue
  <1> QED
    BY <1>1, <1>2

\* Deleting the alarms of an entry keeps the agreement: the request for one of
\* them is cancelled.
LEMMA WithoutEntryQueue ==
  ASSUME NEW q \in AlarmQueue, NEW b \in BOOLEAN, QueueOK(q, b), NEW e \in Ids
  PROVE  LET r == WithoutEntry(q, e) IN
         /\ r \in AlarmQueue /\ QueueOK(r, b)
         /\ r.list = q.list /\ r.time = q.time /\ r.current = q.current
  <1> DEFINE r == WithoutEntry(q, e)
  <1>1. /\ r.list = q.list /\ r.time = q.time /\ r.current = q.current
        /\ r.request = IF q.request = "pending" /\ e \in q.current THEN "KErrCancel" ELSE q.request
        /\ r.session = {a \in q.session : a[1] # e}
    BY DEF WithoutEntry, AlarmQueue
  <1>2. r \in AlarmQueue
    BY DEF WithoutEntry, AlarmQueue
  <1>3. q.request # "none" => b /\ q.time # 0
    BY DEF QueueOK
  <1> HIDE DEF r
  <1>4. QueueOK(r, b)
    <2>1. CASE q.request = "pending"
      <3>1. PICK x \in q.list : q.current = {x}
        BY <2>1 DEF QueueOK
      <3>2. q.session = {<<x, q.time>>}
        BY <2>1, <3>1 DEF QueueOK
      <3>3. CASE x = e
        <4>1. r.request = "KErrCancel" /\ r.session = {}
          BY <1>1, <2>1, <3>1, <3>2, <3>3
        <4> QED
          BY <4>1, <1>1, <1>3, <2>1 DEF QueueOK
      <3>4. CASE x # e
        <4>1. r.request = "pending" /\ r.session = {<<x, r.time>>}
          BY <1>1, <2>1, <3>1, <3>2, <3>4
        <4>2. r.session = {<<y, r.time>> : y \in r.current}
          BY <4>1, <1>1, <3>1
        <4> QED
          BY <4>1, <4>2, <1>1, <1>3, <2>1, <3>1 DEF QueueOK
      <3> QED
        BY <3>3, <3>4
    <2>2. CASE q.request # "pending"
      <3>1. q.session = {}
        BY <2>2 DEF QueueOK
      <3>2. r.session = {} /\ r.request = q.request
        BY <1>1, <2>2, <3>1
      <3> QED
        BY <1>1, <1>3, <2>2, <3>2 DEF QueueOK
    <2> QED
      BY <2>1, <2>2
  <1> QED
    BY <1>1, <1>2, <1>4 DEF r

\* One more orphan of an alarm within the bound.
LEMMA FewQueuedType ==
  ASSUME TypeOK, NEW f \in Files, CopiesBound(f)
  PROVE  FewQueued(f) \in [Ids \X Times -> 0..KMaxCopies]
  <1> SUFFICES ASSUME NEW a \in Ids \X Times
               PROVE  /\ orphans[f][a] \in 0..KMaxCopies
                      /\ orphans[f][a] + 1 \in 0..KMaxCopies
    BY DEF FewQueued
  <1>1. orphans[f] \in [Ids \X Times -> 0..KMaxCopies]
    BY DEF TypeOK
  <1>2. orphans[f][a] \in 0..KMaxCopies /\ orphans[f][a] < KMaxCopies
    BY <1>1 DEF CopiesBound
  <1> QED
    BY <1>2, TimesAssumption

-----------------------------------------------------------------------------
(* Inv holds initially and is kept by every action.                        *)

LEMMA InitInv ==
  ASSUME Init
  PROVE  Inv
  <1>1. now \in 0..MaxTime /\ 0 \in 0..MaxAlarm /\ 0 \in 0..KMaxCopies
    BY TimesAssumption DEF Init
  <1>2. TypeOK
    BY <1>1, EmptyQueue DEF Init, TypeOK
  <1>3. QueuesOK
    BY EmptyQueue DEF Init, QueuesOK, Built
  <1> QED
    BY <1>2, <1>3 DEF Inv

\* What the step lemmas use of the types.
LEMMA Typed ==
  ASSUME Inv, NEW f \in Files
  PROVE  /\ alarmQueue[f] \in AlarmQueue /\ QueueOK(alarmQueue[f], Built(f))
         /\ alarmTime[f] \in [Ids -> 0..MaxAlarm]
         /\ Built(f) \in BOOLEAN
  BY DEF Inv, TypeOK, QueuesOK, Built

\* An alarm of the session is that of the request.
LEMMA SessionAlarm ==
  ASSUME Inv, NEW f \in Files, NEW a, a \in alarmQueue[f].session
  PROVE  LET q == alarmQueue[f] IN
         q.request = "pending" /\ a[1] \in q.list /\ q.current = {a[1]} /\ a[2] = q.time
  <1>1. QueueOK(alarmQueue[f], Built(f))
    BY Typed
  <1>2. /\ alarmQueue[f].request = "pending"
        /\ alarmQueue[f].session = {<<e, alarmQueue[f].time>> : e \in alarmQueue[f].current}
    BY <1>1 DEF QueueOK
  <1>3. PICK x \in alarmQueue[f].list : alarmQueue[f].current = {x}
    BY <1>1, <1>2 DEF QueueOK
  <1>4. a = <<x, alarmQueue[f].time>>
    BY <1>2, <1>3
  <1> QED
    BY <1>2, <1>3, <1>4

\* The queue of one file is replaced.
LEMMA OneQueue ==
  ASSUME Inv, NEW f \in Files, NEW q \in AlarmQueue, NEW b \in BOOLEAN, QueueOK(q, b),
         alarmQueue' = [alarmQueue EXCEPT ![f] = q], b => Built(f)',
         \A g \in Files : g # f => Built(g)' = Built(g)
  PROVE  alarmQueue' \in [Files -> AlarmQueue] /\ QueuesOK'
  <1>1. alarmQueue \in [Files -> AlarmQueue]
    BY DEF Inv, TypeOK
  <1>2. alarmQueue' \in [Files -> AlarmQueue]
    BY <1>1
  <1>3. ASSUME NEW g \in Files
        PROVE  QueueOK(alarmQueue'[g], Built(g)')
    <2>1. CASE g = f
      <3>1. alarmQueue'[g] = q
        BY <1>1, <2>1
      <3> QED
        BY <2>1, <3>1 DEF QueueOK
    <2>2. CASE g # f
      <3>1. alarmQueue'[g] = alarmQueue[g]
        BY <1>1, <2>2
      <3> QED
        BY <2>2, <3>1, Typed
    <2> QED
      BY <2>1, <2>2
  <1> QED
    BY <1>2, <1>3 DEF QueuesOK

LEMMA SameQueues ==
  ASSUME Inv, UNCHANGED alarmQueue, \A g \in Files : Built(g) => Built(g)'
  PROVE  alarmQueue' \in [Files -> AlarmQueue] /\ QueuesOK'
  <1>1. ASSUME NEW g \in Files
        PROVE  QueueOK(alarmQueue[g], Built(g)')
    <2>1. QueueOK(alarmQueue[g], Built(g)) /\ (Built(g) => Built(g)')
      BY Typed
    <2> QED
      BY <2>1 DEF QueueOK
  <1> QED
    BY <1>1 DEF Inv, TypeOK, QueuesOK

LEMMA DisturbsType ==
  ASSUME Inv, NEW f \in Files, NEW times, Disturbs(f, times)
  PROVE  disturbed' \in [Files -> SUBSET Times]
  BY DEF Inv, TypeOK, Disturbs, TooLate

LEMMA OpenAgendaInv ==
  ASSUME Inv, NEW f \in Files, OpenAgenda(f)
  PROVE  Inv'
  <1>1. UNCHANGED alarmQueue /\ \A g \in Files : Built(g) => Built(g)'
    BY DEF Inv, TypeOK, OpenAgenda, queueVars, Built
  <1>2. alarmQueue' \in [Files -> AlarmQueue] /\ QueuesOK'
    BY <1>1, SameQueues
  <1> QED
    BY <1>2 DEF Inv, TypeOK, OpenAgenda, entryVars, updateVars, queueVars

LEMMA BuildIndexCompleteInv ==
  ASSUME Inv, NEW f \in Files, BuildIndexComplete(f)
  PROVE  Inv'
  <1>1. PICK q \in NextQueued(alarmQueue[f], alarmTime[f]) :
          alarmQueue' = [alarmQueue EXCEPT ![f] = q]
    BY DEF BuildIndexComplete
  <1>2. q \in AlarmQueue /\ QueueOK(q, TRUE)
    BY Typed, NextQueuedQueue
  <1>3. Built(f)' /\ \A g \in Files : g # f => Built(g)' = Built(g)
    BY DEF Inv, TypeOK, BuildIndexComplete, Built
  <1>4. alarmQueue' \in [Files -> AlarmQueue] /\ QueuesOK'
    BY <1>1, <1>2, <1>3, OneQueue
  <1>5. disturbed' \in [Files -> SUBSET Times]
    BY DisturbsType DEF BuildIndexComplete
  <1>6. orphans' \in [Files -> [Ids \X Times -> 0..KMaxCopies]]
    BY TimesAssumption DEF Inv, TypeOK, BuildIndexComplete
  <1> QED
    BY <1>4, <1>5, <1>6 DEF Inv, TypeOK, BuildIndexComplete, entryVars, updateVars

LEMMA CloseAgendaInv ==
  ASSUME Inv, NEW f \in Files, CloseAgenda(f)
  PROVE  Inv'
  <1>1. alarmQueue' = [alarmQueue EXCEPT ![f] = Empty]
    BY DEF CloseAgenda
  <1>2. Empty \in AlarmQueue /\ QueueOK(Empty, FALSE)
    BY EmptyQueue
  <1>3. \A g \in Files : g # f => Built(g)' = Built(g)
    BY DEF Inv, TypeOK, CloseAgenda, Built
  <1>4. alarmQueue' \in [Files -> AlarmQueue] /\ QueuesOK'
    BY <1>1, <1>2, <1>3, OneQueue
  <1>5. disturbed' \in [Files -> SUBSET Times]
    BY DisturbsType DEF CloseAgenda
  <1>6. orphans' \in [Files -> [Ids \X Times -> 0..KMaxCopies]]
    <2>1. orphans \in [Files -> [Ids \X Times -> 0..KMaxCopies]] /\ TypeOK
      BY DEF Inv, TypeOK
    <2>2. CASE iShutdownNotification[f]
      BY <2>1, <2>2 DEF CloseAgenda
    <2>3. CASE ~iShutdownNotification[f]
      <3>1. CopiesBound(f) /\ orphans' = [orphans EXCEPT ![f] = FewQueued(f)]
        BY <2>3 DEF CloseAgenda
      <3>2. FewQueued(f) \in [Ids \X Times -> 0..KMaxCopies]
        BY <2>1, <3>1, FewQueuedType
      <3> QED
        BY <2>1, <3>1, <3>2
    <2> QED
      BY <2>2, <2>3
  <1> QED
    BY <1>4, <1>5, <1>6 DEF Inv, TypeOK, CloseAgenda, entryVars

\* The alarms of an entry, which may be those of other files too, are deleted.
LEMMA DeleteEntriesAlarmType ==
  ASSUME Inv, NEW e \in Ids, DeleteEntriesAlarm(e)
  PROVE  /\ orphans' \in [Files -> [Ids \X Times -> 0..KMaxCopies]]
         /\ snoozed' \in [Files -> SUBSET (Ids \X Late)]
  BY TimesAssumption DEF Inv, TypeOK, DeleteEntriesAlarm

\* A change of an entry leaves queues that agree.
LEMMA ChangedQueues ==
  ASSUME Inv, UNCHANGED fileState,
         alarmQueue' \in [Files -> AlarmQueue],
         \A g \in Files : QueueOK(alarmQueue'[g], Built(g))
  PROVE  QueuesOK'
  BY DEF QueuesOK, Built

LEMMA AddEntryInv ==
  ASSUME Inv, NEW f \in Files, NEW e \in Ids, NEW t \in 0..MaxAlarm, AddEntry(f, e, t)
  PROVE  Inv'
  <1> DEFINE times == [alarmTime[f] EXCEPT ![e] = t]
  <1>1. Built(f) /\ times \in [Ids -> 0..MaxAlarm] /\ UNCHANGED fileState
    BY Typed DEF AddEntry, fileVars
  <1>2. /\ alarmQueue' \in [Files -> AlarmQueue] /\ QueuesOK'
        /\ disturbed' \in [Files -> SUBSET Times]
    <2>1. CASE iUpdateAlarm[f] /\ t # 0
      <3>1. PICK q \in NextQueued(alarmQueue[f], times) :
              alarmQueue' = [alarmQueue EXCEPT ![f] = q]
        BY <2>1 DEF AddEntry
      <3>2. q \in AlarmQueue /\ QueueOK(q, TRUE)
        BY <1>1, Typed, NextQueuedQueue
      <3>3. Built(f)' /\ \A g \in Files : g # f => Built(g)' = Built(g)
        BY <1>1 DEF Built
      <3> QED
        BY <2>1, <3>1, <3>2, <3>3, OneQueue, DisturbsType DEF AddEntry
    <2>2. CASE ~(iUpdateAlarm[f] /\ t # 0)
      <3>1. UNCHANGED <<alarmQueue, disturbed>>
        BY <2>2 DEF AddEntry
      <3> QED
        BY <1>1, <3>1, SameQueues DEF Inv, TypeOK, Built
    <2> QED
      BY <2>1, <2>2
  <1>3. entries' \in [Files -> SUBSET Ids] /\ alarmTime' \in [Files -> [Ids -> 0..MaxAlarm]]
    BY <1>1 DEF Inv, TypeOK, AddEntry
  <1> QED
    BY <1>2, <1>3 DEF Inv, TypeOK, AddEntry, fileVars, updateVars

LEMMA UpdateEntryInv ==
  ASSUME Inv, NEW f \in Files, NEW e \in Ids, NEW moved \in Ids, NEW t \in 0..MaxAlarm,
         UpdateEntry(f, e, moved, t)
  PROVE  Inv'
  <1> DEFINE times == [alarmTime[f] EXCEPT ![e] = 0, ![moved] = t]
             had   == alarmTime[f][e] # 0
             after == IF had THEN [g \in Files |-> WithoutEntry(alarmQueue[g], moved)]
                      ELSE alarmQueue
  <1>1. Built(f) /\ times \in [Ids -> 0..MaxAlarm] /\ UNCHANGED fileState
    <2>1. 0 \in 0..MaxAlarm
      BY TimesAssumption
    <2> QED
      BY <2>1, Typed DEF UpdateEntry, fileVars
  <1>2. after \in [Files -> AlarmQueue] /\ \A g \in Files : QueueOK(after[g], Built(g))
    <2>1. CASE had
      BY <2>1, Typed, WithoutEntryQueue
    <2>2. CASE ~had
      BY <2>2, Typed DEF Inv, TypeOK
    <2> QED
      BY <2>1, <2>2
  <1>3. /\ alarmQueue' \in [Files -> AlarmQueue] /\ QueuesOK'
        /\ disturbed' \in [Files -> SUBSET Times]
    <2>1. CASE iUpdateAlarm[f] /\ t # 0
      <3>1. PICK q \in NextQueued(after[f], times) : alarmQueue' = [after EXCEPT ![f] = q]
        BY <2>1 DEF UpdateEntry
      <3>2. q \in AlarmQueue /\ QueueOK(q, TRUE)
        BY <1>1, <1>2, NextQueuedQueue
      <3> HIDE DEF after
      <3>3. alarmQueue' \in [Files -> AlarmQueue]
        BY <1>2, <3>1, <3>2
      <3>4. \A g \in Files : QueueOK(alarmQueue'[g], Built(g))
        <4>1. QueueOK(q, Built(f))
          BY <1>1, <3>2 DEF QueueOK
        <4> QED
          BY <4>1, <1>2, <3>1
      <3> QED
        BY <1>1, <2>1, <3>3, <3>4, ChangedQueues, DisturbsType DEF UpdateEntry
    <2>2. CASE ~(iUpdateAlarm[f] /\ t # 0)
      <3>1. alarmQueue' = after /\ UNCHANGED disturbed
        BY <2>2 DEF UpdateEntry
      <3> QED
        BY <1>1, <1>2, <3>1, ChangedQueues DEF Inv, TypeOK
    <2> QED
      BY <2>1, <2>2
  <1>4. entries' \in [Files -> SUBSET Ids] /\ alarmTime' \in [Files -> [Ids -> 0..MaxAlarm]]
    BY <1>1 DEF Inv, TypeOK, UpdateEntry
  <1>5. /\ orphans' \in [Files -> [Ids \X Times -> 0..KMaxCopies]]
        /\ snoozed' \in [Files -> SUBSET (Ids \X Late)]
    BY DeleteEntriesAlarmType DEF UpdateEntry, Inv, TypeOK
  <1> QED
    BY <1>3, <1>4, <1>5 DEF Inv, TypeOK, UpdateEntry, fileVars, updateVars

LEMMA DeleteEntryInv ==
  ASSUME Inv, NEW f \in Files, NEW e \in Ids, DeleteEntry(f, e)
  PROVE  Inv'
  <1> DEFINE times == [alarmTime[f] EXCEPT ![e] = 0]
  <1>1. Built(f) /\ times \in [Ids -> 0..MaxAlarm] /\ UNCHANGED fileState
    <2>1. 0 \in 0..MaxAlarm
      BY TimesAssumption
    <2> QED
      BY <2>1, Typed DEF DeleteEntry, fileVars
  <1>2. /\ alarmQueue' \in [Files -> AlarmQueue] /\ QueuesOK'
        /\ disturbed' \in [Files -> SUBSET Times]
        /\ orphans' \in [Files -> [Ids \X Times -> 0..KMaxCopies]]
        /\ snoozed' \in [Files -> SUBSET (Ids \X Late)]
    <2>1. CASE iUpdateAlarm[f] /\ alarmTime[f][e] # 0
      <3>1. PICK q \in NextQueued(alarmQueue[f], times) :
              alarmQueue' = [g \in Files |-> WithoutEntry(IF g = f THEN q ELSE alarmQueue[g], e)]
        BY <2>1 DEF DeleteEntry
      <3>2. q \in AlarmQueue /\ QueueOK(q, Built(f))
        <4>1. q \in AlarmQueue /\ QueueOK(q, TRUE)
          BY <1>1, Typed, NextQueuedQueue
        <4> QED
          BY <1>1, <4>1 DEF QueueOK
      <3>3. \A g \in Files : alarmQueue'[g] \in AlarmQueue /\ QueueOK(alarmQueue'[g], Built(g))
        <4> TAKE g \in Files
        <4> DEFINE p == IF g = f THEN q ELSE alarmQueue[g]
        <4>1. p \in AlarmQueue /\ QueueOK(p, Built(g))
          BY <3>2, Typed
        <4>2. alarmQueue'[g] = WithoutEntry(p, e)
          BY <3>1
        <4> QED
          BY <4>1, <4>2, Typed, WithoutEntryQueue
      <3>4. alarmQueue' \in [Files -> AlarmQueue]
        BY <3>1, <3>3
      <3> QED
        BY <1>1, <2>1, <3>3, <3>4, ChangedQueues, DisturbsType, DeleteEntriesAlarmType
           DEF DeleteEntry
    <2>2. CASE ~(iUpdateAlarm[f] /\ alarmTime[f][e] # 0)
      <3>1. UNCHANGED queueVars
        BY <2>2 DEF DeleteEntry
      <3> QED
        BY <1>1, <3>1, SameQueues DEF Inv, TypeOK, Built, queueVars
    <2> QED
      BY <2>1, <2>2
  <1>3. entries' \in [Files -> SUBSET Ids] /\ alarmTime' \in [Files -> [Ids -> 0..MaxAlarm]]
    BY <1>1 DEF Inv, TypeOK, DeleteEntry
  <1> QED
    BY <1>2, <1>3 DEF Inv, TypeOK, DeleteEntry, fileVars, updateVars

LEMMA BatchInv ==
  ASSUME Inv, BatchBuilt, NEW c \in Clients,
         StopAlarmUpdates(c) \/ ResetAlarmUpdates(c) \/ ClientDies(c)
  PROVE  Inv'
  <1>0. FileOf[c] \in Files
    BY FilesAssumption
  <1>1. CASE StopAlarmUpdates(c) \/ ClientDies(c)
    <2>1. UNCHANGED alarmQueue /\ UNCHANGED fileState
      BY <1>1 DEF StopAlarmUpdates, ClientDies, queueVars, fileVars
    <2>2. alarmQueue' \in [Files -> AlarmQueue] /\ QueuesOK'
      BY <2>1, SameQueues DEF Built
    <2> QED
      BY <1>0, <1>1, <2>2 DEF Inv, TypeOK, StopAlarmUpdates, ClientDies, fileVars,
         entryVars, queueVars
  <1>2. CASE ResetAlarmUpdates(c)
    <2> DEFINE f == FileOf[c]
    <2>1. UNCHANGED fileState /\ Built(f)
      BY <1>2 DEF ResetAlarmUpdates, fileVars, BatchBuilt
    <2>2. PICK q \in NextQueued(alarmQueue[f], alarmTime[f]) :
            alarmQueue' = [alarmQueue EXCEPT ![f] = q]
      BY <1>2 DEF ResetAlarmUpdates
    <2>3. q \in AlarmQueue /\ QueueOK(q, TRUE)
      BY <1>0, Typed, NextQueuedQueue
    <2>4. alarmQueue' \in [Files -> AlarmQueue] /\ QueuesOK'
      BY <1>0, <2>1, <2>2, <2>3, OneQueue DEF Built
    <2>5. disturbed' \in [Files -> SUBSET Times]
      BY <1>0, <1>2, DisturbsType DEF ResetAlarmUpdates
    <2> QED
      BY <1>0, <1>2, <2>4, <2>5 DEF Inv, TypeOK, ResetAlarmUpdates, fileVars, entryVars
  <1> QED
    BY <1>1, <1>2

LEMMA SetCalendarInfoInv ==
  ASSUME Inv, NEW f \in Files, SetCalendarInfo(f)
  PROVE  Inv'
  <1>1. UNCHANGED fileState /\ alarmQueue' = [alarmQueue EXCEPT ![f] = Cancelled(@)]
    BY DEF SetCalendarInfo, fileVars
  <1>2. /\ Cancelled(alarmQueue[f]) \in AlarmQueue
        /\ QueueOK(Cancelled(alarmQueue[f]), Built(f))
    BY Typed, CancelledQueue
  <1>3. alarmQueue' \in [Files -> AlarmQueue] /\ QueuesOK'
    BY <1>1, <1>2, Typed, OneQueue DEF Built
  <1>4. disturbed' \in [Files -> SUBSET Times]
    BY DisturbsType DEF SetCalendarInfo
  <1>5. orphans' \in [Files -> [Ids \X Times -> 0..KMaxCopies]]
    BY FewQueuedType DEF Inv, TypeOK, SetCalendarInfo
  <1> QED
    BY <1>3, <1>4, <1>5 DEF Inv, TypeOK, SetCalendarInfo, fileVars, entryVars, updateVars

LEMMA ShutdownInv ==
  ASSUME Inv, NEW closing \in SUBSET OpenFiles, QueueAlarmsImmediatelyForShutdown(closing)
  PROVE  Inv'
  <1>1. \A g \in Files : alarmQueue'[g] \in AlarmQueue /\ QueueOK(alarmQueue'[g], Built(g)')
    <2> TAKE g \in Files
    <2>1. CASE g \in closing
      <3>1. alarmQueue'[g] = Empty /\ Built(g)' = FALSE
        BY <2>1 DEF QueueAlarmsImmediatelyForShutdown, Built
      <3> QED
        BY <3>1, EmptyQueue
    <2>2. CASE g \notin closing
      <3>1. alarmQueue'[g] = Cancelled(alarmQueue[g]) /\ Built(g)' = Built(g)
        BY <2>2 DEF QueueAlarmsImmediatelyForShutdown, Built
      <3> QED
        BY <3>1, Typed, CancelledQueue
    <2> QED
      BY <2>1, <2>2
  <1>2. alarmQueue' \in [Files -> AlarmQueue]
    BY <1>1 DEF QueueAlarmsImmediatelyForShutdown
  <1>3. orphans' \in [Files -> [Ids \X Times -> 0..KMaxCopies]]
    <2>1. \A g \in OpenFiles : FewQueued(g) \in [Ids \X Times -> 0..KMaxCopies]
      BY FewQueuedType DEF QueueAlarmsImmediatelyForShutdown, OpenFiles, Inv
    <2> QED
      BY <2>1 DEF QueueAlarmsImmediatelyForShutdown, Inv, TypeOK
  <1>4. disturbed' \in [Files -> SUBSET Times]
    BY DEF QueueAlarmsImmediatelyForShutdown, TooLate, Inv, TypeOK
  <1>5. /\ fileState' \in [Files -> {"closed", "opened", "built"}]
        /\ iShutdownNotification' \in [Files -> BOOLEAN]
        /\ iUpdateAlarm' \in [Files -> BOOLEAN]
    BY DEF QueueAlarmsImmediatelyForShutdown, Inv, TypeOK
  <1> QED
    BY <1>1, <1>2, <1>3, <1>4, <1>5
       DEF QueueAlarmsImmediatelyForShutdown, Inv, TypeOK, QueuesOK, entryVars

\* DeleteAllAlarms: every request is cancelled, no alarm is left.
LostAlarms(q) == [q EXCEPT !.session = {},
                           !.request = IF @ = "pending" THEN "KErrCancel" ELSE @]
LEMMA LostAlarmsQueue ==
  ASSUME NEW q \in AlarmQueue, NEW b \in BOOLEAN, QueueOK(q, b)
  PROVE  LostAlarms(q) \in AlarmQueue /\ QueueOK(LostAlarms(q), b)
  <1> DEFINE r == LostAlarms(q)
  <1>1. /\ r.request = IF q.request = "pending" THEN "KErrCancel" ELSE q.request
        /\ r.session = {} /\ r.time = q.time
    BY DEF LostAlarms, AlarmQueue
  <1>2. r \in AlarmQueue
    BY DEF LostAlarms, AlarmQueue
  <1>3. q.request # "none" => b /\ q.time # 0
    BY DEF QueueOK
  <1> HIDE DEF r
  <1>4. QueueOK(r, b)
    BY <1>1, <1>3 DEF QueueOK
  <1> QED
    BY <1>2, <1>4 DEF r

LEMMA ShutdownCancellationInv ==
  ASSUME Inv, NEW last \in Files, RequeueAlarmsForShutdownCancellation(last)
  PROVE  Inv'
  <1> DEFINE choices == [f \in Files |->
                           IF Built(f) THEN NextQueued(LostAlarms(alarmQueue[f]), alarmTime[f])
                           ELSE {Cancelled(alarmQueue[f])}]
  <1>1. PICK qs \in [Files -> UNION {choices[f] : f \in Files}] :
          /\ \A f \in Files : qs[f] \in choices[f]
          /\ alarmQueue' = [f \in Files |-> IF f = last THEN qs[f] ELSE LostAlarms(qs[f])]
    BY DEF RequeueAlarmsForShutdownCancellation, LostAlarms
  <1>2. \A f \in Files : qs[f] \in AlarmQueue /\ QueueOK(qs[f], Built(f))
    <2> TAKE f \in Files
    <2>1. CASE Built(f)
      <3>1. qs[f] \in NextQueued(LostAlarms(alarmQueue[f]), alarmTime[f])
        BY <1>1, <2>1
      <3>2. LostAlarms(alarmQueue[f]) \in AlarmQueue /\ QueueOK(LostAlarms(alarmQueue[f]), Built(f))
        BY Typed, LostAlarmsQueue
      <3>3. qs[f] \in AlarmQueue /\ QueueOK(qs[f], TRUE)
        BY <3>1, <3>2, Typed, NextQueuedQueue
      <3> QED
        BY <2>1, <3>3 DEF QueueOK
    <2>2. CASE ~Built(f)
      <3>1. qs[f] = Cancelled(alarmQueue[f])
        BY <1>1, <2>2
      <3> QED
        BY <3>1, Typed, CancelledQueue
    <2> QED
      BY <2>1, <2>2
  <1>3. \A f \in Files : alarmQueue'[f] \in AlarmQueue /\ QueueOK(alarmQueue'[f], Built(f))
    <2> TAKE f \in Files
    <2>1. LostAlarms(qs[f]) \in AlarmQueue /\ QueueOK(LostAlarms(qs[f]), Built(f))
      BY <1>2, Typed, LostAlarmsQueue
    <2>2. alarmQueue'[f] \in {qs[f], LostAlarms(qs[f])}
      BY <1>1
    <2> QED
      BY <1>2, <2>1, <2>2
  <1>4. alarmQueue' \in [Files -> AlarmQueue]
    BY <1>1, <1>3
  <1>5. QueuesOK'
    BY <1>3, <1>4, ChangedQueues DEF RequeueAlarmsForShutdownCancellation
  <1>6. disturbed' \in [Files -> SUBSET Times]
    BY DEF RequeueAlarmsForShutdownCancellation, TooLate, Inv, TypeOK
  <1>7. 0 \in 0..KMaxCopies
    BY TimesAssumption
  <1> QED
    BY <1>4, <1>5, <1>6, <1>7
       DEF RequeueAlarmsForShutdownCancellation, Inv, TypeOK, entryVars, updateVars

\* A queue with all but its time replaced.
With(q, l, c, k, s) == [q EXCEPT !.list = l, !.current = c, !.request = k, !.session = s]

LEMMA AlarmHasExpiredInv ==
  ASSUME Inv, NEW f \in Files, AlarmHasExpired(f)
  PROVE  Inv'
  <1> DEFINE q    == alarmQueue[f]
             rest == q.list \ q.current
             done == [q EXCEPT !.request = "none"]
  <1>1. /\ q \in AlarmQueue /\ q.request = "KErrNone" /\ q.session = {}
        /\ Built(f) /\ q.time \in Times /\ UNCHANGED fileState
    <2>1. q \in AlarmQueue /\ QueueOK(q, Built(f)) /\ q.request = "KErrNone"
      BY Typed DEF AlarmHasExpired
    <2>2. q.time \in 0..MaxAlarm
      BY <2>1 DEF AlarmQueue
    <2>3. q.session = {} /\ Built(f) /\ q.time # 0
      BY <2>1 DEF QueueOK
    <2>4. q.time \in Times
      BY <2>2, <2>3, TimesAssumption DEF Times
    <2>5. UNCHANGED fileState
      BY DEF AlarmHasExpired, fileVars
    <2> QED
      BY <2>1, <2>3, <2>4, <2>5
  <1>2. done \in AlarmQueue /\ done.request = "none" /\ QueueOK(done, TRUE)
    <2>1. done.request = "none" /\ done.session = {}
      BY <1>1 DEF AlarmQueue
    <2>2. done \in AlarmQueue
      BY <1>1 DEF AlarmQueue
    <2> QED
      BY <2>1, <2>2 DEF QueueOK
  <1>3. \E r \in AlarmQueue : QueueOK(r, TRUE) /\ alarmQueue' = [alarmQueue EXCEPT ![f] = r]
    <2>1. CASE \E e \in rest \cap entries[f] :
                 alarmQueue' = [alarmQueue EXCEPT ![f] =
                   [done EXCEPT !.list = rest, !.current = {e}, !.request = "pending",
                                !.session = @ \cup {<<e, q.time>>}]]
      <3>1. PICK e \in rest \cap entries[f] :
              alarmQueue' = [alarmQueue EXCEPT ![f] =
                [done EXCEPT !.list = rest, !.current = {e}, !.request = "pending",
                             !.session = @ \cup {<<e, q.time>>}]]
        BY <2>1
      <3>2. rest \in SUBSET Ids /\ e \in Ids /\ e \in rest
        BY <1>1 DEF AlarmQueue
      <3> DEFINE s == {<<e, q.time>>}
                 r == With(done, rest, {e}, "pending", s)
      <3>3. done.time = q.time /\ done.session \cup s = s
        BY <1>1 DEF AlarmQueue
      <3>4. s \in SUBSET (Ids \X Times) /\ {e} \in SUBSET Ids
        BY <1>1, <3>2
      <3> HIDE DEF done, rest, s
      <3>5. alarmQueue' = [alarmQueue EXCEPT ![f] = r]
        BY <3>1, <3>3 DEF s, With
      <3>6. /\ r \in AlarmQueue /\ r.list = rest /\ r.time = q.time /\ r.current = {e}
            /\ r.request = "pending" /\ r.session = s
        <4>1. done \in AlarmQueue /\ rest \in SUBSET Ids /\ {e} \in SUBSET Ids
              /\ s \in SUBSET (Ids \X Times)
          BY <1>2, <3>2, <3>4
        <4>2. "pending" \in {"none", "pending", "KErrNone", "KErrCancel"}
          OBVIOUS
        <4>3. /\ r \in AlarmQueue /\ r.list = rest /\ r.time = done.time /\ r.current = {e}
              /\ r.request = "pending" /\ r.session = s
          BY <4>1, <4>2 DEF With, AlarmQueue
        <4> QED
          BY <3>3, <4>3
      <3> HIDE DEF r
      <3>7. QueueOK(r, TRUE)
        <4>1. r.session = {<<x, r.time>> : x \in r.current}
          BY <3>6 DEF s
        <4>2. r.time # 0
          BY <1>1, <3>6, TimesAssumption DEF Times
        <4> QED
          BY <3>2, <3>6, <4>1, <4>2 DEF QueueOK
      <3> QED
        BY <3>5, <3>6, <3>7
    <2>2. CASE \E r \in NextQueued(done, alarmTime[f]) :
                 alarmQueue' = [alarmQueue EXCEPT ![f] = r]
      <3>1. PICK r \in NextQueued(done, alarmTime[f]) :
              alarmQueue' = [alarmQueue EXCEPT ![f] = r]
        BY <2>2
      <3>2. r \in AlarmQueue /\ QueueOK(r, TRUE)
        <4> HIDE DEF done
        <4> QED
          BY <1>2, Typed, NextQueuedQueue
      <3> QED
        BY <3>1, <3>2
    <2> QED
      BY <2>1, <2>2 DEF AlarmHasExpired
  <1>4. alarmQueue' \in [Files -> AlarmQueue] /\ QueuesOK'
    BY <1>1, <1>3, OneQueue DEF Built
  <1>5. disturbed' \in [Files -> SUBSET Times]
    <2> DEFINE late == {t \in Times : q.time < t /\ t <= now}
    <2>1. disturbed' = disturbed \/ disturbed' = [disturbed EXCEPT ![f] = @ \cup late]
      BY Zenon DEF AlarmHasExpired
    <2>2. late \in SUBSET Times /\ disturbed \in [Files -> SUBSET Times]
      BY DEF Inv, TypeOK
    <2> HIDE DEF late
    <2> QED
      BY <2>1, <2>2
  <1> QED
    BY <1>4, <1>5 DEF AlarmHasExpired, Inv, TypeOK, fileVars, entryVars, updateVars

LEMMA RunLInv ==
  ASSUME Inv, NEW f \in Files, RunL(f)
  PROVE  Inv'
  <1>1. CASE AlarmOfDeletedEntry(f)
    <2>1. alarmQueue' \in [Files -> AlarmQueue] /\ QueuesOK'
      BY <1>1, EmptyQueue DEF AlarmOfDeletedEntry, QueuesOK, Built
    <2> QED
      BY <1>1, <2>1 DEF AlarmOfDeletedEntry, Inv, TypeOK, entryVars
  <1>2. CASE AlarmWasCancelled(f)
    <2>1. UNCHANGED fileState /\ alarmQueue' = [alarmQueue EXCEPT ![f] = Cancelled(@)]
      BY <1>2 DEF AlarmWasCancelled, fileVars
    <2>2. /\ Cancelled(alarmQueue[f]) \in AlarmQueue
          /\ QueueOK(Cancelled(alarmQueue[f]), Built(f))
      BY Typed, CancelledQueue
    <2>3. alarmQueue' \in [Files -> AlarmQueue] /\ QueuesOK'
      BY <2>1, <2>2, Typed, OneQueue DEF Built
    <2> QED
      BY <1>2, <2>3 DEF AlarmWasCancelled, Inv, TypeOK, fileVars, entryVars, updateVars
  <1> QED
    BY <1>1, <1>2, AlarmHasExpiredInv DEF RunL

LEMMA SnoozeType ==
  ASSUME Inv, NEW f \in Files, NEW e \in Ids, Snooze(f, e)
  PROVE  snoozed' \in [Files -> SUBSET (Ids \X Late)]
  <1>1. now + KSnooze \in Late
    BY TimesAssumption DEF Inv, TypeOK, Late
  <1>2. snoozed \in [Files -> SUBSET (Ids \X Late)]
    BY DEF Inv, TypeOK
  <1>3. snoozed[f] \cup {<<e, now + KSnooze>>} \in SUBSET (Ids \X Late)
    BY <1>1, <1>2
  <1>4. \/ snoozed' = snoozed
        \/ snoozed' = [snoozed EXCEPT ![f] = snoozed[f] \cup {<<e, now + KSnooze>>}]
    BY DEF Snooze
  <1> QED
    BY <1>2, <1>3, <1>4

LEMMA AlarmExpiresInv ==
  ASSUME Inv, NEW f \in Files, AlarmExpires(f)
  PROVE  Inv'
  <1>1. ASSUME NEW a \in Ids \X Times, SessionAlarmExpires(f, a)
        PROVE  Inv'
    <2> DEFINE q == alarmQueue[f]
               r == [q EXCEPT !.session = @ \ {a},
                      !.request = IF @ = "pending" /\ a[1] \in q.current THEN "KErrNone" ELSE @]
    <2>0. q \in AlarmQueue /\ QueueOK(q, Built(f)) /\ a \in q.session
      BY <1>1, Typed DEF SessionAlarmExpires
    <2>1. q.request = "pending" /\ a[1] \in q.current /\ q.session = {a}
      <3>1. q.request = "pending" /\ q.session = {<<e, q.time>> : e \in q.current}
        BY <2>0 DEF QueueOK
      <3>2. PICK x \in q.list : q.current = {x}
        BY <2>0, <3>1 DEF QueueOK
      <3> QED
        BY <2>0, <3>1, <3>2
    <2>2. /\ r.request = "KErrNone" /\ r.session = {} /\ r.time = q.time
          /\ r \in AlarmQueue
      BY <2>0, <2>1 DEF AlarmQueue
    <2>3. QueueOK(r, Built(f))
      <3>1. Built(f) /\ q.time # 0
        BY <2>0, <2>1 DEF QueueOK
      <3> QED
        BY <2>2, <3>1 DEF QueueOK
    <2>4. UNCHANGED fileState /\ alarmQueue' = [alarmQueue EXCEPT ![f] = r]
      BY <1>1, <2>0 DEF SessionAlarmExpires, fileVars, Inv, TypeOK
    <2>5. alarmQueue' \in [Files -> AlarmQueue] /\ QueuesOK'
      BY <2>2, <2>3, <2>4, Typed, OneQueue DEF Built
    <2>6. snoozed' \in [Files -> SUBSET (Ids \X Late)]
      BY <1>1, SnoozeType DEF SessionAlarmExpires
    <2> QED
      BY <1>1, <2>5, <2>6 DEF SessionAlarmExpires, Inv, TypeOK, fileVars, entryVars, updateVars
  <1>2. ASSUME NEW a \in Ids \X Times, OrphanExpires(f, a)
        PROVE  Inv'
    <2>1. UNCHANGED alarmQueue /\ UNCHANGED fileState
      BY <1>2 DEF OrphanExpires, fileVars
    <2>2. alarmQueue' \in [Files -> AlarmQueue] /\ QueuesOK'
      BY <2>1, SameQueues DEF Built
    <2>3. snoozed' \in [Files -> SUBSET (Ids \X Late)]
      BY <1>2, SnoozeType DEF OrphanExpires
    <2>4. orphans' \in [Files -> [Ids \X Times -> 0..KMaxCopies]]
      <3>1. orphans[f][a] \in 0..KMaxCopies /\ orphans[f][a] - 1 \in 0..KMaxCopies
        BY <1>2, TimesAssumption DEF OrphanExpires, Inv, TypeOK
      <3> QED
        BY <1>2, <3>1 DEF OrphanExpires, Inv, TypeOK
    <2> QED
      BY <1>2, <2>2, <2>3, <2>4 DEF OrphanExpires, Inv, TypeOK, fileVars, entryVars, updateVars
  <1>3. ASSUME NEW a \in Ids \X Late, SnoozedExpires(f, a)
        PROVE  Inv'
    <2>1. UNCHANGED alarmQueue /\ UNCHANGED fileState
      BY <1>3 DEF SnoozedExpires, fileVars
    <2>2. alarmQueue' \in [Files -> AlarmQueue] /\ QueuesOK'
      BY <2>1, SameQueues DEF Built
    <2> QED
      BY <1>3, <2>2 DEF SnoozedExpires, Inv, TypeOK, fileVars, entryVars, updateVars
  <1> QED
    BY <1>1, <1>2, <1>3 DEF AlarmExpires

\* A change of an entry leaves the states of the files and who searches alone.
LEMMA ChangeUpdates ==
  ASSUME NEW f \in Files, Change(f)
  PROVE  UNCHANGED <<fileVars, updateVars>>
  <1>1. ASSUME NEW e \in Ids, DeleteEntry(f, e)
        PROVE  UNCHANGED <<fileVars, updateVars>>
    BY <1>1 DEF DeleteEntry
  <1>2. ASSUME NEW e \in Ids, NEW t \in 0..MaxAlarm, AddEntry(f, e, t)
        PROVE  UNCHANGED <<fileVars, updateVars>>
    BY <1>2 DEF AddEntry
  <1>3. ASSUME NEW e \in Ids, NEW moved \in Ids, NEW t \in 0..MaxAlarm,
               UpdateEntry(f, e, moved, t)
        PROVE  UNCHANGED <<fileVars, updateVars>>
    BY <1>3 DEF UpdateEntry
  <1> QED
    BY <1>1, <1>2, <1>3 DEF Change

LEMMA NextInv ==
  ASSUME Inv, BatchBuilt, [Next]_vars
  PROVE  Inv' /\ BatchBuilt'
  <1>1. CASE UNCHANGED vars
    BY <1>1, SameQueues DEF Inv, TypeOK, BatchBuilt, Built, vars, fileVars, entryVars,
       updateVars, queueVars
  <1>2. CASE Tick
    <2>1. UNCHANGED alarmQueue /\ UNCHANGED fileState
      BY <1>2 DEF Tick, queueVars, fileVars
    <2>2. alarmQueue' \in [Files -> AlarmQueue] /\ QueuesOK'
      BY <2>1, SameQueues DEF Built
    <2>3. now' \in 0..MaxTime
      BY <1>2, TimesAssumption DEF Tick, Inv, TypeOK
    <2> QED
      BY <1>2, <2>2, <2>3 DEF Tick, Inv, TypeOK, BatchBuilt, Built, fileVars, entryVars,
         updateVars, queueVars
  <1>3. ASSUME NEW c \in Clients, StopAlarmUpdates(c) \/ ResetAlarmUpdates(c) \/ ClientDies(c)
        PROVE  Inv' /\ BatchBuilt'
    BY <1>3, BatchInv DEF BatchBuilt, Built, StopAlarmUpdates, ResetAlarmUpdates, ClientDies,
       fileVars
  <1>4. ASSUME NEW closing \in SUBSET OpenFiles, QueueAlarmsImmediatelyForShutdown(closing)
        PROVE  Inv' /\ BatchBuilt'
    <2>1. BatchBuilt'
      <3>1. batch \in SUBSET Clients
        BY DEF Inv, TypeOK
      <3> QED
        BY <1>4, <3>1, FilesAssumption DEF BatchBuilt, Built, QueueAlarmsImmediatelyForShutdown
    <2> QED
      BY <1>4, <2>1, ShutdownInv
  <1>5. ASSUME NEW f \in Files, OpenAgenda(f) \/ BuildIndexComplete(f) \/ CloseAgenda(f)
        PROVE  Inv' /\ BatchBuilt'
    <2>1. BatchBuilt'
      <3>1. batch \in SUBSET Clients /\ fileState \in [Files -> {"closed", "opened", "built"}]
        BY DEF Inv, TypeOK
      <3> QED
        BY <1>5, <3>1, FilesAssumption DEF BatchBuilt, Built, OpenAgenda, BuildIndexComplete,
           CloseAgenda, updateVars
    <2> QED
      BY <1>5, <2>1, OpenAgendaInv, BuildIndexCompleteInv, CloseAgendaInv
  <1>6. ASSUME NEW f \in Files, Change(f) \/ SetCalendarInfo(f)
                 \/ RequeueAlarmsForShutdownCancellation(f)
        PROVE  Inv' /\ BatchBuilt'
    <2>1. Inv'
      BY <1>6, AddEntryInv, UpdateEntryInv, DeleteEntryInv, SetCalendarInfoInv,
         ShutdownCancellationInv DEF Change
    <2>2. UNCHANGED <<fileState, updateVars>>
      BY <1>6, ChangeUpdates DEF SetCalendarInfo, RequeueAlarmsForShutdownCancellation,
         fileVars
    <2> QED
      BY <2>1, <2>2 DEF BatchBuilt, Built, updateVars
  <1>7. ASSUME NEW f \in Files, RunL(f) \/ AlarmExpires(f)
        PROVE  Inv' /\ BatchBuilt'
    <2>1. BatchBuilt'
      BY <1>7 DEF RunL, AlarmExpires, AlarmHasExpired, AlarmOfDeletedEntry, AlarmWasCancelled,
         SessionAlarmExpires, OrphanExpires, SnoozedExpires, BatchBuilt, Built, fileVars,
         updateVars
    <2> QED
      BY <1>7, <2>1, RunLInv, AlarmExpiresInv
  <1> QED
    BY <1>1, <1>2, <1>3, <1>4, <1>5, <1>6, <1>7 DEF Next

\* Every queue keeps its shape, and a client in the middle of several changes
\* has its file open, whatever operations are called.
THEOREM InvInvariant == Spec => [](Inv /\ BatchBuilt)
  <1>1. Init => Inv /\ BatchBuilt
    BY InitInv DEF Init, BatchBuilt
  <1> QED
    BY <1>1, NextInv, PTL DEF Spec

\* Types, whatever operations are called.
THEOREM TypeCorrect == Spec => []TypeOK
  BY InvInvariant, PTL DEF Inv

\* The alarm server holds for the session what the server believes it does.
THEOREM SessionAlarmsAgree == Spec => []SessionAlarmAgrees
  <1>1. Inv => SessionAlarmAgrees
    <2> SUFFICES ASSUME Inv, NEW f \in Files
                 PROVE  LET q == alarmQueue[f] IN
                        /\ q.session = IF q.request = "pending"
                             THEN {<<e, q.time>> : e \in q.current} ELSE {}
                        /\ q.request = "pending" =>
                             Built(f) /\ q.current # {} /\ q.current \subseteq q.list
      BY DEF SessionAlarmAgrees
    <2> QED
      BY Typed DEF QueueOK
  <1> QED
    BY <1>1, InvInvariant, PTL

-----------------------------------------------------------------------------
(* What holds as long as every change searches for the next alarm: nobody  *)
(* puts the searches off, no calendar is in use by a client that does.     *)

NoBatch == Clients = {}
Searching == batch = {} /\ \A f \in Files : iUpdateAlarm[f]

LEMMA SearchingNext ==
  ASSUME NoBatch, Inv, Searching, [Next]_vars
  PROVE  Searching'
  <1>1. CASE UNCHANGED vars
    BY <1>1 DEF vars, updateVars, Searching
  <1>2. CASE Tick
    BY <1>2 DEF Tick, updateVars, Searching
  <1>3. ASSUME NEW closing \in SUBSET OpenFiles, QueueAlarmsImmediatelyForShutdown(closing)
        PROVE  Searching'
    BY <1>3 DEF QueueAlarmsImmediatelyForShutdown, Searching
  <1>4. ASSUME NEW f \in Files, OpenAgenda(f) \/ BuildIndexComplete(f) \/ CloseAgenda(f)
        PROVE  Searching'
    BY <1>4 DEF OpenAgenda, BuildIndexComplete, CloseAgenda, updateVars, Searching, Inv, TypeOK
  <1>5. ASSUME NEW f \in Files, Change(f) \/ SetCalendarInfo(f)
                 \/ RequeueAlarmsForShutdownCancellation(f)
        PROVE  Searching'
    <2>1. UNCHANGED updateVars
      BY <1>5, ChangeUpdates DEF SetCalendarInfo, RequeueAlarmsForShutdownCancellation
    <2> QED
      BY <2>1 DEF updateVars, Searching
  <1>6. ASSUME NEW f \in Files, RunL(f) \/ AlarmExpires(f)
        PROVE  Searching'
    BY <1>6 DEF RunL, AlarmExpires, AlarmHasExpired, AlarmOfDeletedEntry, AlarmWasCancelled,
       SessionAlarmExpires, OrphanExpires, SnoozedExpires, updateVars, Searching
  <1> QED
    BY <1>1, <1>2, <1>3, <1>4, <1>5, <1>6 DEF Next, NoBatch

LEMMA SearchingAlways == ASSUME NoBatch PROVE Spec => [](Inv /\ BatchBuilt /\ Searching)
  <1>1. Init => Searching
    BY DEF Init, Searching
  <1>2. Inv /\ BatchBuilt /\ Searching /\ [Next]_vars => Searching'
    BY SearchingNext
  <1> QED
    BY <1>1, <1>2, InvInvariant, PTL DEF Spec

\* What FindAndQueueNextAlarmL leaves queued: one of the first alarms after
\* the time it searches from, or nothing when there is none.
LEMMA NextQueuedIs ==
  ASSUME NEW q \in AlarmQueue, NEW b \in BOOLEAN, QueueOK(q, b),
         NEW times \in [Ids -> 0..MaxAlarm], NEW r \in NextQueued(q, times)
  PROVE  /\ r.list = NextAlarms(times, SearchFrom(q, KSkip))
         /\ r.request = IF r.list = {} THEN "none" ELSE "pending"
         /\ \A e \in r.list : times[e] = r.time /\ r.time # 0
  <1> DEFINE next == NextAlarms(times, SearchFrom(q, KSkip))
  <1>1. CASE next = {}
    <2> DEFINE c == Cancelled(q)
    <2>1. r = [c EXCEPT !.list = {}, !.time = 0, !.current = {}]
      BY <1>1 DEF NextQueued
    <2>2. c \in AlarmQueue /\ c.request = "none"
      BY CancelledQueue
    <2> HIDE DEF c
    <2>3. r.list = {} /\ r.request = "none"
      BY <2>1, <2>2 DEF AlarmQueue
    <2> QED
      BY <1>1, <2>3
  <1>2. CASE next # {}
    <2>1. PICK e \in next : r = QueuedFirst(q, next, times, e)
      BY <1>2 DEF NextQueued
    <2>2. r.list = next /\ r.request = "pending" /\ r.time = times[e]
      BY <2>1 DEF QueuedFirst
    <2>3. \A x \in next : times[x] = times[e] /\ times[x] # 0
      BY NextAlarmsFacts, TimesAssumption DEF Times
    <2> QED
      BY <1>2, <2>2, <2>3
  <1> QED
    BY <1>1, <1>2

\* Updates leave an entry its id and an alarm.
EditsOnly == NoBatch /\ Ops \cap {"strip", "move"} = {}

Listed(q, times) == \A e \in q.list : times[e] = q.time /\ q.time # 0
ListsOK == \A f \in Files : Listed(alarmQueue[f], alarmTime[f])
AlarmedExist == \A f \in Files : \A e \in Ids : alarmTime[f][e] # 0 => e \in entries[f]

\* A step that keeps the entries and the lists, or empties them.
LEMMA ListsKept ==
  ASSUME Inv, ListsOK, UNCHANGED alarmTime,
         \A g \in Files : \/ alarmQueue'[g].list = {}
                         \/ /\ alarmQueue'[g].list \subseteq alarmQueue[g].list
                            /\ alarmQueue'[g].time = alarmQueue[g].time
                         \/ Listed(alarmQueue'[g], alarmTime[g])
  PROVE  ListsOK'
  BY DEF ListsOK, Listed

LEMMA ChangeListed ==
  ASSUME EditsOnly, Inv, Searching, ListsOK, AlarmedExist, NEW f \in Files, Change(f)
  PROVE  ListsOK' /\ AlarmedExist'
  <1>0. /\ entries \in [Files -> SUBSET Ids] /\ alarmTime \in [Files -> [Ids -> 0..MaxAlarm]]
        /\ alarmQueue \in [Files -> AlarmQueue] /\ 0 \in 0..MaxAlarm
    BY TimesAssumption DEF Inv, TypeOK
  <1>1. ASSUME NEW e \in Ids, NEW t \in 0..MaxAlarm, AddEntry(f, e, t)
        PROVE  ListsOK' /\ AlarmedExist'
    <2> DEFINE times == [alarmTime[f] EXCEPT ![e] = t]
    <2>1. /\ entries' = [entries EXCEPT ![f] = @ \cup {e}] /\ e \notin entries[f]
          /\ alarmTime' = [alarmTime EXCEPT ![f] = times]
      BY <1>1 DEF AddEntry
    <2>2. AlarmedExist'
      BY <1>0, <2>1 DEF AlarmedExist
    <2>3. CASE t # 0
      <3>1. PICK q \in NextQueued(alarmQueue[f], times) :
              alarmQueue' = [alarmQueue EXCEPT ![f] = q]
        BY <1>1, <2>3 DEF AddEntry, Searching
      <3>2. Listed(q, times)
        <4>1. times \in [Ids -> 0..MaxAlarm]
          BY <1>0
        <4> HIDE DEF times
        <4>2. \A x \in q.list : times[x] = q.time /\ q.time # 0
          BY <4>1, Typed, NextQueuedIs
        <4> QED
          BY <4>2 DEF Listed
      <3>3. ListsOK'
        BY <1>0, <2>1, <3>1, <3>2 DEF ListsOK
      <3> QED
        BY <2>2, <3>3
    <2>4. CASE t = 0
      <3>1. alarmQueue' = alarmQueue
        BY <1>1, <2>4 DEF AddEntry
      <3>2. alarmTime[f][e] = 0
        BY <2>1 DEF AlarmedExist
      <3>3. alarmTime' = alarmTime
        BY <1>0, <2>1, <2>4, <3>2
      <3> QED
        BY <2>2, <3>1, <3>3 DEF ListsOK
    <2> QED
      BY <2>3, <2>4
  <1>2. ASSUME NEW e \in Ids, NEW moved \in Ids, NEW t \in 0..MaxAlarm,
               UpdateEntry(f, e, moved, t)
        PROVE  ListsOK' /\ AlarmedExist'
    <2> DEFINE times == [alarmTime[f] EXCEPT ![e] = 0, ![moved] = t]
               had   == alarmTime[f][e] # 0
               after == IF had THEN [g \in Files |-> WithoutEntry(alarmQueue[g], moved)]
                        ELSE alarmQueue
    <2>1. moved = e /\ t # 0
      BY <1>2 DEF UpdateEntry, Update, EditsOnly
    <2>2. /\ entries' = [entries EXCEPT ![f] = (@ \ {e}) \cup {moved}]
          /\ alarmTime' = [alarmTime EXCEPT ![f] = times] /\ times \in [Ids -> 0..MaxAlarm]
      BY <1>0, <1>2 DEF UpdateEntry
    <2>3. AlarmedExist'
      BY <1>0, <2>1, <2>2 DEF AlarmedExist
    <2>4. PICK q \in NextQueued(after[f], times) : alarmQueue' = [after EXCEPT ![f] = q]
      BY <1>2, <2>1 DEF UpdateEntry, Searching
    <2>5. /\ after \in [Files -> AlarmQueue] /\ \A g \in Files : QueueOK(after[g], Built(g))
          /\ \A g \in Files : after[g].list = alarmQueue[g].list
                              /\ after[g].time = alarmQueue[g].time
      <3>1. CASE had
        BY <3>1, Typed, WithoutEntryQueue
      <3>2. CASE ~had
        BY <1>0, <3>2, Typed
      <3> QED
        BY <3>1, <3>2
    <2>6. Listed(q, times)
      <3>1. after[f] \in AlarmQueue /\ QueueOK(after[f], Built(f)) /\ Built(f) \in BOOLEAN
        BY <2>5, Typed
      <3> HIDE DEF after
      <3>2. times \in [Ids -> 0..MaxAlarm]
        BY <2>2
      <3> HIDE DEF times
      <3>3. \A x \in q.list : times[x] = q.time /\ q.time # 0
        BY <2>4, <3>1, <3>2, NextQueuedIs
      <3> QED
        BY <3>3 DEF Listed
    <2>7. ListsOK'
      <3> HIDE DEF after
      <3> SUFFICES ASSUME NEW g \in Files
                   PROVE  Listed(alarmQueue'[g], alarmTime'[g])
        BY DEF ListsOK
      <3>1. CASE g = f
        BY <1>0, <2>2, <2>4, <2>5, <2>6, <3>1
      <3>2. CASE g # f
        <4>1. alarmQueue'[g] = after[g] /\ alarmTime'[g] = alarmTime[g]
          BY <1>0, <2>2, <2>4, <2>5, <3>2
        <4> QED
          BY <2>5, <4>1 DEF ListsOK, Listed
      <3> QED
        BY <3>1, <3>2
    <2> QED
      BY <2>3, <2>7
  <1>3. ASSUME NEW e \in Ids, DeleteEntry(f, e)
        PROVE  ListsOK' /\ AlarmedExist'
    <2> DEFINE times == [alarmTime[f] EXCEPT ![e] = 0]
    <2>1. /\ entries' = [entries EXCEPT ![f] = @ \ {e}]
          /\ alarmTime' = [alarmTime EXCEPT ![f] = times] /\ times \in [Ids -> 0..MaxAlarm]
      BY <1>0, <1>3 DEF DeleteEntry
    <2>2. AlarmedExist'
      BY <1>0, <2>1 DEF AlarmedExist
    <2>3. CASE alarmTime[f][e] # 0
      <3>1. PICK q \in NextQueued(alarmQueue[f], times) :
              alarmQueue' = [g \in Files |-> WithoutEntry(IF g = f THEN q ELSE alarmQueue[g], e)]
        BY <1>3, <2>3 DEF DeleteEntry, Searching
      <3>2. q \in AlarmQueue /\ QueueOK(q, TRUE) /\ Listed(q, times)
        <4> HIDE DEF times
        <4>1. q \in AlarmQueue /\ QueueOK(q, TRUE)
          BY <2>1, Typed, NextQueuedQueue
        <4>2. \A x \in q.list : times[x] = q.time /\ q.time # 0
          BY <2>1, Typed, NextQueuedIs
        <4> QED
          BY <4>1, <4>2 DEF Listed
      <3>3. ASSUME NEW g \in Files
            PROVE  Listed(alarmQueue'[g], alarmTime'[g])
        <4>1. CASE g = f
          <5>1. alarmQueue'[g] = WithoutEntry(q, e) /\ alarmTime'[g] = times
            BY <1>0, <2>1, <3>1, <4>1
          <5>2. WithoutEntry(q, e).list = q.list /\ WithoutEntry(q, e).time = q.time
            BY <3>2, WithoutEntryQueue
          <5> HIDE DEF times
          <5> QED
            BY <3>2, <5>1, <5>2 DEF Listed
        <4>2. CASE g # f
          <5>1. alarmQueue'[g] = WithoutEntry(alarmQueue[g], e) /\ alarmTime'[g] = alarmTime[g]
            BY <1>0, <2>1, <3>1, <4>2
          <5> QED
            BY <5>1, Typed, WithoutEntryQueue DEF Listed, ListsOK
        <4> QED
          BY <4>1, <4>2
      <3> QED
        BY <2>2, <3>3 DEF ListsOK
    <2>4. CASE alarmTime[f][e] = 0
      <3>1. alarmQueue' = alarmQueue
        BY <1>3, <2>4 DEF DeleteEntry, queueVars
      <3>2. alarmTime' = alarmTime
        BY <1>0, <2>1, <2>4
      <3> QED
        BY <2>2, <3>1, <3>2 DEF ListsOK
    <2> QED
      BY <2>3, <2>4
  <1> QED
    BY <1>1, <1>2, <1>3 DEF Change

LEMMA ExpiredListed ==
  ASSUME Inv, NEW f \in Files, NEW g \in Files, AlarmHasExpired(f)
  PROVE  \/ /\ alarmQueue'[g].list \subseteq alarmQueue[g].list
            /\ alarmQueue'[g].time = alarmQueue[g].time
         \/ Listed(alarmQueue'[g], alarmTime[g])
  <1> DEFINE q    == alarmQueue[f]
             rest == q.list \ q.current
             done == [q EXCEPT !.request = "none"]
  <1>0. alarmQueue \in [Files -> AlarmQueue] /\ q \in AlarmQueue
    BY DEF Inv, TypeOK
  <1>1. CASE g # f
    BY <1>0, <1>1 DEF AlarmHasExpired
  <1>2. CASE g = f
    <2>1. CASE \E e \in rest \cap entries[f] :
                 alarmQueue' = [alarmQueue EXCEPT ![f] =
                   [done EXCEPT !.list = rest, !.current = {e}, !.request = "pending",
                                !.session = @ \cup {<<e, q.time>>}]]
      <3>1. PICK e \in rest \cap entries[f] :
              alarmQueue' = [alarmQueue EXCEPT ![f] =
                With(done, rest, {e}, "pending", done.session \cup {<<e, q.time>>})]
        BY <2>1 DEF With
      <3> DEFINE s == done.session \cup {<<e, q.time>>}
      <3>2. done.time = q.time /\ done \in AlarmQueue
        BY <1>0 DEF AlarmQueue
      <3> HIDE DEF done, s
      <3>3. With(done, rest, {e}, "pending", s).list = rest
            /\ With(done, rest, {e}, "pending", s).time = done.time
        BY <3>2 DEF With, AlarmQueue
      <3>4. alarmQueue'[f] = With(done, rest, {e}, "pending", s)
        BY <1>0, <3>1 DEF s
      <3> QED
        BY <1>2, <3>2, <3>3, <3>4
    <2>2. CASE \E r \in NextQueued(done, alarmTime[f]) :
                 alarmQueue' = [alarmQueue EXCEPT ![f] = r]
      <3>1. PICK r \in NextQueued(done, alarmTime[f]) :
              alarmQueue' = [alarmQueue EXCEPT ![f] = r]
        BY <2>2
      <3>2. done \in AlarmQueue /\ QueueOK(done, TRUE)
        BY Typed DEF QueueOK, AlarmHasExpired, AlarmQueue
      <3> HIDE DEF done
      <3>3. Listed(r, alarmTime[f])
        <4>1. alarmTime[f] \in [Ids -> 0..MaxAlarm]
          BY Typed
        <4>2. \A x \in r.list : alarmTime[f][x] = r.time /\ r.time # 0
          BY <3>1, <3>2, <4>1, NextQueuedIs
        <4> QED
          BY <4>2 DEF Listed
      <3>4. alarmQueue'[g] = r
        BY <1>0, <1>2, <3>1
      <3> QED
        BY <1>2, <3>3, <3>4
    <2> QED
      BY <2>1, <2>2 DEF AlarmHasExpired
  <1> QED
    BY <1>1, <1>2

LEMMA CancellationListed ==
  ASSUME Inv, NEW last \in Files, NEW g \in Files, RequeueAlarmsForShutdownCancellation(last)
  PROVE  \/ /\ alarmQueue'[g].list \subseteq alarmQueue[g].list
            /\ alarmQueue'[g].time = alarmQueue[g].time
         \/ Listed(alarmQueue'[g], alarmTime[g])
  <1> DEFINE choices == [f \in Files |->
                           IF Built(f) THEN NextQueued(LostAlarms(alarmQueue[f]), alarmTime[f])
                           ELSE {Cancelled(alarmQueue[f])}]
  <1>1. PICK qs \in [Files -> UNION {choices[f] : f \in Files}] :
          /\ \A f \in Files : qs[f] \in choices[f]
          /\ alarmQueue' = [f \in Files |-> IF f = last THEN qs[f] ELSE LostAlarms(qs[f])]
    BY DEF RequeueAlarmsForShutdownCancellation, LostAlarms
  <1>2. \A q \in AlarmQueue : LostAlarms(q).list = q.list /\ LostAlarms(q).time = q.time
    BY DEF LostAlarms, AlarmQueue
  <1>3. /\ LostAlarms(alarmQueue[g]) \in AlarmQueue
        /\ QueueOK(LostAlarms(alarmQueue[g]), Built(g))
    BY Typed, LostAlarmsQueue
  <1>4. CASE Built(g)
    <2>1. qs[g] \in NextQueued(LostAlarms(alarmQueue[g]), alarmTime[g])
      BY <1>1, <1>4
    <2>2. Listed(qs[g], alarmTime[g]) /\ qs[g] \in AlarmQueue
      <3>1. qs[g] \in AlarmQueue
        BY <1>3, <2>1, Typed, NextQueuedQueue
      <3>2. \A x \in qs[g].list : alarmTime[g][x] = qs[g].time /\ qs[g].time # 0
        BY <1>3, <2>1, Typed, NextQueuedIs
      <3> QED
        BY <3>1, <3>2 DEF Listed
    <2> QED
      BY <1>1, <1>2, <2>2 DEF Listed
  <1>5. CASE ~Built(g)
    <2>1. qs[g] = Cancelled(alarmQueue[g])
      BY <1>1, <1>5
    <2>2. /\ qs[g] \in AlarmQueue /\ qs[g].list = alarmQueue[g].list
          /\ qs[g].time = alarmQueue[g].time
      BY <2>1, Typed, CancelledQueue
    <2> QED
      BY <1>1, <1>2, <2>2
  <1> QED
    BY <1>4, <1>5

LEMMA ListedNext ==
  ASSUME EditsOnly, Inv, Searching, ListsOK, AlarmedExist, [Next]_vars
  PROVE  ListsOK' /\ AlarmedExist'
  <1>1. CASE \E f \in Files : Change(f)
    BY <1>1, ChangeListed
  <1>2. CASE ~\E f \in Files : Change(f)
    <2>1. UNCHANGED entryVars
      <3>1. CASE UNCHANGED vars
        BY <3>1 DEF vars
      <3>2. CASE Tick
        BY <3>2 DEF Tick
      <3>3. ASSUME NEW c \in Clients, StopAlarmUpdates(c) \/ ResetAlarmUpdates(c) \/ ClientDies(c)
            PROVE  UNCHANGED entryVars
        BY <3>3 DEF StopAlarmUpdates, ResetAlarmUpdates, ClientDies
      <3>4. ASSUME NEW closing \in SUBSET OpenFiles, QueueAlarmsImmediatelyForShutdown(closing)
            PROVE  UNCHANGED entryVars
        BY <3>4 DEF QueueAlarmsImmediatelyForShutdown
      <3>5. ASSUME NEW f \in Files,
                   \/ OpenAgenda(f) \/ BuildIndexComplete(f) \/ CloseAgenda(f)
                   \/ SetCalendarInfo(f) \/ RequeueAlarmsForShutdownCancellation(f)
            PROVE  UNCHANGED entryVars
        BY <3>5 DEF OpenAgenda, BuildIndexComplete, CloseAgenda, SetCalendarInfo,
           RequeueAlarmsForShutdownCancellation
      <3>6. ASSUME NEW f \in Files, RunL(f)
            PROVE  UNCHANGED entryVars
        BY <3>6 DEF RunL, AlarmHasExpired, AlarmOfDeletedEntry, AlarmWasCancelled
      <3>7. ASSUME NEW f \in Files, AlarmExpires(f)
            PROVE  UNCHANGED entryVars
        BY <3>7 DEF AlarmExpires, SessionAlarmExpires, OrphanExpires, SnoozedExpires
      <3> QED
        BY <1>2, <3>1, <3>2, <3>3, <3>4, <3>5, <3>6, <3>7 DEF Next
    <2>2. ASSUME NEW g \in Files
          PROVE  \/ alarmQueue'[g].list = {}
                 \/ /\ alarmQueue'[g].list \subseteq alarmQueue[g].list
                    /\ alarmQueue'[g].time = alarmQueue[g].time
                 \/ Listed(alarmQueue'[g], alarmTime[g])
      <3> DEFINE Kept == /\ alarmQueue'[g].list \subseteq alarmQueue[g].list
                         /\ alarmQueue'[g].time = alarmQueue[g].time
      <3>0. /\ alarmQueue \in [Files -> AlarmQueue]
            /\ \A q \in NextQueued(alarmQueue[g], alarmTime[g]) : Listed(q, alarmTime[g])
            /\ Cancelled(alarmQueue[g]).list = alarmQueue[g].list
            /\ Cancelled(alarmQueue[g]).time = alarmQueue[g].time
        <4>1. \A q \in NextQueued(alarmQueue[g], alarmTime[g]) : Listed(q, alarmTime[g])
          BY Typed, NextQueuedIs DEF Listed
        <4>2. /\ Cancelled(alarmQueue[g]).list = alarmQueue[g].list
              /\ Cancelled(alarmQueue[g]).time = alarmQueue[g].time
          BY Typed, CancelledQueue
        <4> QED
          BY <4>1, <4>2 DEF Inv, TypeOK
      <3>1. CASE UNCHANGED alarmQueue
        BY <3>1
      <3>2. ASSUME NEW f \in Files, BuildIndexComplete(f) \/ CloseAgenda(f)
                     \/ SetCalendarInfo(f) \/ AlarmWasCancelled(f) \/ AlarmOfDeletedEntry(f)
            PROVE  Kept \/ alarmQueue'[g].list = {} \/ Listed(alarmQueue'[g], alarmTime[g])
        <4>1. CASE BuildIndexComplete(f)
          BY <3>0, <4>1 DEF BuildIndexComplete
        <4>2. CASE CloseAgenda(f)
          BY <3>0, <4>2, EmptyQueue DEF CloseAgenda
        <4>3. CASE SetCalendarInfo(f) \/ AlarmWasCancelled(f)
          BY <3>0, <4>3 DEF SetCalendarInfo, AlarmWasCancelled
        <4>4. CASE AlarmOfDeletedEntry(f)
          BY <3>0, <4>4, EmptyQueue DEF AlarmOfDeletedEntry
        <4> QED
          BY <3>2, <4>1, <4>2, <4>3, <4>4
      <3>3. ASSUME NEW f \in Files, AlarmHasExpired(f)
            PROVE  Kept \/ Listed(alarmQueue'[g], alarmTime[g])
        BY <3>3, ExpiredListed
      <3>4. ASSUME NEW f \in Files, AlarmExpires(f)
            PROVE  Kept
        <4>1. CASE UNCHANGED alarmQueue
          BY <4>1
        <4>2. ASSUME NEW a \in Ids \X Times, SessionAlarmExpires(f, a)
              PROVE  Kept
          BY <3>0, <4>2 DEF SessionAlarmExpires, AlarmQueue
        <4> QED
          BY <3>4, <4>1, <4>2 DEF AlarmExpires, OrphanExpires, SnoozedExpires
      <3>5. ASSUME NEW closing \in SUBSET OpenFiles, QueueAlarmsImmediatelyForShutdown(closing)
            PROVE  Kept \/ alarmQueue'[g].list = {}
        BY <3>0, <3>5, EmptyQueue DEF QueueAlarmsImmediatelyForShutdown
      <3>6. ASSUME NEW f \in Files, RequeueAlarmsForShutdownCancellation(f)
            PROVE  Kept \/ Listed(alarmQueue'[g], alarmTime[g])
        BY <3>6, CancellationListed
      <3> QED
        BY <1>2, <3>1, <3>2, <3>3, <3>4, <3>5, <3>6
           DEF Next, vars, queueVars, OpenAgenda, StopAlarmUpdates, ClientDies, RunL, Tick,
               EditsOnly, NoBatch
    <2>3. ListsOK'
      BY <2>1, <2>2, ListsKept DEF entryVars
    <2> QED
      BY <2>1, <2>3 DEF AlarmedExist, entryVars
  <1> QED
    BY <1>1, <1>2

\* Types, agreement and lists, as one invariant.
LEMMA ListedAlways ==
  ASSUME EditsOnly
  PROVE  Spec => [](Inv /\ Searching /\ ListsOK /\ AlarmedExist)
  <1>1. Init => ListsOK /\ AlarmedExist
    BY DEF Init, ListsOK, AlarmedExist, Listed, Empty
  <1>2. Inv /\ Searching /\ ListsOK /\ AlarmedExist /\ [Next]_vars => ListsOK' /\ AlarmedExist'
    BY ListedNext
  <1> QED
    BY <1>1, <1>2, SearchingAlways, PTL DEF Spec, EditsOnly

\* As long as updates leave every entry its id and an alarm and no client puts
\* the searches off, RunL finds the entry of every alarm it queues, and the
\* server does not end.
THEOREM ListedEntries == ASSUME EditsOnly PROVE Spec => []ListedEntriesExist
  <1>1. Inv /\ ListsOK /\ AlarmedExist => ListedEntriesExist
    <2> SUFFICES ASSUME Inv, ListsOK, AlarmedExist, NEW f \in Files, NEW e \in alarmQueue[f].list
                 PROVE  e \in entries[f]
      BY DEF ListedEntriesExist
    <2>1. e \in Ids
      BY Typed DEF AlarmQueue
    <2> QED
      BY <2>1 DEF ListsOK, Listed, AlarmedExist
  <1> QED
    BY <1>1, ListedAlways, PTL

-----------------------------------------------------------------------------
(* No alarm twice                                                          *)

\* Calendars are not set up and the phone is not shut down.
NoRequeue == Ops \cap {"info", "shutdown"} = {}

\* While a calendar is built its alarms are the session's; at other times no
\* alarm is left twice.
OrphansOnce ==
  \A f \in Files : \A a \in Ids \X Times :
    orphans[f][a] <= 1 /\ (Built(f) => orphans[f][a] = 0)

LEMMA OrphansOnceNext ==
  ASSUME NoRequeue, Inv, OrphansOnce, [Next]_vars
  PROVE  OrphansOnce'
  <1>0. /\ orphans \in [Files -> [Ids \X Times -> 0..KMaxCopies]]
        /\ fileState \in [Files -> {"closed", "opened", "built"}]
    BY DEF Inv, TypeOK
  <1>1. CASE UNCHANGED <<orphans, fileState>>
    BY <1>1 DEF OrphansOnce, Built
  <1>2. ASSUME NEW f \in Files, OpenAgenda(f)
        PROVE  OrphansOnce'
    BY <1>0, <1>2 DEF OpenAgenda, queueVars, OrphansOnce, Built
  <1>3. ASSUME NEW f \in Files, BuildIndexComplete(f)
        PROVE  OrphansOnce'
    BY <1>0, <1>3 DEF BuildIndexComplete, OrphansOnce, Built
  <1>4. ASSUME NEW f \in Files, CloseAgenda(f)
        PROVE  OrphansOnce'
    <2>1. \A a \in Ids \X Times : FewQueued(f)[a] <= 1
      BY <1>0, TimesAssumption DEF FewQueued, OrphansOnce, Built
    <2>2. orphans' = orphans \/ orphans' = [orphans EXCEPT ![f] = FewQueued(f)]
      BY <1>4 DEF CloseAgenda
    <2>3. fileState' = [fileState EXCEPT ![f] = "closed"]
      BY <1>4 DEF CloseAgenda
    <2> QED
      BY <1>0, <2>1, <2>2, <2>3 DEF OrphansOnce, Built
  <1>5. ASSUME NEW f \in Files, NEW e \in Ids,
               DeleteEntry(f, e)
                 \/ \E moved \in Ids, t \in 0..MaxAlarm : UpdateEntry(f, e, moved, t)
        PROVE  OrphansOnce'
    <2>1. fileState' = fileState
      BY <1>5 DEF DeleteEntry, UpdateEntry, fileVars
    <2>2. \/ orphans' = orphans
          \/ \E x \in Ids : orphans' = [g \in Files |-> [a \in Ids \X Times |->
                                        IF a[1] = x THEN 0 ELSE orphans[g][a]]]
      BY <1>5 DEF DeleteEntry, UpdateEntry, queueVars, DeleteEntriesAlarm
    <2> QED
      BY <1>0, <2>1, <2>2 DEF OrphansOnce, Built
  <1>6. ASSUME NEW f \in Files, NEW a \in Ids \X Times, OrphanExpires(f, a)
        PROVE  OrphansOnce'
    <2>1. fileState' = fileState
      BY <1>6 DEF OrphanExpires, fileVars
    <2>2. orphans' = [orphans EXCEPT ![f][a] = @ - 1] /\ orphans[f][a] > 0
      BY <1>6 DEF OrphanExpires
    <2>3. orphans[f][a] = 1 /\ ~Built(f)
      BY <1>0, <2>2 DEF OrphansOnce
    <2> QED
      BY <1>0, <2>1, <2>2, <2>3 DEF OrphansOnce, Built
  <1>7. ASSUME NEW f \in Files, AlarmOfDeletedEntry(f)
        PROVE  OrphansOnce'
    BY <1>7 DEF AlarmOfDeletedEntry, OrphansOnce, Built
  <1>8. ASSUME NEW f \in Files, Change(f)
        PROVE  OrphansOnce'
    <2>1. ASSUME NEW e \in Ids, NEW t \in 0..MaxAlarm, AddEntry(f, e, t)
          PROVE  UNCHANGED <<orphans, fileState>>
      BY <2>1 DEF AddEntry, fileVars
    <2> QED
      BY <1>1, <1>5, <1>8, <2>1 DEF Change
  <1>9. ASSUME NEW f \in Files, RunL(f) \/ AlarmExpires(f)
        PROVE  OrphansOnce'
    <2>1. CASE AlarmHasExpired(f) \/ AlarmWasCancelled(f)
      BY <1>1, <2>1 DEF AlarmHasExpired, AlarmWasCancelled, fileVars
    <2>2. ASSUME \/ \E a \in Ids \X Times : SessionAlarmExpires(f, a)
                 \/ \E a \in Ids \X Late : SnoozedExpires(f, a)
          PROVE  OrphansOnce'
      BY <1>1, <2>2 DEF SessionAlarmExpires, SnoozedExpires, fileVars
    <2> QED
      BY <1>6, <1>7, <1>9, <2>1, <2>2 DEF RunL, AlarmExpires
  <1>10. ASSUME \/ Tick \/ UNCHANGED vars
                \/ \E c \in Clients : StopAlarmUpdates(c) \/ ResetAlarmUpdates(c) \/ ClientDies(c)
         PROVE  OrphansOnce'
    BY <1>1, <1>10 DEF Tick, vars, queueVars, fileVars, StopAlarmUpdates, ResetAlarmUpdates,
       ClientDies
  <1>11. /\ \A f \in Files : ~SetCalendarInfo(f) /\ ~RequeueAlarmsForShutdownCancellation(f)
         /\ \A closing \in SUBSET OpenFiles : ~QueueAlarmsImmediatelyForShutdown(closing)
    BY DEF NoRequeue, SetCalendarInfo, RequeueAlarmsForShutdownCancellation,
       QueueAlarmsImmediatelyForShutdown
  <1> QED
    BY <1>2, <1>3, <1>4, <1>8, <1>9, <1>10, <1>11 DEF Next

\* While calendars only open, close and change, an alarm is either the session's
\* or an orphan, once.
THEOREM NoAlarmTwice == ASSUME NoRequeue PROVE Spec => []NotQueuedTwice
  <1>1. Init => OrphansOnce
    BY DEF Init, OrphansOnce, Built
  <1>2. Inv /\ BatchBuilt /\ OrphansOnce /\ [Next]_vars => OrphansOnce'
    BY OrphansOnceNext
  <1>3. Inv /\ OrphansOnce => NotQueuedTwice
    <2> SUFFICES ASSUME Inv, OrphansOnce, NEW f \in Files, NEW a \in Ids \X Times
                 PROVE  orphans[f][a] + (IF a \in alarmQueue[f].session THEN 1 ELSE 0) <= 1
      BY DEF NotQueuedTwice
    <2>1. a \in alarmQueue[f].session => Built(f)
      BY Typed DEF QueueOK
    <2>2. orphans[f][a] \in Nat
      BY TimesAssumption DEF Inv, TypeOK
    <2> QED
      BY <2>1, <2>2 DEF OrphansOnce
  <1> QED
    BY <1>1, <1>2, <1>3, InvInvariant, PTL DEF Spec

-----------------------------------------------------------------------------
(* No alarm of an entry that is gone                                       *)

OrphansQuiet == \A f \in Files : \A a \in Ids \X Times :
                  orphans[f][a] > 0 => alarmTime[f][a[1]] = a[2]
SnoozedQuiet == \A f \in Files : \A a \in snoozed[f] :
                  a[1] \in entries[f] /\ alarmTime[f][a[1]] # 0

LEMMA FewQueuedQuiet ==
  ASSUME Inv, OrphansQuiet, NEW f \in Files, NEW a \in Ids \X Times, FewQueued(f)[a] > 0
  PROVE  alarmTime[f][a[1]] = a[2]
  BY TimesAssumption DEF FewQueued, OrphansQuiet

\* An entry changes: f's entry e gets the alarm t, or 0, and keeps existing as
\* long as t is not 0; what was left of its old alarm is deleted.
LEMMA ChangedQuiet ==
  ASSUME Inv, OrphansQuiet, SnoozedQuiet, NEW f \in Files, NEW e \in Ids,
         NEW t \in 0..MaxAlarm,
         alarmTime' = [alarmTime EXCEPT ![f] = [@ EXCEPT ![e] = t]],
         \A g \in Files : \A x \in entries[g] : (g = f /\ x = e) \/ x \in entries'[g],
         \/ DeleteEntriesAlarm(e)
         \/ UNCHANGED <<orphans, snoozed>> /\ alarmTime[f][e] = 0
  PROVE  OrphansQuiet' /\ SnoozedQuiet'
  <1>0. /\ orphans \in [Files -> [Ids \X Times -> 0..KMaxCopies]]
        /\ alarmTime \in [Files -> [Ids -> 0..MaxAlarm]]
        /\ snoozed \in [Files -> SUBSET (Ids \X Late)]
    BY DEF Inv, TypeOK
  <1>1. \A g \in Files : \A x \in Ids : (g = f /\ x = e) \/ alarmTime'[g][x] = alarmTime[g][x]
    BY <1>0
  <1>2. ASSUME NEW g \in Files, NEW a \in Ids \X Times, orphans'[g][a] > 0
        PROVE  orphans[g][a] > 0 /\ ~(g = f /\ a[1] = e)
    <2>1. CASE DeleteEntriesAlarm(e)
      BY <1>0, <1>2, <2>1 DEF DeleteEntriesAlarm
    <2>2. CASE UNCHANGED orphans /\ alarmTime[f][e] = 0
      BY <1>2, <2>2, TimesAssumption DEF OrphansQuiet, Times
    <2> QED
      BY <2>1, <2>2
  <1>3. ASSUME NEW g \in Files, NEW a \in snoozed'[g]
        PROVE  a \in snoozed[g] /\ ~(g = f /\ a[1] = e)
    <2>1. CASE DeleteEntriesAlarm(e)
      BY <1>0, <1>3, <2>1 DEF DeleteEntriesAlarm
    <2>2. CASE UNCHANGED snoozed /\ alarmTime[f][e] = 0
      BY <1>3, <2>2 DEF SnoozedQuiet
    <2> QED
      BY <2>1, <2>2
  <1>4. OrphansQuiet'
    BY <1>1, <1>2 DEF OrphansQuiet
  <1>5. SnoozedQuiet'
    <2> SUFFICES ASSUME NEW g \in Files, NEW a \in snoozed'[g]
                 PROVE  a[1] \in entries'[g] /\ alarmTime'[g][a[1]] # 0
      BY DEF SnoozedQuiet
    <2>1. a \in snoozed[g] /\ ~(g = f /\ a[1] = e)
      BY <1>3
    <2>2. a[1] \in Ids /\ a[1] \in entries[g] /\ alarmTime[g][a[1]] # 0
      BY <1>0, <2>1 DEF SnoozedQuiet
    <2> QED
      BY <1>1, <2>1, <2>2
  <1> QED
    BY <1>4, <1>5

\* The alarm of an entry rings and may be put off.
LEMMA RingQuiet ==
  ASSUME Inv, OrphansQuiet, SnoozedQuiet, AlarmedExist, NEW f \in Files, NEW e \in Ids,
         UNCHANGED entryVars, Snooze(f, e), alarmTime[f][e] # 0,
         \A g \in Files : \A a \in Ids \X Times : orphans'[g][a] > 0 => orphans[g][a] > 0
  PROVE  OrphansQuiet' /\ SnoozedQuiet'
  <1>1. OrphansQuiet'
    BY DEF OrphansQuiet, entryVars
  <1>2. \A g \in Files : \A a \in snoozed'[g] : a \in snoozed[g] \/ (g = f /\ a[1] = e)
    BY DEF Snooze, Inv, TypeOK
  <1>3. SnoozedQuiet'
    BY <1>2 DEF SnoozedQuiet, AlarmedExist, entryVars
  <1> QED
    BY <1>1, <1>3

LEMMA QuietNext ==
  ASSUME EditsOnly, Inv, Searching, ListsOK, AlarmedExist, OrphansQuiet, SnoozedQuiet,
         [Next]_vars
  PROVE  OrphansQuiet' /\ SnoozedQuiet'
  <1>0. /\ orphans \in [Files -> [Ids \X Times -> 0..KMaxCopies]]
        /\ alarmTime \in [Files -> [Ids -> 0..MaxAlarm]]
        /\ snoozed \in [Files -> SUBSET (Ids \X Late)]
        /\ entries \in [Files -> SUBSET Ids]
        /\ 0 \in 0..MaxAlarm
    <2>1. 0 \in 0..MaxAlarm
      BY TimesAssumption
    <2> QED
      BY <2>1 DEF Inv, TypeOK
  <1>1. CASE UNCHANGED <<orphans, snoozed, entryVars>>
    BY <1>1 DEF OrphansQuiet, SnoozedQuiet, entryVars
  <1>2. ASSUME NEW f \in Files, BuildIndexComplete(f) \/ RequeueAlarmsForShutdownCancellation(f)
        PROVE  OrphansQuiet' /\ SnoozedQuiet'
    <2>1. \A g \in Files : \A a \in Ids \X Times :
            orphans'[g][a] = 0 \/ orphans'[g][a] = orphans[g][a]
      <3>1. CASE BuildIndexComplete(f)
        BY <1>0, <3>1 DEF BuildIndexComplete
      <3>2. CASE RequeueAlarmsForShutdownCancellation(f)
        <4>1. orphans' = [g \in Files |-> [a \in Ids \X Times |-> 0]]
          BY <3>2 DEF RequeueAlarmsForShutdownCancellation
        <4> QED
          BY <4>1
      <3> QED
        BY <1>2, <3>1, <3>2
    <2>2. \A g \in Files : snoozed'[g] \subseteq snoozed[g]
      BY <1>0, <1>2 DEF BuildIndexComplete, RequeueAlarmsForShutdownCancellation
    <2>3. UNCHANGED entryVars
      BY <1>2 DEF BuildIndexComplete, RequeueAlarmsForShutdownCancellation
    <2> QED
      BY <2>1, <2>2, <2>3 DEF OrphansQuiet, SnoozedQuiet, entryVars
  <1>3. ASSUME UNCHANGED <<entryVars, snoozed>>,
               \A g \in Files : orphans'[g] = orphans[g] \/ orphans'[g] = FewQueued(g)
        PROVE  OrphansQuiet' /\ SnoozedQuiet'
    <2>1. SnoozedQuiet'
      BY <1>3 DEF SnoozedQuiet, entryVars
    <2>2. ASSUME NEW g \in Files, NEW a \in Ids \X Times, orphans'[g][a] > 0
          PROVE  alarmTime[g][a[1]] = a[2]
      BY <1>3, <2>2, FewQueuedQuiet DEF OrphansQuiet
    <2> QED
      BY <1>3, <2>1, <2>2 DEF OrphansQuiet, entryVars
  <1>4. ASSUME NEW f \in Files, CloseAgenda(f) \/ SetCalendarInfo(f)
        PROVE  OrphansQuiet' /\ SnoozedQuiet'
    <2>1. UNCHANGED <<entryVars, snoozed>>
      BY <1>4 DEF CloseAgenda, SetCalendarInfo
    <2>2. orphans' = orphans \/ orphans' = [orphans EXCEPT ![f] = FewQueued(f)]
      BY <1>4 DEF CloseAgenda, SetCalendarInfo
    <2> QED
      BY <1>0, <1>3, <2>1, <2>2
  <1>5. ASSUME NEW closing \in SUBSET OpenFiles, QueueAlarmsImmediatelyForShutdown(closing)
        PROVE  OrphansQuiet' /\ SnoozedQuiet'
    BY <1>3, <1>5 DEF QueueAlarmsImmediatelyForShutdown
  <1>6. ASSUME NEW f \in Files, Change(f)
        PROVE  OrphansQuiet' /\ SnoozedQuiet'
    <2>1. ASSUME NEW e \in Ids, NEW t \in 0..MaxAlarm, AddEntry(f, e, t)
          PROVE  OrphansQuiet' /\ SnoozedQuiet'
      <3>1. /\ entries' = [entries EXCEPT ![f] = @ \cup {e}] /\ alarmTime[f][e] = 0
            /\ alarmTime' = [alarmTime EXCEPT ![f] = [@ EXCEPT ![e] = t]]
            /\ UNCHANGED <<orphans, snoozed>>
        BY <2>1 DEF AddEntry, AlarmedExist
      <3>2. \A g \in Files : entries[g] \subseteq entries'[g]
        BY <1>0, <3>1
      <3> QED
        BY <3>1, <3>2, ChangedQuiet
    <2>2. ASSUME NEW e \in Ids, NEW moved \in Ids, NEW t \in 0..MaxAlarm,
                 UpdateEntry(f, e, moved, t)
          PROVE  OrphansQuiet' /\ SnoozedQuiet'
      <3>1. moved = e /\ e \in entries[f]
        BY <2>2 DEF UpdateEntry, Update, EditsOnly
      <3>2. /\ entries' = [entries EXCEPT ![f] = (@ \ {e}) \cup {moved}]
            /\ alarmTime' = [alarmTime EXCEPT ![f] = [@ EXCEPT ![e] = 0, ![moved] = t]]
        BY <2>2 DEF UpdateEntry
      <3>3. alarmTime' = [alarmTime EXCEPT ![f] = [@ EXCEPT ![e] = t]]
        BY <1>0, <3>1, <3>2
      <3>4. \A g \in Files : entries[g] \subseteq entries'[g]
        BY <1>0, <3>1, <3>2
      <3>5. \/ DeleteEntriesAlarm(e)
            \/ UNCHANGED <<orphans, snoozed>> /\ alarmTime[f][e] = 0
        BY <2>2, <3>1 DEF UpdateEntry
      <3> QED
        BY <3>3, <3>4, <3>5, ChangedQuiet
    <2>3. ASSUME NEW e \in Ids, DeleteEntry(f, e)
          PROVE  OrphansQuiet' /\ SnoozedQuiet'
      <3>1. /\ entries' = [entries EXCEPT ![f] = @ \ {e}]
            /\ alarmTime' = [alarmTime EXCEPT ![f] = [@ EXCEPT ![e] = 0]]
        BY <2>3 DEF DeleteEntry
      <3>2. \A g \in Files : \A x \in entries[g] : (g = f /\ x = e) \/ x \in entries'[g]
        BY <1>0, <3>1
      <3>3. \/ DeleteEntriesAlarm(e)
            \/ UNCHANGED <<orphans, snoozed>> /\ alarmTime[f][e] = 0
        BY <2>3 DEF DeleteEntry, Searching, queueVars
      <3> QED
        BY <1>0, <3>1, <3>2, <3>3, ChangedQuiet
    <2> QED
      BY <1>6, <2>1, <2>2, <2>3 DEF Change
  <1>7. ASSUME NEW f \in Files, AlarmExpires(f)
        PROVE  OrphansQuiet' /\ SnoozedQuiet'
    <2>1. ASSUME NEW a \in Ids \X Times, SessionAlarmExpires(f, a)
          PROVE  OrphansQuiet' /\ SnoozedQuiet'
      <3>1. /\ UNCHANGED entryVars /\ UNCHANGED orphans /\ Snooze(f, a[1])
            /\ a \in alarmQueue[f].session
        BY <2>1 DEF SessionAlarmExpires
      <3>2. alarmTime[f][a[1]] # 0
        BY <3>1, SessionAlarm DEF ListsOK, Listed
      <3> QED
        BY <3>1, <3>2, RingQuiet
    <2>2. ASSUME NEW a \in Ids \X Times, OrphanExpires(f, a)
          PROVE  OrphansQuiet' /\ SnoozedQuiet'
      <3>1. /\ UNCHANGED entryVars /\ Snooze(f, a[1]) /\ orphans[f][a] > 0
            /\ orphans' = [orphans EXCEPT ![f][a] = @ - 1]
        BY <2>2 DEF OrphanExpires
      <3>2. alarmTime[f][a[1]] # 0
        BY <3>1, TimesAssumption DEF OrphansQuiet, Times
      <3>3. \A g \in Files : \A b \in Ids \X Times : orphans'[g][b] > 0 => orphans[g][b] > 0
        BY <1>0, <3>1
      <3> QED
        BY <3>1, <3>2, <3>3, RingQuiet
    <2>3. ASSUME NEW a \in Ids \X Late, SnoozedExpires(f, a)
          PROVE  OrphansQuiet' /\ SnoozedQuiet'
      BY <1>0, <2>3 DEF SnoozedExpires, OrphansQuiet, SnoozedQuiet, entryVars
    <2> QED
      BY <1>7, <2>1, <2>2, <2>3 DEF AlarmExpires
  <1> QED
    BY <1>1, <1>2, <1>4, <1>5, <1>6, <1>7
       DEF Next, vars, queueVars, OpenAgenda, StopAlarmUpdates, ResetAlarmUpdates, ClientDies,
           RunL, AlarmHasExpired, AlarmOfDeletedEntry, AlarmWasCancelled, Tick

\* As long as updates leave every entry its id and an alarm and no client puts
\* the searches off, the alarm server holds no alarm of an entry that is gone
\* or has another alarm now.
THEOREM DeletedAreQuiet == ASSUME EditsOnly PROVE Spec => []DeletedStaysQuiet
  <1>1. Init => OrphansQuiet /\ SnoozedQuiet
    BY DEF Init, OrphansQuiet, SnoozedQuiet
  <1>2. Inv /\ Searching /\ ListsOK /\ AlarmedExist /\ OrphansQuiet /\ SnoozedQuiet /\ [Next]_vars
          => OrphansQuiet' /\ SnoozedQuiet'
    BY QuietNext
  <1>3. Inv /\ ListsOK /\ OrphansQuiet /\ SnoozedQuiet => DeletedStaysQuiet
    <2> SUFFICES ASSUME Inv, ListsOK, OrphansQuiet, SnoozedQuiet, NEW f \in Files,
                        NEW a \in Ids \X Times, a \in alarmQueue[f].session
                 PROVE  alarmTime[f][a[1]] = a[2]
      BY DEF DeletedStaysQuiet, OrphansQuiet, SnoozedQuiet
    <2> QED
      BY SessionAlarm DEF ListsOK, Listed
  <1> QED
    BY <1>1, <1>2, <1>3, ListedAlways, PTL DEF Spec

-----------------------------------------------------------------------------
(* The next alarm is queued                                                *)

LEMMA Smallest ==
  ASSUME NEW T \in SUBSET Nat, T # {}
  PROVE  \E x \in T : \A y \in T : x <= y
  <1> DEFINE R == {ss \in Nat \X Nat : ss[1] < ss[2]}
  <1>1. IsWellFoundedOn(R, Nat)
    BY NatLessThanWellFounded, Zenon DEF OpToRel
  <1>2. PICK x \in T : \A y \in T : <<y, x>> \notin R
    <2> HIDE DEF R
    <2> QED
      BY <1>1, WFMin
  <1>3. \A y \in T : ~(y < x)
    BY <1>2
  <1> QED
    BY <1>3

\* All alarms are within the days the first search covers.
WithinReach == MaxAlarm <= 2 * KDay
\* No two files have entries with the same id.
OwnIds == \A f, g \in Files : f # g => IdsIn[f] \cap IdsIn[g] = {}

OwnEntries == \A f \in Files : entries[f] \subseteq IdsIn[f]
NextOK(q, times, t) ==
  \A e \in Ids : times[e] > t + KSkip =>
    \/ q.request = "KErrNone" /\ q.time <= t
    \/ q.request = "pending" /\ q.time <= times[e]
NextsOK == \A f \in Files : Built(f) => NextOK(alarmQueue[f], alarmTime[f], now)

LEMMA MidnightBefore ==
  ASSUME NEW t \in Nat
  PROVE  Midnight(t) \in Int /\ Midnight(t) <= t
  <1>1. t % KDay \in 0..(KDay - 1)
    BY TimesAssumption
  <1> QED
    BY <1>1, TimesAssumption DEF Midnight

\* A search that reaches all alarms finds the next one.
LEMMA NextQueuedNext ==
  ASSUME WithinReach, Inv, NEW q \in AlarmQueue, NEW b \in BOOLEAN, QueueOK(q, b),
         NEW times \in [Ids -> 0..MaxAlarm], NEW r \in NextQueued(q, times)
  PROVE  NextOK(r, times, now)
  <1> SUFFICES ASSUME NEW e \in Ids, times[e] > now + KSkip
               PROVE  r.request = "pending" /\ r.time <= times[e]
    BY DEF NextOK
  <1> DEFINE from == SearchFrom(q, KSkip)
             later == {x \in Ids : times[x] > from}
  <1>1. from \in Nat /\ from <= now + KSkip /\ now \in Nat
    BY TimesAssumption DEF SearchFrom, Inv, TypeOK
  <1> HIDE DEF from
  <1>2. \A x \in Ids : times[x] \in Nat /\ times[x] <= 2 * KDay
    BY TimesAssumption DEF WithinReach
  <1>3. \A x \in later : x \in FindInstances(times, from)
    <2> SUFFICES ASSUME NEW x \in later
                 PROVE  x \in FindInstances(times, from)
      OBVIOUS
    <2>1. x \in Found(times, from, 0)
      <3>1. times[x] + KDay >= Midnight(from) /\ times[x] <= from + 2 * KDay /\ times[x] # 0
        BY <1>1, <1>2, MidnightBefore, TimesAssumption
      <3> QED
        BY <3>1 DEF Found
    <2>2. 0 \in {n \in 0..KWindows : \A j \in 0..KWindows : j < n => Found(times, from, j) = {}}
      BY TimesAssumption
    <2> QED
      BY <2>1, <2>2 DEF FindInstances
  <1>4. e \in later
    BY <1>1, <1>2, TimesAssumption
  <1>5. PICK x \in later : \A y \in later : times[x] <= times[y]
    <2> DEFINE T == {times[y] : y \in later}
    <2>1. T \in SUBSET Nat /\ T # {}
      BY <1>2, <1>4
    <2> HIDE DEF T
    <2>2. PICK m \in T : \A n \in T : m <= n
      BY <2>1, Smallest
    <2> QED
      BY <2>2 DEF T
  <1>6. x \in NextAlarms(times, from)
    <2>1. \A y \in FindInstances(times, from) : y \in Ids
      BY DEF FindInstances, Found
    <2> QED
      BY <1>3, <1>5, <2>1 DEF NextAlarms
  <1>7. r.list = NextAlarms(times, from) /\ r.request = "pending" /\ r.time = times[x]
    BY <1>6, NextQueuedIs DEF from
  <1> QED
    BY <1>4, <1>5, <1>7

\* Deleting the alarms of an entry that is not in the list changes no request.
LEMMA WithoutOther ==
  ASSUME NEW q \in AlarmQueue, NEW b \in BOOLEAN, QueueOK(q, b), NEW e \in Ids, e \notin q.list
  PROVE  WithoutEntry(q, e).request = q.request /\ WithoutEntry(q, e).time = q.time
  <1>1. ~(q.request = "pending" /\ e \in q.current)
    BY DEF QueueOK
  <1> QED
    BY <1>1 DEF WithoutEntry, AlarmQueue

LEMMA ChangeNexts ==
  ASSUME EditsOnly, WithinReach, OwnIds, Inv, Searching, ListsOK, AlarmedExist, OwnEntries,
         NextsOK, NEW f \in Files, Change(f)
  PROVE  NextsOK'
  <1>0. /\ alarmTime \in [Files -> [Ids -> 0..MaxAlarm]] /\ alarmQueue \in [Files -> AlarmQueue]
        /\ 0 \in 0..MaxAlarm
    <2>1. 0 \in 0..MaxAlarm
      BY TimesAssumption
    <2> QED
      BY <2>1 DEF Inv, TypeOK
  \* It is enough that the file that changes has searched, and that the requests
  \* of the others stay.
  <1>1. ASSUME UNCHANGED <<now, fileState>>,
               NEW times, alarmTime' = [alarmTime EXCEPT ![f] = times],
               NextOK(alarmQueue'[f], times, now),
               \A g \in Files : g # f =>
                 /\ alarmQueue'[g].request = alarmQueue[g].request
                 /\ alarmQueue'[g].time = alarmQueue[g].time
        PROVE  NextsOK'
    <2> SUFFICES ASSUME NEW g \in Files, Built(g)
                 PROVE  NextOK(alarmQueue'[g], alarmTime'[g], now)
      BY <1>1 DEF NextsOK, Built
    <2>1. CASE g = f
      BY <1>0, <1>1, <2>1
    <2>2. CASE g # f
      BY <1>0, <1>1, <2>2 DEF NextsOK, NextOK
    <2> QED
      BY <2>1, <2>2
  <1>2. ASSUME UNCHANGED <<now, fileState, alarmTime, alarmQueue>>
        PROVE  NextsOK'
    BY <1>2 DEF NextsOK, NextOK, Built
  <1>3. \A g \in Files : g # f => \A e \in entries[f] : e \notin alarmQueue[g].list
    <2> SUFFICES ASSUME NEW g \in Files, g # f, NEW e \in entries[f], e \in alarmQueue[g].list
                 PROVE  FALSE
      OBVIOUS
    <2>1. e \in Ids
      BY Typed DEF AlarmQueue
    <2>2. e \in entries[g]
      BY <2>1 DEF ListsOK, Listed, AlarmedExist
    <2> QED
      BY <2>2 DEF OwnEntries, OwnIds
  <1>4. ASSUME NEW e \in Ids, NEW t \in 0..MaxAlarm, AddEntry(f, e, t)
        PROVE  NextsOK'
    <2> DEFINE times == [alarmTime[f] EXCEPT ![e] = t]
    <2>1. /\ UNCHANGED <<now, fileState>> /\ alarmTime' = [alarmTime EXCEPT ![f] = times]
          /\ alarmTime[f][e] = 0 /\ times \in [Ids -> 0..MaxAlarm]
      BY <1>0, <1>4 DEF AddEntry, fileVars, AlarmedExist
    <2>2. CASE t # 0
      <3>1. PICK q \in NextQueued(alarmQueue[f], times) :
              alarmQueue' = [alarmQueue EXCEPT ![f] = q]
        BY <1>4, <2>2 DEF AddEntry, Searching
      <3> HIDE DEF times
      <3>2. NextOK(q, times, now)
        BY <2>1, <3>1, Typed, NextQueuedNext
      <3> QED
        BY <1>0, <1>1, <2>1, <3>1, <3>2
    <2>3. CASE t = 0
      <3>1. alarmTime' = alarmTime
        BY <1>0, <2>1, <2>3
      <3>2. alarmQueue' = alarmQueue
        BY <1>4, <2>3 DEF AddEntry
      <3> QED
        BY <1>2, <2>1, <3>1, <3>2
    <2> QED
      BY <2>2, <2>3
  <1>5. ASSUME NEW e \in Ids, NEW moved \in Ids, NEW t \in 0..MaxAlarm,
               UpdateEntry(f, e, moved, t)
        PROVE  NextsOK'
    <2> DEFINE times == [alarmTime[f] EXCEPT ![e] = 0, ![moved] = t]
               had   == alarmTime[f][e] # 0
               after == IF had THEN [g \in Files |-> WithoutEntry(alarmQueue[g], moved)]
                        ELSE alarmQueue
    <2>1. moved = e /\ t # 0 /\ e \in entries[f]
      BY <1>5 DEF UpdateEntry, Update, EditsOnly
    <2>2. /\ UNCHANGED <<now, fileState>> /\ alarmTime' = [alarmTime EXCEPT ![f] = times]
          /\ times \in [Ids -> 0..MaxAlarm]
      BY <1>0, <1>5 DEF UpdateEntry, fileVars
    <2>3. PICK q \in NextQueued(after[f], times) : alarmQueue' = [after EXCEPT ![f] = q]
      BY <1>5, <2>1 DEF UpdateEntry, Searching
    <2>4. after \in [Files -> AlarmQueue] /\ QueueOK(after[f], Built(f))
      <3>1. CASE had
        BY <3>1, Typed, WithoutEntryQueue
      <3>2. CASE ~had
        BY <1>0, <3>2, Typed
      <3> QED
        BY <3>1, <3>2
    <2>5. \A g \in Files : g # f => /\ after[g].request = alarmQueue[g].request
                                   /\ after[g].time = alarmQueue[g].time
      BY <1>3, <2>1, Typed, WithoutOther
    <2>6. after[f] \in AlarmQueue /\ Built(f) \in BOOLEAN
      BY <2>4, Typed
    <2> HIDE DEF times, after
    <2>7. NextOK(q, times, now)
      BY <2>2, <2>3, <2>4, <2>6, NextQueuedNext
    <2>8. alarmQueue'[f] = q /\ \A g \in Files : g # f => alarmQueue'[g] = after[g]
      BY <2>3, <2>4
    <2> QED
      BY <1>1, <2>2, <2>5, <2>7, <2>8
  <1>6. ASSUME NEW e \in Ids, DeleteEntry(f, e)
        PROVE  NextsOK'
    <2> DEFINE times == [alarmTime[f] EXCEPT ![e] = 0]
    <2>1. /\ UNCHANGED <<now, fileState>> /\ alarmTime' = [alarmTime EXCEPT ![f] = times]
          /\ times \in [Ids -> 0..MaxAlarm] /\ times[e] = 0 /\ e \in entries[f]
      BY <1>0, <1>6 DEF DeleteEntry, fileVars
    <2>2. CASE alarmTime[f][e] # 0
      <3>1. PICK q \in NextQueued(alarmQueue[f], times) :
              alarmQueue' = [g \in Files |-> WithoutEntry(IF g = f THEN q ELSE alarmQueue[g], e)]
        BY <1>6, <2>2 DEF DeleteEntry, Searching
      <3> HIDE DEF times
      <3>2. NextOK(q, times, now) /\ q \in AlarmQueue /\ QueueOK(q, TRUE)
        <4>1. NextOK(q, times, now)
          BY <2>1, <3>1, Typed, NextQueuedNext
        <4>2. q \in AlarmQueue /\ QueueOK(q, TRUE)
          BY <2>1, <3>1, Typed, NextQueuedQueue
        <4> QED
          BY <4>1, <4>2
      <3>3. \A x \in q.list : times[x] = q.time /\ q.time # 0
        BY <2>1, <3>1, Typed, NextQueuedIs
      <3>4. e \notin q.list
        BY <2>1, <3>3
      <3>5. NextOK(alarmQueue'[f], times, now)
        <4>1. /\ WithoutEntry(q, e).request = q.request
              /\ WithoutEntry(q, e).time = q.time
          BY <3>2, <3>4, WithoutOther
        <4>2. alarmQueue'[f] = WithoutEntry(q, e)
          BY <3>1
        <4> QED
          BY <3>2, <4>1, <4>2 DEF NextOK
      <3>6. \A g \in Files : g # f => /\ alarmQueue'[g].request = alarmQueue[g].request
                                     /\ alarmQueue'[g].time = alarmQueue[g].time
        BY <1>3, <2>1, <3>1, Typed, WithoutOther
      <3> QED
        BY <1>1, <2>1, <3>5, <3>6
    <2>3. CASE alarmTime[f][e] = 0
      <3>1. alarmTime' = alarmTime
        BY <1>0, <2>1, <2>3
      <3>2. alarmQueue' = alarmQueue
        BY <1>6, <2>3 DEF DeleteEntry, queueVars
      <3> QED
        BY <1>2, <2>1, <3>1, <3>2
    <2> QED
      BY <2>2, <2>3
  <1> QED
    BY <1>4, <1>5, <1>6 DEF Change

\* The alarm of the request goes off, or its request is taken up.
LEMMA ServerNexts ==
  ASSUME EditsOnly, WithinReach, Inv, NextsOK, NEW f \in Files, RunL(f) \/ AlarmExpires(f)
  PROVE  NextsOK'
  <1> DEFINE q == alarmQueue[f]
  <1>0. /\ alarmQueue \in [Files -> AlarmQueue] /\ q \in AlarmQueue /\ now \in Nat
        /\ alarmTime \in [Files -> [Ids -> 0..MaxAlarm]]
        /\ fileState \in [Files -> {"closed", "opened", "built"}]
    BY DEF Inv, TypeOK
  <1>1. ASSUME UNCHANGED <<now, fileState, alarmTime>>, Built(f) => NextOK(alarmQueue'[f], alarmTime[f], now),
               \A g \in Files : g # f => alarmQueue'[g] = alarmQueue[g]
        PROVE  NextsOK'
    <2> SUFFICES ASSUME NEW g \in Files, Built(g)
                 PROVE  NextOK(alarmQueue'[g], alarmTime[g], now)
      BY <1>1 DEF NextsOK, Built
    <2> QED
      BY <1>1 DEF NextsOK
  <1>2. CASE AlarmHasExpired(f)
    <2> DEFINE rest == q.list \ q.current
               done == [q EXCEPT !.request = "none"]
    <2>1. /\ UNCHANGED <<now, fileState, alarmTime>> /\ q.request = "KErrNone"
          /\ \A g \in Files : g # f => alarmQueue'[g] = alarmQueue[g]
      BY <1>0, <1>2 DEF AlarmHasExpired, fileVars, entryVars
    <2>2. Built(f)
      BY <2>1, Typed DEF QueueOK
    <2>3. CASE \E e \in rest \cap entries[f] :
                 alarmQueue' = [alarmQueue EXCEPT ![f] =
                   [done EXCEPT !.list = rest, !.current = {e}, !.request = "pending",
                                !.session = @ \cup {<<e, q.time>>}]]
      <3>1. PICK e \in rest \cap entries[f] :
              alarmQueue' = [alarmQueue EXCEPT ![f] =
                With(done, rest, {e}, "pending", done.session \cup {<<e, q.time>>})]
        BY <2>3 DEF With
      <3> DEFINE s == done.session \cup {<<e, q.time>>}
      <3>2. done.time = q.time /\ done \in AlarmQueue
        BY <1>0 DEF AlarmQueue
      <3> HIDE DEF done, s
      <3>3. With(done, rest, {e}, "pending", s).request = "pending"
            /\ With(done, rest, {e}, "pending", s).time = done.time
        BY <3>2 DEF With, AlarmQueue
      <3>4. alarmQueue'[f] = With(done, rest, {e}, "pending", s)
        BY <1>0, <3>1 DEF s
      <3>5. alarmQueue'[f].request = "pending" /\ alarmQueue'[f].time = q.time
        BY <3>2, <3>3, <3>4
      <3>6. NextOK(alarmQueue'[f], alarmTime[f], now)
        <4> SUFFICES ASSUME NEW x \in Ids, alarmTime[f][x] > now + KSkip
                     PROVE  q.time <= alarmTime[f][x]
          BY <3>5 DEF NextOK
        <4>1. q.time <= now
          BY <2>1, <2>2 DEF NextsOK, NextOK
        <4>2. q.time \in Nat /\ alarmTime[f][x] \in Nat
          BY <1>0, TimesAssumption DEF AlarmQueue
        <4> QED
          BY <1>0, <4>1, <4>2, TimesAssumption
      <3> QED
        BY <1>1, <2>1, <3>6
    <2>4. CASE \E r \in NextQueued(done, alarmTime[f]) :
                 alarmQueue' = [alarmQueue EXCEPT ![f] = r]
      <3>1. PICK r \in NextQueued(done, alarmTime[f]) :
              alarmQueue' = [alarmQueue EXCEPT ![f] = r]
        BY <2>4
      <3>2. done \in AlarmQueue /\ QueueOK(done, TRUE)
        BY <2>1, Typed DEF QueueOK, AlarmQueue
      <3> HIDE DEF done
      <3>3. NextOK(r, alarmTime[f], now)
        BY <3>1, <3>2, Typed, NextQueuedNext
      <3>4. alarmQueue'[f] = r
        BY <1>0, <3>1
      <3> QED
        BY <1>1, <2>1, <3>3, <3>4
    <2> QED
      BY <1>2, <2>3, <2>4 DEF AlarmHasExpired
  <1>3. CASE AlarmOfDeletedEntry(f)
    BY <1>3 DEF AlarmOfDeletedEntry, NextsOK, Built
  <1>4. CASE AlarmWasCancelled(f)
    <2>1. /\ UNCHANGED <<now, fileState, alarmTime>> /\ q.request = "KErrCancel"
          /\ \A g \in Files : g # f => alarmQueue'[g] = alarmQueue[g]
      BY <1>0, <1>4 DEF AlarmWasCancelled, fileVars, entryVars
    <2>2. Built(f)
      BY <2>1, Typed DEF QueueOK
    <2>3. \A e \in Ids : ~(alarmTime[f][e] > now + KSkip)
      BY <2>1, <2>2 DEF NextsOK, NextOK
    <2> QED
      BY <1>1, <2>1, <2>3 DEF NextOK
  <1>5. CASE AlarmExpires(f)
    <2>1. ASSUME NEW a \in Ids \X Times, SessionAlarmExpires(f, a)
          PROVE  NextsOK'
      <3>1. q.request = "pending" /\ q.current = {a[1]} /\ a[2] = q.time /\ a[2] <= now
        BY <2>1, SessionAlarm DEF SessionAlarmExpires
      <3>2. /\ UNCHANGED <<now, fileState, alarmTime>>
            /\ \A g \in Files : g # f => alarmQueue'[g] = alarmQueue[g]
        BY <1>0, <2>1 DEF SessionAlarmExpires, fileVars, entryVars
      <3>3. alarmQueue'[f].request = "KErrNone" /\ alarmQueue'[f].time = q.time
        BY <1>0, <2>1, <3>1 DEF SessionAlarmExpires, AlarmQueue
      <3> QED
        BY <1>1, <3>1, <3>2, <3>3 DEF NextOK
    <2>2. ASSUME UNCHANGED alarmQueue, UNCHANGED <<now, fileState, alarmTime>>
          PROVE  NextsOK'
      BY <2>2 DEF NextsOK, NextOK, Built
    <2> QED
      BY <1>5, <2>1, <2>2 DEF AlarmExpires, OrphanExpires, SnoozedExpires, fileVars, entryVars
  <1> QED
    BY <1>2, <1>3, <1>4, <1>5 DEF RunL

LEMMA NextsNext ==
  ASSUME EditsOnly, NoRequeue, WithinReach, OwnIds, Inv, Searching, ListsOK, AlarmedExist,
         OwnEntries, NextsOK, [Next]_vars
  PROVE  OwnEntries' /\ NextsOK'
  <1>0. /\ alarmTime \in [Files -> [Ids -> 0..MaxAlarm]] /\ alarmQueue \in [Files -> AlarmQueue]
        /\ fileState \in [Files -> {"closed", "opened", "built"}] /\ now \in Nat
        /\ entries \in [Files -> SUBSET Ids]
    BY DEF Inv, TypeOK
  <1>1. CASE UNCHANGED vars
    BY <1>1 DEF vars, fileVars, entryVars, queueVars, OwnEntries, NextsOK, NextOK, Built
  <1>2. CASE Tick
    <2>1. OwnEntries' /\ UNCHANGED <<fileState, alarmTime, alarmQueue>> /\ now' = now + 1
      BY <1>2 DEF Tick, fileVars, entryVars, queueVars, OwnEntries
    <2>2. ASSUME NEW f \in Files, Built(f)
          PROVE  NextOK(alarmQueue[f], alarmTime[f], now + 1)
      <3>1. \A e \in Ids : alarmTime[f][e] \in Nat /\ alarmQueue[f].time \in Nat
        BY <1>0, TimesAssumption DEF AlarmQueue
      <3> QED
        BY <1>0, <2>2, <3>1, TimesAssumption DEF NextsOK, NextOK
    <2> QED
      BY <2>1, <2>2 DEF NextsOK, Built
  <1>3. ASSUME NEW f \in Files, OpenAgenda(f) \/ CloseAgenda(f)
        PROVE  OwnEntries' /\ NextsOK'
    <2>1. /\ UNCHANGED <<now, entryVars>>
          /\ \A g \in Files : Built(g)' => Built(g) /\ alarmQueue'[g] = alarmQueue[g]
      BY <1>0, <1>3 DEF OpenAgenda, CloseAgenda, queueVars, Built
    <2> QED
      BY <2>1 DEF NextsOK, NextOK, OwnEntries, entryVars
  <1>4. ASSUME NEW f \in Files, BuildIndexComplete(f)
        PROVE  OwnEntries' /\ NextsOK'
    <2>1. PICK q \in NextQueued(alarmQueue[f], alarmTime[f]) :
            alarmQueue' = [alarmQueue EXCEPT ![f] = q]
      BY <1>4 DEF BuildIndexComplete
    <2>2. NextOK(q, alarmTime[f], now)
      BY <2>1, Typed, NextQueuedNext
    <2>3. /\ UNCHANGED <<now, entryVars>>
          /\ \A g \in Files : g # f => (Built(g)' <=> Built(g)) /\ alarmQueue'[g] = alarmQueue[g]
          /\ alarmQueue'[f] = q
      BY <1>0, <1>4, <2>1 DEF BuildIndexComplete, Built
    <2> QED
      BY <2>2, <2>3 DEF NextsOK, OwnEntries, entryVars
  <1>5. ASSUME NEW f \in Files, Change(f)
        PROVE  OwnEntries' /\ NextsOK'
    <2>1. \/ \E e \in IdsIn[f] : entries' = [entries EXCEPT ![f] = @ \cup {e}]
          \/ \E e \in entries[f] : entries' = [entries EXCEPT ![f] = (@ \ {e}) \cup {e}]
          \/ \E e \in entries[f] : entries' = [entries EXCEPT ![f] = @ \ {e}]
      <3>1. CASE \E e \in Ids, t \in 0..MaxAlarm : AddEntry(f, e, t)
        BY <3>1 DEF AddEntry
      <3>2. CASE \E e, moved \in Ids, t \in 0..MaxAlarm : UpdateEntry(f, e, moved, t)
        BY <3>2 DEF UpdateEntry, Update, EditsOnly
      <3>3. CASE \E e \in Ids : DeleteEntry(f, e)
        BY <3>3 DEF DeleteEntry
      <3> QED
        BY <1>5, <3>1, <3>2, <3>3 DEF Change
    <2>2. OwnEntries'
      BY <1>0, <2>1 DEF OwnEntries
    <2> QED
      BY <1>5, <2>2, ChangeNexts
  <1>6. ASSUME NEW f \in Files, RunL(f) \/ AlarmExpires(f)
        PROVE  OwnEntries' /\ NextsOK'
    <2>1. UNCHANGED entries
      BY <1>6 DEF RunL, AlarmExpires, AlarmHasExpired, AlarmOfDeletedEntry, AlarmWasCancelled,
         SessionAlarmExpires, OrphanExpires, SnoozedExpires, entryVars
    <2> QED
      BY <1>6, <2>1, ServerNexts DEF OwnEntries
  <1> QED
    BY <1>1, <1>2, <1>3, <1>4, <1>5, <1>6
       DEF Next, SetCalendarInfo, RequeueAlarmsForShutdownCancellation,
           QueueAlarmsImmediatelyForShutdown, NoRequeue, EditsOnly, NoBatch

\* While entries are only added, updated without a move or a loss of the alarm,
\* and deleted, no two files share an id, and the first search reaches every
\* alarm: the next alarm of an open calendar is always queued.
THEOREM NextAlarmQueued ==
  ASSUME EditsOnly, NoRequeue, WithinReach, OwnIds
  PROVE  Spec => []NextAlarmIsQueued
  <1>1. Init => OwnEntries /\ NextsOK
    BY DEF Init, OwnEntries, NextsOK, Built
  <1>2. Inv /\ Searching /\ ListsOK /\ AlarmedExist /\ OwnEntries /\ NextsOK /\ [Next]_vars
          => OwnEntries' /\ NextsOK'
    BY NextsNext
  <1>3. NextsOK => NextAlarmIsQueued
    BY DEF NextsOK, NextOK, NextAlarmIsQueued
  <1> QED
    BY <1>1, <1>2, <1>3, ListedAlways, PTL DEF Spec
=============================================================================
