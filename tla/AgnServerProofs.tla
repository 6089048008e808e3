-------------------------- MODULE AgnServerProofs --------------------------
(***************************************************************************)
(* What the agenda server keeps whatever its sessions, calendars and ids   *)
(* are: its list of files, its count of sessions and the states a backup   *)
(* or restore leaves the files in.  The tables of session files and the    *)
(* references they hold are the subject of AgnReferencesProofs.            *)
(***************************************************************************)
EXTENDS AgnServer, FiniteSetTheorems, WellFoundedInduction, TLAPS

\* A file of the list, with any number of references.
IsFile(x) ==
  x \in [id : Ids, coll : 1..KMaxTUint8, ref : {x.ref}, timer : BOOLEAN,
         locked : BOOLEAN, store : {"open", "detached", "none"},
         model : BOOLEAN, task : Sessions \cup {NoSession},
         indexes : {"none", "saved", "dirty"}]
Listed(x) == x = Closed \/ IsFile(x)

\* fs is a list of files: no two with one collection id, and as a backup or
\* restore in progress, when there is one, leaves them.
Good(fs, inProgress, state) ==
  /\ fs = [n \in FileNames |-> fs[n]]
  /\ \A n \in FileNames : Listed(fs[n])
  /\ \A n \in FileNames : fs[n] # Closed =>
       /\ fs[n].locked = inProgress
       /\ fs[n].model =>
            fs[n].store = IF ~inProgress THEN "open"
                          ELSE IF state = "backup" THEN "detached" ELSE "none"
  /\ \A m, n \in FileNames :
       m # n /\ fs[m] # Closed /\ fs[n] # Closed => fs[m].coll # fs[n].coll

Inv ==
  /\ Good(files, iBackupRestoreInProgress, iCurrentState)
  /\ disk \in [FileNames -> Ids \cup {0}]
  /\ iCurrentState \in States /\ engine \in States
  /\ iBackupRestoreInProgress \in BOOLEAN
  /\ iBackupRestoreInProgress => iCurrentState # "normal"
  /\ server = "down" => ~iBackupRestoreInProgress

\* The sessions and the undertaker: once sure to end the server it finds no
\* session and no close that is still delayed.
ExitOK ==
  /\ iSessionCount = Cardinality(Connected)
  /\ undertaker.active /\ ~undertaker.cancelled =>
       Connected = {} /\ ~FileCloseTimersRunning(files)
CountInv ==
  /\ ExitOK
  /\ IsFiniteSet(Connected) /\ session \in [Sessions -> {"closed", "open"}]
  /\ undertaker \in [active : BOOLEAN, cancelled : BOOLEAN]
  /\ server \in {"down", "up"}
  /\ server = "down" =>
       /\ Connected = {} /\ ~undertaker.active
       /\ \A n \in FileNames : files[n] = Closed

-----------------------------------------------------------------------------
(* Files that close, lose references or go on as they are.                 *)

\* y is file x after an operation that leaves what concerns the agent alone.
Same(x, y) ==
  \/ y = Closed
  \/ /\ x # Closed /\ y # Closed
     /\ y.id = x.id /\ y.coll = x.coll
     /\ y.locked = x.locked /\ y.store = x.store /\ y.model = x.model

LEMMA ClosedIsNoFile ==
  ASSUME NEW x, IsFile(x)
  PROVE  x # Closed /\ x.coll # 0 /\ x.coll \in 1..KMaxTUint8
  BY CollectionAssumption DEF IsFile, Closed

LEMMA SameListed ==
  ASSUME NEW x, IsFile(x), NEW y, IsFile(y), y.id = x.id, y.coll = x.coll,
         y.locked = x.locked, y.store = x.store, y.model = x.model
  PROVE  Listed(y) /\ Same(x, y)
  BY ClosedIsNoFile DEF Same, Listed

\* CloseAgenda keeps the list a list of files.
LEMMA CloseAgendaSame ==
  ASSUME NEW fs, NEW closes, NEW atOnce \in BOOLEAN, NEW n \in FileNames, Listed(fs[n])
  PROVE  /\ Listed(CloseAgenda(fs, closes, atOnce)[n])
         /\ Same(fs[n], CloseAgenda(fs, closes, atOnce)[n])
  <1> DEFINE x == fs[n]
             y == CloseAgenda(fs, closes, atOnce)[n]
  <1>1. \/ y = x
        \/ x # Closed /\ y = [x EXCEPT !.ref = @ - closes[n]]
        \/ y = Closed
        \/ x # Closed /\ y = [x EXCEPT !.ref = 0, !.timer = TRUE]
    BY DEF CloseAgenda
  <1> SUFFICES Listed(y) /\ Same(x, y)
    OBVIOUS
  <1> HIDE DEF y
  <1>2. CASE x = Closed
    BY <1>1, <1>2 DEF Same, Listed
  <1>3. CASE IsFile(x)
    <2>1. CASE y = x
      BY <1>3, <2>1, SameListed
    <2>2. CASE y = [x EXCEPT !.ref = @ - closes[n]]
      <3>1. IsFile(y) /\ y.id = x.id /\ y.coll = x.coll
            /\ y.locked = x.locked /\ y.store = x.store /\ y.model = x.model
        BY <1>3, <2>2 DEF IsFile
      <3> QED
        BY <1>3, <3>1, SameListed
    <2>3. CASE y = [x EXCEPT !.ref = 0, !.timer = TRUE]
      <3>1. IsFile(y) /\ y.id = x.id /\ y.coll = x.coll
            /\ y.locked = x.locked /\ y.store = x.store /\ y.model = x.model
        BY <1>3, <2>3 DEF IsFile
      <3> QED
        BY <1>3, <3>1, SameListed
    <2>4. CASE y = Closed
      BY <2>4 DEF Same, Listed
    <2> QED
      BY <1>1, <2>1, <2>2, <2>3, <2>4
  <1> QED
    BY <1>2, <1>3 DEF Listed

\* A list whose files close or go on stays good.
LEMMA GoodSame ==
  ASSUME NEW fs, NEW b \in BOOLEAN, NEW state, Good(fs, b, state),
         NEW gs, gs = [n \in FileNames |-> gs[n]],
         \A n \in FileNames : Listed(gs[n]) /\ Same(fs[n], gs[n])
  PROVE  Good(gs, b, state)
  <1>1. ASSUME NEW n \in FileNames, gs[n] # Closed
        PROVE  /\ fs[n] # Closed /\ gs[n].coll = fs[n].coll
               /\ gs[n].locked = b
               /\ gs[n].model =>
                    gs[n].store = IF ~b THEN "open"
                                  ELSE IF state = "backup" THEN "detached" ELSE "none"
    BY <1>1 DEF Same, Good
  <1>2. \A m, n \in FileNames :
          m # n /\ gs[m] # Closed /\ gs[n] # Closed => gs[m].coll # gs[n].coll
    BY <1>1 DEF Good
  <1> QED
    BY <1>1, <1>2 DEF Good

\* The last collection id is one no file has a higher one than.
LEMMA LastCollection ==
  ASSUME NEW fs, \A n \in FileNames : Listed(fs[n])
  PROVE  /\ LastCollectionId(fs) \in 0..KMaxTUint8
         /\ \A n \in FileNames : fs[n].coll <= LastCollectionId(fs)
  <1> DEFINE U == {k \in 0..KMaxTUint8 : \A n \in FileNames : fs[n].coll <= k}
             L == {k \in 0..KMaxTUint8 :
                     /\ \A n \in FileNames : fs[n].coll <= k
                     /\ k = 0 \/ \E n \in FileNames : fs[n].coll = k}
  <1>1. \A n \in FileNames : fs[n].coll \in 0..KMaxTUint8
    BY CollectionAssumption, ClosedIsNoFile DEF Listed, Closed
  <1>2. KMaxTUint8 \in U
    BY <1>1, CollectionAssumption
  <1>3. PICK k \in U : \A j \in U : ~(j < k)
    <2>1. IsWellFoundedOn(OpToRel(<, Nat), Nat)
      BY NatLessThanWellFounded
    <2>2. U \subseteq Nat /\ U # {}
      BY <1>2
    <2> HIDE DEF U
    <2>3. \E k \in U : \A j \in U : ~(<<j, k>> \in OpToRel(<, Nat))
      BY <2>1, <2>2, WFMin
    <2> QED
      BY <2>2, <2>3 DEF OpToRel
  <1>4. k \in L
    <2>1. CASE k = 0
      BY <1>3, <2>1
    <2>2. CASE k # 0
      <3>1. k - 1 \notin U /\ k - 1 \in 0..KMaxTUint8
        BY <1>3, <2>2, CollectionAssumption
      <3>2. PICK n \in FileNames : ~(fs[n].coll <= k - 1)
        BY <3>1
      <3>3. fs[n].coll = k
        BY <1>1, <1>3, <3>2
      <3> QED
        BY <1>3, <3>3
    <2> QED
      BY <2>1, <2>2
  <1>5. LastCollectionId(fs) \in L
    BY <1>4 DEF LastCollectionId
  <1> QED
    BY <1>5

\* A calendar that is opened gets a collection id of its own.
LEMMA GoodOpened ==
  ASSUME NEW fs, NEW state, Good(fs, FALSE, state), NEW n \in FileNames, fs[n] = Closed,
         NEW new, IsFile(new), new.coll = LastCollectionId(fs) + 1,
         new.locked = FALSE, new.store = "open"
  PROVE  Good([fs EXCEPT ![n] = new], FALSE, state)
  <1> DEFINE gs == [fs EXCEPT ![n] = new]
  <1>1. /\ gs = [m \in FileNames |-> gs[m]] /\ gs[n] = new
        /\ \A m \in FileNames : m # n => gs[m] = fs[m]
    BY DEF Good
  <1>2. \A m \in FileNames : Listed(gs[m])
    BY <1>1 DEF Good, Listed
  <1>3. \A m \in FileNames : m # n /\ fs[m] # Closed => fs[m].coll # new.coll
    <2>1. /\ LastCollectionId(fs) \in Nat
          /\ \A m \in FileNames : fs[m].coll <= LastCollectionId(fs)
      BY LastCollection, CollectionAssumption DEF Good
    <2>2. \A m \in FileNames : fs[m] # Closed => fs[m].coll \in Nat
      BY ClosedIsNoFile DEF Good, Listed
    <2> QED
      BY <2>1, <2>2
  <1> HIDE DEF gs
  <1>4. Good(gs, FALSE, state)
    BY <1>1, <1>2, <1>3 DEF Good
  <1> QED
    BY <1>4 DEF gs

-----------------------------------------------------------------------------
(* The steps.                                                              *)

LEMMA InitInv ==
  ASSUME Init
  PROVE  Inv
  BY DEF Init, Inv, Good, Listed, States

LEMMA ServerEndsInv ==
  ASSUME Inv, NEW how, ServerEnds(how)
  PROVE  Inv'
  <1>1. Good(files, iBackupRestoreInProgress, iCurrentState)'
    BY DEF ServerEnds, Good, Listed
  <1> QED
    BY <1>1 DEF ServerEnds, phoneVars, Inv, States

\* A step of a session or of a timer, after which the files that are still open
\* are as the agent left them.
LEMMA SameInv ==
  ASSUME Inv, UNCHANGED <<agentVars, engine, server>>, disk' \in [FileNames -> Ids \cup {0}],
         files' = [n \in FileNames |-> files'[n]],
         \A n \in FileNames : Listed(files'[n]) /\ Same(files[n], files'[n])
  PROVE  Inv'
  <1>1. Good(files', iBackupRestoreInProgress, iCurrentState)
    BY GoodSame DEF Inv
  <1>2. Good(files, iBackupRestoreInProgress, iCurrentState)'
    BY <1>1 DEF agentVars, Good
  <1> QED
    BY <1>2 DEF Inv, agentVars

LEMMA SameTransitive ==
  ASSUME NEW x, NEW y, NEW z, Same(x, y), Same(y, z)
  PROVE  Same(x, z)
  BY DEF Same

LEMMA SameReflexive ==
  ASSUME NEW x
  PROVE  Same(x, x)
  BY DEF Same

\* A file of the list with another task.
LEMMA TaskSame ==
  ASSUME NEW x, Listed(x), x # Closed, NEW t \in Sessions \cup {NoSession}
  PROVE  Listed([x EXCEPT !.task = t]) /\ Same(x, [x EXCEPT !.task = t])
  <1> DEFINE y == [x EXCEPT !.task = t]
  <1>1. IsFile(y) /\ y.id = x.id /\ y.coll = x.coll
        /\ y.locked = x.locked /\ y.store = x.store /\ y.model = x.model
    BY DEF IsFile, Listed
  <1> HIDE DEF y
  <1>2. Listed(y) /\ Same(x, y)
    BY <1>1, SameListed DEF Listed
  <1> QED
    BY <1>2 DEF y

LEMMA ClosedForSame ==
  ASSUME Inv, NEW s \in Sessions, NEW c
  PROVE  /\ ClosedFor(s, c) = [n \in FileNames |-> ClosedFor(s, c)[n]]
         /\ \A n \in FileNames : /\ Listed(ClosedFor(s, c)[n])
                                 /\ Same(files[n], ClosedFor(s, c)[n])
  <1>0. files = [n \in FileNames |-> files[n]] /\ \A n \in FileNames : Listed(files[n])
    BY DEF Inv, Good
  <1> DEFINE id == table[s][GetSessionFile(table[s], c)].id
             n0 == CHOOSE n \in NamesWith(id) : TRUE
             stopped == [files EXCEPT ![n0].task = IF @ = s THEN NoSession ELSE @]
  <1>1. CASE ClosedFor(s, c) = files
    BY <1>0, <1>1, SameReflexive
  <1>2. CASE NamesWith(id) # {} /\ ClosedFor(s, c) = CloseAgenda(stopped, Once(n0), FALSE)
    <2>1. n0 \in FileNames /\ files[n0] # Closed
      BY <1>2 DEF NamesWith, OpenNames, IsOpen
    <2> HIDE DEF n0
    <2> DEFINE t == IF files[n0].task = s THEN NoSession ELSE files[n0].task
    <2>2. t \in Sessions \cup {NoSession}
      BY <1>0, <2>1 DEF Listed, IsFile
    <2>3. /\ stopped[n0] = [files[n0] EXCEPT !.task = t]
          /\ \A n \in FileNames : n # n0 => stopped[n] = files[n]
      BY <1>0, <2>1
    <2> HIDE DEF stopped, t
    <2>4. ASSUME NEW n \in FileNames
          PROVE  Listed(stopped[n]) /\ Same(files[n], stopped[n])
      <3>1. CASE n = n0
        BY <1>0, <2>1, <2>2, <2>3, <3>1, TaskSame
      <3>2. CASE n # n0
        BY <1>0, <2>3, <3>2, SameReflexive
      <3> QED
        BY <3>1, <3>2
    <2>5. ASSUME NEW n \in FileNames
          PROVE  /\ Listed(CloseAgenda(stopped, Once(n0), FALSE)[n])
                 /\ Same(files[n], CloseAgenda(stopped, Once(n0), FALSE)[n])
      BY <2>4, CloseAgendaSame, SameTransitive
    <2>6. CloseAgenda(stopped, Once(n0), FALSE) =
            [n \in FileNames |-> CloseAgenda(stopped, Once(n0), FALSE)[n]]
      BY DEF CloseAgenda
    <2> QED
      BY <1>2, <2>5, <2>6
  <1> QED
    BY <1>1, <1>2 DEF ClosedFor

LEMMA SessionEndsInv ==
  ASSUME Inv, NEW s \in Sessions, SessionEnds(s)
  PROVE  Inv'
  <1>0. files = [n \in FileNames |-> files[n]] /\ \A n \in FileNames : Listed(files[n])
    BY DEF Inv, Good
  <1> DEFINE cancelled == [n \in FileNames |->
                     IF IsOpen(n) /\ files[n].task = s /\ EntriesOf(s)[n] > 0
                     THEN [files[n] EXCEPT !.task = NoSession] ELSE files[n]]
  <1>1. files' = CloseAgenda(cancelled, EntriesOf(s), FALSE)
    BY DEF SessionEnds
  <1>2. ASSUME NEW n \in FileNames
        PROVE  Listed(cancelled[n]) /\ Same(files[n], cancelled[n])
    <2>1. CASE files[n] # Closed /\ cancelled[n] = [files[n] EXCEPT !.task = NoSession]
      BY <1>0, <2>1, TaskSame
    <2>2. CASE cancelled[n] = files[n]
      BY <1>0, <2>2, SameReflexive
    <2> QED
      BY <2>1, <2>2 DEF IsOpen
  <1> HIDE DEF cancelled
  <1>3. ASSUME NEW n \in FileNames
        PROVE  Listed(files'[n]) /\ Same(files[n], files'[n])
    BY <1>1, <1>2, CloseAgendaSame, SameTransitive
  <1>4. files' = [n \in FileNames |-> files'[n]]
    BY <1>1 DEF CloseAgenda
  <1> QED
    BY <1>3, <1>4, SameInv DEF SessionEnds, Inv

LEMMA OpenFailsInv ==
  ASSUME Inv, NEW s \in Sessions, NEW c,
         CloseAgendaOf(s, c) \/ \E n \in FileNames : OpenFails(s, c, n)
  PROVE  Inv'
  <1>1. /\ files' = ClosedFor(s, c)
        /\ UNCHANGED <<agentVars, engine, server, disk>>
    BY DEF OpenFails, CloseAgendaOf, exitVars
  <1> QED
    BY <1>1, ClosedForSame, SameInv DEF Inv

LEMMA DeleteAgendaFileInv ==
  ASSUME Inv, NEW s \in Sessions, NEW c, NEW n \in FileNames, DeleteAgendaFile(s, c, n)
  PROVE  Inv'
  <1>0. files = [m \in FileNames |-> files[m]] /\ \A m \in FileNames : Listed(files[m])
    BY DEF Inv, Good
  <1>1. files' = [files EXCEPT ![n] = Closed] /\ disk' = [disk EXCEPT ![n] = 0]
        /\ UNCHANGED <<agentVars, engine, server>>
    BY DEF DeleteAgendaFile, exitVars
  <1>2. \A m \in FileNames : Listed(files'[m]) /\ Same(files[m], files'[m])
    BY <1>0, <1>1 DEF Listed, Same
  <1>3. files' = [m \in FileNames |-> files'[m]] /\ disk' \in [FileNames -> Ids \cup {0}]
    BY <1>0, <1>1 DEF Inv
  <1> QED
    BY <1>1, <1>2, <1>3, SameInv

LEMMA CloseTimerInv ==
  ASSUME Inv, NEW n \in FileNames, CloseTimerFires(n)
  PROVE  Inv'
  <1>0. files = [m \in FileNames |-> files[m]] /\ \A m \in FileNames : Listed(files[m])
    BY DEF Inv, Good
  <1>1. files' = [files EXCEPT ![n] = Closed] /\ UNCHANGED <<agentVars, engine, server, disk>>
    BY DEF CloseTimerFires
  <1>2. \A m \in FileNames : Listed(files'[m]) /\ Same(files[m], files'[m])
    BY <1>0, <1>1, SameReflexive DEF Listed, Same
  <1>3. files' = [m \in FileNames |-> files'[m]]
    BY <1>0, <1>1
  <1> QED
    BY <1>1, <1>2, <1>3, SameInv DEF Inv

\* A task starts, or ends with indexes built or changed.
LEMMA TaskInv ==
  ASSUME Inv, NEW n \in FileNames,
         TaskEnds(n) \/ \E s \in Sessions : StartTask(s, n)
  PROVE  Inv'
  <1>0. files = [m \in FileNames |-> files[m]] /\ \A m \in FileNames : Listed(files[m])
    BY DEF Inv, Good
  <1>1. /\ IsOpen(n) /\ UNCHANGED <<agentVars, engine, server, disk>>
        /\ \E t \in Sessions \cup {NoSession}, i \in {"none", "saved", "dirty"} :
             files' = [files EXCEPT ![n] = [files[n] EXCEPT !.task = t, !.indexes = i]]
    <2>1. CASE \E s \in Sessions : StartTask(s, n)
      <3>1. PICK s \in Sessions : StartTask(s, n)
        BY <2>1
      <3>2. IsFile(files[n])
        BY <1>0, <3>1 DEF StartTask, IsOpen, Listed
      <3>3. /\ files[n].indexes \in {"none", "saved", "dirty"}
            /\ [files[n] EXCEPT !.task = s] =
                 [files[n] EXCEPT !.task = s, !.indexes = files[n].indexes]
        BY <3>2 DEF IsFile
      <3>4. files' = [files EXCEPT ![n] = [files[n] EXCEPT !.task = s]]
        BY <1>0, <3>1 DEF StartTask
      <3>5. files' = [files EXCEPT ![n] =
                        [files[n] EXCEPT !.task = s, !.indexes = files[n].indexes]]
        BY <3>3, <3>4
      <3> QED
        BY <1>0, <3>1, <3>3, <3>5 DEF StartTask, exitVars, phoneVars
    <2>2. CASE TaskEnds(n)
      <3>1. IsOpen(n) /\ UNCHANGED <<agentVars, engine, server, disk>>
        BY <2>2 DEF TaskEnds, exitVars
      <3>2. PICK i \in {"none", "saved", "dirty"} :
              files' = [files EXCEPT ![n].task = NoSession, ![n].indexes = i]
        BY <2>2 DEF TaskEnds
      <3>3. files' = [files EXCEPT ![n] =
                        [files[n] EXCEPT !.task = NoSession, !.indexes = i]]
        BY <1>0, <3>2
      <3> QED
        BY <3>1, <3>3
    <2> QED
      BY <2>1, <2>2
  <1>2. PICK t \in Sessions \cup {NoSession}, i \in {"none", "saved", "dirty"} :
               files' = [files EXCEPT ![n] = [files[n] EXCEPT !.task = t, !.indexes = i]]
    BY <1>1
  <1>3. IsFile(files[n])
    BY <1>0, <1>1 DEF IsOpen, Listed
  <1> DEFINE y == [files[n] EXCEPT !.task = t, !.indexes = i]
  <1>4. IsFile(y) /\ y.id = files[n].id /\ y.coll = files[n].coll
        /\ y.locked = files[n].locked /\ y.store = files[n].store /\ y.model = files[n].model
    BY <1>3 DEF IsFile
  <1>5. files'[n] = y /\ (\A m \in FileNames : m # n => files'[m] = files[m])
        /\ files' = [m \in FileNames |-> files'[m]]
    BY <1>0, <1>2
  <1> HIDE DEF y
  <1>6. Listed(y) /\ Same(files[n], y)
    BY <1>3, <1>4, SameListed
  <1>7. \A m \in FileNames : Listed(files'[m]) /\ Same(files[m], files'[m])
    BY <1>0, <1>5, <1>6, SameReflexive
  <1> QED
    BY <1>1, <1>5, <1>7, SameInv DEF Inv

\* The files before the last look at the table, in OpenAgendaL.
LEMMA OpenAgendaInv ==
  ASSUME Inv, NEW s \in Sessions, NEW c, NEW n \in FileNames, OpenAgenda(s, c, n)
  PROVE  Inv'
  <1> DEFINE fs == ClosedFor(s, c)
             new == [id |-> disk[n], coll |-> LastCollectionId(fs) + 1, ref |-> 1,
                     timer |-> FALSE, locked |-> FALSE, store |-> "open", model |-> TRUE,
                     task |-> NoSession, indexes |-> "none"]
             opened == IF fs[n] = Closed THEN [fs EXCEPT ![n] = new]
                       ELSE [fs EXCEPT ![n].ref = @ + 1, ![n].timer = FALSE]
  <1>1. /\ ~iBackupRestoreInProgress /\ disk[n] # 0
        /\ fs[n] = Closed => LastCollectionId(fs) < KMaxTUint8
        /\ files' = opened \/ files' = CloseAgenda(opened, Once(n), TRUE)
        /\ UNCHANGED <<engine, disk, server, agentVars>>
    BY DEF OpenAgenda, Permitted, exitVars
  <1>2. /\ fs = [m \in FileNames |-> fs[m]]
        /\ \A m \in FileNames : Listed(fs[m]) /\ Same(files[m], fs[m])
    BY ClosedForSame
  <1>3. Good(fs, FALSE, iCurrentState)
    BY <1>1, <1>2, GoodSame DEF Inv
  <1> HIDE DEF fs
  <1>4. Good(opened, FALSE, iCurrentState)
    <2>1. CASE fs[n] = Closed
      <3>1. LastCollectionId(fs) \in 0..KMaxTUint8
        BY <1>2, LastCollection
      <3>2. LastCollectionId(fs) + 1 \in 1..KMaxTUint8
        BY <1>1, <2>1, <3>1, CollectionAssumption
      <3>3. disk[n] \in Ids
        BY <1>1 DEF Inv
      <3>4. IsFile(new) /\ new.coll = LastCollectionId(fs) + 1
            /\ new.locked = FALSE /\ new.store = "open"
        BY <3>2, <3>3 DEF IsFile
      <3> HIDE DEF new
      <3> QED
        BY <1>3, <2>1, <3>4, GoodOpened
    <2>2. CASE fs[n] # Closed
      <3> DEFINE y == [fs[n] EXCEPT !.ref = @ + 1, !.timer = FALSE]
      <3>1. IsFile(fs[n])
        BY <1>2, <2>2 DEF Listed
      <3>2. IsFile(y) /\ y.id = fs[n].id /\ y.coll = fs[n].coll
            /\ y.locked = fs[n].locked /\ y.store = fs[n].store /\ y.model = fs[n].model
        BY <3>1 DEF IsFile
      <3>3. opened[n] = y /\ (\A m \in FileNames : m # n => opened[m] = fs[m])
            /\ opened = [m \in FileNames |-> opened[m]]
        BY <1>2, <2>2
      <3> HIDE DEF y, opened
      <3>4. Listed(y) /\ Same(fs[n], y)
        BY <3>1, <3>2, SameListed
      <3>5. \A m \in FileNames : Listed(opened[m]) /\ Same(fs[m], opened[m])
        BY <1>2, <3>3, <3>4, SameReflexive
      <3> QED
        BY <1>3, <3>3, <3>5, GoodSame
    <2> QED
      BY <2>1, <2>2
  <1> HIDE DEF opened
  <1>5. Good(files', FALSE, iCurrentState)
    <2>1. CASE files' = opened
      BY <1>4, <2>1
    <2>2. CASE files' = CloseAgenda(opened, Once(n), TRUE)
      <3>1. \A m \in FileNames : Listed(files'[m]) /\ Same(opened[m], files'[m])
        BY <1>4, <2>2, CloseAgendaSame DEF Good
      <3>2. files' = [m \in FileNames |-> files'[m]]
        BY <2>2 DEF CloseAgenda
      <3> QED
        BY <1>4, <3>1, <3>2, GoodSame
    <2> QED
      BY <1>1, <2>1, <2>2
  <1>6. Good(files, iBackupRestoreInProgress, iCurrentState)'
    BY <1>1, <1>5 DEF agentVars, Good, Inv
  <1> QED
    BY <1>1, <1>6 DEF agentVars, Inv

-----------------------------------------------------------------------------
(* The agent.                                                              *)

\* y is file x, closed or in the state that the agent gives it.
Moved(x, y, b, state) ==
  /\ Listed(y)
  /\ y # Closed =>
       /\ x # Closed /\ y.coll = x.coll
       /\ y.locked = b
       /\ y.model => y.store = IF ~b THEN "open"
                               ELSE IF state = "backup" THEN "detached" ELSE "none"

\* Files whose states the agent changes keep their collection ids.
LEMMA GoodMoved ==
  ASSUME NEW fs, NEW b0, NEW state0, Good(fs, b0, state0),
         NEW gs, gs = [n \in FileNames |-> gs[n]], NEW b, NEW state,
         \A n \in FileNames : Moved(fs[n], gs[n], b, state)
  PROVE  Good(gs, b, state)
  <1>1. \A m, n \in FileNames :
          m # n /\ fs[m] # Closed /\ fs[n] # Closed => fs[m].coll # fs[n].coll
    BY DEF Good
  <1>2. \A m, n \in FileNames :
          m # n /\ gs[m] # Closed /\ gs[n] # Closed => gs[m].coll # gs[n].coll
    BY <1>1 DEF Moved
  <1> QED
    BY <1>2 DEF Good, Moved

\* The start of a backup or restore locks what is left of the list.
LEMMA BackupRestoreStartsInv ==
  ASSUME Inv, NEW kind \in {"backup", "restore"}, BackupRestoreStarts(kind)
  PROVE  Inv'
  <1>0. files = [n \in FileNames |-> files[n]] /\ \A n \in FileNames : Listed(files[n])
    BY DEF Inv, Good
  <1>1. /\ iBackupRestoreInProgress' = TRUE /\ iCurrentState' = kind
        /\ files' = Locked(StillReferenced, kind) /\ server = "up"
        /\ UNCHANGED <<engine, disk, server>>
    BY DEF BackupRestoreStarts, AgentSees
  <1>2. ASSUME NEW n \in FileNames
        PROVE  /\ Listed(files'[n])
               /\ files'[n] # Closed =>
                    /\ files[n] # Closed /\ files'[n].coll = files[n].coll
                    /\ files'[n].locked = TRUE
                    /\ files'[n].store = IF kind = "backup" THEN "detached" ELSE "none"
    <2>1. CASE TimerOn(files, n) \/ files[n] = Closed
      BY <1>1, <2>1 DEF Locked, StillReferenced, Listed
    <2>2. CASE ~TimerOn(files, n) /\ files[n] # Closed
      <3> DEFINE x == files[n]
                 t == IF TaskCancelled(n) THEN NoSession ELSE x.task
                 i == IF kind = "restore" /\ x.indexes # "none" THEN "dirty" ELSE x.indexes
                 y == [x EXCEPT !.locked = TRUE,
                                !.store = IF kind = "backup" THEN "detached" ELSE "none",
                                !.task = t, !.indexes = i]
      <3>1. files'[n] = y
        BY <1>1, <2>2 DEF Locked, StillReferenced
      <3>2. IsFile(x)
        BY <1>0, <2>2 DEF Listed
      <3>3. t \in Sessions \cup {NoSession} /\ i \in {"none", "saved", "dirty"}
        BY <3>2 DEF IsFile
      <3> HIDE DEF t, i
      <3>4. IsFile(y) /\ y.coll = x.coll /\ y.locked = TRUE
            /\ y.store = IF kind = "backup" THEN "detached" ELSE "none"
        BY <3>2, <3>3 DEF IsFile
      <3> QED
        BY <2>2, <3>1, <3>4 DEF Listed
    <2> QED
      BY <2>1, <2>2
  <1>3. files' = [n \in FileNames |-> files'[n]]
    BY <1>1 DEF Locked
  <1>4. Good(files', TRUE, kind)
    <2>1. \A n \in FileNames : Moved(files[n], files'[n], TRUE, kind)
      BY <1>2 DEF Moved
    <2>2. Good(files, iBackupRestoreInProgress, iCurrentState)
      BY DEF Inv
    <2> QED
      BY <1>3, <2>1, <2>2, GoodMoved
  <1>5. Good(files, iBackupRestoreInProgress, iCurrentState)'
    BY <1>1, <1>4 DEF Good
  <1> QED
    BY <1>1, <1>5 DEF Inv, States

LEMMA BackupEndsInv ==
  ASSUME Inv, BackupEnds
  PROVE  Inv'
  <1>0. files = [n \in FileNames |-> files[n]] /\ \A n \in FileNames : Listed(files[n])
    BY DEF Inv, Good
  <1>1. /\ iBackupRestoreInProgress' = FALSE /\ iCurrentState' = "normal"
        /\ files' = [n \in FileNames |->
             IF IsOpen(n) THEN [files[n] EXCEPT !.locked = FALSE, !.store = "open"] ELSE Closed]
        /\ UNCHANGED <<engine, disk, server>>
    BY DEF BackupEnds, AgentSees, phoneVars, exitVars
  <1>2. ASSUME NEW n \in FileNames
        PROVE  /\ Listed(files'[n])
               /\ files'[n] # Closed =>
                    /\ files[n] # Closed /\ files'[n].coll = files[n].coll
                    /\ files'[n].locked = FALSE /\ files'[n].store = "open"
    <2>1. CASE files[n] = Closed
      BY <1>1, <2>1 DEF IsOpen, Listed
    <2>2. CASE files[n] # Closed
      <3> DEFINE y == [files[n] EXCEPT !.locked = FALSE, !.store = "open"]
      <3>1. files'[n] = y /\ IsFile(files[n])
        BY <1>0, <1>1, <2>2 DEF IsOpen, Listed
      <3>2. IsFile(y) /\ y.coll = files[n].coll /\ y.locked = FALSE /\ y.store = "open"
        BY <3>1 DEF IsFile
      <3> QED
        BY <2>2, <3>1, <3>2 DEF Listed
    <2> QED
      BY <2>1, <2>2
  <1>3. files' = [n \in FileNames |-> files'[n]]
    BY <1>1
  <1>4. Good(files', FALSE, "normal")
    <2>1. \A n \in FileNames : Moved(files[n], files'[n], FALSE, "normal")
      BY <1>2 DEF Moved
    <2>2. Good(files, iBackupRestoreInProgress, iCurrentState)
      BY DEF Inv
    <2> QED
      BY <1>3, <2>1, <2>2, GoodMoved
  <1>5. Good(files, iBackupRestoreInProgress, iCurrentState)'
    BY <1>1, <1>4 DEF Good
  <1> QED
    BY <1>1, <1>5 DEF Inv, States

LEMMA RestoreEndsInv ==
  ASSUME Inv, NEW bad \in SUBSET OpenNames, RestoreEnds(bad)
  PROVE  Inv'
  <1>0. files = [n \in FileNames |-> files[n]] /\ \A n \in FileNames : Listed(files[n])
    BY DEF Inv, Good
  <1>1. /\ iBackupRestoreInProgress' = FALSE /\ iCurrentState' = "normal"
        /\ \A n \in OpenNames : disk[n] # 0
        /\ files' = [n \in FileNames |-> IF ~IsOpen(n) THEN Closed
                                   ELSE IF n \in bad THEN Unopenable(n) ELSE Reopened(n)]
        /\ UNCHANGED <<engine, disk, server>>
    BY DEF RestoreEnds, AgentSees, phoneVars
  <1>2. ASSUME NEW n \in FileNames
        PROVE  /\ Listed(files'[n])
               /\ files'[n] # Closed =>
                    /\ files[n] # Closed /\ files'[n].coll = files[n].coll
                    /\ files'[n].locked = FALSE
                    /\ files'[n].model => files'[n].store = "open"
    <2>1. CASE files[n] = Closed
      BY <1>1, <2>1 DEF IsOpen, Listed
    <2>2. CASE files[n] # Closed /\ n \in bad
      <3>0. IsFile(files[n]) /\ files'[n] = Unopenable(n)
        BY <1>0, <1>1, <2>2 DEF IsOpen, Listed
      <3>1. CASE files'[n] = Closed
        BY <3>1 DEF Listed
      <3>2. CASE files'[n] # Closed
        <4> DEFINE y == [files[n] EXCEPT !.ref = @ - 1, !.locked = FALSE, !.store = "none",
                                         !.model = FALSE]
        <4>1. files'[n] = y
          BY <3>0, <3>2 DEF Unopenable
        <4>2. IsFile(y) /\ y.coll = files[n].coll /\ y.locked = FALSE /\ y.model = FALSE
          BY <3>0 DEF IsFile
        <4> QED
          BY <2>2, <4>1, <4>2 DEF Listed
      <3> QED
        BY <3>1, <3>2
    <2>3. CASE files[n] # Closed /\ n \notin bad
      <3> DEFINE i == IF files[n].indexes = "none" THEN files[n].indexes
                      ELSE IF indexFile[n] = 0 THEN "dirty" ELSE "saved"
                 y == [files[n] EXCEPT !.id = disk[n], !.locked = FALSE, !.store = "open",
                                       !.indexes = i]
      <3>1. files'[n] = y /\ IsFile(files[n])
        BY <1>0, <1>1, <2>3 DEF IsOpen, Listed, Reopened
      <3>2. i \in {"none", "saved", "dirty"} /\ disk[n] \in Ids
        BY <1>1, <2>3 DEF OpenNames, IsOpen, Inv
      <3> HIDE DEF i
      <3>3. IsFile(y) /\ y.coll = files[n].coll /\ y.locked = FALSE /\ y.store = "open"
        BY <3>1, <3>2 DEF IsFile
      <3> QED
        BY <2>3, <3>1, <3>3 DEF Listed
    <2> QED
      BY <2>1, <2>2, <2>3
  <1>3. files' = [n \in FileNames |-> files'[n]]
    BY <1>1
  <1>4. Good(files', FALSE, "normal")
    <2>1. \A n \in FileNames : Moved(files[n], files'[n], FALSE, "normal")
      BY <1>2 DEF Moved
    <2>2. Good(files, iBackupRestoreInProgress, iCurrentState)
      BY DEF Inv
    <2> QED
      BY <1>3, <2>1, <2>2, GoodMoved
  <1>5. Good(files, iBackupRestoreInProgress, iCurrentState)'
    BY <1>1, <1>4 DEF Good
  <1> QED
    BY <1>1, <1>5 DEF Inv, States

\* The steps after which the server is down.
Ends ==
  \/ \E s \in Sessions : CloseWithoutModel(s)
  \/ \E s \in Sessions, c \in Clients, n \in FileNames : OpenWithoutModel(s, c, n)
  \/ \E n \in FileNames : TaskWithoutModel(n)
  \/ undertaker.active /\ ~undertaker.cancelled /\ ServerEnds("undertaker")
  \/ \E kind \in Engines : StartWithoutStore(kind)
  \/ \E bad \in SUBSET OpenNames : EndWithoutModel(bad)

LEMMA EndsInv ==
  ASSUME Inv, Ends
  PROVE  Inv'
  <1>1. \E how \in {"panic", "undertaker"} : ServerEnds(how)
    BY DEF Ends, CloseWithoutModel, OpenWithoutModel, TaskWithoutModel, StartWithoutStore,
       EndWithoutModel
  <1> QED
    BY <1>1, ServerEndsInv

\* The steps that leave the files and the agent alone.
LEMMA FilesLeftInv ==
  ASSUME Inv, UNCHANGED <<files, iCurrentState, iBackupRestoreInProgress>>,
         engine' \in States, server' = "down" => server = "down",
         disk' \in [FileNames -> Ids \cup {0}]
  PROVE  Inv'
  BY DEF Inv, Good

LEMMA ConnectAndStartInv ==
  ASSUME Inv, NEW s \in Sessions, ConnectAndStart(s)
  PROVE  Inv'
  <1>1. /\ ~iBackupRestoreInProgress /\ iBackupRestoreInProgress' = FALSE
        /\ iCurrentState' = engine /\ server' = "up"
        /\ UNCHANGED <<files, disk, engine>>
    BY DEF ConnectAndStart, Inv, phoneVars
  <1>2. Good(files, FALSE, engine)
    BY <1>1 DEF Inv, Good
  <1>3. Good(files, iBackupRestoreInProgress, iCurrentState)'
    BY <1>1, <1>2 DEF Good
  <1> QED
    BY <1>1, <1>3 DEF Inv

LEMMA RequestInv ==
  ASSUME Inv, NEW s \in Sessions, Request(s)
  PROVE  Inv' \/ Ends
  <1>1. ASSUME NEW c \in Clients, NEW n \in FileNames,
               OpenAgenda(s, c, n) \/ OpenFails(s, c, n) \/ OpenWithoutModel(s, c, n)
               \/ DeleteAgendaFile(s, c, n)
        PROVE  Inv' \/ Ends
    BY <1>1, OpenAgendaInv, OpenFailsInv, DeleteAgendaFileInv DEF Ends
  <1>2. ASSUME NEW c \in Clients, CloseAgendaOf(s, c)
        PROVE  Inv'
    BY <1>2, OpenFailsInv
  <1>3. ASSUME NEW c \in Clients, RequestFileNotification(s, c) \/ CancelFileNotification(s, c)
        PROVE  Inv'
    <2>1. UNCHANGED <<files, agentVars, server, disk, engine>>
      BY <1>3 DEF RequestFileNotification, CancelFileNotification, phoneVars, exitVars
    <2> QED
      BY <2>1, FilesLeftInv DEF Inv, agentVars
  <1>4. ASSUME NEW n \in FileNames, CreateAgendaFile(s, n)
        PROVE  Inv'
    <2>1. UNCHANGED <<files, agentVars, server, engine>>
      BY <1>4 DEF CreateAgendaFile, exitVars
    <2>2. disk' \in [FileNames -> Ids \cup {0}]
      BY <1>4, IdsOfAssumption DEF CreateAgendaFile, Inv
    <2> QED
      BY <2>1, <2>2, FilesLeftInv DEF Inv, agentVars
  <1>5. ASSUME NEW n \in FileNames, StartTask(s, n)
        PROVE  Inv'
    BY <1>5, TaskInv
  <1> QED
    BY <1>1, <1>2, <1>3, <1>4, <1>5 DEF Request

LEMMA AgentRunsInv ==
  ASSUME Inv, AgentRuns
  PROVE  Inv' \/ Ends
  <1>1. ASSUME NEW kind \in Engines, BackupRestoreStarts(kind) \/ StartWithoutStore(kind)
        PROVE  Inv' \/ Ends
    BY <1>1, BackupRestoreStartsInv, NamesAssumption DEF Ends
  <1>2. CASE BackupEnds
    BY <1>2, BackupEndsInv
  <1>3. ASSUME NEW bad \in SUBSET OpenNames, RestoreEnds(bad) \/ EndWithoutModel(bad)
        PROVE  Inv' \/ Ends
    BY <1>3, RestoreEndsInv DEF Ends
  <1>4. CASE AgentSeesNoChange
    BY <1>4, FilesLeftInv DEF AgentSeesNoChange, AgentSees, phoneVars, exitVars, Inv
  <1> QED
    BY <1>1, <1>2, <1>3, <1>4 DEF AgentRuns

LEMMA EngineInv ==
  ASSUME Inv,
         \/ \E state \in Engines \cup {"normal"} : EngineChanges(state)
         \/ \E n \in FileNames : EngineRestores(n)
  PROVE  Inv'
  <1>1. ASSUME NEW state \in Engines \cup {"normal"}, EngineChanges(state)
        PROVE  Inv'
    <2>1. state \in States
      BY NamesAssumption DEF States
    <2> QED
      BY <1>1, <2>1, FilesLeftInv DEF EngineChanges, exitVars, Inv
  <1>2. ASSUME NEW n \in FileNames, EngineRestores(n)
        PROVE  Inv'
    <2>1. disk' \in [FileNames -> Ids \cup {0}]
      <3>1. PICK id \in IdsOf[n] : disk' = [disk EXCEPT ![n] = id]
        BY <1>2 DEF EngineRestores
      <3>2. id \in Ids
        BY IdsOfAssumption
      <3> QED
        BY <3>1, <3>2 DEF Inv
    <2> QED
      BY <1>2, <2>1, FilesLeftInv DEF EngineRestores, exitVars, agentVars, Inv
  <1> QED
    BY <1>1, <1>2

LEMMA NextInv ==
  ASSUME Inv, [Next]_vars
  PROVE  Inv'
  <1>1. CASE UNCHANGED vars
    BY <1>1, FilesLeftInv DEF vars, phoneVars, exitVars, agentVars, Inv
  <1>2. ASSUME NEW s \in Sessions,
               ConnectAndStart(s) \/ Connect(s) \/ Request(s) \/ SessionEnds(s)
               \/ CloseWithoutModel(s)
        PROVE  Inv'
    <2>1. CASE Connect(s)
      BY <2>1, FilesLeftInv DEF Connect, phoneVars, agentVars, Inv
    <2> QED
      BY <1>2, <2>1, ConnectAndStartInv, RequestInv, SessionEndsInv, EndsInv DEF Ends
  <1>3. ASSUME NEW n \in FileNames, TaskEnds(n) \/ TaskWithoutModel(n) \/ CloseTimerFires(n)
        PROVE  Inv'
    BY <1>3, TaskInv, CloseTimerInv, EndsInv DEF Ends
  <1>4. CASE UndertakerRuns
    <2>1. CASE undertaker.cancelled
      BY <1>4, <2>1, FilesLeftInv DEF UndertakerRuns, phoneVars, agentVars, Inv
    <2>2. CASE ~undertaker.cancelled
      BY <1>4, <2>2, EndsInv DEF UndertakerRuns, Ends
    <2> QED
      BY <2>1, <2>2
  <1>5. CASE AgentRuns
    BY <1>5, AgentRunsInv, EndsInv
  <1>6. CASE \/ \E state \in Engines \cup {"normal"} : EngineChanges(state)
             \/ \E n \in FileNames : EngineRestores(n)
    BY <1>6, EngineInv
  <1> QED
    BY <1>1, <1>2, <1>3, <1>4, <1>5, <1>6 DEF Next

\* The list of files keeps its shape, at each step of any session, timer, backup
\* or restore.
THEOREM FilesInvariant == Spec => []Inv
  <1>1. Init => Inv
    BY InitInv
  <1>2. Inv /\ [Next]_vars => Inv'
    BY NextInv
  <1> QED
    BY <1>1, <1>2, PTL DEF Spec

\* Every file of the list is locked and given up to the engine between the start
\* and the end of a backup or restore that the agent saw, and only then,
\* whatever the sessions open, close or delete meanwhile
\* (CAgnServFile::BackupReStoreChanged and ReopenAgendaAfterRestoreL).
THEOREM FilesFollow == Spec => []FilesFollowAgent
  <1>1. Inv => FilesFollowAgent
    BY DEF Inv, Good, FilesFollowAgent, OpenNames, IsOpen
  <1> QED
    BY <1>1, FilesInvariant, PTL

\* A collection id names one open calendar, in whatever order they are opened
\* and closed (CAgnServFileMgr::OpenAgendaL).
THEOREM CollectionIds == Spec => []CollectionIdsUnique
  <1>1. Inv => CollectionIdsUnique
    BY DEF Inv, Good, CollectionIdsUnique, OpenNames, IsOpen
  <1> QED
    BY <1>1, FilesInvariant, PTL

-----------------------------------------------------------------------------
(* The sessions and the undertaker.                                        *)

LEMMA InitCount ==
  ASSUME Init
  PROVE  CountInv
  <1>1. Connected = {}
    BY DEF Init, Connected
  <1> QED
    BY <1>1, FS_EmptySet DEF Init, CountInv, ExitOK

LEMMA ServerEndsCount ==
  ASSUME CountInv, NEW how, ServerEnds(how)
  PROVE  CountInv'
  <1>1. Connected' = {}
    BY DEF ServerEnds, Connected
  <1> QED
    BY <1>1, FS_EmptySet DEF ServerEnds, CountInv, ExitOK

\* No session is left when the count is zero.
LEMMA NoSessionLeft ==
  ASSUME CountInv, iSessionCount = 0
  PROVE  Connected = {}
  BY FS_EmptySet DEF CountInv, ExitOK

\* A step that changes neither the sessions nor the undertaker, and starts no
\* close timer while there is no session.
LEMMA SameCount ==
  ASSUME CountInv, UNCHANGED <<session, iSessionCount, undertaker, server>>,
         server = "down" => UNCHANGED files,
         Connected # {} \/ (FileCloseTimersRunning(files') => FileCloseTimersRunning(files))
  PROVE  CountInv'
  <1>1. Connected' = Connected
    BY DEF Connected
  <1>2. \/ ~undertaker.active \/ undertaker.cancelled
        \/ Connected = {} /\ ~FileCloseTimersRunning(files')
    BY DEF CountInv, ExitOK
  <1>3. FileCloseTimersRunning(files)' = FileCloseTimersRunning(files')
    BY DEF FileCloseTimersRunning, TimerOn
  <1>4. ExitOK'
    BY <1>1, <1>2, <1>3 DEF CountInv, ExitOK
  <1> QED
    BY <1>1, <1>4 DEF CountInv

\* The same when the step may ask for the end of the server.
LEMMA ShutdownCount ==
  ASSUME CountInv, UNCHANGED <<session, iSessionCount, server>>, server = "up",
         UNCHANGED undertaker \/ ShutdownServer(iSessionCount, files'),
         FileCloseTimersRunning(files') => FileCloseTimersRunning(files)
  PROVE  CountInv'
  <1>1. CASE UNCHANGED undertaker
    BY <1>1, SameCount
  <1>2. CASE /\ iSessionCount = 0 /\ ~FileCloseTimersRunning(files')
             /\ undertaker' = [active |-> TRUE, cancelled |-> FALSE]
    <2>1. Connected = {} /\ Connected' = Connected
      BY <1>2, NoSessionLeft DEF Connected
    <2>2. FileCloseTimersRunning(files)' = FileCloseTimersRunning(files')
      BY DEF FileCloseTimersRunning, TimerOn
    <2>3. ExitOK'
      BY <1>2, <2>1, <2>2 DEF CountInv, ExitOK
    <2> QED
      BY <1>2, <2>1, <2>3 DEF CountInv
  <1> QED
    BY <1>1, <1>2 DEF ShutdownServer, DestroyServer

LEMMA ConnectCount ==
  ASSUME CountInv, NEW s \in Sessions, ConnectAndStart(s) \/ Connect(s)
  PROVE  CountInv'
  <1>1. /\ session[s] = "closed" /\ session' = [session EXCEPT ![s] = "open"]
        /\ server' = "up" /\ files' = files
    BY DEF ConnectAndStart, Connect, NewSession
  <1>2. Connected' = Connected \cup {s} /\ s \notin Connected
    BY <1>1 DEF Connected, CountInv
  <1>3. iSessionCount' = iSessionCount + 1
    <2>1. CASE ConnectAndStart(s)
      <3>1. iSessionCount = 0
        BY <2>1, FS_EmptySet DEF ConnectAndStart, CountInv, ExitOK
      <3> QED
        BY <2>1, <3>1 DEF ConnectAndStart
    <2>2. CASE Connect(s)
      BY <2>2 DEF Connect
    <2> QED
      BY <2>1, <2>2
  <1>4. IsFiniteSet(Connected') /\ iSessionCount' = Cardinality(Connected')
    BY <1>2, <1>3, FS_AddElement DEF CountInv, ExitOK
  <1>5. /\ undertaker' \in [active : BOOLEAN, cancelled : BOOLEAN]
        /\ ~undertaker'.active \/ undertaker'.cancelled
    BY DEF ConnectAndStart, Connect, CountInv
  <1>6. session' \in [Sessions -> {"closed", "open"}]
    BY <1>1 DEF CountInv
  <1> QED
    BY <1>1, <1>4, <1>5, <1>6 DEF CountInv, ExitOK

LEMMA SessionEndsCount ==
  ASSUME CountInv, NEW s \in Sessions, SessionEnds(s)
  PROVE  CountInv'
  <1>1. /\ session[s] = "open" /\ session' = [session EXCEPT ![s] = "closed"]
        /\ iSessionCount' = iSessionCount - 1
        /\ ShutdownServer(iSessionCount - 1, files') /\ server' = server
    BY DEF SessionEnds
  <1>2. Connected' = Connected \ {s} /\ s \in Connected
    BY <1>1 DEF Connected, CountInv
  <1>3. IsFiniteSet(Connected') /\ iSessionCount' = Cardinality(Connected')
    BY <1>1, <1>2, FS_RemoveElement DEF CountInv, ExitOK
  <1>5. \/ undertaker' = undertaker /\ (~undertaker.active \/ undertaker.cancelled)
        \/ /\ undertaker' = [active |-> TRUE, cancelled |-> FALSE]
           /\ Connected' = {} /\ ~FileCloseTimersRunning(files')
    <2>1. iSessionCount' = 0 => Connected' = {}
      BY <1>3, FS_EmptySet
    <2>2. ~undertaker.active \/ undertaker.cancelled
      BY <1>2 DEF CountInv, ExitOK
    <2> QED
      BY <1>1, <2>1, <2>2 DEF ShutdownServer, DestroyServer
  <1>6. FileCloseTimersRunning(files)' = FileCloseTimersRunning(files')
    BY DEF FileCloseTimersRunning, TimerOn
  <1>7. ExitOK'
    BY <1>3, <1>5, <1>6 DEF ExitOK
  <1>8. session' \in [Sessions -> {"closed", "open"}]
    BY <1>1 DEF CountInv
  <1>9. undertaker' \in [active : BOOLEAN, cancelled : BOOLEAN]
    <2>1. CASE undertaker' = undertaker
      BY <2>1 DEF CountInv
    <2>2. CASE undertaker' = [active |-> TRUE, cancelled |-> FALSE]
      BY <2>2
    <2> QED
      BY <1>5, <2>1, <2>2
  <1>10. server' # "down" /\ server' \in {"down", "up"}
    BY <1>1, <1>2 DEF CountInv
  <1> QED
    BY <1>3, <1>7, <1>8, <1>9, <1>10 DEF CountInv

\* A request: there is a session.
LEMMA RequestCount ==
  ASSUME CountInv, NEW s \in Sessions, Request(s)
  PROVE  CountInv' \/ Ends
  <1>1. CASE \E c \in Clients, n \in FileNames : OpenWithoutModel(s, c, n)
    BY <1>1 DEF Ends
  <1>2. CASE ~\E c \in Clients, n \in FileNames : OpenWithoutModel(s, c, n)
    <2>1. session[s] = "open" /\ UNCHANGED <<exitVars, session>>
      <3>1. ASSUME NEW c \in Clients, NEW n \in FileNames,
                   OpenAgenda(s, c, n) \/ OpenFails(s, c, n) \/ DeleteAgendaFile(s, c, n)
            PROVE  session[s] = "open" /\ UNCHANGED <<exitVars, session>>
        BY <3>1 DEF OpenAgenda, OpenFails, DeleteAgendaFile, Permitted
      <3>2. ASSUME NEW c \in Clients,
                   CloseAgendaOf(s, c) \/ RequestFileNotification(s, c)
                   \/ CancelFileNotification(s, c)
            PROVE  session[s] = "open" /\ UNCHANGED <<exitVars, session>>
        BY <3>2 DEF CloseAgendaOf, RequestFileNotification, CancelFileNotification
      <3>3. ASSUME NEW n \in FileNames, CreateAgendaFile(s, n) \/ StartTask(s, n)
            PROVE  session[s] = "open" /\ UNCHANGED <<exitVars, session>>
        BY <3>3 DEF CreateAgendaFile, StartTask, Permitted, clientVars
      <3> QED
        BY <1>2, <3>1, <3>2, <3>3 DEF Request
    <2>2. s \in Connected /\ server # "down"
      BY <2>1 DEF Connected, CountInv
    <2> QED
      BY <2>1, <2>2, SameCount DEF exitVars
  <1> QED
    BY <1>1, <1>2

\* The timers of files that go on.
LEMMA TimersKept ==
  ASSUME NEW fs, NEW gs,
         \A n \in FileNames : gs[n] # Closed => fs[n] # Closed /\ gs[n].timer = fs[n].timer
  PROVE  FileCloseTimersRunning(gs) => FileCloseTimersRunning(fs)
  BY DEF FileCloseTimersRunning, TimerOn

LEMMA TaskEndsCount ==
  ASSUME Inv, CountInv, NEW n \in FileNames, TaskEnds(n)
  PROVE  CountInv'
  <1>1. PICK i \in {"none", "saved", "dirty"} :
          files' = [files EXCEPT ![n].task = NoSession, ![n].indexes = i]
    BY DEF TaskEnds
  <1>2. IsFile(files[n]) /\ files = [m \in FileNames |-> files[m]]
    BY DEF TaskEnds, IsOpen, Inv, Good, Listed
  <1>3. files'[n].timer = files[n].timer /\ \A m \in FileNames : m # n => files'[m] = files[m]
    BY <1>1, <1>2 DEF IsFile
  <1>4. FileCloseTimersRunning(files') => FileCloseTimersRunning(files)
    BY <1>2, <1>3, ClosedIsNoFile, TimersKept
  <1>5. UNCHANGED <<session, iSessionCount, undertaker, server>> /\ server # "down"
    BY DEF TaskEnds, exitVars, clientVars, IsOpen, CountInv
  <1> QED
    BY <1>4, <1>5, SameCount

LEMMA CloseTimerCount ==
  ASSUME Inv, CountInv, NEW n \in FileNames, CloseTimerFires(n)
  PROVE  CountInv'
  <1>1. files' = [files EXCEPT ![n] = Closed] /\ files[n] # Closed
        /\ files = [m \in FileNames |-> files[m]]
    BY DEF CloseTimerFires, TimerOn, Inv, Good
  <1>2. FileCloseTimersRunning(files') => FileCloseTimersRunning(files)
    BY <1>1, TimersKept
  <1>3. server = "up"
    BY <1>1 DEF CountInv
  <1> QED
    BY <1>2, <1>3, ShutdownCount DEF CloseTimerFires, clientVars

LEMMA StartsCount ==
  ASSUME Inv, CountInv, NEW kind \in {"backup", "restore"}, BackupRestoreStarts(kind)
  PROVE  CountInv'
  <1>1. ASSUME NEW n \in FileNames
        PROVE  ~TimerOn(files', n)
    <2>1. CASE TimerOn(files, n) \/ files[n] = Closed
      BY <2>1 DEF BackupRestoreStarts, Locked, StillReferenced, TimerOn
    <2>2. CASE ~TimerOn(files, n) /\ files[n] # Closed
      <3> DEFINE t == IF TaskCancelled(n) THEN NoSession ELSE files[n].task
                 i == IF kind = "restore" /\ files[n].indexes # "none" THEN "dirty"
                      ELSE files[n].indexes
      <3>1. files'[n] = [files[n] EXCEPT !.locked = TRUE,
                           !.store = IF kind = "backup" THEN "detached" ELSE "none",
                           !.task = t, !.indexes = i]
        BY <2>2 DEF BackupRestoreStarts, Locked, StillReferenced
      <3> HIDE DEF t, i
      <3>2. IsFile(files[n])
        BY <2>2 DEF Inv, Good, Listed
      <3>3. files'[n].timer = files[n].timer
        BY <3>1, <3>2 DEF IsFile
      <3> QED
        BY <2>2, <3>3 DEF TimerOn
    <2> QED
      BY <2>1, <2>2
  <1>2. ~FileCloseTimersRunning(files')
    BY <1>1 DEF FileCloseTimersRunning
  <1>3. UNCHANGED undertaker \/ ShutdownServer(iSessionCount, files')
    <2>1. CASE UNCHANGED undertaker
      BY <2>1
    <2>2. CASE ShutdownServer(iSessionCount, StillReferenced)
      BY <1>2, <2>2 DEF ShutdownServer
    <2> QED
      BY <2>1, <2>2 DEF BackupRestoreStarts
  <1> QED
    BY <1>2, <1>3, ShutdownCount DEF BackupRestoreStarts, AgentSees

LEMMA BackupEndsCount ==
  ASSUME Inv, CountInv, BackupEnds
  PROVE  CountInv'
  <1>1. ASSUME NEW n \in FileNames, files'[n] # Closed
        PROVE  files[n] # Closed /\ files'[n].timer = files[n].timer
    <2>1. files[n] # Closed /\ files'[n] = [files[n] EXCEPT !.locked = FALSE, !.store = "open"]
      BY <1>1 DEF BackupEnds, IsOpen
    <2>2. IsFile(files[n])
      BY <2>1 DEF Inv, Good, Listed
    <2> QED
      BY <2>1, <2>2 DEF IsFile
  <1>2. FileCloseTimersRunning(files') => FileCloseTimersRunning(files)
    BY <1>1, TimersKept
  <1> QED
    BY <1>2, ShutdownCount DEF BackupEnds, AgentSees, exitVars

LEMMA RestoreEndsCount ==
  ASSUME Inv, CountInv, NEW bad \in SUBSET OpenNames, RestoreEnds(bad)
  PROVE  CountInv'
  <1>1. ASSUME NEW n \in FileNames, files'[n] # Closed
        PROVE  files[n] # Closed /\ files'[n].timer = files[n].timer
    <2>1. files[n] # Closed /\ (files'[n] = Unopenable(n) \/ files'[n] = Reopened(n))
      BY <1>1 DEF RestoreEnds, IsOpen
    <2>2. IsFile(files[n])
      BY <2>1 DEF Inv, Good, Listed
    <2>3. CASE files'[n] = Reopened(n)
      BY <2>1, <2>2, <2>3 DEF IsFile, Reopened
    <2>4. CASE files'[n] = Unopenable(n)
      BY <1>1, <2>1, <2>2, <2>4 DEF IsFile, Unopenable
    <2> QED
      BY <2>1, <2>3, <2>4
  <1>2. FileCloseTimersRunning(files') => FileCloseTimersRunning(files)
    BY <1>1, TimersKept
  <1>3. UNCHANGED undertaker \/ ShutdownServer(iSessionCount, files')
    BY DEF RestoreEnds
  <1> QED
    BY <1>2, <1>3, ShutdownCount DEF RestoreEnds, AgentSees

LEMMA EndsCount ==
  ASSUME CountInv, Ends
  PROVE  CountInv'
  <1>1. \E how \in {"panic", "undertaker"} : ServerEnds(how)
    BY DEF Ends, CloseWithoutModel, OpenWithoutModel, TaskWithoutModel, StartWithoutStore,
       EndWithoutModel
  <1> QED
    BY <1>1, ServerEndsCount

LEMMA AgentRunsCount ==
  ASSUME Inv, CountInv, AgentRuns
  PROVE  CountInv' \/ Ends
  <1>1. ASSUME NEW kind \in Engines, BackupRestoreStarts(kind) \/ StartWithoutStore(kind)
        PROVE  CountInv' \/ Ends
    BY <1>1, StartsCount, NamesAssumption DEF Ends
  <1>2. CASE BackupEnds
    BY <1>2, BackupEndsCount
  <1>3. ASSUME NEW bad \in SUBSET OpenNames, RestoreEnds(bad) \/ EndWithoutModel(bad)
        PROVE  CountInv' \/ Ends
    BY <1>3, RestoreEndsCount DEF Ends
  <1>4. CASE AgentSeesNoChange
    BY <1>4, SameCount DEF AgentSeesNoChange, AgentSees, exitVars, clientVars
  <1> QED
    BY <1>1, <1>2, <1>3, <1>4 DEF AgentRuns

\* The undertaker that runs while it is cancelled does nothing but stop.
LEMMA UndertakerCount ==
  ASSUME CountInv, UndertakerRuns
  PROVE  CountInv'
  <1>1. CASE ~undertaker.cancelled
    BY <1>1, EndsCount DEF UndertakerRuns, Ends
  <1>2. CASE undertaker.cancelled
    <2>1. /\ undertaker' = [undertaker EXCEPT !.active = FALSE]
          /\ UNCHANGED <<server, iSessionCount, files, session>>
      BY <1>2 DEF UndertakerRuns, ServerEnds, clientVars
    <2>2. Connected' = Connected
      BY <2>1 DEF Connected
    <2>3. ~undertaker'.active /\ undertaker' \in [active : BOOLEAN, cancelled : BOOLEAN]
      BY <2>1 DEF CountInv
    <2> QED
      BY <2>1, <2>2, <2>3 DEF CountInv, ExitOK
  <1> QED
    BY <1>1, <1>2

LEMMA NextCount ==
  ASSUME Inv, CountInv, [Next]_vars
  PROVE  CountInv'
  <1>1. CASE UNCHANGED vars
    BY <1>1, SameCount DEF vars, exitVars, clientVars
  <1>2. ASSUME NEW s \in Sessions,
               ConnectAndStart(s) \/ Connect(s) \/ Request(s) \/ SessionEnds(s)
               \/ CloseWithoutModel(s)
        PROVE  CountInv'
    BY <1>2, ConnectCount, RequestCount, SessionEndsCount, EndsCount DEF Ends
  <1>3. ASSUME NEW n \in FileNames, TaskEnds(n) \/ TaskWithoutModel(n) \/ CloseTimerFires(n)
        PROVE  CountInv'
    BY <1>3, TaskEndsCount, CloseTimerCount, EndsCount DEF Ends
  <1>4. CASE UndertakerRuns
    BY <1>4, UndertakerCount
  <1>5. CASE AgentRuns
    BY <1>5, AgentRunsCount, EndsCount
  <1>6. CASE \/ \E state \in Engines \cup {"normal"} : EngineChanges(state)
             \/ \E n \in FileNames : EngineRestores(n)
    BY <1>6, SameCount DEF EngineChanges, EngineRestores, exitVars, clientVars
  <1> QED
    BY <1>1, <1>2, <1>3, <1>4, <1>5, <1>6 DEF Next

\* The server counts its sessions right, and never ends itself under a session or
\* while a close is delayed, however connects, ends of sessions, closes and the
\* undertaker's turn are ordered (CAgnServer::NewSessionL, SessionClosed and
\* ShutdownServer; CAgnServUndertaker::RunL).
THEOREM ExitsUnused == Spec => []ExitOK
  <1>1. Init => Inv /\ CountInv
    BY InitInv, InitCount
  <1>2. Inv /\ CountInv /\ [Next]_vars => Inv' /\ CountInv'
    BY NextInv, NextCount
  <1>3. Inv /\ CountInv => ExitOK
    BY DEF CountInv
  <1> QED
    BY <1>1, <1>2, <1>3, PTL DEF Spec
=============================================================================
