------------------------ MODULE AgnReferencesProofs ------------------------
(***************************************************************************)
(* The references the clients of the sessions hold to the open calendars,  *)
(* their tasks, and what they are told of backups and restores, whatever   *)
(* the sessions, clients, calendars and ids are.                           *)
(*                                                                         *)
(* The server finds the entry of a calendar in a session's table with a    *)
(* binary search, and a restore can give a calendar another id.  What      *)
(* depends on that search is proved where it cannot miss an entry (Apart,  *)
(* Ordered); the types and the tasks are proved without a condition.       *)
(***************************************************************************)
EXTENDS AgnServerProofs, AgnSessionFilesProofs

\* Every session is used by one client.
OneClient == \A c, d \in Clients : c = d
\* A restored calendar has the id it had when it was backed up.
StableIds == \A n \in FileNames : \A i, j \in IdsOf[n] : i = j
\* The end of a restore reaches all entries of a calendar, ...
Apart == OneClient \/ StableIds
\* ... and so do all searches: a watcher's entry is appended with no id.
Ordered == OneClient \/ (StableIds /\ Watchers = {})

-----------------------------------------------------------------------------
(* The invariant.                                                          *)

\* File x, of calendar n, when the calendars of broken were left broken by a
\* restore.
FileOK(n, x, broken) ==
  x # Closed => /\ x.id \in IdsOf[n] /\ x.ref \in Nat
                /\ x.timer => x.ref = 0
                /\ ~x.model => n \in broken
TablesOK(tables, connected) ==
  /\ tables = [s \in Sessions |-> tables[s]]
  /\ \A s \in Sessions : Table(tables[s]) /\ (s \notin connected => tables[s] = <<>>)
FiniteUsers(tables) ==
  \A id : IsFiniteSet(Users(tables, id)) /\ Cardinality(Users(tables, id)) \in Nat

TypeInv ==
  /\ \A n \in FileNames : disk[n] \in IdsOf[n] \cup {0}
  /\ indexFile \in [FileNames -> Ids \cup {0}]
  /\ \A n \in FileNames : FileOK(n, files[n], unopenable)
  /\ TablesOK(table, Connected)
  /\ lastExit \in {"none", "undertaker", "panic"} /\ agentSignalled \in BOOLEAN
  /\ unopenable \subseteq FileNames /\ iBackupRestoreLock \in [Sessions -> BOOLEAN]

\* File x of calendar n has as many references as users, or fewer when a restore
\* left it broken; a calendar that is not broken is open when it has users.
AgreeAt(n, x, tables, broken) ==
  /\ x # Closed =>
       /\ x.ref <= Cardinality(Users(tables, x.id))
       /\ n \notin broken => x.ref = Cardinality(Users(tables, x.id))
  /\ n \notin broken =>
       \A id \in IdsOf[n] : Users(tables, id) # {} => x # Closed /\ x.id = id
AgreeInv == \A n \in FileNames : AgreeAt(n, files[n], table, unopenable)

\* The task on file x is one of a session that has the calendar open.
TaskAt(x, tables, connected) ==
  x # Closed /\ x.task # NoSession /\ x.model =>
    x.task \in connected /\ \E c \in Clients : Has(tables[x.task], c, x.id)
Idle(x) == x # Closed /\ x.model => x.task = NoSession
TasksInv ==
  /\ \A n \in FileNames : TaskAt(files[n], table, Connected)
  /\ iBackupRestoreInProgress => \A n \in FileNames : Idle(files[n])

\* A server that was started during a restore and has not learned of its end
\* holds all its files open: none is replaced.
HeldInv ==
  ~iBackupRestoreInProgress /\ iCurrentState # "normal" =>
    \A n \in OpenNames : files[n].model => disk[n] = files[n].id

\* After a backup or restore only users of broken calendars were not told of
\* its end.
ToldInv ==
  ~iBackupRestoreInProgress =>
    \A s \in Sessions : \A id \in ToldIds(table[s]) :
      \A n \in FileNames : id \in IdsOf[n] => n \in unopenable
OrderInv == \A s \in Sessions : Orderly(table[s])

-----------------------------------------------------------------------------
(* The users of a calendar.                                                *)

LEMMA IdsApart ==
  /\ \A n \in FileNames : \A id \in IdsOf[n] : id \in Ids /\ id \in Nat /\ id # 0
  /\ \A m, n \in FileNames : \A id : id \in IdsOf[m] /\ id \in IdsOf[n] => m = n
  BY IdsOfAssumption, IdsAssumption

LEMMA UsersHave ==
  ASSUME NEW tables, NEW id
  PROVE  Users(tables, id) = {u \in Sessions \X Clients : Has(tables[u[1]], u[2], id)}
  BY DEF Users, Has

\* Finitely many sessions, with finite tables.
LEMMA UsersFinite ==
  ASSUME NEW tables, NEW connected, IsFiniteSet(connected), TablesOK(tables, connected)
  PROVE  FiniteUsers(tables)
  <1> SUFFICES ASSUME NEW id
               PROVE  IsFiniteSet(Users(tables, id)) /\ Cardinality(Users(tables, id)) \in Nat
    BY DEF FiniteUsers
  <1> DEFINE C == connected \cap Sessions
             E(s) == {u \in {s} \X Clients : Has(tables[s], u[2], id)}
             f == [s \in C |-> E(s)]
             U == {f[s] : s \in C}
  <1>1. IsFiniteSet(C)
    BY FS_Intersection
  <1>2. IsFiniteSet(U)
    <2>1. f \in Surjection(C, U)
      BY DEF Surjection
    <2> HIDE DEF C, U, f
    <2> QED
      BY <1>1, <2>1, FS_Surjection
  <1>3. \A e \in U : IsFiniteSet(e)
    <2>1. ASSUME NEW s \in C
          PROVE  IsFiniteSet(E(s))
      BY EntriesCount DEF TablesOK
    <2> QED
      BY <2>1
  <1>4. Users(tables, id) \in SUBSET (UNION U)
    <2>1. ASSUME NEW u \in Users(tables, id)
          PROVE  u \in UNION U
      <3>1. u \in Sessions \X Clients /\ Has(tables[u[1]], u[2], id)
        BY UsersHave
      <3>2. u[1] \in C
        <4>1. tables[u[1]] # <<>>
          BY <3>1 DEF Has, Positions
        <4> QED
          BY <3>1, <4>1 DEF TablesOK
      <3>3. u \in f[u[1]] /\ f[u[1]] \in U
        BY <3>1, <3>2
      <3> QED
        BY <3>3
    <2> QED
      BY <2>1
  <1> HIDE DEF U
  <1>5. IsFiniteSet(UNION U)
    BY <1>2, <1>3, FS_UNION
  <1>6. IsFiniteSet(Users(tables, id))
    BY <1>4, <1>5, FS_Subset
  <1> QED
    BY <1>6, FS_CardinalityType

\* Tables b have the same entries of calendars as tables a.
SameUsers(a, b) ==
  \A s \in Sessions : \A c \in Clients : \A id \in Ids : Has(b[s], c, id) <=> Has(a[s], c, id)

LEMMA SameUsersEqual ==
  ASSUME NEW a, NEW b, SameUsers(a, b), NEW id \in Ids
  PROVE  Users(b, id) = Users(a, id)
  BY UsersHave DEF SameUsers

\* Client c of session s no longer has a calendar open.
Dropped(a, b, s, c) ==
  /\ \A u \in Sessions : u # s => b[u] = a[u]
  /\ \A k \in Clients : \A id \in Ids : Has(b[s], k, id) <=> k # c /\ Has(a[s], k, id)

LEMMA DroppedUsers ==
  ASSUME NEW a, FiniteUsers(a), NEW b, NEW s \in Sessions, NEW c \in Clients,
         Dropped(a, b, s, c), NEW id \in Ids
  PROVE  /\ Users(b, id) \subseteq Users(a, id)
         /\ Cardinality(Users(b, id)) =
              Cardinality(Users(a, id)) - (IF Has(a[s], c, id) THEN 1 ELSE 0)
  <1>1. <<s, c>> \in Users(a, id) <=> Has(a[s], c, id)
    BY UsersHave
  <1>2. \A u : u \in Users(b, id) <=> u \in Users(a, id) /\ u # <<s, c>>
    BY UsersHave DEF Dropped
  <1>3. Users(b, id) = Users(a, id) \ {<<s, c>>}
    BY <1>2
  <1>4. /\ Cardinality(Users(a, id) \ {<<s, c>>}) =
             IF <<s, c>> \in Users(a, id) THEN Cardinality(Users(a, id)) - 1
             ELSE Cardinality(Users(a, id))
        /\ Cardinality(Users(a, id)) \in Nat
    BY FS_RemoveElement DEF FiniteUsers
  <1> QED
    BY <1>1, <1>3, <1>4

\* Client c of session s has opened the calendar with this id.
LEMMA AddedUsers ==
  ASSUME NEW a, FiniteUsers(a), NEW b, NEW s \in Sessions, NEW c \in Clients, NEW new \in Ids,
         \A u \in Sessions : u # s => b[u] = a[u],
         \A k : \A x : Has(b[s], k, x) <=> Has(a[s], k, x) \/ (k = c /\ x = new),
         \A x : ~Has(a[s], c, x), NEW id \in Ids
  PROVE  /\ id # new => Users(b, id) = Users(a, id)
         /\ id = new => Cardinality(Users(b, id)) = Cardinality(Users(a, id)) + 1
  <1>1. <<s, c>> \notin Users(a, id)
    BY UsersHave
  <1>2. \A u : u \in Users(b, id) <=> u \in Users(a, id) \/ (u = <<s, c>> /\ id = new)
    BY UsersHave
  <1>3. id # new => Users(b, id) = Users(a, id)
    BY <1>2
  <1>4. id = new => Users(b, id) = Users(a, id) \cup {<<s, c>>}
    BY <1>2
  <1>5. Cardinality(Users(a, id) \cup {<<s, c>>}) = Cardinality(Users(a, id)) + 1
    BY <1>1, FS_AddElement DEF FiniteUsers
  <1> QED
    BY <1>3, <1>4, <1>5

\* Session s has ended.
LEMMA EndedUsers ==
  ASSUME NEW a, FiniteUsers(a), NEW s \in Sessions, Table(a[s]),
         NEW b, b[s] = <<>>, \A u \in Sessions : u # s => b[u] = a[u], NEW id \in Ids
  PROVE  /\ Users(b, id) \subseteq Users(a, id)
         /\ Cardinality(Users(b, id)) =
              Cardinality(Users(a, id)) - Cardinality(ClientsOf(a[s], id))
  <1> DEFINE E == {u \in {s} \X Clients : Has(a[s], u[2], id)}
             A == Users(a, id)
  <1>1. Cardinality(E) = Cardinality(ClientsOf(a[s], id))
    BY EntriesCount
  <1>2. \A u : u \in E => u \in A
    BY UsersHave
  <1>3. \A u : u \in Users(b, id) <=> u \in A /\ u \notin E
    <2>1. \A c : ~Has(b[s], c, id)
      BY DEF Has, Positions
    <2> QED
      BY <2>1, UsersHave
  <1>4. Users(b, id) = A \ E /\ A \cap E = E
    BY <1>2, <1>3
  <1>5. IsFiniteSet(A)
    BY DEF FiniteUsers
  <1> HIDE DEF A, E
  <1>6. Cardinality(A \ E) = Cardinality(A) - Cardinality(A \cap E)
    BY <1>5, FS_Difference
  <1>7. Users(b, id) \subseteq A
    BY <1>4
  <1> QED
    BY <1>1, <1>4, <1>6, <1>7 DEF A

-----------------------------------------------------------------------------
(* Files that lose references, and files that are opened.                  *)

\* y is file x after the close of k of its users.
Lost(x, k, y) ==
  \/ x = Closed /\ y = Closed
  \/ x # Closed /\ y = Closed /\ x.ref <= k
  \/ /\ x # Closed /\ y # Closed
     /\ y.id = x.id /\ y.model = x.model
     /\ y.ref = IF k <= x.ref THEN x.ref - k ELSE 0
     /\ y.timer => y.ref = 0

LEMMA LostOK ==
  ASSUME NEW n, NEW broken, NEW x, FileOK(n, x, broken), NEW k \in Nat, NEW y, Lost(x, k, y)
  PROVE  FileOK(n, y, broken)
  <1>1. CASE y # Closed
    <2>1. x.ref \in Nat /\ y.ref = IF k <= x.ref THEN x.ref - k ELSE 0
      BY <1>1 DEF FileOK, Lost
    <2>2. y.ref \in Nat
      BY <2>1
    <2> QED
      BY <1>1, <2>2 DEF FileOK, Lost
  <1> QED
    BY <1>1 DEF FileOK

LEMMA LostAgree ==
  ASSUME NEW n, NEW broken, NEW x, FileOK(n, x, broken), NEW k \in Nat, NEW y, Lost(x, k, y),
         NEW a, FiniteUsers(a), AgreeAt(n, x, a, broken), NEW b, FiniteUsers(b),
         \A id \in IdsOf[n] : Users(b, id) \subseteq Users(a, id),
         x # Closed => Cardinality(Users(b, x.id)) = Cardinality(Users(a, x.id)) - k
  PROVE  AgreeAt(n, y, b, broken)
  <1>1. CASE y # Closed
    <2> DEFINE p == Cardinality(Users(a, x.id))
               q == Cardinality(Users(b, x.id))
    <2>1. /\ x # Closed /\ y.id = x.id /\ y.ref = IF k <= x.ref THEN x.ref - k ELSE 0
          /\ x.ref \in Nat /\ p \in Nat /\ q \in Nat /\ q = p - k
          /\ x.ref <= p /\ (n \notin broken => x.ref = p)
      BY <1>1 DEF Lost, FileOK, AgreeAt, FiniteUsers
    <2>2. \A id \in IdsOf[n] : n \notin broken /\ Users(b, id) # {} => y.id = id
      BY <2>1 DEF AgreeAt
    <2> HIDE DEF p, q
    <2>3. y.ref <= q /\ (n \notin broken => y.ref = q)
      BY <2>1
    <2> QED
      BY <1>1, <2>1, <2>2, <2>3 DEF AgreeAt, q
  <1>2. CASE y = Closed
    <2>1. ASSUME n \notin broken, NEW id \in IdsOf[n], Users(b, id) # {}
          PROVE  FALSE
      <3>1. x # Closed /\ x.id = id /\ x.ref = Cardinality(Users(a, id))
        BY <2>1 DEF AgreeAt
      <3>2. x.ref <= k
        BY <1>2, <3>1 DEF Lost
      <3>3. Cardinality(Users(b, id)) = Cardinality(Users(a, id)) - k
        BY <3>1
      <3>4. Cardinality(Users(a, id)) \in Nat /\ Cardinality(Users(b, id)) \in Nat
            /\ IsFiniteSet(Users(b, id))
        BY DEF FiniteUsers
      <3>5. Cardinality(Users(b, id)) = 0
        BY <3>1, <3>2, <3>3, <3>4
      <3> QED
        BY <2>1, <3>4, <3>5, FS_EmptySet
    <2> QED
      BY <1>2, <2>1 DEF AgreeAt
  <1> QED
    BY <1>1, <1>2

\* CloseAgenda, called k times for one file.
LEMMA CloseAgendaLost ==
  ASSUME NEW fs, NEW closes, NEW atOnce \in BOOLEAN, NEW n \in FileNames, Listed(fs[n]),
         NEW broken, FileOK(n, fs[n], broken), closes[n] \in Nat
  PROVE  /\ Lost(fs[n], closes[n], CloseAgenda(fs, closes, atOnce)[n])
         /\ CloseAgenda(fs, closes, atOnce)[n] # Closed =>
              CloseAgenda(fs, closes, atOnce)[n].task = fs[n].task
  <1> DEFINE x == fs[n]
             y == CloseAgenda(fs, closes, atOnce)[n]
             k == closes[n]
  <1> SUFFICES Lost(x, k, y) /\ (y # Closed => y.task = x.task)
    OBVIOUS
  <1>1. CASE x = Closed
    BY <1>1 DEF CloseAgenda, Lost
  <1>2. CASE x # Closed
    <2>1. IsFile(x) /\ x.ref \in Nat /\ (x.timer => x.ref = 0) /\ k \in Nat
      BY <1>2 DEF FileOK, Listed
    <2>2. \/ (k = 0 \/ x.ref = 0) /\ y = x
          \/ k < x.ref /\ y = [x EXCEPT !.ref = @ - k]
          \/ x.ref <= k /\ y = Closed
          \/ x.ref <= k /\ y = [x EXCEPT !.ref = 0, !.timer = TRUE]
      BY <1>2, <2>1 DEF CloseAgenda
    <2> HIDE DEF x, y, k
    <2>3. CASE (k = 0 \/ x.ref = 0) /\ y = x
      BY <1>2, <2>1, <2>3 DEF Lost, x
    <2>4. CASE k < x.ref /\ y = [x EXCEPT !.ref = @ - k]
      <3>1. /\ y.id = x.id /\ y.model = x.model /\ y.task = x.task
            /\ y.ref = x.ref - k /\ (y.timer <=> x.timer) /\ y # Closed
        <4>1. y.coll = x.coll
          BY <2>1, <2>4 DEF IsFile
        <4>2. y # Closed
          BY <2>1, <4>1, ClosedIsNoFile DEF Closed
        <4> QED
          BY <2>1, <2>4, <4>2 DEF IsFile
      <3>2. ~x.timer /\ k <= x.ref
        BY <2>1, <2>4
      <3> QED
        BY <1>2, <2>1, <3>1, <3>2 DEF Lost, x
    <2>5. CASE x.ref <= k /\ y = Closed
      BY <1>2, <2>5 DEF Lost, x
    <2>6. CASE x.ref <= k /\ y = [x EXCEPT !.ref = 0, !.timer = TRUE]
      <3>1. /\ y.id = x.id /\ y.model = x.model /\ y.task = x.task
            /\ y.ref = 0 /\ y # Closed
        <4>1. y.coll = x.coll
          BY <2>1, <2>6 DEF IsFile
        <4>2. y # Closed
          BY <2>1, <4>1, ClosedIsNoFile DEF Closed
        <4> QED
          BY <2>1, <2>6, <4>2 DEF IsFile
      <3>2. (IF k <= x.ref THEN x.ref - k ELSE 0) = 0
        BY <2>1, <2>6
      <3> QED
        BY <1>2, <2>1, <3>1, <3>2 DEF Lost, x
    <2> QED
      BY <2>2, <2>3, <2>4, <2>5, <2>6
  <1> QED
    BY <1>1, <1>2

\* A calendar that is opened for one more client.
LEMMA GainedAgree ==
  ASSUME NEW n, NEW broken, NEW x, FileOK(n, x, broken), NEW y, y # Closed, y.ref \in Nat,
         x # Closed => y.id = x.id /\ y.ref = x.ref + 1, x = Closed => y.ref = 1,
         NEW a, FiniteUsers(a), AgreeAt(n, x, a, broken), NEW b, FiniteUsers(b),
         y.id \in IdsOf[n], \A id \in IdsOf[n] : id # y.id => Users(b, id) = Users(a, id),
         Cardinality(Users(b, y.id)) = Cardinality(Users(a, y.id)) + 1
  PROVE  AgreeAt(n, y, b, broken)
  <1> DEFINE p == Cardinality(Users(a, y.id))
             q == Cardinality(Users(b, y.id))
  <1>1. p \in Nat /\ q \in Nat /\ q = p + 1
    BY DEF FiniteUsers
  <1>2. CASE x # Closed
    <2>1. x.ref <= p /\ (n \notin broken => x.ref = p) /\ x.ref \in Nat /\ y.ref = x.ref + 1
      BY <1>2 DEF AgreeAt, FileOK
    <2>2. \A id \in IdsOf[n] : n \notin broken /\ Users(b, id) # {} => y.id = id
      BY <1>2 DEF AgreeAt
    <2> HIDE DEF p, q
    <2>3. y.ref <= q /\ (n \notin broken => y.ref = q)
      BY <1>1, <2>1
    <2> QED
      BY <2>2, <2>3 DEF AgreeAt, q
  <1>3. CASE x = Closed
    <2>1. n \notin broken => p = 0
      BY <1>3, FS_EmptySet DEF AgreeAt, FiniteUsers
    <2>2. \A id \in IdsOf[n] : n \notin broken /\ Users(b, id) # {} => y.id = id
      BY <1>3 DEF AgreeAt
    <2>3. y.ref = 1
      BY <1>3
    <2> HIDE DEF p, q
    <2>4. y.ref <= q /\ (n \notin broken => y.ref = q)
      BY <1>1, <2>1, <2>3
    <2> QED
      BY <2>2, <2>4 DEF AgreeAt, q
  <1> QED
    BY <1>2, <1>3

\* Lists of files fs and tables a after closes that leave gs and b.
Loses(fs, gs, a, b) ==
  /\ \A id \in Ids : Users(b, id) \subseteq Users(a, id)
  /\ \A n \in FileNames : \E k \in Nat :
       /\ Lost(fs[n], k, gs[n])
       /\ fs[n] # Closed =>
            Cardinality(Users(b, fs[n].id)) = Cardinality(Users(a, fs[n].id)) - k

LEMMA LosesOK ==
  ASSUME NEW fs, NEW gs, NEW a, NEW b, NEW broken, Loses(fs, gs, a, b),
         \A n \in FileNames : FileOK(n, fs[n], broken)
  PROVE  \A n \in FileNames : FileOK(n, gs[n], broken)
  BY LostOK DEF Loses

LEMMA LosesAgree ==
  ASSUME NEW fs, NEW gs, NEW a, NEW b, NEW broken, Loses(fs, gs, a, b),
         FiniteUsers(a), FiniteUsers(b),
         \A n \in FileNames : FileOK(n, fs[n], broken) /\ AgreeAt(n, fs[n], a, broken)
  PROVE  \A n \in FileNames : AgreeAt(n, gs[n], b, broken)
  <1> SUFFICES ASSUME NEW n \in FileNames
               PROVE  AgreeAt(n, gs[n], b, broken)
    OBVIOUS
  <1>1. PICK k \in Nat :
          /\ Lost(fs[n], k, gs[n])
          /\ fs[n] # Closed =>
               Cardinality(Users(b, fs[n].id)) = Cardinality(Users(a, fs[n].id)) - k
    BY DEF Loses
  <1>2. \A id \in IdsOf[n] : Users(b, id) \subseteq Users(a, id)
    BY IdsApart DEF Loses
  <1> QED
    BY <1>1, <1>2, LostAgree

\* A task goes on only when its session still has the calendar open; p and q are
\* the sessions before and after.
TasksFollow(fs, gs, a, b, p, q) ==
  \A n \in FileNames :
    gs[n] # Closed /\ gs[n].task # NoSession /\ gs[n].model =>
      /\ fs[n] # Closed /\ fs[n].model /\ gs[n].task = fs[n].task /\ gs[n].id = fs[n].id
      /\ gs[n].task \in p /\ (\E c \in Clients : Has(a[gs[n].task], c, gs[n].id)) =>
           gs[n].task \in q /\ \E c \in Clients : Has(b[gs[n].task], c, gs[n].id)

LEMMA TasksFollowAt ==
  ASSUME NEW fs, NEW gs, NEW a, NEW b, NEW p, NEW q, TasksFollow(fs, gs, a, b, p, q),
         \A n \in FileNames : TaskAt(fs[n], a, p)
  PROVE  /\ \A n \in FileNames : TaskAt(gs[n], b, q)
         /\ \A n \in FileNames : Idle(fs[n]) => Idle(gs[n])
  BY DEF TasksFollow, TaskAt, Idle

LEMMA TasksStep ==
  ASSUME TasksFollow(files, files', table, table', Connected, Connected'),
         iBackupRestoreInProgress' => iBackupRestoreInProgress
  PROVE  TasksInv => TasksInv'
  BY TasksFollowAt DEF TasksInv

-----------------------------------------------------------------------------
(* The close of one client's calendar.                                     *)

LEMMA HasByClient ==
  ASSUME NEW t, Table(t), NEW c, NEW g, g = GetSessionFile(t, c)
  PROVE  \A id : Has(t, c, id) <=> g # 0 /\ t[g].id = id
  <1>1. \/ g = 0 /\ \A i \in Positions(t) : t[i].client # c
        \/ g # 0 /\ g \in Positions(t) /\ t[g].client = c
    BY GetFinds
  <1> QED
    BY <1>1 DEF Has, Table

\* A calendar has an id no other calendar has.
LEMMA OpenIds ==
  ASSUME TypeInv, NEW m \in OpenNames, NEW n \in OpenNames, files[m].id = files[n].id
  PROVE  m = n
  <1>1. files[m].id \in IdsOf[m] /\ files[n].id \in IdsOf[n] /\ m \in FileNames /\ n \in FileNames
    BY DEF TypeInv, FileOK, OpenNames, IsOpen
  <1> QED
    BY <1>1, IdsApart

LEMMA LookupMeansModel ==
  ASSUME Inv, TypeInv, NEW n \in OpenNames, ~LookupPanics(files[n].id)
  PROVE  files[n].model
  <1>1. SUFFICES ASSUME ~files[n].model PROVE FALSE
    OBVIOUS
  <1>2. PICK m \in OpenNames : files[m].coll < files[n].coll /\ files[m].id = files[n].id
    BY <1>1 DEF LookupPanics
  <1>3. m = n /\ files[n].coll \in Nat
    BY <1>2, OpenIds, ClosedIsNoFile DEF Inv, Good, Listed, OpenNames, IsOpen
  <1> QED
    BY <1>2, <1>3

LEMMA ClosedForAt ==
  ASSUME Inv, TypeInv, NEW s \in Sessions, NEW c \in Clients, CloseIsSafe(s, c),
         NEW n \in FileNames, NEW y, y = ClosedFor(s, c)[n],
         NEW k, k = IF files[n] # Closed /\ Has(table[s], c, files[n].id) THEN 1 ELSE 0
  PROVE  /\ Lost(files[n], k, y)
         /\ y # Closed /\ y.task # NoSession =>
              /\ y.task = files[n].task
              /\ y.task = s => k = 0
  <1> DEFINE x == files[n]
             i == GetSessionFile(table[s], c)
             id == table[s][i].id
             n0 == CHOOSE m \in NamesWith(id) : TRUE
             stopped == [files EXCEPT ![n0].task = IF @ = s THEN NoSession ELSE @]
  <1>0. /\ files = [m \in FileNames |-> files[m]] /\ Listed(x)
        /\ FileOK(n, x, unopenable)
    BY DEF Inv, Good, TypeInv
  <1>1. \A d : Has(table[s], c, d) <=> i # 0 /\ id = d
    BY HasByClient DEF TypeInv, TablesOK
  <1>2. \/ (i = 0 \/ NamesWith(id) = {}) /\ ClosedFor(s, c) = files
        \/ i # 0 /\ n0 \in NamesWith(id) /\ ClosedFor(s, c) = CloseAgenda(stopped, Once(n0), FALSE)
    BY DEF ClosedFor
  <1>3. Lost(x, 0, x)
    BY <1>0 DEF Lost, FileOK
  <1>4. n0 \in NamesWith(id) => n0 \in OpenNames /\ files[n0].id = id
    BY DEF NamesWith
  <1> HIDE DEF i, n0
  <1>5. CASE x # Closed /\ Has(table[s], c, x.id)
    <2>1. i # 0 /\ id = x.id /\ n \in OpenNames
      BY <1>1, <1>5 DEF OpenNames, IsOpen
    <2>2. x.model
      BY <2>1, LookupMeansModel DEF CloseIsSafe, i
    <2>3. n \in NamesWith(id)
      BY <2>1, <2>2 DEF NamesWith
    <2>4. ClosedFor(s, c) = CloseAgenda(stopped, Once(n0), FALSE) /\ n0 = n
      BY <1>2, <1>4, <2>1, <2>3, OpenIds
    <2> DEFINE z == stopped[n]
    <2>5. z = [x EXCEPT !.task = IF x.task = s THEN NoSession ELSE x.task]
      BY <1>0, <2>4
    <2>6. /\ Listed(z) /\ z # Closed /\ z.id = x.id /\ z.model = x.model
          /\ z.ref = x.ref /\ z.timer = x.timer
          /\ z.task = IF x.task = s THEN NoSession ELSE x.task
      <3>1. IsFile(x)
        BY <1>0, <1>5 DEF Listed
      <3>2. IsFile(z)
        BY <2>5, <3>1 DEF IsFile
      <3> HIDE DEF z, x
      <3> QED
        BY <2>5, <3>1, <3>2, ClosedIsNoFile DEF Listed, IsFile
    <2>7. FileOK(n, z, unopenable)
      BY <1>0, <1>5, <2>6 DEF FileOK
    <2>8. Once(n0)[n] = 1
      BY <2>4 DEF Once
    <2> HIDE DEF stopped
    <2>9. Lost(z, 1, y) /\ (y # Closed => y.task = z.task)
      <3>1. Listed(stopped[n]) /\ FileOK(n, stopped[n], unopenable) /\ Once(n0)[n] \in Nat
        BY <2>6, <2>7, <2>8
      <3>2. /\ Lost(stopped[n], Once(n0)[n], CloseAgenda(stopped, Once(n0), FALSE)[n])
            /\ CloseAgenda(stopped, Once(n0), FALSE)[n] # Closed =>
                 CloseAgenda(stopped, Once(n0), FALSE)[n].task = stopped[n].task
        BY <3>1, CloseAgendaLost
      <3> QED
        BY <2>4, <2>8, <3>2
    <2>10. Lost(x, 1, y)
      BY <1>5, <2>6, <2>9 DEF Lost
    <2> QED
      BY <1>5, <2>6, <2>9, <2>10
  <1>6. CASE ~(x # Closed /\ Has(table[s], c, x.id))
    <2>1. y = x
      <3>1. CASE ClosedFor(s, c) = files
        BY <3>1
      <3>2. CASE i # 0 /\ n0 \in NamesWith(id)
                 /\ ClosedFor(s, c) = CloseAgenda(stopped, Once(n0), FALSE)
        <4>1. n # n0
          BY <1>1, <1>4, <1>6, <3>2 DEF OpenNames, IsOpen
        <4>2. stopped[n] = x /\ Once(n0)[n] = 0
          BY <1>0, <4>1 DEF Once
        <4> QED
          BY <3>2, <4>2 DEF CloseAgenda
      <3> QED
        BY <1>2, <3>1, <3>2
    <2>2. k = 0 /\ Lost(x, k, y)
      BY <1>3, <1>6, <2>1
    <2> QED
      BY <2>1, <2>2
  <1> QED
    BY <1>5, <1>6

LEMMA DroppedFollow ==
  ASSUME NEW a, NEW b, NEW s \in Sessions, NEW c \in Clients, Dropped(a, b, s, c),
         NEW t \in Sessions, NEW id \in Ids, t = s => ~Has(a[s], c, id),
         \E k \in Clients : Has(a[t], k, id)
  PROVE  \E k \in Clients : Has(b[t], k, id)
  BY DEF Dropped

LEMMA FileType ==
  ASSUME Inv, TypeInv, NEW n \in FileNames, files[n] # Closed
  PROVE  /\ IsFile(files[n]) /\ files[n].id \in IdsOf[n] /\ files[n].id \in Ids
         /\ files[n].task \in Sessions \cup {NoSession} /\ files[n].ref \in Nat
  <1>1. IsFile(files[n]) /\ files[n].id \in IdsOf[n] /\ files[n].ref \in Nat
    BY DEF Inv, Good, Listed, TypeInv, FileOK
  <1>2. files[n].task \in Sessions \cup {NoSession}
    BY <1>1 DEF IsFile
  <1> QED
    BY <1>1, <1>2, IdsApart

LEMMA ClosedForLoses ==
  ASSUME Inv, TypeInv, FiniteUsers(table), NEW s \in Sessions, NEW c \in Clients,
         CloseIsSafe(s, c), NEW b, Dropped(table, b, s, c)
  PROVE  /\ Loses(files, ClosedFor(s, c), table, b)
         /\ TasksFollow(files, ClosedFor(s, c), table, b, Connected, Connected)
  <1>1. \A id \in Ids : Users(b, id) \subseteq Users(table, id)
    BY DroppedUsers
  <1>2. ASSUME NEW n \in FileNames
        PROVE  \E k \in Nat :
                 /\ Lost(files[n], k, ClosedFor(s, c)[n])
                 /\ files[n] # Closed => Cardinality(Users(b, files[n].id)) =
                                           Cardinality(Users(table, files[n].id)) - k
    <2> DEFINE k == IF files[n] # Closed /\ Has(table[s], c, files[n].id) THEN 1 ELSE 0
    <2>1. Lost(files[n], k, ClosedFor(s, c)[n])
      BY ClosedForAt
    <2>2. files[n] # Closed => Cardinality(Users(b, files[n].id)) =
                                 Cardinality(Users(table, files[n].id)) - k
      <3> SUFFICES ASSUME files[n] # Closed
                   PROVE  Cardinality(Users(b, files[n].id)) =
                            Cardinality(Users(table, files[n].id)) - k
        OBVIOUS
      <3> DEFINE id == files[n].id
      <3>1. id \in Ids
        BY FileType
      <3>2. k = IF Has(table[s], c, id) THEN 1 ELSE 0
        OBVIOUS
      <3> HIDE DEF id, k
      <3>3. Cardinality(Users(b, id)) =
              Cardinality(Users(table, id)) - (IF Has(table[s], c, id) THEN 1 ELSE 0)
        BY <3>1, DroppedUsers
      <3>4. Cardinality(Users(b, id)) = Cardinality(Users(table, id)) - k
        BY <3>2, <3>3
      <3> QED
        BY <3>4 DEF id
    <2>3. k \in Nat
      OBVIOUS
    <2> HIDE DEF k
    <2> QED
      BY <2>1, <2>2, <2>3
  <1>3. ASSUME NEW n \in FileNames, NEW y, y = ClosedFor(s, c)[n],
               y # Closed, y.task # NoSession, y.model
        PROVE  /\ files[n] # Closed /\ files[n].model /\ y.task = files[n].task
               /\ y.id = files[n].id
               /\ y.task \in Connected /\ (\E k \in Clients : Has(table[y.task], k, y.id)) =>
                    y.task \in Connected /\ \E k \in Clients : Has(b[y.task], k, y.id)
    <2> DEFINE k == IF files[n] # Closed /\ Has(table[s], c, files[n].id) THEN 1 ELSE 0
    <2>1. /\ Lost(files[n], k, y)
          /\ y.task = files[n].task /\ (y.task = s => k = 0)
      BY <1>3, ClosedForAt
    <2>2. files[n] # Closed /\ files[n].model /\ y.id = files[n].id
      <3> HIDE DEF k
      <3> QED
        BY <1>3, <2>1 DEF Lost
    <2>4. y.task = s => ~Has(table[s], c, files[n].id)
      BY <2>1, <2>2
    <2>3. y.task \in Sessions /\ files[n].id \in Ids
      BY <1>3, <2>1, <2>2, FileType
    <2> HIDE DEF k
    <2> QED
      BY <2>1, <2>2, <2>3, <2>4, DroppedFollow
  <1> QED
    BY <1>1, <1>2, <1>3 DEF Loses, TasksFollow

-----------------------------------------------------------------------------
(* The other steps that close files or tables.                             *)

LEMMA SameLoses ==
  ASSUME NEW fs, NEW gs, NEW a, FiniteUsers(a), NEW b, SameUsers(a, b),
         \A n \in FileNames : fs[n] # Closed => fs[n].id \in Ids,
         \A n \in FileNames : Lost(fs[n], 0, gs[n])
  PROVE  Loses(fs, gs, a, b)
  <1>1. \A id \in Ids : Users(b, id) = Users(a, id) /\ Cardinality(Users(a, id)) \in Nat
    BY SameUsersEqual DEF FiniteUsers
  <1>2. ASSUME NEW n \in FileNames
        PROVE  /\ Lost(fs[n], 0, gs[n])
               /\ fs[n] # Closed =>
                    Cardinality(Users(b, fs[n].id)) = Cardinality(Users(a, fs[n].id)) - 0
    BY <1>1
  <1> QED
    BY <1>1, <1>2 DEF Loses

LEMMA SessionEndsLoses ==
  ASSUME Inv, TypeInv, FiniteUsers(table), NEW s \in Sessions, SessionEnds(s)
  PROVE  /\ Loses(files, files', table, table')
         /\ TasksFollow(files, files', table, table', Connected, Connected')
  <1> DEFINE E == EntriesOf(s)
             cancelled == [n \in FileNames |->
                     IF IsOpen(n) /\ files[n].task = s /\ E[n] > 0
                     THEN [files[n] EXCEPT !.task = NoSession] ELSE files[n]]
  <1>1. /\ files' = CloseAgenda(cancelled, E, FALSE)
        /\ table' = [table EXCEPT ![s] = <<>>] /\ session' = [session EXCEPT ![s] = "closed"]
        /\ \A i \in Positions(table[s]) : ~LookupPanics(table[s][i].id)
    BY DEF SessionEnds
  <1>2. table'[s] = <<>> /\ (\A u \in Sessions : u # s => table'[u] = table[u]) /\ Table(table[s])
    BY <1>1 DEF TypeInv, TablesOK
  <1>3. \A id \in Ids :
          /\ Users(table', id) \subseteq Users(table, id)
          /\ Cardinality(Users(table', id)) =
               Cardinality(Users(table, id)) - Cardinality(ClientsOf(table[s], id))
    BY <1>2, EndedUsers
  <1>4. ASSUME NEW n \in FileNames, files[n] # Closed
        PROVE  /\ E[n] = Cardinality(ClientsOf(table[s], files[n].id)) /\ E[n] \in Nat
               /\ E[n] = 0 => \A c : ~Has(table[s], c, files[n].id)
    <2> DEFINE C == ClientsOf(table[s], files[n].id)
    <2>1. IsFiniteSet(C)
      BY <1>2, EntriesCount
    <2>2. Cardinality(C) \in Nat /\ (Cardinality(C) = 0 => C = {})
      BY <2>1, FS_CardinalityType, FS_EmptySet
    <2>3. E[n] = IF files[n].model THEN Cardinality(C) ELSE 0
      BY <1>4 DEF EntriesOf, IsOpen
    <2>4. ~files[n].model => C = {}
      BY <1>1, <1>4, LookupMeansModel DEF ClientsOf, OpenNames, IsOpen
    <2>5. C = {} => \A c : ~Has(table[s], c, files[n].id)
      BY DEF Has, ClientsOf
    <2>6. Cardinality({}) = 0
      BY FS_EmptySet
    <2> HIDE DEF C
    <2>7. E[n] = Cardinality(C)
      BY <2>3, <2>4, <2>6
    <2> QED
      BY <2>2, <2>5, <2>7 DEF C
  <1>5. ASSUME NEW n \in FileNames
        PROVE  /\ E[n] \in Nat /\ Listed(cancelled[n])
               /\ cancelled[n] = Closed <=> files[n] = Closed
               /\ files[n] # Closed =>
                    /\ cancelled[n].id = files[n].id /\ cancelled[n].model = files[n].model
                    /\ cancelled[n].ref = files[n].ref
                    /\ cancelled[n].timer <=> files[n].timer
                    /\ cancelled[n].task =
                         IF files[n].task = s /\ E[n] > 0 THEN NoSession ELSE files[n].task
    <2>1. CASE files[n] = Closed
      <3>1. cancelled[n] = Closed /\ E[n] = 0
        BY <2>1 DEF EntriesOf, IsOpen
      <3> QED
        BY <2>1, <3>1 DEF Listed
    <2>2. CASE files[n] # Closed /\ files[n].task = s /\ E[n] > 0
      <3> DEFINE z == [files[n] EXCEPT !.task = NoSession]
      <3>1. cancelled[n] = z /\ IsFile(files[n])
        BY <2>2, FileType DEF IsOpen
      <3>2. /\ IsFile(z) /\ z.id = files[n].id /\ z.model = files[n].model
            /\ z.ref = files[n].ref /\ z.timer = files[n].timer /\ z.task = NoSession
        BY <3>1 DEF IsFile
      <3>3. z # Closed
        BY <3>2, ClosedIsNoFile
      <3> HIDE DEF z
      <3> QED
        BY <1>4, <2>2, <3>1, <3>2, <3>3 DEF Listed
    <2>3. CASE files[n] # Closed /\ ~(files[n].task = s /\ E[n] > 0)
      BY <1>4, <2>3, FileType DEF IsOpen, Listed
    <2> QED
      BY <2>1, <2>2, <2>3
  <1> HIDE DEF E, cancelled
  <1>6. ASSUME NEW n \in FileNames
        PROVE  /\ Lost(files[n], E[n], files'[n])
               /\ files'[n] # Closed => files'[n].task = cancelled[n].task
    <2>1. FileOK(n, cancelled[n], unopenable)
      BY <1>5 DEF TypeInv, FileOK
    <2>2. /\ Lost(cancelled[n], E[n], files'[n])
          /\ files'[n] # Closed => files'[n].task = cancelled[n].task
      <3>1. FALSE \in BOOLEAN /\ E[n] \in Nat /\ Listed(cancelled[n])
        BY <1>5
      <3>2. LET z == CloseAgenda(cancelled, E, FALSE)[n] IN
            Lost(cancelled[n], E[n], z) /\ (z # Closed => z.task = cancelled[n].task)
        BY <2>1, <3>1, CloseAgendaLost
      <3> QED
        BY <1>1, <3>2
    <2> QED
      BY <1>5, <2>2 DEF Lost
  <1>7. ASSUME NEW n \in FileNames
        PROVE  \E k \in Nat :
                 /\ Lost(files[n], k, files'[n])
                 /\ files[n] # Closed => Cardinality(Users(table', files[n].id)) =
                                           Cardinality(Users(table, files[n].id)) - k
    BY <1>3, <1>4, <1>5, <1>6, FileType
  <1>8. ASSUME NEW n \in FileNames, NEW y, y = files'[n], y # Closed, y.task # NoSession, y.model
        PROVE  /\ files[n] # Closed /\ files[n].model /\ y.task = files[n].task
               /\ y.id = files[n].id
               /\ y.task \in Connected /\ (\E c \in Clients : Has(table[y.task], c, y.id)) =>
                    y.task \in Connected' /\ \E c \in Clients : Has(table'[y.task], c, y.id)
    <2>1. files[n] # Closed /\ files[n].model /\ y.id = files[n].id
      BY <1>6, <1>8 DEF Lost
    <2>2. y.task = files[n].task /\ ~(y.task = s /\ E[n] > 0)
      BY <1>5, <1>6, <1>8, <2>1
    <2>3. y.task \in Sessions /\ (y.task = s => \A c : ~Has(table[s], c, y.id))
      BY <1>4, <1>8, <2>1, <2>2, FileType
    <2>4. y.task # s /\ y.task \in Connected => y.task \in Connected' /\ table'[y.task] = table[y.task]
      BY <1>1, <1>2, <2>3 DEF Connected
    <2> QED
      BY <2>1, <2>2, <2>3, <2>4
  <1> QED
    BY <1>3, <1>7, <1>8 DEF Loses, TasksFollow

LEMMA DeleteLoses ==
  ASSUME Inv, TypeInv, FiniteUsers(table), NEW s \in Sessions, NEW c \in Clients,
         NEW n \in FileNames, DeleteAgendaFile(s, c, n)
  PROVE  /\ Loses(files, files', table, table')
         /\ TasksFollow(files, files', table, table', Connected, Connected')
         /\ TablesOK(table', Connected')
  <1> DEFINE i == GetSessionFile(table[s], c)
             own == IsOpen(n) /\ i # 0 /\ table[s][i].id = files[n].id
  <1>1. /\ session[s] = "open" /\ session' = session /\ files' = [files EXCEPT ![n] = Closed]
        /\ table' = [table EXCEPT ![s] = IF own THEN DeleteUnlessWatching(@, c) ELSE @]
        /\ IsOpen(n) => files[n].ref = 0 \/ (own /\ files[n].ref = 1)
    BY DEF DeleteAgendaFile, Permitted
  <1>2. /\ Connected' = Connected /\ s \in Connected
        /\ table = [u \in Sessions |-> table[u]] /\ Table(table[s])
        /\ \A u \in Sessions : u \notin Connected => table[u] = <<>>
        /\ \A u \in Sessions : Table(table[u])
    BY <1>1 DEF Connected, TypeInv, TablesOK
  <1>3. \A id : Has(table[s], c, id) <=> i # 0 /\ table[s][i].id = id
    BY <1>2, HasByClient
  <1>4. own <=> files[n] # Closed /\ Has(table[s], c, files[n].id)
    BY <1>3 DEF IsOpen
  <1>5. files'[n] = Closed /\ \A m \in FileNames : m # n => files'[m] = files[m]
    BY <1>1 DEF Inv, Good
  <1>6. \A m \in FileNames : files[m] # Closed => Lost(files[m], 0, files[m])
    BY DEF TypeInv, FileOK, Lost
  <1> HIDE DEF i
  <1>7. CASE ~own
    <2>1. table' = table
      BY <1>1, <1>2, <1>7
    <2>2. SameUsers(table, table')
      BY <2>1 DEF SameUsers
    <2>3. ASSUME NEW m \in FileNames
          PROVE  Lost(files[m], 0, files'[m])
      <3>1. CASE m = n
        BY <1>1, <1>5, <1>7, <3>1 DEF Lost, IsOpen
      <3>2. CASE m # n
        BY <1>5, <1>6, <3>2 DEF Lost
      <3> QED
        BY <3>1, <3>2
    <2>4. Loses(files, files', table, table')
      BY <2>2, <2>3, SameLoses, FileType
    <2>5. TasksFollow(files, files', table, table', Connected, Connected')
      BY <1>2, <1>5, <2>1 DEF TasksFollow
    <2>6. TablesOK(table', Connected')
      BY <1>2, <2>1 DEF TablesOK
    <2> QED
      BY <2>4, <2>5, <2>6
  <1>8. CASE own
    <2> DEFINE d == DeleteUnlessWatching(table[s], c)
    <2>1. table' = [table EXCEPT ![s] = d]
      BY <1>1, <1>8
    <2>2. Table(d) /\ \A k : \A id \in Ids : Has(d, k, id) <=> k # c /\ Has(table[s], k, id)
      BY <1>2, DeleteUnlessWatchingTable
    <2> HIDE DEF d, own
    <2>3. table'[s] = d /\ \A u \in Sessions : u # s => table'[u] = table[u]
      BY <1>2, <2>1
    <2>4. Dropped(table, table', s, c)
      BY <2>2, <2>3 DEF Dropped
    <2>5. TablesOK(table', Connected')
      <3>1. table' = [u \in Sessions |-> table'[u]]
        BY <2>1, <1>2
      <3> QED
        BY <1>2, <2>2, <2>3, <3>1 DEF TablesOK
    <2>6. files[n] # Closed /\ Has(table[s], c, files[n].id)
      BY <1>4, <1>8
    <2>7. \A m \in FileNames : m # n /\ files[m] # Closed => ~Has(table[s], c, files[m].id)
      BY <1>3, <2>6, OpenIds DEF OpenNames, IsOpen
    <2>8. ASSUME NEW m \in FileNames
          PROVE  \E k \in Nat :
                   /\ Lost(files[m], k, files'[m])
                   /\ files[m] # Closed => Cardinality(Users(table', files[m].id)) =
                                             Cardinality(Users(table, files[m].id)) - k
      <3>1. CASE m = n
        <4>1. Lost(files[n], 1, Closed)
          BY <1>1, <2>6 DEF Lost, IsOpen
        <4>2. Cardinality(Users(table', files[n].id)) = Cardinality(Users(table, files[n].id)) - 1
          BY <2>4, <2>6, FileType, DroppedUsers
        <4> QED
          BY <1>5, <3>1, <4>1, <4>2
      <3>2. CASE m # n
        <4>1. Lost(files[m], 0, files'[m])
          BY <1>5, <1>6, <3>2 DEF Lost
        <4>2. files[m] # Closed => Cardinality(Users(table', files[m].id)) =
                                     Cardinality(Users(table, files[m].id)) - 0
          BY <2>4, <2>7, <3>2, FileType, DroppedUsers
        <4> QED
          BY <4>1, <4>2
      <3> QED
        BY <3>1, <3>2
    <2>9. ASSUME NEW m \in FileNames, files'[m] # Closed, files'[m].task # NoSession
          PROVE  LET t == files'[m].task IN
                 /\ files[m] # Closed /\ files'[m] = files[m]
                 /\ t \in Connected /\ (\E k \in Clients : Has(table[t], k, files[m].id)) =>
                      t \in Connected' /\ \E k \in Clients : Has(table'[t], k, files[m].id)
      <3>1. m # n /\ files'[m] = files[m] /\ files[m] # Closed
        BY <1>5, <2>9
      <3>2. files[m].task \in Sessions /\ files[m].id \in Ids
        BY <2>9, <3>1, FileType
      <3> QED
        BY <1>2, <2>4, <2>7, <3>1, <3>2, DroppedFollow
    <2>10. TasksFollow(files, files', table, table', Connected, Connected')
      BY <2>9 DEF TasksFollow
    <2>11. Loses(files, files', table, table')
      BY <2>4, <2>8, DroppedUsers DEF Loses
    <2> QED
      BY <2>5, <2>10, <2>11
  <1> QED
    BY <1>7, <1>8

-----------------------------------------------------------------------------
(* The steps that leave the users of every calendar as they are.           *)

Mild ==
  /\ SameUsers(table, table') /\ TablesOK(table', Connected') /\ unopenable' = unopenable
  /\ \A n \in FileNames : Lost(files[n], 0, files'[n])

LEMMA SameFile ==
  ASSUME NEW x, x.ref \in Nat, x.timer => x.ref = 0, x # Closed, NEW y, y # Closed,
         y.id = x.id, y.ref = x.ref, y.timer <=> x.timer, y.model = x.model
  PROVE  Lost(x, 0, y)
  BY DEF Lost

LEMMA SameFiles ==
  ASSUME TypeInv, NEW n \in FileNames
  PROVE  Lost(files[n], 0, files[n])
  BY DEF TypeInv, FileOK, Lost

\* Nothing that matters here changes; a session may be new.
LEMMA LeftMild ==
  ASSUME TypeInv, UNCHANGED <<files, table, unopenable, iBackupRestoreInProgress>>,
         Connected \subseteq Connected'
  PROVE  Mild /\ (TasksInv => TasksInv')
  <1>1. Mild
    BY SameFiles DEF Mild, SameUsers, TypeInv, TablesOK
  <1>2. TasksFollow(files, files', table, table', Connected, Connected')
    BY DEF TasksFollow
  <1>3. TasksInv => TasksInv'
    BY <1>2, TasksStep
  <1> QED
    BY <1>1, <1>3

LEMMA TaskMild ==
  ASSUME Inv, TypeInv, NEW n \in FileNames, TaskEnds(n) \/ \E s \in Sessions : StartTask(s, n)
  PROVE  Mild /\ (TasksInv => TasksInv')
  <1>1. /\ files[n] # Closed /\ UNCHANGED <<agentVars, clientVars>>
        /\ \E t \in Sessions \cup {NoSession}, i \in {"none", "saved", "dirty"} :
             /\ files' = [files EXCEPT ![n] = [files[n] EXCEPT !.task = t, !.indexes = i]]
             /\ t # NoSession => /\ t \in Connected /\ ~iBackupRestoreInProgress
                                 /\ ClientsOf(table[t], files[n].id) # {}
    <2>1. CASE \E s \in Sessions : StartTask(s, n)
      <3>1. PICK s \in Sessions : StartTask(s, n)
        BY <2>1
      <3>2. IsFile(files[n])
        BY <3>1, FileType DEF StartTask, IsOpen
      <3>3. /\ files[n].indexes \in {"none", "saved", "dirty"}
            /\ [files[n] EXCEPT !.task = s] =
                 [files[n] EXCEPT !.task = s, !.indexes = files[n].indexes]
        BY <3>2 DEF IsFile
      <3> QED
        BY <3>1, <3>3 DEF StartTask, IsOpen, Permitted, Connected
    <2>2. CASE TaskEnds(n)
      <3>1. /\ files[n] # Closed /\ UNCHANGED <<agentVars, clientVars>>
            /\ \E i \in {"none", "saved", "dirty"} :
                 files' = [files EXCEPT ![n].task = NoSession, ![n].indexes = i]
        BY <2>2 DEF TaskEnds, IsOpen
      <3> QED
        BY <3>1 DEF Inv, Good
    <2> QED
      BY <2>1, <2>2
  <1>2. Connected' = Connected /\ UNCHANGED <<table, unopenable, iBackupRestoreInProgress>>
    BY <1>1 DEF Connected, agentVars, clientVars
  <1>3. PICK t \in Sessions \cup {NoSession}, i \in {"none", "saved", "dirty"} :
          /\ files' = [files EXCEPT ![n] = [files[n] EXCEPT !.task = t, !.indexes = i]]
          /\ t # NoSession => /\ t \in Connected /\ ~iBackupRestoreInProgress
                              /\ ClientsOf(table[t], files[n].id) # {}
    BY <1>1
  <1> DEFINE y == [files[n] EXCEPT !.task = t, !.indexes = i]
  <1>4. files'[n] = y /\ \A m \in FileNames : m # n => files'[m] = files[m]
    BY <1>3 DEF Inv, Good
  <1>5. /\ y # Closed /\ y.id = files[n].id /\ y.ref = files[n].ref
        /\ y.timer = files[n].timer /\ y.model = files[n].model /\ y.task = t
    <2>1. IsFile(files[n])
      BY <1>1, FileType
    <2>2. y.coll = files[n].coll /\ y.id = files[n].id /\ y.ref = files[n].ref
          /\ y.timer = files[n].timer /\ y.model = files[n].model /\ y.task = t
      BY <2>1 DEF IsFile
    <2> HIDE DEF y
    <2> QED
      BY <2>1, <2>2, ClosedIsNoFile DEF Closed
  <1> HIDE DEF y
  <1>6. ASSUME NEW m \in FileNames
        PROVE  Lost(files[m], 0, files'[m])
    <2>1. CASE m # n
      BY <1>4, <2>1, SameFiles
    <2>2. CASE m = n
      BY <1>1, <1>4, <1>5, <2>2 DEF Lost, TypeInv, FileOK
    <2> QED
      BY <2>1, <2>2
  <1>7. Mild
    BY <1>2, <1>6 DEF Mild, SameUsers, TypeInv, TablesOK
  <1>8. ASSUME TasksInv, NEW m \in FileNames
        PROVE  /\ TaskAt(files'[m], table, Connected)
               /\ iBackupRestoreInProgress => Idle(files'[m])
    <2>1. CASE m # n
      BY <1>4, <1>8, <2>1 DEF TasksInv
    <2>2. CASE m = n
      <3>1. t # NoSession => \E c \in Clients : Has(table[t], c, files[n].id)
        <4>1. ASSUME t # NoSession
              PROVE  \E c \in Clients : Has(table[t], c, files[n].id)
          <5>1. t \in Sessions /\ Table(table[t])
            BY <4>1 DEF TypeInv, TablesOK
          <5>2. PICK j \in Positions(table[t]) : table[t][j].id = files[n].id
            BY <1>3, <4>1 DEF ClientsOf
          <5>3. table[t][j].client \in Clients
            BY <5>1, EntryType DEF SessionFile
          <5> QED
            BY <5>2, <5>3 DEF Has
        <4> QED
          BY <4>1
      <3> QED
        BY <1>3, <1>4, <1>5, <2>2, <3>1 DEF TaskAt, Idle
    <2> QED
      BY <2>1, <2>2
  <1> QED
    BY <1>2, <1>7, <1>8 DEF TasksInv

LEMMA CloseTimerMild ==
  ASSUME Inv, TypeInv, NEW n \in FileNames, CloseTimerFires(n)
  PROVE  Mild /\ (TasksInv => TasksInv')
  <1>1. /\ files[n] # Closed /\ files[n].timer /\ files' = [files EXCEPT ![n] = Closed]
        /\ UNCHANGED <<table, unopenable, session, iBackupRestoreInProgress>>
    BY DEF CloseTimerFires, TimerOn, agentVars, clientVars
  <1>2. files'[n] = Closed /\ (\A m \in FileNames : m # n => files'[m] = files[m])
        /\ Connected' = Connected
    BY <1>1 DEF Inv, Good, Connected
  <1>3. files[n].ref = 0
    BY <1>1 DEF TypeInv, FileOK
  <1>4. ASSUME NEW m \in FileNames
        PROVE  Lost(files[m], 0, files'[m])
    <2>1. CASE m # n
      BY <1>2, <2>1, SameFiles
    <2>2. CASE m = n
      BY <1>1, <1>2, <1>3, <2>2 DEF Lost
    <2> QED
      BY <2>1, <2>2
  <1>5. Mild
    BY <1>1, <1>2, <1>4 DEF Mild, SameUsers, TypeInv, TablesOK
  <1>6. TasksFollow(files, files', table, table', Connected, Connected')
    BY <1>1, <1>2 DEF TasksFollow
  <1>7. TasksInv => TasksInv'
    BY <1>1, <1>6, TasksStep
  <1> QED
    BY <1>5, <1>7

\* The table of one session that is open changes.
LEMMA OneTable ==
  ASSUME TypeInv, NEW s \in Connected, NEW d, Table(d), NEW b, b = [u \in Sessions |-> b[u]],
         b[s] = d, \A u \in Sessions : u # s => b[u] = table[u]
  PROVE  TablesOK(b, Connected) /\ Table(table[s]) /\ s \in Sessions
  <1>1. s \in Sessions
    BY DEF Connected
  <1> QED
    BY <1>1 DEF TypeInv, TablesOK

LEMMA NotificationMild ==
  ASSUME Inv, TypeInv, NEW s \in Sessions, NEW c \in Clients,
         RequestFileNotification(s, c) \/ CancelFileNotification(s, c)
  PROVE  /\ Mild /\ (TasksInv => TasksInv')
         /\ \A u \in Sessions : ToldIds(table'[u]) \subseteq ToldIds(table[u])
  <1>1. /\ s \in Connected /\ UNCHANGED <<files, unopenable, session, iBackupRestoreInProgress>>
        /\ \/ table' = [table EXCEPT ![s] = Watch(table[s], c)]
           \/ table' = [table EXCEPT ![s] = Unwatch(table[s], c)]
    BY DEF RequestFileNotification, CancelFileNotification, Connected, agentVars
  <1>2. Connected' = Connected /\ Table(table[s])
    BY <1>1 DEF Connected, TypeInv, TablesOK
  <1>3. PICK d : /\ table' = [table EXCEPT ![s] = d] /\ Table(d)
                 /\ \A k : \A id \in Ids : Has(d, k, id) <=> Has(table[s], k, id)
                 /\ ToldIds(d) \subseteq ToldIds(table[s])
    BY <1>1, <1>2, WatchTable, UnwatchTable
  <1>4. TablesOK(table', Connected) /\ table'[s] = d
        /\ \A u \in Sessions : u # s => table'[u] = table[u]
    <2>1. /\ table' = [u \in Sessions |-> table'[u]] /\ table'[s] = d
          /\ \A u \in Sessions : u # s => table'[u] = table[u]
      BY <1>3 DEF TypeInv, TablesOK
    <2> QED
      BY <1>1, <1>3, <2>1, OneTable
  <1>5. SameUsers(table, table')
    BY <1>3, <1>4 DEF SameUsers
  <1>6. Mild
    BY <1>1, <1>2, <1>4, <1>5, SameFiles DEF Mild
  <1>7. TasksFollow(files, files', table, table', Connected, Connected')
    <2>1. ASSUME NEW n \in FileNames, files[n] # Closed, files[n].task # NoSession
          PROVE  files[n].task \in Sessions /\ files[n].id \in Ids
      BY <2>1, FileType
    <2> QED
      BY <1>1, <1>2, <1>5, <2>1 DEF TasksFollow, SameUsers
  <1>8. TasksInv => TasksInv'
    BY <1>1, <1>7, TasksStep
  <1> QED
    BY <1>3, <1>4, <1>6, <1>8

\* The tables of all sessions after an event that only marks entries as told.
LEMMA RetoldTables ==
  ASSUME TypeInv, NEW b, b = [s \in Sessions |-> b[s]],
         \A s \in Sessions :
           /\ b[s] = [i \in Positions(table[s]) |-> b[s][i]]
           /\ \A i \in Positions(table[s]) :
                /\ b[s][i].client = table[s][i].client /\ b[s][i].id = table[s][i].id
                /\ b[s][i].watch = table[s][i].watch /\ b[s][i] \in SessionFile
  PROVE  /\ TablesOK(b, Connected) /\ SameUsers(table, b)
         /\ \A s \in Sessions : /\ Positions(b[s]) = Positions(table[s])
                                /\ Orderly(table[s]) => Orderly(b[s])
  <1>1. ASSUME NEW s \in Sessions
        PROVE  /\ Table(b[s]) /\ (s \notin Connected => b[s] = <<>>)
               /\ \A k, id : Has(b[s], k, id) <=> Has(table[s], k, id)
               /\ Positions(b[s]) = Positions(table[s])
               /\ Orderly(table[s]) => Orderly(b[s])
    <2> DEFINE t == table[s]
               d == b[s]
    <2>1. Table(t) /\ Len(t) \in Nat /\ (s \notin Connected => t = <<>>)
      BY TableType DEF TypeInv, TablesOK, Table
    <2>2. d = [i \in 1..Len(t) |-> d[i]] /\ \A i \in 1..Len(t) : d[i] \in SessionFile
      BY DEF Positions
    <2> HIDE DEF d, t
    <2>3. d \in Seq(SessionFile) /\ Len(d) = Len(t)
      BY <2>1, <2>2
    <2>4. s \notin Connected => d = <<>>
      BY <2>1, <2>2, <2>3
    <2>5. Positions(d) = Positions(t)
      BY <2>3 DEF Positions
    <2>6. /\ Table(d)
          /\ \A k, id : Has(d, k, id) <=> Has(t, k, id)
          /\ Orderly(t) => Orderly(d)
      BY <2>1, <2>3, Retold DEF d, t
    <2> QED
      BY <2>4, <2>5, <2>6 DEF d, t
  <1> QED
    BY <1>1 DEF TablesOK, SameUsers

LEMMA RetoldEntry ==
  ASSUME NEW e \in SessionFile, NEW v \in BOOLEAN, NEW d, d = [e EXCEPT !.told = v]
  PROVE  /\ d.client = e.client /\ d.id = e.id /\ d.watch = e.watch
         /\ d \in SessionFile /\ (d.told <=> v)
  BY DEF SessionFile

LEMMA BackupRestoreStartsMild ==
  ASSUME Inv, TypeInv, NEW kind \in {"backup", "restore"}, BackupRestoreStarts(kind)
  PROVE  /\ Mild /\ (TasksInv => TasksInv')
         /\ \A s \in Sessions : Orderly(table[s]) => Orderly(table'[s])
  <1> DEFINE fs == StillReferenced
             X(s) == {FindL(table[s], fs[n].id) : n \in {m \in FileNames : fs[m] # Closed}}
  <1>1. /\ files' = Locked(fs, kind) /\ ~StartPanics(fs, kind)
        /\ table' = [s \in Sessions |-> [i \in Positions(table[s]) |->
                       [table[s][i] EXCEPT !.told = @ \/ i \in X(s)]]]
        /\ UNCHANGED <<unopenable, session>>
    BY DEF BackupRestoreStarts
  <1> HIDE DEF X
  <1>2. Connected' = Connected
    BY <1>1 DEF Connected
  <1>3. /\ table' = [s \in Sessions |-> table'[s]]
        /\ \A s \in Sessions :
             /\ table'[s] = [i \in Positions(table[s]) |-> table'[s][i]]
             /\ \A i \in Positions(table[s]) :
                  table'[s][i] = [table[s][i] EXCEPT !.told = @ \/ i \in X(s)]
    BY <1>1
  <1>4. ASSUME NEW s \in Sessions, NEW i \in Positions(table[s])
        PROVE  /\ table'[s][i].client = table[s][i].client /\ table'[s][i].id = table[s][i].id
               /\ table'[s][i].watch = table[s][i].watch /\ table'[s][i] \in SessionFile
    <2> DEFINE v == table[s][i].told \/ i \in X(s)
    <2>1. table[s][i] \in SessionFile /\ v \in BOOLEAN
      BY EntryType DEF TypeInv, TablesOK
    <2>2. table'[s][i] = [table[s][i] EXCEPT !.told = v]
      BY <1>3
    <2> HIDE DEF v
    <2> QED
      BY <2>1, <2>2, RetoldEntry
  <1>5. /\ TablesOK(table', Connected) /\ SameUsers(table, table')
        /\ \A s \in Sessions : Orderly(table[s]) => Orderly(table'[s])
    <2>1. /\ table' = [s \in Sessions |-> table'[s]]
          /\ \A s \in Sessions : table'[s] = [i \in Positions(table[s]) |-> table'[s][i]]
      BY <1>3
    <2> QED
      BY <1>4, <2>1, RetoldTables
  <1>6. ASSUME NEW n \in FileNames
        PROVE  \/ files'[n] = Closed /\ (files[n] # Closed => files[n].ref = 0)
               \/ /\ files[n] # Closed /\ files'[n] # Closed
                  /\ files'[n].id = files[n].id /\ files'[n].ref = files[n].ref
                  /\ files'[n].timer <=> files[n].timer
                  /\ files'[n].model = files[n].model /\ files[n].model
                  /\ files'[n].task = IF TaskCancelled(n) THEN NoSession ELSE files[n].task
    <2>1. CASE files[n] = Closed \/ files[n].timer
      BY <1>1, <2>1 DEF Locked, StillReferenced, TimerOn, TypeInv, FileOK
    <2>2. CASE files[n] # Closed /\ ~files[n].timer
      <3> DEFINE x == files[n]
                 y == [x EXCEPT
                         !.locked = TRUE,
                         !.store = IF kind = "backup" THEN "detached" ELSE "none",
                         !.task = IF TaskCancelled(n) THEN NoSession ELSE x.task,
                         !.indexes = IF kind = "restore" /\ x.indexes # "none" THEN "dirty"
                                     ELSE x.indexes]
      <3>1. fs[n] = x
        BY <2>2 DEF StillReferenced, TimerOn
      <3>2. files'[n] = y
        BY <1>1, <2>2, <3>1 DEF Locked
      <3>3. x.model
        BY <1>1, <2>2, <3>1 DEF StartPanics
      <3>4. IsFile(x)
        BY <2>2, FileType
      <3> HIDE DEF x
      <3>5. /\ y.id = x.id /\ y.ref = x.ref /\ y.timer = x.timer /\ y.model = x.model
            /\ y.task = (IF TaskCancelled(n) THEN NoSession ELSE x.task) /\ y.coll = x.coll
        BY <3>4 DEF IsFile
      <3>6. y # Closed
        BY <3>4, <3>5, ClosedIsNoFile DEF Closed
      <3> HIDE DEF y
      <3> QED
        BY <2>2, <3>2, <3>3, <3>5, <3>6 DEF x
    <2> QED
      BY <2>1, <2>2
  <1>7. ASSUME NEW n \in FileNames
        PROVE  Lost(files[n], 0, files'[n])
    <2>1. CASE files[n] = Closed
      BY <1>6, <2>1 DEF Lost
    <2>2. CASE files[n] # Closed
      <3>1. files[n].ref \in Nat /\ (files[n].timer => files[n].ref = 0)
        BY <2>2 DEF TypeInv, FileOK
      <3> QED
        BY <1>6, <2>2, <3>1 DEF Lost
    <2> QED
      BY <2>1, <2>2
  <1>8. ASSUME TasksInv, NEW n \in FileNames, files'[n] # Closed, files'[n].model
        PROVE  files'[n].task = NoSession
    <2>1. CASE files[n].task = NoSession
      BY <1>6, <1>8, <2>1
    <2>2. CASE files[n].task # NoSession
      <3>1. /\ files[n].task \in Connected
            /\ \E c \in Clients : Has(table[files[n].task], c, files[n].id)
        BY <1>6, <1>8, <2>2 DEF TasksInv, TaskAt
      <3>2. TaskCancelled(n)
        BY <3>1 DEF TaskCancelled, Has, ClientsOf
      <3> QED
        BY <1>6, <1>8, <3>2
    <2> QED
      BY <2>1, <2>2
  <1>9. TasksInv => TasksInv'
    BY <1>8 DEF TasksInv, TaskAt, Idle
  <1> QED
    BY <1>1, <1>2, <1>5, <1>7, <1>9 DEF Mild

LEMMA BackupEndsMild ==
  ASSUME Inv, TypeInv, BackupEnds
  PROVE  /\ Mild /\ (TasksInv => TasksInv')
         /\ \A s \in Sessions :
              /\ Orderly(table[s]) => Orderly(table'[s])
              /\ Positions(table'[s]) = Positions(table[s])
              /\ \A i \in Positions(table[s]) :
                   /\ table'[s][i].id = table[s][i].id
                   /\ table'[s][i].told =>
                        /\ table[s][i].told
                        /\ \A n \in OpenNames : i # FindL(table[s], files[n].id)
  <1> DEFINE X(s) == {FindL(table[s], files[n].id) : n \in OpenNames}
  <1>1. /\ files' = [n \in FileNames |->
             IF IsOpen(n) THEN [files[n] EXCEPT !.locked = FALSE, !.store = "open"] ELSE Closed]
        /\ table' = [s \in Sessions |-> [i \in Positions(table[s]) |->
                       [table[s][i] EXCEPT !.told = @ /\ i \notin X(s)]]]
        /\ UNCHANGED <<unopenable, session>> /\ iBackupRestoreInProgress' = FALSE
    BY DEF BackupEnds
  <1> HIDE DEF X
  <1>2. Connected' = Connected
    BY <1>1 DEF Connected
  <1>3. /\ table' = [s \in Sessions |-> table'[s]]
        /\ \A s \in Sessions :
             /\ table'[s] = [i \in Positions(table[s]) |-> table'[s][i]]
             /\ \A i \in Positions(table[s]) :
                  table'[s][i] = [table[s][i] EXCEPT !.told = @ /\ i \notin X(s)]
    BY <1>1
  <1>4. ASSUME NEW s \in Sessions, NEW i \in Positions(table[s])
        PROVE  /\ table'[s][i].client = table[s][i].client /\ table'[s][i].id = table[s][i].id
               /\ table'[s][i].watch = table[s][i].watch /\ table'[s][i] \in SessionFile
               /\ table'[s][i].told => table[s][i].told /\ i \notin X(s)
    <2> DEFINE v == table[s][i].told /\ i \notin X(s)
    <2>1. table[s][i] \in SessionFile /\ v \in BOOLEAN
      BY EntryType DEF TypeInv, TablesOK
    <2>2. table'[s][i] = [table[s][i] EXCEPT !.told = v]
      BY <1>3
    <2>3. v => table[s][i].told /\ i \notin X(s)
      OBVIOUS
    <2> HIDE DEF v
    <2> QED
      BY <2>1, <2>2, <2>3, RetoldEntry
  <1>5. /\ TablesOK(table', Connected) /\ SameUsers(table, table')
        /\ \A s \in Sessions : /\ Positions(table'[s]) = Positions(table[s])
                               /\ Orderly(table[s]) => Orderly(table'[s])
    <2>1. /\ table' = [s \in Sessions |-> table'[s]]
          /\ \A s \in Sessions : table'[s] = [i \in Positions(table[s]) |-> table'[s][i]]
      BY <1>3
    <2> QED
      BY <1>4, <2>1, RetoldTables
  <1>6. ASSUME NEW n \in FileNames
        PROVE  \/ files'[n] = Closed /\ files[n] = Closed
               \/ /\ files[n] # Closed /\ files'[n] # Closed
                  /\ files'[n].id = files[n].id /\ files'[n].ref = files[n].ref
                  /\ files'[n].timer <=> files[n].timer
                  /\ files'[n].model = files[n].model /\ files'[n].task = files[n].task
    <2>1. CASE files[n] = Closed
      BY <1>1, <2>1 DEF IsOpen
    <2>2. CASE files[n] # Closed
      <3> DEFINE y == [files[n] EXCEPT !.locked = FALSE, !.store = "open"]
      <3>1. files'[n] = y /\ IsFile(files[n])
        BY <1>1, <2>2, FileType DEF IsOpen
      <3>2. /\ y.id = files[n].id /\ y.ref = files[n].ref /\ y.timer = files[n].timer
            /\ y.model = files[n].model /\ y.task = files[n].task /\ y.coll = files[n].coll
        BY <3>1 DEF IsFile
      <3> HIDE DEF y
      <3>3. y # Closed
        BY <3>1, <3>2, ClosedIsNoFile DEF Closed
      <3> QED
        BY <2>2, <3>1, <3>2, <3>3
    <2> QED
      BY <2>1, <2>2
  <1>7. ASSUME NEW n \in FileNames
        PROVE  Lost(files[n], 0, files'[n])
    <2>1. files[n] # Closed => files[n].ref \in Nat /\ (files[n].timer => files[n].ref = 0)
      BY DEF TypeInv, FileOK
    <2> QED
      BY <1>6, <2>1 DEF Lost
  <1>8. TasksFollow(files, files', table, table', Connected, Connected')
    <2>1. ASSUME NEW n \in FileNames, files[n] # Closed, files[n].task # NoSession
          PROVE  files[n].task \in Sessions /\ files[n].id \in Ids
      BY <2>1, FileType
    <2> QED
      BY <1>2, <1>5, <1>6, <2>1 DEF TasksFollow, SameUsers
  <1>9. TasksInv => TasksInv'
    BY <1>1, <1>8, TasksStep
  <1>10. Mild
    BY <1>1, <1>2, <1>5, <1>7 DEF Mild
  <1> QED
    BY <1>4, <1>5, <1>9, <1>10 DEF X

-----------------------------------------------------------------------------
(* The kinds of steps.                                                     *)

\* A step that matters neither to the users of calendars nor to what they are
\* told, but that a client may watch the calendar files or stop watching.
Quiet ==
  /\ Mild /\ (TasksInv => TasksInv')
  /\ UNCHANGED iBackupRestoreInProgress
  /\ \A s \in Sessions : ToldIds(table'[s]) \subseteq ToldIds(table[s])
  /\ \/ UNCHANGED table
     \/ \E s \in Sessions, c \in Clients :
          RequestFileNotification(s, c) \/ CancelFileNotification(s, c)

LEMMA LeftQuiet ==
  ASSUME TypeInv, UNCHANGED <<files, table, unopenable, iBackupRestoreInProgress>>,
         Connected \subseteq Connected'
  PROVE  Quiet
  BY LeftMild DEF Quiet

LEMMA QuietCases ==
  ASSUME Inv, TypeInv,
         \/ UNCHANGED vars
         \/ \E s \in Sessions : ConnectAndStart(s) \/ Connect(s)
         \/ \E s \in Sessions, c \in Clients :
              RequestFileNotification(s, c) \/ CancelFileNotification(s, c)
         \/ \E s \in Sessions, n \in FileNames : CreateAgendaFile(s, n) \/ StartTask(s, n)
         \/ \E n \in FileNames : TaskEnds(n) \/ CloseTimerFires(n) \/ EngineRestores(n)
         \/ undertaker.cancelled /\ UndertakerRuns
         \/ AgentSeesNoChange
         \/ \E state \in Engines \cup {"normal"} : EngineChanges(state)
  PROVE  Quiet
  <1>1. CASE \/ UNCHANGED vars
             \/ \E s \in Sessions, n \in FileNames : CreateAgendaFile(s, n)
             \/ \E n \in FileNames : EngineRestores(n)
             \/ undertaker.cancelled /\ UndertakerRuns
             \/ AgentSeesNoChange
             \/ \E state \in Engines \cup {"normal"} : EngineChanges(state)
    <2>1. UNCHANGED <<files, table, unopenable, iBackupRestoreInProgress, session>>
      BY <1>1 DEF vars, CreateAgendaFile, EngineRestores, UndertakerRuns, AgentSeesNoChange,
         EngineChanges, agentVars, clientVars
    <2> QED
      BY <2>1, LeftQuiet DEF Connected
  <1>2. ASSUME NEW s \in Sessions, ConnectAndStart(s) \/ Connect(s)
        PROVE  Quiet
    <2>1. /\ UNCHANGED <<files, table, unopenable, iBackupRestoreInProgress>>
          /\ session' = [session EXCEPT ![s] = "open"]
      BY <1>2 DEF ConnectAndStart, Connect, NewSession, agentVars
    <2>2. Connected \subseteq Connected'
      <3>1. ASSUME NEW u \in Sessions, session[u] = "open"
            PROVE  session'[u] = "open"
        BY <2>1, <3>1
      <3> QED
        BY <3>1 DEF Connected
    <2> QED
      BY <2>1, <2>2, LeftQuiet
  <1>3. ASSUME NEW s \in Sessions, NEW c \in Clients,
               RequestFileNotification(s, c) \/ CancelFileNotification(s, c)
        PROVE  Quiet
    <2>1. UNCHANGED iBackupRestoreInProgress
      BY <1>3 DEF RequestFileNotification, CancelFileNotification, agentVars
    <2> QED
      BY <1>3, <2>1, NotificationMild DEF Quiet
  <1>4. ASSUME NEW n \in FileNames, TaskEnds(n) \/ \E s \in Sessions : StartTask(s, n)
        PROVE  Quiet
    <2>1. UNCHANGED <<table, iBackupRestoreInProgress>>
      BY <1>4 DEF TaskEnds, StartTask, agentVars, clientVars
    <2> QED
      BY <1>4, <2>1, TaskMild DEF Quiet
  <1>5. ASSUME NEW n \in FileNames, CloseTimerFires(n)
        PROVE  Quiet
    <2>1. UNCHANGED <<table, iBackupRestoreInProgress>>
      BY <1>5 DEF CloseTimerFires, agentVars, clientVars
    <2> QED
      BY <1>5, <2>1, CloseTimerMild DEF Quiet
  <1> QED
    BY <1>1, <1>2, <1>3, <1>4, <1>5

\* A close of one client's calendar without another that opens.
ClosesOne(s, c) == CloseAgendaOf(s, c) \/ \E n \in FileNames : OpenFails(s, c, n)

LEMMA NextCases ==
  ASSUME Inv, TypeInv, [Next]_vars
  PROVE  \/ Quiet
         \/ Ends
         \/ \E s \in Sessions : SessionEnds(s)
         \/ \E s \in Sessions, c \in Clients : ClosesOne(s, c)
         \/ \E s \in Sessions, c \in Clients, n \in FileNames :
              OpenAgenda(s, c, n) \/ DeleteAgendaFile(s, c, n)
         \/ \E kind \in {"backup", "restore"} : BackupRestoreStarts(kind)
         \/ BackupEnds
         \/ \E bad \in SUBSET OpenNames : RestoreEnds(bad)
  <1> DEFINE Goal ==
         \/ Quiet
         \/ Ends
         \/ \E s \in Sessions : SessionEnds(s)
         \/ \E s \in Sessions, c \in Clients : ClosesOne(s, c)
         \/ \E s \in Sessions, c \in Clients, n \in FileNames :
              OpenAgenda(s, c, n) \/ DeleteAgendaFile(s, c, n)
         \/ \E kind \in {"backup", "restore"} : BackupRestoreStarts(kind)
         \/ BackupEnds
         \/ \E bad \in SUBSET OpenNames : RestoreEnds(bad)
  <1>1. CASE UNCHANGED vars
    BY <1>1, QuietCases
  <1>2. ASSUME NEW s \in Sessions, Request(s)
        PROVE  Goal
    <2>1. \/ \E c \in Clients, n \in FileNames :
               \/ OpenAgenda(s, c, n) \/ OpenFails(s, c, n)
               \/ OpenWithoutModel(s, c, n) \/ DeleteAgendaFile(s, c, n)
          \/ \E c \in Clients : \/ CloseAgendaOf(s, c)
                                \/ RequestFileNotification(s, c) \/ CancelFileNotification(s, c)
          \/ \E n \in FileNames : CreateAgendaFile(s, n) \/ StartTask(s, n)
      BY <1>2 DEF Request
    <2>2. ASSUME NEW c \in Clients,
                 RequestFileNotification(s, c) \/ CancelFileNotification(s, c)
          PROVE  Quiet
      BY <2>2, QuietCases
    <2>3. ASSUME NEW n \in FileNames, CreateAgendaFile(s, n) \/ StartTask(s, n)
          PROVE  Quiet
      BY <2>3, QuietCases
    <2> QED
      BY <2>1, <2>2, <2>3 DEF Ends, ClosesOne
  <1>3. ASSUME NEW s \in Sessions,
               ConnectAndStart(s) \/ Connect(s) \/ SessionEnds(s) \/ CloseWithoutModel(s)
        PROVE  Goal
    BY <1>3, QuietCases DEF Ends
  <1>4. ASSUME NEW n \in FileNames, TaskEnds(n) \/ TaskWithoutModel(n) \/ CloseTimerFires(n)
               \/ EngineRestores(n)
        PROVE  Goal
    BY <1>4, QuietCases DEF Ends
  <1>5. CASE UndertakerRuns
    <2>1. CASE undertaker.cancelled
      BY <1>5, <2>1, QuietCases
    <2>2. CASE ~undertaker.cancelled
      BY <1>5, <2>2 DEF UndertakerRuns, Ends
    <2> QED
      BY <2>1, <2>2
  <1>6. CASE AgentRuns
    <2>1. ASSUME NEW kind \in Engines, BackupRestoreStarts(kind) \/ StartWithoutStore(kind)
          PROVE  Goal
      BY <2>1, NamesAssumption DEF Ends
    <2>2. ASSUME NEW bad \in SUBSET OpenNames, RestoreEnds(bad) \/ EndWithoutModel(bad)
          PROVE  Goal
      BY <2>2 DEF Ends
    <2>3. CASE AgentSeesNoChange
      BY <2>3, QuietCases
    <2> QED
      BY <1>6, <2>1, <2>2, <2>3 DEF AgentRuns
  <1>7. CASE \E state \in Engines \cup {"normal"} : EngineChanges(state)
    BY <1>7, QuietCases
  <1> QED
    BY <1>1, <1>2, <1>3, <1>4, <1>5, <1>6, <1>7 DEF Next

-----------------------------------------------------------------------------
(* What a session is told at the end of a restore.                         *)

\* No calendar comes back with another id.
SameIds == \A n \in OpenNames : disk[n] = files[n].id
\* The end of the restore reaches all entries.
Reached == OneClient \/ SameIds

\* An entry with id x has id y once the calendars up to collection id k are
\* restored.
Renamed(x, y, k, bad) ==
  /\ \A n \in OpenNames \ bad : files[n].coll <= k /\ files[n].id = x => y = disk[n]
  /\ (\A n \in OpenNames \ bad : files[n].coll <= k => files[n].id # x) => y = x

\* Table d is table t when the session was told of these calendars.
Passed(t, d, k, bad) ==
  /\ Table(d) /\ Len(d) = Len(t)
  /\ \A i \in Positions(t) :
       /\ d[i].client = t[i].client /\ d[i].watch = t[i].watch
       /\ Reached =>
            /\ Renamed(t[i].id, d[i].id, k, bad)
            /\ SortedById(t) => \A n \in OpenNames \ bad :
                 files[n].coll <= k /\ files[n].id = t[i].id => ~d[i].told

LEMMA OneClientSorted ==
  ASSUME OneClient, NEW t, Table(t)
  PROVE  SortedById(t)
  <1>1. ASSUME NEW i \in Positions(t), NEW j \in Positions(t)
        PROVE  i = j
    <2>1. t[i].client \in Clients /\ t[j].client \in Clients
      BY EntryType DEF SessionFile
    <2> QED
      BY <2>1 DEF OneClient, Table
  <1>2. \A i \in Positions(t) : ~(i < i)
    BY TableType DEF Table, Positions
  <1> QED
    BY <1>1, <1>2 DEF SortedById

\* A restored calendar that keeps its id is found.
LEMMA ApartReached ==
  ASSUME Apart, TypeInv, \A n \in OpenNames : disk[n] # 0
  PROVE  Reached
  BY DEF Apart, Reached, StableIds, SameIds, TypeInv, FileOK, OpenNames, IsOpen

LEMMA SortedStays ==
  ASSUME Reached, TypeInv, \A n \in OpenNames : disk[n] # 0, NEW bad, NEW k,
         NEW t, Table(t), SortedById(t), NEW d, Table(d), Len(d) = Len(t),
         \A i \in Positions(t) : Renamed(t[i].id, d[i].id, k, bad)
  PROVE  SortedById(d)
  <1>1. CASE OneClient
    BY <1>1, OneClientSorted
  <1>2. CASE SameIds
    <2>2. \A i \in Positions(t) : d[i].id = t[i].id
      BY <1>2 DEF SameIds, Renamed
    <2>3. Positions(d) = Positions(t)
      BY DEF Positions
    <2> QED
      BY <2>2, <2>3 DEF SortedById
  <1> QED
    BY <1>1, <1>2 DEF Reached

\* The sessions are told of one more calendar, that with collection id k.
LEMMA PassedStep ==
  ASSUME Inv, TypeInv, \A n \in OpenNames : disk[n] # 0, NEW bad \in SUBSET OpenNames,
         NEW k \in 1..KMaxTUint8, NEW t, Table(t), NEW d, Passed(t, d, k - 1, bad),
         NEW e, e = TellRestored(d, k, bad)
  PROVE  Passed(t, e, k, bad)
  <1>0. k \in Nat /\ k - 1 \in Nat /\ \A n \in OpenNames : files[n].coll \in Nat
    BY CollectionAssumption, ClosedIsNoFile DEF Inv, Good, Listed, OpenNames, IsOpen
  <1>1. Positions(d) = Positions(t) /\ Table(d) /\ Len(d) = Len(t)
    BY DEF Passed, Positions
  <1>2. CASE \A n \in OpenNames : files[n].coll # k
    <2>1. e = d
      BY <1>2 DEF TellRestored
    <2>2. \A n \in OpenNames : files[n].coll <= k <=> files[n].coll <= k - 1
      BY <1>0, <1>2
    <2> QED
      BY <2>1, <2>2 DEF Passed, Renamed
  <1>3. CASE ~\A n \in OpenNames : files[n].coll # k
    <2> DEFINE n == CHOOSE m \in OpenNames : files[m].coll = k
               a == files[n].id
    <2>1. n \in OpenNames /\ files[n].coll = k
      BY <1>3
    <2>2. e = IF n \in bad THEN AddEnd(d, a) ELSE ReSetModel(d, a, disk[n])
      BY <1>3 DEF TellRestored, AddEnd
    <2> HIDE DEF n
    <2>3. \A m \in OpenNames : m # n => files[m].coll # k
      BY <2>1 DEF Inv, Good, OpenNames, IsOpen
    <2>4. \A m \in OpenNames : m # n => (files[m].coll <= k <=> files[m].coll <= k - 1)
      BY <1>0, <2>3
    <2>5. /\ n \in FileNames /\ a \in IdsOf[n] /\ a \in Ids /\ a \in Nat
          /\ disk[n] \in IdsOf[n] /\ disk[n] \in Ids
      <3>1. n \in FileNames /\ files[n] # Closed
        BY <2>1 DEF OpenNames, IsOpen
      <3>2. a \in IdsOf[n] /\ disk[n] \in IdsOf[n]
        BY <2>1, <3>1 DEF TypeInv, FileOK
      <3> QED
        BY <3>1, <3>2, IdsApart
    <2>6. ~(files[n].coll <= k - 1) /\ files[n].coll <= k
      BY <1>0, <2>1
    <2>7. CASE n \in bad
      <3>1. e = AddEnd(d, a)
        BY <2>2, <2>7
      <3>2. /\ e \in Seq(SessionFile) /\ Len(e) = Len(d)
            /\ \A i \in Positions(d) :
                 /\ e[i].client = d[i].client /\ e[i].id = d[i].id /\ e[i].watch = d[i].watch
                 /\ e[i].told => d[i].told
        BY <1>1, <2>5, <3>1, AddEndTable
      <3>3. Table(e)
        BY <1>1, <3>2, Retold
      <3>4. \A m \in OpenNames \ bad : files[m].coll <= k <=> files[m].coll <= k - 1
        BY <2>4, <2>7
      <3> QED
        BY <1>1, <3>2, <3>3, <3>4 DEF Passed, Renamed
    <2>8. CASE n \notin bad
      <3>1. e = ReSetModel(d, a, disk[n])
        BY <2>2, <2>8
      <3>2. /\ Table(e) /\ Len(e) = Len(d)
            /\ \A i \in Positions(d) :
                 /\ e[i].client = d[i].client /\ e[i].watch = d[i].watch
                 /\ e[i].id = IF i = FindL(d, a) THEN disk[n] ELSE d[i].id
                 /\ e[i].told => d[i].told
                 /\ i = FindL(d, a) /\ SortedById(e) => ~e[i].told
        <4> HIDE DEF a
        <4>1. LET r == ReSetModel(d, a, disk[n]) IN
              /\ Table(r) /\ Len(r) = Len(d)
              /\ \A i \in Positions(d) :
                   /\ r[i].client = d[i].client /\ r[i].watch = d[i].watch
                   /\ r[i].id = IF i = FindL(d, a) THEN disk[n] ELSE d[i].id
                   /\ r[i].told => d[i].told
                   /\ i = FindL(d, a) /\ SortedById(r) => ~r[i].told
          BY <1>1, <2>5, ReSetModelTable
        <4> QED
          BY <3>1, <4>1
      <3>3. ASSUME Reached, NEW i \in Positions(t)
            PROVE  /\ d[i].id = a <=> t[i].id = a
                   /\ Renamed(t[i].id, d[i].id, k - 1, bad)
        <4>1. Renamed(t[i].id, d[i].id, k - 1, bad)
          BY <3>3 DEF Passed
        <4>2. ASSUME t[i].id = a
              PROVE  d[i].id = a
          <5>1. \A m \in OpenNames \ bad : files[m].coll <= k - 1 => files[m].id # a
            BY <2>1, <2>6, OpenIds
          <5> QED
            BY <4>1, <4>2, <5>1 DEF Renamed
        <4>3. ASSUME d[i].id = a
              PROVE  t[i].id = a
          <5>1. ASSUME NEW m \in OpenNames \ bad, files[m].coll <= k - 1, files[m].id = t[i].id
                PROVE  FALSE
            <6>1. disk[m] = a /\ m # n
              BY <2>6, <4>1, <4>3, <5>1 DEF Renamed
            <6>2. m \in FileNames /\ disk[m] \in IdsOf[m]
              BY DEF TypeInv, OpenNames
            <6> QED
              BY <2>5, <6>1, <6>2, IdsApart
          <5> QED
            BY <4>1, <4>3, <5>1 DEF Renamed
        <4> QED
          BY <4>1, <4>2, <4>3
      <3>4. ASSUME Reached, NEW i \in Positions(t)
            PROVE  e[i].id = IF d[i].id = a THEN disk[n] ELSE d[i].id
        <4>1. i = FindL(d, a) => d[i].id = a
          <5>1. d \in Seq(SessionFile) /\ i # 0
            BY <1>1 DEF Table, Positions
          <5> QED
            BY <2>5, <5>1, FindSound
        <4>2. CASE OneClient
          <5>1. d[i].id = a => i = FindL(d, a)
            BY <1>1, <4>2, OneClientSorted, FindComplete DEF Table
          <5> QED
            BY <1>1, <3>2, <4>1, <5>1
        <4>3. CASE SameIds
          <5>1. disk[n] = a
            BY <2>1, <4>3 DEF SameIds
          <5> QED
            BY <1>1, <3>2, <4>1, <5>1
        <4> QED
          BY <3>4, <4>2, <4>3 DEF Reached
      <3>5. ASSUME Reached, NEW i \in Positions(t)
            PROVE  Renamed(t[i].id, e[i].id, k, bad)
        <4>1. CASE t[i].id = a
          <5>1. e[i].id = disk[n]
            BY <3>3, <3>4, <3>5, <4>1
          <5>2. \A m \in OpenNames : files[m].id = a => m = n
            BY <2>1, OpenIds
          <5> QED
            BY <2>1, <2>6, <2>8, <4>1, <5>1, <5>2 DEF Renamed
        <4>2. CASE t[i].id # a
          <5>1. e[i].id = d[i].id /\ Renamed(t[i].id, d[i].id, k - 1, bad)
            BY <3>3, <3>4, <3>5, <4>2
          <5>2. \A m \in OpenNames \ bad : files[m].id = t[i].id =>
                  (files[m].coll <= k <=> files[m].coll <= k - 1)
            BY <2>4, <4>2
          <5> HIDE DEF a
          <5> QED
            BY <5>1, <5>2 DEF Renamed
        <4> QED
          BY <4>1, <4>2
      <3>6. ASSUME Reached, SortedById(t), NEW i \in Positions(t), NEW m \in OpenNames \ bad,
                   files[m].coll <= k, files[m].id = t[i].id
            PROVE  ~e[i].told
        <4>1. CASE m = n
          <5>1. SortedById(d)
            <6>1. \A j \in Positions(t) : Renamed(t[j].id, d[j].id, k - 1, bad)
              BY <3>6 DEF Passed
            <6> QED
              BY <1>1, <3>6, <6>1, SortedStays
          <5>2. SortedById(e)
            <6>1. Table(e) /\ Len(e) = Len(t)
              BY <1>1, <3>2
            <6> QED
              BY <3>5, <3>6, <6>1, SortedStays
          <5>3. d[i].id = a
            BY <3>3, <3>6, <4>1
          <5>4. i = FindL(d, a)
            BY <1>1, <5>1, <5>3, FindComplete DEF Table
          <5> QED
            BY <1>1, <3>2, <5>2, <5>4
        <4>2. CASE m # n
          <5>1. ~d[i].told
            BY <2>4, <3>6, <4>2 DEF Passed
          <5> QED
            BY <1>1, <3>2, <5>1
        <4> QED
          BY <4>1, <4>2
      <3> QED
        BY <1>1, <3>2, <3>5, <3>6 DEF Passed
    <2> QED
      BY <2>7, <2>8
  <1> QED
    BY <1>2, <1>3

\* One session is told of the calendars up to collection id k in turn.
ToldUpTo(f, t, bad, k) ==
  /\ f = [j \in 0..KMaxTUint8 |-> f[j]] /\ f[0] = t
  /\ \A j \in 1..k : f[j] = TellRestored(f[j - 1], j, bad)

LEMMA ToldExists ==
  ASSUME NEW t, NEW bad
  PROVE  \E f : ToldUpTo(f, t, bad, KMaxTUint8)
  <1> DEFINE U == {k \in 0..KMaxTUint8 : ~\E f : ToldUpTo(f, t, bad, k)}
  <1>0. KMaxTUint8 \in Nat
    BY CollectionAssumption
  <1>1. \E f : ToldUpTo(f, t, bad, 0)
    <2>1. ToldUpTo([j \in 0..KMaxTUint8 |-> t], t, bad, 0)
      BY <1>0 DEF ToldUpTo
    <2> QED
      BY <2>1
  <1>2. ASSUME NEW k \in 1..KMaxTUint8, NEW f, ToldUpTo(f, t, bad, k - 1)
        PROVE  \E g : ToldUpTo(g, t, bad, k)
    <2> DEFINE g == [j \in 0..KMaxTUint8 |->
                      IF j = k THEN TellRestored(f[k - 1], k, bad) ELSE f[j]]
    <2>1. k \in Nat /\ k - 1 \in Nat /\ k # 0 /\ k \in 0..KMaxTUint8
      BY <1>0
    <2>2. \A j \in 0..KMaxTUint8 : g[j] = IF j = k THEN TellRestored(f[k - 1], k, bad) ELSE f[j]
      OBVIOUS
    <2>3. g = [j \in 0..KMaxTUint8 |-> g[j]]
      OBVIOUS
    <2> HIDE DEF g
    <2>4. g[0] = t
      BY <1>0, <1>2, <2>1, <2>2 DEF ToldUpTo
    <2>5. ASSUME NEW j \in 1..k
          PROVE  g[j] = TellRestored(g[j - 1], j, bad)
      <3>1. j \in 0..KMaxTUint8 /\ j - 1 \in 0..KMaxTUint8 /\ j - 1 # k
        BY <1>0, <2>1
      <3>2. g[j - 1] = f[j - 1]
        BY <2>2, <3>1
      <3>3. CASE j = k
        BY <2>2, <3>1, <3>2, <3>3
      <3>4. CASE j # k
        <4>1. j \in 1..(k - 1)
          BY <2>1, <3>4
        <4> QED
          BY <1>2, <2>2, <3>1, <3>2, <3>4, <4>1 DEF ToldUpTo
      <3> QED
        BY <3>3, <3>4
    <2> QED
      BY <2>3, <2>4, <2>5 DEF ToldUpTo
  <1>3. U = {}
    <2>1. ASSUME U # {}
          PROVE  FALSE
      <3>1. U \subseteq Nat
        OBVIOUS
      <3>2. PICK k \in U : \A j \in U : ~(j < k)
        <4> HIDE DEF U
        <4> QED
          BY <2>1, <3>1, LeastNatural
      <3>3. k \in 0..KMaxTUint8 /\ k # 0 /\ ~\E f : ToldUpTo(f, t, bad, k)
        BY <1>1, <3>2
      <3>4. k \in 1..KMaxTUint8 /\ k - 1 \in 0..KMaxTUint8 /\ k - 1 < k
        BY <1>0, <3>3
      <3>5. \E f : ToldUpTo(f, t, bad, k - 1)
        BY <3>2, <3>4
      <3> QED
        BY <1>2, <3>3, <3>4, <3>5
    <2> QED
      BY <2>1
  <1>4. KMaxTUint8 \in 0..KMaxTUint8
    BY <1>0
  <1> QED
    BY <1>3, <1>4

LEMMA ToldInTurn ==
  ASSUME NEW t, NEW bad
  PROVE  \E f : ToldUpTo(f, t, bad, KMaxTUint8) /\ ToldOfRestore(t, bad) = f[KMaxTUint8]
  <1> DEFINE Step(f) == [k \in 0..KMaxTUint8 |->
                          IF k = 0 THEN t ELSE TellRestored(f[k - 1], k, bad)]
             f == CHOOSE f : f = Step(f)
  <1>1. PICK h : ToldUpTo(h, t, bad, KMaxTUint8)
    BY ToldExists
  <1>2. h = Step(h)
    <2>1. ASSUME NEW k \in 0..KMaxTUint8
          PROVE  h[k] = IF k = 0 THEN t ELSE TellRestored(h[k - 1], k, bad)
      <3>1. k # 0 => k \in 1..KMaxTUint8
        BY CollectionAssumption
      <3> QED
        BY <1>1, <3>1 DEF ToldUpTo
    <2>2. h = [k \in 0..KMaxTUint8 |-> h[k]]
      BY <1>1 DEF ToldUpTo
    <2> QED
      BY <2>1, <2>2
  <1>3. f = Step(f)
    BY <1>2
  <1>4. ToldOfRestore(t, bad) = f[KMaxTUint8]
    BY DEF ToldOfRestore
  <1> HIDE DEF f
  <1>5. ToldUpTo(f, t, bad, KMaxTUint8)
    <2>1. /\ f = [k \in 0..KMaxTUint8 |-> f[k]]
          /\ \A k \in 0..KMaxTUint8 :
               f[k] = IF k = 0 THEN t ELSE TellRestored(f[k - 1], k, bad)
      BY <1>3
    <2>2. 0 \in 0..KMaxTUint8 /\ \A k \in 1..KMaxTUint8 : k \in 0..KMaxTUint8 /\ k # 0
      BY CollectionAssumption
    <2> QED
      BY <2>1, <2>2 DEF ToldUpTo
  <1> QED
    BY <1>4, <1>5

\* The table of a session after the end of a restore.
LEMMA RestoredTable ==
  ASSUME Inv, TypeInv, \A n \in OpenNames : disk[n] # 0, NEW bad \in SUBSET OpenNames,
         NEW t, Table(t)
  PROVE  Passed(t, ToldOfRestore(t, bad), KMaxTUint8, bad)
  <1>1. PICK f : ToldUpTo(f, t, bad, KMaxTUint8) /\ ToldOfRestore(t, bad) = f[KMaxTUint8]
    BY ToldInTurn
  <1> DEFINE U == {k \in 0..KMaxTUint8 : ~Passed(t, f[k], k, bad)}
  <1>0. KMaxTUint8 \in Nat /\ KMaxTUint8 \in 0..KMaxTUint8
    BY CollectionAssumption
  <1>2. Passed(t, t, 0, bad)
    <2>1. \A n \in OpenNames : ~(files[n].coll <= 0)
      <3>1. ASSUME NEW n \in OpenNames
            PROVE  ~(files[n].coll <= 0)
        <4>1. files[n].coll \in 1..KMaxTUint8
          BY ClosedIsNoFile DEF Inv, Good, Listed, OpenNames, IsOpen
        <4> QED
          BY <1>0, <4>1
      <3> QED
        BY <3>1
    <2> QED
      BY <2>1 DEF Passed, Renamed
  <1>3. ASSUME U # {}
        PROVE  FALSE
    <2>1. U \subseteq Nat
      OBVIOUS
    <2>2. PICK k \in U : \A j \in U : ~(j < k)
      <3> HIDE DEF U
      <3> QED
        BY <1>3, <2>1, LeastNatural
    <2>3. k \in 0..KMaxTUint8 /\ ~Passed(t, f[k], k, bad)
      BY <2>2
    <2>4. k # 0
      BY <1>1, <1>2, <2>3 DEF ToldUpTo
    <2>5. k \in 1..KMaxTUint8 /\ k - 1 \in 0..KMaxTUint8 /\ k - 1 < k
      BY <1>0, <2>3, <2>4
    <2>6. Passed(t, f[k - 1], k - 1, bad)
      BY <2>2, <2>5
    <2>7. f[k] = TellRestored(f[k - 1], k, bad)
      BY <1>1, <2>5 DEF ToldUpTo
    <2> QED
      BY <2>3, <2>5, <2>6, <2>7, PassedStep
  <1> QED
    BY <1>0, <1>1, <1>3

\* An id of calendar n before and after.
LEMMA RenamedIs ==
  ASSUME Inv, TypeInv, \A n \in OpenNames : disk[n] # 0, NEW bad, NEW x, NEW y,
         Renamed(x, y, KMaxTUint8, bad), NEW n \in FileNames
  PROVE  /\ y \in IdsOf[n] <=> x \in IdsOf[n]
         /\ x \in IdsOf[n] /\ n \in OpenNames \ bad /\ x = files[n].id => y = disk[n]
         /\ x \in IdsOf[n] /\ ~(n \in OpenNames \ bad /\ x = files[n].id) => y = x
  <1>1. \A m \in OpenNames : /\ m \in FileNames /\ files[m].coll <= KMaxTUint8
                             /\ files[m].id \in IdsOf[m] /\ disk[m] \in IdsOf[m]
    <2>1. ASSUME NEW m \in OpenNames
          PROVE  /\ m \in FileNames /\ files[m].coll <= KMaxTUint8
                 /\ files[m].id \in IdsOf[m] /\ disk[m] \in IdsOf[m]
      <3>1. m \in FileNames /\ files[m] # Closed
        BY DEF OpenNames, IsOpen
      <3>2. IsFile(files[m]) /\ files[m].id \in IdsOf[m] /\ disk[m] \in IdsOf[m]
        BY <3>1, FileType DEF TypeInv
      <3>3. files[m].coll \in 1..KMaxTUint8
        BY <3>2, ClosedIsNoFile
      <3> QED
        BY <3>1, <3>2, <3>3, CollectionAssumption
    <2> QED
      BY <2>1
  <1>2. \/ \E m \in OpenNames \ bad : x = files[m].id /\ y = disk[m]
        \/ y = x /\ \A m \in OpenNames \ bad : files[m].id # x
    BY <1>1 DEF Renamed
  <1>3. CASE \E m \in OpenNames \ bad : x = files[m].id /\ y = disk[m]
    <2>1. PICK m \in OpenNames \ bad : x = files[m].id /\ y = disk[m]
      BY <1>3
    <2>2. m \in FileNames /\ x \in IdsOf[m] /\ y \in IdsOf[m]
      BY <1>1, <2>1
    <2>3. x \in IdsOf[n] \/ y \in IdsOf[n] => n = m
      BY <2>2, IdsApart
    <2> QED
      BY <2>1, <2>2, <2>3
  <1> QED
    BY <1>2, <1>3

LEMMA RestoredHas ==
  ASSUME Reached, Inv, TypeInv, \A n \in OpenNames : disk[n] # 0, NEW bad,
         NEW t, Table(t), NEW d, Passed(t, d, KMaxTUint8, bad),
         NEW n \in FileNames, NEW c, NEW id \in IdsOf[n]
  PROVE  /\ n \notin OpenNames \ bad => (Has(d, c, id) <=> Has(t, c, id))
         /\ n \in OpenNames \ bad /\ id = disk[n] =>
              (Has(d, c, id) <=> Has(t, c, id) \/ Has(t, c, files[n].id))
         /\ n \in OpenNames \ bad /\ id # disk[n] =>
              (Has(d, c, id) <=> id # files[n].id /\ Has(t, c, id))
  <1>1. Positions(d) = Positions(t)
    BY DEF Passed, Positions
  <1>2. \A i \in Positions(t) :
          /\ d[i].client = t[i].client
          /\ d[i].id \in IdsOf[n] <=> t[i].id \in IdsOf[n]
          /\ t[i].id \in IdsOf[n] /\ n \in OpenNames \ bad /\ t[i].id = files[n].id =>
               d[i].id = disk[n]
          /\ t[i].id \in IdsOf[n] /\ ~(n \in OpenNames \ bad /\ t[i].id = files[n].id) =>
               d[i].id = t[i].id
    <2>1. ASSUME NEW i \in Positions(t)
          PROVE  d[i].client = t[i].client /\ Renamed(t[i].id, d[i].id, KMaxTUint8, bad)
      BY DEF Passed
    <2> QED
      BY <2>1, RenamedIs
  <1>3. n \in OpenNames => files[n].id \in IdsOf[n]
    BY DEF TypeInv, FileOK, OpenNames, IsOpen
  <1> QED
    BY <1>1, <1>2, <1>3 DEF Has

LEMMA RestoreEndsFile ==
  ASSUME Inv, TypeInv, NEW bad \in SUBSET OpenNames, RestoreEnds(bad), NEW n \in FileNames,
         NEW x, x = files[n], NEW y, y = files'[n]
  PROVE  /\ x = Closed => y = Closed
         /\ x # Closed /\ n \in bad /\ y # Closed =>
              /\ y.id = x.id /\ y.ref = x.ref - 1 /\ x.ref >= 2 /\ ~y.model
              /\ y.timer <=> x.timer
         /\ x # Closed /\ n \notin bad =>
              /\ y # Closed /\ y.id = disk[n] /\ y.ref = x.ref /\ y.model = x.model /\ x.model
              /\ y.timer <=> x.timer
              /\ y.task = x.task
  <1>1. y = IF x = Closed THEN Closed ELSE IF n \in bad THEN Unopenable(n) ELSE Reopened(n)
    BY DEF RestoreEnds, IsOpen
  <1>2. CASE x = Closed
    BY <1>1, <1>2
  <1>3. ASSUME x # Closed, n \in bad, y # Closed
        PROVE  /\ y.id = x.id /\ y.ref = x.ref - 1 /\ x.ref >= 2 /\ ~y.model
               /\ y.timer <=> x.timer
    <2>1. IsFile(x) /\ x.ref \in Nat
      BY <1>3, FileType
    <2>2. /\ ~(x.ref <= 1)
          /\ y = [x EXCEPT !.ref = @ - 1, !.locked = FALSE, !.store = "none", !.model = FALSE]
      BY <1>1, <1>3 DEF Unopenable
    <2>3. y.id = x.id /\ y.ref = x.ref - 1 /\ ~y.model /\ y.timer = x.timer
      BY <2>1, <2>2 DEF IsFile
    <2> QED
      BY <2>1, <2>2, <2>3
  <1>4. ASSUME x # Closed, n \notin bad
        PROVE  /\ y # Closed /\ y.id = disk[n] /\ y.ref = x.ref /\ y.model = x.model /\ x.model
               /\ y.timer <=> x.timer
               /\ y.task = x.task
    <2>1. IsFile(x) /\ x.model
      BY <1>4, FileType DEF RestoreEnds, OpenNames, IsOpen
    <2> DEFINE i == IF x.indexes = "none" THEN x.indexes
                    ELSE IF indexFile[n] = 0 THEN "dirty" ELSE "saved"
    <2>2. y = [x EXCEPT !.id = disk[n], !.locked = FALSE, !.store = "open", !.indexes = i]
      BY <1>1, <1>4 DEF Reopened
    <2> HIDE DEF i
    <2> DEFINE v == disk[n]
    <2> HIDE DEF v
    <2>3. /\ y.id = v /\ y.ref = x.ref /\ y.model = x.model /\ y.timer = x.timer
          /\ y.task = x.task /\ y.coll = x.coll
      <3>1. y = [x EXCEPT !.id = v, !.locked = FALSE, !.store = "open", !.indexes = i]
        BY <2>2 DEF v
      <3>2. IsFile(x)
        BY <2>1
      <3> QED
        BY <3>1, <3>2 DEF IsFile
    <2>4. y # Closed
      BY <2>1, <2>3, ClosedIsNoFile DEF Closed
    <2> QED
      BY <2>1, <2>3, <2>4 DEF v
  <1> QED
    BY <1>2, <1>3, <1>4

LEMMA RestoreEndsOK ==
  ASSUME Inv, TypeInv, NEW bad \in SUBSET OpenNames, RestoreEnds(bad)
  PROVE  /\ TablesOK(table', Connected')
         /\ \A s \in Sessions : Passed(table[s], table'[s], KMaxTUint8, bad)
         /\ \A n \in FileNames : FileOK(n, files'[n], unopenable')
  <1>1. /\ table' = [s \in Sessions |-> ToldOfRestore(table[s], bad)] /\ session' = session
        /\ unopenable' = unopenable \cup bad /\ \A n \in OpenNames : disk[n] # 0
    BY DEF RestoreEnds
  <1>2. ASSUME NEW s \in Sessions
        PROVE  Passed(table[s], table'[s], KMaxTUint8, bad)
    BY <1>1, RestoredTable DEF TypeInv, TablesOK
  <1>3. ASSUME NEW s \in Sessions
        PROVE  Table(table'[s]) /\ (s \notin Connected => table'[s] = <<>>)
    <2>1. Table(table'[s]) /\ Len(table'[s]) = Len(table[s])
      BY <1>2 DEF Passed
    <2>2. table[s] = <<>> => table'[s] = <<>>
      BY <2>1 DEF Table
    <2> QED
      BY <2>1, <2>2 DEF TypeInv, TablesOK
  <1>4. TablesOK(table', Connected')
    <2>1. Connected' = Connected
      BY <1>1 DEF Connected
    <2>2. table' = [s \in Sessions |-> table'[s]]
      BY <1>1
    <2> QED
      BY <1>3, <2>1, <2>2 DEF TablesOK
  <1>5. ASSUME NEW n \in FileNames, files'[n] # Closed
        PROVE  /\ files'[n].id \in IdsOf[n] /\ files'[n].ref \in Nat
               /\ files'[n].timer => files'[n].ref = 0
               /\ ~files'[n].model => n \in unopenable'
    <2>1. files[n] # Closed
      BY <1>5, RestoreEndsFile
    <2>2. /\ files[n].id \in IdsOf[n] /\ files[n].ref \in Nat
          /\ files[n].timer => files[n].ref = 0
      BY <2>1 DEF TypeInv, FileOK
    <2>3. CASE n \in bad
      <3>1. /\ files'[n].id = files[n].id /\ files'[n].ref = files[n].ref - 1
            /\ files[n].ref >= 2 /\ ~files[n].timer /\ ~files'[n].timer
        BY <1>5, <2>1, <2>2, <2>3, RestoreEndsFile
      <3> QED
        BY <1>1, <2>2, <2>3, <3>1
    <2>4. CASE n \notin bad
      <3>1. /\ files'[n].id = disk[n] /\ files'[n].ref = files[n].ref
            /\ files'[n].timer <=> files[n].timer
            /\ files'[n].model = files[n].model /\ files[n].model
        BY <1>5, <2>1, <2>4, RestoreEndsFile
      <3>2. disk[n] \in IdsOf[n]
        BY <1>1, <2>1 DEF TypeInv, OpenNames, IsOpen
      <3> QED
        BY <2>2, <3>1, <3>2
    <2> QED
      BY <2>3, <2>4
  <1> QED
    BY <1>2, <1>4, <1>5 DEF FileOK

LEMMA RestoreEndsUsers ==
  ASSUME Reached, Inv, TypeInv, NEW bad \in SUBSET OpenNames, RestoreEnds(bad),
         NEW n \in FileNames, NEW id \in IdsOf[n]
  PROVE  /\ n \notin OpenNames \ bad => Users(table', id) = Users(table, id)
         /\ n \in OpenNames \ bad /\ id = disk[n] =>
              Users(table', id) = Users(table, id) \cup Users(table, files[n].id)
         /\ n \in OpenNames \ bad /\ id # disk[n] =>
              \A u \in Users(table', id) : id # files[n].id /\ u \in Users(table, id)
  <1>1. \A m \in OpenNames : disk[m] # 0
    BY DEF RestoreEnds
  <1>2. ASSUME NEW s \in Sessions, NEW c \in Clients
        PROVE  /\ n \notin OpenNames \ bad => (Has(table'[s], c, id) <=> Has(table[s], c, id))
               /\ n \in OpenNames \ bad /\ id = disk[n] =>
                    (Has(table'[s], c, id) <=>
                       Has(table[s], c, id) \/ Has(table[s], c, files[n].id))
               /\ n \in OpenNames \ bad /\ id # disk[n] =>
                    (Has(table'[s], c, id) <=> id # files[n].id /\ Has(table[s], c, id))
    <2>1. Table(table[s]) /\ Passed(table[s], table'[s], KMaxTUint8, bad)
      BY RestoreEndsOK DEF TypeInv, TablesOK
    <2> QED
      BY <1>1, <2>1, RestoredHas
  <1>3. ASSUME n \notin OpenNames \ bad
        PROVE  Users(table', id) = Users(table, id)
    BY <1>2, <1>3, UsersHave
  <1>4. ASSUME n \in OpenNames \ bad, id = disk[n]
        PROVE  Users(table', id) = Users(table, id) \cup Users(table, files[n].id)
    <2>1. \A u : u \in Users(table', id) <=>
                   u \in Users(table, id) \/ u \in Users(table, files[n].id)
      BY <1>2, <1>4, UsersHave
    <2> QED
      BY <2>1
  <1>5. ASSUME n \in OpenNames \ bad, id # disk[n], NEW u \in Users(table', id)
        PROVE  id # files[n].id /\ u \in Users(table, id)
    BY <1>2, <1>5, UsersHave
  <1> QED
    BY <1>3, <1>4, <1>5

\* A restored calendar keeps its references and users, whatever its id was.
LEMMA RestoreEndsAgree ==
  ASSUME Reached, Inv, TypeInv, NEW bad \in SUBSET OpenNames, RestoreEnds(bad),
         FiniteUsers(table), FiniteUsers(table'), AgreeInv
  PROVE  AgreeInv'
  <1> SUFFICES ASSUME NEW n \in FileNames
               PROVE  AgreeAt(n, files'[n], table', unopenable')
    BY DEF AgreeInv, AgreeAt, Users
  <1>1. /\ unopenable' = unopenable \cup bad /\ AgreeAt(n, files[n], table, unopenable)
        /\ \A m \in OpenNames : disk[m] # 0
    BY DEF RestoreEnds, AgreeInv
  <1>2. CASE files[n] = Closed
    <2>1. files'[n] = Closed /\ n \notin OpenNames
      BY <1>2, RestoreEndsFile DEF OpenNames, IsOpen
    <2>2. \A id \in IdsOf[n] : Users(table', id) = Users(table, id)
      BY <2>1, RestoreEndsUsers
    <2> QED
      BY <1>1, <1>2, <2>1, <2>2 DEF AgreeAt
  <1>3. CASE files[n] # Closed /\ n \in bad
    <2>1. \A id \in IdsOf[n] : Users(table', id) = Users(table, id)
      BY <1>3, RestoreEndsUsers
    <2>2. ASSUME files'[n] # Closed
          PROVE  files'[n].ref <= Cardinality(Users(table', files'[n].id))
      <3> DEFINE p == Cardinality(Users(table, files[n].id))
      <3>1. files'[n].id = files[n].id /\ files'[n].ref = files[n].ref - 1
        BY <1>3, <2>2, RestoreEndsFile
      <3>2. files[n].id \in IdsOf[n] /\ files[n].ref \in Nat /\ p \in Nat
        BY <1>3, FileType DEF FiniteUsers
      <3>3. files[n].ref <= p
        BY <1>1, <1>3 DEF AgreeAt
      <3>4. Cardinality(Users(table', files'[n].id)) = p
        BY <2>1, <3>1, <3>2
      <3> HIDE DEF p
      <3> QED
        BY <3>1, <3>2, <3>3, <3>4
    <2> QED
      BY <1>1, <1>3, <2>2 DEF AgreeAt
  <1>4. CASE files[n] # Closed /\ n \notin bad
    <2> DEFINE p == Cardinality(Users(table, files[n].id))
               q == Cardinality(Users(table', disk[n]))
    <2>1. /\ files'[n] # Closed /\ files'[n].id = disk[n] /\ files'[n].ref = files[n].ref
          /\ n \in OpenNames \ bad /\ disk[n] \in IdsOf[n] /\ files[n].id \in IdsOf[n]
      BY <1>1, <1>4, RestoreEndsFile, FileType DEF TypeInv, OpenNames, IsOpen
    <2>2. p \in Nat /\ q \in Nat /\ files[n].ref \in Nat
      BY <1>4, FileType DEF FiniteUsers
    <2>3. Users(table', disk[n]) = Users(table, disk[n]) \cup Users(table, files[n].id)
      BY <2>1, RestoreEndsUsers
    <2>4. p <= q
      <3>1. Users(table, files[n].id) \in SUBSET Users(table', disk[n])
        BY <2>3
      <3>2. IsFiniteSet(Users(table', disk[n]))
        BY DEF FiniteUsers
      <3> QED
        BY <3>1, <3>2, FS_Subset
    <2>5. n \notin unopenable => q = p
      <3>1. n \notin unopenable /\ disk[n] # files[n].id => Users(table, disk[n]) = {}
        BY <1>1, <2>1 DEF AgreeAt
      <3>2. n \notin unopenable => Users(table', disk[n]) = Users(table, files[n].id)
        BY <2>3, <3>1
      <3> QED
        BY <3>2
    <2>6. files[n].ref <= p /\ (n \notin unopenable => files[n].ref = p)
      BY <1>1, <1>4 DEF AgreeAt
    <2>7. ASSUME n \notin unopenable, NEW id \in IdsOf[n], Users(table', id) # {}
          PROVE  id = disk[n]
      <3>1. ASSUME id # disk[n]
            PROVE  FALSE
        <4>1. id # files[n].id /\ Users(table, id) # {}
          BY <2>1, <2>7, <3>1, RestoreEndsUsers
        <4> QED
          BY <1>1, <2>7, <4>1 DEF AgreeAt
      <3> QED
        BY <3>1
    <2> HIDE DEF p, q
    <2>8. files'[n].ref <= q /\ (n \notin unopenable => files'[n].ref = q)
      BY <2>1, <2>2, <2>4, <2>5, <2>6
    <2> QED
      BY <1>1, <2>1, <2>7, <2>8 DEF AgreeAt, q
  <1> QED
    BY <1>2, <1>3, <1>4

LEMMA RestoreEndsTasks ==
  ASSUME Inv, TypeInv, HeldInv, NEW bad \in SUBSET OpenNames, RestoreEnds(bad), TasksInv
  PROVE  TasksInv'
  <1>1. /\ iBackupRestoreInProgress' = FALSE /\ session' = session
        /\ \A m \in OpenNames : disk[m] # 0 /\ files[m].model
        /\ iCurrentState = "restore"
    BY DEF RestoreEnds
  <1>2. Connected' = Connected
    BY <1>1 DEF Connected
  <1>3. ASSUME NEW n \in FileNames, files'[n] # Closed, files'[n].task # NoSession, files'[n].model
        PROVE  /\ files'[n].task \in Connected'
               /\ \E c \in Clients : Has(table'[files'[n].task], c, files'[n].id)
    <2>1. files[n] # Closed /\ n \notin bad
      BY <1>3, RestoreEndsFile
    <2>2. files'[n].id = disk[n] /\ files[n].model /\ files'[n].task = files[n].task
      BY <2>1, RestoreEndsFile
    <2>3. /\ n \in OpenNames \ bad /\ disk[n] \in IdsOf[n]
      BY <1>1, <2>1 DEF OpenNames, IsOpen, TypeInv
    <2>4. PICK c \in Clients : files[n].task \in Connected /\ Has(table[files[n].task], c, files[n].id)
      BY <1>3, <2>1, <2>2 DEF TasksInv, TaskAt
    <2> DEFINE s == files[n].task
    <2>5. s \in Sessions /\ Table(table[s]) /\ Passed(table[s], table'[s], KMaxTUint8, bad)
      <3>1. s \in Sessions
        BY <2>4 DEF Connected
      <3> QED
        BY <3>1, RestoreEndsOK DEF TypeInv, TablesOK
    <2>6. Reached
      <3>1. ~iBackupRestoreInProgress
        BY <1>3, <2>1, <2>2 DEF TasksInv, Idle
      <3> QED
        BY <1>1, <3>1 DEF HeldInv, Reached, SameIds
    <2> HIDE DEF s
    <2>7. Has(table'[s], c, disk[n])
      BY <1>1, <2>3, <2>4, <2>5, <2>6, RestoredHas DEF s
    <2> QED
      BY <1>2, <2>2, <2>4, <2>7 DEF s
  <1> QED
    BY <1>1, <1>3 DEF TasksInv, TaskAt

-----------------------------------------------------------------------------
(* The close and the open of one client's calendar.                        *)

\* The tables without the entry of client c of session s.
Without(s, c) == [table EXCEPT ![s] = DeleteSessionFile(table[s], c)]

LEMMA DeletedTables ==
  ASSUME TypeInv, NEW s \in Connected, NEW c \in Clients,
         NEW b, b = Without(s, c)
  PROVE  /\ TablesOK(b, Connected) /\ Dropped(table, b, s, c)
         /\ Table(b[s]) /\ b[s] = DeleteSessionFile(table[s], c)
         /\ \A i \in Positions(b[s]) : b[s][i].client # c
         /\ \A u \in Sessions : /\ ToldIds(b[u]) \subseteq ToldIds(table[u])
                                /\ Orderly(table[u]) => Orderly(b[u])
                                /\ u # s => b[u] = table[u]
  <1> DEFINE d == DeleteSessionFile(table[s], c)
  <1>1. /\ s \in Sessions /\ Table(table[s])
        /\ table = [u \in Sessions |-> table[u]]
    BY DEF Connected, TypeInv, TablesOK
  <1>2. /\ Table(d)
        /\ \A k, id : Has(d, k, id) <=> k # c /\ Has(table[s], k, id)
        /\ ToldIds(d) \subseteq ToldIds(table[s])
        /\ Orderly(table[s]) => Orderly(d)
        /\ \A i \in Positions(d) : d[i].client # c
    BY <1>1, DeleteTable
  <1> HIDE DEF d
  <1>3. /\ b = [u \in Sessions |-> b[u]] /\ b[s] = d
        /\ \A u \in Sessions : u # s => b[u] = table[u]
    BY <1>1 DEF d, Without
  <1>4. TablesOK(b, Connected)
    <2>1. Table(d) /\ b[s] = d
      BY <1>2, <1>3
    <2> QED
      BY <1>1, <1>3, <2>1 DEF TypeInv, TablesOK
  <1>5. Dropped(table, b, s, c)
    BY <1>2, <1>3 DEF Dropped
  <1> QED
    BY <1>2, <1>3, <1>4, <1>5 DEF d

LEMMA ClosesOneLoses ==
  ASSUME Inv, TypeInv, FiniteUsers(table), NEW s \in Sessions, NEW c \in Clients, ClosesOne(s, c)
  PROVE  /\ Loses(files, files', table, table')
         /\ TasksFollow(files, files', table, table', Connected, Connected')
         /\ TablesOK(table', Connected')
         /\ UNCHANGED <<unopenable, iBackupRestoreInProgress, disk>>
         /\ \A u \in Sessions : /\ ToldIds(table'[u]) \subseteq ToldIds(table[u])
                                /\ Orderly(table[u]) => Orderly(table'[u])
  <1>1. /\ s \in Connected /\ CloseIsSafe(s, c) /\ files' = ClosedFor(s, c)
        /\ table' = Without(s, c)
        /\ UNCHANGED <<unopenable, iBackupRestoreInProgress, session, disk>>
    BY DEF ClosesOne, CloseAgendaOf, OpenFails, Permitted, Connected, agentVars,
       Without
  <1>2. Connected' = Connected
    BY <1>1 DEF Connected
  <1>3. /\ TablesOK(table', Connected) /\ Dropped(table, table', s, c)
        /\ \A u \in Sessions : /\ ToldIds(table'[u]) \subseteq ToldIds(table[u])
                               /\ Orderly(table[u]) => Orderly(table'[u])
    BY <1>1, DeletedTables
  <1>4. /\ Loses(files, ClosedFor(s, c), table, table')
        /\ TasksFollow(files, ClosedFor(s, c), table, table', Connected, Connected)
    BY <1>1, <1>3, ClosedForLoses
  <1> QED
    BY <1>1, <1>2, <1>3, <1>4

\* An open of calendar n, after the close of the one the client had open.
Opens(s, c, n, fs, b) ==
  /\ Loses(files, fs, table, b)
  /\ TasksFollow(files, fs, table, b, Connected, Connected)
  /\ TablesOK(b, Connected)
  /\ \A m \in FileNames : FileOK(m, fs[m], unopenable) /\ Listed(fs[m])
  /\ fs = [m \in FileNames |-> fs[m]]
  /\ \A i \in Positions(b[s]) : b[s][i].client # c
  /\ \A u \in Sessions : /\ ToldIds(b[u]) \subseteq ToldIds(table[u])
                         /\ Orderly(table[u]) => Orderly(b[u])
                         /\ u # s => b[u] = table[u]

\* The tables with a new entry of client c.
Added(s, c, b, id) == [table EXCEPT ![s] = AddClient(b[s], c, id)]

\* File x after it is opened once more; a calendar that was closed has this id.
Opened(x, y, id) ==
  /\ y # Closed /\ IsFile(y) /\ y.timer = FALSE
  /\ x # Closed => y.id = x.id /\ y.ref = x.ref + 1 /\ y.model = x.model /\ y.task = x.task
  /\ x = Closed => y.id = id /\ y.ref = 1 /\ y.model = TRUE /\ y.task = NoSession

\* Client c of session s has the calendar with this id open, besides what
\* tables b tell.
Gains(s, c, b, id) ==
  /\ TablesOK(table', Connected)
  /\ \A u \in Sessions : u # s => table'[u] = b[u]
  /\ \A k : \A x : Has(table'[s], k, x) <=> Has(b[s], k, x) \/ (k = c /\ x = id)
  /\ \A x : ~Has(b[s], c, x)
  /\ \A u \in Sessions : /\ ToldIds(table'[u]) \subseteq ToldIds(b[u])
                         /\ Orderly(b[u]) => Orderly(table'[u])

LEMMA AddedGains ==
  ASSUME TypeInv, NEW s \in Connected, NEW c \in Clients, NEW b, TablesOK(b, Connected),
         \A i \in Positions(b[s]) : b[s][i].client # c,
         \A u \in Sessions : u # s => b[u] = table[u],
         NEW id \in Ids, CanAddClient(b[s], id), table' = Added(s, c, b, id)
  PROVE  Gains(s, c, b, id)
  <1> DEFINE d == AddClient(b[s], c, id)
  <1>1. s \in Sessions /\ Table(b[s]) /\ table = [u \in Sessions |-> table[u]]
    BY DEF Connected, TypeInv, TablesOK
  <1>2. /\ Table(d)
        /\ \A k : \A x : Has(d, k, x) <=> Has(b[s], k, x) \/ (k = c /\ x = id)
        /\ ToldIds(d) \subseteq ToldIds(b[s])
        /\ Orderly(b[s]) => Orderly(d)
    <2> DEFINE t == b[s]
    <2>1. Table(t) /\ CanAddClient(t, id) /\ \A i \in Positions(t) : t[i].client # c
      BY <1>1
    <2> HIDE DEF t
    <2> QED
      BY <2>1, AddTable DEF t
  <1>3. /\ table' = [u \in Sessions |-> table'[u]] /\ table'[s] = d
        /\ \A u \in Sessions : u # s => table'[u] = table[u]
    BY <1>1 DEF Added
  <1> HIDE DEF d
  <1>4. TablesOK(table', Connected)
    BY <1>1, <1>2, <1>3 DEF TypeInv, TablesOK
  <1>5. \A x : ~Has(b[s], c, x)
    BY DEF Has
  <1>6. \A u \in Sessions : u # s => table'[u] = b[u]
    BY <1>3
  <1> QED
    BY <1>2, <1>3, <1>4, <1>5, <1>6 DEF Gains

LEMMA OpenAgendaSteps ==
  ASSUME Inv, TypeInv, FiniteUsers(table), NEW s \in Sessions, NEW c \in Clients,
         NEW n \in FileNames, OpenAgenda(s, c, n),
         NEW fs, fs = ClosedFor(s, c),
         NEW b, b = Without(s, c)
  PROVE  /\ Opens(s, c, n, fs, b) /\ s \in Connected
         /\ UNCHANGED <<unopenable, iBackupRestoreInProgress, session, disk>>
         /\ \E y : /\ Opened(fs[n], y, disk[n]) /\ disk[n] \in IdsOf[n]
                   /\ \/ /\ CanAddClient(b[s], y.id) /\ files'[n] = y
                         /\ table' = Added(s, c, b, y.id)
                      \/ /\ table' = b /\ Lost(y, 1, files'[n])
                         /\ files'[n] # Closed => files'[n].task = y.task /\ y.ref # 1
         /\ \A m \in FileNames : m # n => files'[m] = fs[m]
  <1> DEFINE new == [id |-> disk[n], coll |-> LastCollectionId(fs) + 1, ref |-> 1,
                     timer |-> FALSE, locked |-> FALSE, store |-> "open", model |-> TRUE,
                     task |-> NoSession, indexes |-> "none"]
             opened == IF fs[n] = Closed THEN [fs EXCEPT ![n] = new]
                       ELSE [fs EXCEPT ![n].ref = @ + 1, ![n].timer = FALSE]
             y == opened[n]
             t == DeleteSessionFile(table[s], c)
  <1>1. /\ s \in Connected /\ CloseIsSafe(s, c) /\ disk[n] # 0
        /\ fs[n] = Closed => LastCollectionId(fs) < KMaxTUint8
        /\ \/ /\ CanAddClient(t, y.id) /\ files' = opened
              /\ table' = [table EXCEPT ![s] = AddClient(t, c, y.id)]
           \/ /\ ~CanAddClient(t, y.id) /\ files' = CloseAgenda(opened, Once(n), TRUE)
              /\ table' = b
        /\ UNCHANGED <<unopenable, iBackupRestoreInProgress, session, disk>>
    BY DEF OpenAgenda, Permitted, Connected, agentVars, Without
  <1>2. /\ TablesOK(b, Connected) /\ Dropped(table, b, s, c) /\ b[s] = t
        /\ \A i \in Positions(b[s]) : b[s][i].client # c
        /\ \A u \in Sessions : /\ ToldIds(b[u]) \subseteq ToldIds(table[u])
                               /\ Orderly(table[u]) => Orderly(b[u])
                               /\ u # s => b[u] = table[u]
    <2>1. s \in Connected
      BY <1>1
    <2> HIDE DEF opened, y, new
    <2> QED
      BY <2>1, DeletedTables
  <1>3. /\ Loses(files, fs, table, b)
        /\ TasksFollow(files, fs, table, b, Connected, Connected)
    BY <1>1, <1>2, ClosedForLoses
  <1>4. \A m \in FileNames : FileOK(m, fs[m], unopenable)
    BY <1>3, LosesOK DEF TypeInv
  <1>5. fs = [m \in FileNames |-> fs[m]] /\ \A m \in FileNames : Listed(fs[m])
    BY ClosedForSame
  <1>6. Opens(s, c, n, fs, b)
    BY <1>2, <1>3, <1>4, <1>5 DEF Opens
  <1>7. disk[n] \in IdsOf[n] /\ disk[n] \in Ids
    BY <1>1, IdsApart DEF TypeInv
  <1>8. /\ y = IF fs[n] = Closed THEN new ELSE [fs[n] EXCEPT !.ref = @ + 1, !.timer = FALSE]
        /\ \A m \in FileNames : m # n => opened[m] = fs[m]
    BY <1>5
  <1> HIDE DEF opened, y, t
  <1>9. Opened(fs[n], y, disk[n])
    <2>1. CASE fs[n] = Closed
      <3>1. LastCollectionId(fs) + 1 \in 1..KMaxTUint8
        <4>1. LastCollectionId(fs) \in 0..KMaxTUint8
          BY <1>5, LastCollection
        <4> QED
          BY <1>1, <2>1, <4>1, CollectionAssumption
      <3>2. IsFile(new)
        BY <1>7, <3>1 DEF IsFile
      <3>3. /\ y = new /\ new.id = disk[n] /\ new.ref = 1 /\ new.timer = FALSE
            /\ new.model = TRUE /\ new.task = NoSession
        BY <1>8, <2>1
      <3> HIDE DEF new
      <3> QED
        BY <2>1, <3>2, <3>3, ClosedIsNoFile DEF Opened
    <2>2. CASE fs[n] # Closed
      <3> DEFINE x == fs[n]
      <3>1. IsFile(x)
        BY <1>5, <2>2 DEF Listed
      <3>2. y = [x EXCEPT !.ref = @ + 1, !.timer = FALSE]
        BY <1>8, <2>2
      <3> HIDE DEF x
      <3>3. /\ IsFile(y) /\ y.id = x.id /\ y.ref = x.ref + 1 /\ y.timer = FALSE
            /\ y.model = x.model /\ y.task = x.task
        BY <3>1, <3>2 DEF IsFile
      <3> QED
        BY <2>2, <3>3, ClosedIsNoFile DEF Opened, x
    <2> QED
      BY <2>1, <2>2
  <1>10. ASSUME files' = CloseAgenda(opened, Once(n), TRUE)
         PROVE  /\ Lost(y, 1, files'[n])
                /\ files'[n] # Closed => files'[n].task = y.task /\ y.ref # 1
                /\ \A m \in FileNames : m # n => files'[m] = fs[m]
    <2>1. Listed(opened[n]) /\ FileOK(n, opened[n], unopenable)
      <3>1. IsFile(y) /\ y.id \in IdsOf[n] /\ y.ref \in Nat /\ y.timer = FALSE
            /\ (~y.model => n \in unopenable)
        <4>1. CASE fs[n] = Closed
          BY <1>7, <1>9, <4>1 DEF Opened
        <4>2. CASE fs[n] # Closed
          BY <1>4, <1>9, <4>2 DEF Opened, FileOK
        <4> QED
          BY <4>1, <4>2
      <3> QED
        BY <3>1 DEF Listed, FileOK, y
    <2>2. Once(n)[n] = 1 /\ \A m \in FileNames : m # n => Once(n)[m] = 0
      BY DEF Once
    <2>3. Lost(y, 1, files'[n]) /\ (files'[n] # Closed => files'[n].task = y.task)
      <3>1. Once(n)[n] \in Nat
        BY <2>2
      <3>2. /\ Lost(opened[n], Once(n)[n], CloseAgenda(opened, Once(n), TRUE)[n])
            /\ CloseAgenda(opened, Once(n), TRUE)[n] # Closed =>
                 CloseAgenda(opened, Once(n), TRUE)[n].task = opened[n].task
        BY <2>1, <3>1, CloseAgendaLost
      <3> QED
        BY <1>10, <2>2, <3>2 DEF y
    <2>4. \A m \in FileNames : m # n => files'[m] = opened[m]
      BY <1>10, <2>2 DEF CloseAgenda
    <2>5. y.ref = 1 => files'[n] = Closed
      BY <1>9, <1>10, <2>2 DEF CloseAgenda, Opened, y
    <2> QED
      BY <1>8, <2>3, <2>4, <2>5
  <1> QED
    BY <1>1, <1>2, <1>6, <1>7, <1>8, <1>9, <1>10 DEF y, Added

\* What is left of the step once the calendar the client had open is closed.
Goes(fs, b) ==
  /\ \/ /\ \A id \in Ids : Users(table', id) = Users(b, id)
        /\ \A m \in FileNames : Lost(fs[m], 0, files'[m])
     \/ \E n \in FileNames :
          /\ files'[n] # Closed /\ files'[n].ref \in Nat /\ files'[n].id \in IdsOf[n]
          /\ files'[n].timer = FALSE /\ (~files'[n].model => fs[n] # Closed /\ ~fs[n].model)
          /\ fs[n] # Closed => files'[n].id = fs[n].id /\ files'[n].ref = fs[n].ref + 1
          /\ fs[n] = Closed => files'[n].ref = 1
          /\ \A id \in Ids : id # files'[n].id => Users(table', id) = Users(b, id)
          /\ Cardinality(Users(table', files'[n].id)) = Cardinality(Users(b, files'[n].id)) + 1
          /\ \A m \in FileNames : m # n => files'[m] = fs[m]
  /\ TasksFollow(fs, files', b, table', Connected, Connected)

LEMMA OpenAgendaGoes ==
  ASSUME Inv, TypeInv, FiniteUsers(table), NEW s \in Sessions, NEW c \in Clients,
         NEW n \in FileNames, OpenAgenda(s, c, n), IsFiniteSet(Connected),
         NEW fs, fs = ClosedFor(s, c), NEW b, b = Without(s, c)
  PROVE  Goes(fs, b) /\ TablesOK(table', Connected)
         /\ \A u \in Sessions : /\ ToldIds(table'[u]) \subseteq ToldIds(table[u])
                                /\ Orderly(table[u]) => Orderly(table'[u])
  <1>1. Opens(s, c, n, fs, b) /\ s \in Connected
    BY OpenAgendaSteps
  <1>2. PICK y : /\ Opened(fs[n], y, disk[n]) /\ disk[n] \in IdsOf[n]
                 /\ \/ /\ CanAddClient(b[s], y.id) /\ files'[n] = y
                       /\ table' = Added(s, c, b, y.id)
                    \/ /\ table' = b /\ Lost(y, 1, files'[n])
                       /\ files'[n] # Closed => files'[n].task = y.task /\ y.ref # 1
    BY OpenAgendaSteps
  <1>3. \A m \in FileNames : m # n => files'[m] = fs[m]
    BY OpenAgendaSteps
  <1>4. /\ FileOK(n, fs[n], unopenable) /\ TablesOK(b, Connected)
        /\ \A m \in FileNames : FileOK(m, fs[m], unopenable)
        /\ \A u \in Sessions : /\ ToldIds(b[u]) \subseteq ToldIds(table[u])
                               /\ Orderly(table[u]) => Orderly(b[u])
                               /\ u # s => b[u] = table[u]
        /\ \A i \in Positions(b[s]) : b[s][i].client # c
    BY <1>1 DEF Opens
  <1>5. /\ y.id \in IdsOf[n] /\ y.id \in Ids /\ y.ref \in Nat /\ y # Closed
        /\ y.timer = FALSE /\ (~y.model => fs[n] # Closed /\ ~fs[n].model)
        /\ fs[n] # Closed => y.id = fs[n].id /\ y.ref = fs[n].ref + 1
                             /\ y.model = fs[n].model /\ y.task = fs[n].task
        /\ fs[n] = Closed => y.ref = 1 /\ y.task = NoSession
    BY <1>2, <1>4, IdsApart DEF Opened, FileOK
  <1>6. FiniteUsers(b)
    BY <1>4, UsersFinite
  <1>7. CASE /\ CanAddClient(b[s], y.id) /\ files'[n] = y
             /\ table' = Added(s, c, b, y.id)
    <2>1. /\ TablesOK(table', Connected)
          /\ \A u \in Sessions : u # s => table'[u] = b[u]
          /\ \A k : \A x : Has(table'[s], k, x) <=> Has(b[s], k, x) \/ (k = c /\ x = y.id)
          /\ \A x : ~Has(b[s], c, x)
          /\ \A u \in Sessions : /\ ToldIds(table'[u]) \subseteq ToldIds(b[u])
                                 /\ Orderly(b[u]) => Orderly(table'[u])
      <3>1. /\ s \in Connected /\ y.id \in Ids /\ TablesOK(b, Connected)
            /\ CanAddClient(b[s], y.id) /\ table' = Added(s, c, b, y.id)
        BY <1>1, <1>4, <1>5, <1>7
      <3>2. \A i \in Positions(b[s]) : b[s][i].client # c
        BY <1>4
      <3>3. \A u \in Sessions : u # s => b[u] = table[u]
        BY <1>4
      <3>4. Gains(s, c, b, y.id)
        BY <3>1, <3>2, <3>3, AddedGains
      <3> QED
        BY <3>4 DEF Gains
    <2>2. /\ \A id \in Ids : id # y.id => Users(table', id) = Users(b, id)
          /\ Cardinality(Users(table', y.id)) = Cardinality(Users(b, y.id)) + 1
      BY <1>5, <1>6, <2>1, AddedUsers
    <2>3. TasksFollow(fs, files', b, table', Connected, Connected)
      <3>1. ASSUME NEW m \in FileNames, files'[m] # Closed, files'[m].task # NoSession,
                   files'[m].model
            PROVE  /\ fs[m] # Closed /\ fs[m].model /\ files'[m].task = fs[m].task
                   /\ files'[m].id = fs[m].id
        <4>1. CASE m = n
          BY <1>5, <1>7, <3>1, <4>1
        <4>2. CASE m # n
          BY <1>3, <3>1, <4>2
        <4> QED
          BY <4>1, <4>2
      <3>2. \A u \in Sessions : \A k : \A x : Has(b[u], k, x) => Has(table'[u], k, x)
        BY <2>1
      <3>3. Connected \subseteq Sessions
        BY DEF Connected
      <3> QED
        BY <3>1, <3>2, <3>3 DEF TasksFollow
    <2>4. Goes(fs, b)
      BY <1>3, <1>5, <1>7, <2>2, <2>3 DEF Goes
    <2> QED
      BY <1>4, <2>1, <2>4
  <1>8. CASE /\ table' = b /\ Lost(y, 1, files'[n])
             /\ files'[n] # Closed => files'[n].task = y.task /\ y.ref # 1
    <2>1. Lost(fs[n], 0, files'[n])
      <3>1. CASE files'[n] = Closed
        <4>1. y.ref <= 1
          BY <1>5, <1>8, <3>1 DEF Lost
        <4>2. fs[n] # Closed => fs[n].ref <= 0
          BY <1>4, <1>5, <4>1 DEF FileOK
        <4> QED
          BY <3>1, <4>2 DEF Lost
      <3>2. CASE files'[n] # Closed
        <4>1. fs[n] # Closed
          BY <1>5, <1>8, <3>2
        <4>2. /\ files'[n].id = y.id /\ files'[n].model = y.model
              /\ files'[n].ref = IF 1 <= y.ref THEN y.ref - 1 ELSE 0
              /\ files'[n].timer => files'[n].ref = 0
          BY <1>8, <3>2 DEF Lost
        <4>3. files'[n].ref = fs[n].ref /\ fs[n].ref \in Nat
          BY <1>4, <1>5, <4>1, <4>2 DEF FileOK
        <4> QED
          BY <1>5, <3>2, <4>1, <4>2, <4>3 DEF Lost
      <3> QED
        BY <3>1, <3>2
    <2>2. ASSUME NEW m \in FileNames
          PROVE  Lost(fs[m], 0, files'[m])
      <3>1. CASE m # n
        BY <1>3, <1>4, <3>1 DEF Lost, FileOK
      <3> QED
        BY <2>1, <3>1
    <2>3. TasksFollow(fs, files', b, table', Connected, Connected)
      <3>1. ASSUME NEW m \in FileNames, files'[m] # Closed, files'[m].task # NoSession,
                   files'[m].model
            PROVE  /\ fs[m] # Closed /\ fs[m].model /\ files'[m].task = fs[m].task
                   /\ files'[m].id = fs[m].id
        <4>1. CASE m = n
          BY <1>5, <1>8, <2>1, <3>1, <4>1 DEF Lost
        <4>2. CASE m # n
          BY <1>3, <3>1, <4>2
        <4> QED
          BY <4>1, <4>2
      <3> QED
        BY <1>8, <3>1 DEF TasksFollow
    <2>4. Goes(fs, b)
      BY <1>8, <2>2, <2>3 DEF Goes
    <2> QED
      BY <1>4, <1>8, <2>4
  <1> QED
    BY <1>2, <1>7, <1>8

LEMMA GoesAgree ==
  ASSUME NEW fs, NEW b, Goes(fs, b), \A m \in FileNames : FileOK(m, fs[m], unopenable)
  PROVE  /\ \A m \in FileNames : FileOK(m, files'[m], unopenable)
         /\ /\ FiniteUsers(b) /\ FiniteUsers(table')
            /\ \A m \in FileNames : AgreeAt(m, fs[m], b, unopenable)
            => \A m \in FileNames : AgreeAt(m, files'[m], table', unopenable)
  <1>1. \A m \in FileNames : fs[m] # Closed => fs[m].id \in IdsOf[m] /\ fs[m].id \in Ids
    BY IdsApart DEF FileOK
  <1>2. CASE /\ \A id \in Ids : Users(table', id) = Users(b, id)
             /\ \A m \in FileNames : Lost(fs[m], 0, files'[m])
    <2>1. \A m \in FileNames : FileOK(m, files'[m], unopenable)
      BY <1>2, LostOK
    <2>2. ASSUME FiniteUsers(b), FiniteUsers(table'),
                 \A m \in FileNames : AgreeAt(m, fs[m], b, unopenable)
          PROVE  \A m \in FileNames : AgreeAt(m, files'[m], table', unopenable)
      <3>1. ASSUME NEW m \in FileNames
            PROVE  /\ Lost(fs[m], 0, files'[m])
                   /\ fs[m] # Closed => Cardinality(Users(table', fs[m].id)) =
                                          Cardinality(Users(b, fs[m].id)) - 0
        <4>1. \A id : Cardinality(Users(b, id)) \in Nat
          BY <2>2 DEF FiniteUsers
        <4> QED
          BY <1>1, <1>2, <4>1
      <3>2. Loses(fs, files', b, table')
        BY <1>2, <3>1 DEF Loses
      <3> QED
        BY <2>2, <3>2, LosesAgree
    <2> QED
      BY <2>1, <2>2
  <1>3. ASSUME NEW n \in FileNames,
               files'[n] # Closed, files'[n].ref \in Nat, files'[n].id \in IdsOf[n],
               files'[n].timer = FALSE, ~files'[n].model => fs[n] # Closed /\ ~fs[n].model,
               fs[n] # Closed => files'[n].id = fs[n].id /\ files'[n].ref = fs[n].ref + 1,
               fs[n] = Closed => files'[n].ref = 1,
               \A id \in Ids : id # files'[n].id => Users(table', id) = Users(b, id),
               Cardinality(Users(table', files'[n].id)) =
                 Cardinality(Users(b, files'[n].id)) + 1,
               \A m \in FileNames : m # n => files'[m] = fs[m]
        PROVE  /\ \A m \in FileNames : FileOK(m, files'[m], unopenable)
               /\ /\ FiniteUsers(b) /\ FiniteUsers(table')
                  /\ \A m \in FileNames : AgreeAt(m, fs[m], b, unopenable)
                  => \A m \in FileNames : AgreeAt(m, files'[m], table', unopenable)
    <2>1. FileOK(n, files'[n], unopenable)
      BY <1>3 DEF FileOK
    <2>2. ASSUME FiniteUsers(b), FiniteUsers(table'), AgreeAt(n, fs[n], b, unopenable)
          PROVE  AgreeAt(n, files'[n], table', unopenable)
      <3>1. \A id \in IdsOf[n] : id # files'[n].id => Users(table', id) = Users(b, id)
        BY <1>3, IdsApart
      <3>2. FileOK(n, fs[n], unopenable)
        OBVIOUS
      <3> QED
        BY <1>3, <2>2, <3>1, <3>2, GainedAgree
    <2>3. ASSUME NEW m \in FileNames, m # n, AgreeAt(m, fs[m], b, unopenable)
          PROVE  AgreeAt(m, files'[m], table', unopenable)
      <3>1. \A id \in IdsOf[m] : Users(table', id) = Users(b, id)
        BY <1>3, <2>3, IdsApart
      <3> QED
        BY <1>1, <1>3, <2>3, <3>1 DEF AgreeAt
    <2> QED
      BY <1>3, <2>1, <2>2, <2>3
  <1> QED
    BY <1>2, <1>3 DEF Goes

LEMMA OpenAgendaAgree ==
  ASSUME Inv, TypeInv, FiniteUsers(table), IsFiniteSet(Connected), NEW s \in Sessions,
         NEW c \in Clients, NEW n \in FileNames, OpenAgenda(s, c, n)
  PROVE  /\ UNCHANGED <<unopenable, iBackupRestoreInProgress, session, disk>>
         /\ TablesOK(table', Connected')
         /\ \A m \in FileNames : FileOK(m, files'[m], unopenable')
         /\ AgreeInv => AgreeInv'
         /\ TasksInv => TasksInv'
         /\ \A u \in Sessions : /\ ToldIds(table'[u]) \subseteq ToldIds(table[u])
                                /\ Orderly(table[u]) => Orderly(table'[u])
  <1> DEFINE fs == ClosedFor(s, c)
             b == Without(s, c)
  <1>1. Opens(s, c, n, fs, b) /\ UNCHANGED <<unopenable, iBackupRestoreInProgress, session, disk>>
    BY OpenAgendaSteps
  <1>2. /\ Goes(fs, b) /\ TablesOK(table', Connected)
        /\ \A u \in Sessions : /\ ToldIds(table'[u]) \subseteq ToldIds(table[u])
                               /\ Orderly(table[u]) => Orderly(table'[u])
    BY OpenAgendaGoes
  <1> HIDE DEF fs, b
  <1>3. Connected' = Connected
    BY <1>1 DEF Connected
  <1>4. /\ Loses(files, fs, table, b) /\ TasksFollow(files, fs, table, b, Connected, Connected)
        /\ \A m \in FileNames : FileOK(m, fs[m], unopenable)
        /\ TablesOK(b, Connected)
    BY <1>1 DEF Opens
  <1>5. FiniteUsers(b) /\ FiniteUsers(table')
    BY <1>2, <1>4, UsersFinite
  <1>6. /\ \A m \in FileNames : FileOK(m, files'[m], unopenable)
        /\ (\A m \in FileNames : AgreeAt(m, fs[m], b, unopenable)) =>
             \A m \in FileNames : AgreeAt(m, files'[m], table', unopenable)
    BY <1>2, <1>4, <1>5, GoesAgree
  <1>7. AgreeInv => \A m \in FileNames : AgreeAt(m, files'[m], table', unopenable)
    BY <1>4, <1>5, <1>6, LosesAgree DEF AgreeInv, TypeInv
  <1>8. AgreeInv => AgreeInv'
    BY <1>1, <1>7 DEF AgreeInv, AgreeAt, Users
  <1>9. ASSUME TasksInv
        PROVE  TasksInv'
    <2>1. /\ \A m \in FileNames : TaskAt(fs[m], b, Connected)
          /\ \A m \in FileNames : Idle(files[m]) => Idle(fs[m])
      BY <1>4, <1>9, TasksFollowAt DEF TasksInv
    <2>2. TasksFollow(fs, files', b, table', Connected, Connected)
      BY <1>2 DEF Goes
    <2>3. /\ \A m \in FileNames : TaskAt(files'[m], table', Connected)
          /\ \A m \in FileNames : Idle(fs[m]) => Idle(files'[m])
      BY <2>1, <2>2, TasksFollowAt
    <2> QED
      BY <1>1, <1>3, <1>9, <2>1, <2>3 DEF TasksInv
  <1> QED
    BY <1>1, <1>2, <1>3, <1>6, <1>8, <1>9

-----------------------------------------------------------------------------
(* The types.                                                              *)

LEMMA SavedType ==
  ASSUME Inv, TypeInv, NEW fs
  PROVE  SavedIndexes(fs) \in [FileNames -> Ids \cup {0}]
  <1>1. \A n \in FileNames : files[n] # Closed => files[n].id \in Ids
    BY FileType
  <1>2. \A n \in FileNames : indexFile[n] \in Ids \cup {0}
    BY DEF TypeInv
  <1> QED
    BY <1>1, <1>2 DEF SavedIndexes, IsOpen

\* The calendar and index files on the phone.
PhoneMoves ==
  /\ \/ UNCHANGED disk
     \/ \E n \in FileNames : \E id \in IdsOf[n] \cup {0} : disk' = [disk EXCEPT ![n] = id]
  /\ \/ UNCHANGED indexFile
     \/ \E n \in FileNames : \E id \in Ids \cup {0} : indexFile' = [indexFile EXCEPT ![n] = id]
     \/ indexFile' = SavedIndexes(files')
     \/ indexFile' \in [FileNames -> Ids \cup {0}]

LEMMA EndsServer ==
  ASSUME Ends
  PROVE  \E how \in {"panic", "undertaker"} : ServerEnds(how)
  BY DEF Ends, CloseWithoutModel, OpenWithoutModel, TaskWithoutModel, StartWithoutStore,
     EndWithoutModel

LEMMA PhoneStep ==
  ASSUME Inv, TypeInv, [Next]_vars
  PROVE  PhoneMoves
  <1>1. CASE UNCHANGED vars
    BY <1>1 DEF vars, phoneVars, PhoneMoves
  <1>2. CASE Ends
    BY <1>2, EndsServer DEF ServerEnds, phoneVars, PhoneMoves
  <1>3. ASSUME NEW s \in Sessions, Request(s)
        PROVE  PhoneMoves \/ Ends
    <2>1. ASSUME NEW c \in Clients, NEW n \in FileNames, OpenAgenda(s, c, n) \/ OpenFails(s, c, n)
          PROVE  PhoneMoves
      BY <2>1 DEF OpenAgenda, OpenFails, PhoneMoves
    <2>2. ASSUME NEW c \in Clients, NEW n \in FileNames, OpenWithoutModel(s, c, n)
          PROVE  Ends
      BY <2>2 DEF Ends
    <2>3. ASSUME NEW c \in Clients, NEW n \in FileNames, DeleteAgendaFile(s, c, n)
          PROVE  PhoneMoves
      BY <2>3 DEF DeleteAgendaFile, PhoneMoves
    <2>4. ASSUME NEW c \in Clients,
                 CloseAgendaOf(s, c) \/ RequestFileNotification(s, c)
                 \/ CancelFileNotification(s, c)
          PROVE  PhoneMoves
      BY <2>4 DEF CloseAgendaOf, RequestFileNotification, CancelFileNotification, phoneVars,
         PhoneMoves
    <2>5. ASSUME NEW n \in FileNames, CreateAgendaFile(s, n) \/ StartTask(s, n)
          PROVE  PhoneMoves
      BY <2>5 DEF CreateAgendaFile, StartTask, phoneVars, PhoneMoves
    <2> QED
      BY <1>3, <2>1, <2>2, <2>3, <2>4, <2>5 DEF Request
  <1>4. ASSUME NEW s \in Sessions,
               ConnectAndStart(s) \/ Connect(s) \/ SessionEnds(s) \/ CloseWithoutModel(s)
        PROVE  PhoneMoves \/ Ends
    BY <1>4 DEF ConnectAndStart, Connect, SessionEnds, phoneVars, PhoneMoves, Ends
  <1>5. ASSUME NEW n \in FileNames, TaskEnds(n) \/ TaskWithoutModel(n) \/ CloseTimerFires(n)
        PROVE  PhoneMoves \/ Ends
    BY <1>5 DEF TaskEnds, CloseTimerFires, PhoneMoves, Ends
  <1>6. ASSUME NEW n \in FileNames, EngineRestores(n)
        PROVE  PhoneMoves
    <2>1. PICK id \in IdsOf[n] : /\ disk' = [disk EXCEPT ![n] = id]
                                 /\ \E saved \in {0, id} : indexFile' = [indexFile EXCEPT ![n] = saved]
      BY <1>6 DEF EngineRestores
    <2>2. id \in Ids
      BY IdsApart
    <2> QED
      BY <2>1, <2>2 DEF PhoneMoves
  <1>7. CASE UndertakerRuns
    BY <1>7 DEF UndertakerRuns, ServerEnds, phoneVars, PhoneMoves
  <1>8. CASE AgentRuns
    <2>1. ASSUME NEW kind \in Engines, BackupRestoreStarts(kind)
          PROVE  PhoneMoves
      <3>1. /\ UNCHANGED disk
            /\ indexFile' = [n \in FileNames |->
                  IF kind = "restore" /\ StillReferenced[n] # Closed THEN 0
                  ELSE SavedIndexes(StillReferenced)[n]]
        BY <2>1 DEF BackupRestoreStarts
      <3>2. SavedIndexes(StillReferenced) \in [FileNames -> Ids \cup {0}]
        BY SavedType
      <3>3. indexFile' \in [FileNames -> Ids \cup {0}]
        BY <3>1, <3>2
      <3> QED
        BY <3>1, <3>3 DEF PhoneMoves
    <2>2. ASSUME NEW kind \in Engines, StartWithoutStore(kind)
          PROVE  Ends
      BY <2>2 DEF Ends
    <2>3. ASSUME NEW bad \in SUBSET OpenNames, RestoreEnds(bad) \/ EndWithoutModel(bad)
          PROVE  PhoneMoves \/ Ends
      BY <2>3 DEF RestoreEnds, phoneVars, PhoneMoves, Ends
    <2>4. CASE BackupEnds \/ AgentSeesNoChange
      BY <2>4 DEF BackupEnds, AgentSeesNoChange, phoneVars, PhoneMoves
    <2> QED
      BY <1>2, <1>8, <2>1, <2>2, <2>3, <2>4 DEF AgentRuns
  <1>9. CASE \E state \in Engines \cup {"normal"} : EngineChanges(state)
    BY <1>9 DEF EngineChanges, PhoneMoves
  <1> QED
    BY <1>1, <1>2, <1>3, <1>4, <1>5, <1>6, <1>7, <1>8, <1>9 DEF Next

LEMMA PhoneType ==
  ASSUME Inv, TypeInv, PhoneMoves
  PROVE  /\ \A n \in FileNames : disk'[n] \in IdsOf[n] \cup {0}
         /\ indexFile' \in [FileNames -> Ids \cup {0}]
  <1>1. \A n \in FileNames : disk'[n] \in IdsOf[n] \cup {0}
    <2>1. disk \in [FileNames -> Ids \cup {0}] /\ \A n \in FileNames : disk[n] \in IdsOf[n] \cup {0}
      BY DEF Inv, TypeInv
    <2>2. CASE UNCHANGED disk
      BY <2>1, <2>2
    <2>3. ASSUME NEW n \in FileNames, NEW id \in IdsOf[n] \cup {0}, disk' = [disk EXCEPT ![n] = id]
          PROVE  \A m \in FileNames : disk'[m] \in IdsOf[m] \cup {0}
      BY <2>1, <2>3
    <2> QED
      BY <2>2, <2>3 DEF PhoneMoves
  <1>2. indexFile' \in [FileNames -> Ids \cup {0}]
    BY SavedType DEF PhoneMoves, TypeInv
  <1> QED
    BY <1>1, <1>2

\* What else a step changes: how the server ended last, the agent's signal, the
\* calendars left broken and the locks of the sessions.
RestMoves ==
  /\ lastExit' = lastExit \/ lastExit' \in {"none", "undertaker", "panic"}
  /\ agentSignalled' = agentSignalled \/ agentSignalled' \in BOOLEAN
  /\ \/ unopenable' = unopenable \/ unopenable' = {}
     \/ \E bad \in SUBSET OpenNames : unopenable' = unopenable \cup bad
  /\ \/ UNCHANGED iBackupRestoreLock
     \/ \E s \in Sessions : iBackupRestoreLock' = [iBackupRestoreLock EXCEPT ![s] = FALSE]
     \/ iBackupRestoreLock' \in [Sessions -> BOOLEAN]

LEMMA EndsRest ==
  ASSUME Ends
  PROVE  RestMoves
  <1>1. PICK how \in {"panic", "undertaker"} : ServerEnds(how)
    BY EndsServer
  <1> QED
    BY <1>1 DEF ServerEnds, RestMoves

LEMMA LockRest ==
  ASSUME NEW fs, NEW lock \in BOOLEAN, LockSessions(fs, lock)
  PROVE  UNCHANGED iBackupRestoreLock \/ iBackupRestoreLock' \in [Sessions -> BOOLEAN]
  BY DEF LockSessions

LEMMA RequestRest ==
  ASSUME NEW s \in Sessions, Request(s)
  PROVE  RestMoves
  <1>1. ASSUME NEW c \in Clients, NEW n \in FileNames, OpenWithoutModel(s, c, n)
        PROVE  RestMoves
    BY <1>1, EndsRest DEF Ends
  <1>2. ASSUME NEW c \in Clients, NEW n \in FileNames,
               OpenAgenda(s, c, n) \/ OpenFails(s, c, n) \/ DeleteAgendaFile(s, c, n)
        PROVE  RestMoves
    BY <1>2 DEF OpenAgenda, OpenFails, DeleteAgendaFile, exitVars, agentVars, RestMoves
  <1>3. ASSUME NEW c \in Clients,
               CloseAgendaOf(s, c) \/ RequestFileNotification(s, c) \/ CancelFileNotification(s, c)
        PROVE  RestMoves
    BY <1>3 DEF CloseAgendaOf, RequestFileNotification, CancelFileNotification, exitVars,
       agentVars, RestMoves
  <1>4. ASSUME NEW n \in FileNames, CreateAgendaFile(s, n) \/ StartTask(s, n)
        PROVE  RestMoves
    BY <1>4 DEF CreateAgendaFile, StartTask, exitVars, agentVars, clientVars, RestMoves
  <1> QED
    BY <1>1, <1>2, <1>3, <1>4 DEF Request

LEMMA AgentRest ==
  ASSUME AgentRuns
  PROVE  RestMoves
  <1>1. ASSUME NEW kind \in Engines, BackupRestoreStarts(kind)
        PROVE  RestMoves
    <2>1. LockSessions(StillReferenced, TRUE) /\ UNCHANGED <<lastExit, unopenable>>
          /\ agentSignalled' = FALSE
      BY <1>1 DEF BackupRestoreStarts, AgentSees
    <2> QED
      BY <2>1, LockRest DEF RestMoves
  <1>2. ASSUME NEW kind \in Engines, StartWithoutStore(kind)
        PROVE  RestMoves
    BY <1>2, EndsRest DEF Ends
  <1>3. CASE BackupEnds
    <2>1. LockSessions(files, FALSE) /\ UNCHANGED <<lastExit, unopenable>>
          /\ agentSignalled' = FALSE
      BY <1>3 DEF BackupEnds, AgentSees, exitVars
    <2> QED
      BY <2>1, LockRest DEF RestMoves
  <1>4. ASSUME NEW bad \in SUBSET OpenNames, RestoreEnds(bad)
        PROVE  RestMoves
    <2>1. LockSessions(files, FALSE) /\ UNCHANGED lastExit /\ agentSignalled' = FALSE
          /\ unopenable' = unopenable \cup bad
      BY <1>4 DEF RestoreEnds, AgentSees
    <2> QED
      BY <2>1, LockRest DEF RestMoves
  <1>5. ASSUME NEW bad \in SUBSET OpenNames, EndWithoutModel(bad)
        PROVE  RestMoves
    BY <1>5, EndsRest DEF Ends
  <1>6. CASE AgentSeesNoChange
    BY <1>6 DEF AgentSeesNoChange, AgentSees, exitVars, clientVars, RestMoves
  <1> QED
    BY <1>1, <1>2, <1>3, <1>4, <1>5, <1>6 DEF AgentRuns

LEMMA RestStep ==
  ASSUME [Next]_vars
  PROVE  RestMoves
  <1>1. CASE UNCHANGED vars
    BY <1>1 DEF vars, exitVars, agentVars, clientVars, RestMoves
  <1>2. ASSUME NEW s \in Sessions, CloseWithoutModel(s)
        PROVE  RestMoves
    BY <1>2, EndsRest DEF Ends
  <1>3. ASSUME NEW s \in Sessions, ConnectAndStart(s) \/ Connect(s) \/ SessionEnds(s)
        PROVE  RestMoves
    BY <1>3 DEF ConnectAndStart, Connect, SessionEnds, NewSession, exitVars, agentVars, RestMoves
  <1>4. ASSUME NEW n \in FileNames, TaskWithoutModel(n)
        PROVE  RestMoves
    BY <1>4, EndsRest DEF Ends
  <1>5. ASSUME NEW n \in FileNames, TaskEnds(n) \/ CloseTimerFires(n) \/ EngineRestores(n)
        PROVE  RestMoves
    BY <1>5 DEF TaskEnds, CloseTimerFires, EngineRestores, exitVars, agentVars, clientVars,
       RestMoves
  <1>6. CASE UndertakerRuns
    <2>1. CASE undertaker.cancelled
      BY <1>6, <2>1 DEF UndertakerRuns, agentVars, clientVars, RestMoves
    <2>2. CASE ~undertaker.cancelled
      BY <1>6, <2>2, EndsRest DEF UndertakerRuns, Ends
    <2> QED
      BY <2>1, <2>2
  <1>7. ASSUME NEW state \in Engines \cup {"normal"}, EngineChanges(state)
        PROVE  RestMoves
    BY <1>7 DEF EngineChanges, exitVars, clientVars, RestMoves
  <1> QED
    BY <1>1, <1>2, <1>3, <1>4, <1>5, <1>6, <1>7, RequestRest, AgentRest DEF Next

LEMMA RestType ==
  ASSUME TypeInv, RestMoves
  PROVE  /\ lastExit' \in {"none", "undertaker", "panic"} /\ agentSignalled' \in BOOLEAN
         /\ unopenable' \subseteq FileNames /\ iBackupRestoreLock' \in [Sessions -> BOOLEAN]
  <1>1. lastExit' \in {"none", "undertaker", "panic"} /\ agentSignalled' \in BOOLEAN
    BY DEF TypeInv, RestMoves
  <1>2. unopenable' \subseteq FileNames
    BY DEF TypeInv, RestMoves, OpenNames
  <1>3. iBackupRestoreLock' \in [Sessions -> BOOLEAN]
    <2>1. iBackupRestoreLock \in [Sessions -> BOOLEAN]
      BY DEF TypeInv
    <2> QED
      BY <2>1 DEF RestMoves
  <1> QED
    BY <1>1, <1>2, <1>3

-----------------------------------------------------------------------------
(* The steps by which clients lose calendars.                              *)

Closes ==
  /\ Loses(files, files', table, table')
  /\ TasksFollow(files, files', table, table', Connected, Connected')
  /\ TablesOK(table', Connected')
  /\ UNCHANGED <<unopenable, iBackupRestoreInProgress>>
  /\ \A u \in Sessions : /\ ToldIds(table'[u]) \subseteq ToldIds(table[u]) \cup {KNullFileId}
                         /\ Orderly(table[u]) => Orderly(table'[u])

LEMMA EmptyTable ==
  /\ Table(<<>>) /\ Orderly(<<>>) /\ ToldIds(<<>>) = {}
  BY DEF Table, Orderly, SortedById, ToldIds, Positions

LEMMA SessionEndsCloses ==
  ASSUME Inv, TypeInv, FiniteUsers(table), NEW s \in Sessions, SessionEnds(s)
  PROVE  Closes
  <1>1. /\ table' = [table EXCEPT ![s] = <<>>] /\ session' = [session EXCEPT ![s] = "closed"]
        /\ UNCHANGED <<unopenable, iBackupRestoreInProgress>>
    BY DEF SessionEnds, agentVars
  <1>2. /\ table = [u \in Sessions |-> table[u]]
        /\ \A u \in Sessions : Table(table[u]) /\ (u \notin Connected => table[u] = <<>>)
    BY DEF TypeInv, TablesOK
  <1>3. /\ table' = [u \in Sessions |-> table'[u]] /\ table'[s] = <<>>
        /\ \A u \in Sessions : u # s => table'[u] = table[u]
    BY <1>1, <1>2
  <1>4. \A u \in Sessions : u # s /\ u \notin Connected' => u \notin Connected
    BY <1>1 DEF Connected
  <1>5. TablesOK(table', Connected')
    BY <1>2, <1>3, <1>4, EmptyTable DEF TablesOK
  <1>6. \A u \in Sessions : /\ ToldIds(table'[u]) \subseteq ToldIds(table[u]) \cup {KNullFileId}
                            /\ Orderly(table[u]) => Orderly(table'[u])
    BY <1>3, EmptyTable
  <1> QED
    BY <1>1, <1>5, <1>6, SessionEndsLoses DEF Closes

LEMMA DeleteCloses ==
  ASSUME Inv, TypeInv, FiniteUsers(table), NEW s \in Sessions, NEW c \in Clients,
         NEW n \in FileNames, DeleteAgendaFile(s, c, n)
  PROVE  Closes
  <1>1. /\ table' = table \/ table' = [table EXCEPT ![s] = DeleteUnlessWatching(table[s], c)]
        /\ UNCHANGED <<unopenable, iBackupRestoreInProgress>>
    BY DEF DeleteAgendaFile, agentVars, TypeInv, TablesOK
  <1>2. table = [u \in Sessions |-> table[u]] /\ Table(table[s])
    BY DEF TypeInv, TablesOK
  <1>3. ASSUME NEW u \in Sessions
        PROVE  /\ ToldIds(table'[u]) \subseteq ToldIds(table[u]) \cup {KNullFileId}
               /\ Orderly(table[u]) => Orderly(table'[u])
    <2>1. table'[u] = table[u] \/ (u = s /\ table'[s] = DeleteUnlessWatching(table[s], c))
      BY <1>1, <1>2
    <2> QED
      BY <1>2, <2>1, DeleteUnlessWatchingTable
  <1> QED
    BY <1>1, <1>3, DeleteLoses DEF Closes

LEMMA ClosesOneCloses ==
  ASSUME Inv, TypeInv, FiniteUsers(table), NEW s \in Sessions, NEW c \in Clients, ClosesOne(s, c)
  PROVE  Closes
  BY ClosesOneLoses DEF Closes

LEMMA ClosesKeeps ==
  ASSUME TypeInv, FiniteUsers(table), IsFiniteSet(Connected'), Closes
  PROVE  /\ \A n \in FileNames : FileOK(n, files'[n], unopenable')
         /\ AgreeInv => AgreeInv'
         /\ TasksInv => TasksInv'
  <1>1. /\ Loses(files, files', table, table') /\ TablesOK(table', Connected')
        /\ UNCHANGED <<unopenable, iBackupRestoreInProgress>>
        /\ TasksFollow(files, files', table, table', Connected, Connected')
    BY DEF Closes
  <1>2. \A n \in FileNames : FileOK(n, files[n], unopenable)
    BY DEF TypeInv
  <1>3. \A n \in FileNames : FileOK(n, files'[n], unopenable')
    BY <1>1, <1>2, LosesOK
  <1>4. FiniteUsers(table')
    BY <1>1, UsersFinite
  <1>5. AgreeInv => \A n \in FileNames : AgreeAt(n, files'[n], table', unopenable)
    BY <1>1, <1>2, <1>4, LosesAgree DEF AgreeInv
  <1>6. AgreeInv => AgreeInv'
    BY <1>1, <1>5 DEF AgreeInv, AgreeAt, Users
  <1> QED
    BY <1>1, <1>3, <1>6, TasksStep

LEMMA MildKeeps ==
  ASSUME Inv, TypeInv, FiniteUsers(table), IsFiniteSet(Connected'), Mild
  PROVE  /\ TablesOK(table', Connected')
         /\ \A n \in FileNames : FileOK(n, files'[n], unopenable')
         /\ AgreeInv => AgreeInv'
  <1>1. /\ SameUsers(table, table') /\ TablesOK(table', Connected') /\ unopenable' = unopenable
        /\ \A n \in FileNames : Lost(files[n], 0, files'[n])
    BY DEF Mild
  <1>2. \A n \in FileNames : FileOK(n, files[n], unopenable)
    BY DEF TypeInv
  <1>3. Loses(files, files', table, table')
    BY <1>1, SameLoses, FileType
  <1>4. \A n \in FileNames : FileOK(n, files'[n], unopenable')
    BY <1>1, <1>2, <1>3, LosesOK
  <1>5. FiniteUsers(table')
    BY <1>1, UsersFinite
  <1>6. AgreeInv => \A n \in FileNames : AgreeAt(n, files'[n], table', unopenable)
    BY <1>2, <1>3, <1>5, LosesAgree DEF AgreeInv
  <1>7. AgreeInv => AgreeInv'
    BY <1>1, <1>6 DEF AgreeInv, AgreeAt, Users
  <1> QED
    BY <1>1, <1>4, <1>7

-----------------------------------------------------------------------------
(* The invariant at each step.                                             *)

LEMMA EndsEmpty ==
  ASSUME Ends
  PROVE  /\ \A n \in FileNames : files'[n] = Closed
         /\ table' = [s \in Sessions |-> <<>>] /\ Connected' = {}
         /\ iBackupRestoreInProgress' = FALSE
  BY EndsServer DEF ServerEnds, Connected

LEMMA StepOK ==
  ASSUME Inv, CountInv, TypeInv, FiniteUsers(table), IsFiniteSet(Connected'), [Next]_vars
  PROVE  /\ TablesOK(table', Connected')
         /\ \A n \in FileNames : FileOK(n, files'[n], unopenable')
  <1>1. CASE Ends
    BY <1>1, EndsEmpty, EmptyTable DEF TablesOK, FileOK
  <1>2. CASE Mild
    BY <1>2, MildKeeps
  <1>3. CASE Closes
    BY <1>3, ClosesKeeps DEF Closes
  <1>4. ASSUME NEW s \in Sessions, NEW c \in Clients, NEW n \in FileNames, OpenAgenda(s, c, n)
        PROVE  /\ TablesOK(table', Connected')
               /\ \A m \in FileNames : FileOK(m, files'[m], unopenable')
    BY <1>4, OpenAgendaAgree DEF CountInv
  <1>5. ASSUME NEW bad \in SUBSET OpenNames, RestoreEnds(bad)
        PROVE  /\ TablesOK(table', Connected')
               /\ \A n \in FileNames : FileOK(n, files'[n], unopenable')
    BY <1>5, RestoreEndsOK
  <1>6. \/ Ends \/ Mild \/ Closes
        \/ \E s \in Sessions, c \in Clients, n \in FileNames : OpenAgenda(s, c, n)
        \/ \E bad \in SUBSET OpenNames : RestoreEnds(bad)
    <2>1. Quiet => Mild
      BY DEF Quiet
    <2> QED
      BY <2>1, NextCases, SessionEndsCloses, ClosesOneCloses, DeleteCloses,
         BackupRestoreStartsMild, BackupEndsMild
  <1> QED
    BY <1>1, <1>2, <1>3, <1>4, <1>5, <1>6

LEMMA InitType ==
  ASSUME Init
  PROVE  TypeInv
  BY EmptyTable DEF Init, TypeInv, FileOK, TablesOK

LEMMA NextType ==
  ASSUME Inv, CountInv, TypeInv, [Next]_vars
  PROVE  TypeInv'
  <1>1. IsFiniteSet(Connected) /\ IsFiniteSet(Connected')
    BY NextCount DEF CountInv
  <1>2. FiniteUsers(table)
    BY <1>1, UsersFinite DEF TypeInv
  <1>3. /\ TablesOK(table', Connected')
        /\ \A n \in FileNames : FileOK(n, files'[n], unopenable')
    BY <1>1, <1>2, StepOK
  <1>4. /\ \A n \in FileNames : disk'[n] \in IdsOf[n] \cup {0}
        /\ indexFile' \in [FileNames -> Ids \cup {0}]
    BY PhoneStep, PhoneType
  <1>5. /\ lastExit' \in {"none", "undertaker", "panic"} /\ agentSignalled' \in BOOLEAN
        /\ unopenable' \subseteq FileNames /\ iBackupRestoreLock' \in [Sessions -> BOOLEAN]
    BY RestStep, RestType
  <1>6. \A n \in FileNames : FileOK(n, files[n], unopenable)'
    BY <1>3 DEF FileOK
  <1>7. TablesOK(table, Connected)'
    BY <1>3 DEF TablesOK
  <1> QED
    BY <1>4, <1>5, <1>6, <1>7 DEF TypeInv

LEMMA TypesHold ==
  ASSUME Inv, CountInv, TypeInv
  PROVE  TypeOK
  <1>1. files \in [FileNames -> OpenFile \cup {Closed}]
    <2>1. ASSUME NEW n \in FileNames, files[n] # Closed
          PROVE  files[n] \in OpenFile
      <3>1. IsFile(files[n]) /\ files[n].ref \in Nat
        BY <2>1, FileType
      <3> QED
        BY <3>1 DEF IsFile, OpenFile
    <2> QED
      BY <2>1 DEF Inv, Good
  <1>2. iSessionCount \in Nat
    BY FS_CardinalityType DEF CountInv, ExitOK
  <1>3. table \in [Sessions -> Seq(SessionFile)]
    BY DEF TypeInv, TablesOK, Table
  <1>4. disk \in [FileNames -> Ids \cup {0}] /\ engine \in States /\ iCurrentState \in States
        /\ iBackupRestoreInProgress \in BOOLEAN
    BY DEF Inv
  <1>5. /\ session \in [Sessions -> {"closed", "open"}] /\ server \in {"down", "up"}
        /\ undertaker \in [active : BOOLEAN, cancelled : BOOLEAN]
    BY DEF CountInv
  <1> QED
    BY <1>1, <1>2, <1>3, <1>4, <1>5 DEF TypeInv, TypeOK

\* The three invariants that need no assumption about the binary search.
Typed == Inv /\ CountInv /\ TypeInv

LEMMA TypedStep ==
  /\ Init => Typed
  /\ Typed /\ [Next]_vars => Typed'
  <1>1. Init => Typed
    BY InitInv, InitCount, InitType DEF Typed
  <1>2. Typed /\ [Next]_vars => Typed'
    BY NextInv, NextCount, NextType DEF Typed
  <1> QED
    BY <1>1, <1>2

\* The server's variables keep their types: no file gets a negative number of
\* references and no table an entry that is not one, though closes, deletes and
\* restores change files and tables in different orders (CAgnServFile,
\* CAgnServFileMgr, CAgnSessionFileManager).
THEOREM TypeCorrect == Spec => []TypeOK
  <1>1. Typed => TypeOK
    BY TypesHold DEF Typed
  <1> QED
    BY <1>1, TypedStep, PTL DEF Spec

-----------------------------------------------------------------------------
(* A server that was started during a restore.                             *)

\* Steps that close files or leave them with their ids.
LEMMA HeldKept ==
  ASSUME HeldInv, UNCHANGED <<iBackupRestoreInProgress, iCurrentState>>,
         \A n \in FileNames : \E k : Lost(files[n], k, files'[n]),
         \A n \in FileNames : files'[n] # Closed /\ files[n].model => disk'[n] = disk[n]
  PROVE  HeldInv'
  BY DEF HeldInv, Lost, OpenNames, IsOpen

LEMMA HeldLeft ==
  ASSUME HeldInv, UNCHANGED <<files, disk, iBackupRestoreInProgress, iCurrentState>>
  PROVE  HeldInv'
  BY DEF HeldInv, OpenNames, IsOpen

LEMMA HeldOpen ==
  ASSUME Inv, TypeInv, FiniteUsers(table), HeldInv, NEW s \in Sessions, NEW c \in Clients,
         NEW n \in FileNames, OpenAgenda(s, c, n)
  PROVE  HeldInv'
  <1> DEFINE fs == ClosedFor(s, c)
             b == Without(s, c)
  <1>1. UNCHANGED <<disk, iBackupRestoreInProgress, iCurrentState>>
    BY DEF OpenAgenda, agentVars
  <1>2. \A m \in FileNames : Same(files[m], fs[m])
    BY ClosedForSame
  <1>3. \E y : /\ Opened(fs[n], y, disk[n])
               /\ files'[n] = y \/ Lost(y, 1, files'[n])
    BY OpenAgendaSteps
  <1>4. \A m \in FileNames : m # n => files'[m] = fs[m]
    BY OpenAgendaSteps
  <1> HIDE DEF fs, b
  <1>5. ASSUME NEW m \in FileNames, files'[m] # Closed, files'[m].model
        PROVE  \/ files[m] # Closed /\ files[m].model /\ files'[m].id = files[m].id
               \/ files'[m].id = disk[m]
    <2>1. CASE m # n
      BY <1>2, <1>4, <1>5, <2>1 DEF Same
    <2>2. CASE m = n
      <3>1. PICK y : Opened(fs[n], y, disk[n]) /\ (files'[n] = y \/ Lost(y, 1, files'[n]))
        BY <1>3
      <3>2. y # Closed /\ files'[n].id = y.id /\ files'[n].model = y.model
        BY <1>5, <2>2, <3>1 DEF Opened, Lost
      <3>3. \/ fs[n] # Closed /\ y.id = fs[n].id /\ y.model = fs[n].model
            \/ y.id = disk[n]
        BY <3>1 DEF Opened
      <3> QED
        BY <1>2, <1>5, <2>2, <3>2, <3>3 DEF Same
    <2> QED
      BY <2>1, <2>2
  <1> QED
    BY <1>1, <1>5 DEF HeldInv, OpenNames, IsOpen

\* What is not in the list, or has been given up, the engine replaces.
LEMMA HeldRestores ==
  ASSUME Inv, HeldInv, NEW n \in FileNames, EngineRestores(n)
  PROVE  HeldInv'
  <1>1. /\ UNCHANGED <<files, iBackupRestoreInProgress, iCurrentState>>
        /\ \A m \in FileNames : m # n => disk'[m] = disk[m]
    BY DEF EngineRestores, agentVars, Inv
  <1>2. ASSUME ~iBackupRestoreInProgress, files[n] # Closed, files[n].model
        PROVE  FALSE
    BY <1>2 DEF EngineRestores, IsOpen, Inv, Good
  <1> QED
    BY <1>1, <1>2 DEF HeldInv, OpenNames, IsOpen

LEMMA HeldStep ==
  ASSUME Inv, CountInv, TypeInv, FiniteUsers(table), HeldInv, [Next]_vars
  PROVE  HeldInv'
  <1>1. CASE UNCHANGED vars
    BY <1>1, HeldLeft DEF vars, phoneVars, agentVars
  <1>2. CASE Ends
    BY <1>2, EndsEmpty DEF HeldInv, OpenNames, IsOpen
  <1>3. ASSUME Closes, UNCHANGED <<disk, iCurrentState>>
        PROVE  HeldInv'
    BY <1>3, HeldKept DEF Closes, Loses
  <1>4. ASSUME NEW s \in Sessions, Request(s)
        PROVE  HeldInv'
    <2>1. ASSUME NEW c \in Clients, NEW n \in FileNames, OpenFails(s, c, n)
          PROVE  HeldInv'
      BY <1>3, <2>1, ClosesOneCloses DEF ClosesOne, OpenFails, agentVars
    <2>2. ASSUME NEW c \in Clients, CloseAgendaOf(s, c)
          PROVE  HeldInv'
      BY <1>3, <2>2, ClosesOneCloses DEF ClosesOne, CloseAgendaOf, agentVars
    <2>3. ASSUME NEW c \in Clients, NEW n \in FileNames, DeleteAgendaFile(s, c, n)
          PROVE  HeldInv'
      <3>1. Closes /\ UNCHANGED <<iCurrentState, iBackupRestoreInProgress>>
        BY <2>3, DeleteCloses DEF DeleteAgendaFile, agentVars
      <3>2. /\ files'[n] = Closed
            /\ \A m \in FileNames : m # n => disk'[m] = disk[m]
        BY <2>3 DEF DeleteAgendaFile, Inv, Good
      <3> QED
        BY <3>1, <3>2, HeldKept DEF Closes, Loses
    <2>4. ASSUME NEW c \in Clients,
                 RequestFileNotification(s, c) \/ CancelFileNotification(s, c)
          PROVE  HeldInv'
      BY <2>4, HeldLeft DEF RequestFileNotification, CancelFileNotification, phoneVars, agentVars
    <2>5. ASSUME NEW n \in FileNames, CreateAgendaFile(s, n)
          PROVE  HeldInv'
      <3>1. /\ UNCHANGED <<files, iBackupRestoreInProgress, iCurrentState>> /\ files[n] = Closed
            /\ \A m \in FileNames : m # n => disk'[m] = disk[m]
        BY <2>5 DEF CreateAgendaFile, agentVars, Inv, IsOpen
      <3> QED
        BY <3>1 DEF HeldInv, OpenNames, IsOpen
    <2>6. ASSUME NEW n \in FileNames, StartTask(s, n)
          PROVE  HeldInv'
      BY <2>6, TaskMild, HeldKept DEF StartTask, phoneVars, agentVars, Mild
    <2> QED
      BY <1>2, <1>4, <2>1, <2>2, <2>3, <2>4, <2>5, <2>6, HeldOpen DEF Request, Ends
  <1>5. ASSUME NEW s \in Sessions,
               ConnectAndStart(s) \/ Connect(s) \/ SessionEnds(s) \/ CloseWithoutModel(s)
        PROVE  HeldInv'
    <2>1. CASE ConnectAndStart(s)
      BY <2>1 DEF ConnectAndStart, CountInv, HeldInv, OpenNames, IsOpen
    <2>2. CASE Connect(s)
      BY <2>2, HeldLeft DEF Connect, phoneVars, agentVars
    <2>3. CASE SessionEnds(s)
      BY <1>3, <2>3, SessionEndsCloses DEF SessionEnds, agentVars
    <2> QED
      BY <1>2, <1>5, <2>1, <2>2, <2>3 DEF Ends
  <1>6. ASSUME NEW n \in FileNames, TaskEnds(n) \/ TaskWithoutModel(n) \/ CloseTimerFires(n)
        PROVE  HeldInv'
    <2>1. CASE TaskEnds(n)
      BY <2>1, TaskMild, HeldKept DEF TaskEnds, agentVars, Mild
    <2>2. CASE CloseTimerFires(n)
      BY <2>2, CloseTimerMild, HeldKept DEF CloseTimerFires, agentVars, Mild
    <2> QED
      BY <1>2, <1>6, <2>1, <2>2 DEF Ends
  <1>7. CASE UndertakerRuns
    <2>1. CASE undertaker.cancelled /\ UNCHANGED <<phoneVars, files, agentVars>>
      BY <2>1, HeldLeft DEF phoneVars, agentVars
    <2> QED
      BY <1>2, <1>7, <2>1 DEF UndertakerRuns, Ends
  <1>8. CASE AgentRuns
    <2>1. ASSUME NEW kind \in Engines, BackupRestoreStarts(kind)
          PROVE  HeldInv'
      BY <2>1 DEF BackupRestoreStarts, HeldInv
    <2>2. ASSUME NEW bad \in SUBSET OpenNames, BackupEnds \/ RestoreEnds(bad)
          PROVE  HeldInv'
      BY <2>2 DEF BackupEnds, RestoreEnds, AgentSees, HeldInv
    <2>3. CASE AgentSeesNoChange
      BY <2>3, HeldLeft DEF AgentSeesNoChange, AgentSees, phoneVars
    <2> QED
      BY <1>2, <1>8, <2>1, <2>2, <2>3 DEF AgentRuns, Ends
  <1>9. CASE \E state \in Engines \cup {"normal"} : EngineChanges(state)
    BY <1>9, HeldLeft DEF EngineChanges
  <1> QED
    BY <1>1, <1>4, <1>5, <1>6, <1>7, <1>8, <1>9, HeldRestores DEF Next

-----------------------------------------------------------------------------
(* The tasks.                                                              *)

LEMMA StepFacts ==
  ASSUME Typed, [Next]_vars
  PROVE  /\ Inv /\ CountInv /\ TypeInv /\ IsFiniteSet(Connected) /\ IsFiniteSet(Connected')
         /\ FiniteUsers(table) /\ FiniteUsers(table')
  <1>1. Inv /\ CountInv /\ TypeInv /\ IsFiniteSet(Connected) /\ IsFiniteSet(Connected')
    <2>1. Typed'
      BY TypedStep
    <2> QED
      BY <2>1 DEF Typed, CountInv
  <1>2. TablesOK(table, Connected)
    BY <1>1 DEF TypeInv
  <1>3. FiniteUsers(table)
    BY <1>1, <1>2, UsersFinite
  <1>4. TablesOK(table', Connected')
    BY <1>1, <1>3, StepOK
  <1> QED
    BY <1>1, <1>3, <1>4, UsersFinite

\* The cases of a step, with what each does to the tasks.
LEMMA TaskCases ==
  ASSUME Typed, [Next]_vars
  PROVE  \/ Ends \/ (Mild /\ (TasksInv => TasksInv')) \/ Closes
         \/ \E s \in Sessions, c \in Clients, n \in FileNames : OpenAgenda(s, c, n)
         \/ \E bad \in SUBSET OpenNames : RestoreEnds(bad)
  <1>1. Quiet => Mild /\ (TasksInv => TasksInv')
    BY DEF Quiet
  <1> QED
    BY <1>1, StepFacts, NextCases, SessionEndsCloses, ClosesOneCloses, DeleteCloses,
       BackupRestoreStartsMild, BackupEndsMild

LEMMA StepTasks ==
  ASSUME Typed, HeldInv, TasksInv, [Next]_vars
  PROVE  TasksInv'
  <1>1. CASE Ends
    BY <1>1, EndsEmpty DEF TasksInv, TaskAt
  <1>2. CASE Closes
    BY <1>2, StepFacts, ClosesKeeps
  <1>3. ASSUME NEW s \in Sessions, NEW c \in Clients, NEW n \in FileNames, OpenAgenda(s, c, n)
        PROVE  TasksInv'
    BY <1>3, StepFacts, OpenAgendaAgree
  <1>4. ASSUME NEW bad \in SUBSET OpenNames, RestoreEnds(bad)
        PROVE  TasksInv'
    BY <1>4, StepFacts, RestoreEndsTasks
  <1> QED
    BY <1>1, <1>2, <1>3, <1>4, TaskCases

\* Tasks run for sessions that have the calendar open, at every step.
THEOREM Tasks == Spec => [](Typed /\ HeldInv /\ TasksInv)
  <1>1. Init => Typed /\ HeldInv /\ TasksInv
    BY TypedStep DEF Init, HeldInv, TasksInv, TaskAt
  <1>2. Typed /\ HeldInv /\ TasksInv /\ [Next]_vars => (Typed /\ HeldInv /\ TasksInv)'
    BY TypedStep, StepFacts, HeldStep, StepTasks
  <1> QED
    BY <1>1, <1>2, PTL DEF Spec

\* No task runs on a file that is given up to the backup engine: the start of a
\* backup or restore finds every task in the tables of the sessions, since a
\* task belongs to a session that has the calendar open, whatever the ids
\* (CAgnServerSession::BackupRestoreCancelTask).
THEOREM NoTasksWhileClosed == Spec => []NoTaskWhileClosed
  <1>1. Typed /\ TasksInv => NoTaskWhileClosed
    <2> SUFFICES ASSUME Typed, TasksInv, NEW n \in OpenNames,
                        files[n].task # NoSession, files[n].model
                 PROVE  files[n].store = "open"
      BY DEF NoTaskWhileClosed
    <2>1. n \in FileNames /\ files[n] # Closed
      BY DEF OpenNames, IsOpen
    <2>2. ~iBackupRestoreInProgress
      BY <2>1 DEF TasksInv, Idle
    <2> QED
      BY <2>1, <2>2 DEF Typed, Inv, Good
  <1> QED
    BY <1>1, Tasks, PTL

-----------------------------------------------------------------------------
(* References, when the end of a restore cannot miss an entry.             *)

LEMMA StepAgree ==
  ASSUME Apart, Typed, AgreeInv, [Next]_vars
  PROVE  AgreeInv'
  <1>1. CASE Ends
    <2>1. \A n \in FileNames : files'[n] = Closed
      BY <1>1, EndsEmpty
    <2>2. \A id : Users(table', id) = {}
      BY <1>1, EndsEmpty DEF Users, Positions
    <2> QED
      BY <2>1, <2>2 DEF AgreeInv, AgreeAt, Users
  <1>2. CASE Mild
    BY <1>2, StepFacts, MildKeeps
  <1>3. CASE Closes
    BY <1>3, StepFacts, ClosesKeeps
  <1>4. ASSUME NEW s \in Sessions, NEW c \in Clients, NEW n \in FileNames, OpenAgenda(s, c, n)
        PROVE  AgreeInv'
    BY <1>4, StepFacts, OpenAgendaAgree
  <1>5. ASSUME NEW bad \in SUBSET OpenNames, RestoreEnds(bad)
        PROVE  AgreeInv'
    <2>1. Reached
      BY <1>5, StepFacts, ApartReached DEF RestoreEnds
    <2> QED
      BY <1>5, <2>1, StepFacts, RestoreEndsAgree
  <1> QED
    BY <1>1, <1>2, <1>3, <1>4, <1>5, TaskCases

LEMMA InitAgree ==
  ASSUME Init
  PROVE  AgreeInv
  <1>1. \A id : Users(table, id) = {}
    BY DEF Init, Users, Positions
  <1> QED
    BY <1>1 DEF Init, AgreeInv, AgreeAt

\* The users of the calendars and the references of the files, at every step.
THEOREM References == Apart => (Spec => [](Typed /\ AgreeInv))
  <1>1. Init => Typed /\ AgreeInv
    BY TypedStep, InitAgree
  <1>2. Apart => (Typed /\ AgreeInv /\ [Next]_vars => (Typed /\ AgreeInv)')
    BY TypedStep, StepAgree
  <1> SUFFICES ASSUME Apart
               PROVE  Spec => [](Typed /\ AgreeInv)
    OBVIOUS
  <1>3. Typed /\ AgreeInv /\ [Next]_vars => (Typed /\ AgreeInv)'
    BY <1>2
  <1> QED
    BY <1>1, <1>3, PTL DEF Spec

\* An open calendar has as many references as clients have it open, at every
\* step of any sessions, their opens, closes, deletes and ends, and restores
\* (CAgnServFileMgr::OpenAgendaL and CAgnServFile::CloseAgenda with the entries
\* of CAgnSessionFileManager) -- as long as the search in a session's table cannot
\* miss an entry whose id a restore changes.
THEOREM ReferencesAgreed == Apart => (Spec => []ReferencesAgree)
  <1>1. AgreeInv => ReferencesAgree
    BY DEF AgreeInv, AgreeAt, ReferencesAgree, OpenNames, IsOpen
  <1> QED
    BY <1>1, References, PTL

\* Once sure to end the server, the undertaker finds no session, no delayed
\* close and no reference to a calendar (CAgnServer::ShutdownServer,
\* CAgnServUndertaker::RunL).
THEOREM ExitsWhenUnused == Apart => (Spec => []ExitOnlyWhenUnused)
  <1>1. Typed /\ AgreeInv => ExitOnlyWhenUnused
    <2> SUFFICES ASSUME Typed, AgreeInv
                 PROVE  ExitOnlyWhenUnused
      OBVIOUS
    <2>1. ASSUME Connected = {}, NEW n \in OpenNames
          PROVE  files[n].ref = 0
      <3>1. \A s \in Sessions : table[s] = <<>>
        BY <2>1 DEF Typed, TypeInv, TablesOK
      <3>2. Users(table, files[n].id) = {}
        BY <3>1 DEF Users, Positions
      <3>3. n \in FileNames /\ files[n] # Closed
        BY <2>1 DEF OpenNames, IsOpen
      <3>4. files[n].ref \in Nat /\ files[n].ref <= Cardinality(Users(table, files[n].id))
        BY <3>3, FileType DEF Typed, AgreeInv, AgreeAt
      <3>5. Cardinality(Users(table, files[n].id)) = 0
        BY <3>2, FS_EmptySet
      <3> QED
        BY <3>4, <3>5
    <2> QED
      BY <2>1 DEF ExitOnlyWhenUnused, Typed, CountInv, ExitOK
  <1> QED
    BY <1>1, References, PTL

-----------------------------------------------------------------------------
(* The order of the tables, and what the clients are told.                 *)

\* With one client a table has at most one entry.
KeptOrder == ~OneClient => OrderInv

LEMMA KeptSorted ==
  ASSUME TypeInv, KeptOrder, NEW s \in Sessions
  PROVE  Table(table[s]) /\ SortedById(table[s])
  <1>1. Table(table[s])
    BY DEF TypeInv, TablesOK
  <1> QED
    BY <1>1, OneClientSorted DEF KeptOrder, OrderInv, Orderly

LEMMA OrderedApart == Ordered => Apart
  BY DEF Ordered, Apart

LEMMA RestoreEndsOrder ==
  ASSUME StableIds, Typed, OrderInv, NEW bad \in SUBSET OpenNames, RestoreEnds(bad),
         NEW s \in Sessions
  PROVE  Orderly(table'[s])
  <1>1. Inv /\ TypeInv /\ Reached /\ \A n \in OpenNames : disk[n] # 0
    BY ApartReached DEF Typed, Apart, RestoreEnds
  <1>2. Table(table[s]) /\ Orderly(table[s]) /\ Passed(table[s], table'[s], KMaxTUint8, bad)
    BY <1>1, RestoreEndsOK DEF TypeInv, TablesOK, OrderInv
  <1>3. /\ Table(table'[s]) /\ Len(table'[s]) = Len(table[s])
        /\ \A i \in Positions(table[s]) :
             /\ table'[s][i].watch = table[s][i].watch
             /\ Renamed(table[s][i].id, table'[s][i].id, KMaxTUint8, bad)
    BY <1>1, <1>2 DEF Passed
  <1>4. SortedById(table'[s])
    BY <1>1, <1>2, <1>3, SortedStays DEF Orderly
  <1>5. Positions(table'[s]) = Positions(table[s])
    BY <1>3 DEF Positions
  <1> QED
    BY <1>2, <1>3, <1>4, <1>5 DEF Orderly

LEMMA StepOrder ==
  ASSUME Ordered, Typed, KeptOrder, [Next]_vars
  PROVE  KeptOrder'
  <1> SUFFICES ASSUME StableIds, Watchers = {}, OrderInv, NEW s \in Sessions
               PROVE  Orderly(table'[s])
    BY DEF Ordered, KeptOrder, OrderInv, Orderly, SortedById
  <1>1. Inv /\ CountInv /\ TypeInv /\ IsFiniteSet(Connected) /\ Orderly(table[s])
    BY DEF Typed, CountInv, OrderInv
  <1>2. FiniteUsers(table)
    BY <1>1, UsersFinite DEF TypeInv
  <1>3. CASE Ends
    BY <1>3, EndsEmpty, EmptyTable
  <1>4. CASE Quiet
    <2>1. table' = table
      BY <1>4 DEF Quiet, RequestFileNotification, CancelFileNotification
    <2> QED
      BY <1>1, <2>1
  <1>5. CASE Closes
    BY <1>1, <1>5 DEF Closes
  <1>6. ASSUME NEW u \in Sessions, NEW c \in Clients, NEW n \in FileNames, OpenAgenda(u, c, n)
        PROVE  Orderly(table'[s])
    BY <1>1, <1>2, <1>6, OpenAgendaAgree
  <1>7. ASSUME NEW bad \in SUBSET OpenNames, RestoreEnds(bad)
        PROVE  Orderly(table'[s])
    BY <1>7, RestoreEndsOrder
  <1>8. CASE \/ \E kind \in {"backup", "restore"} : BackupRestoreStarts(kind)
             \/ BackupEnds
    BY <1>1, <1>8, BackupRestoreStartsMild, BackupEndsMild
  <1> QED
    BY <1>1, <1>2, <1>3, <1>4, <1>5, <1>6, <1>7, <1>8, NextCases, SessionEndsCloses,
       ClosesOneCloses, DeleteCloses

\* An entry that names calendar n, when no restore has left it broken, names
\* what is open.
LEMMA EntryIsOpen ==
  ASSUME TypeInv, AgreeInv, NEW s \in Sessions, NEW i \in Positions(table[s]),
         NEW n \in FileNames, n \notin unopenable, table[s][i].id \in IdsOf[n]
  PROVE  n \in OpenNames /\ files[n].id = table[s][i].id
  <1> DEFINE id == table[s][i].id
             c == table[s][i].client
  <1>1. c \in Clients
    BY EntryType DEF TypeInv, TablesOK, SessionFile
  <1>2. <<s, c>> \in Users(table, id)
    BY <1>1 DEF Users
  <1>3. files[n] # Closed /\ files[n].id = id
    BY <1>2 DEF AgreeInv, AgreeAt
  <1> QED
    BY <1>3 DEF OpenNames, IsOpen

LEMMA BackupEndsTold ==
  ASSUME Inv, TypeInv, AgreeInv, KeptOrder, BackupEnds, NEW s \in Sessions,
         NEW id \in ToldIds(table'[s]), NEW n \in FileNames, id \in IdsOf[n]
  PROVE  n \in unopenable
  <1> SUFFICES ASSUME n \notin unopenable
               PROVE  FALSE
    OBVIOUS
  <1>1. PICK i \in Positions(table'[s]) : table'[s][i].told /\ id = table'[s][i].id
    BY DEF ToldIds
  <1>2. /\ i \in Positions(table[s]) /\ table[s][i].id = id
        /\ \A m \in OpenNames : i # FindL(table[s], files[m].id)
    BY <1>1, BackupEndsMild
  <1>3. n \in OpenNames /\ files[n].id = id
    BY <1>2, EntryIsOpen
  <1>4. FindL(table[s], id) = i
    BY <1>2, KeptSorted, FindComplete DEF Table
  <1> QED
    BY <1>2, <1>3, <1>4

LEMMA RestoreEndsTold ==
  ASSUME Reached, Inv, TypeInv, AgreeInv, KeptOrder, NEW bad \in SUBSET OpenNames,
         RestoreEnds(bad), NEW s \in Sessions,
         NEW id \in ToldIds(table'[s]), NEW n \in FileNames, id \in IdsOf[n]
  PROVE  n \in unopenable'
  <1>1. unopenable' = unopenable \cup bad /\ \A m \in OpenNames : disk[m] # 0
    BY DEF RestoreEnds
  <1> SUFFICES ASSUME n \notin unopenable, n \notin bad
               PROVE  FALSE
    BY <1>1
  <1> DEFINE t == table[s]
             d == table'[s]
  <1>2. PICK i \in Positions(d) : d[i].told /\ id = d[i].id
    BY DEF ToldIds
  <1>3. Table(t) /\ SortedById(t) /\ Passed(t, d, KMaxTUint8, bad)
    BY KeptSorted, RestoreEndsOK
  <1>4. i \in Positions(t)
    BY <1>3 DEF Passed, Positions
  <1>5. /\ Renamed(t[i].id, d[i].id, KMaxTUint8, bad)
        /\ \A m \in OpenNames \ bad :
             files[m].coll <= KMaxTUint8 /\ files[m].id = t[i].id => ~d[i].told
    BY <1>3, <1>4 DEF Passed
  <1>6. t[i].id \in IdsOf[n]
    BY <1>1, <1>2, <1>5, RenamedIs
  <1>7. n \in OpenNames /\ files[n].id = t[i].id
    BY <1>4, <1>6, EntryIsOpen
  <1>8. files[n].coll <= KMaxTUint8
    <2>1. files[n] # Closed
      BY <1>7 DEF OpenNames, IsOpen
    <2>2. files[n].coll \in 1..KMaxTUint8
      BY <2>1, FileType DEF IsFile
    <2> QED
      BY <2>2, CollectionAssumption
  <1> QED
    BY <1>2, <1>5, <1>7, <1>8

LEMMA StepTold ==
  ASSUME Ordered, Typed, AgreeInv, KeptOrder, ToldInv, [Next]_vars
  PROVE  ToldInv'
  <1> SUFFICES ASSUME ~iBackupRestoreInProgress', NEW s \in Sessions,
                      NEW id \in ToldIds(table'[s]), NEW n \in FileNames, id \in IdsOf[n]
               PROVE  n \in unopenable'
    BY DEF ToldInv, ToldIds, Positions
  <1>1. Inv /\ CountInv /\ TypeInv /\ IsFiniteSet(Connected) /\ Apart
    BY OrderedApart DEF Typed, CountInv
  <1>2. FiniteUsers(table)
    BY <1>1, UsersFinite DEF TypeInv
  <1>3. id # KNullFileId
    BY IdsApart DEF KNullFileId
  <1>4. CASE Ends
    <2>1. ToldIds(table'[s]) = {}
      BY <1>4, EndsEmpty, EmptyTable
    <2> QED
      BY <2>1
  <1>5. ASSUME UNCHANGED <<unopenable, iBackupRestoreInProgress>>,
               ToldIds(table'[s]) \subseteq ToldIds(table[s]) \cup {KNullFileId}
        PROVE  n \in unopenable'
    BY <1>3, <1>5 DEF ToldInv
  <1>6. CASE Quiet
    BY <1>5, <1>6 DEF Quiet, Mild
  <1>7. CASE Closes
    BY <1>5, <1>7 DEF Closes
  <1>8. ASSUME NEW u \in Sessions, NEW c \in Clients, NEW m \in FileNames, OpenAgenda(u, c, m)
        PROVE  n \in unopenable'
    BY <1>1, <1>2, <1>5, <1>8, OpenAgendaAgree
  <1>9. ASSUME NEW kind \in {"backup", "restore"}, BackupRestoreStarts(kind)
        PROVE  FALSE
    BY <1>9 DEF BackupRestoreStarts
  <1>10. CASE BackupEnds
    <2>1. unopenable' = unopenable
      BY <1>10 DEF BackupEnds
    <2> QED
      BY <1>1, <1>10, <2>1, BackupEndsTold
  <1>11. ASSUME NEW bad \in SUBSET OpenNames, RestoreEnds(bad)
         PROVE  n \in unopenable'
    <2>1. Reached
      BY <1>1, <1>11, ApartReached DEF RestoreEnds
    <2> QED
      BY <1>1, <1>11, <2>1, RestoreEndsTold
  <1> QED
    BY <1>1, <1>2, <1>4, <1>6, <1>7, <1>8, <1>9, <1>10, <1>11, NextCases, SessionEndsCloses,
       ClosesOneCloses, DeleteCloses

LEMMA InitTold ==
  ASSUME Init
  PROVE  KeptOrder /\ ToldInv
  BY EmptyTable DEF Init, KeptOrder, OrderInv, ToldInv

\* Everything, where the search always finds.
Whole == Typed /\ AgreeInv /\ KeptOrder /\ ToldInv

THEOREM Tables == Ordered => (Spec => []Whole)
  <1> SUFFICES ASSUME Ordered
               PROVE  Spec => []Whole
    OBVIOUS
  <1>1. Init => Whole
    BY TypedStep, InitAgree, InitTold DEF Whole
  <1>2. Whole /\ [Next]_vars => Whole'
    BY TypedStep, OrderedApart, StepAgree, StepOrder, StepTold DEF Whole
  <1> QED
    BY <1>1, <1>2, PTL DEF Spec

\* The search in a session's table finds the calendar of every entry at that
\* entry, after any opens, closes, deletes and restores
\* (CAgnSessionFileManager::FindL and AddClientL).
THEOREM LookupsFind == Ordered => (Spec => []LookupFindsEntry)
  <1>1. Whole => LookupFindsEntry
    BY KeptSorted, FindComplete DEF Whole, Typed, LookupFindsEntry, Table
  <1> QED
    BY <1>1, Tables, PTL

\* A client that was told of the start of a backup or restore has been told of
\* its end when it is over for the server, unless the restore left its calendar
\* broken (CAgnServFileMgr::BackupReStoreChanged, CAgnSessionFileManager::AddChangeL
\* and ReSetModel).
THEOREM EndsAreTold == Ordered => (Spec => []EndIsTold)
  <1>1. Whole => EndIsTold
    <2> SUFFICES ASSUME Whole, ~iBackupRestoreInProgress, NEW s \in Sessions,
                        NEW i \in Positions(table[s]), table[s][i].told,
                        NEW n \in NamesWith(table[s][i].id)
                 PROVE  n \in unopenable
      BY DEF EndIsTold
    <2>1. n \in FileNames /\ files[n] # Closed /\ files[n].id = table[s][i].id
      BY DEF NamesWith, OpenNames, IsOpen
    <2>2. table[s][i].id \in IdsOf[n]
      BY <2>1, FileType DEF Whole, Typed
    <2>3. table[s][i].id \in ToldIds(table[s])
      BY DEF ToldIds
    <2> QED
      BY <2>1, <2>2, <2>3 DEF Whole, ToldInv
  <1> QED
    BY <1>1, Tables, PTL
=============================================================================
