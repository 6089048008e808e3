-------------------------- MODULE AgnSessionFiles --------------------------
(***************************************************************************)
(* The table of session files of one server session                        *)
(* (CAgnSessionFileManager): a sequence with one entry per CCalSession of  *)
(* the client that has a calendar open, or watches the calendar files, in  *)
(* this server session.  Entries are looked up by client with a linear     *)
(* search and by file id with the binary search of RPointerArray.          *)
(***************************************************************************)
EXTENDS Integers, Sequences, SequencesExt

CONSTANTS Clients,  \* the CCalSession objects that may share a server session
          Ids       \* the file ids (TInt64)

ASSUME IdsAssumption == Ids \subseteq Nat \ {0}

KNullFileId == 0    \* of a client that only watches the calendar files

\* One CAgnSessionFile.  told: the last backup or restore event buffered for
\* the client was a start.
SessionFile == [client : Clients, id : Ids \cup {KNullFileId},
                watch : BOOLEAN, told : BOOLEAN]
NewSessionFile(c, id) == [client |-> c, id |-> id, watch |-> FALSE, told |-> FALSE]

Positions(t) == 1..Len(t)

\* Linear search: where client c is in table t, 0 for KErrNotFound.
GetSessionFile(t, c) ==
  IF \E i \in Positions(t) : t[i].client = c
  THEN CHOOSE i \in Positions(t) :
         t[i].client = c /\ \A j \in 1..(i - 1) : t[j].client # c
  ELSE 0

\* The binary search of RPointerArray on file ids: whether it meets the id,
\* and the place (0-based) where it stops.
BinarySearch(t, id) ==
  LET range == 0..Len(t)
      stop[i \in range \X range] ==
        LET l == i[1]
            r == i[2]
            m == (l + r) \div 2 IN
        IF l >= r               THEN [found |-> FALSE, at |-> r]
        ELSE IF id = t[m + 1].id THEN [found |-> TRUE, at |-> m]
        ELSE IF id > t[m + 1].id THEN stop[<<m + 1, r>>]
        ELSE stop[<<l, m>>]
  IN stop[<<0, Len(t)>>]

\* FindL: the position of a file id, 0 for KErrNotFound.
FindL(t, id) ==
  LET s == BinarySearch(t, id) IN IF s.found THEN s.at + 1 ELSE 0

\* AddClientL can refuse the new entry (KErrAlreadyExists of InsertInOrder).
CanAddClient(t, id) == ~BinarySearch(t, id).found
\* Faulty variant: appends.
AddClientAtEnd(t, c, id) == Append(t, NewSessionFile(c, id))
AddClient(t, c, id) ==
  InsertAt(t, BinarySearch(t, id).at + 1, NewSessionFile(c, id))

DeleteSessionFile(t, c) ==
  IF GetSessionFile(t, c) = 0 THEN t ELSE RemoveAt(t, GetSessionFile(t, c))

\* After the client deleted its own calendar: a watcher keeps its entry, whose
\* id is cleared where it stands.
DeleteUnlessWatching(t, c) ==
  LET i == GetSessionFile(t, c) IN
  IF i # 0 /\ t[i].watch THEN [t EXCEPT ![i].id = KNullFileId]
  ELSE DeleteSessionFile(t, c)

\* A request to watch the calendar files appends an entry when there is none.
Watch(t, c) ==
  LET i == GetSessionFile(t, c) IN
  IF i = 0 THEN Append(t, [NewSessionFile(c, KNullFileId) EXCEPT !.watch = TRUE])
  ELSE [t EXCEPT ![i].watch = TRUE]
Unwatch(t, c) ==
  LET i == GetSessionFile(t, c) IN
  IF i = 0 THEN t ELSE [t EXCEPT ![i].watch = FALSE]

\* AddChangeL of a backup or restore event: only the entry the search finds.
AddChange(t, id, start) ==
  LET i == FindL(t, id) IN IF i = 0 THEN t ELSE [t EXCEPT ![i].told = start]

\* Faulty variants: the id stays; the event is added before the id changes.
ReSetModelKeepsId(t, old, new) ==
  LET i == FindL(t, old) IN IF i = 0 THEN t ELSE AddChange(t, old, FALSE)
ReSetModelTooLate(t, old, new) ==
  LET i == FindL(t, old) IN
  IF i = 0 THEN t ELSE [AddChange(t, new, FALSE) EXCEPT ![i].id = new]
\* BackupReStoreChangedL at the end of a restore: the entry the search finds
\* takes the id of the restored calendar, where it stands.
ReSetModel(t, old, new) ==
  LET i == FindL(t, old) IN
  IF i = 0 THEN t ELSE AddChange([t EXCEPT ![i].id = new], new, FALSE)

\* The clients of table t that have the calendar with this id open.
ClientsOf(t, id) == {i \in Positions(t) : t[i].id = id}
=============================================================================
