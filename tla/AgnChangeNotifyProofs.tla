----------------------- MODULE AgnChangeNotifyProofs -----------------------
(***************************************************************************)
(* Inv is an inductive invariant of AgnChangeNotify, for every set of      *)
(* sessions and changes and every size of the buffers.                     *)
(***************************************************************************)
EXTENDS AgnChangeNotify, TLAPS

LEMMA InitInv ==
  ASSUME Init
  PROVE  Inv
  <1>a. /\ iBufferedNotificationsCount = 0 /\ iFileBufferedNotificationsCount = 0
        /\ signals = 0
    BY DEF Init
  <1>1. CountTypes
    BY <1>a, BufferAssumption DEF CountTypes
  <1>b. SetTypes
    BY DEF Init, SetTypes, Kinds
  <1>c. FlagTypes
    BY DEF Init, FlagTypes
  <1>2. FunctionTypes
    BY DEF Init, FunctionTypes
  <1>3. PendingOK
    BY DEF Init, PendingOK
  <1>4. MessageIffRequested /\ NoLostWakeup /\ FileChangesCovered /\ CancelReturns
    BY DEF Init, MessageIffRequested, NoLostWakeup, FileChangesCovered,
           CancelReturns, Requested, Kinds
  <1>5. EntryChangesCovered
    BY DEF Init, EntryChangesCovered, Kinds
  <1>6. DueOK
    BY DEF Init, DueOK, Kinds, Sessions
  <1> QED
    BY <1>1, <1>b, <1>c, <1>2, <1>3, <1>4, <1>5, <1>6 DEF Inv, TypeOK

-----------------------------------------------------------------------------
(* Changes of entries *)

\* What a call of AddChangeToBufferL leaves behind: told is the outcome of
\* ToNotifyL for the changes C, or an undefined change.
Added(C, undefined, told) ==
  /\ iBufferedNotification' \in SUBSET Changes /\ hasUndefined' \in BOOLEAN
  /\ iBufferedNotificationsCount' \in 0..MaxBuffered
  /\ iNotificationBufferFull' \in BOOLEAN
  /\ iChangeNotificationPending' \in {"NotRequested", "Requested", "Awaiting"}
  /\ iChangeNotificationMessage' \in BOOLEAN
  /\ iStatus' \in {iStatus, "entry", "corrupt"}
  /\ (signals' = signals /\ iStatus' = iStatus) \/ signals' = signals + 1
  /\ iNotificationBufferFull' => hasUndefined'
  /\ iChangeNotificationMessage' <=> iChangeNotificationPending' = "Requested"
  /\ iChangeNotificationPending' = "NotRequested"
       => iChangeNotificationPending = "NotRequested"
  /\ iChangeNotificationPending' = "Requested" =>
       /\ Requested
       /\ "entry" \in iChangeIterested => iBufferedNotification' = {} /\ ~hasUndefined'
  /\ iStatus' = "pending" => UNCHANGED answerVars
  /\ \A c \in iBufferedNotification : c \in iBufferedNotification' \/ hasUndefined'
  /\ hasUndefined => hasUndefined'
  /\ told => (C \subseteq iBufferedNotification' \/ hasUndefined')
  /\ told /\ undefined => hasUndefined'
  /\ iBufferedNotificationsCount' = 0 \/ iBufferedNotification' # {} \/ hasUndefined'

LEMMA AddChangeAdded ==
  ASSUME Inv, NEW C \in SUBSET Changes, NEW undefined \in BOOLEAN,
         NEW system \in BOOLEAN, NEW own \in BOOLEAN, NEW passes \in BOOLEAN,
         C # {} \/ undefined,
         AddChangeToBuffer(C, undefined, system, own, passes)
  PROVE  Added(C, undefined, ToNotify(system, own, passes))
  <1>0. /\ CountTypes /\ SetTypes /\ FlagTypes /\ PendingOK
        /\ MessageIffRequested /\ NoLostWakeup
    BY DEF Inv, TypeOK
  <1>1. iBufferedNotificationsCount' \in 0..MaxBuffered
    <2>1. \/ iBufferedNotificationsCount' = iBufferedNotificationsCount
          \/ iBufferedNotificationsCount' = 1
          \/ /\ RoomFor(iBufferedNotificationsCount)
             /\ iBufferedNotificationsCount' = iBufferedNotificationsCount + 1
      BY DEF AddChangeToBuffer, BufferChange, entryVars
    <2>2. iBufferedNotificationsCount \in 0..MaxBuffered
      BY <1>0 DEF CountTypes
    <2> QED
      BY <2>1, <2>2, BufferAssumption DEF RoomFor
  <1>2. /\ iBufferedNotification' \in SUBSET Changes
        /\ hasUndefined' \in BOOLEAN /\ iNotificationBufferFull' \in BOOLEAN
        /\ iNotificationBufferFull' => hasUndefined'
    <2>1. CASE UNCHANGED entryVars
      BY <2>1, <1>0 DEF SetTypes, FlagTypes, PendingOK, entryVars
    <2>2. CASE /\ iBufferedNotification' = iBufferedNotification \cup C
               /\ hasUndefined' = (hasUndefined \/ undefined)
               /\ ~iNotificationBufferFull /\ UNCHANGED iNotificationBufferFull
      BY <2>2, <1>0 DEF SetTypes, FlagTypes
    <2>3. CASE /\ iBufferedNotification' = {} /\ hasUndefined' = TRUE
               /\ iNotificationBufferFull' = TRUE
      BY <2>3
    <2> QED
      BY <2>1, <2>2, <2>3 DEF AddChangeToBuffer, BufferChange, entryVars
  <1>3. UNCHANGED answerVars \/ (Requested /\ Complete("entry"))
    BY DEF AddChangeToBuffer, BufferChange, CompleteIfRequested
  <1>4. /\ iChangeNotificationPending' \in {"NotRequested", "Requested", "Awaiting"}
        /\ iChangeNotificationMessage' \in BOOLEAN
        /\ iStatus' \in {iStatus, "entry", "corrupt"}
        /\ (signals' = signals /\ iStatus' = iStatus) \/ signals' = signals + 1
        /\ iChangeNotificationMessage' <=> iChangeNotificationPending' = "Requested"
        /\ iChangeNotificationPending' = "NotRequested"
             => iChangeNotificationPending = "NotRequested"
        /\ iChangeNotificationPending' = "Requested" => Requested
        /\ iStatus' = "pending" => UNCHANGED answerVars
    <2>1. CASE UNCHANGED answerVars
      BY <2>1, <1>0 DEF SetTypes, FlagTypes, MessageIffRequested, Requested,
             answerVars, pendingVars
    <2>2. CASE Requested /\ Complete("entry")
      BY <2>2, <1>0 DEF SetTypes, FlagTypes, Complete, Requested
    <2> QED
      BY <2>1, <2>2, <1>3
  <1>5. ASSUME iChangeNotificationPending' = "Requested", "entry" \in iChangeIterested
        PROVE  iBufferedNotification' = {} /\ ~hasUndefined'
    <2>1. Requested /\ UNCHANGED answerVars
      BY <1>3, <1>5 DEF Complete, Requested, answerVars, pendingVars
    <2>2. ~Buffered("entry")
      BY <1>0, <1>5, <2>1 DEF NoLostWakeup
    <2>3. CASE ToNotify(system, own, passes)
      <3>1. iBufferedNotificationsCount = 0 /\ ~iNotificationBufferFull
        BY <1>0, <2>2 DEF PendingOK, Buffered
      <3>2. RoomFor(iBufferedNotificationsCount)
        BY <3>1, BufferAssumption DEF RoomFor
      <3>3. Complete("entry")
        BY <3>1, <3>2, <2>1, <2>3 DEF AddChangeToBuffer, BufferChange,
               CompleteIfRequested
      <3> QED
        BY <3>3, <1>5 DEF Complete
    <2>4. CASE ~ToNotify(system, own, passes)
      BY <2>2, <2>4 DEF AddChangeToBuffer, Buffered, entryVars
    <2> QED
      BY <2>3, <2>4
  <1>6. /\ \A c \in iBufferedNotification : c \in iBufferedNotification' \/ hasUndefined'
        /\ hasUndefined => hasUndefined'
    <2>1. CASE UNCHANGED entryVars
      BY <2>1 DEF entryVars
    <2>2. CASE /\ iBufferedNotification' = iBufferedNotification \cup C
               /\ hasUndefined' = (hasUndefined \/ undefined)
      BY <2>2, <1>0 DEF FlagTypes
    <2>3. CASE hasUndefined' = TRUE
      BY <2>3
    <2> QED
      BY <2>1, <2>2, <2>3 DEF AddChangeToBuffer, BufferChange
  <1>7. ToNotify(system, own, passes) =>
           /\ C \subseteq iBufferedNotification' \/ hasUndefined'
           /\ undefined => hasUndefined'
    BY <1>0 DEF PendingOK, AddChangeToBuffer, BufferChange, entryVars
  <1>8. iBufferedNotificationsCount' = 0 \/ iBufferedNotification' # {} \/ hasUndefined'
    BY <1>0 DEF PendingOK, Buffered, AddChangeToBuffer, BufferChange, entryVars
  <1> QED
    BY <1>1, <1>2, <1>4, <1>5, <1>6, <1>7, <1>8 DEF Added

LEMMA NothingAdded ==
  ASSUME Inv, UNCHANGED entryVars,
         UNCHANGED answerVars \/ (Requested /\ Complete("corrupt"))
  PROVE  Added({}, FALSE, FALSE)
  <1>0. /\ CountTypes /\ SetTypes /\ FlagTypes /\ PendingOK
        /\ MessageIffRequested /\ NoLostWakeup
    BY DEF Inv, TypeOK
  <1>1. iBufferedNotificationsCount' \in 0..MaxBuffered
    BY <1>0 DEF CountTypes, entryVars
  <1>2. /\ iBufferedNotification' \in SUBSET Changes
        /\ hasUndefined' \in BOOLEAN /\ iNotificationBufferFull' \in BOOLEAN
        /\ iNotificationBufferFull' => hasUndefined'
        /\ \A c \in iBufferedNotification : c \in iBufferedNotification' \/ hasUndefined'
        /\ hasUndefined => hasUndefined'
        /\ iBufferedNotificationsCount' = 0 \/ iBufferedNotification' # {} \/ hasUndefined'
    BY <1>0 DEF SetTypes, FlagTypes, PendingOK, Buffered, entryVars
  <1>3. /\ iChangeNotificationPending' \in {"NotRequested", "Requested", "Awaiting"}
        /\ iChangeNotificationMessage' \in BOOLEAN
        /\ iStatus' \in {iStatus, "entry", "corrupt"}
        /\ (signals' = signals /\ iStatus' = iStatus) \/ signals' = signals + 1
        /\ iChangeNotificationMessage' <=> iChangeNotificationPending' = "Requested"
        /\ iChangeNotificationPending' = "NotRequested"
             => iChangeNotificationPending = "NotRequested"
        /\ iChangeNotificationPending' = "Requested" => Requested
        /\ iStatus' = "pending" => UNCHANGED answerVars
    <2>1. CASE UNCHANGED answerVars
      BY <2>1, <1>0 DEF SetTypes, FlagTypes, MessageIffRequested, Requested,
             answerVars, pendingVars
    <2>2. CASE Requested /\ Complete("corrupt")
      BY <2>2, <1>0 DEF SetTypes, FlagTypes, Complete, Requested
    <2> QED
      BY <2>1, <2>2
  <1>4. ASSUME iChangeNotificationPending' = "Requested", "entry" \in iChangeIterested
        PROVE  iBufferedNotification' = {} /\ ~hasUndefined'
    <2>1. Requested
      BY <1>3, <1>4
    <2>2. ~Buffered("entry")
      BY <1>0, <1>4, <2>1 DEF NoLostWakeup
    <2> QED
      BY <2>2 DEF Buffered, entryVars
  <1> QED
    BY <1>1, <1>2, <1>3, <1>4 DEF Added

\* The parts of Inv such a step cannot disturb, whatever is due afterwards.
LEMMA EntryStep ==
  ASSUME Inv, NEW C, NEW undefined, NEW told, Added(C, undefined, told),
         UNCHANGED <<fileVars, reporter, iChangeIterested>>,
         due'["file"] = due["file"], locked' \in BOOLEAN
  PROVE  /\ CountTypes' /\ SetTypes' /\ FlagTypes' /\ PendingOK'
         /\ MessageIffRequested' /\ NoLostWakeup'
         /\ FileChangesCovered' /\ CancelReturns'
  <1>0. /\ CountTypes /\ SetTypes /\ FlagTypes /\ PendingOK /\ MessageIffRequested
        /\ NoLostWakeup /\ FileChangesCovered /\ CancelReturns
    BY DEF Inv, TypeOK
  <1>1. CountTypes'
    <2>1. signals' = signals \/ signals' = signals + 1
      BY DEF Added
    <2>2. iBufferedNotificationsCount' \in 0..MaxBuffered
      BY DEF Added
    <2> QED
      BY <1>0, <2>1, <2>2 DEF CountTypes, fileVars
  <1>2. SetTypes'
    <2>1. /\ iChangeNotificationPending' \in {"NotRequested", "Requested", "Awaiting"}
          /\ iBufferedNotification' \in SUBSET Changes
          /\ iStatus' \in {iStatus, "entry", "corrupt"}
      BY DEF Added
    <2>2. UNCHANGED <<iFileBufferedNotification, interested, wanted, sent, thread,
                      iChangeIterested>>
      BY DEF fileVars, reporter
    <2> QED
      BY <1>0, <2>1, <2>2 DEF SetTypes, Kinds
  <1>3. FlagTypes'
    BY <1>0 DEF Added, FlagTypes, fileVars, reporter
  <1>4. PendingOK'
    <2>1. /\ iChangeNotificationPending' = "NotRequested" => iChangeIterested' = {}
          /\ iNotificationBufferFull' => hasUndefined'
          /\ iBufferedNotificationsCount' = 0 \/ Buffered("entry")'
          /\ thread' = "ended" => ~isActive'
      BY <1>0 DEF Added, PendingOK, Buffered, reporter
    <2>2. isActive' /\ iStatus' # "pending" => signals' > 0
      <3>1. signals \in Nat /\ (isActive /\ iStatus # "pending" => signals > 0)
        BY <1>0 DEF CountTypes, PendingOK
      <3>2. isActive' = isActive
        BY DEF reporter
      <3>3. (signals' = signals /\ iStatus' = iStatus) \/ signals' = signals + 1
        BY DEF Added
      <3> QED
        BY <3>1, <3>2, <3>3
    <2>3. /\ iChangeIterested' \subseteq interested'
          /\ \A i \in 1..Len(sent') :
               /\ iChangeIterested' \subseteq sent'[i] /\ sent'[i] \subseteq interested'
               /\ \A j \in i..Len(sent') : sent'[i] \subseteq sent'[j]
      BY <1>0 DEF PendingOK, reporter
    <2> QED
      BY <2>1, <2>2, <2>3 DEF PendingOK
  <1>5. MessageIffRequested'
    BY DEF Added, MessageIffRequested, Requested
  <1>6. NoLostWakeup'
    <2>1. SUFFICES ASSUME iChangeNotificationPending' = "Requested", NEW k \in iChangeIterested
                   PROVE  ~Buffered(k)'
      BY DEF NoLostWakeup, Requested
    <2>2. Requested /\ k \in Kinds
      BY <1>0, <2>1 DEF Added, SetTypes
    <2>3. CASE k = "entry"
      BY <2>1, <2>3 DEF Added, Buffered
    <2>4. CASE k # "entry"
      BY <1>0, <2>2, <2>4 DEF NoLostWakeup, Buffered, fileVars
    <2> QED
      BY <2>3, <2>4
  <1>7. FileChangesCovered'
    BY <1>0 DEF FileChangesCovered, fileVars
  <1>8. CancelReturns'
    BY <1>0 DEF Added, CancelReturns, Runs, reporter, answerVars, pendingVars
  <1> QED
    BY <1>1, <1>2, <1>3, <1>4, <1>5, <1>6, <1>7, <1>8

\* What is due afterwards is covered if what becomes due is.
LEMMA CoveredStep ==
  ASSUME Inv, NEW C, NEW undefined, NEW told, Added(C, undefined, told),
         \A d \in due'["entry"] \ due["entry"] :
            hasUndefined' \/ d \in iBufferedNotification' \/ \E s \in Sessions : d \in hidden'[s],
         hasUndefined' \/ \A s \in Sessions : hidden[s] \cap due'["entry"] \subseteq hidden'[s],
         \A s \in Sessions :
            hidden'[s] # {} => ~iChangeBroadcastEnabled'[s] /\ iChangeMadeWhileDisabled'[s]
  PROVE  EntryChangesCovered'
  <1>1. ASSUME NEW d \in due'["entry"]
        PROVE  \/ hasUndefined' \/ d \in iBufferedNotification'
               \/ \E s \in Sessions : d \in hidden'[s]
    <2>1. CASE d \in due["entry"]
      BY <2>1 DEF Inv, EntryChangesCovered, Added
    <2>2. CASE d \notin due["entry"]
      BY <2>2
    <2> QED
      BY <2>1, <2>2
  <1> QED
    BY <1>1 DEF EntryChangesCovered

LEMMA SystemChangeInv ==
  ASSUME Inv, NEW c \in Changes, NEW l \in BOOLEAN, SystemChange(c, l)
  PROVE  Inv'
  <1>0. FunctionTypes /\ EntryChangesCovered /\ PendingOK /\ DueOK
    BY DEF Inv, TypeOK
  <1>1. Added({c}, FALSE, ToNotify(TRUE, TRUE, TRUE))
    BY AddChangeAdded DEF SystemChange
  <1>a. due' = IF "entry" \in iChangeIterested
               THEN [due EXCEPT !["entry"] = @ \cup {c}] ELSE due
    BY DEF SystemChange, Due
  <1>b. /\ UNCHANGED <<filterVars, hidden, fileVars, reporter, iChangeIterested>>
        /\ locked' = l
    BY DEF SystemChange
  <1>c. due'["file"] = due["file"] /\ due' \in [Kinds -> SUBSET Changes]
    BY <1>0, <1>a DEF FunctionTypes, Kinds
  <1>2. /\ CountTypes' /\ SetTypes' /\ FlagTypes' /\ PendingOK'
        /\ MessageIffRequested' /\ NoLostWakeup'
        /\ FileChangesCovered' /\ CancelReturns'
    BY <1>1, <1>b, <1>c, EntryStep
  <1>3. FunctionTypes'
    BY <1>0, <1>b, <1>c DEF FunctionTypes, filterVars
  <1>4. EntryChangesCovered'
    <2>1. ASSUME NEW d \in due'["entry"] \ due["entry"]
          PROVE  hasUndefined' \/ d \in iBufferedNotification'
      <3>1. d = c /\ "entry" \in iChangeIterested
        BY <2>1, <1>0, <1>a DEF FunctionTypes, Kinds
      <3>2. ToNotify(TRUE, TRUE, TRUE)
        BY <3>1, <1>0 DEF ToNotify, PendingOK
      <3> QED
        BY <3>1, <3>2, <1>1 DEF Added
    <2>2. \A s \in Sessions :
             hidden'[s] # {} => ~iChangeBroadcastEnabled'[s] /\ iChangeMadeWhileDisabled'[s]
      BY <1>0, <1>b DEF EntryChangesCovered, filterVars
    <2>3. hidden' = hidden
      BY <1>b
    <2> QED
      BY <2>1, <2>2, <2>3, <1>1, CoveredStep
  <1>5. DueOK'
    BY <1>0, <1>a, <1>b DEF DueOK
  <1> QED
    BY <1>2, <1>3, <1>4, <1>5 DEF Inv, TypeOK

LEMMA RestoredInv ==
  ASSUME Inv, NEW c \in Changes, RestoredFileCanNotBeOpened(c)
  PROVE  Inv'
  <1>0. FunctionTypes /\ EntryChangesCovered /\ DueOK
    BY DEF Inv, TypeOK
  <1>1. \E C \in SUBSET Changes, told \in BOOLEAN : Added(C, FALSE, told)
    <2>1. CASE Requested
      BY <2>1, NothingAdded DEF RestoredFileCanNotBeOpened
    <2>2. CASE ~Requested
      <3>1. PICK passes \in BOOLEAN : AddChangeToBuffer({c}, FALSE, FALSE, FALSE, passes)
        BY <2>2 DEF RestoredFileCanNotBeOpened
      <3>2. Added({c}, FALSE, ToNotify(FALSE, FALSE, passes))
        BY <3>1, AddChangeAdded
      <3>3. ToNotify(FALSE, FALSE, passes) \in BOOLEAN
        BY DEF ToNotify
      <3> QED
        BY <3>2, <3>3
    <2> QED
      BY <2>1, <2>2
  <1>a. PICK C \in SUBSET Changes, told \in BOOLEAN : Added(C, FALSE, told)
    BY <1>1
  <1>b. /\ UNCHANGED <<filterVars, hidden, fileVars, reporter, iChangeIterested, due>>
        /\ locked' \in BOOLEAN
    BY DEF RestoredFileCanNotBeOpened
  <1>2. /\ CountTypes' /\ SetTypes' /\ FlagTypes' /\ PendingOK'
        /\ MessageIffRequested' /\ NoLostWakeup'
        /\ FileChangesCovered' /\ CancelReturns'
    BY <1>a, <1>b, EntryStep
  <1>3. FunctionTypes'
    BY <1>0, <1>b DEF FunctionTypes, filterVars
  <1>4. EntryChangesCovered'
    <2>1. \A s \in Sessions :
             hidden'[s] # {} => ~iChangeBroadcastEnabled'[s] /\ iChangeMadeWhileDisabled'[s]
      BY <1>0, <1>b DEF EntryChangesCovered, filterVars
    <2>2. hidden' = hidden /\ due' = due
      BY <1>b
    <2> QED
      BY <2>1, <2>2, <1>a, CoveredStep
  <1>5. DueOK'
    BY <1>0, <1>b DEF DueOK
  <1> QED
    BY <1>2, <1>3, <1>4, <1>5 DEF Inv, TypeOK

\* A change of an entry by session s, broadcast or held back; AddChange is told
\* of the changes C or of an undefined change (ChangeEntry, BulkChangeCompleted).
LEMMA ChangeInv ==
  ASSUME Inv, NEW s \in Sessions, NEW c \in Changes,
         NEW C \in SUBSET Changes, NEW undefined \in BOOLEAN, NEW passes \in BOOLEAN,
         undefined \/ c \in C, Unused(c), Due(c, "entry", s # Watcher /\ passes),
         \/ /\ iChangeBroadcastEnabled[s]
            /\ AddChangeToBuffer(C, undefined, FALSE, s = Watcher, passes)
            /\ UNCHANGED hidden
            /\ iChangeMadeWhileDisabled' \in
                 {iChangeMadeWhileDisabled, [iChangeMadeWhileDisabled EXCEPT ![s] = FALSE]}
         \/ /\ ~iChangeBroadcastEnabled[s]
            /\ iChangeMadeWhileDisabled' = [iChangeMadeWhileDisabled EXCEPT ![s] = TRUE]
            /\ hidden' = [hidden EXCEPT ![s] = @ \cup (due'["entry"] \cap {c})]
            /\ UNCHANGED <<entryVars, answerVars>>,
         UNCHANGED <<fileVars, reporter, iChangeBroadcastEnabled, iChangeIterested, locked>>
  PROVE  Inv'
  <1>0. FlagTypes /\ FunctionTypes /\ EntryChangesCovered /\ PendingOK /\ DueOK
    BY DEF Inv, TypeOK
  <1>a. due' = IF (s # Watcher /\ passes) /\ "entry" \in iChangeIterested
               THEN [due EXCEPT !["entry"] = @ \cup {c}] ELSE due
    BY DEF Due
  <1>b. due'["file"] = due["file"] /\ due' \in [Kinds -> SUBSET Changes]
    BY <1>0, <1>a DEF FunctionTypes, Kinds
  <1>c. /\ locked' \in BOOLEAN
        /\ UNCHANGED <<fileVars, reporter, iChangeIterested, iChangeBroadcastEnabled>>
    BY <1>0 DEF FlagTypes
  <1>d. /\ iChangeMadeWhileDisabled' \in [Sessions -> BOOLEAN]
        /\ hidden' \in [Sessions -> SUBSET Changes]
    BY <1>0, <1>b DEF FunctionTypes, Kinds
  <1>e. \A d \in due'["entry"] \ due["entry"] :
           d = c /\ s # Watcher /\ passes /\ "entry" \in iChangeIterested
    BY <1>0, <1>a DEF FunctionTypes, Kinds
  <1>3. FunctionTypes'
    BY <1>0, <1>b, <1>c, <1>d DEF FunctionTypes
  <1>4. DueOK'
    <2>1. "entry" \notin iChangeIterested' => due'["entry"] = {}
      BY <1>0, <1>a, <1>c DEF DueOK
    <2>2. hidden'[Watcher] = {}
      <3>1. CASE s = Watcher
        <4>1. due' = due /\ c \notin due["entry"]
          BY <3>1, <1>a DEF Unused, Kinds
        <4>2. hidden' \in {hidden, [hidden EXCEPT ![s] = @ \cup (due'["entry"] \cap {c})]}
          OBVIOUS
        <4>3. due'["entry"] \cap {c} = {}
          BY <4>1
        <4>4. hidden[Watcher] = {} /\ hidden \in [Sessions -> SUBSET Changes]
          BY <1>0 DEF DueOK, FunctionTypes
        <4> QED
          BY <3>1, <4>2, <4>3, <4>4
      <3>2. CASE s # Watcher
        BY <3>2, <1>0 DEF DueOK, FunctionTypes, Sessions
      <3> QED
        BY <3>1, <3>2
    <2> QED
      BY <2>1, <2>2 DEF DueOK
  <1>5. CASE iChangeBroadcastEnabled[s]
    <2>0. /\ AddChangeToBuffer(C, undefined, FALSE, s = Watcher, passes)
          /\ UNCHANGED hidden
          /\ iChangeMadeWhileDisabled' \in
               {iChangeMadeWhileDisabled, [iChangeMadeWhileDisabled EXCEPT ![s] = FALSE]}
      BY <1>5
    <2>1. Added(C, undefined, ToNotify(FALSE, s = Watcher, passes))
      BY <2>0, AddChangeAdded
    <2>2. /\ CountTypes' /\ SetTypes' /\ FlagTypes' /\ PendingOK'
          /\ MessageIffRequested' /\ NoLostWakeup'
          /\ FileChangesCovered' /\ CancelReturns'
      BY <2>1, <1>b, <1>c, EntryStep
    <2>3. ASSUME NEW d \in due'["entry"] \ due["entry"]
          PROVE  hasUndefined' \/ d \in iBufferedNotification'
      <3>1. d = c /\ s # Watcher /\ passes /\ "entry" \in iChangeIterested
        BY <1>e
      <3>2. ToNotify(FALSE, s = Watcher, passes)
        BY <3>1, <1>0 DEF ToNotify, PendingOK
      <3>3. hasUndefined' \/ C \subseteq iBufferedNotification'
        BY <2>1, <3>2 DEF Added
      <3>4. undefined => hasUndefined'
        BY <2>1, <3>2 DEF Added
      <3> QED
        BY <3>1, <3>3, <3>4
    <2>4. ASSUME NEW t \in Sessions, hidden'[t] # {}
          PROVE  ~iChangeBroadcastEnabled'[t] /\ iChangeMadeWhileDisabled'[t]
      <3>1. ~iChangeBroadcastEnabled[t] /\ iChangeMadeWhileDisabled[t]
        BY <2>4, <2>0, <1>0 DEF EntryChangesCovered
      <3>2. t # s
        BY <3>1, <1>5
      <3> QED
        BY <3>1, <3>2, <2>0, <1>0, <1>c DEF FunctionTypes
    <2>5. EntryChangesCovered'
      BY <2>0, <2>1, <2>3, <2>4, CoveredStep
    <2> QED
      BY <2>2, <2>5, <1>3, <1>4 DEF Inv, TypeOK
  <1>6. CASE ~iChangeBroadcastEnabled[s]
    <2>0. /\ iChangeMadeWhileDisabled' = [iChangeMadeWhileDisabled EXCEPT ![s] = TRUE]
          /\ hidden' = [hidden EXCEPT ![s] = @ \cup (due'["entry"] \cap {c})]
          /\ UNCHANGED <<entryVars, answerVars>>
      BY <1>6
    <2>1. Added({}, FALSE, FALSE)
      BY <2>0, NothingAdded
    <2>2. /\ CountTypes' /\ SetTypes' /\ FlagTypes' /\ PendingOK'
          /\ MessageIffRequested' /\ NoLostWakeup'
          /\ FileChangesCovered' /\ CancelReturns'
      BY <2>1, <1>b, <1>c, EntryStep
    <2>3. \A d \in due'["entry"] \ due["entry"] : d \in hidden'[s]
      BY <2>0, <1>e, <1>0 DEF FunctionTypes
    <2>4. ASSUME NEW t \in Sessions, hidden'[t] # {}
          PROVE  ~iChangeBroadcastEnabled'[t] /\ iChangeMadeWhileDisabled'[t]
      <3>1. CASE t = s
        BY <3>1, <2>0, <1>6, <1>0, <1>c DEF FunctionTypes
      <3>2. CASE t # s
        BY <3>2, <2>0, <2>4, <1>0, <1>c DEF FunctionTypes, EntryChangesCovered
      <3> QED
        BY <3>1, <3>2
    <2>5. \A t \in Sessions : hidden[t] \subseteq hidden'[t]
      BY <2>0, <1>0 DEF FunctionTypes
    <2>6. EntryChangesCovered'
      BY <2>1, <2>3, <2>4, <2>5, CoveredStep
    <2> QED
      BY <2>2, <2>6, <1>3, <1>4 DEF Inv, TypeOK
  <1> QED
    BY <1>5, <1>6

LEMMA ChangeEntryInv ==
  ASSUME Inv, NEW s \in Sessions, NEW c \in Changes, NEW passes \in BOOLEAN,
         ChangeEntry(s, c, passes)
  PROVE  Inv'
  <1>1. {c} \in SUBSET Changes /\ FALSE \in BOOLEAN /\ c \in {c}
    OBVIOUS
  <1> QED
    BY <1>1, ChangeInv DEF ChangeEntry, NotifyChange

LEMMA BulkChangeInv ==
  ASSUME Inv, NEW s \in Sessions, NEW c \in Changes, BulkChangeCompleted(s, c)
  PROVE  Inv'
  <1>1. {} \in SUBSET Changes /\ TRUE \in BOOLEAN
    OBVIOUS
  <1>2. Due(c, "entry", s # Watcher /\ TRUE)
    BY DEF BulkChangeCompleted, NotifyChange, Due
  <1> QED
    BY <1>1, <1>2, ChangeInv DEF BulkChangeCompleted, NotifyChange

LEMMA EnableInv ==
  ASSUME Inv, NEW s \in Sessions, EnableChangeBroadcast(s)
  PROVE  Inv'
  <1>0. /\ FlagTypes /\ FunctionTypes /\ EntryChangesCovered /\ PendingOK /\ DueOK
        /\ SetTypes
    BY DEF Inv, TypeOK
  <1>a. /\ iChangeBroadcastEnabled' = [iChangeBroadcastEnabled EXCEPT ![s] = TRUE]
        /\ hidden' = [hidden EXCEPT ![s] = {}]
        /\ UNCHANGED <<fileVars, reporter, due, iChangeIterested, locked>>
    BY DEF EnableChangeBroadcast, NotifyChange
  <1>b. due'["file"] = due["file"] /\ locked' \in BOOLEAN
    BY <1>0, <1>a DEF FlagTypes
  <1>c. /\ iChangeMadeWhileDisabled' \in {iChangeMadeWhileDisabled,
             [iChangeMadeWhileDisabled EXCEPT ![s] = FALSE]}
        /\ ~iChangeMadeWhileDisabled[s] =>
             UNCHANGED <<entryVars, answerVars, iChangeMadeWhileDisabled>>
    BY DEF EnableChangeBroadcast, NotifyChange
  <1>1. \E C \in SUBSET Changes, undefined \in BOOLEAN, told \in BOOLEAN :
           /\ Added(C, undefined, told)
           /\ hasUndefined' \/ hidden[s] \cap due["entry"] = {}
    <2>1. CASE iChangeMadeWhileDisabled[s]
      <3>1. AddChangeToBuffer({}, TRUE, FALSE, s = Watcher, TRUE)
        BY <2>1 DEF EnableChangeBroadcast, NotifyChange
      <3>2. Added({}, TRUE, ToNotify(FALSE, s = Watcher, TRUE))
        BY <3>1, AddChangeAdded
      <3>3. ToNotify(FALSE, s = Watcher, TRUE) => hasUndefined'
        BY <3>2 DEF Added
      <3>4. ~ToNotify(FALSE, s = Watcher, TRUE) => hidden[s] \cap due["entry"] = {}
        BY <1>0 DEF ToNotify, DueOK, PendingOK
      <3>5. ToNotify(FALSE, s = Watcher, TRUE) \in BOOLEAN
        BY DEF ToNotify
      <3> QED
        BY <3>2, <3>3, <3>4, <3>5
    <2>2. CASE ~iChangeMadeWhileDisabled[s]
      <3>1. Added({}, FALSE, FALSE)
        BY <2>2, <1>c, NothingAdded
      <3>2. hidden[s] = {}
        BY <2>2, <1>0 DEF EntryChangesCovered
      <3> QED
        BY <3>1, <3>2
    <2> QED
      BY <2>1, <2>2
  <1>d. PICK C \in SUBSET Changes, undefined \in BOOLEAN, told \in BOOLEAN :
           /\ Added(C, undefined, told)
           /\ hasUndefined' \/ hidden[s] \cap due["entry"] = {}
    BY <1>1
  <1>2. /\ CountTypes' /\ SetTypes' /\ FlagTypes' /\ PendingOK'
        /\ MessageIffRequested' /\ NoLostWakeup'
        /\ FileChangesCovered' /\ CancelReturns'
    BY <1>a, <1>b, <1>d, EntryStep
  <1>3. FunctionTypes'
    BY <1>0, <1>a, <1>c DEF FunctionTypes
  <1>4. EntryChangesCovered'
    <2>1. ASSUME NEW t \in Sessions, hidden'[t] # {}
          PROVE  ~iChangeBroadcastEnabled'[t] /\ iChangeMadeWhileDisabled'[t]
      <3>1. t # s /\ hidden[t] # {}
        BY <2>1, <1>0, <1>a DEF FunctionTypes
      <3>2. ~iChangeBroadcastEnabled[t] /\ iChangeMadeWhileDisabled[t]
        BY <3>1, <1>0 DEF EntryChangesCovered
      <3> QED
        BY <3>1, <3>2, <1>0, <1>a, <1>c DEF FunctionTypes
    <2>2. hasUndefined' \/ \A t \in Sessions : hidden[t] \cap due'["entry"] \subseteq hidden'[t]
      BY <1>0, <1>a, <1>d DEF FunctionTypes
    <2>3. due' = due
      BY <1>a
    <2> QED
      BY <2>1, <2>2, <2>3, <1>d, CoveredStep
  <1>5. DueOK'
    BY <1>0, <1>a DEF DueOK, FunctionTypes, Sessions
  <1> QED
    BY <1>2, <1>3, <1>4, <1>5 DEF Inv, TypeOK

-----------------------------------------------------------------------------
(* The other actions *)

LEMMA ServiceRequestInv ==
  ASSUME Inv, ServiceRequest
  PROVE  Inv'
  <1>0. /\ CountTypes /\ SetTypes /\ FlagTypes /\ FunctionTypes /\ PendingOK
        /\ MessageIffRequested /\ NoLostWakeup /\ EntryChangesCovered
        /\ FileChangesCovered /\ CancelReturns /\ DueOK
    BY DEF Inv, TypeOK
  <1>a. /\ Head(sent) \in SUBSET Kinds /\ Tail(sent) \in Seq(SUBSET Kinds)
        /\ Head(sent) = sent[1] /\ Len(sent) >= 1 /\ Len(Tail(sent)) = Len(sent) - 1
        /\ \A i \in 1..Len(Tail(sent)) : Tail(sent)[i] = sent[i + 1] /\ i + 1 \in 1..Len(sent)
    BY <1>0 DEF ServiceRequest, SetTypes
  <1>e. /\ iChangeIterested \subseteq Head(sent)
        /\ \A i \in 1..Len(Tail(sent)) :
             /\ Head(sent) \subseteq Tail(sent)[i] /\ Tail(sent)[i] \subseteq interested
             /\ \A j \in i..Len(Tail(sent)) : Tail(sent)[i] \subseteq Tail(sent)[j]
    <2>1. \A i \in 1..Len(sent) :
            /\ iChangeIterested \subseteq sent[i] /\ sent[i] \subseteq interested
            /\ \A j \in i..Len(sent) : sent[i] \subseteq sent[j]
      BY <1>0 DEF PendingOK
    <2>2. Len(sent) \in Nat
      BY <1>0 DEF SetTypes
    <2>3. \A i \in 1..Len(Tail(sent)), j \in 1..Len(Tail(sent)) :
             i <= j => i + 1 \in 1..Len(sent) /\ j + 1 \in (i + 1)..Len(sent)
      BY <1>a, <2>2
    <2>4. 1 \in 1..Len(sent) /\ \A i \in 1..Len(Tail(sent)) : i + 1 \in 1..Len(sent)
      BY <1>a, <2>2
    <2>5. iChangeIterested \subseteq Head(sent)
      BY <2>1, <2>4, <1>a
    <2>6. ASSUME NEW i \in 1..Len(Tail(sent))
          PROVE  /\ Head(sent) \subseteq Tail(sent)[i] /\ Tail(sent)[i] \subseteq interested
                 /\ \A j \in i..Len(Tail(sent)) : Tail(sent)[i] \subseteq Tail(sent)[j]
      <3>1. i + 1 \in 1..Len(sent) /\ Tail(sent)[i] = sent[i + 1]
        BY <2>4, <1>a
      <3>2. Tail(sent)[i] \subseteq interested
        BY <3>1, <2>1
      <3>3. Head(sent) \subseteq Tail(sent)[i]
        BY <3>1, <2>1, <2>4, <1>a
      <3>4. ASSUME NEW j \in i..Len(Tail(sent))
            PROVE  Tail(sent)[i] \subseteq Tail(sent)[j]
        <4>1. j \in 1..Len(Tail(sent)) /\ i <= j
          BY <1>a, <2>2
        <4>2. j + 1 \in (i + 1)..Len(sent) /\ Tail(sent)[j] = sent[j + 1]
          BY <4>1, <2>3, <1>a
        <4> QED
          BY <3>1, <4>2, <2>1
      <3> QED
        BY <3>2, <3>3, <3>4
    <2> QED
      BY <2>5, <2>6
  <1>b. /\ iChangeIterested' = iChangeIterested \cup Head(sent)
        /\ sent' = Tail(sent) /\ UNCHANGED <<interested, isActive, thread>>
    BY DEF ServiceRequest, RequestChangeNotification
  <1>c. \/ /\ iChangeNotificationMessage' /\ iChangeNotificationPending' = "Requested"
           /\ UNCHANGED <<iStatus, signals>>
           /\ \A k \in Head(sent) : ~Buffered(k)
        \/ /\ ~iChangeNotificationMessage' /\ iChangeNotificationPending' = "Awaiting"
           /\ iStatus' \in Kinds /\ signals' = signals + 1
    <2>1. CASE \E k \in Answers(Head(sent)) : Complete(k)
      BY <2>1, <1>a DEF Answers, Complete, Kinds
    <2>2. CASE ~ \E k \in Answers(Head(sent)) : Complete(k)
      BY <2>2, <1>a DEF ServiceRequest, RequestChangeNotification, Answers,
             Kinds
    <2> QED
      BY <2>1, <2>2
  <1>d. UNCHANGED entryVars /\ UNCHANGED fileVars
    BY DEF ServiceRequest
  <1>1. CountTypes'
    BY <1>0 DEF CountTypes, ServiceRequest, RequestChangeNotification, Complete,
           entryVars, fileVars
  <1>2. SetTypes'
    BY <1>0, <1>a, <1>b, <1>c, <1>d DEF SetTypes, ServiceRequest, entryVars,
           fileVars
  <1>3. FlagTypes'
    BY <1>0 DEF FlagTypes, ServiceRequest, RequestChangeNotification, Complete,
           entryVars, fileVars
  <1>4. FunctionTypes'
    BY <1>0 DEF FunctionTypes, ServiceRequest, filterVars, history
  <1>5. PendingOK'
    <2>1. iChangeNotificationPending' = "NotRequested" => iChangeIterested' = {}
      BY <1>c
    <2>2. iNotificationBufferFull' => hasUndefined'
      BY <1>0, <1>d DEF PendingOK, entryVars
    <2>3. isActive' /\ iStatus' # "pending" => signals' > 0
      <3>1. CASE UNCHANGED <<iStatus, signals>>
        BY <3>1, <1>0, <1>b DEF PendingOK
      <3>2. CASE signals' = signals + 1
        BY <3>2, <1>0 DEF CountTypes
      <3> QED
        BY <3>1, <3>2, <1>c
    <2>4. thread' = "ended" => ~isActive'
      BY <1>0, <1>b DEF PendingOK
    <2>5. iChangeIterested' \subseteq interested'
      BY <1>0, <1>a, <1>b DEF PendingOK, SetTypes
    <2>6. \A i \in 1..Len(sent') :
            /\ iChangeIterested' \subseteq sent'[i] /\ sent'[i] \subseteq interested'
            /\ \A j \in i..Len(sent') : sent'[i] \subseteq sent'[j]
      BY <1>b, <1>e
    <2>7. iBufferedNotificationsCount' = 0 \/ Buffered("entry")'
      BY <1>0, <1>d DEF PendingOK, Buffered, entryVars
    <2> QED
      BY <2>1, <2>2, <2>3, <2>4, <2>5, <2>6, <2>7 DEF PendingOK
  <1>6. MessageIffRequested'
    BY <1>0 DEF MessageIffRequested, Requested, ServiceRequest,
           RequestChangeNotification, Complete
  <1>7. NoLostWakeup'
    <2>1. SUFFICES ASSUME iChangeNotificationPending' = "Requested",
                         NEW k \in iChangeIterested'
                  PROVE  ~Buffered(k)
      BY <1>d DEF NoLostWakeup, Requested, Buffered, entryVars, fileVars
    <2>2. k \in Head(sent)
      BY <1>b, <1>e
    <2> QED
      BY <2>1, <2>2, <1>c
  <1>8. EntryChangesCovered'
    BY <1>0 DEF EntryChangesCovered, ServiceRequest, entryVars, filterVars,
           history
  <1>9. FileChangesCovered'
    BY <1>0 DEF FileChangesCovered, ServiceRequest, fileVars, history
  <1>10. DueOK'
    BY <1>0 DEF DueOK, ServiceRequest, RequestChangeNotification, history
  <1>11. CancelReturns'
    BY <1>0, <1>a, <1>b, <1>c DEF CancelReturns, PendingOK, Runs, Kinds
  <1> QED
    BY <1>1, <1>2, <1>3, <1>4, <1>5, <1>6, <1>7, <1>8, <1>9, <1>10, <1>11
       DEF Inv, TypeOK

LEMMA ChangeFileInv ==
  ASSUME Inv, NEW c \in Changes, ChangeFile(c)
  PROVE  Inv'
  <1>0. /\ CountTypes /\ SetTypes /\ FlagTypes /\ FunctionTypes /\ PendingOK
        /\ MessageIffRequested /\ NoLostWakeup /\ EntryChangesCovered
        /\ FileChangesCovered /\ CancelReturns /\ DueOK
    BY DEF Inv, TypeOK
  <1>1. CountTypes'
    BY <1>0, BufferAssumption DEF CountTypes, ChangeFile, AddFileChangeToBuffer,
           CompleteIfRequested, Complete, RoomFor, entryVars, fileVars,
           answerVars
  <1>2. SetTypes'
    BY <1>0 DEF SetTypes, ChangeFile, AddFileChangeToBuffer,
           CompleteIfRequested, Complete, ToNotifyOfFiles, WithRecord,
           entryVars, fileVars, answerVars, pendingVars, reporter
  <1>3. FlagTypes'
    BY <1>0 DEF FlagTypes, ChangeFile, AddFileChangeToBuffer,
           CompleteIfRequested, Complete, entryVars, fileVars, answerVars,
           pendingVars, reporter
  <1>4. FunctionTypes'
    BY <1>0 DEF FunctionTypes, ChangeFile, Due, filterVars
  <1>5. PendingOK'
    <2>1. iChangeNotificationPending' = "NotRequested" => iChangeIterested' = {}
      BY <1>0 DEF PendingOK, ChangeFile, AddFileChangeToBuffer,
             CompleteIfRequested, Complete, answerVars, pendingVars
    <2>2. iNotificationBufferFull' => hasUndefined'
      BY <1>0 DEF PendingOK, ChangeFile, entryVars
    <2>3. isActive' /\ iStatus' # "pending" => signals' > 0
      BY <1>0 DEF PendingOK, CountTypes, ChangeFile, AddFileChangeToBuffer,
             CompleteIfRequested, Complete, answerVars, reporter
    <2>4. thread' = "ended" => ~isActive'
      BY <1>0 DEF PendingOK, ChangeFile, reporter
    <2>5. iChangeIterested' \subseteq interested'
      BY <1>0 DEF PendingOK, ChangeFile, reporter
    <2>6. \A i \in 1..Len(sent') :
            /\ iChangeIterested' \subseteq sent'[i] /\ sent'[i] \subseteq interested'
            /\ \A j \in i..Len(sent') : sent'[i] \subseteq sent'[j]
      BY <1>0 DEF PendingOK, ChangeFile, reporter
    <2>7. iBufferedNotificationsCount' = 0 \/ Buffered("entry")'
      BY <1>0 DEF PendingOK, Buffered, ChangeFile, entryVars
    <2> QED
      BY <2>1, <2>2, <2>3, <2>4, <2>5, <2>6, <2>7 DEF PendingOK
  <1>6. MessageIffRequested'
    BY <1>0 DEF MessageIffRequested, Requested, ChangeFile,
           AddFileChangeToBuffer, CompleteIfRequested, Complete, answerVars,
           pendingVars
  <1>7. NoLostWakeup'
    BY <1>0 DEF NoLostWakeup, Requested, Buffered, SetTypes, ChangeFile,
           AddFileChangeToBuffer, CompleteIfRequested, Complete,
           ToNotifyOfFiles, Kinds, entryVars, answerVars, pendingVars
  <1>8. EntryChangesCovered'
    BY <1>0 DEF EntryChangesCovered, ChangeFile, Due, entryVars, filterVars
  <1>9. FileChangesCovered'
    BY <1>0 DEF FileChangesCovered, PendingOK, ChangeFile,
           AddFileChangeToBuffer, ToNotifyOfFiles, WithRecord, Due, fileVars
  <1>10. DueOK'
    BY <1>0 DEF DueOK, ChangeFile, Due
  <1>11. CancelReturns'
    BY <1>0 DEF CancelReturns, Runs, ChangeFile, AddFileChangeToBuffer,
           CompleteIfRequested, Complete, answerVars, pendingVars, reporter
  <1> QED
    BY <1>1, <1>2, <1>3, <1>4, <1>5, <1>6, <1>7, <1>8, <1>9, <1>10, <1>11
       DEF Inv, TypeOK

LEMMA StartInv ==
  ASSUME Inv, NEW k \in Kinds, Start(k)
  PROVE  Inv'
  <1>0. /\ CountTypes /\ SetTypes /\ FlagTypes /\ FunctionTypes /\ PendingOK
        /\ MessageIffRequested /\ NoLostWakeup /\ EntryChangesCovered
        /\ FileChangesCovered /\ CancelReturns /\ DueOK
    BY DEF Inv, TypeOK
  <1>1. CountTypes'
    BY <1>0 DEF CountTypes, Start, entryVars, fileVars, serverVars
  <1>2. SetTypes'
    BY <1>0 DEF SetTypes, Start, Send, entryVars, fileVars, pendingVars,
           serverVars
  <1>3. FlagTypes'
    BY <1>0 DEF FlagTypes, Start, entryVars, fileVars, pendingVars, serverVars
  <1>4. FunctionTypes'
    BY <1>0 DEF FunctionTypes, Start, filterVars, history, serverVars
  <1>5. PendingOK'
    <2>a. /\ sent' = Append(sent, interested \cup {k}) /\ interested' = interested \cup {k}
          /\ iChangeIterested' = iChangeIterested
      BY DEF Start, Send, serverVars
    <2>1. iChangeNotificationPending' = "NotRequested" => iChangeIterested' = {}
      BY <1>0 DEF PendingOK, Start, Send, serverVars, entryVars, pendingVars
    <2>2. iNotificationBufferFull' => hasUndefined'
      BY <1>0 DEF PendingOK, Start, Send, serverVars, entryVars, pendingVars
    <2>3. isActive' /\ iStatus' # "pending" => signals' > 0
      BY <1>0 DEF Start, Send
    <2>4. thread' = "ended" => ~isActive'
      BY <1>0 DEF Start, Calls, Runs
    <2>5. iChangeIterested' \subseteq interested'
      BY <1>0 DEF PendingOK, Start, Send, serverVars, entryVars, pendingVars
    <2>6. \A i \in 1..Len(sent') :
            /\ iChangeIterested' \subseteq sent'[i] /\ sent'[i] \subseteq interested'
            /\ \A j \in i..Len(sent') : sent'[i] \subseteq sent'[j]
      BY <1>0, <2>a DEF PendingOK, SetTypes
    <2>7. iBufferedNotificationsCount' = 0 \/ Buffered("entry")'
      BY <1>0 DEF PendingOK, Buffered, Start, serverVars, entryVars
    <2> QED
      BY <2>1, <2>2, <2>3, <2>4, <2>5, <2>6, <2>7 DEF PendingOK
  <1>6. MessageIffRequested'
    BY <1>0 DEF MessageIffRequested, Requested, Start, pendingVars, serverVars
  <1>7. NoLostWakeup'
    BY <1>0 DEF NoLostWakeup, Requested, Buffered, Start, entryVars, fileVars,
           pendingVars, serverVars
  <1>8. EntryChangesCovered'
    BY <1>0 DEF EntryChangesCovered, Start, entryVars, filterVars, history,
           serverVars
  <1>9. FileChangesCovered'
    BY <1>0 DEF FileChangesCovered, Start, fileVars, history, serverVars
  <1>10. DueOK'
    BY <1>0 DEF DueOK, Start, history, serverVars
  <1>11. CancelReturns'
    BY <1>0 DEF CancelReturns, Start, Send
  <1> QED
    BY <1>1, <1>2, <1>3, <1>4, <1>5, <1>6, <1>7, <1>8, <1>9, <1>10, <1>11
       DEF Inv, TypeOK

LEMMA StopInv ==
  ASSUME Inv, NEW k \in Kinds, Stop(k)
  PROVE  Inv'
  <1>0. /\ CountTypes /\ SetTypes /\ FlagTypes /\ FunctionTypes /\ PendingOK
        /\ MessageIffRequested /\ NoLostWakeup /\ EntryChangesCovered
        /\ FileChangesCovered /\ CancelReturns /\ DueOK
    BY DEF Inv, TypeOK
  <1>1. CountTypes'
    <2>1. signals' \in {signals, signals + 1} \/ (isActive /\ iStatus # "pending" /\ signals' = signals - 1)
      BY DEF Stop, StopReporter
    <2>2. signals' \in Nat
      BY <2>1, <1>0 DEF CountTypes, PendingOK
    <2> QED
      BY <2>2, <1>0 DEF CountTypes, Stop, entryVars, fileVars
  <1>2. SetTypes'
    BY <1>0 DEF SetTypes, Stop, StopReporter, CancelChangeNotification,
           Uninterested, entryVars, fileVars, pendingVars
  <1>3. FlagTypes'
    BY <1>0 DEF FlagTypes, Stop, StopReporter, CancelChangeNotification,
           entryVars, fileVars, pendingVars
  <1>4. FunctionTypes'
    BY <1>0 DEF FunctionTypes, Stop, StopReporter, CancelChangeNotification,
           Forget, filterVars
  <1>5. PendingOK'
    <2>0. sent = <<>> /\ Len(sent') = 0 /\ UNCHANGED <<thread, entryVars>>
      BY DEF Stop, Calls
    <2>a. isActive' => /\ isActive
                       /\ \/ iStatus' = iStatus /\ signals' = signals
                          \/ iStatus' = "cancel" /\ signals' = signals + 1
      BY DEF Stop, StopReporter
    <2>b. signals \in Nat /\ (isActive /\ iStatus # "pending" => signals > 0)
      BY <1>0 DEF CountTypes, PendingOK
    <2>1. iChangeNotificationPending' = "NotRequested" => iChangeIterested' = {}
      BY <1>0 DEF PendingOK, Stop, StopReporter, CancelChangeNotification,
             pendingVars
    <2>2. iNotificationBufferFull' => hasUndefined'
      BY <1>0, <2>0 DEF PendingOK, entryVars
    <2>3. isActive' /\ iStatus' # "pending" => signals' > 0
      BY <1>0, <2>a, <2>b
    <2>4. thread' = "ended" => ~isActive'
      BY <1>0, <2>0 DEF PendingOK, Stop, StopReporter
    <2>5. iChangeIterested' \subseteq interested'
      BY <1>0 DEF PendingOK, Stop, StopReporter, CancelChangeNotification,
             Uninterested
    <2>6. \A i \in 1..Len(sent') :
            /\ iChangeIterested' \subseteq sent'[i] /\ sent'[i] \subseteq interested'
            /\ \A j \in i..Len(sent') : sent'[i] \subseteq sent'[j]
      BY <1>0, <2>0
    <2>7. iBufferedNotificationsCount' = 0 \/ Buffered("entry")'
      BY <1>0, <2>0 DEF PendingOK, Buffered, entryVars
    <2> QED
      BY <2>1, <2>2, <2>3, <2>4, <2>5, <2>6, <2>7 DEF PendingOK
  <1>6. MessageIffRequested'
    BY <1>0 DEF MessageIffRequested, Requested, Stop, StopReporter,
           CancelChangeNotification, pendingVars
  <1>7. NoLostWakeup'
    BY <1>0 DEF NoLostWakeup, Requested, Buffered, Stop, StopReporter,
           CancelChangeNotification, Uninterested, entryVars, fileVars,
           pendingVars
  <1>8. EntryChangesCovered'
    BY <1>0 DEF EntryChangesCovered, Stop, StopReporter,
           CancelChangeNotification, Forget, Kinds, entryVars, filterVars
  <1>9. FileChangesCovered'
    BY <1>0 DEF FileChangesCovered, Stop, StopReporter,
           CancelChangeNotification, Forget, Kinds, fileVars
  <1>10. DueOK'
    BY <1>0 DEF DueOK, Stop, StopReporter, CancelChangeNotification,
           Uninterested, Forget, Kinds, Sessions
  <1>11. CancelReturns'
    BY <1>0 DEF CancelReturns, PendingOK, Runs, Stop, StopReporter,
           CancelChangeNotification, Cancels, Uninterested, pendingVars
  <1> QED
    BY <1>1, <1>2, <1>3, <1>4, <1>5, <1>6, <1>7, <1>8, <1>9, <1>10, <1>11
       DEF Inv, TypeOK

LEMMA ReportInv ==
  ASSUME Inv, Report
  PROVE  Inv'
  <1>0. /\ CountTypes /\ SetTypes /\ FlagTypes /\ FunctionTypes /\ PendingOK
        /\ MessageIffRequested /\ NoLostWakeup /\ EntryChangesCovered
        /\ FileChangesCovered /\ CancelReturns /\ DueOK
    BY DEF Inv, TypeOK
  <1>1. CountTypes'
    BY <1>0, BufferAssumption DEF CountTypes, Report, Dispatched, GetChanges,
           GetFileChanges, entryVars, fileVars
  <1>2. SetTypes'
    BY <1>0 DEF SetTypes, Report, GetChanges, GetFileChanges, entryVars,
           fileVars, pendingVars
  <1>3. FlagTypes'
    BY <1>0 DEF FlagTypes, Report, GetChanges, GetFileChanges, FullAfterGet,
           entryVars, fileVars, pendingVars
  <1>4. FunctionTypes'
    BY <1>0 DEF FunctionTypes, Report, GetChanges, GetFileChanges, filterVars
  <1>5. PendingOK'
    <2>1. iChangeNotificationPending' = "NotRequested" => iChangeIterested' = {}
      BY <1>0 DEF PendingOK, Report, pendingVars
    <2>2. iNotificationBufferFull' => hasUndefined'
      BY <1>0 DEF PendingOK, Report, GetChanges, FullAfterGet, GetFileChanges,
             entryVars
    <2>3. isActive' /\ iStatus' # "pending" => signals' > 0
      BY <1>0 DEF Report
    <2>4. thread' = "ended" => ~isActive'
      BY <1>0 DEF Report
    <2>5. iChangeIterested' \subseteq interested'
      BY <1>0 DEF PendingOK, Report
    <2>6. \A i \in 1..Len(sent') :
            /\ iChangeIterested' \subseteq sent'[i] /\ sent'[i] \subseteq interested'
            /\ \A j \in i..Len(sent') : sent'[i] \subseteq sent'[j]
      BY <1>0 DEF Report
    <2>7. iBufferedNotificationsCount' = 0 \/ Buffered("entry")'
      BY <1>0 DEF PendingOK, Buffered, Report, GetChanges, GetFileChanges,
             entryVars
    <2> QED
      BY <2>1, <2>2, <2>3, <2>4, <2>5, <2>6, <2>7 DEF PendingOK
  <1>6. MessageIffRequested'
    BY <1>0 DEF MessageIffRequested, Requested, Report, pendingVars
  <1>7. NoLostWakeup'
    BY <1>0 DEF NoLostWakeup, Requested, Buffered, Report, GetChanges,
           GetFileChanges, entryVars, fileVars, pendingVars
  <1>8. EntryChangesCovered'
    BY <1>0 DEF EntryChangesCovered, FunctionTypes, Report, GetChanges,
           GetFileChanges, Kinds, entryVars, filterVars
  <1>9. FileChangesCovered'
    BY <1>0 DEF FileChangesCovered, FunctionTypes, Report, GetChanges,
           GetFileChanges, Kinds, fileVars
  <1>10. DueOK'
    BY <1>0 DEF DueOK, FunctionTypes, Report, GetChanges, GetFileChanges, Kinds,
           Sessions
  <1>11. CancelReturns'
    BY <1>0 DEF CancelReturns, Report
  <1> QED
    BY <1>1, <1>2, <1>3, <1>4, <1>5, <1>6, <1>7, <1>8, <1>9, <1>10, <1>11
       DEF Inv, TypeOK

LEMMA ClientEndsInv ==
  ASSUME Inv, ClientEnds
  PROVE  Inv'
  <1>0. /\ CountTypes /\ SetTypes /\ FlagTypes /\ FunctionTypes /\ PendingOK
        /\ MessageIffRequested /\ NoLostWakeup /\ EntryChangesCovered
        /\ FileChangesCovered /\ CancelReturns /\ DueOK
    BY DEF Inv, TypeOK
  <1>1. CountTypes'
    BY <1>0, BufferAssumption DEF CountTypes, ClientEnds, Fresh
  <1>2. SetTypes'
    BY <1>0 DEF SetTypes, ClientEnds, Fresh
  <1>3. FlagTypes'
    BY <1>0 DEF FlagTypes, ClientEnds, Fresh
  <1>4. FunctionTypes'
    BY <1>0 DEF FunctionTypes, ClientEnds, Fresh
  <1>5. PendingOK'
    BY <1>0 DEF PendingOK, ClientEnds, Fresh
  <1>6. MessageIffRequested'
    BY <1>0 DEF MessageIffRequested, Requested, ClientEnds, Fresh
  <1>7. NoLostWakeup'
    BY <1>0 DEF NoLostWakeup, ClientEnds, Fresh
  <1>8. EntryChangesCovered'
    BY <1>0 DEF EntryChangesCovered, ClientEnds, Fresh, Kinds
  <1>9. FileChangesCovered'
    BY <1>0 DEF FileChangesCovered, ClientEnds, Fresh, Kinds
  <1>10. DueOK'
    BY <1>0 DEF DueOK, ClientEnds, Fresh, Kinds, Sessions
  <1>11. CancelReturns'
    BY <1>0 DEF CancelReturns, Runs, ClientEnds
  <1> QED
    BY <1>1, <1>2, <1>3, <1>4, <1>5, <1>6, <1>7, <1>8, <1>9, <1>10, <1>11
       DEF Inv, TypeOK

LEMMA RepeatInv ==
  ASSUME Inv, Repeat
  PROVE  Inv'
  <1>0. /\ CountTypes /\ SetTypes /\ FlagTypes /\ FunctionTypes /\ PendingOK
        /\ MessageIffRequested /\ NoLostWakeup /\ EntryChangesCovered
        /\ FileChangesCovered /\ CancelReturns /\ DueOK
    BY DEF Inv, TypeOK
  <1>1. CountTypes'
    BY <1>0 DEF CountTypes, Repeat, entryVars, fileVars, serverVars
  <1>2. SetTypes'
    <2>1. Append(sent, interested) \in Seq(SUBSET Kinds)
      BY <1>0 DEF SetTypes
    <2> QED
      BY <2>1, <1>0 DEF SetTypes, Repeat, Send, serverVars, entryVars, fileVars,
             pendingVars
  <1>3. FlagTypes'
    BY <1>0 DEF FlagTypes, Repeat, entryVars, fileVars, pendingVars, serverVars
  <1>4. FunctionTypes'
    BY <1>0 DEF FunctionTypes, Repeat, filterVars, history, serverVars
  <1>5. PendingOK'
    <2>a. /\ sent' \in {sent, Append(sent, interested)}
          /\ UNCHANGED <<interested, iChangeIterested>>
      BY DEF Repeat, Send, serverVars
    <2>1. iChangeNotificationPending' = "NotRequested" => iChangeIterested' = {}
      BY <1>0 DEF PendingOK, Repeat, serverVars, pendingVars
    <2>2. iNotificationBufferFull' => hasUndefined'
      BY <1>0 DEF PendingOK, Repeat, serverVars, entryVars
    <2>3. isActive' /\ iStatus' # "pending" => signals' > 0
      BY <1>0 DEF PendingOK, Repeat, Send
    <2>4. thread' = "ended" => ~isActive'
      BY <1>0 DEF Repeat
    <2>5. iChangeIterested' \subseteq interested'
      BY <1>0 DEF PendingOK, Repeat, serverVars
    <2>6. \A i \in 1..Len(sent') :
            /\ iChangeIterested' \subseteq sent'[i] /\ sent'[i] \subseteq interested'
            /\ \A j \in i..Len(sent') : sent'[i] \subseteq sent'[j]
      BY <1>0, <2>a DEF PendingOK, SetTypes
    <2>7. iBufferedNotificationsCount' = 0 \/ Buffered("entry")'
      BY <1>0 DEF PendingOK, Buffered, Repeat, serverVars, entryVars
    <2> QED
      BY <2>1, <2>2, <2>3, <2>4, <2>5, <2>6, <2>7 DEF PendingOK
  <1>6. MessageIffRequested'
    BY <1>0 DEF MessageIffRequested, Requested, Repeat, pendingVars, serverVars
  <1>7. NoLostWakeup'
    BY <1>0 DEF NoLostWakeup, Requested, Buffered, Repeat, entryVars, fileVars,
           pendingVars, serverVars
  <1>8. EntryChangesCovered'
    BY <1>0 DEF EntryChangesCovered, Repeat, entryVars, filterVars, history,
           serverVars
  <1>9. FileChangesCovered'
    BY <1>0 DEF FileChangesCovered, Repeat, fileVars, history, serverVars
  <1>10. DueOK'
    BY <1>0 DEF DueOK, Repeat, history, serverVars
  <1>11. CancelReturns'
    <2>1. Append(sent, interested) # <<>>
      BY <1>0 DEF SetTypes
    <2> QED
      BY <2>1, <1>0 DEF CancelReturns, Runs, Repeat, Send, serverVars,
             pendingVars
  <1> QED
    BY <1>1, <1>2, <1>3, <1>4, <1>5, <1>6, <1>7, <1>8, <1>9, <1>10, <1>11
       DEF Inv, TypeOK

LEMMA ClientBeginsInv ==
  ASSUME Inv, ClientBegins
  PROVE  Inv'
  <1>0. /\ CountTypes /\ SetTypes /\ FlagTypes /\ FunctionTypes /\ PendingOK
        /\ MessageIffRequested /\ NoLostWakeup /\ EntryChangesCovered
        /\ FileChangesCovered /\ CancelReturns /\ DueOK
    BY DEF Inv, TypeOK
  <1>1. CountTypes'
    BY <1>0 DEF CountTypes, ClientBegins, entryVars, fileVars, serverVars
  <1>2. SetTypes'
    BY <1>0 DEF SetTypes, ClientBegins, entryVars, fileVars, pendingVars,
           serverVars
  <1>3. FlagTypes'
    BY <1>0 DEF FlagTypes, ClientBegins, entryVars, fileVars, pendingVars,
           serverVars
  <1>4. FunctionTypes'
    BY <1>0 DEF FunctionTypes, ClientBegins, filterVars, history, serverVars
  <1>5. PendingOK'
    <2>1. iChangeNotificationPending' = "NotRequested" => iChangeIterested' = {}
      BY <1>0 DEF PendingOK, ClientBegins, serverVars, entryVars, pendingVars
    <2>2. iNotificationBufferFull' => hasUndefined'
      BY <1>0 DEF PendingOK, ClientBegins, serverVars, entryVars, pendingVars
    <2>3. isActive' /\ iStatus' # "pending" => signals' > 0
      BY <1>0 DEF PendingOK, CountTypes, ClientBegins, serverVars, entryVars,
             pendingVars
    <2>4. thread' = "ended" => ~isActive'
      BY <1>0 DEF PendingOK, ClientBegins, serverVars, entryVars, pendingVars
    <2>5. iChangeIterested' \subseteq interested'
      BY <1>0 DEF PendingOK, ClientBegins, serverVars, entryVars, pendingVars
    <2>6. \A i \in 1..Len(sent') :
            /\ iChangeIterested' \subseteq sent'[i] /\ sent'[i] \subseteq interested'
            /\ \A j \in i..Len(sent') : sent'[i] \subseteq sent'[j]
      BY <1>0 DEF PendingOK, ClientBegins, serverVars, entryVars, pendingVars
    <2>7. iBufferedNotificationsCount' = 0 \/ Buffered("entry")'
      BY <1>0 DEF PendingOK, Buffered, ClientBegins, serverVars, entryVars,
             pendingVars
    <2> QED
      BY <2>1, <2>2, <2>3, <2>4, <2>5, <2>6, <2>7 DEF PendingOK
  <1>6. MessageIffRequested'
    BY <1>0 DEF MessageIffRequested, Requested, ClientBegins, pendingVars,
           serverVars
  <1>7. NoLostWakeup'
    BY <1>0 DEF NoLostWakeup, Requested, Buffered, ClientBegins, entryVars,
           fileVars, pendingVars, serverVars
  <1>8. EntryChangesCovered'
    BY <1>0 DEF EntryChangesCovered, ClientBegins, entryVars, filterVars,
           history, serverVars
  <1>9. FileChangesCovered'
    BY <1>0 DEF FileChangesCovered, ClientBegins, fileVars, history, serverVars
  <1>10. DueOK'
    BY <1>0 DEF DueOK, ClientBegins, history, serverVars
  <1>11. CancelReturns'
    BY <1>0 DEF CancelReturns, PendingOK, ClientBegins
  <1> QED
    BY <1>1, <1>2, <1>3, <1>4, <1>5, <1>6, <1>7, <1>8, <1>9, <1>10, <1>11
       DEF Inv, TypeOK

LEMMA DisableInv ==
  ASSUME Inv, NEW s \in Sessions, DisableChangeBroadcast(s)
  PROVE  Inv'
  <1>0. /\ CountTypes /\ SetTypes /\ FlagTypes /\ FunctionTypes /\ PendingOK
        /\ MessageIffRequested /\ NoLostWakeup /\ EntryChangesCovered
        /\ FileChangesCovered /\ CancelReturns /\ DueOK
    BY DEF Inv, TypeOK
  <1>1. CountTypes'
    BY <1>0 DEF CountTypes, DisableChangeBroadcast, entryVars, fileVars,
           answerVars
  <1>2. SetTypes'
    BY <1>0 DEF SetTypes, DisableChangeBroadcast, entryVars, fileVars,
           answerVars, pendingVars, reporter
  <1>3. FlagTypes'
    BY <1>0 DEF FlagTypes, DisableChangeBroadcast, entryVars, fileVars,
           answerVars, pendingVars, reporter
  <1>4. FunctionTypes'
    BY <1>0 DEF FunctionTypes, DisableChangeBroadcast, history
  <1>5. PendingOK'
    <2>1. iChangeNotificationPending' = "NotRequested" => iChangeIterested' = {}
      BY <1>0 DEF PendingOK, DisableChangeBroadcast, reporter, answerVars,
             entryVars, pendingVars
    <2>2. iNotificationBufferFull' => hasUndefined'
      BY <1>0 DEF PendingOK, DisableChangeBroadcast, reporter, answerVars,
             entryVars, pendingVars
    <2>3. isActive' /\ iStatus' # "pending" => signals' > 0
      BY <1>0 DEF PendingOK, DisableChangeBroadcast, reporter, answerVars
    <2>4. thread' = "ended" => ~isActive'
      BY <1>0 DEF PendingOK, DisableChangeBroadcast, reporter, answerVars,
             entryVars, pendingVars
    <2>5. iChangeIterested' \subseteq interested'
      BY <1>0 DEF PendingOK, DisableChangeBroadcast, reporter, answerVars,
             entryVars, pendingVars
    <2>6. \A i \in 1..Len(sent') :
            /\ iChangeIterested' \subseteq sent'[i] /\ sent'[i] \subseteq interested'
            /\ \A j \in i..Len(sent') : sent'[i] \subseteq sent'[j]
      BY <1>0 DEF PendingOK, DisableChangeBroadcast, reporter, answerVars,
             entryVars, pendingVars
    <2>7. iBufferedNotificationsCount' = 0 \/ Buffered("entry")'
      BY <1>0 DEF PendingOK, Buffered, DisableChangeBroadcast, entryVars
    <2> QED
      BY <2>1, <2>2, <2>3, <2>4, <2>5, <2>6, <2>7 DEF PendingOK
  <1>6. MessageIffRequested'
    BY <1>0 DEF MessageIffRequested, Requested, DisableChangeBroadcast,
           answerVars, pendingVars
  <1>7. NoLostWakeup'
    BY <1>0 DEF NoLostWakeup, Requested, Buffered, DisableChangeBroadcast,
           entryVars, fileVars, answerVars, pendingVars
  <1>8. EntryChangesCovered'
    BY <1>0 DEF EntryChangesCovered, DisableChangeBroadcast, entryVars, history
  <1>9. FileChangesCovered'
    BY <1>0 DEF FileChangesCovered, DisableChangeBroadcast, fileVars, history
  <1>10. DueOK'
    BY <1>0 DEF DueOK, DisableChangeBroadcast, history
  <1>11. CancelReturns'
    BY <1>0 DEF CancelReturns, Runs, DisableChangeBroadcast, answerVars,
           pendingVars, reporter
  <1> QED
    BY <1>1, <1>2, <1>3, <1>4, <1>5, <1>6, <1>7, <1>8, <1>9, <1>10, <1>11
       DEF Inv, TypeOK

LEMMA SessionEndsInv ==
  ASSUME Inv, NEW s \in Sessions, SessionEnds(s)
  PROVE  Inv'
  <1>0. /\ CountTypes /\ SetTypes /\ FlagTypes /\ FunctionTypes /\ PendingOK
        /\ MessageIffRequested /\ NoLostWakeup /\ EntryChangesCovered
        /\ FileChangesCovered /\ CancelReturns /\ DueOK
    BY DEF Inv, TypeOK
  <1>1. CountTypes'
    BY <1>0 DEF CountTypes, SessionEnds, entryVars, fileVars, answerVars
  <1>2. SetTypes'
    BY <1>0 DEF SetTypes, SessionEnds, entryVars, fileVars, answerVars,
           pendingVars, reporter
  <1>3. FlagTypes'
    BY <1>0 DEF FlagTypes, SessionEnds, entryVars, fileVars, answerVars,
           pendingVars, reporter
  <1>4. FunctionTypes'
    BY <1>0 DEF FunctionTypes, SessionEnds
  <1>5. PendingOK'
    <2>1. iChangeNotificationPending' = "NotRequested" => iChangeIterested' = {}
      BY <1>0 DEF PendingOK, SessionEnds, reporter, answerVars, entryVars,
             pendingVars
    <2>2. iNotificationBufferFull' => hasUndefined'
      BY <1>0 DEF PendingOK, SessionEnds, reporter, answerVars, entryVars,
             pendingVars
    <2>3. isActive' /\ iStatus' # "pending" => signals' > 0
      BY <1>0 DEF PendingOK, SessionEnds, reporter, answerVars
    <2>4. thread' = "ended" => ~isActive'
      BY <1>0 DEF PendingOK, SessionEnds, reporter, answerVars, entryVars,
             pendingVars
    <2>5. iChangeIterested' \subseteq interested'
      BY <1>0 DEF PendingOK, SessionEnds, reporter, answerVars, entryVars,
             pendingVars
    <2>6. \A i \in 1..Len(sent') :
            /\ iChangeIterested' \subseteq sent'[i] /\ sent'[i] \subseteq interested'
            /\ \A j \in i..Len(sent') : sent'[i] \subseteq sent'[j]
      BY <1>0 DEF PendingOK, SessionEnds, reporter, answerVars, entryVars,
             pendingVars
    <2>7. iBufferedNotificationsCount' = 0 \/ Buffered("entry")'
      BY <1>0 DEF PendingOK, Buffered, SessionEnds, entryVars
    <2> QED
      BY <2>1, <2>2, <2>3, <2>4, <2>5, <2>6, <2>7 DEF PendingOK
  <1>6. MessageIffRequested'
    BY <1>0 DEF MessageIffRequested, Requested, SessionEnds, answerVars,
           pendingVars
  <1>7. NoLostWakeup'
    BY <1>0 DEF NoLostWakeup, Requested, Buffered, SessionEnds, entryVars,
           fileVars, answerVars, pendingVars
  <1>8. EntryChangesCovered'
    BY <1>0 DEF EntryChangesCovered, FunctionTypes, SessionEnds, Kinds,
           entryVars
  <1>9. FileChangesCovered'
    BY <1>0 DEF FileChangesCovered, SessionEnds, fileVars
  <1>10. DueOK'
    BY <1>0 DEF DueOK, SessionEnds
  <1>11. CancelReturns'
    BY <1>0 DEF CancelReturns, Runs, SessionEnds, answerVars, pendingVars,
           reporter
  <1> QED
    BY <1>1, <1>2, <1>3, <1>4, <1>5, <1>6, <1>7, <1>8, <1>9, <1>10, <1>11
       DEF Inv, TypeOK

-----------------------------------------------------------------------------
(* The specification *)

LEMMA ClientInv ==
  ASSUME Inv, Client
  PROVE  Inv'
  <1>1. CASE \E k \in Kinds : Start(k) \/ Stop(k)
    BY <1>1, StartInv, StopInv
  <1>2. CASE Report
    BY <1>2, ReportInv
  <1>3. CASE ReportLeaves \/ StraySignal \/ ClientDies
    BY <1>3, ClientEndsInv DEF ReportLeaves, StraySignal, ClientDies
  <1>4. CASE Repeat
    BY <1>4, RepeatInv
  <1>5. CASE ClientBegins
    BY <1>5, ClientBeginsInv
  <1> QED
    BY <1>1, <1>2, <1>3, <1>4, <1>5 DEF Client

LEMMA ServerInv ==
  ASSUME Inv, Server
  PROVE  Inv'
  <1>1. CASE ServiceRequest
    BY <1>1, ServiceRequestInv
  <1>2. CASE \E c \in Changes : ChangeFile(c) \/ RestoredFileCanNotBeOpened(c)
    BY <1>2, ChangeFileInv, RestoredInv
  <1>3. CASE \E c \in Changes, l \in BOOLEAN : SystemChange(c, l)
    BY <1>3, SystemChangeInv
  <1>4. CASE \E s \in Sessions, c \in Changes :
                \/ \E passes \in BOOLEAN : ChangeEntry(s, c, passes)
                \/ BulkChangeCompleted(s, c)
    BY <1>4, ChangeEntryInv, BulkChangeInv
  <1>5. CASE \E s \in Disablers : EnableChangeBroadcast(s) \/ DisableChangeBroadcast(s)
    BY <1>5, EnableInv, DisableInv, DisablersAssumption DEF Sessions
  <1>6. CASE \E s \in Others : SessionEnds(s)
    BY <1>6, SessionEndsInv DEF Sessions
  <1> QED
    BY <1>1, <1>2, <1>3, <1>4, <1>5, <1>6 DEF Server

\* A predicate of the variables holds after a step that changes none of them.
LEMMA StutterInv ==
  ASSUME Inv, UNCHANGED vars
  PROVE  Inv'
  <1>0. /\ UNCHANGED <<entryVars, fileVars, answerVars, filterVars>>
        /\ UNCHANGED <<reporter, history, iChangeIterested, locked>>
    BY DEF vars
  <1>1. TypeOK'
    BY <1>0 DEF Inv, TypeOK, CountTypes, SetTypes, FlagTypes, FunctionTypes,
           entryVars, fileVars, answerVars, pendingVars, filterVars, reporter,
           history
  <1>2. PendingOK'
    BY <1>0 DEF Inv, PendingOK, Buffered, entryVars, answerVars, pendingVars,
           reporter
  <1>3. DueOK'
    BY <1>0 DEF Inv, DueOK, history
  <1>4. MessageIffRequested'
    BY <1>0 DEF Inv, MessageIffRequested, Requested, answerVars, pendingVars
  <1>5. NoLostWakeup'
    BY <1>0 DEF Inv, NoLostWakeup, Requested, Buffered, entryVars, fileVars,
           answerVars, pendingVars
  <1>6. EntryChangesCovered'
    BY <1>0 DEF Inv, EntryChangesCovered, entryVars, filterVars, history
  <1>7. FileChangesCovered'
    BY <1>0 DEF Inv, FileChangesCovered, fileVars, history
  <1>8. CancelReturns'
    BY <1>0 DEF Inv, CancelReturns, Runs, answerVars, pendingVars, reporter
  <1> QED
    BY <1>1, <1>2, <1>3, <1>4, <1>5, <1>6, <1>7, <1>8 DEF Inv

\* The invariant is inductive: it holds in every reachable state, for every set
\* of sessions and changes, every size of the buffers and any number of requests.
THEOREM InvInvariant == SafeSpec => []Inv
  <1>1. Init => Inv
    BY InitInv
  <1>2. Inv /\ [Next]_vars => Inv'
    BY ClientInv, ServerInv, StutterInv DEF Next
  <1> QED
    BY <1>1, <1>2, PTL DEF SafeSpec

\* Type correctness of the watcher's session and its reporter; the counters of
\* the buffers stay within KMaxNumberOfBufferedNotifications.
THEOREM TypeCorrect == SafeSpec => []TypeOK
  <1>1. Inv => TypeOK
    BY DEF Inv
  <1> QED
    BY <1>1, InvInvariant, PTL

\* The server holds a message exactly while it has one to answer: no message is
\* completed twice (CAgnSessionFile::iChangeNotificationMessage).
THEOREM MessagesAnsweredOnce == SafeSpec => []MessageIffRequested
  <1>1. Inv => MessageIffRequested
    BY DEF Inv
  <1> QED
    BY <1>1, InvInvariant, PTL

\* A request is held only while the buffers of what it asks for are empty: a
\* change is either in time to complete it or seen by the next one.
THEOREM NoWakeupIsLost == SafeSpec => []NoLostWakeup
  <1>1. Inv => NoLostWakeup
    BY DEF Inv
  <1> QED
    BY <1>1, InvInvariant, PTL

\* Overflow of the buffer, disabled broadcasts and bulk changes drop no change
\* of an entry without an undefined change in its place.
THEOREM NoEntryChangeIsLost == SafeSpec => []EntryChangesCovered
  <1>1. Inv => EntryChangesCovered
    BY DEF Inv
  <1> QED
    BY <1>1, InvInvariant, PTL

\* The buffer of file changes holds all that are due until it runs over.
THEOREM NoFileChangeIsLost == SafeSpec => []FileChangesCovered
  <1>1. Inv => FileChangesCovered
    BY DEF Inv
  <1> QED
    BY <1>1, InvInvariant, PTL

\* The wait of CActive::Cancel in StopReporter is for a message the server holds
\* and completes when all the interests of the client are cancelled.
THEOREM CancelDoesNotHang == SafeSpec => []CancelReturns
  <1>1. Inv => CancelReturns
    BY DEF Inv
  <1> QED
    BY <1>1, InvInvariant, PTL

-----------------------------------------------------------------------------
(* A reporter that goes on watching is not cancelled *)

\* What a change in the server does to the reporter: at most it completes its
\* request, and not with KErrCancel.
LEMMA CompletionAgrees ==
  ASSUME NeverCancelled, Agreed, UNCHANGED <<reporter, iChangeIterested>>,
         \/ UNCHANGED answerVars
         \/ Requested /\ \E code \in Kinds \cup {"corrupt"} : Complete(code)
  PROVE  NeverCancelled' /\ Agreed'
  <1>1. CASE UNCHANGED answerVars
    BY <1>1 DEF NeverCancelled, Agreed, answerVars, pendingVars, reporter
  <1>2. CASE Requested /\ \E code \in Kinds \cup {"corrupt"} : Complete(code)
    BY <1>2 DEF NeverCancelled, Agreed, Requested, Complete, Kinds, reporter
  <1> QED
    BY <1>1, <1>2

\* A change that is buffered, dropped or not for the watcher does no more.
LEMMA AddChangeCompletes ==
  ASSUME NEW C, NEW undefined, NEW system, NEW own, NEW passes,
         AddChangeToBuffer(C, undefined, system, own, passes)
  PROVE  \/ UNCHANGED answerVars
         \/ Requested /\ \E code \in Kinds \cup {"corrupt"} : Complete(code)
  BY DEF AddChangeToBuffer, BufferChange, CompleteIfRequested, Kinds

\* The last element of a longer sequence is that of its tail.
LEMMA LastOfTail ==
  ASSUME NEW S, NEW q \in Seq(S), q # <<>>, Len(q) # 1
  PROVE  Tail(q) # <<>> /\ Tail(q)[Len(Tail(q))] = q[Len(q)]
  <1>1. Len(q) \in Nat /\ Len(q) # 0
    OBVIOUS
  <1>2. Len(q) >= 2
    <2>1. \A n \in Nat : n # 0 /\ n # 1 => n >= 2
      OBVIOUS
    <2> QED
      BY <1>1, <2>1
  <1>3. /\ Len(Tail(q)) = Len(q) - 1 /\ Len(q) - 1 \in Nat
        /\ \A i \in 1..(Len(q) - 1) : Tail(q)[i] = q[i + 1]
    BY <1>1, <1>2
  <1>4. Tail(q)[Len(q) - 1] = q[(Len(q) - 1) + 1]
    BY <1>2, <1>3
  <1>5. Tail(q) # <<>>
    BY <1>2, <1>3
  <1> QED
    BY <1>1, <1>3, <1>4, <1>5

\* The server takes the next request: the last one brings the whole list of the
\* client, which names all the server knows already.
LEMMA ServiceRequestAgrees ==
  ASSUME Inv, NeverCancelled, Agreed, ServiceRequest
  PROVE  NeverCancelled' /\ Agreed'
  <1>0. PendingOK /\ SetTypes
    BY DEF Inv, TypeOK
  <1>1. /\ sent \in Seq(SUBSET Kinds) /\ sent # <<>> /\ sent' = Tail(sent)
        /\ iChangeIterested' = iChangeIterested \cup Head(sent)
        /\ UNCHANGED <<interested, isActive>>
    BY <1>0 DEF SetTypes, ServiceRequest, RequestChangeNotification
  <1>2. NeverCancelled'
    <2>1. Head(sent) \subseteq Kinds
      BY <1>1
    <2>2. iStatus' \in {iStatus} \cup Kinds
      BY <2>1 DEF ServiceRequest, RequestChangeNotification, Complete, Answers
    <2> QED
      BY <2>2, <1>1 DEF NeverCancelled, Kinds
  <1>3. CASE Len(sent) = 1
    <2>1. sent' = <<>> /\ Head(sent) = sent[Len(sent)] /\ 1 \in 1..Len(sent)
      BY <1>1, <1>3
    <2>2. Head(sent) = interested
      BY <2>1, <1>1 DEF Agreed
    <2>3. iChangeIterested \subseteq interested
      BY <1>0 DEF PendingOK
    <2> QED
      BY <2>1, <2>2, <2>3, <1>1, <1>2 DEF Agreed
  <1>4. CASE Len(sent) # 1
    BY <1>1, <1>2, <1>4, LastOfTail DEF Agreed
  <1> QED
    BY <1>3, <1>4

\* No step of the server cancels a reporter that did not ask for it.
LEMMA ServerAgrees ==
  ASSUME Inv, NeverCancelled, Agreed, Server
  PROVE  NeverCancelled' /\ Agreed'
  <1>1. CASE ServiceRequest
    BY <1>1, ServiceRequestAgrees
  <1>2. CASE \E c \in Changes : ChangeFile(c)
    BY <1>2, CompletionAgrees
       DEF ChangeFile, AddFileChangeToBuffer, CompleteIfRequested, Kinds
  <1>3. CASE \E c \in Changes : RestoredFileCanNotBeOpened(c)
    BY <1>3, CompletionAgrees, AddChangeCompletes DEF RestoredFileCanNotBeOpened, Kinds
  <1>4. CASE \E c \in Changes, l \in BOOLEAN : SystemChange(c, l)
    BY <1>4, CompletionAgrees, AddChangeCompletes DEF SystemChange
  <1>5. CASE \E s \in Sessions, c \in Changes, passes \in BOOLEAN :
               ChangeEntry(s, c, passes)
    BY <1>5, CompletionAgrees, AddChangeCompletes DEF ChangeEntry, NotifyChange
  <1>6. CASE \E s \in Sessions, c \in Changes : BulkChangeCompleted(s, c)
    BY <1>6, CompletionAgrees, AddChangeCompletes DEF BulkChangeCompleted, NotifyChange
  <1>7. CASE \E s \in Disablers : EnableChangeBroadcast(s)
    BY <1>7, CompletionAgrees, AddChangeCompletes DEF EnableChangeBroadcast, NotifyChange
  <1>8. CASE \/ \E s \in Disablers : DisableChangeBroadcast(s)
             \/ \E s \in Others : SessionEnds(s)
    BY <1>8, CompletionAgrees DEF DisableChangeBroadcast, SessionEnds
  <1> QED
    BY <1>1, <1>2, <1>3, <1>4, <1>5, <1>6, <1>7, <1>8 DEF Server

\* A request is sent with all the client is interested in.
LEMMA SendAgrees ==
  ASSUME SetTypes', sent \in Seq(SUBSET Kinds), Send(interested')
  PROVE  NeverCancelled' /\ Agreed'
  <1>1. /\ sent' # <<>> /\ sent'[Len(sent')] = interested'
        /\ iStatus' = "pending"
    BY DEF Send, SetTypes
  <1> QED
    BY <1>1 DEF NeverCancelled, Agreed

\* A client that stops one of two kinds leaves the server interested in the
\* other one, so that its request is not cancelled; a client that stops all
\* is not active afterwards.
LEMMA StopAgrees ==
  ASSUME NeverCancelled, Agreed, NEW k \in Kinds, Stop(k)
  PROVE  NeverCancelled' /\ Agreed'
  <1>1. /\ sent = <<>> /\ sent' = <<>>
        /\ \/ iChangeIterested = interested
           \/ iChangeNotificationPending = "NotRequested"
    BY DEF Stop, Calls, Agreed
  <1>2. CASE interested \subseteq {k}
    <2>1. StopReporter
      BY <1>2 DEF Stop
    <2>2. iChangeNotificationPending' = "NotRequested"
      BY <2>1, <1>1 DEF StopReporter, CancelChangeNotification, Uninterested, pendingVars
    <2>3. ~isActive'
      BY <2>1 DEF StopReporter
    <2> QED
      BY <1>1, <2>2, <2>3 DEF NeverCancelled, Agreed
  <1>3. CASE ~(interested \subseteq {k})
    <2>1. /\ CancelChangeNotification({k}) /\ UNCHANGED isActive
          /\ iStatus' = (IF Cancels({k}) THEN "cancel" ELSE iStatus)
          /\ interested' = interested \ {k}
      BY <1>3 DEF Stop
    <2>2. CASE iChangeNotificationPending = "NotRequested"
      BY <1>1, <2>1, <2>2 DEF NeverCancelled, Agreed, CancelChangeNotification, Cancels,
             pendingVars
    <2>3. CASE iChangeNotificationPending # "NotRequested"
      <3>1. iChangeIterested \ {k} # {}
        BY <1>1, <1>3, <2>3
      <3>2. ~Cancels({k}) /\ iChangeIterested' = interested'
        BY <1>1, <2>1, <2>3, <3>1 DEF Cancels, CancelChangeNotification, Uninterested
      <3> QED
        BY <1>1, <2>1, <3>2 DEF NeverCancelled, Agreed
    <2> QED
      BY <2>2, <2>3
  <1> QED
    BY <1>2, <1>3

\* Neither does a step of the client itself.
LEMMA ClientAgrees ==
  ASSUME Inv, Inv', NeverCancelled, Agreed, Client
  PROVE  NeverCancelled' /\ Agreed'
  <1>0. SetTypes' /\ sent \in Seq(SUBSET Kinds)
    BY DEF Inv, TypeOK, SetTypes
  <1>1. CASE \E k \in Kinds : Start(k)
    BY <1>0, <1>1, SendAgrees DEF Start
  <1>2. CASE \E k \in Kinds : Stop(k)
    BY <1>2, StopAgrees
  <1>3. CASE Report
    BY <1>3 DEF Report, NeverCancelled, Agreed, pendingVars
  <1>4. CASE ReportLeaves \/ StraySignal \/ ClientDies
    BY <1>4 DEF ReportLeaves, StraySignal, ClientDies, ClientEnds, Fresh,
           NeverCancelled, Agreed
  <1>5. CASE Repeat
    <2>1. CASE ToRepeat
      BY <1>0, <1>5, <2>1, SendAgrees DEF Repeat
    <2>2. CASE ~ToRepeat
      BY <1>5, <2>2 DEF Repeat, NeverCancelled, Agreed, serverVars, pendingVars
    <2> QED
      BY <2>1, <2>2
  <1>6. CASE ClientBegins
    BY <1>6 DEF ClientBegins, NeverCancelled, Agreed, serverVars, pendingVars
  <1> QED
    BY <1>1, <1>2, <1>3, <1>4, <1>5, <1>6 DEF Client

\* A client that stops one of the two kinds of change and goes on watching the
\* other does not lose its request to a KErrCancel, after which CAgnChangeReporter
\* would not request again.
THEOREM WatchingIsNotCancelled == SafeSpec => []NeverCancelled
  <1>1. Init => NeverCancelled /\ Agreed
    BY DEF Init, NeverCancelled, Agreed
  <1>2. Inv /\ Inv' /\ NeverCancelled /\ Agreed /\ [Next]_vars
          => NeverCancelled' /\ Agreed'
    <2>1. ASSUME NeverCancelled, Agreed, UNCHANGED vars
          PROVE  NeverCancelled' /\ Agreed'
      BY <2>1 DEF NeverCancelled, Agreed, vars, answerVars, pendingVars, reporter
    <2> QED
      BY <2>1, ClientAgrees, ServerAgrees DEF Next
  <1> QED
    BY <1>1, <1>2, InvInvariant, PTL DEF SafeSpec
=============================================================================
