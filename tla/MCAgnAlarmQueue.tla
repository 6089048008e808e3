-------------------------- MODULE MCAgnAlarmQueue --------------------------
(* Instances of AgnAlarmQueue for TLC. *)
EXTENDS AgnAlarmQueue, TLC

CONSTANTS f1, f2, e1, e2
TwoInOne  == (f1 :> {e1, e2}) @@ (f2 :> {e1})   \* files that share an entry id
OneFile   == f1 :> {e1, e2}
Changes   == [c \in Clients |-> f1]               \* where clients make changes
ServerOps == Operations \ {"update", "snooze"}
EditOps   == {"add", "update", "delete", "snooze"}
=============================================================================
