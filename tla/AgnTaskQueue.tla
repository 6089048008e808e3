---------------------------- MODULE AgnTaskQueue ----------------------------
(***************************************************************************)
(* What a calendar file promises the sessions whose requests it holds,     *)
(* whatever the task: a session has at most one request and one blocking   *)
(* wait in the queue; a progress report answers those, and only those,     *)
(* that asked for reports; the end of the task answers everybody; nobody   *)
(* else leaves the queue unless its session gives up.                      *)
(***************************************************************************)
CONSTANT Sessions

VARIABLES busy,      \* a task runs
          pending    \* the messages that wait for an answer

vars == <<busy, pending>>

Messages == [session : Sessions, kind : {"task", "wait"}, reportProgress : BOOLEAN]

Init == busy = FALSE /\ pending = {}

\* A request begins a task or joins the running one.
Submit(x) ==
  /\ \A y \in pending : y.session # x.session \/ y.kind # x.kind
  /\ pending' = pending \cup {x}
  /\ busy' = TRUE

Progress ==
  /\ busy
  /\ pending' = {x \in pending : ~x.reportProgress}
  /\ UNCHANGED busy

Finish == pending' = {} /\ busy' = FALSE

\* A session gives up requests of its own; the task ends with them.
GiveUp(s) ==
  /\ \E X \in SUBSET {x \in pending : x.session = s} :
        X # {} /\ pending' = pending \ X
  /\ busy' = FALSE

Next == \/ \E x \in Messages : Submit(x)
        \/ Progress \/ Finish
        \/ \E s \in Sessions : GiveUp(s)

Spec == Init /\ [][Next]_vars
=============================================================================
