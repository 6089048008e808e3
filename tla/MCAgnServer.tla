---------------------------- MODULE MCAgnServer ----------------------------
(* Small instances of AgnServer for TLC. *)
EXTENDS AgnServer, TLC

SessionSymmetry == Permutations(Sessions)

\* One calendar, which a restore gives another id; two calendars, with an id
\* each or such that a restore can exchange the order of their ids.
OneName  == {"work"}
TwoNames == {"work", "home"}
NewIds   == [n \in OneName |-> {1, 2}]
OneId    == [n \in TwoNames |-> IF n = "work" THEN {1} ELSE {2}]
TwoIds   == [n \in TwoNames |-> IF n = "work" THEN {1, 3} ELSE {2}]
=============================================================================
