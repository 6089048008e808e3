------------------------ MODULE MCAgnChangeNotify ------------------------
(* Small instances of AgnChangeNotify for TLC. *)
EXTENDS AgnChangeNotify, TLC

ChangeSymmetry == Permutations(Changes)
=============================================================================
