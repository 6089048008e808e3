--------------------------- MODULE MCAgnServFile ---------------------------
(* Small instances of AgnServFile for TLC. *)
EXTENDS AgnServFile, TLC

SessionSymmetry == Permutations(Sessions)

\* Ranges of time, as the entries in them.
OneRange  == {{1, 2}}
TwoRanges == {{1}, {1, 2}}
=============================================================================
