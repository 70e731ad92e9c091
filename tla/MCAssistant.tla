---------------------------- MODULE MCAssistant ----------------------------
(* Small instances of Assistant for TLC. *)
EXTENDS Assistant, TLC

Symmetry ==
  Permutations(Ids) \cup Permutations(Contents) \cup Permutations(Owners) \cup Permutations(Keys)

(* If every process may do everything *)
FullSymmetry == Symmetry \cup Permutations(Processes)
=============================================================================
