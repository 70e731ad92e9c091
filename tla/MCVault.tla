------------------------------ MODULE MCVault ------------------------------
(* Small instances of Vault for TLC. *)
EXTENDS Vault, TLC

(* Records of an import file: an active and a superseded one, with links   *)
(* into whatever store they were exported from; the owner is rebound.      *)
ImportedRecord(id, by, status) ==
  [MakeMemory(id, CHOOSE o \in Owners : TRUE, CHOOSE k \in Keys : TRUE,
              CHOOSE c \in Contents : TRUE, "durable", Null, Null, 0)
     EXCEPT !.status = status, !.superseded_by = by]

OneOrTwoRecords ==
  {<<ImportedRecord(id, Null, "active")>> : id \in Ids} \cup
  {<<ImportedRecord(p[1], p[2], "superseded"), ImportedRecord(p[2], Null, "active")>> :
     p \in {q \in Ids \X Ids : q[1] # q[2]}}

NoBatches == {}

Symmetry == Permutations(Ids) \cup Permutations(Owners)
=============================================================================
