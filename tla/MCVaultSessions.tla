-------------------------- MODULE MCVaultSessions --------------------------
(* Small instances of VaultSessions for TLC. *)
EXTENDS VaultSessions, TLC

(* An import file holds one active record under any id; its owner is rebound. *)
OneRecord ==
  {<<MakeMemory(id, CHOOSE o \in Owners : TRUE, CHOOSE k \in Keys : TRUE,
                CHOOSE c \in Contents : TRUE, "durable", Null, Null, 0)>> : id \in Ids}

NoBatches == {}

Symmetry == Permutations(Processes) \cup Permutations(Ids) \cup Permutations(Owners)
=============================================================================
