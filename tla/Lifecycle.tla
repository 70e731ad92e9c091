----------------------------- MODULE Lifecycle -----------------------------
(***************************************************************************)
(* The memory lifecycle state machine and the validated records it works   *)
(* on (memory/domain/enums.py, records.py, lifecycle.py).  Everything here *)
(* is pure: a transition takes a record and returns the next one.  What    *)
(* the repository does with it is in module Repository.                    *)
(*                                                                         *)
(* Abstracted: kind, lifetime, sensitivity, consent, provenance, scores,   *)
(* tags and project, which no operation of the vault branches on; the      *)
(* content hash, which is a function of the content; and timestamps, which *)
(* are small natural numbers.                                              *)
(***************************************************************************)
EXTENDS Naturals

CONSTANTS
  Owners,        \* owner ids
  Ids,           \* memory ids, one namespace for all owners (ADR-012 point 4)
  Keys,          \* canonical keys
  Contents,      \* normalized contents
  Tokens,        \* idempotency keys
  MaxTime,       \* timestamps are 0 .. MaxTime
  Null           \* Python None / SQL NULL

ASSUME NullAssumption == Null \notin Ids \cup Tokens \cup Keys
ASSUME TimeAssumption == MaxTime \in Nat /\ Null \notin Nat

Times == 0 .. MaxTime

-----------------------------------------------------------------------------
(* MemoryStatus without DELETED, which only a Tombstone can hold. *)
RowStatus == {"active", "superseded", "archived", "expired", "forgotten"}

MemoryStatus == RowStatus \cup {"deleted"}

(* The two durable policies differ in no branch of the code: one value. *)
RetentionPolicy == {"session_only", "fixed_expiry", "durable", "prohibited"}

AllowedSources ==
  [update      |-> {"active"},
   supersede   |-> {"active"},
   archive     |-> {"active", "superseded"},
   expire      |-> {"active", "archived"},
   forget      |-> {"active", "superseded", "archived", "expired"},
   hard_delete |-> RowStatus]

(* Mutant of CanTransition: archiving checks no source status. *)
ArchiveFromAnywhere(transition, status) ==
  transition = "archive" \/ status \in AllowedSources[transition]

CanTransition(transition, status) == status \in AllowedSources[transition]

-----------------------------------------------------------------------------
Record ==
  [id: Ids, owner: Owners, status: RowStatus, key: Keys, content: Contents,
   retention: RetentionPolicy, created: Times, updated: Times,
   expires: Times \cup {Null}, supersedes: Ids \cup {Null},
   superseded_by: Ids \cup {Null}, reinforced: Nat, idem: Tokens \cup {Null}]

(* MemoryRecord.__post_init__, run on every construction, replace() and    *)
(* read of a row.                                                          *)
ValidRecord(r) ==
  /\ r.retention # "prohibited"
  /\ r.updated >= r.created
  /\ r.expires # Null => r.expires >= r.created
  /\ r.retention = "fixed_expiry" => r.expires # Null
  /\ r.status = "superseded" => r.superseded_by # Null
  /\ r.status = "active" => r.superseded_by = Null
  /\ r.superseded_by # r.id
  /\ r.supersedes # r.id

(* make_memory: a new ACTIVE record stamped with one time. *)
MakeMemory(id, owner, key, content, retention, expires, idem, at) ==
  [id |-> id, owner |-> owner, status |-> "active", key |-> key,
   content |-> content, retention |-> retention, created |-> at,
   updated |-> at, expires |-> expires, supersedes |-> Null,
   superseded_by |-> Null, reinforced |-> 0, idem |-> idem]

(* update_memory: the canonical key is kept, only the content changes.     *)
UpdatedMemory(r, content, at) == [r EXCEPT !.content = content, !.updated = at]

(* supersede_memory: the two linked records. *)
SupersededMemory(old, new, at) ==
  [old EXCEPT !.status = "superseded", !.superseded_by = new.id, !.updated = at]

(* Mutant of LinkedReplacement: the link back to the old record is lost. *)
UnlinkedReplacement(old, new, at) == [new EXCEPT !.updated = at]

LinkedReplacement(old, new, at) ==
  [new EXCEPT !.supersedes = old.id, !.updated = at]

(* _to_status, shared by archive_memory, expire_memory, forget_memory. *)
ToStatus(r, target, at) == [r EXCEPT !.status = target, !.updated = at]
=============================================================================
