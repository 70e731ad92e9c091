----------------------------- MODULE Repository ----------------------------
(***************************************************************************)
(* MemoryRepository (memory/vault/repository.py) over one SQLite file: the *)
(* tables memories, memories_fts and audit_events, the SQL statements as   *)
(* functions on tables, and one action per write method.                   *)
(*                                                                         *)
(* A method that changes an existing memory first SELECTs it outside any   *)
(* transaction and then writes the WHOLE row with                          *)
(* UPDATE ... WHERE id AND owner_id inside one.  Its action therefore      *)
(* takes the loaded record "cur" as a parameter: module Vault gives it the *)
(* row as it is now, module VaultSessions the row as another process may   *)
(* have left it behind.                                                    *)
(*                                                                         *)
(* A call that raises changes nothing, so it is simply not a step.         *)
(***************************************************************************)
EXTENDS Lifecycle, Sequences

CONSTANTS
  MaxEvents,      \* bound: length of audit_events
  MaxReinforced   \* bound: reinforcement_count

ASSUME BoundAssumption == MaxEvents \in Nat /\ MaxReinforced \in Nat

VARIABLES
  memories,   \* the memories table, a set of records
  fts,        \* the rows of memories_fts, a set of <<memory_id, content>>
  audit,      \* audit_events in insertion order
  indexed,    \* the file contains the table memories_fts
  fts5        \* the running SQLite build has FTS5

tables == <<memories, fts, audit>>
connection == <<indexed, fts5>>
repoVars == <<memories, fts, audit, indexed, fts5>>

AuditAction ==
  {"create", "update", "supersede", "archive", "expire", "forget",
   "hard_delete", "import", "reinforce"}

(* "reason" keeps what the free text of the reason gives away: the         *)
(* canonical key spelled out in it, or Null.                               *)
AuditEvent ==
  [memory: Ids, owner: Owners, action: AuditAction, at: Times,
   reason: Keys \cup {Null}, from: RowStatus \cup {Null}, to: MemoryStatus]

HasRoom(n) == Len(audit) + n <= MaxEvents

-----------------------------------------------------------------------------
(* SQL statements *)

(* Mutant of NoConflict: no unique index on the idempotency key. *)
NoIdConflict(table, r) == \A s \in table : s.id # r.id

(* INSERT INTO memories: the primary key is global, the idempotency key is *)
(* unique per owner (idx_memories_owner_idem).                             *)
NoConflict(table, r) ==
  \A s \in table :
    /\ s.id # r.id
    /\ r.idem # Null => ~ (s.owner = r.owner /\ s.idem = r.idem)

(* Mutant of UpdateRow: INSERT OR REPLACE. *)
UpsertRow(table, r) == {s \in table : s.id # r.id} \cup {r}

(* UPDATE memories SET ... WHERE id = :id AND owner_id = :owner_id *)
UpdateRow(table, r) ==
  LET hit == {s \in table : s.id = r.id /\ s.owner = r.owner}
  IN  IF hit = {} THEN table ELSE (table \ hit) \cup {r}

(* Mutant of UpdateAllowed: the index is on the rows INSERT makes only. *)
UpdateUnchecked(table, r) == r \in Record

(* ... which the unique index on (owner_id, idempotency_key) may refuse.   *)
UpdateAllowed(table, r) ==
  (r.idem # Null /\ \E s \in table : s.id = r.id /\ s.owner = r.owner) =>
    \A s \in table : s.owner = r.owner /\ s.idem = r.idem => s.id = r.id

(* DELETE FROM memories WHERE owner_id = ? AND id = ? *)
DeleteRow(table, owner, id) ==
  {s \in table : ~ (s.id = id /\ s.owner = owner)}

(* Mutant of Deindex: _fts_delete is forgotten. *)
DeindexNothing(index, id) == index

(* DELETE FROM memories_fts WHERE memory_id = ? *)
Deindex(index, id) == {e \in index : e[1] # id}

(* The FTS half of _insert: active records only, nothing removed first. *)
IndexInserted(index, records) ==
  IF indexed
    THEN index \cup {<<r.id, r.content>> : r \in {s \in records : s.status = "active"}}
    ELSE index

(* Mutants of IndexUpdated: the old entry is not removed first, and an     *)
(* update of an active record does not put the new entry in.               *)
IndexAdded(index, r) == IF indexed THEN IndexInserted(index, {r}) ELSE index

IndexRemoved(index, r) == IF indexed THEN Deindex(index, r.id) ELSE index

(* The FTS half of _update_row: reindex if still active, deindex otherwise. *)
IndexUpdated(index, r) ==
  IF indexed THEN IndexInserted(Deindex(index, r.id), {r}) ELSE index

(* A statement on memories_fts fails in a build without the FTS5 module.   *)
FtsUsable == indexed => fts5

(* Mutant of Event: the status read is recorded as the status reached. *)
StaleEvent(r, owner, action, at, reason, from, to) ==
  [memory |-> r.id, owner |-> owner, action |-> action, at |-> at, reason |-> reason,
   from |-> from, to |-> IF from = Null THEN to ELSE from]

Event(r, owner, action, at, reason, from, to) ==
  [memory |-> r.id, owner |-> owner, action |-> action, at |-> at,
   reason |-> reason, from |-> from, to |-> to]

-----------------------------------------------------------------------------
(* create *)
Create(r, reason) ==
  /\ HasRoom(1)
  /\ ValidRecord(r)
  /\ NoConflict(memories, r)   \* an equal idempotency key returns the old record
  /\ FtsUsable
  /\ memories' = memories \cup {r}
  /\ fts' = IndexInserted(fts, {r})
  /\ audit' = Append(audit, Event(r, r.owner, "create", r.created, reason, Null, r.status))
  /\ UNCHANGED connection

(* Mutant of PersistUpdate: the new record is written unvalidated. *)
PersistUnchecked(cur, r, action, at, reason) ==
  /\ HasRoom(1)
  /\ UpdateAllowed(memories, r)
  /\ FtsUsable
  /\ memories' = UpdateRow(memories, r)
  /\ fts' = IndexUpdated(fts, r)
  /\ audit' = Append(audit, Event(cur, cur.owner, action, at, reason, cur.status, r.status))
  /\ UNCHANGED connection

(* _persist_update, and the same two statements in reinforce and set_policy *)
PersistUpdate(cur, r, action, at, reason) ==
  /\ HasRoom(1)
  /\ ValidRecord(r)
  /\ UpdateAllowed(memories, r)
  /\ FtsUsable
  /\ memories' = UpdateRow(memories, r)
  /\ fts' = IndexUpdated(fts, r)
  /\ audit' = Append(audit, Event(cur, cur.owner, action, at, reason, cur.status, r.status))
  /\ UNCHANGED connection

(* update: "content" may equal the old one (only a score was changed). *)
Update(cur, content, at) ==
  /\ CanTransition("update", cur.status)
  /\ PersistUpdate(cur, UpdatedMemory(cur, content, at), "update", at, Null)

(* archive, expire, forget: _simple_transition *)
Archive(cur, at) ==
  /\ CanTransition("archive", cur.status)
  /\ PersistUpdate(cur, ToStatus(cur, "archived", at), "archive", at, Null)

Expire(cur, at) ==
  /\ CanTransition("expire", cur.status)
  /\ PersistUpdate(cur, ToStatus(cur, "expired", at), "expire", at, Null)

Forget(cur, at, reason) ==
  /\ CanTransition("forget", cur.status)
  /\ PersistUpdate(cur, ToStatus(cur, "forgotten", at), "forget", at, reason)

(* reinforce: only an ACTIVE memory *)
Reinforce(cur, at) ==
  /\ cur.status = "active"
  /\ cur.reinforced < MaxReinforced
  /\ PersistUpdate(cur,
       [cur EXCEPT !.reinforced = @ + 1, !.updated = at], "reinforce", at, Null)

(* set_policy: only an ACTIVE memory; None leaves expires_at as it was. *)
SetPolicy(cur, retention, expires, at) ==
  /\ cur.status = "active"
  /\ PersistUpdate(cur,
       [cur EXCEPT !.retention = retention,
                   !.expires = IF expires # Null THEN expires ELSE @,
                   !.updated = at], "update", at, Null)

(* supersede: update the old row, insert the replacement, two events. *)
Supersede(cur, replacement, at, reason) ==
  LET old == SupersededMemory(cur, replacement, at)
      new == LinkedReplacement(cur, replacement, at)
      rowsAfterUpdate == UpdateRow(memories, old)
  IN  /\ HasRoom(2)
      /\ CanTransition("supersede", cur.status)
      /\ replacement.status = "active"
      /\ cur.id # replacement.id
      /\ cur.owner = replacement.owner
      /\ ValidRecord(old) /\ ValidRecord(new)
      /\ UpdateAllowed(memories, old)
      /\ NoConflict(rowsAfterUpdate, new)
      /\ FtsUsable
      /\ memories' = rowsAfterUpdate \cup {new}
      /\ fts' = IndexInserted(IndexUpdated(fts, old), {new})
      /\ audit' = audit \o
           << Event(cur, cur.owner, "supersede", at, reason, cur.status, "superseded"),
              Event(new, cur.owner, "create", at, Null, Null, "active") >>
      /\ UNCHANGED connection

(* hard_delete: the row and its index entry go, a content-free event stays. *)
HardDelete(cur, at) ==
  /\ HasRoom(1)
  /\ CanTransition("hard_delete", cur.status)
  /\ FtsUsable
  /\ memories' = DeleteRow(memories, cur.owner, cur.id)
  /\ fts' = IF indexed THEN Deindex(fts, cur.id) ELSE fts
  /\ audit' = Append(audit, Event(cur, cur.owner, "hard_delete", at, Null, cur.status, "deleted"))
  /\ UNCHANGED connection

(* import_records: a sequence of records of one owner, all or nothing.     *)
(* dict_to_memory has rebound each to the importing owner.                 *)
ImportRecords(owner, batch) ==
  LET recs == [i \in DOMAIN batch |-> [batch[i] EXCEPT !.owner = owner]]
      inserted == {recs[i] : i \in DOMAIN recs}
  IN  /\ batch # <<>>
      /\ HasRoom(Len(batch))
      /\ \A i \in DOMAIN recs :
           /\ ValidRecord(recs[i])
           /\ NoConflict(memories \cup {recs[j] : j \in 1 .. i - 1}, recs[i])
      /\ (\E r \in inserted : r.status = "active") => FtsUsable
      /\ memories' = memories \cup inserted
      /\ fts' = IndexInserted(fts, inserted)
      /\ audit' = audit \o [i \in DOMAIN recs |->
           Event(recs[i], owner, "import", recs[i].updated, Null, Null, recs[i].status)]
      /\ UNCHANGED connection

(* connect(): the process restarts on a build with or without FTS5;        *)
(* ensure_search_index creates an EMPTY index when it can and none exists. *)
Connect(build) ==
  /\ fts5' = build
  /\ indexed' = (indexed \/ build)
  /\ UNCHANGED tables
=============================================================================
