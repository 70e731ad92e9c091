------------------------ MODULE VaultSessionsProofs -------------------------
(***************************************************************************)
(* Theorems about VaultSessions for any number of processes and all        *)
(* owners, ids, contents, times, bounds and import batches.  The record a  *)
(* method has loaded is any record at all in these proofs: nothing below   *)
(* depends on how stale it is.                                             *)
(***************************************************************************)
EXTENDS VaultSessions, TLAPS

-----------------------------------------------------------------------------
(* What a transaction can be. *)

KeepsKeys(cur, r) ==
  r \in Record /\ r.id = cur.id /\ r.owner = cur.owner /\ r.idem = cur.idem

Persists(cur) ==
  \E r \in Record, action \in AuditAction, at \in Times :
    KeepsKeys(cur, r) /\ PersistUpdate(cur, r, action, at, Null)

Supersedes(cur) ==
  \E r \in Record, at \in Times : Supersede(cur, r, at, Null)

Creates == \E r \in Record : Create(r, Null)

Imports == \E o \in Owners, batch \in Batches : ImportRecords(o, batch)

LEMMA NewMemoryType ==
  ASSUME NEW o \in Owners, NEW at \in Times, NEW r \in NewMemories(o, at)
  PROVE  r \in Record
<1>1. PICK id \in {x \in Ids : Unused(x)}, key \in Keys, content \in Contents,
           retention \in Policies, idem \in Tokens \cup {Null} :
        r = MakeMemory(id, o, key, content, retention, Null, idem, at)
  BY DEF NewMemories
<1>. QED
  BY <1>1, SessionAssumption DEF MakeMemory, Record, RowStatus

LEMMA CommitShape ==
  ASSUME TypeOK, NEW p \in Processes, Commit(p)
  PROVE  \E cur \in Record : Persists(cur) \/ Supersedes(cur) \/ FinishHardDelete(cur)
<1>. DEFINE cur == loaded[p]
<1>0. cur \in Record
  BY DEF Commit, Idle, TypeOK
<1>. HIDE DEF cur
<1>. SUFFICES Persists(cur) \/ Supersedes(cur) \/ FinishHardDelete(cur)
  BY <1>0
<1>1. CASE FinishUpdate(cur)
  <2>1. PICK content \in Contents, at \in Times : Update(cur, content, at)
    BY <1>1 DEF FinishUpdate
  <2>2. KeepsKeys(cur, UpdatedMemory(cur, content, at))
    BY <1>0 DEF KeepsKeys, UpdatedMemory, Record
  <2>. QED
    BY <2>1, <2>2 DEF Update, Persists, AuditAction, KeepsKeys
<1>2. ASSUME NEW target \in RowStatus, NEW at \in Times
      PROVE  KeepsKeys(cur, ToStatus(cur, target, at))
  BY <1>0 DEF KeepsKeys, ToStatus, Record
<1>3. CASE FinishArchive(cur) \/ FinishExpire(cur) \/ FinishForget(cur)
  <2>1. PICK target \in {"archived", "expired", "forgotten"}, action \in AuditAction,
             at \in Times : PersistUpdate(cur, ToStatus(cur, target, at), action, at, Null)
    BY <1>3 DEF FinishArchive, FinishExpire, FinishForget, Archive, Expire, Forget, AuditAction
  <2>2. KeepsKeys(cur, ToStatus(cur, target, at))
    BY <1>2 DEF RowStatus
  <2>. QED
    BY <2>1, <2>2 DEF Persists, KeepsKeys
<1>4. CASE FinishReinforce(cur)
  <2>1. PICK at \in Times : Reinforce(cur, at)
    BY <1>4 DEF FinishReinforce
  <2>. DEFINE r == [cur EXCEPT !.reinforced = @ + 1, !.updated = at]
  <2>2. cur.reinforced + 1 \in Nat
    BY <1>0 DEF Record
  <2>3. r \in Record
    BY <1>0, <2>2 DEF Record
  <2>4. r.id = cur.id /\ r.owner = cur.owner /\ r.idem = cur.idem
    BY <1>0 DEF Record
  <2>5. PersistUpdate(cur, r, "reinforce", at, Null)
    BY <2>1 DEF Reinforce
  <2>. HIDE DEF r
  <2>. QED
    BY <2>3, <2>4, <2>5 DEF Persists, AuditAction, KeepsKeys
<1>5. CASE FinishSetPolicy(cur)
  <2>1. PICK retention \in Policies, expires \in Times \cup {Null}, at \in Times :
          SetPolicy(cur, retention, expires, at)
    BY <1>5 DEF FinishSetPolicy
  <2>2. KeepsKeys(cur, [cur EXCEPT !.retention = retention,
                          !.expires = IF expires # Null THEN expires ELSE @,
                          !.updated = at])
    BY <1>0, SessionAssumption, ZenonT(60) DEF KeepsKeys, Record
  <2>. QED
    BY <2>1, <2>2 DEF SetPolicy, Persists, AuditAction, KeepsKeys
<1>6. CASE FinishSupersede(cur)
  <2>1. cur.owner \in Owners
    BY <1>0 DEF Record
  <2>. QED
    BY <1>6, <2>1, NewMemoryType DEF FinishSupersede, Supersedes
<1>. QED
  BY <1>1, <1>3, <1>4, <1>5, <1>6 DEF Commit, cur

(* What each kind of transaction makes of the tables. *)

LEMMA PersistEffect ==
  ASSUME NEW cur \in Record, NEW r \in Record, NEW action \in AuditAction, NEW at \in Times,
         KeepsKeys(cur, r), PersistUpdate(cur, r, action, at, Null)
  PROVE  /\ memories' = UpdateRow(memories, r) /\ UpdateAllowed(memories, r) /\ ValidRecord(r)
         /\ fts' = IndexUpdated(fts, r)
         /\ \E e \in AuditEvent :
              /\ audit' = Append(audit, e)
              /\ e.memory = r.id /\ e.owner = r.owner /\ e.to = r.status
<1>. DEFINE e == Event(cur, cur.owner, action, at, Null, cur.status, r.status)
<1>1. e \in AuditEvent
  BY DEF Event, AuditEvent, Record, MemoryStatus
<1>2. e.memory = r.id /\ e.owner = r.owner /\ e.to = r.status
  BY DEF Event, KeepsKeys
<1>3. audit' = Append(audit, e)
  BY DEF PersistUpdate
<1>. HIDE DEF e
<1>. QED
  BY <1>1, <1>2, <1>3 DEF PersistUpdate

SupersedeResult(cur, old, new, e1, e2) ==
  /\ old.id = cur.id /\ old.owner = cur.owner /\ old.status = "superseded"
  /\ new.owner = cur.owner /\ new.status = "active" /\ new.id # old.id
  /\ ValidRecord(old) /\ ValidRecord(new)
  /\ UpdateAllowed(memories, old) /\ NoConflict(UpdateRow(memories, old), new)
  /\ memories' = UpdateRow(memories, old) \cup {new}
  /\ fts' = IndexInserted(IndexUpdated(fts, old), {new})
  /\ audit' = audit \o <<e1, e2>>
  /\ e1.memory = old.id /\ e1.owner = old.owner /\ e1.to = old.status
  /\ e2.memory = new.id /\ e2.owner = new.owner /\ e2.to = new.status
  /\ e2.action = "create"

LEMMA SupersedeEffect ==
  ASSUME NEW cur \in Record, NEW r \in Record, NEW at \in Times, Supersede(cur, r, at, Null)
  PROVE  \E old \in Record, new \in Record, e1 \in AuditEvent, e2 \in AuditEvent :
           SupersedeResult(cur, old, new, e1, e2)
<1>. DEFINE old == SupersededMemory(cur, r, at)
            new == LinkedReplacement(cur, r, at)
            e1 == Event(cur, cur.owner, "supersede", at, Null, cur.status, "superseded")
            e2 == Event(new, cur.owner, "create", at, Null, Null, "active")
<1>1. /\ old \in Record /\ old.id = cur.id /\ old.owner = cur.owner
      /\ old.status = "superseded"
  BY DEF SupersededMemory, Record, RowStatus
<1>2. /\ new \in Record /\ new.id = r.id /\ new.owner = r.owner /\ new.status = r.status
  BY DEF LinkedReplacement, Record, RowStatus
<1>3. e1 \in AuditEvent /\ e1.memory = cur.id /\ e1.owner = cur.owner /\ e1.to = "superseded"
  BY DEF Event, AuditEvent, Record, AuditAction, MemoryStatus, RowStatus
<1>4. /\ e2 \in AuditEvent /\ e2.memory = new.id /\ e2.owner = cur.owner /\ e2.to = "active"
      /\ e2.action = "create"
  <2>. HIDE DEF new
  <2>. QED
    BY <1>2 DEF Event, AuditEvent, Record, AuditAction, MemoryStatus, RowStatus
<1>5. /\ r.status = "active" /\ cur.id # r.id /\ cur.owner = r.owner
      /\ ValidRecord(old) /\ ValidRecord(new)
      /\ UpdateAllowed(memories, old) /\ NoConflict(UpdateRow(memories, old), new)
      /\ memories' = UpdateRow(memories, old) \cup {new}
      /\ fts' = IndexInserted(IndexUpdated(fts, old), {new})
      /\ audit' = audit \o <<e1, e2>>
  BY DEF Supersede
<1>. HIDE DEF old, new, e1, e2
<1>6. SupersedeResult(cur, old, new, e1, e2)
  BY <1>1, <1>2, <1>3, <1>4, <1>5 DEF SupersedeResult
<1>. QED
  BY <1>1, <1>2, <1>3, <1>4, <1>6

(* The records of a batch differ in their keys, since each is inserted     *)
(* into a table that already holds the ones before it.                     *)
ImportResult(recs, events) ==
  /\ Len(events) = Len(recs)
  /\ \A i \in 1 .. Len(recs) : NoConflict(memories, recs[i]) /\ ValidRecord(recs[i])
  /\ \A i, j \in 1 .. Len(recs) :
       i # j => /\ recs[i].id # recs[j].id
                /\ recs[i].idem # Null =>
                     ~ (recs[i].owner = recs[j].owner /\ recs[i].idem = recs[j].idem)
  /\ memories' = memories \cup {recs[i] : i \in 1 .. Len(recs)}
  /\ fts' = IndexInserted(fts, {recs[i] : i \in 1 .. Len(recs)})
  /\ audit' = audit \o events
  /\ \A i \in 1 .. Len(recs) :
       /\ events[i].memory = recs[i].id /\ events[i].owner = recs[i].owner
       /\ events[i].to = recs[i].status /\ events[i].action = "import"

LEMMA ImportEffect ==
  ASSUME NEW o \in Owners, NEW batch \in Batches, ImportRecords(o, batch)
  PROVE  \E recs \in Seq(Record), events \in Seq(AuditEvent) : ImportResult(recs, events)
<1>. DEFINE recs == [i \in DOMAIN batch |-> [batch[i] EXCEPT !.owner = o]]
            events == [i \in DOMAIN recs |->
              Event(recs[i], o, "import", recs[i].updated, Null, Null, recs[i].status)]
<1>1. batch \in Seq(Record)
  BY SessionAssumption
<1>2. \A i \in DOMAIN batch : [batch[i] EXCEPT !.owner = o] \in Record
                                /\ [batch[i] EXCEPT !.owner = o].owner = o
  <2>1. \A i \in DOMAIN batch : batch[i] \in Record
    BY <1>1
  <2>. QED
    BY <2>1 DEF Record
<1>3. recs \in Seq(Record) /\ DOMAIN recs = 1 .. Len(batch) /\ Len(recs) = Len(batch)
  BY <1>1, <1>2
<1>4. \A i \in 1 .. Len(batch) : recs[i] \in Record /\ recs[i].owner = o
  BY <1>1, <1>2
<1>5. /\ \A i \in DOMAIN recs :
           ValidRecord(recs[i]) /\ NoConflict(memories \cup {recs[j] : j \in 1 .. i - 1}, recs[i])
      /\ memories' = memories \cup {recs[i] : i \in DOMAIN recs}
      /\ fts' = IndexInserted(fts, {recs[i] : i \in DOMAIN recs})
      /\ audit' = audit \o events
  BY DEF ImportRecords
<1>6. Len(batch) \in Nat
  BY <1>1
<1>. HIDE DEF recs
<1>7. ASSUME NEW i \in 1 .. Len(batch)
      PROVE  /\ events[i] \in AuditEvent
             /\ events[i].memory = recs[i].id /\ events[i].owner = recs[i].owner
             /\ events[i].to = recs[i].status /\ events[i].action = "import"
  <2>1. events[i] = Event(recs[i], o, "import", recs[i].updated, Null, Null, recs[i].status)
    BY <1>3
  <2>. HIDE DEF events
  <2>2. /\ recs[i] \in Record /\ recs[i].owner = o /\ recs[i].id \in Ids
        /\ recs[i].updated \in Times /\ recs[i].status \in MemoryStatus
    BY <1>4 DEF Record, MemoryStatus
  <2>. QED
    BY <2>1, <2>2 DEF Event, AuditEvent, AuditAction
<1>8. events \in Seq(AuditEvent) /\ Len(events) = Len(batch)
  BY <1>3, <1>6, <1>7
<1>. HIDE DEF events
<1>9. \A i, j \in 1 .. Len(batch) : j < i => recs[j] \in {recs[k] : k \in 1 .. i - 1}
  BY <1>6
<1>10. \A i, j \in 1 .. Len(batch) :
         j < i => /\ recs[i].id # recs[j].id
                  /\ recs[i].idem # Null =>
                       ~ (recs[i].owner = recs[j].owner /\ recs[i].idem = recs[j].idem)
  BY <1>3, <1>5, <1>9 DEF NoConflict
<1>11. \A i, j \in 1 .. Len(batch) : i # j => i < j \/ j < i
  BY <1>6
<1>12. \A i, j \in 1 .. Len(recs) :
         i # j => /\ recs[i].id # recs[j].id
                  /\ recs[i].idem # Null =>
                       ~ (recs[i].owner = recs[j].owner /\ recs[i].idem = recs[j].idem)
  BY <1>3, <1>10, <1>11
<1>13. \A i \in 1 .. Len(recs) : NoConflict(memories, recs[i]) /\ ValidRecord(recs[i])
  BY <1>3, <1>5 DEF NoConflict
<1>14. ImportResult(recs, events)
  BY <1>3, <1>5, <1>7, <1>8, <1>12, <1>13 DEF ImportResult
<1>. QED
  BY <1>3, <1>8, <1>14
-----------------------------------------------------------------------------
(* Types *)

Stored == {r \in Record : ValidRecord(r)}

LEMMA EntryType ==
  ASSUME NEW r \in Record
  PROVE  <<r.id, r.content>> \in Ids \X Contents
BY DEF Record

TablesOK ==
  memories \subseteq Stored /\ fts \subseteq Ids \X Contents /\ audit \in Seq(AuditEvent)

LEMMA TablesPersist ==
  ASSUME TablesOK, NEW cur \in Record, Persists(cur)
  PROVE  TablesOK'
<1>1. PICK r \in Record, action \in AuditAction, at \in Times :
        KeepsKeys(cur, r) /\ PersistUpdate(cur, r, action, at, Null)
  BY DEF Persists
<1>. QED
  BY <1>1, PersistEffect, EntryType
  DEF TablesOK, UpdateRow, IndexUpdated, IndexInserted, Deindex, Stored

LEMMA TablesSupersede ==
  ASSUME TablesOK, NEW cur \in Record, Supersedes(cur)
  PROVE  TablesOK'
<1>1. PICK r \in Record, at \in Times : Supersede(cur, r, at, Null)
  BY DEF Supersedes
<1>2. PICK old \in Record, new \in Record, e1 \in AuditEvent, e2 \in AuditEvent :
        SupersedeResult(cur, old, new, e1, e2)
  BY <1>1, SupersedeEffect
<1>3. IndexUpdated(fts, old) \subseteq Ids \X Contents
  BY EntryType DEF TablesOK, IndexUpdated, IndexInserted, Deindex
<1>4. fts' \subseteq Ids \X Contents
  BY <1>2, <1>3, EntryType DEF SupersedeResult, IndexInserted
<1>5. <<e1, e2>> \in Seq(AuditEvent)
  OBVIOUS
<1>6. audit' \in Seq(AuditEvent)
  BY <1>2, <1>5 DEF SupersedeResult, TablesOK
<1>7. memories' \subseteq Stored
  BY <1>2 DEF SupersedeResult, TablesOK, UpdateRow, Stored
<1>. QED
  BY <1>4, <1>6, <1>7 DEF TablesOK

LEMMA TablesImport ==
  ASSUME TablesOK, Imports
  PROVE  TablesOK'
<1>1. PICK o \in Owners, batch \in Batches : ImportRecords(o, batch)
  BY DEF Imports
<1>2. PICK recs \in Seq(Record), events \in Seq(AuditEvent) : ImportResult(recs, events)
  BY <1>1, ImportEffect
<1>3. \A i \in 1 .. Len(recs) : recs[i] \in Record
  OBVIOUS
<1>. QED
  BY <1>2, <1>3, EntryType DEF ImportResult, TablesOK, IndexInserted, Stored

LEMMA TablesCreate ==
  ASSUME TablesOK, Creates
  PROVE  TablesOK'
<1>1. PICK r \in Record : Create(r, Null)
  BY DEF Creates
<1>2. Event(r, r.owner, "create", r.created, Null, Null, r.status) \in AuditEvent
  BY DEF Event, AuditEvent, Record, AuditAction, MemoryStatus
<1>. QED
  BY <1>1, <1>2, EntryType DEF Create, TablesOK, IndexInserted, Stored

LEMMA TablesDelete ==
  ASSUME TablesOK, NEW cur \in Record, FinishHardDelete(cur)
  PROVE  TablesOK'
<1>1. PICK at \in Times : HardDelete(cur, at)
  BY DEF FinishHardDelete
<1>2. Event(cur, cur.owner, "hard_delete", at, Null, cur.status, "deleted") \in AuditEvent
  BY DEF Event, AuditEvent, Record, AuditAction, MemoryStatus
<1>. QED
  BY <1>1, <1>2 DEF HardDelete, DeleteRow, Deindex, TablesOK, Stored

(* A step is a transaction or leaves the tables alone.                     *)
LEMMA StepShape ==
  ASSUME TypeOK, [Next]_vars
  PROVE  \/ Creates
         \/ Imports
         \/ \E cur \in Record : Persists(cur) \/ Supersedes(cur) \/ FinishHardDelete(cur)
         \/ UNCHANGED tables
<1>1. CASE UNCHANGED vars
  BY <1>1 DEF vars, repoVars, tables
<1>2. ASSUME NEW p \in Processes, CreateNew(p) PROVE Creates
  BY <1>2, NewMemoryType DEF CreateNew, Creates
<1>3. ASSUME NEW p \in Processes, Load(p) \/ Raise(p) PROVE UNCHANGED tables
  BY <1>3 DEF Load, Raise, repoVars, tables
<1>4. ASSUME NEW p \in Processes, Import(p) PROVE Imports
  BY <1>4 DEF Import, Imports
<1>. QED
  BY <1>1, <1>2, <1>3, <1>4, CommitShape DEF Next

LEMMA TypeStep == TypeOK /\ [Next]_vars => TypeOK'
<1>. SUFFICES ASSUME TypeOK, [Next]_vars PROVE TypeOK'
  OBVIOUS
<1>1. TablesOK
  BY DEF TypeOK, TablesOK, Stored
<1>2. TablesOK'
  <2>1. CASE UNCHANGED tables
    BY <1>1, <2>1 DEF tables, TablesOK, Stored
  <2>. QED
    BY <1>1, <2>1, StepShape, TablesCreate, TablesImport, TablesPersist, TablesSupersede,
       TablesDelete
<1>3. loaded' \in [Processes -> Record \cup {Null}]
  BY DEF TypeOK, Next, Load, Commit, Raise, CreateNew, Import, vars
<1>. QED
  BY <1>2, <1>3 DEF TypeOK, TablesOK, Stored

(* Type correctness, also of what a stale write leaves behind. *)
THEOREM TypeCorrect == Spec => []TypeOK
<1>1. Init => TypeOK
  BY DEF Init, TypeOK
<1>. QED
  BY <1>1, TypeStep, PTL DEF Spec
-----------------------------------------------------------------------------
(* Keys.  A stale write may carry an idempotency key the row had when it   *)
(* was read; the unique index refuses it if another row has it now.        *)

UniqueIn(table) ==
  \A r, s \in table :
    r # s => /\ r.id # s.id
             /\ r.idem # Null => ~ (r.owner = s.owner /\ r.idem = s.idem)

LEMMA UpdateKeepsUnique ==
  ASSUME NEW table, NEW r, UniqueIn(table), UpdateAllowed(table, r)
  PROVE  UniqueIn(UpdateRow(table, r))
<1>. DEFINE hit == {s \in table : s.id = r.id /\ s.owner = r.owner}
<1>1. CASE hit = {}
  BY <1>1 DEF UpdateRow
<1>2. CASE hit # {}
  <2>1. UpdateRow(table, r) = (table \ hit) \cup {r}
    BY <1>2 DEF UpdateRow
  <2>2. ASSUME NEW s \in table \ hit
        PROVE  /\ s.id # r.id
               /\ r.idem # Null => ~ (s.owner = r.owner /\ s.idem = r.idem)
    <3>1. PICK x \in hit : x.id = r.id /\ x.owner = r.owner
      BY <1>2
    <3>2. s.id # r.id
      BY <2>2, <3>1 DEF UniqueIn
    <3>. QED
      BY <3>1, <3>2 DEF UpdateAllowed
  <2>. QED
    BY <2>1, <2>2 DEF UniqueIn
<1>. QED
  BY <1>1, <1>2

LEMMA InsertKeepsUnique ==
  ASSUME NEW table, NEW r, UniqueIn(table), NoConflict(table, r)
  PROVE  UniqueIn(table \cup {r})
BY DEF UniqueIn, NoConflict

LEMMA UniqueStep == TypeOK /\ KeysUnique /\ [Next]_vars => KeysUnique'
<1>. SUFFICES ASSUME TypeOK, UniqueIn(memories), [Next]_vars PROVE UniqueIn(memories')
  BY DEF KeysUnique, UniqueIn
<1>1. CASE UNCHANGED tables
  BY <1>1 DEF tables
<1>2. CASE Creates
  BY <1>2, InsertKeepsUnique DEF Creates, Create
<1>3. ASSUME NEW cur \in Record, Persists(cur) PROVE UniqueIn(memories')
  BY <1>3, PersistEffect, UpdateKeepsUnique DEF Persists
<1>4. ASSUME NEW cur \in Record, Supersedes(cur) PROVE UniqueIn(memories')
  <2>1. PICK old \in Record, new \in Record, e1 \in AuditEvent, e2 \in AuditEvent :
          SupersedeResult(cur, old, new, e1, e2)
    BY <1>4, SupersedeEffect DEF Supersedes
  <2>2. UniqueIn(UpdateRow(memories, old))
    BY <2>1, UpdateKeepsUnique DEF SupersedeResult
  <2>. QED
    BY <2>1, <2>2, InsertKeepsUnique DEF SupersedeResult
<1>5. ASSUME NEW cur \in Record, FinishHardDelete(cur) PROVE UniqueIn(memories')
  BY <1>5 DEF FinishHardDelete, HardDelete, DeleteRow, UniqueIn
<1>6. CASE Imports
  <2>1. PICK recs \in Seq(Record), events \in Seq(AuditEvent) : ImportResult(recs, events)
    BY <1>6, ImportEffect DEF Imports
  <2>. QED
    BY <2>1 DEF ImportResult, NoConflict, UniqueIn
<1>. QED
  BY <1>1, <1>2, <1>3, <1>4, <1>5, <1>6, StepShape

(* However reads and writes of several processes interleave, ids and       *)
(* idempotency keys stay unique.                                           *)
THEOREM KeysAreUnique == Spec => []KeysUnique
<1>1. Init => KeysUnique
  BY DEF Init, KeysUnique
<1>. QED
  BY <1>1, UniqueStep, TypeCorrect, PTL DEF Spec
-----------------------------------------------------------------------------
(* The trail.  Every transaction appends events about different memories,  *)
(* and every row it brings, changes or removes has one of them.            *)

RecordedBy(events) ==
  /\ audit' = audit \o events
  /\ \A i, j \in 1 .. Len(events) : i # j => events[i].memory # events[j].memory
  /\ \A s \in memories' \ memories :
       /\ \A r \in memories : r.id = s.id => r.owner = s.owner
       /\ \E i \in 1 .. Len(events) :
            /\ events[i].memory = s.id /\ events[i].to = s.status /\ events[i].owner = s.owner
            /\ (\A r \in memories : r.id # s.id) => events[i].action \in {"create", "import"}
  /\ \A r \in memories : (\A s \in memories' : s.id # r.id) =>
       \E i \in 1 .. Len(events) : events[i].memory = r.id /\ events[i].to = "deleted"

Recorded == \E events \in Seq(AuditEvent) : RecordedBy(events)

(* An UPDATE brings at most the new version of a row that is there.        *)
LEMMA UpdateEffect ==
  ASSUME NEW r, UniqueIn(memories)
  PROVE  /\ \A s \in UpdateRow(memories, r) \ memories :
              s = r /\ \E x \in memories : x.id = r.id /\ x.owner = r.owner
         /\ \A x \in memories : \E s \in UpdateRow(memories, r) : s.id = x.id
         /\ \A s \in UpdateRow(memories, r) : \E x \in memories : x.id = s.id /\ x.owner = s.owner
BY DEF UpdateRow, UniqueIn

LEMMA RecordedOne ==
  ASSUME audit \in Seq(AuditEvent), NEW e \in AuditEvent, audit' = Append(audit, e),
         \A s \in memories' \ memories :
           /\ \A r \in memories : r.id = s.id => r.owner = s.owner
           /\ e.memory = s.id /\ e.to = s.status /\ e.owner = s.owner
           /\ (\A r \in memories : r.id # s.id) => e.action \in {"create", "import"},
         \A r \in memories : (\A s \in memories' : s.id # r.id) =>
           e.memory = r.id /\ e.to = "deleted"
  PROVE  Recorded
<1>. DEFINE events == <<e>>
<1>1. /\ events \in Seq(AuditEvent) /\ Len(events) = 1 /\ events[1] = e
      /\ audit' = audit \o events
  OBVIOUS
<1>. HIDE DEF events
<1>2. RecordedBy(events)
  BY <1>1 DEF RecordedBy
<1>. QED
  BY <1>1, <1>2 DEF Recorded

LEMMA PersistRecorded ==
  ASSUME TypeOK, UniqueIn(memories), NEW cur \in Record, Persists(cur)
  PROVE  Recorded
<1>1. PICK r \in Record, action \in AuditAction, at \in Times :
        KeepsKeys(cur, r) /\ PersistUpdate(cur, r, action, at, Null)
  BY DEF Persists
<1>2. memories' = UpdateRow(memories, r)
  BY <1>1, PersistEffect
<1>3. PICK e \in AuditEvent :
        /\ audit' = Append(audit, e)
        /\ e.memory = r.id /\ e.owner = r.owner /\ e.to = r.status
  BY <1>1, PersistEffect
<1>4. ASSUME NEW s \in memories' \ memories
      PROVE  /\ \A x \in memories : x.id = s.id => x.owner = s.owner
             /\ e.memory = s.id /\ e.to = s.status /\ e.owner = s.owner
             /\ ~ \A x \in memories : x.id # s.id
  <2>1. s = r /\ \E x \in memories : x.id = r.id /\ x.owner = r.owner
    BY <1>2, UpdateEffect
  <2>. QED
    BY <1>3, <2>1 DEF UniqueIn
<1>5. \A x \in memories : ~ \A s \in memories' : s.id # x.id
  BY <1>2, UpdateEffect
<1>. QED
  BY <1>3, <1>4, <1>5, RecordedOne DEF TypeOK

LEMMA SupersedeRecorded ==
  ASSUME TypeOK, UniqueIn(memories), NEW cur \in Record, Supersedes(cur)
  PROVE  Recorded
<1>1. PICK old \in Record, new \in Record, e1 \in AuditEvent, e2 \in AuditEvent :
        SupersedeResult(cur, old, new, e1, e2)
  BY SupersedeEffect DEF Supersedes
<1>. DEFINE events == <<e1, e2>>
<1>2. events \in Seq(AuditEvent) /\ Len(events) = 2 /\ events[1] = e1 /\ events[2] = e2
  OBVIOUS
<1>. HIDE DEF events
<1>3. memories' = UpdateRow(memories, old) \cup {new} /\ NoConflict(UpdateRow(memories, old), new)
  BY <1>1 DEF SupersedeResult
<1>4. \A r \in memories : r.id # new.id /\ \E s \in memories' : s.id = r.id
  BY <1>3, UpdateEffect DEF NoConflict
<1>5. ASSUME NEW s \in memories' \ memories
      PROVE  /\ \A r \in memories : r.id = s.id => r.owner = s.owner
             /\ \E i \in 1 .. Len(events) :
                  /\ events[i].memory = s.id /\ events[i].to = s.status
                  /\ events[i].owner = s.owner
                  /\ (\A r \in memories : r.id # s.id) =>
                       events[i].action \in {"create", "import"}
  <2>1. CASE s = new
    BY <1>1, <1>2, <1>4, <2>1 DEF SupersedeResult
  <2>2. CASE s # new
    <3>1. s = old /\ \E x \in memories : x.id = old.id /\ x.owner = old.owner
      BY <1>3, <2>2, UpdateEffect
    <3>2. events[1].memory = s.id /\ events[1].to = s.status /\ events[1].owner = s.owner
      BY <1>1, <1>2, <3>1 DEF SupersedeResult
    <3>. QED
      BY <1>2, <3>1, <3>2 DEF UniqueIn
  <2>. QED
    BY <2>1, <2>2
<1>6. RecordedBy(events)
  <2>1. \A i, j \in 1 .. Len(events) : i # j => events[i].memory # events[j].memory
    BY <1>1, <1>2 DEF SupersedeResult
  <2>2. audit' = audit \o events
    BY <1>1 DEF SupersedeResult, events
  <2>. QED
    BY <1>4, <1>5, <2>1, <2>2 DEF RecordedBy
<1>. QED
  BY <1>2, <1>6 DEF Recorded

LEMMA ImportRecorded ==
  ASSUME TypeOK, Imports
  PROVE  Recorded
<1>1. PICK recs \in Seq(Record), events \in Seq(AuditEvent) : ImportResult(recs, events)
  BY ImportEffect DEF Imports
<1>2. RecordedBy(events)
  BY <1>1 DEF ImportResult, RecordedBy, NoConflict
<1>. QED
  BY <1>2 DEF Recorded

LEMMA StepRecorded == TypeOK /\ KeysUnique /\ [Next]_vars => Recorded
<1>. SUFFICES ASSUME TypeOK, UniqueIn(memories), [Next]_vars PROVE Recorded
  BY DEF KeysUnique, UniqueIn
<1>. audit \in Seq(AuditEvent)
  BY DEF TypeOK
<1>1. CASE UNCHANGED tables
  <2>. DEFINE events == <<>>
  <2>1. events \in Seq(AuditEvent) /\ Len(events) = 0 /\ audit' = audit \o events
    BY <1>1 DEF tables
  <2>. HIDE DEF events
  <2>2. RecordedBy(events)
    BY <1>1, <2>1 DEF RecordedBy, tables
  <2>. QED
    BY <2>1, <2>2 DEF Recorded
<1>2. CASE Creates
  <2>1. PICK r \in Record : Create(r, Null)
    BY <1>2 DEF Creates
  <2>. DEFINE e == Event(r, r.owner, "create", r.created, Null, Null, r.status)
  <2>2. /\ e \in AuditEvent /\ e.memory = r.id /\ e.owner = r.owner /\ e.to = r.status
        /\ e.action = "create"
    BY DEF Event, AuditEvent, Record, AuditAction, MemoryStatus
  <2>3. /\ audit' = Append(audit, e) /\ memories' = memories \cup {r}
        /\ \A s \in memories : s.id # r.id
    BY <2>1 DEF Create, NoConflict
  <2>. HIDE DEF e
  <2>. QED
    BY <2>2, <2>3, RecordedOne
<1>3. ASSUME NEW cur \in Record, FinishHardDelete(cur) PROVE Recorded
  <2>1. PICK at \in Times : HardDelete(cur, at)
    BY <1>3 DEF FinishHardDelete
  <2>. DEFINE e == Event(cur, cur.owner, "hard_delete", at, Null, cur.status, "deleted")
  <2>2. e \in AuditEvent /\ e.memory = cur.id /\ e.to = "deleted"
    BY DEF Event, AuditEvent, Record, AuditAction, MemoryStatus
  <2>3. audit' = Append(audit, e) /\ memories' = DeleteRow(memories, cur.owner, cur.id)
    BY <2>1 DEF HardDelete
  <2>. HIDE DEF e
  <2>4. \A r \in memories : (\A s \in memories' : s.id # r.id) => r.id = cur.id
    BY <2>3 DEF DeleteRow
  <2>5. memories' \ memories = {}
    BY <2>3 DEF DeleteRow
  <2>. QED
    BY <2>2, <2>3, <2>4, <2>5, RecordedOne
<1>. QED
  BY <1>1, <1>2, <1>3, StepShape, PersistRecorded, SupersedeRecorded, ImportRecorded

(* Positions of the new events in the trail. *)
LEMMA NewEventAt ==
  ASSUME audit \in Seq(AuditEvent), NEW events \in Seq(AuditEvent), RecordedBy(events),
         NEW i \in 1 .. Len(events)
  PROVE  /\ Len(audit) + i \in 1 .. Len(audit') /\ audit'[Len(audit) + i] = events[i]
         /\ LastNewEvent(Len(audit) + i, events[i].memory)
<1>. DEFINE n == Len(audit)
<1>1. /\ n \in Nat /\ Len(events) \in Nat /\ Len(audit') = n + Len(events)
      /\ \A k \in 1 .. Len(events) : audit'[n + k] = events[k]
  BY DEF RecordedBy
<1>. HIDE DEF n
<1>2. ASSUME NEW j \in n + i + 1 .. Len(audit') PROVE audit'[j].memory # events[i].memory
  <2>1. j - n \in 1 .. Len(events) /\ j - n # i /\ j = n + (j - n)
    BY <1>1, <1>2
  <2>2. audit'[j] = events[j - n]
    BY <1>1, <2>1
  <2>. QED
    BY <2>1, <2>2 DEF RecordedBy
<1>. QED
  BY <1>1, <1>2 DEF LastNewEvent, n

BornOnce ==
  \A s \in memories' :
    /\ \A r \in memories : r.id = s.id => r.owner = s.owner
    /\ (\A r \in memories : r.id # s.id) =>
         \E i \in Len(audit) + 1 .. Len(audit') :
           /\ audit'[i].memory = s.id
           /\ audit'[i].action \in {"create", "import"}

Audited ==
  /\ \A s \in memories' \ memories : \E i \in 1 .. Len(audit') :
       LastNewEvent(i, s.id) /\ audit'[i].to = s.status /\ audit'[i].owner = s.owner
  /\ \A r \in memories :
       (\A s \in memories' : s.id # r.id) =>
         \E i \in 1 .. Len(audit') : LastNewEvent(i, r.id) /\ audit'[i].to = "deleted"

LEMMA BornOnceStep == TypeOK /\ KeysUnique /\ [Next]_vars => BornOnce
<1>. SUFFICES ASSUME TypeOK, KeysUnique, [Next]_vars, NEW s \in memories'
              PROVE  /\ \A r \in memories : r.id = s.id => r.owner = s.owner
                     /\ (\A r \in memories : r.id # s.id) =>
                          \E i \in Len(audit) + 1 .. Len(audit') :
                            /\ audit'[i].memory = s.id
                            /\ audit'[i].action \in {"create", "import"}
  BY DEF BornOnce
<1>1. PICK events \in Seq(AuditEvent) : RecordedBy(events)
  BY StepRecorded DEF Recorded
<1>2. CASE s \in memories
  BY <1>2 DEF KeysUnique
<1>3. CASE s \notin memories
  <2>1. /\ \A r \in memories : r.id = s.id => r.owner = s.owner
        /\ \E i \in 1 .. Len(events) :
             /\ events[i].memory = s.id
             /\ (\A r \in memories : r.id # s.id) => events[i].action \in {"create", "import"}
    BY <1>1, <1>3 DEF RecordedBy
  <2>2. \A i \in 1 .. Len(events) :
          /\ Len(audit) + i \in Len(audit) + 1 .. Len(audit')
          /\ audit'[Len(audit) + i] = events[i]
    BY <1>1, NewEventAt DEF TypeOK, LastNewEvent
  <2>. QED
    BY <2>1, <2>2
<1>. QED
  BY <1>2, <1>3

LEMMA AuditedStep == TypeOK /\ KeysUnique /\ [Next]_vars => Audited
<1>. SUFFICES ASSUME TypeOK, KeysUnique, [Next]_vars PROVE Audited
  OBVIOUS
<1>1. PICK events \in Seq(AuditEvent) : RecordedBy(events)
  BY StepRecorded DEF Recorded
<1>2. \A i \in 1 .. Len(events) :
        /\ Len(audit) + i \in 1 .. Len(audit') /\ audit'[Len(audit) + i] = events[i]
        /\ LastNewEvent(Len(audit) + i, events[i].memory)
  BY <1>1, NewEventAt DEF TypeOK
<1>3. ASSUME NEW s \in memories' \ memories
      PROVE  \E i \in 1 .. Len(audit') :
               LastNewEvent(i, s.id) /\ audit'[i].to = s.status /\ audit'[i].owner = s.owner
  <2>1. PICK i \in 1 .. Len(events) :
          events[i].memory = s.id /\ events[i].to = s.status /\ events[i].owner = s.owner
    BY <1>1 DEF RecordedBy
  <2>. QED
    BY <1>2, <2>1
<1>4. ASSUME NEW r \in memories, \A s \in memories' : s.id # r.id
      PROVE  \E i \in 1 .. Len(audit') : LastNewEvent(i, r.id) /\ audit'[i].to = "deleted"
  <2>1. PICK i \in 1 .. Len(events) : events[i].memory = r.id /\ events[i].to = "deleted"
    BY <1>1, <1>4 DEF RecordedBy
  <2>. QED
    BY <1>2, <2>1
<1>. QED
  BY <1>3, <1>4 DEF Audited

(* A deleted row does not come back by a stale write and a row never       *)
(* changes hands, however stale the record that is written.                *)
THEOREM RowsBornOnce == Spec => RowsAreBornOnce
<1>1. TypeOK /\ KeysUnique /\ [Next]_vars => [BornOnce]_vars
  BY BornOnceStep
<1>2. Spec => [][BornOnce]_vars
  BY <1>1, TypeCorrect, KeysAreUnique, PTL DEF Spec
<1>. QED
  BY <1>2 DEF RowsAreBornOnce, BornOnce

(* Invariant 11: every change of a row is in the trail, with the status    *)
(* the row now has.                                                        *)
THEOREM EveryChangeAudited == Spec => ChangesAudited
<1>1. TypeOK /\ KeysUnique /\ [Next]_vars => [Audited]_vars
  BY AuditedStep
<1>2. Spec => [][Audited]_vars
  BY <1>1, TypeCorrect, KeysAreUnique, PTL DEF Spec
<1>. QED
  BY <1>2 DEF ChangesAudited, Audited
=============================================================================
