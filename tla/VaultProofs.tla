---------------------------- MODULE VaultProofs ----------------------------
(***************************************************************************)
(* Theorems about Vault for all owners, ids, contents, times, bounds,      *)
(* builds and import batches.                                              *)
(***************************************************************************)
EXTENDS Vault, SequenceTheorems, TLAPS

-----------------------------------------------------------------------------
(* What a step of the vault can be.  Seven of the ten methods rewrite one  *)
(* row, and only forward.                                                  *)

Rewrites(cur, r) ==
  /\ r \in Record
  /\ r.id = cur.id /\ r.owner = cur.owner /\ r.idem = cur.idem
  /\ r.supersedes = cur.supersedes /\ r.superseded_by = cur.superseded_by
  /\ r.status # "active" => r.content = cur.content
  /\ Forward(cur, r)

LEMMA NewMemoryFacts ==
  ASSUME NEW o \in Owners, NEW at \in Times, NEW r \in NewMemories(o, at)
  PROVE  /\ r \in Record
         /\ r.owner = o /\ r.status = "active" /\ r.id \in FreshIds
         /\ r.supersedes = Null /\ r.superseded_by = Null
         /\ r.created = at
<1>1. PICK id \in FreshIds, key \in Keys, content \in Contents,
           retention \in Policies, expires \in Times \cup {Null},
           idem \in Tokens \cup {Null} :
        r = MakeMemory(id, o, key, content, retention, expires, idem, at)
  BY DEF NewMemories
<1>2. FreshIds \subseteq Ids
  BY DEF FreshIds
<1>. QED
  BY <1>1, <1>2, PolicyAssumption DEF MakeMemory, Record, RowStatus

LEMMA UpdateRewrites ==
  ASSUME NEW cur \in Record, NEW content \in Contents, NEW at \in Times,
         cur.status = "active"
  PROVE  Rewrites(cur, UpdatedMemory(cur, content, at))
BY DEF Rewrites, UpdatedMemory, Record, Forward

LEMMA ReinforceRewrites ==
  ASSUME NEW cur \in Record, NEW at \in Times, cur.status = "active"
  PROVE  Rewrites(cur, [cur EXCEPT !.reinforced = @ + 1, !.updated = at])
<1>. DEFINE r == [cur EXCEPT !.reinforced = @ + 1, !.updated = at]
<1>1. cur.reinforced + 1 \in Nat
  BY DEF Record
<1>2. r \in Record
  BY <1>1 DEF Record
<1>3. /\ r.id = cur.id /\ r.owner = cur.owner /\ r.idem = cur.idem
      /\ r.supersedes = cur.supersedes /\ r.superseded_by = cur.superseded_by
      /\ r.created = cur.created /\ r.status = cur.status
  BY DEF Record
<1>. QED
  BY <1>2, <1>3 DEF Rewrites, Forward

LEMMA PolicyRewrites ==
  ASSUME NEW cur \in Record, NEW retention \in RetentionPolicy,
         NEW expires \in Times \cup {Null}, NEW at \in Times, cur.status = "active"
  PROVE  Rewrites(cur, [cur EXCEPT !.retention = retention,
                          !.expires = IF expires # Null THEN expires ELSE @,
                          !.updated = at])
BY DEF Rewrites, Record, Forward

LEMMA StatusRewrites ==
  ASSUME NEW cur \in Record, NEW at \in Times, NEW target \in RowStatus,
         StatusRank[target] > StatusRank[cur.status]
  PROVE  Rewrites(cur, ToStatus(cur, target, at))
BY DEF Rewrites, ToStatus, Record, Forward

(* The shape of a step asked for by owner o. *)
Creates(o) ==
  \E r \in Record :
    /\ r.owner = o /\ r.status = "active" /\ r.id \in FreshIds
    /\ r.supersedes = Null /\ r.superseded_by = Null
    /\ Create(r, Null)

RewritesRow(o) ==
  \E cur \in Owned(o), r \in Record, action \in AuditAction, at \in Times :
    Rewrites(cur, r) /\ PersistUpdate(cur, r, action, at, Null)

Supersedes(o) ==
  \E cur \in Owned(o), r \in Record, at \in Times :
    /\ r.owner = o /\ r.id \in FreshIds
    /\ r.supersedes = Null /\ r.superseded_by = Null
    /\ Supersede(cur, r, at, Null)

LEMMA StepShape ==
  ASSUME TypeOK, NEW o \in Owners, OwnerStep(o)
  PROVE  \/ Creates(o)
         \/ RewritesRow(o)
         \/ Supersedes(o)
         \/ HardDeleteMemory(o)
         \/ ImportMemories(o)
<1>. Owned(o) \subseteq Record
  BY DEF TypeOK, Owned
<1>1. CASE CreateMemory(o)
  BY <1>1, NewMemoryFacts DEF CreateMemory, Creates
<1>2. CASE UpdateMemory(o)
  <2>1. PICK cur \in Owned(o), content \in Contents, at \in Times :
          Update(cur, content, at)
    BY <1>2 DEF UpdateMemory
  <2>2. Rewrites(cur, UpdatedMemory(cur, content, at))
    BY <2>1, UpdateRewrites DEF Update, CanTransition, AllowedSources
  <2>. QED
    BY <2>1, <2>2 DEF Update, RewritesRow, AuditAction, Rewrites
<1>3. CASE ArchiveMemory(o)
  <2>1. PICK cur \in Owned(o), at \in Times : Archive(cur, at)
    BY <1>3 DEF ArchiveMemory
  <2>2. Rewrites(cur, ToStatus(cur, "archived", at))
    BY <2>1, StatusRewrites
    DEF Archive, CanTransition, AllowedSources, StatusRank, RowStatus
  <2>. QED
    BY <2>1, <2>2 DEF Archive, RewritesRow, AuditAction, Rewrites
<1>4. CASE ExpireMemory(o)
  <2>1. PICK cur \in Owned(o), at \in Times : Expire(cur, at)
    BY <1>4 DEF ExpireMemory
  <2>2. Rewrites(cur, ToStatus(cur, "expired", at))
    BY <2>1, StatusRewrites
    DEF Expire, CanTransition, AllowedSources, StatusRank, RowStatus
  <2>. QED
    BY <2>1, <2>2 DEF Expire, RewritesRow, AuditAction, Rewrites
<1>5. CASE ForgetMemory(o)
  <2>1. PICK cur \in Owned(o), at \in Times : Forget(cur, at, Null)
    BY <1>5 DEF ForgetMemory
  <2>2. Rewrites(cur, ToStatus(cur, "forgotten", at))
    BY <2>1, StatusRewrites
    DEF Forget, CanTransition, AllowedSources, StatusRank, RowStatus
  <2>. QED
    BY <2>1, <2>2 DEF Forget, RewritesRow, AuditAction, Rewrites
<1>6. CASE ReinforceMemory(o)
  <2>1. PICK cur \in Owned(o), at \in Times : Reinforce(cur, at)
    BY <1>6 DEF ReinforceMemory
  <2>2. Rewrites(cur, [cur EXCEPT !.reinforced = @ + 1, !.updated = at])
    BY <2>1, ReinforceRewrites DEF Reinforce
  <2>. QED
    BY <2>1, <2>2 DEF Reinforce, RewritesRow, AuditAction, Rewrites
<1>7. CASE SetMemoryPolicy(o)
  <2>1. PICK cur \in Owned(o), retention \in Policies,
             expires \in Times \cup {Null}, at \in Times :
          SetPolicy(cur, retention, expires, at)
    BY <1>7 DEF SetMemoryPolicy
  <2>2. Rewrites(cur, [cur EXCEPT !.retention = retention,
                         !.expires = IF expires # Null THEN expires ELSE @,
                         !.updated = at])
    BY <2>1, PolicyRewrites, PolicyAssumption DEF SetPolicy
  <2>. QED
    BY <2>1, <2>2 DEF SetPolicy, RewritesRow, AuditAction, Rewrites
<1>8. CASE SupersedeMemory(o)
  BY <1>8, NewMemoryFacts DEF SupersedeMemory, Supersedes
<1>. QED
  BY <1>1, <1>2, <1>3, <1>4, <1>5, <1>6, <1>7, <1>8 DEF OwnerStep
-----------------------------------------------------------------------------
(* Every stored row, event and index entry has its type, and every row     *)
(* passes the validation of MemoryRecord.                                  *)

LEMMA EventType ==
  ASSUME NEW r \in Record, NEW owner \in Owners, NEW action \in AuditAction,
         NEW at \in Times, NEW from \in RowStatus \cup {Null}, NEW to \in MemoryStatus
  PROVE  Event(r, owner, action, at, Null, from, to) \in AuditEvent
BY DEF Event, AuditEvent, Record

LEMMA ReboundBatch ==
  ASSUME NEW o \in Owners, NEW batch \in Batches
  PROVE  /\ [i \in DOMAIN batch |-> [batch[i] EXCEPT !.owner = o]] \in Seq(Record)
         /\ DOMAIN [i \in DOMAIN batch |-> [batch[i] EXCEPT !.owner = o]] = 1 .. Len(batch)
         /\ \A i \in DOMAIN batch : [batch[i] EXCEPT !.owner = o].owner = o
<1>1. batch \in Seq(Record)
  BY BatchAssumption
<1>2. /\ DOMAIN batch = 1 .. Len(batch) /\ Len(batch) \in Nat
      /\ \A i \in DOMAIN batch : batch[i] \in Record
  BY <1>1
<1>3. \A i \in DOMAIN batch :
        [batch[i] EXCEPT !.owner = o] \in Record /\ [batch[i] EXCEPT !.owner = o].owner = o
  BY <1>2 DEF Record
<1>. QED
  BY <1>2, <1>3

LEMMA TypeInit == Init => TypeOK
<1>1. Builds \subseteq BOOLEAN
  BY BuildAssumption
<1>. QED
  BY <1>1 DEF Init, TypeOK

LEMMA TypeRewrite ==
  ASSUME TypeOK, NEW o \in Owners, RewritesRow(o)
  PROVE  TypeOK'
<1>1. PICK cur \in Owned(o), r \in Record, action \in AuditAction, at \in Times :
        Rewrites(cur, r) /\ PersistUpdate(cur, r, action, at, Null)
  BY DEF RewritesRow
<1>2. cur \in Record /\ cur.owner \in Owners /\ cur.status \in RowStatus
  BY DEF TypeOK, Owned, Record
<1>3. memories' \subseteq {x \in Record : ValidRecord(x)}
  BY <1>1 DEF PersistUpdate, UpdateRow, TypeOK
<1>4. fts' \subseteq Ids \X Contents
  <2>1. <<r.id, r.content>> \in Ids \X Contents
    BY DEF Record
  <2>. QED
    BY <1>1, <2>1 DEF PersistUpdate, IndexUpdated, IndexInserted, Deindex, TypeOK
<1>5. audit' \in Seq(AuditEvent)
  <2>1. r.status \in MemoryStatus
    BY DEF Record, MemoryStatus
  <2>2. Event(cur, cur.owner, action, at, Null, cur.status, r.status) \in AuditEvent
    BY <1>2, <2>1, EventType
  <2>. QED
    BY <1>1, <2>2 DEF PersistUpdate, TypeOK
<1>. QED
  BY <1>1, <1>3, <1>4, <1>5 DEF PersistUpdate, connection, TypeOK

LEMMA TypeCreate ==
  ASSUME TypeOK, NEW o \in Owners, Creates(o)
  PROVE  TypeOK'
<1>1. PICK r \in Record : Create(r, Null)
  BY DEF Creates
<1>2. fts' \subseteq Ids \X Contents
  BY <1>1 DEF Create, IndexInserted, TypeOK, Record
<1>3. Event(r, r.owner, "create", r.created, Null, Null, r.status) \in AuditEvent
  BY EventType DEF Record, AuditAction, MemoryStatus
<1>4. audit' \in Seq(AuditEvent)
  BY <1>1, <1>3 DEF Create, TypeOK
<1>5. memories' \subseteq {x \in Record : ValidRecord(x)}
  BY <1>1 DEF Create, TypeOK
<1>. QED
  BY <1>1, <1>2, <1>4, <1>5 DEF Create, connection, TypeOK

LEMMA TypeSupersede ==
  ASSUME TypeOK, NEW o \in Owners, Supersedes(o)
  PROVE  TypeOK'
<1>1. PICK cur \in Owned(o), r \in Record, at \in Times : Supersede(cur, r, at, Null)
  BY DEF Supersedes
<1>. DEFINE old == SupersededMemory(cur, r, at)
            new == LinkedReplacement(cur, r, at)
<1>2. cur \in Record
  BY DEF TypeOK, Owned
<1>3. old \in Record /\ new \in Record
  BY <1>2 DEF SupersededMemory, LinkedReplacement, Record, RowStatus
<1>4. memories' \subseteq {x \in Record : ValidRecord(x)}
  BY <1>1, <1>3 DEF Supersede, UpdateRow, TypeOK
<1>5. fts' \subseteq Ids \X Contents
  <2>1. <<old.id, old.content>> \in Ids \X Contents /\ <<new.id, new.content>> \in Ids \X Contents
    BY <1>3 DEF Record
  <2>2. fts' = IndexInserted(IndexUpdated(fts, old), {new})
    BY <1>1 DEF Supersede
  <2>3. IndexUpdated(fts, old) \subseteq Ids \X Contents
    BY <2>1 DEF IndexUpdated, IndexInserted, Deindex, TypeOK
  <2>. QED
    BY <2>1, <2>2, <2>3 DEF IndexInserted
<1>6. audit' \in Seq(AuditEvent)
  <2>1. cur.owner \in Owners /\ cur.status \in RowStatus
    BY <1>2 DEF Record
  <2>2. Event(cur, cur.owner, "supersede", at, Null, cur.status, "superseded") \in AuditEvent
    BY <1>2, <2>1, EventType DEF AuditAction, MemoryStatus, RowStatus
  <2>3. Event(new, cur.owner, "create", at, Null, Null, "active") \in AuditEvent
    BY <1>3, <2>1, EventType DEF AuditAction, MemoryStatus, RowStatus
  <2>. QED
    BY <1>1, <2>2, <2>3 DEF Supersede, TypeOK
<1>. QED
  BY <1>1, <1>4, <1>5, <1>6 DEF Supersede, connection, TypeOK

LEMMA TypeDelete ==
  ASSUME TypeOK, NEW o \in Owners, HardDeleteMemory(o)
  PROVE  TypeOK'
<1>1. PICK cur \in Owned(o), at \in Times : HardDelete(cur, at)
  BY DEF HardDeleteMemory
<1>2. cur \in Record /\ cur.owner \in Owners /\ cur.status \in RowStatus
  BY DEF TypeOK, Owned, Record
<1>3. Event(cur, cur.owner, "hard_delete", at, Null, cur.status, "deleted") \in AuditEvent
  BY <1>2, EventType DEF AuditAction, MemoryStatus
<1>. QED
  BY <1>1, <1>3 DEF HardDelete, DeleteRow, Deindex, connection, TypeOK

LEMMA TypeImport ==
  ASSUME TypeOK, NEW o \in Owners, ImportMemories(o)
  PROVE  TypeOK'
<1>1. PICK batch \in Batches : ImportRecords(o, batch)
  BY DEF ImportMemories
<1>. DEFINE recs == [i \in DOMAIN batch |-> [batch[i] EXCEPT !.owner = o]]
            inserted == {recs[i] : i \in DOMAIN recs}
            events == [i \in DOMAIN recs |->
              Event(recs[i], o, "import", recs[i].updated, Null, Null, recs[i].status)]
<1>2. recs \in Seq(Record) /\ DOMAIN recs = 1 .. Len(batch) /\ Len(batch) \in Nat
  BY ReboundBatch, BatchAssumption
<1>3. \A i \in DOMAIN recs : recs[i] \in Record /\ ValidRecord(recs[i])
  <2>1. \A i \in DOMAIN recs : recs[i] \in Record
    BY <1>2
  <2>2. \A i \in DOMAIN recs : ValidRecord(recs[i])
    BY <1>1 DEF ImportRecords
  <2>. QED
    BY <2>1, <2>2
<1>4. memories' \subseteq {x \in Record : ValidRecord(x)}
  BY <1>1, <1>3 DEF ImportRecords, TypeOK
<1>5. fts' \subseteq Ids \X Contents
  <2>1. \A r \in inserted : <<r.id, r.content>> \in Ids \X Contents
    BY <1>3 DEF Record
  <2>2. fts' = IndexInserted(fts, inserted)
    BY <1>1 DEF ImportRecords
  <2>. QED
    BY <2>1, <2>2 DEF IndexInserted, TypeOK
<1>6. audit' \in Seq(AuditEvent)
  <2>1. \A i \in DOMAIN recs : events[i] \in AuditEvent
    <3>1. SUFFICES ASSUME NEW i \in DOMAIN recs
                   PROVE  events[i] \in AuditEvent
      OBVIOUS
    <3>2. recs[i] \in Record /\ recs[i].updated \in Times /\ recs[i].status \in MemoryStatus
      BY <1>3 DEF Record, MemoryStatus
    <3>3. Event(recs[i], o, "import", recs[i].updated, Null, Null, recs[i].status) \in AuditEvent
      BY <3>2, EventType DEF AuditAction
    <3>. QED
      BY <3>3
  <2>2. events \in Seq(AuditEvent)
    BY <1>2, <2>1
  <2>3. audit' = audit \o events
    BY <1>1 DEF ImportRecords
  <2>. QED
    BY <2>2, <2>3 DEF TypeOK
<1>. QED
  BY <1>1, <1>4, <1>5, <1>6 DEF ImportRecords, connection, TypeOK

LEMMA TypeStep == TypeOK /\ [Next]_vars => TypeOK'
<1>. SUFFICES ASSUME TypeOK, [Next]_vars PROVE TypeOK'
  OBVIOUS
<1>1. ASSUME NEW o \in Owners, OwnerStep(o) PROVE TypeOK'
  BY <1>1, StepShape, TypeCreate, TypeRewrite, TypeSupersede, TypeDelete, TypeImport
<1>2. CASE Reconnect
  BY <1>2, BuildAssumption DEF Reconnect, Connect, tables, TypeOK
<1>3. CASE UNCHANGED vars
  BY <1>3 DEF vars, repoVars, TypeOK
<1>. QED
  BY <1>1, <1>2, <1>3 DEF Next

(* Type correctness of every reachable state; in particular no row is ever *)
(* stored that reading it back would refuse.                               *)
THEOREM TypeCorrect == Spec => []TypeOK
BY TypeInit, TypeStep, PTL DEF Spec
-----------------------------------------------------------------------------
(* Keys: INSERT checks them, UPDATE and DELETE cannot disturb them.        *)

LEMMA UpdateHitsOne ==
  ASSUME KeysUnique, NEW cur \in memories, NEW r, r.id = cur.id, r.owner = cur.owner
  PROVE  UpdateRow(memories, r) = (memories \ {cur}) \cup {r}
BY DEF KeysUnique, UpdateRow

LEMMA UniqueRewrite ==
  ASSUME TypeOK, KeysUnique, NEW o \in Owners, RewritesRow(o)
  PROVE  KeysUnique'
<1>1. PICK cur \in Owned(o), r \in Record, action \in AuditAction, at \in Times :
        Rewrites(cur, r) /\ PersistUpdate(cur, r, action, at, Null)
  BY DEF RewritesRow
<1>2. cur \in memories
  BY DEF Owned
<1>3. memories' = (memories \ {cur}) \cup {r}
  BY <1>1, <1>2, UpdateHitsOne DEF PersistUpdate, Rewrites
<1>. QED
  BY <1>1, <1>2, <1>3 DEF KeysUnique, Rewrites

LEMMA UniqueSupersede ==
  ASSUME TypeOK, KeysUnique, NEW o \in Owners, Supersedes(o)
  PROVE  KeysUnique'
<1>1. PICK cur \in Owned(o), r \in Record, at \in Times : Supersede(cur, r, at, Null)
  BY DEF Supersedes
<1>. DEFINE old == SupersededMemory(cur, r, at)
            new == LinkedReplacement(cur, r, at)
<1>2. cur \in memories /\ cur \in Record
  BY DEF Owned, TypeOK
<1>3. old.id = cur.id /\ old.owner = cur.owner /\ old.idem = cur.idem
  BY <1>2 DEF SupersededMemory, Record
<1>4. UpdateRow(memories, old) = (memories \ {cur}) \cup {old}
  BY <1>2, <1>3, UpdateHitsOne
<1>5. /\ NoConflict(UpdateRow(memories, old), new)
      /\ memories' = UpdateRow(memories, old) \cup {new}
  BY <1>1 DEF Supersede
<1>. HIDE DEF old, new
<1>. QED
  BY <1>2, <1>3, <1>4, <1>5 DEF KeysUnique, NoConflict

LEMMA UniqueImport ==
  ASSUME TypeOK, KeysUnique, NEW o \in Owners, ImportMemories(o)
  PROVE  KeysUnique'
<1>1. PICK batch \in Batches : ImportRecords(o, batch)
  BY DEF ImportMemories
<1>. DEFINE recs == [i \in DOMAIN batch |-> [batch[i] EXCEPT !.owner = o]]
<1>2. /\ \A i \in DOMAIN recs : NoConflict(memories \cup {recs[j] : j \in 1 .. i - 1}, recs[i])
      /\ memories' = memories \cup {recs[i] : i \in DOMAIN recs}
  BY <1>1 DEF ImportRecords
<1>3. DOMAIN recs = 1 .. Len(batch) /\ Len(batch) \in Nat
  BY ReboundBatch, BatchAssumption
<1>. HIDE DEF recs
<1>4. \A i, j \in DOMAIN recs : j < i =>
        /\ recs[i].id # recs[j].id
        /\ recs[i].idem # Null => ~ (recs[j].owner = recs[i].owner /\ recs[j].idem = recs[i].idem)
  <2>1. \A i, j \in DOMAIN recs : j < i => j \in 1 .. i - 1
    BY <1>3
  <2>. QED
    BY <1>2, <2>1 DEF NoConflict
<1>5. \A i, j \in DOMAIN recs : i = j \/ i < j \/ j < i
  BY <1>3
<1>. QED
  BY <1>2, <1>4, <1>5 DEF KeysUnique, NoConflict

LEMMA UniqueStep == TypeOK /\ KeysUnique /\ [Next]_vars => KeysUnique'
<1>. SUFFICES ASSUME TypeOK, KeysUnique, [Next]_vars PROVE KeysUnique'
  OBVIOUS
<1>1. ASSUME NEW o \in Owners, OwnerStep(o) PROVE KeysUnique'
  <2>1. CASE Creates(o)
    BY <2>1 DEF Creates, Create, NoConflict, KeysUnique
  <2>2. CASE HardDeleteMemory(o)
    BY <2>2 DEF HardDeleteMemory, HardDelete, DeleteRow, KeysUnique
  <2>. QED
    BY <1>1, <2>1, <2>2, StepShape, UniqueRewrite, UniqueSupersede, UniqueImport
<1>2. CASE Reconnect
  BY <1>2 DEF Reconnect, Connect, tables, KeysUnique
<1>3. CASE UNCHANGED vars
  BY <1>3 DEF vars, repoVars, KeysUnique
<1>. QED
  BY <1>1, <1>2, <1>3 DEF Next

(* The primary key and the per-owner idempotency key hold in every         *)
(* reachable state.                                                        *)
THEOREM KeysAreUnique == Spec => []KeysUnique
<1>1. Init => KeysUnique
  BY DEF Init, KeysUnique
<1>. QED
  BY <1>1, UniqueStep, TypeCorrect, PTL DEF Spec
-----------------------------------------------------------------------------
(* The search index.  IndexSound alone is not inductive: a file without    *)
(* the index table must also have no entries, or creating the table would  *)
(* reveal them.                                                            *)

NoStrayEntries == ~ indexed => fts = {}

IndexInv == IndexSound /\ NoStrayEntries

LEMMA SoundCreate ==
  ASSUME IndexInv, NEW o \in Owners, Creates(o)
  PROVE  IndexInv'
<1>1. PICK r \in Record : r.status = "active" /\ Create(r, Null)
  BY DEF Creates
<1>. QED
  BY <1>1 DEF Create, IndexInserted, connection, IndexInv, IndexSound, NoStrayEntries

LEMMA SoundRewrite ==
  ASSUME IndexInv, NEW o \in Owners, RewritesRow(o)
  PROVE  IndexInv'
<1>1. PICK cur \in Owned(o), r \in Record, action \in AuditAction, at \in Times :
        Rewrites(cur, r) /\ PersistUpdate(cur, r, action, at, Null)
  BY DEF RewritesRow
<1>2. cur \in memories /\ r.id = cur.id /\ r.owner = cur.owner
  BY <1>1 DEF Owned, Rewrites
<1>3. /\ r \in memories'
      /\ \A s \in memories : s.id # r.id => s \in memories'
  BY <1>1, <1>2 DEF PersistUpdate, UpdateRow
<1>4. /\ fts' = IndexUpdated(fts, r)
      /\ UNCHANGED connection
  BY <1>1 DEF PersistUpdate
<1>5. NoStrayEntries'
  BY <1>4 DEF IndexUpdated, connection, IndexInv, NoStrayEntries
<1>6. ASSUME NEW e \in fts'
      PROVE  \E s \in memories' : s.id = e[1] /\ s.content = e[2] /\ s.status = "active"
  <2>1. CASE e \in fts /\ e[1] # r.id
    BY <1>3, <2>1 DEF IndexInv, IndexSound
  <2>2. CASE e = <<r.id, r.content>> /\ r.status = "active"
    BY <1>3, <2>2
  <2>3. e \in fts => indexed
    BY DEF IndexInv, NoStrayEntries
  <2>. QED
    BY <1>4, <1>6, <2>1, <2>2, <2>3 DEF IndexUpdated, IndexInserted, Deindex
<1>. QED
  BY <1>5, <1>6 DEF IndexInv, IndexSound

LEMMA SoundSupersede ==
  ASSUME TypeOK, IndexInv, NEW o \in Owners, Supersedes(o)
  PROVE  IndexInv'
<1>1. PICK cur \in Owned(o), r \in Record, at \in Times : Supersede(cur, r, at, Null)
  BY DEF Supersedes
<1>. DEFINE old == SupersededMemory(cur, r, at)
            new == LinkedReplacement(cur, r, at)
<1>2. cur \in Record
  BY DEF Owned, TypeOK
<1>3. old.id = cur.id /\ old.status = "superseded" /\ new.status = r.status
  BY <1>2 DEF SupersededMemory, LinkedReplacement, Record
<1>4. /\ new \in memories'
      /\ \A s \in memories : s.id # old.id => s \in memories'
      /\ fts' = IndexInserted(IndexUpdated(fts, old), {new})
      /\ UNCHANGED connection
      /\ new.status = "active"
  BY <1>1, <1>3 DEF Supersede, UpdateRow
<1>. HIDE DEF old, new
<1>5. \A e \in fts' : (e \in fts /\ e[1] # old.id) \/ e = <<new.id, new.content>>
  <2>1. fts # {} => indexed
    BY DEF IndexInv, NoStrayEntries
  <2>. QED
    BY <1>3, <1>4, <2>1 DEF IndexInserted, IndexUpdated, Deindex
<1>6. NoStrayEntries'
  BY <1>4 DEF IndexInserted, IndexUpdated, connection, IndexInv, NoStrayEntries
<1>7. ASSUME NEW e \in fts'
      PROVE  \E s \in memories' : s.id = e[1] /\ s.content = e[2] /\ s.status = "active"
  <2>1. CASE e = <<new.id, new.content>>
    BY <1>4, <2>1
  <2>2. CASE e \in fts /\ e[1] # old.id
    <3>1. PICK s \in memories : s.id = e[1] /\ s.content = e[2] /\ s.status = "active"
      BY <2>2 DEF IndexInv, IndexSound
    <3>. QED
      BY <1>4, <2>2, <3>1
  <2>. QED
    BY <1>5, <1>7, <2>1, <2>2
<1>. QED
  BY <1>6, <1>7 DEF IndexInv, IndexSound

LEMMA SoundDelete ==
  ASSUME IndexInv, NEW o \in Owners, HardDeleteMemory(o)
  PROVE  IndexInv'
BY DEF HardDeleteMemory, HardDelete, DeleteRow, Deindex, connection,
       IndexInv, IndexSound, NoStrayEntries

LEMMA SoundImport ==
  ASSUME IndexInv, NEW o \in Owners, ImportMemories(o)
  PROVE  IndexInv'
<1>1. PICK inserted :
        /\ memories' = memories \cup inserted
        /\ fts' = IndexInserted(fts, inserted)
        /\ UNCHANGED connection
  BY DEF ImportMemories, ImportRecords
<1>. QED
  BY <1>1 DEF IndexInserted, connection, IndexInv, IndexSound, NoStrayEntries

LEMMA SoundStep == TypeOK /\ IndexInv /\ [Next]_vars => IndexInv'
<1>. SUFFICES ASSUME TypeOK, IndexInv, [Next]_vars PROVE IndexInv'
  OBVIOUS
<1>1. ASSUME NEW o \in Owners, OwnerStep(o) PROVE IndexInv'
  BY <1>1, StepShape, SoundCreate, SoundRewrite, SoundSupersede, SoundDelete, SoundImport
<1>2. CASE Reconnect
  BY <1>2 DEF Reconnect, Connect, tables, TypeOK, IndexInv, IndexSound, NoStrayEntries
<1>3. CASE UNCHANGED vars
  BY <1>3 DEF vars, repoVars, IndexInv, IndexSound, NoStrayEntries
<1>. QED
  BY <1>1, <1>2, <1>3 DEF Next

(* Nothing but the current content of active memories is ever in the       *)
(* search index, whatever builds the file is opened with (ADR-014).        *)
THEOREM IndexIsSound == Spec => []IndexSound
<1>1. Init => IndexInv
  BY DEF Init, IndexInv, IndexSound, NoStrayEntries
<1>2. IndexInv => IndexSound
  BY DEF IndexInv
<1>. QED
  BY <1>1, <1>2, SoundStep, TypeCorrect, PTL DEF Spec
-----------------------------------------------------------------------------
(* No step takes a memory backwards. *)

OnlyForward ==
  \A r \in memories, s \in memories' : r.id = s.id => Forward(r, s)

LEMMA ForwardReflexive ==
  ASSUME NEW r \in Record
  PROVE  Forward(r, r)
BY DEF Forward, Record

LEMMA ForwardStep ==
  TypeOK /\ KeysUnique /\ [Next]_vars => OnlyForward
<1>. SUFFICES ASSUME TypeOK, KeysUnique, [Next]_vars,
                     NEW r \in memories, NEW s \in memories', r.id = s.id
              PROVE  Forward(r, s)
  BY DEF OnlyForward
<1>. r \in Record
  BY DEF TypeOK
<1>1. CASE s \in memories
  BY <1>1, ForwardReflexive DEF KeysUnique
<1>2. ASSUME NEW o \in Owners, OwnerStep(o), s \notin memories PROVE Forward(r, s)
  <2>1. CASE Creates(o)
    BY <1>2, <2>1 DEF Creates, Create, NoConflict
  <2>2. CASE RewritesRow(o)
    <3>1. PICK cur \in Owned(o), new \in Record, action \in AuditAction, at \in Times :
            Rewrites(cur, new) /\ PersistUpdate(cur, new, action, at, Null)
      BY <2>2 DEF RewritesRow
    <3>2. s = new
      BY <1>2, <3>1 DEF PersistUpdate, UpdateRow
    <3>3. r = cur
      BY <3>1, <3>2 DEF Rewrites, Owned, KeysUnique
    <3>. QED
      BY <3>1, <3>2, <3>3 DEF Rewrites
  <2>3. CASE Supersedes(o)
    <3>1. PICK cur \in Owned(o), repl \in Record, at \in Times : Supersede(cur, repl, at, Null)
      BY <2>3 DEF Supersedes
    <3>. DEFINE old == SupersededMemory(cur, repl, at)
                new == LinkedReplacement(cur, repl, at)
    <3>2. cur \in Record /\ cur \in memories /\ cur.status = "active"
      BY <3>1 DEF Owned, TypeOK, Supersede, CanTransition, AllowedSources
    <3>3. old.id = cur.id /\ Forward(cur, old)
      BY <3>2 DEF SupersededMemory, Forward, Record, StatusRank
    <3>4. /\ s = old \/ s = new
          /\ \A x \in UpdateRow(memories, old) : x.id # new.id
          /\ old \in UpdateRow(memories, old)
      <4>1. old.owner = cur.owner
        BY <3>2 DEF SupersededMemory, Record
      <4>. QED
        BY <1>2, <3>1, <3>2, <3>3, <4>1 DEF Supersede, UpdateRow, NoConflict
    <3>5. CASE s = old
      BY <3>2, <3>3, <3>5 DEF KeysUnique
    <3>6. CASE s = new
      <4>1. r.id = old.id \/ r \in UpdateRow(memories, old)
        BY DEF UpdateRow
      <4>. QED
        BY <3>4, <3>6, <4>1
    <3>. QED
      BY <3>4, <3>5, <3>6
  <2>4. CASE HardDeleteMemory(o)
    BY <1>2, <2>4 DEF HardDeleteMemory, HardDelete, DeleteRow
  <2>5. CASE ImportMemories(o)
    <3>1. PICK batch \in Batches : ImportRecords(o, batch)
      BY <2>5 DEF ImportMemories
    <3>. DEFINE recs == [i \in DOMAIN batch |-> [batch[i] EXCEPT !.owner = o]]
    <3>2. /\ memories' = memories \cup {recs[i] : i \in DOMAIN recs}
          /\ \A i \in DOMAIN recs :
               NoConflict(memories \cup {recs[j] : j \in 1 .. i - 1}, recs[i])
      BY <3>1 DEF ImportRecords
    <3>. HIDE DEF recs
    <3>. QED
      BY <1>2, <3>2 DEF NoConflict
  <2>. QED
    BY <1>2, <2>1, <2>2, <2>3, <2>4, <2>5, StepShape
<1>3. CASE Reconnect \/ UNCHANGED vars
  BY <1>1, <1>3 DEF Reconnect, Connect, tables, vars, repoVars
<1>. QED
  BY <1>1, <1>2, <1>3 DEF Next

(* A memory never returns from an inactive status, and an inactive one is  *)
(* frozen (no lifecycle operation re-activates).                           *)
THEOREM LifecycleMovesForward == Spec => ForwardOnly
<1>1. TypeOK /\ KeysUnique /\ [Next]_vars => [OnlyForward]_vars
  BY ForwardStep
<1>2. Spec => [][OnlyForward]_vars
  BY <1>1, TypeCorrect, KeysAreUnique, PTL DEF Spec
<1>. QED
  BY <1>2 DEF ForwardOnly, OnlyForward
-----------------------------------------------------------------------------
(* What an owner's step touches: only rows of that owner come or go, and   *)
(* an index entry comes or goes only with the id of such a row.            *)

TouchesOnly(o) ==
  /\ \A p \in Owners \ {o} : RowsOf(p)' = RowsOf(p)
  /\ \A e : (e \in fts) # (e \in fts') => \E r \in RowsOf(o) \cup RowsOf(o)' : r.id = e[1]
  /\ \A i \in Len(audit) + 1 .. Len(audit') : audit'[i].owner = o

LEMMA AppendOwner ==
  ASSUME audit \in Seq(AuditEvent), NEW e \in AuditEvent, audit' = Append(audit, e)
  PROVE  \A i \in Len(audit) + 1 .. Len(audit') : audit'[i].owner = e.owner
BY DEF AuditEvent

LEMMA TouchRewrite ==
  ASSUME TypeOK, NEW o \in Owners, RewritesRow(o)
  PROVE  TouchesOnly(o)
<1>1. PICK cur \in Owned(o), r \in Record, action \in AuditAction, at \in Times :
        Rewrites(cur, r) /\ PersistUpdate(cur, r, action, at, Null)
  BY DEF RewritesRow
<1>2. /\ cur \in Record /\ cur \in memories /\ cur.owner = o /\ cur.status \in RowStatus
      /\ r.id = cur.id /\ r.owner = o
  BY <1>1 DEF TypeOK, Owned, Record, Rewrites
<1>3. /\ memories' = UpdateRow(memories, r) /\ fts' = IndexUpdated(fts, r)
      /\ audit' = Append(audit, Event(cur, cur.owner, action, at, Null, cur.status, r.status))
  BY <1>1 DEF PersistUpdate
<1>4. \A p \in Owners \ {o} : RowsOf(p)' = RowsOf(p)
  BY <1>2, <1>3 DEF UpdateRow, RowsOf
<1>5. \A e : (e \in fts) # (e \in fts') => e[1] = r.id
  BY <1>3 DEF IndexUpdated, IndexInserted, Deindex
<1>6. cur \in RowsOf(o)
  BY <1>2 DEF RowsOf
<1>7. r.status \in MemoryStatus
  BY DEF Record, MemoryStatus
<1>8. Event(cur, cur.owner, action, at, Null, cur.status, r.status) \in AuditEvent
  BY <1>2, <1>7, EventType
<1>9. Event(cur, cur.owner, action, at, Null, cur.status, r.status).owner = o
  BY <1>2 DEF Event
<1>. QED
  BY <1>2, <1>3, <1>4, <1>5, <1>6, <1>8, <1>9, AppendOwner DEF TouchesOnly, TypeOK

LEMMA TouchCreate ==
  ASSUME TypeOK, NEW o \in Owners, Creates(o)
  PROVE  TouchesOnly(o)
<1>1. PICK r \in Record : r.owner = o /\ Create(r, Null)
  BY DEF Creates
<1>2. Event(r, r.owner, "create", r.created, Null, Null, r.status) \in AuditEvent
  BY EventType DEF Record, AuditAction, MemoryStatus
<1>3. \A i \in Len(audit) + 1 .. Len(audit') : audit'[i].owner = o
  BY <1>1, <1>2, AppendOwner DEF Create, Event, TypeOK
<1>. QED
  BY <1>1, <1>3 DEF Create, IndexInserted, RowsOf, TouchesOnly

LEMMA TouchSupersede ==
  ASSUME TypeOK, NEW o \in Owners, Supersedes(o)
  PROVE  TouchesOnly(o)
<1>1. PICK cur \in Owned(o), r \in Record, at \in Times :
        r.owner = o /\ Supersede(cur, r, at, Null)
  BY DEF Supersedes
<1>. DEFINE old == SupersededMemory(cur, r, at)
            new == LinkedReplacement(cur, r, at)
            supersede == Event(cur, cur.owner, "supersede", at, Null, cur.status, "superseded")
            create == Event(new, cur.owner, "create", at, Null, Null, "active")
<1>2. cur \in Record /\ cur \in memories /\ cur.owner = o
  BY DEF TypeOK, Owned
<1>3. old.id = cur.id /\ old.owner = o /\ new.id = r.id /\ new.owner = o
  BY <1>1, <1>2 DEF SupersededMemory, LinkedReplacement, Record
<1>4. /\ memories' = UpdateRow(memories, old) \cup {new}
      /\ fts' = IndexInserted(IndexUpdated(fts, old), {new})
      /\ audit' = audit \o << supersede, create >>
  BY <1>1 DEF Supersede
<1>5. supersede.owner = o /\ create.owner = o
  BY <1>2 DEF Event
<1>. HIDE DEF old, new, supersede, create
<1>6. \A p \in Owners \ {o} : RowsOf(p)' = RowsOf(p)
  BY <1>3, <1>4 DEF UpdateRow, RowsOf
<1>7. \A e : (e \in fts) # (e \in fts') => e[1] = cur.id \/ e[1] = new.id
  BY <1>3, <1>4 DEF IndexUpdated, IndexInserted, Deindex
<1>8. cur \in RowsOf(o) /\ new \in RowsOf(o)'
  BY <1>2, <1>3, <1>4 DEF RowsOf
<1>9. \A i \in Len(audit) + 1 .. Len(audit') : audit'[i].owner = o
  BY <1>4, <1>5 DEF TypeOK
<1>. QED
  BY <1>6, <1>7, <1>8, <1>9 DEF TouchesOnly

LEMMA TouchDelete ==
  ASSUME TypeOK, NEW o \in Owners, HardDeleteMemory(o)
  PROVE  TouchesOnly(o)
<1>1. PICK cur \in Owned(o), at \in Times : HardDelete(cur, at)
  BY DEF HardDeleteMemory
<1>2. cur \in Record /\ cur.owner = o /\ cur.status \in RowStatus /\ cur \in RowsOf(o)
  BY DEF TypeOK, Owned, Record, RowsOf
<1>3. Event(cur, cur.owner, "hard_delete", at, Null, cur.status, "deleted") \in AuditEvent
  BY <1>2, EventType DEF AuditAction, MemoryStatus
<1>4. \A i \in Len(audit) + 1 .. Len(audit') : audit'[i].owner = o
  BY <1>1, <1>2, <1>3, AppendOwner DEF HardDelete, Event, TypeOK
<1>5. \A e : (e \in fts) # (e \in fts') => e[1] = cur.id
  BY <1>1 DEF HardDelete, Deindex
<1>. QED
  BY <1>1, <1>2, <1>4, <1>5 DEF HardDelete, DeleteRow, RowsOf, TouchesOnly

LEMMA TouchImport ==
  ASSUME TypeOK, NEW o \in Owners, ImportMemories(o)
  PROVE  TouchesOnly(o)
<1>1. PICK batch \in Batches : ImportRecords(o, batch)
  BY DEF ImportMemories
<1>. DEFINE recs == [i \in DOMAIN batch |-> [batch[i] EXCEPT !.owner = o]]
            inserted == {recs[i] : i \in DOMAIN recs}
            events == [i \in DOMAIN recs |->
              Event(recs[i], o, "import", recs[i].updated, Null, Null, recs[i].status)]
<1>2. /\ memories' = memories \cup inserted /\ fts' = IndexInserted(fts, inserted)
      /\ audit' = audit \o events
  BY <1>1 DEF ImportRecords
<1>3. \A r \in inserted : r.owner = o
  <2>1. \A i \in DOMAIN batch : [batch[i] EXCEPT !.owner = o].owner = o
    BY ReboundBatch
  <2>2. \A i \in DOMAIN recs : recs[i].owner = o
    BY <2>1
  <2>. HIDE DEF recs
  <2>. QED
    BY <2>2
<1>4. DOMAIN recs = 1 .. Len(batch) /\ Len(batch) \in Nat
  BY ReboundBatch, BatchAssumption
<1>5. \A i \in DOMAIN events : events[i].owner = o
  BY DEF Event
<1>6. events \in Seq({events[i] : i \in DOMAIN events})
  BY <1>4
<1>. HIDE DEF inserted, events
<1>7. \A i \in Len(audit) + 1 .. Len(audit') : audit'[i].owner = o
  BY <1>2, <1>5, <1>6 DEF TypeOK
<1>8. \A p \in Owners \ {o} : RowsOf(p)' = RowsOf(p)
  BY <1>2, <1>3 DEF RowsOf
<1>9. \A e : (e \in fts) # (e \in fts') => \E r \in inserted : e[1] = r.id
  BY <1>2 DEF IndexInserted
<1>10. inserted \subseteq RowsOf(o)'
  BY <1>2, <1>3 DEF RowsOf
<1>. QED
  BY <1>7, <1>8, <1>9, <1>10 DEF TouchesOnly

Isolated(o) ==
  /\ \A p \in Owners \ {o} : RowsOf(p)' = RowsOf(p) /\ EntriesOf(p)' = EntriesOf(p)
  /\ \A i \in Len(audit) + 1 .. Len(audit') : audit'[i].owner = o

LEMMA IsolatedStep ==
  ASSUME TypeOK, KeysUnique, KeysUnique', NEW o \in Owners, OwnerStep(o)
  PROVE  Isolated(o)
<1>1. TouchesOnly(o)
  BY StepShape, TouchCreate, TouchRewrite, TouchSupersede, TouchDelete, TouchImport
<1>2. ASSUME NEW p \in Owners \ {o}, NEW r \in RowsOf(p), NEW e, r.id = e[1]
      PROVE  e \in fts <=> e \in fts'
  <2>1. SUFFICES ASSUME NEW s \in RowsOf(o) \cup RowsOf(o)', s.id = e[1] PROVE FALSE
    BY <1>1 DEF TouchesOnly
  <2>2. r \in memories /\ r \in memories' /\ r.owner = p
    BY <1>1 DEF TouchesOnly, RowsOf
  <2>3. s \in memories \/ s \in memories'
    BY <2>1 DEF RowsOf
  <2>4. s.owner = o
    BY <2>1 DEF RowsOf
  <2>. QED
    BY <1>2, <2>1, <2>2, <2>3, <2>4 DEF KeysUnique
<1>3. ASSUME NEW p \in Owners \ {o}
      PROVE  EntriesOf(p)' = EntriesOf(p)
  BY <1>1, <1>2 DEF EntriesOf, TouchesOnly
<1>. QED
  BY <1>1, <1>3 DEF Isolated, TouchesOnly

(* Whatever an owner asks for, every other owner's rows and index entries  *)
(* stay as they are, and the trail names that owner alone.                 *)
THEOREM OwnersAreIsolated == Spec => OwnerIsolation
<1>1. TypeOK /\ KeysUnique /\ KeysUnique' /\ [Next]_vars
        => [\A o \in Owners : OwnerStep(o) => Isolated(o)]_vars
  BY IsolatedStep
<1>2. Spec => [][\A o \in Owners : OwnerStep(o) => Isolated(o)]_vars
  BY <1>1, TypeCorrect, KeysAreUnique, PTL DEF Spec
<1>. QED
  BY <1>2 DEF OwnerIsolation, Isolated
-----------------------------------------------------------------------------
(* Links.  An id a replacement takes is one no row links to, and an active *)
(* memory has no successor yet.                                            *)

LEMMA LinksCreate ==
  ASSUME TypeOK, LinksMutual, NEW o \in Owners, Creates(o)
  PROVE  LinksMutual'
<1>1. PICK r \in Record :
        /\ r.id \in FreshIds /\ r.supersedes = Null /\ r.superseded_by = Null
        /\ Create(r, Null)
  BY DEF Creates
<1>2. memories' = memories \cup {r}
  BY <1>1 DEF Create
<1>3. \A s \in memories' : s.id # Null
  BY <1>2, NullAssumption DEF TypeOK, Record
<1>. QED
  BY <1>1, <1>2, <1>3 DEF LinksMutual, FreshIds

LEMMA LinksRewrite ==
  ASSUME KeysUnique, LinksMutual, NEW o \in Owners, RewritesRow(o)
  PROVE  LinksMutual'
<1>1. PICK cur \in Owned(o), r \in Record, action \in AuditAction, at \in Times :
        Rewrites(cur, r) /\ PersistUpdate(cur, r, action, at, Null)
  BY DEF RewritesRow
<1>2. cur \in memories
  BY DEF Owned
<1>3. memories' = (memories \ {cur}) \cup {r}
  BY <1>1, <1>2, UpdateHitsOne DEF PersistUpdate, Rewrites
<1>. QED
  BY <1>1, <1>2, <1>3 DEF LinksMutual, Rewrites

LEMMA LinksSupersede ==
  ASSUME TypeOK, KeysUnique, LinksMutual, NEW o \in Owners, Supersedes(o)
  PROVE  LinksMutual'
<1>1. PICK cur \in Owned(o), r \in Record, at \in Times :
        /\ r.owner = o /\ r.id \in FreshIds
        /\ r.supersedes = Null /\ r.superseded_by = Null
        /\ Supersede(cur, r, at, Null)
  BY DEF Supersedes
<1>. DEFINE old == SupersededMemory(cur, r, at)
            new == LinkedReplacement(cur, r, at)
<1>2. cur \in memories /\ cur \in Record /\ cur.owner = o
  BY DEF Owned, TypeOK
<1>3. /\ old.id = cur.id /\ old.owner = o
      /\ old.supersedes = cur.supersedes /\ old.superseded_by = r.id
      /\ new.id = r.id /\ new.owner = o
      /\ new.supersedes = cur.id /\ new.superseded_by = Null
  BY <1>1, <1>2 DEF SupersededMemory, LinkedReplacement, Record
<1>4. memories' = ((memories \ {cur}) \cup {old}) \cup {new}
  <2>1. UpdateRow(memories, old) = (memories \ {cur}) \cup {old}
    BY <1>2, <1>3, UpdateHitsOne
  <2>. QED
    BY <1>1, <2>1 DEF Supersede
<1>5. cur.superseded_by = Null
  BY <1>1, <1>2 DEF Supersede, CanTransition, AllowedSources, TypeOK, ValidRecord
<1>6. \A s \in memories : s.id # Null /\ s.supersedes # cur.id
  <2>1. \A s \in memories : s.id # Null
    BY NullAssumption DEF TypeOK, Record
  <2>. QED
    BY <1>2, <1>5, <2>1 DEF LinksMutual
<1>7. /\ r.id # Null /\ r.id # cur.id /\ cur.supersedes # r.id
      /\ \A s \in memories : s.id # r.id /\ s.supersedes # r.id /\ s.superseded_by # r.id
  BY <1>1, <1>2, NullAssumption DEF FreshIds, Record
<1>8. cur.supersedes # cur.id
  BY <1>2, <1>6
<1>. HIDE DEF old, new
<1>9. ASSUME NEW x \in memories', NEW y \in memories'
      PROVE  (x.superseded_by = y.id <=> y.supersedes = x.id)
               /\ (x.superseded_by = y.id => x.owner = y.owner)
  <2>1. CASE x \in memories \ {cur} /\ y \in memories \ {cur}
    BY <2>1 DEF LinksMutual
  <2>2. CASE x \in memories \ {cur} /\ y = old
    BY <1>2, <1>3, <2>2 DEF LinksMutual
  <2>3. CASE x \in memories \ {cur} /\ y = new
    BY <1>2, <1>3, <1>7, <2>3 DEF KeysUnique
  <2>4. CASE x = old /\ y \in memories \ {cur}
    BY <1>3, <1>6, <1>7, <2>4
  <2>5. CASE x = old /\ y = old
    BY <1>3, <1>7, <1>8, <2>5
  <2>6. CASE x = old /\ y = new
    BY <1>3, <2>6
  <2>7. CASE x = new
    BY <1>2, <1>3, <1>4, <1>6, <1>7, <2>7
  <2>. QED
    BY <1>4, <1>9, <2>1, <2>2, <2>3, <2>4, <2>5, <2>6, <2>7
<1>. QED
  BY <1>9 DEF LinksMutual

LEMMA LinksStep ==
  ASSUME Batches = {}
  PROVE  TypeOK /\ KeysUnique /\ LinksMutual /\ [Next]_vars => LinksMutual'
<1>. SUFFICES ASSUME TypeOK, KeysUnique, LinksMutual, [Next]_vars PROVE LinksMutual'
  OBVIOUS
<1>1. ASSUME NEW o \in Owners, OwnerStep(o) PROVE LinksMutual'
  <2>1. CASE HardDeleteMemory(o)
    BY <2>1 DEF HardDeleteMemory, HardDelete, DeleteRow, LinksMutual
  <2>2. ~ ImportMemories(o)
    BY DEF ImportMemories
  <2>. QED
    BY <1>1, <2>1, <2>2, StepShape, LinksCreate, LinksRewrite, LinksSupersede
<1>2. CASE Reconnect \/ UNCHANGED vars
  BY <1>2 DEF Reconnect, Connect, tables, vars, repoVars, LinksMutual
<1>. QED
  BY <1>1, <1>2 DEF Next

(* Without imports the two sides of every supersession name each other,    *)
(* within one owner.                                                       *)
THEOREM LinksAreMutual ==
  ASSUME Batches = {}
  PROVE  Spec => []LinksMutual
<1>1. Init => LinksMutual
  BY DEF Init, LinksMutual
<1>. QED
  BY <1>1, LinksStep, TypeCorrect, KeysAreUnique, PTL DEF Spec
-----------------------------------------------------------------------------
(* The trail.  A step of the vault appends events about different          *)
(* memories; each of them starts from the status of the row as it was      *)
(* (from nothing if there was none) and states what the row becomes.       *)

MentionedIn(events, id) == \E i \in 1 .. Len(events) : events[i].memory = id

(* One event per memory, each from the row as it was ... *)
StartFromRows(events) ==
  /\ \A i, j \in 1 .. Len(events) : i # j => events[i].memory # events[j].memory
  /\ \A i \in 1 .. Len(events) :
       /\ \A r \in memories : r.id = events[i].memory => events[i].from = r.status
       /\ (\A r \in memories : r.id # events[i].memory) => events[i].from = Null

(* ... and to the row as it is now, while the others stay. *)
EndInRows(events) ==
  /\ \A i \in 1 .. Len(events) :
       events[i].to # "deleted" => \E r \in memories' : r.id = events[i].memory
  /\ \A r \in memories' :
       \/ \E i \in 1 .. Len(events) :
            events[i].memory = r.id /\ events[i].owner = r.owner /\ events[i].to = r.status
       \/ r \in memories /\ ~ MentionedIn(events, r.id)
  /\ \A r \in memories : ~ MentionedIn(events, r.id) => r \in memories'

LEMMA TrailExtends ==
  ASSUME TypeOK, AuditExplains, NEW events \in Seq(AuditEvent),
         audit' = audit \o events, StartFromRows(events), EndInRows(events)
  PROVE  AuditExplains'
<1>. DEFINE n == Len(audit)
<1>1. /\ n \in Nat /\ Len(events) \in Nat /\ Len(audit') = n + Len(events)
      /\ \A i \in 1 .. n : audit'[i] = audit[i]
      /\ \A i \in 1 .. Len(events) : audit'[n + i] = events[i]
      /\ \A j \in 1 .. Len(audit') : j \notin 1 .. n => j - n \in 1 .. Len(events)
                                                        /\ audit'[j] = events[j - n]
  BY DEF TypeOK
<1>. HIDE DEF n
<1>2. ASSUME NEW i \in 1 .. n, NEW id, LastEventOf(i, id)
      PROVE  (\E r \in memories : r.id = id /\ StatusAfter(audit[i]) = r.status)
               \/ ((\A r \in memories : r.id # id) /\ StatusAfter(audit[i]) = Null)
  <2>1. CASE \E r \in memories : r.id = id
    <3>1. PICK r \in memories : r.id = id
      BY <2>1
    <3>2. PICK k \in 1 .. n : LastEventOf(k, id) /\ audit[k].to = r.status
      BY <3>1 DEF AuditExplains, RowsExplained, n
    <3>3. k = i
      BY <1>1, <1>2, <3>2 DEF LastEventOf, n
    <3>4. r.status # "deleted"
      BY DEF TypeOK, Record, RowStatus
    <3>. QED
      BY <3>1, <3>2, <3>3, <3>4 DEF StatusAfter
  <2>2. CASE \A r \in memories : r.id # id
    BY <1>2, <2>2 DEF AuditExplains, DeletionsExplained, LastEventOf, StatusAfter, n
  <2>. QED
    BY <2>1, <2>2
<1>3. FirstEventCreates'
  <2>1. SUFFICES ASSUME NEW j \in 1 .. Len(audit'),
                        \A i \in 1 .. j - 1 : audit'[i].memory # audit'[j].memory
                 PROVE  audit'[j].from = Null
    BY DEF FirstEventCreates
  <2>2. CASE j \in 1 .. n
    <3>1. \A i \in 1 .. j - 1 : audit[i].memory # audit[j].memory
      BY <1>1, <2>1, <2>2
    <3>. QED
      BY <1>1, <2>2, <3>1 DEF AuditExplains, FirstEventCreates, n
  <2>3. CASE j \notin 1 .. n
    <3>1. j - n \in 1 .. Len(events) /\ audit'[j] = events[j - n]
      BY <1>1, <2>3
    <3>2. \A i \in 1 .. n : audit[i].memory # events[j - n].memory
      BY <1>1, <2>1, <2>3, <3>1
    <3>3. \A r \in memories : r.id # events[j - n].memory
      BY <3>2 DEF AuditExplains, RowsExplained, LastEventOf, n
    <3>. QED
      BY <3>1, <3>3 DEF StartFromRows
  <2>. QED
    BY <2>2, <2>3
<1>4. EventsChained'
  <2>1. SUFFICES ASSUME NEW i \in 1 .. Len(audit'), NEW j \in 1 .. Len(audit'), i < j,
                        audit'[i].memory = audit'[j].memory,
                        \A k \in i + 1 .. j - 1 : audit'[k].memory # audit'[i].memory
                 PROVE  audit'[j].from = StatusAfter(audit'[i])
    BY DEF EventsChained, StatusAfter
  <2>2. CASE j \in 1 .. n
    <3>1. i \in 1 .. n
      BY <1>1, <2>1, <2>2
    <3>2. \A k \in i + 1 .. j - 1 : audit[k].memory # audit[i].memory
      BY <1>1, <2>1, <2>2, <3>1
    <3>3. audit[i].memory = audit[j].memory
      BY <1>1, <2>1, <2>2, <3>1
    <3>4. audit[j].from = StatusAfter(audit[i])
      BY <2>1, <2>2, <3>1, <3>2, <3>3 DEF AuditExplains, EventsChained, n
    <3>. QED
      BY <1>1, <2>2, <3>1, <3>4
  <2>3. CASE j \notin 1 .. n /\ i \in 1 .. n
    <3>1. j - n \in 1 .. Len(events) /\ audit'[j] = events[j - n] /\ audit'[i] = audit[i]
      BY <1>1, <2>3
    <3>2. \A k \in i + 1 .. n : audit[k].memory # audit[i].memory
      <4>1. \A k \in i + 1 .. n : k \in 1 .. n /\ k \in i + 1 .. j - 1
        BY <1>1, <2>3
      <4>2. \A k \in 1 .. n : audit'[k] = audit[k]
        BY <1>1
      <4>. QED
        BY <2>1, <3>1, <4>1, <4>2
    <3>3. LastEventOf(i, audit[i].memory)
      BY <3>2 DEF LastEventOf, n
    <3>4. audit[i].memory = events[j - n].memory
      BY <2>1, <3>1
    <3>5. CASE \E r \in memories : r.id = audit[i].memory /\ StatusAfter(audit[i]) = r.status
      BY <3>1, <3>4, <3>5 DEF StartFromRows
    <3>6. CASE (\A r \in memories : r.id # audit[i].memory) /\ StatusAfter(audit[i]) = Null
      BY <3>1, <3>4, <3>6 DEF StartFromRows
    <3>. QED
      BY <1>2, <2>3, <3>3, <3>5, <3>6
  <2>4. CASE i \notin 1 .. n /\ j \notin 1 .. n
    <3>1. /\ i - n \in 1 .. Len(events) /\ audit'[i] = events[i - n]
          /\ j - n \in 1 .. Len(events) /\ audit'[j] = events[j - n]
      BY <1>1, <2>4
    <3>2. i - n # j - n
      BY <1>1, <2>1
    <3>. QED
      BY <2>1, <3>1, <3>2 DEF StartFromRows
  <2>. QED
    BY <2>2, <2>3, <2>4
<1>5. RowsExplained'
  <2>1. SUFFICES ASSUME NEW r \in memories'
                 PROVE  \E i \in 1 .. Len(audit') :
                          /\ audit'[i].memory = r.id
                          /\ \A j \in i + 1 .. Len(audit') : audit'[j].memory # r.id
                          /\ audit'[i].owner = r.owner /\ audit'[i].to = r.status
    BY DEF RowsExplained, LastEventOf
  <2>2. CASE \E i \in 1 .. Len(events) :
               events[i].memory = r.id /\ events[i].owner = r.owner /\ events[i].to = r.status
    <3>1. PICK i \in 1 .. Len(events) :
            events[i].memory = r.id /\ events[i].owner = r.owner /\ events[i].to = r.status
      BY <2>2
    <3>2. n + i \in 1 .. Len(audit') /\ audit'[n + i] = events[i]
      BY <1>1, SMTT(30)
    <3>3. ASSUME NEW j \in n + i + 1 .. Len(audit') PROVE audit'[j].memory # r.id
      <4>1. j - n \in 1 .. Len(events) /\ audit'[j] = events[j - n] /\ j - n # i
        BY <1>1, <3>3
      <4>. QED
        BY <3>1, <4>1 DEF StartFromRows
    <3>. QED
      BY <3>1, <3>2, <3>3
  <2>3. CASE r \in memories /\ ~ MentionedIn(events, r.id)
    <3>1. PICK i \in 1 .. n :
            LastEventOf(i, r.id) /\ audit[i].owner = r.owner /\ audit[i].to = r.status
      BY <2>3 DEF AuditExplains, RowsExplained, n
    <3>2. ASSUME NEW j \in i + 1 .. Len(audit') PROVE audit'[j].memory # r.id
      <4>1. CASE j \in 1 .. n
        BY <1>1, <3>1, <3>2, <4>1 DEF LastEventOf, n
      <4>2. CASE j \notin 1 .. n
        BY <1>1, <2>3, <4>2 DEF MentionedIn
      <4>. QED
        BY <4>1, <4>2
    <3>3. i \in 1 .. Len(audit') /\ audit'[i] = audit[i]
      BY <1>1
    <3>. QED
      BY <3>1, <3>2, <3>3 DEF LastEventOf
  <2>. QED
    BY <2>2, <2>3 DEF EndInRows
<1>6. DeletionsExplained'
  <2>1. SUFFICES ASSUME NEW i \in 1 .. Len(audit'),
                        \A j \in i + 1 .. Len(audit') : audit'[j].memory # audit'[i].memory,
                        audit'[i].to # "deleted"
                 PROVE  \E r \in memories' : r.id = audit'[i].memory
    BY DEF DeletionsExplained, LastEventOf
  <2>2. CASE i \in 1 .. n
    <3>1. \A j \in i + 1 .. n : audit[j].memory # audit[i].memory
      BY <1>1, <2>1, <2>2
    <3>2. audit'[i] = audit[i]
      BY <1>1, <2>2
    <3>3. PICK r \in memories : r.id = audit[i].memory
      BY <2>1, <2>2, <3>1, <3>2 DEF AuditExplains, DeletionsExplained, LastEventOf, n
    <3>4. ASSUME NEW k \in 1 .. Len(events) PROVE events[k].memory # r.id
      <4>1. n + k \in i + 1 .. Len(audit') /\ audit'[n + k] = events[k]
        BY <1>1, <2>2
      <4>. QED
        BY <2>1, <3>2, <3>3, <4>1
    <3>. QED
      BY <3>2, <3>3, <3>4 DEF EndInRows, MentionedIn
  <2>3. CASE i \notin 1 .. n
    <3>1. i - n \in 1 .. Len(events) /\ audit'[i] = events[i - n]
      BY <1>1, <2>3
    <3>. QED
      BY <2>1, <3>1 DEF EndInRows
  <2>. QED
    BY <2>2, <2>3
<1>. QED
  BY <1>3, <1>4, <1>5, <1>6 DEF AuditExplains

LEMMA TrailExtendsByOne ==
  ASSUME TypeOK, AuditExplains, NEW e \in AuditEvent, audit' = Append(audit, e),
         StartFromRows(<<e>>), EndInRows(<<e>>)
  PROVE  AuditExplains'
<1>1. <<e>> \in Seq(AuditEvent) /\ audit' = audit \o <<e>>
  BY DEF TypeOK
<1>. QED
  BY <1>1, TrailExtends

LEMMA TrailCreate ==
  ASSUME TypeOK, AuditExplains, NEW o \in Owners, Creates(o)
  PROVE  AuditExplains'
<1>1. PICK r \in Record : Create(r, Null)
  BY DEF Creates
<1>. DEFINE e == Event(r, r.owner, "create", r.created, Null, Null, r.status)
<1>2. e \in AuditEvent
  BY EventType DEF Record, AuditAction, MemoryStatus
<1>3. /\ e.memory = r.id /\ e.owner = r.owner /\ e.from = Null /\ e.to = r.status
      /\ memories' = memories \cup {r} /\ audit' = Append(audit, e)
      /\ \A s \in memories : s.id # r.id
  BY <1>1 DEF Create, NoConflict, Event
<1>. HIDE DEF e
<1>4. StartFromRows(<<e>>)
  BY <1>3 DEF StartFromRows
<1>5. EndInRows(<<e>>)
  BY <1>3 DEF EndInRows, MentionedIn
<1>. QED
  BY <1>2, <1>3, <1>4, <1>5, TrailExtendsByOne

LEMMA TrailRewrite ==
  ASSUME TypeOK, KeysUnique, AuditExplains, NEW o \in Owners, RewritesRow(o)
  PROVE  AuditExplains'
<1>1. PICK cur \in Owned(o), r \in Record, action \in AuditAction, at \in Times :
        Rewrites(cur, r) /\ PersistUpdate(cur, r, action, at, Null)
  BY DEF RewritesRow
<1>. DEFINE e == Event(cur, cur.owner, action, at, Null, cur.status, r.status)
<1>2. cur \in memories /\ cur \in Record /\ cur.owner \in Owners /\ cur.status \in RowStatus
  BY DEF TypeOK, Owned, Record
<1>3. r.status \in MemoryStatus /\ r.id = cur.id /\ r.owner = cur.owner
  BY <1>1 DEF Record, MemoryStatus, Rewrites
<1>4. e \in AuditEvent
  BY <1>2, <1>3, EventType
<1>5. /\ e.memory = r.id /\ e.owner = r.owner /\ e.from = cur.status /\ e.to = r.status
      /\ memories' = (memories \ {cur}) \cup {r} /\ audit' = Append(audit, e)
  BY <1>1, <1>2, <1>3, UpdateHitsOne DEF PersistUpdate, Event
<1>. HIDE DEF e
<1>6. StartFromRows(<<e>>)
  BY <1>2, <1>3, <1>5 DEF StartFromRows, KeysUnique
<1>7. EndInRows(<<e>>)
  BY <1>2, <1>3, <1>5 DEF EndInRows, MentionedIn, KeysUnique
<1>. QED
  BY <1>4, <1>5, <1>6, <1>7, TrailExtendsByOne

LEMMA TrailDelete ==
  ASSUME TypeOK, KeysUnique, AuditExplains, NEW o \in Owners, HardDeleteMemory(o)
  PROVE  AuditExplains'
<1>1. PICK cur \in Owned(o), at \in Times : HardDelete(cur, at)
  BY DEF HardDeleteMemory
<1>. DEFINE e == Event(cur, cur.owner, "hard_delete", at, Null, cur.status, "deleted")
<1>2. cur \in memories /\ cur \in Record /\ cur.owner \in Owners /\ cur.status \in RowStatus
  BY DEF TypeOK, Owned, Record
<1>3. e \in AuditEvent
  BY <1>2, EventType DEF AuditAction, MemoryStatus
<1>4. /\ e.memory = cur.id /\ e.from = cur.status /\ e.to = "deleted"
      /\ memories' = DeleteRow(memories, cur.owner, cur.id) /\ audit' = Append(audit, e)
  BY <1>1 DEF HardDelete, Event
<1>. HIDE DEF e
<1>5. memories' = memories \ {cur}
  BY <1>2, <1>4 DEF DeleteRow, KeysUnique
<1>6. StartFromRows(<<e>>)
  BY <1>2, <1>4 DEF StartFromRows, KeysUnique
<1>7. EndInRows(<<e>>)
  BY <1>2, <1>4, <1>5 DEF EndInRows, MentionedIn, KeysUnique
<1>. QED
  BY <1>3, <1>4, <1>6, <1>7, TrailExtendsByOne

LEMMA TrailSupersede ==
  ASSUME TypeOK, KeysUnique, AuditExplains, NEW o \in Owners, Supersedes(o)
  PROVE  AuditExplains'
<1>1. PICK cur \in Owned(o), r \in Record, at \in Times : Supersede(cur, r, at, Null)
  BY DEF Supersedes
<1>. DEFINE old == SupersededMemory(cur, r, at)
            new == LinkedReplacement(cur, r, at)
            e1 == Event(cur, cur.owner, "supersede", at, Null, cur.status, "superseded")
            e2 == Event(new, cur.owner, "create", at, Null, Null, "active")
<1>2. cur \in memories /\ cur \in Record /\ cur.owner \in Owners /\ cur.status \in RowStatus
  BY DEF TypeOK, Owned, Record
<1>3. /\ old.id = cur.id /\ old.owner = cur.owner /\ old.status = "superseded"
      /\ new \in Record /\ new.id = r.id /\ new.owner = r.owner /\ new.status = r.status
  BY <1>2 DEF SupersededMemory, LinkedReplacement, Record, RowStatus
<1>4. e1 \in AuditEvent /\ e2 \in AuditEvent
  BY <1>2, <1>3, EventType DEF AuditAction, MemoryStatus, RowStatus
<1>5. /\ e1.memory = cur.id /\ e1.owner = cur.owner /\ e1.from = cur.status
      /\ e1.to = "superseded"
      /\ e2.memory = new.id /\ e2.owner = cur.owner /\ e2.from = Null /\ e2.to = "active"
  BY DEF Event
<1>6. UpdateRow(memories, old) = (memories \ {cur}) \cup {old}
  BY <1>2, <1>3, UpdateHitsOne
<1>7. /\ memories' = ((memories \ {cur}) \cup {old}) \cup {new}
      /\ audit' = audit \o <<e1, e2>>
      /\ new.owner = cur.owner /\ new.status = "active"
      /\ \A s \in (memories \ {cur}) \cup {old} : s.id # new.id
  BY <1>1, <1>3, <1>6 DEF Supersede, NoConflict
<1>. HIDE DEF old, new, e1, e2
<1>8. \A s \in memories : s.id # new.id
  BY <1>3, <1>7
<1>9. StartFromRows(<<e1, e2>>)
  BY <1>2, <1>3, <1>5, <1>8 DEF StartFromRows, KeysUnique
<1>10. EndInRows(<<e1, e2>>)
  <2>. DEFINE events == <<e1, e2>>
  <2>1. Len(events) = 2 /\ events[1] = e1 /\ events[2] = e2
    OBVIOUS
  <2>. HIDE DEF events
  <2>2. \A i \in 1 .. Len(events) : \E s \in memories' : s.id = events[i].memory
    BY <1>3, <1>5, <1>7, <2>1
  <2>3. ASSUME NEW s \in memories'
        PROVE  \/ \E i \in 1 .. Len(events) :
                    events[i].memory = s.id /\ events[i].owner = s.owner /\ events[i].to = s.status
               \/ s \in memories /\ ~ MentionedIn(events, s.id)
    <3>1. CASE s = old
      BY <1>3, <1>5, <2>1, <3>1
    <3>2. CASE s = new
      BY <1>5, <1>7, <2>1, <3>2
    <3>3. CASE s \in memories \ {cur}
      BY <1>2, <1>5, <1>8, <2>1, <3>3 DEF KeysUnique, MentionedIn
    <3>. QED
      BY <1>7, <2>3, <3>1, <3>2, <3>3
  <2>4. \A s \in memories : ~ MentionedIn(events, s.id) => s \in memories'
    BY <1>5, <1>7, <2>1 DEF MentionedIn
  <2>. QED
    BY <2>2, <2>3, <2>4 DEF EndInRows, events
<1>11. <<e1, e2>> \in Seq(AuditEvent)
  BY <1>4
<1>. QED
  BY <1>7, <1>9, <1>10, <1>11, TrailExtends

(* A batch is inserted row by row into a table without its ids, so its     *)
(* records have different ids.                                             *)
LEMMA TrailImport ==
  ASSUME TypeOK, AuditExplains, NEW o \in Owners, ImportMemories(o)
  PROVE  AuditExplains'
<1>1. PICK batch \in Batches : ImportRecords(o, batch)
  BY DEF ImportMemories
<1>. DEFINE recs == [i \in DOMAIN batch |-> [batch[i] EXCEPT !.owner = o]]
            events == [i \in DOMAIN recs |->
              Event(recs[i], o, "import", recs[i].updated, Null, Null, recs[i].status)]
<1>2. /\ recs \in Seq(Record) /\ DOMAIN recs = 1 .. Len(batch) /\ Len(batch) \in Nat
  BY ReboundBatch, BatchAssumption
<1>3. \A i \in DOMAIN recs : recs[i] \in Record /\ recs[i].owner = o
  <2>1. \A i \in DOMAIN batch : [batch[i] EXCEPT !.owner = o].owner = o
    BY ReboundBatch
  <2>2. \A i \in DOMAIN recs : recs[i].owner = o
    BY <2>1
  <2>. HIDE DEF recs
  <2>. QED
    BY <1>2, <2>2
<1>4. /\ \A i \in DOMAIN recs : NoConflict(memories \cup {recs[j] : j \in 1 .. i - 1}, recs[i])
      /\ memories' = memories \cup {recs[i] : i \in DOMAIN recs}
      /\ audit' = audit \o events
  BY <1>1 DEF ImportRecords
<1>. HIDE DEF recs
<1>5. /\ \A i \in DOMAIN recs : \A s \in memories : s.id # recs[i].id
      /\ \A i, j \in DOMAIN recs : i # j => recs[i].id # recs[j].id
  <2>1. \A i, j \in DOMAIN recs : j < i => j \in 1 .. i - 1
    BY <1>2
  <2>2. \A i, j \in DOMAIN recs : j < i => recs[i].id # recs[j].id
    BY <1>4, <2>1 DEF NoConflict
  <2>3. \A i, j \in DOMAIN recs : i # j => j < i \/ i < j
    BY <1>2
  <2>. QED
    BY <1>4, <2>2, <2>3 DEF NoConflict
<1>6. DOMAIN events = 1 .. Len(batch) /\ Len(events) = Len(batch)
  BY <1>2
<1>7. ASSUME NEW i \in 1 .. Len(batch)
      PROVE  /\ events[i] \in AuditEvent
             /\ events[i].memory = recs[i].id /\ events[i].owner = recs[i].owner
             /\ events[i].from = Null /\ events[i].to = recs[i].status
  <2>1. recs[i] \in Record /\ recs[i].owner = o
    BY <1>2, <1>3
  <2>2. recs[i].updated \in Times /\ recs[i].status \in MemoryStatus
    BY <2>1 DEF Record, MemoryStatus
  <2>3. events[i] = Event(recs[i], o, "import", recs[i].updated, Null, Null, recs[i].status)
    BY <1>2
  <2>. HIDE DEF events
  <2>4. "import" \in AuditAction
    BY DEF AuditAction
  <2>5. events[i] \in AuditEvent
    BY <2>1, <2>2, <2>3, <2>4, EventType
  <2>. QED
    BY <2>1, <2>3, <2>5 DEF Event
<1>8. events \in Seq(AuditEvent)
  BY <1>2, <1>6, <1>7
<1>. HIDE DEF events
<1>9. StartFromRows(events)
  BY <1>2, <1>5, <1>6, <1>7 DEF StartFromRows
<1>10. EndInRows(events)
  <2>1. \A i \in 1 .. Len(batch) : recs[i] \in memories'
    BY <1>2, <1>4
  <2>2. \A s \in memories : ~ MentionedIn(events, s.id)
    BY <1>2, <1>5, <1>6, <1>7 DEF MentionedIn
  <2>3. ASSUME NEW s \in memories', s \notin memories
        PROVE  \E i \in 1 .. Len(events) :
                 events[i].memory = s.id /\ events[i].owner = s.owner /\ events[i].to = s.status
    <3>1. PICK i \in 1 .. Len(batch) : s = recs[i]
      BY <1>2, <1>4, <2>3
    <3>2. /\ i \in 1 .. Len(events)
          /\ events[i].memory = s.id /\ events[i].owner = s.owner /\ events[i].to = s.status
      BY <1>6, <1>7, <3>1
    <3>. QED
      BY <3>2
  <2>4. \A i \in 1 .. Len(events) : \E s \in memories' : s.id = events[i].memory
    BY <1>6, <1>7, <2>1
  <2>5. memories \subseteq memories'
    BY <1>4
  <2>. QED
    BY <2>2, <2>3, <2>4, <2>5 DEF EndInRows
<1>. QED
  BY <1>4, <1>8, <1>9, <1>10, TrailExtends

LEMMA TrailStep == TypeOK /\ KeysUnique /\ AuditExplains /\ [Next]_vars => AuditExplains'
<1>. SUFFICES ASSUME TypeOK, KeysUnique, AuditExplains, [Next]_vars PROVE AuditExplains'
  OBVIOUS
<1>1. ASSUME NEW o \in Owners, OwnerStep(o) PROVE AuditExplains'
  BY <1>1, StepShape, TrailCreate, TrailRewrite, TrailSupersede, TrailDelete, TrailImport
<1>2. CASE Reconnect \/ UNCHANGED vars
  <2>1. memories' = memories /\ audit' = audit
    BY <1>2 DEF Reconnect, Connect, tables, vars, repoVars
  <2>. QED
    BY <2>1 DEF AuditExplains, FirstEventCreates, EventsChained, RowsExplained,
                DeletionsExplained, LastEventOf
<1>. QED
  BY <1>1, <1>2 DEF Next

(* The trail explains the store: replaying a memory's events gives the     *)
(* owner and status its row has, or that it is gone.                       *)
THEOREM TrailExplainsStore == Spec => []AuditExplains
<1>1. Init => AuditExplains
  BY DEF Init, AuditExplains, FirstEventCreates, EventsChained, RowsExplained,
         DeletionsExplained
<1>. QED
  BY <1>1, TrailStep, TypeCorrect, KeysAreUnique, PTL DEF Spec

-----------------------------------------------------------------------------
(* The vault implements the ledger: of a file whose first build had FTS5,  *)
(* whatever builds open it later, the index is complete and every step of  *)
(* the vault is a step of module Ledger or leaves book and index alone.    *)

(* Completeness of the index.  The table, once there, stays; without it    *)
(* IndexComplete says nothing, so the invariant keeps both.                *)

CompleteInv == indexed /\ IndexComplete

LEMMA CompleteRewrite ==
  ASSUME KeysUnique, CompleteInv, NEW o \in Owners, RewritesRow(o)
  PROVE  CompleteInv'
<1>1. PICK cur \in Owned(o), r \in Record, action \in AuditAction, at \in Times :
        Rewrites(cur, r) /\ PersistUpdate(cur, r, action, at, Null)
  BY DEF RewritesRow
<1>2. cur \in memories
  BY DEF Owned
<1>3. memories' = (memories \ {cur}) \cup {r} /\ r.id = cur.id
  BY <1>1, <1>2, UpdateHitsOne DEF PersistUpdate, Rewrites
<1>4. fts' = IndexUpdated(fts, r) /\ indexed' = indexed
  BY <1>1 DEF PersistUpdate, connection
<1>. QED
  BY <1>2, <1>3, <1>4
  DEF CompleteInv, IndexComplete, IndexUpdated, IndexInserted, Deindex, KeysUnique

LEMMA CompleteSupersede ==
  ASSUME TypeOK, KeysUnique, CompleteInv, NEW o \in Owners, Supersedes(o)
  PROVE  CompleteInv'
<1>1. PICK cur \in Owned(o), r \in Record, at \in Times : Supersede(cur, r, at, Null)
  BY DEF Supersedes
<1>. DEFINE old == SupersededMemory(cur, r, at)
            new == LinkedReplacement(cur, r, at)
<1>2. cur \in memories /\ cur \in Record
  BY DEF Owned, TypeOK
<1>3. old.id = cur.id /\ old.owner = cur.owner /\ old.status = "superseded"
  BY <1>2 DEF SupersededMemory, Record
<1>4. UpdateRow(memories, old) = (memories \ {cur}) \cup {old}
  BY <1>2, <1>3, UpdateHitsOne
<1>5. /\ memories' = ((memories \ {cur}) \cup {old}) \cup {new}
      /\ fts' = IndexInserted(IndexUpdated(fts, old), {new})
      /\ indexed' = indexed
  BY <1>1, <1>4 DEF Supersede, connection
<1>. HIDE DEF old, new
<1>6. \A s \in memories \ {cur} : s.id # old.id
  BY <1>2, <1>3 DEF KeysUnique
<1>. QED
  BY <1>3, <1>5, <1>6
  DEF CompleteInv, IndexComplete, IndexUpdated, IndexInserted, Deindex

LEMMA CompleteStep ==
  TypeOK /\ KeysUnique /\ CompleteInv /\ [Next]_vars => CompleteInv'
<1>. SUFFICES ASSUME TypeOK, KeysUnique, CompleteInv, [Next]_vars PROVE CompleteInv'
  OBVIOUS
<1>1. ASSUME NEW o \in Owners, OwnerStep(o) PROVE CompleteInv'
  <2>1. CASE Creates(o)
    BY <2>1 DEF Creates, Create, IndexInserted, connection, CompleteInv, IndexComplete
  <2>2. CASE HardDeleteMemory(o)
    BY <2>2 DEF HardDeleteMemory, HardDelete, Owned, DeleteRow, Deindex, connection,
                KeysUnique, CompleteInv, IndexComplete
  <2>3. CASE ImportMemories(o)
    <3>1. PICK inserted :
            /\ memories' = memories \cup inserted
            /\ fts' = IndexInserted(fts, inserted)
            /\ UNCHANGED connection
      BY <2>3 DEF ImportMemories, ImportRecords
    <3>. QED
      BY <3>1 DEF IndexInserted, connection, CompleteInv, IndexComplete
  <2>. QED
    BY <1>1, <2>1, <2>2, <2>3, StepShape, CompleteRewrite, CompleteSupersede
<1>2. CASE Reconnect
  BY <1>2 DEF Reconnect, Connect, tables, CompleteInv, IndexComplete
<1>3. CASE UNCHANGED vars
  BY <1>3 DEF vars, repoVars, CompleteInv, IndexComplete
<1>. QED
  BY <1>1, <1>2, <1>3 DEF Next

LEMMA CompleteInvariance == Spec /\ indexed => []CompleteInv
<1>1. Init /\ indexed => CompleteInv
  BY DEF Init, CompleteInv, IndexComplete
<1>. QED
  BY <1>1, CompleteStep, TypeCorrect, KeysAreUnique, PTL DEF Spec

(* ADR-014: the index of a file created with FTS5 finds every active       *)
(* memory, also after builds without FTS5 have opened it in between.       *)
THEOREM IndexIsComplete == Spec /\ indexed => []IndexComplete
BY CompleteInvariance, PTL DEF CompleteInv
-----------------------------------------------------------------------------
(* The refinement.  With a sound and complete index the entries are what   *)
(* the ledger makes searchable, so only the book remains to be looked at.  *)

EntryOf(r) ==
  [id |-> r.id, owner |-> r.owner, content |-> r.content,
   recallable |-> (r.status = "active")]

LEMMA BookOfRows == Book = {EntryOf(r) : r \in memories}
BY DEF Book, EntryOf

LEMMA EntryIsEntry ==
  ASSUME NEW r \in Record
  PROVE  /\ EntryOf(r) \in AsLedger!Entry
         /\ EntryOf(r).id = r.id /\ EntryOf(r).owner = r.owner
         /\ EntryOf(r).content = r.content
         /\ EntryOf(r).recallable = (r.status = "active")
BY DEF EntryOf, AsLedger!Entry, Record

IndexView == fts = AsLedger!Recallable(Book)

LEMMA IndexIsView == TypeOK /\ IndexSound /\ CompleteInv => IndexView
<1>. SUFFICES ASSUME TypeOK, IndexSound, CompleteInv
              PROVE  fts = AsLedger!Recallable(Book)
  BY DEF IndexView
<1>1. fts \subseteq AsLedger!Recallable(Book)
  <2>1. SUFFICES ASSUME NEW e \in fts PROVE e \in AsLedger!Recallable(Book)
    OBVIOUS
  <2>2. PICK r \in memories : r.id = e[1] /\ r.content = e[2] /\ r.status = "active"
    BY DEF IndexSound
  <2>3. e = <<r.id, r.content>>
    BY <2>2 DEF TypeOK
  <2>4. EntryOf(r) \in Book
    BY BookOfRows
  <2>5. EntryOf(r).recallable /\ EntryOf(r).id = r.id /\ EntryOf(r).content = r.content
    BY <2>2 DEF EntryOf
  <2>. QED
    BY <2>3, <2>4, <2>5 DEF AsLedger!Recallable
<1>2. AsLedger!Recallable(Book) \subseteq fts
  <2>1. SUFFICES ASSUME NEW e \in Book, e.recallable PROVE <<e.id, e.content>> \in fts
    BY DEF AsLedger!Recallable
  <2>2. PICK r \in memories : e = EntryOf(r)
    BY BookOfRows
  <2>3. r.status = "active" /\ e.id = r.id /\ e.content = r.content
    BY <2>1, <2>2 DEF EntryOf
  <2>. QED
    BY <2>3 DEF CompleteInv, IndexComplete
<1>. QED
  BY <1>1, <1>2

LEMMA SetRecallable ==
  ASSUME NEW id, NEW owner, NEW content, NEW was, NEW now
  PROVE  [[id |-> id, owner |-> owner, content |-> content, recallable |-> was]
            EXCEPT !.recallable = now] =
         [id |-> id, owner |-> owner, content |-> content, recallable |-> now]
OBVIOUS

LEMMA WithdrawnEntry ==
  ASSUME NEW r, NEW s, r.id = s.id, r.owner = s.owner, r.content = s.content,
         s.status # "active"
  PROVE  EntryOf(s) = AsLedger!Withdrawn(EntryOf(r))
<1>. DEFINE was == (r.status = "active")
            now == FALSE
<1>1. (s.status = "active") = now
  OBVIOUS
<1>2. EntryOf(s) = [id |-> r.id, owner |-> r.owner, content |-> r.content, recallable |-> now]
  BY <1>1, Zenon DEF EntryOf
<1>3. EntryOf(r) = [id |-> r.id, owner |-> r.owner, content |-> r.content, recallable |-> was]
  BY DEF EntryOf
<1>4. AsLedger!Withdrawn(EntryOf(r)) = [EntryOf(r) EXCEPT !.recallable = now]
  BY DEF AsLedger!Withdrawn
<1>. HIDE DEF was, now
<1>. QED
  BY <1>2, <1>3, <1>4, SetRecallable

(* Replacing one row replaces one entry, since no other row has its id.    *)
LEMMA BookWithout ==
  ASSUME KeysUnique, NEW cur \in memories
  PROVE  {EntryOf(s) : s \in memories \ {cur}} = Book \ {EntryOf(cur)}
<1>1. \A s \in memories \ {cur} : EntryOf(s) # EntryOf(cur)
  BY DEF EntryOf, KeysUnique
<1>. QED
  BY <1>1, BookOfRows

LedgerStep == [AsLedger!Next]_<<Book, fts>>

LEMMA LedgerRewrite ==
  ASSUME TypeOK, KeysUnique, IndexView, IndexView', NEW o \in Owners, RewritesRow(o)
  PROVE  LedgerStep
<1>1. PICK cur \in Owned(o), r \in Record, action \in AuditAction, at \in Times :
        Rewrites(cur, r) /\ PersistUpdate(cur, r, action, at, Null)
  BY DEF RewritesRow
<1>2. cur \in memories /\ cur \in Record /\ cur.owner = o
  BY DEF Owned, TypeOK
<1>3. memories' = (memories \ {cur}) \cup {r} /\ r.id = cur.id /\ r.owner = cur.owner
  BY <1>1, <1>2, UpdateHitsOne DEF PersistUpdate, Rewrites
<1>4. Book' = (Book \ {EntryOf(cur)}) \cup {EntryOf(r)}
  <2>1. Book' = {EntryOf(s) : s \in memories'}
    BY DEF Book, EntryOf
  <2>. QED
    BY <1>2, <1>3, <2>1, BookWithout
<1>5. EntryOf(cur) \in Book
  BY <1>2, BookOfRows
<1>6. CASE cur.status = "active" /\ r.status = "active"
  <2>1. EntryOf(r) = [EntryOf(cur) EXCEPT !.content = r.content]
    BY <1>3, <1>6 DEF EntryOf
  <2>2. EntryOf(cur).owner = o /\ EntryOf(cur).recallable /\ r.content \in Contents
    BY <1>2, <1>6, EntryIsEntry DEF Record
  <2>3. AsLedger!Revise(o)
    BY <1>4, <1>5, <2>1, <2>2 DEF AsLedger!Revise, AsLedger!Commit, IndexView
  <2>. QED
    BY <2>3 DEF LedgerStep, AsLedger!Next
<1>7. CASE cur.status = "active" /\ r.status # "active"
  <2>1. EntryOf(r) = AsLedger!Withdrawn(EntryOf(cur))
    BY <1>1, <1>3, <1>7, WithdrawnEntry DEF Rewrites
  <2>2. EntryOf(cur).owner = o /\ EntryOf(cur).recallable
    BY <1>2, <1>7, EntryIsEntry
  <2>3. AsLedger!Withdraw(o)
    BY <1>4, <1>5, <2>1, <2>2 DEF AsLedger!Withdraw, AsLedger!Commit, IndexView
  <2>. QED
    BY <2>3 DEF LedgerStep, AsLedger!Next
<1>8. CASE cur.status # "active"
  <2>1. r.status # "active"
    BY <1>1, <1>2, <1>8 DEF Rewrites, Forward, StatusRank, Record, RowStatus
  <2>2. EntryOf(r) = EntryOf(cur)
    BY <1>1, <1>3, <1>8, <2>1 DEF EntryOf, Rewrites
  <2>3. Book' = Book
    BY <1>4, <1>5, <2>2
  <2>. QED
    BY <2>3 DEF LedgerStep, IndexView
<1>. QED
  BY <1>6, <1>7, <1>8

LEMMA LedgerSupersede ==
  ASSUME TypeOK, KeysUnique, IndexView',
         NEW o \in Owners, Supersedes(o)
  PROVE  LedgerStep
<1>1. PICK cur \in Owned(o), r \in Record, at \in Times :
        r.owner = o /\ Supersede(cur, r, at, Null)
  BY DEF Supersedes
<1>. DEFINE old == SupersededMemory(cur, r, at)
            new == LinkedReplacement(cur, r, at)
<1>2. cur \in memories /\ cur \in Record /\ cur.owner = o /\ cur.status = "active"
  BY <1>1 DEF Owned, TypeOK, Supersede, CanTransition, AllowedSources
<1>3. /\ old.id = cur.id /\ old.owner = o /\ old.status = "superseded"
      /\ old.content = cur.content
      /\ new.id = r.id /\ new.owner = o /\ new.status = r.status /\ new.content = r.content
  BY <1>1, <1>2 DEF SupersededMemory, LinkedReplacement, Record
<1>4. UpdateRow(memories, old) = (memories \ {cur}) \cup {old}
  BY <1>2, <1>3, UpdateHitsOne
<1>5. /\ memories' = ((memories \ {cur}) \cup {old}) \cup {new}
      /\ r.status = "active"
      /\ \A s \in (memories \ {cur}) \cup {old} : s.id # new.id
  BY <1>1, <1>4 DEF Supersede, NoConflict
<1>6. Book' = (Book \ {EntryOf(cur)}) \cup {EntryOf(old), EntryOf(new)}
  <2>. HIDE DEF old, new
  <2>1. Book' = {EntryOf(s) : s \in memories'}
    BY DEF Book, EntryOf
  <2>. QED
    BY <1>2, <1>5, <2>1, BookWithout
<1>7. EntryOf(cur) \in Book /\ EntryOf(cur).owner = o /\ EntryOf(cur).recallable
  BY <1>2, BookOfRows, EntryIsEntry
<1>8. EntryOf(old) = AsLedger!Withdrawn(EntryOf(cur))
  <2>. HIDE DEF old, new
  <2>. QED
    BY <1>2, <1>3, WithdrawnEntry
<1>9. EntryOf(new) =
        [id |-> r.id, owner |-> o, content |-> r.content, recallable |-> TRUE]
  <2>. HIDE DEF old, new
  <2>. QED
    BY <1>3, <1>5 DEF EntryOf
<1>10. \A x \in Book : x.id # r.id
  <2>. HIDE DEF old, new
  <2>1. \A s \in memories : s.id # r.id
    BY <1>3, <1>5
  <2>. QED
    BY <2>1 DEF Book
<1>11. r.id \in Ids /\ r.content \in Contents
  BY DEF Record
<1>. HIDE DEF old, new
<1>12. AsLedger!Replace(o)
  BY <1>6, <1>7, <1>8, <1>9, <1>10, <1>11 DEF AsLedger!Replace, AsLedger!Commit, IndexView
<1>. QED
  BY <1>12 DEF LedgerStep, AsLedger!Next

LEMMA LedgerDelete ==
  ASSUME TypeOK, KeysUnique, IndexView',
         NEW o \in Owners, HardDeleteMemory(o)
  PROVE  LedgerStep
<1>1. PICK cur \in Owned(o), at \in Times : HardDelete(cur, at)
  BY DEF HardDeleteMemory
<1>2. cur \in memories /\ cur \in Record /\ cur.owner = o
  BY DEF Owned, TypeOK
<1>3. memories' = memories \ {cur}
  BY <1>1, <1>2 DEF HardDelete, DeleteRow, KeysUnique
<1>4. Book' = Book \ {EntryOf(cur)}
  <2>1. Book' = {EntryOf(s) : s \in memories'}
    BY DEF Book, EntryOf
  <2>. QED
    BY <1>2, <1>3, <2>1, BookWithout
<1>5. EntryOf(cur) \in Book /\ EntryOf(cur).owner = o
  BY <1>2, BookOfRows, EntryIsEntry
<1>6. AsLedger!Erase(o)
  BY <1>4, <1>5 DEF AsLedger!Erase, AsLedger!Commit, IndexView
<1>. QED
  BY <1>6 DEF LedgerStep, AsLedger!Next

(* New rows of one owner with new ids, at least one, are an admission.     *)
LEMMA LedgerAdmit ==
  ASSUME TypeOK, TypeOK', KeysUnique', IndexView',
         NEW o \in Owners, NEW inserted, inserted # {},
         memories' = memories \cup inserted,
         \A r \in inserted : r.owner = o /\ \A s \in memories : s.id # r.id
  PROVE  LedgerStep
<1>1. Book' = Book \cup {EntryOf(r) : r \in inserted}
  <2>1. Book' = {EntryOf(s) : s \in memories'}
    BY DEF Book, EntryOf
  <2>. QED
    BY <2>1, BookOfRows
<1>2. \A r \in inserted : r \in memories' /\ r \in Record
  BY DEF TypeOK
<1>3. \A r \in inserted : \A x \in Book : x.id # EntryOf(r).id
  BY <1>2, EntryIsEntry DEF Book
<1>4. Book' \ Book = {EntryOf(r) : r \in inserted}
  BY <1>1, <1>3
<1>5. Book' \ Book # {} /\ Book' \ Book \subseteq AsLedger!Entry
  BY <1>2, <1>4, EntryIsEntry
<1>6. \A e \in Book' \ Book : e.owner = o /\ \A x \in Book : x.id # e.id
  BY <1>2, <1>3, <1>4, EntryIsEntry
<1>7. \A e, x \in Book' \ Book : e.id = x.id => e = x
  <2>1. SUFFICES ASSUME NEW r \in inserted, NEW s \in inserted, EntryOf(r).id = EntryOf(s).id
                 PROVE  r = s
    BY <1>4
  <2>. QED
    BY <1>2, <2>1, EntryIsEntry DEF KeysUnique
<1>8. AsLedger!Admit(o)
  BY <1>1, <1>5, <1>6, <1>7 DEF AsLedger!Admit, IndexView
<1>. QED
  BY <1>8 DEF LedgerStep, AsLedger!Next

LEMMA LedgerImport ==
  ASSUME TypeOK, TypeOK', KeysUnique', IndexView',
         NEW o \in Owners, ImportMemories(o)
  PROVE  LedgerStep
<1>1. PICK batch \in Batches : ImportRecords(o, batch)
  BY DEF ImportMemories
<1>. DEFINE recs == [i \in DOMAIN batch |-> [batch[i] EXCEPT !.owner = o]]
            inserted == {recs[i] : i \in DOMAIN recs}
<1>2. /\ \A i \in DOMAIN recs : NoConflict(memories \cup {recs[j] : j \in 1 .. i - 1}, recs[i])
      /\ memories' = memories \cup inserted
      /\ batch # <<>>
  BY <1>1 DEF ImportRecords
<1>3. \A i \in DOMAIN recs : recs[i].owner = o
  <2>1. \A i \in DOMAIN batch : [batch[i] EXCEPT !.owner = o].owner = o
    BY ReboundBatch
  <2>. QED
    BY <2>1
<1>4. DOMAIN recs = 1 .. Len(batch) /\ Len(batch) \in Nat \ {0}
  BY <1>2, BatchAssumption, EmptySeq
<1>. HIDE DEF recs
<1>5. inserted # {}
  <2>1. 1 \in DOMAIN recs
    BY <1>4
  <2>. QED
    BY <2>1
<1>6. \A r \in inserted : r.owner = o /\ \A s \in memories : s.id # r.id
  BY <1>2, <1>3 DEF NoConflict
<1>. HIDE DEF inserted
<1>. QED
  BY <1>2, <1>5, <1>6, LedgerAdmit

ViewInv == TypeOK /\ KeysUnique /\ IndexView

LEMMA StepImplementsLedger == ViewInv /\ ViewInv' /\ [Next]_vars => LedgerStep
<1>. SUFFICES ASSUME ViewInv, ViewInv', [Next]_vars PROVE LedgerStep
  OBVIOUS
<1>. USE DEF ViewInv
<1>3. ASSUME NEW o \in Owners, OwnerStep(o) PROVE LedgerStep
  <2>1. CASE Creates(o)
    <3>1. PICK r \in Record : r.owner = o /\ Create(r, Null)
      BY <2>1 DEF Creates
    <3>2. memories' = memories \cup {r} /\ \A s \in memories : s.id # r.id
      BY <3>1 DEF Create, NoConflict
    <3>. DEFINE inserted == {r}
    <3>3. inserted # {} /\ memories' = memories \cup inserted
      BY <3>2
    <3>4. \A x \in inserted : x.owner = o /\ \A s \in memories : s.id # x.id
      BY <3>1, <3>2
    <3>. HIDE DEF inserted
    <3>. QED
      BY <3>3, <3>4, LedgerAdmit
  <2>. QED
    BY <1>3, <2>1, StepShape, LedgerRewrite, LedgerSupersede, LedgerDelete, LedgerImport
<1>4. CASE Reconnect \/ UNCHANGED vars
  BY <1>4 DEF Reconnect, Connect, tables, vars, repoVars, LedgerStep, Book
<1>. QED
  BY <1>3, <1>4 DEF Next

(* Over a file created with FTS5 the vault does nothing the ledger does    *)
(* not allow: what keyword search sees is at every moment the present      *)
(* content of the recallable entries, and no entry becomes recallable      *)
(* again.                                                                  *)
THEOREM VaultImplementsLedger == Spec /\ indexed => ImplementsLedger
<1>1. Init => AsLedger!Init
  BY DEF Init, AsLedger!Init, Book
<1>2. Spec /\ indexed => []ViewInv
  BY TypeCorrect, KeysAreUnique, IndexIsSound, CompleteInvariance, IndexIsView, PTL
  DEF ViewInv
<1>. QED
  BY <1>1, <1>2, StepImplementsLedger, PTL
  DEF Spec, ImplementsLedger, AsLedger!Spec, LedgerStep
=============================================================================
