--------------------------- MODULE VaultSessions ---------------------------
(***************************************************************************)
(* Several processes on one database file: "aira chat" in two terminals,   *)
(* or a chat while "aira fade" runs (cli/main.py opens one connection per  *)
(* command).  SQLite serialises the write transactions, but each method    *)
(* SELECTs the row before its transaction begins, in autocommit, so other  *)
(* processes may commit between a method's read and its write.             *)
(*                                                                         *)
(* Every build has FTS5 here; Vault models builds without it.              *)
(***************************************************************************)
EXTENDS Repository

CONSTANTS
  Processes,
  Batches,     \* the record sequences that may be imported
  Policies     \* the retention policies callers ask for

ASSUME SessionAssumption ==
  Batches \subseteq Seq(Record) /\ Policies \subseteq RetentionPolicy

VARIABLE loaded   \* per process, the record its running method has read

vars == <<repoVars, loaded>>

Idle(p) == loaded[p] = Null

Init ==
  /\ memories = {}
  /\ fts = {}
  /\ audit = <<>>
  /\ indexed = TRUE
  /\ fts5 = TRUE
  /\ loaded = [p \in Processes |-> Null]

(* _load_for_transition *)
Load(p) ==
  /\ Idle(p)
  /\ \E r \in memories : loaded' = [loaded EXCEPT ![p] = r]
  /\ UNCHANGED repoVars

Unused(id) ==
  /\ \A r \in memories : id \notin {r.id, r.supersedes, r.superseded_by}
  /\ \A i \in DOMAIN audit : audit[i].memory # id

NewMemories(o, at) ==
  {MakeMemory(id, o, key, content, retention, Null, idem, at) :
     id \in {x \in Ids : Unused(x)}, key \in Keys, content \in Contents,
     retention \in Policies, idem \in Tokens \cup {Null}}

(* The rest of a method: its checks on the loaded record and its           *)
(* transaction.                                                            *)
FinishUpdate(cur) == \E content \in Contents, at \in Times : Update(cur, content, at)

FinishArchive(cur) == \E at \in Times : Archive(cur, at)

FinishExpire(cur) == \E at \in Times : Expire(cur, at)

FinishForget(cur) == \E at \in Times : Forget(cur, at, Null)

FinishSupersede(cur) ==
  \E at \in Times : \E r \in NewMemories(cur.owner, at) : Supersede(cur, r, at, Null)

FinishHardDelete(cur) == \E at \in Times : HardDelete(cur, at)

FinishReinforce(cur) == \E at \in Times : Reinforce(cur, at)

FinishSetPolicy(cur) ==
  \E retention \in Policies, expires \in Times \cup {Null}, at \in Times :
    SetPolicy(cur, retention, expires, at)

Commit(p) ==
  /\ ~ Idle(p)
  /\ \/ FinishUpdate(loaded[p])
     \/ FinishArchive(loaded[p])
     \/ FinishExpire(loaded[p])
     \/ FinishForget(loaded[p])
     \/ FinishSupersede(loaded[p])
     \/ FinishHardDelete(loaded[p])
     \/ FinishReinforce(loaded[p])
     \/ FinishSetPolicy(loaded[p])
  /\ loaded' = [loaded EXCEPT ![p] = Null]

(* The method raises before its transaction, or rolls it back.             *)
Raise(p) ==
  /\ ~ Idle(p)
  /\ loaded' = [loaded EXCEPT ![p] = Null]
  /\ UNCHANGED repoVars

(* create and import_records read no row they then write: one step.        *)
CreateNew(p) ==
  /\ Idle(p)
  /\ \E o \in Owners, at \in Times : \E r \in NewMemories(o, at) : Create(r, Null)
  /\ UNCHANGED loaded

Import(p) ==
  /\ Idle(p)
  /\ \E o \in Owners, batch \in Batches : ImportRecords(o, batch)
  /\ UNCHANGED loaded

Next ==
  \E p \in Processes : Load(p) \/ Commit(p) \/ Raise(p) \/ CreateNew(p) \/ Import(p)

Spec == Init /\ [][Next]_vars

-----------------------------------------------------------------------------
TypeOK ==
  /\ memories \subseteq {r \in Record : ValidRecord(r)}
  /\ fts \subseteq Ids \X Contents
  /\ audit \in Seq(AuditEvent)
  /\ loaded \in [Processes -> Record \cup {Null}]

(* However reads and writes of several processes interleave, the keys stay *)
(* unique: a stale write may bring back an idempotency key that the row    *)
(* had when it was read and another row has taken since.                   *)
KeysUnique ==
  \A r, s \in memories :
    r # s => /\ r.id # s.id
             /\ r.idem # Null => ~ (r.owner = s.owner /\ r.idem = s.idem)

(* A deleted row does not come back by a stale write, nor does a stale     *)
(* write take a row from the owner who imported its id in between: a row   *)
(* appears only in a step that records its creation or import, and keeps   *)
(* its owner while it is there.                                            *)
RowsAreBornOnce ==
  [][\A s \in memories' :
       /\ \A r \in memories : r.id = s.id => r.owner = s.owner
       /\ (\A r \in memories : r.id # s.id) =>
            \E i \in Len(audit) + 1 .. Len(audit') :
              /\ audit'[i].memory = s.id
              /\ audit'[i].action \in {"create", "import"}]_vars

(* Invariant 11: whatever a transaction does to a row, its last event for  *)
(* that memory states the status the row now has, or its deletion.         *)
LastNewEvent(i, id) ==
  /\ i \in Len(audit) + 1 .. Len(audit')
  /\ audit'[i].memory = id
  /\ \A j \in i + 1 .. Len(audit') : audit'[j].memory # id

ChangesAudited ==
  [][/\ \A s \in memories' \ memories : \E i \in 1 .. Len(audit') :
          LastNewEvent(i, s.id) /\ audit'[i].to = s.status /\ audit'[i].owner = s.owner
     /\ \A r \in memories :
          (\A s \in memories' : s.id # r.id) =>
            \E i \in 1 .. Len(audit') :
              LastNewEvent(i, r.id) /\ audit'[i].to = "deleted"]_vars

(* Invariant 2: a forgotten memory never becomes retrievable again. *)
ForgottenStaysForgotten ==
  [][\A r \in memories, s \in memories' :
       (r.id = s.id /\ r.status = "forgotten") => s.status # "active"]_vars

(* ADR-014: forbidden content is never in the index. *)
NoForbiddenContent ==
  \A e \in fts : \E r \in memories :
    r.id = e[1] /\ r.content = e[2] /\ r.status = "active"
=============================================================================
