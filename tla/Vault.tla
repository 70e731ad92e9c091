------------------------------- MODULE Vault -------------------------------
(***************************************************************************)
(* Aira Vault used by one process at a time: each repository method runs   *)
(* to its end before the next one starts, so the record it loads is the    *)
(* row as it is.  Callers choose the owner, the arguments and the time     *)
(* (every method takes "now"; the wall clock may also step back).          *)
(***************************************************************************)
EXTENDS Repository

CONSTANTS
  Policies,  \* the retention policies callers ask for
  Batches,   \* the record sequences that may be imported
  Builds     \* the kinds of SQLite build the file is opened with, in BOOLEAN

ASSUME BuildAssumption == Builds \subseteq BOOLEAN /\ Builds # {}
ASSUME PolicyAssumption == Policies \subseteq RetentionPolicy
ASSUME BatchAssumption == Batches \subseteq Seq(Record)

vars == repoVars

-----------------------------------------------------------------------------
Init ==
  /\ memories = {}
  /\ fts = {}
  /\ audit = <<>>
  /\ fts5 \in Builds
  /\ indexed = fts5

(* Mutant of Owned: the SELECT of _fetch without its owner_id condition. *)
OwnedByAnyone(o) == {r \in memories : o \in Owners}

(* The rows _fetch can return to owner o. *)
Owned(o) == {r \in memories : r.owner = o}

(* A new id is a fresh UUID: no row, link or event mentions it. *)
FreshIds ==
  {id \in Ids :
     /\ \A r \in memories : id \notin {r.id, r.supersedes, r.superseded_by}
     /\ \A i \in DOMAIN audit : audit[i].memory # id}

(* The records a caller can build for owner o with make_memory at time at. *)
NewMemories(o, at) ==
  {MakeMemory(id, o, key, content, retention, expires, idem, at) :
     id \in FreshIds, key \in Keys, content \in Contents,
     retention \in Policies, expires \in Times \cup {Null},
     idem \in Tokens \cup {Null}}

CreateMemory(o) ==
  \E at \in Times : \E r \in NewMemories(o, at) : Create(r, Null)

UpdateMemory(o) ==
  \E cur \in Owned(o), content \in Contents, at \in Times : Update(cur, content, at)

ArchiveMemory(o) == \E cur \in Owned(o), at \in Times : Archive(cur, at)

ExpireMemory(o) == \E cur \in Owned(o), at \in Times : Expire(cur, at)

ForgetMemory(o) == \E cur \in Owned(o), at \in Times : Forget(cur, at, Null)

SupersedeMemory(o) ==
  \E cur \in Owned(o), at \in Times : \E r \in NewMemories(o, at) :
     Supersede(cur, r, at, Null)

HardDeleteMemory(o) == \E cur \in Owned(o), at \in Times : HardDelete(cur, at)

ReinforceMemory(o) == \E cur \in Owned(o), at \in Times : Reinforce(cur, at)

SetMemoryPolicy(o) ==
  \E cur \in Owned(o), retention \in Policies,
     expires \in Times \cup {Null}, at \in Times :
     SetPolicy(cur, retention, expires, at)

ImportMemories(o) == \E batch \in Batches : ImportRecords(o, batch)

OwnerStep(o) ==
  \/ CreateMemory(o)
  \/ UpdateMemory(o)
  \/ ArchiveMemory(o)
  \/ ExpireMemory(o)
  \/ ForgetMemory(o)
  \/ SupersedeMemory(o)
  \/ HardDeleteMemory(o)
  \/ ReinforceMemory(o)
  \/ SetMemoryPolicy(o)
  \/ ImportMemories(o)

Reconnect == \E build \in Builds : Connect(build)

Next == (\E o \in Owners : OwnerStep(o)) \/ Reconnect

Spec == Init /\ [][Next]_vars

-----------------------------------------------------------------------------
(* Every stored row passes the validation that reading it runs, so no      *)
(* legal sequence of calls makes list_memories raise for an owner.         *)
TypeOK ==
  /\ memories \subseteq {r \in Record : ValidRecord(r)}
  /\ fts \subseteq Ids \X Contents
  /\ audit \in Seq(AuditEvent)
  /\ indexed \in BOOLEAN
  /\ fts5 \in BOOLEAN

(* The primary key is global and an owner's idempotency key names one      *)
(* memory at most, however creates, supersedes and imports are mixed.      *)
KeysUnique ==
  \A r, s \in memories :
    r # s => /\ r.id # s.id
             /\ r.idem # Null => ~ (r.owner = s.owner /\ r.idem = s.idem)

(* ADR-014: the index holds only active content, the current content of    *)
(* that memory: nothing edited away, superseded, archived, expired,        *)
(* forgotten or deleted stays behind in it.                                *)
IndexSound ==
  \A e \in fts : \E r \in memories :
    r.id = e[1] /\ r.content = e[2] /\ r.status = "active"

(* ADR-014: active rows are indexed on insert and update, so a keyword     *)
(* search over the index can find every active memory.                     *)
IndexComplete ==
  indexed => \A r \in memories : r.status = "active" => <<r.id, r.content>> \in fts

(* The trail explains the store.  For each memory, an event continues from *)
(* the status its predecessor left (from nothing when it is the first one  *)
(* or follows a deletion), the last event gives the present owner and      *)
(* status of the row, and a memory with no row ends in a deletion.         *)
LastEventOf(i, id) ==
  /\ audit[i].memory = id
  /\ \A j \in i + 1 .. Len(audit) : audit[j].memory # id

StatusAfter(e) == IF e.to = "deleted" THEN Null ELSE e.to

FirstEventCreates ==
  \A j \in 1 .. Len(audit) :
    (\A i \in 1 .. j - 1 : audit[i].memory # audit[j].memory) => audit[j].from = Null

EventsChained ==
  \A i, j \in 1 .. Len(audit) :
    (/\ i < j
     /\ audit[i].memory = audit[j].memory
     /\ \A k \in i + 1 .. j - 1 : audit[k].memory # audit[i].memory)
    => audit[j].from = StatusAfter(audit[i])

RowsExplained ==
  \A r \in memories : \E i \in 1 .. Len(audit) :
    LastEventOf(i, r.id) /\ audit[i].owner = r.owner /\ audit[i].to = r.status

DeletionsExplained ==
  \A i \in 1 .. Len(audit) :
    (LastEventOf(i, audit[i].memory) /\ audit[i].to # "deleted")
      => \E r \in memories : r.id = audit[i].memory

AuditExplains ==
  FirstEventCreates /\ EventsChained /\ RowsExplained /\ DeletionsExplained

(* The two sides of a supersession name each other, within one owner, so a *)
(* memory has one successor and one predecessor at most.  Imported records *)
(* carry the links of another store: this is for histories without them.   *)
LinksMutual ==
  \A r, s \in memories :
    (r.superseded_by = s.id <=> s.supersedes = r.id)
      /\ (r.superseded_by = s.id => r.owner = s.owner)

(* No memory returns from an inactive status and an inactive memory is     *)
(* frozen: while its row exists, a memory keeps its owner and creation     *)
(* time and moves only forward in this order; once it is not ACTIVE only   *)
(* its status and updated_at change.                                       *)
StatusRank ==
  [active |-> 0, superseded |-> 1, archived |-> 2, expired |-> 3, forgotten |-> 4]

Forward(r, s) ==
  /\ s.owner = r.owner /\ s.created = r.created
  /\ s.status = r.status \/ StatusRank[s.status] > StatusRank[r.status]
  /\ r.status # "active" =>
       [s EXCEPT !.status = r.status, !.updated = r.updated] = r

ForwardOnly ==
  [][\A r \in memories, s \in memories' : r.id = s.id => Forward(r, s)]_vars

(* Invariant 1: what owner o asks for leaves every other owner's rows,     *)
(* index entries and audit events as they were.                            *)
RowsOf(o) == {r \in memories : r.owner = o}

EntriesOf(o) == {e \in fts : \E r \in RowsOf(o) : r.id = e[1]}

OwnerIsolation ==
  [][\A o \in Owners : OwnerStep(o) =>
       /\ \A p \in Owners \ {o} : RowsOf(p)' = RowsOf(p) /\ EntriesOf(p)' = EntriesOf(p)
       /\ \A i \in Len(audit) + 1 .. Len(audit') : audit'[i].owner = o]_vars

(* While every build has FTS5, the vault implements the ledger: the FTS    *)
(* statements of each method leave exactly the view that Ledger prescribes *)
(* (invariant 2, "never appear in normal retrieval").                      *)
Book ==
  {[id |-> r.id, owner |-> r.owner, content |-> r.content,
    recallable |-> (r.status = "active")] : r \in memories}

AsLedger == INSTANCE Ledger WITH book <- Book, searchable <- fts

ImplementsLedger == AsLedger!Spec
=============================================================================
