----------------------------- MODULE Assistant ------------------------------
(***************************************************************************)
(* The callers of the repository: capture (memory/capture/service.py),     *)
(* governance (memory/governance/service.py) and fade (memory/fade/job.py).*)
(* A job reads the tables, decides, and then makes repository calls one    *)
(* after the other, each in a transaction of its own.  It can be cut off   *)
(* between any two: an exception (which capture isolates from the turn     *)
(* and which ends the other jobs) or a killed process.                     *)
(*                                                                         *)
(* Each repository call is one step here; what happens inside one when     *)
(* several processes run is the subject of VaultSessions.                  *)
(***************************************************************************)
EXTENDS Repository

CONSTANTS
  Processes,
  Writers,      \* bound: the ones that store facts
  Policies,     \* the retention policies users ask for
  ArchiveAge    \* age from which the decay score is below archive_threshold

(* The score is 1 at age 0 and archive_threshold is at most 1. *)
ASSUME AgeAssumption == ArchiveAge \in Nat \ {0}
ASSUME UserPolicyAssumption == Policies \subseteq RetentionPolicy
ASSUME WriterAssumption == Writers \subseteq Processes

VARIABLES
  now,    \* the clock
  task    \* per process, the rest of the job it runs, or Null; "since" is
          \* history: the length of the audit trail when the job read the tables

vars == <<repoVars, now, task>>

Init ==
  /\ memories = {}
  /\ fts = {}
  /\ audit = <<>>
  /\ indexed = TRUE
  /\ fts5 = TRUE
  /\ now = 0
  /\ task = [p \in Processes |-> Null]

Idle(p) == task[p] = Null

Running(p, job) == ~ Idle(p) /\ task[p].job = job

Becomes(p, t) == task' = [task EXCEPT ![p] = t]

Plan(p, t) == Idle(p) /\ Becomes(p, t) /\ UNCHANGED <<repoVars, now>>

(* The row that a repository call loads. *)
Row(o, id) == {r \in memories : r.owner = o /\ r.id = id}

FreshIds ==
  {id \in Ids :
     /\ \A r \in memories : id \notin {r.id, r.supersedes, r.superseded_by}
     /\ \A i \in DOMAIN audit : audit[i].memory # id
     /\ \A p \in Processes :
          (~ Idle(p) /\ task[p].job \in {"remember", "supersede"}) => task[p].record.id # id}

-----------------------------------------------------------------------------
(* Capture.  At most one candidate is extracted from a turn; guard, policy *)
(* and evaluation decide whether there is one.  Captured memories are      *)
(* durable.                                                                *)

(* Mutant of FindActive: the lookup misses a memory captured just now. *)
FindOlder(o, key) ==
  {r \in memories : r.owner = o /\ r.key = key /\ r.status = "active" /\ r.created < now}

(* find_active_by_canonical_key: the oldest one; ids are random.           *)
FindActive(o, key) ==
  LET found == {r \in memories : r.owner = o /\ r.key = key /\ r.status = "active"}
  IN  {r \in found : \A s \in found : r.created <= s.created}

PlanRemember(p) ==
  \E o \in Owners, key \in Keys, content \in Contents, id \in FreshIds :
    LET record == MakeMemory(id, o, key, content, "durable", Null, Null, now)
    IN  \/ /\ FindActive(o, key) = {}
           /\ Plan(p, [job |-> "remember", owner |-> o, at |-> now, since |-> Len(audit),
                       record |-> record])
        \/ \E old \in FindActive(o, key) :
             /\ old.content # content
             /\ Plan(p, [job |-> "supersede", owner |-> o, at |-> now, record |-> record,
                         old |-> old.id, reason |-> key])

(* The reason of the event spells out the key. *)
PlanForget(p) ==
  \E o \in Owners, key \in Keys : \E old \in FindActive(o, key) :
    Plan(p, [job |-> "forget", owner |-> o, at |-> now, old |-> old.id, reason |-> key])

(* GovernanceService.correct: read the active memory, build its            *)
(* replacement, which takes over key and retention but no expiry.          *)
Replacement(id, current, content, at) ==
  MakeMemory(id, current.owner, current.key, content, current.retention, Null, Null, at)

PlanCorrect(p) ==
  \E current \in memories, content \in Contents, id \in FreshIds :
    LET record == Replacement(id, current, content, now)
    IN  /\ current.status = "active"
        /\ ValidRecord(record)
        /\ Plan(p, [job |-> "supersede", owner |-> current.owner, at |-> now,
                    record |-> record, old |-> current.id, reason |-> Null])

(* apply, and the call at the end of correct *)
Remembered(p) ==
  /\ Running(p, "remember")
  /\ Create(task[p].record, Null)
  /\ Becomes(p, Null)
  /\ UNCHANGED now

SupersededOld(p) ==
  /\ Running(p, "supersede")
  /\ \E cur \in Row(task[p].owner, task[p].old) :
       Supersede(cur, task[p].record, task[p].at, task[p].reason)
  /\ Becomes(p, Null)
  /\ UNCHANGED now

Forgotten(p) ==
  /\ Running(p, "forget")
  /\ \E cur \in Row(task[p].owner, task[p].old) : Forget(cur, task[p].at, task[p].reason)
  /\ Becomes(p, Null)
  /\ UNCHANGED now

-----------------------------------------------------------------------------
(* Governance calls that are one repository call: reinforce, archive,      *)
(* forget, hard_delete, set_retention.                                     *)
UserCall(p) ==
  /\ Idle(p)
  /\ \E cur \in memories :
       \/ Reinforce(cur, now)
       \/ Archive(cur, now)
       \/ Forget(cur, now, Null)
       \/ HardDelete(cur, now)
       \/ \E retention \in Policies, expires \in Times \cup {Null} :
            SetPolicy(cur, retention, expires, now)
  /\ UNCHANGED <<now, task>>

(* Mutant of Deletable: only what is visible is listed. *)
ActiveOnly(o) == {r.id : r \in {s \in memories : s.owner = o /\ s.status = "active"}}

(* delete_all lists every status (_NON_DELETED), then deletes one by one.  *)
Deletable(o) == {r.id : r \in {s \in memories : s.owner = o}}

StartDeleteAll(p) ==
  \E o \in Owners :
    Plan(p, [job |-> "delete_all", owner |-> o, at |-> now, since |-> Len(audit),
             left |-> Deletable(o)])

DeleteNext(p) ==
  /\ Running(p, "delete_all")
  /\ \E id \in task[p].left :
       /\ \E cur \in Row(task[p].owner, id) : HardDelete(cur, task[p].at)
       /\ Becomes(p, [task[p] EXCEPT !.left = @ \ {id}])
  /\ UNCHANGED now

DeleteAllDone(p) ==
  /\ Running(p, "delete_all") /\ task[p].left = {}
  /\ Becomes(p, Null)
  /\ UNCHANGED <<repoVars, now>>

-----------------------------------------------------------------------------
(* Fade.  The pass visits the owners one after the other; for each it      *)
(* lists the active memories once and decides on those records.            *)

(* Mutant of ShouldExpire: the moment of expiry itself is missed. *)
ExpiresAfter(r, at) ==
  \/ r.retention = "session_only"
  \/ r.retention = "fixed_expiry" /\ r.expires # Null /\ at > r.expires

ShouldExpire(r, at) ==
  \/ r.retention = "session_only"
  \/ r.retention = "fixed_expiry" /\ r.expires # Null /\ at >= r.expires

ShouldArchive(r, at) == at >= r.updated + ArchiveAge

(* What the pass will do with owner o: expiry is checked first. *)
Decisions(o, at) ==
  LET active == {r \in memories : r.owner = o /\ r.status = "active"}
  IN  {[owner |-> o, id |-> r.id, to |-> "expired"] :
         r \in {s \in active : ShouldExpire(s, at)}}
      \cup
      {[owner |-> o, id |-> r.id, to |-> "archived"] :
         r \in {s \in active : ~ ShouldExpire(s, at) /\ ShouldArchive(s, at)}}

(* "/fade" takes one owner, "aira fade" the owners that have rows.         *)
StartFade(p) ==
  \E owners \in {{o} : o \in Owners} \cup {{r.owner : r \in memories}} :
    Plan(p, [job |-> "fade", at |-> now, since |-> Len(audit), owners |-> owners,
             done |-> {}, left |-> {}])

FadeOwner(p) ==
  /\ Running(p, "fade") /\ task[p].left = {}
  /\ \E o \in task[p].owners \ task[p].done :
       Becomes(p, [task[p] EXCEPT !.done = @ \cup {o}, !.left = Decisions(o, task[p].at)])
  /\ UNCHANGED <<repoVars, now>>

FadeMemory(p) ==
  /\ Running(p, "fade")
  /\ \E d \in task[p].left :
       /\ \E cur \in Row(d.owner, d.id) :
            IF d.to = "expired" THEN Expire(cur, task[p].at) ELSE Archive(cur, task[p].at)
       /\ Becomes(p, [task[p] EXCEPT !.left = @ \ {d}])
  /\ UNCHANGED now

FadeDone(p) ==
  /\ Running(p, "fade") /\ task[p].left = {} /\ task[p].done = task[p].owners
  /\ Becomes(p, Null)
  /\ UNCHANGED <<repoVars, now>>

-----------------------------------------------------------------------------
(* The rest of the job is lost: a call raised, or the process was killed.  *)
Abandon(p) ==
  /\ ~ Idle(p)
  /\ Becomes(p, Null)
  /\ UNCHANGED <<repoVars, now>>

Tick == now < MaxTime /\ now' = now + 1 /\ UNCHANGED <<repoVars, task>>

Step(p) ==
  \/ p \in Writers /\ PlanRemember(p)
  \/ PlanForget(p)
  \/ p \in Writers /\ PlanCorrect(p)
  \/ Remembered(p)
  \/ SupersededOld(p)
  \/ Forgotten(p)
  \/ UserCall(p)
  \/ StartDeleteAll(p)
  \/ DeleteNext(p)
  \/ DeleteAllDone(p)
  \/ StartFade(p)
  \/ FadeOwner(p)
  \/ FadeMemory(p)
  \/ FadeDone(p)
  \/ Abandon(p)

Next == (\E p \in Processes : Step(p)) \/ Tick

Spec == Init /\ [][Next]_vars

-----------------------------------------------------------------------------
Jobs ==
  [job: {"remember"}, owner: Owners, at: Times, since: 0 .. MaxEvents, record: Record] \cup
  [job: {"supersede"}, owner: Owners, at: Times, record: Record, old: Ids,
   reason: Keys \cup {Null}] \cup
  [job: {"forget"}, owner: Owners, at: Times, old: Ids, reason: Keys] \cup
  [job: {"delete_all"}, owner: Owners, at: Times, since: 0 .. MaxEvents, left: SUBSET Ids] \cup
  [job: {"fade"}, at: Times, since: 0 .. MaxEvents, owners: SUBSET Owners, done: SUBSET Owners,
   left: SUBSET [owner: Owners, id: Ids, to: {"expired", "archived"}]]

TypeOK ==
  /\ memories \subseteq {r \in Record : ValidRecord(r)}
  /\ fts \subseteq Ids \X Contents
  /\ audit \in Seq(AuditEvent)
  /\ now \in Times
  /\ \A p \in Processes : Idle(p) \/ task[p] \in Jobs

Facts == {<<r.owner, r.key, r.content>> : r \in {s \in memories : s.status = "active"}}

AsNotebook == INSTANCE Notebook WITH facts <- Facts

(* ADR-013 point 3: a key collision with an active memory is resolved by   *)
(* superseding it, so an owner has one active memory for a key.            *)
OneActivePerKey ==
  \A r, s \in memories :
    (r.status = "active" /\ s.status = "active" /\ r.owner = s.owner /\ r.key = s.key)
      => r = s

CreatedSince(n, id) ==
  \E i \in n + 1 .. Len(audit) : audit[i].memory = id /\ audit[i].action = "create"

(* p stores a fact on a key on which another process has, since p looked   *)
(* for a memory and found none, created one that is still active.          *)
Raced(p) ==
  /\ Remembered(p)
  /\ \E r \in memories :
       /\ r.status = "active" /\ r.owner = task[p].record.owner /\ r.key = task[p].record.key
       /\ CreatedSince(task[p].since, r.id)

(* ADR-013 point 3 for any number of processes that store facts, with      *)
(* nothing imported: until two captures of one key overlap in that way,    *)
(* there is one active memory for an owner and key at most, and turns,     *)
(* corrections, user calls, fade passes and deletions, however they        *)
(* interleave or are cut short, are steps of the notebook.                 *)
NotebookUntilRace ==
  /\ AsNotebook!Init
  /\ [][OneActivePerKey =>
          \/ OneActivePerKey' /\ (AsNotebook!Next \/ UNCHANGED Facts)
          \/ \E p \in Processes : Raced(p)]_vars

(* What another call has changed since the job of p began *)
ChangedMeanwhile(p, r) ==
  \E i \in task[p].since + 1 .. Len(audit) : audit[i].memory = r.id

Overdue(r, at) ==
  \/ r.retention = "session_only"
  \/ r.retention = "fixed_expiry" /\ r.expires <= at

Due(r, at) == Overdue(r, at) \/ at - r.updated >= ArchiveAge

(* Invariant 9 and ADR-017.  A pass that runs to its end leaves no active  *)
(* memory of the owners it visited that was due, and takes none out of use *)
(* that was not: a retention or reinforcement by the user counts.  The     *)
(* exceptions are memories that other processes changed during the pass:   *)
(* it decides on the records it has listed.                                *)
FadeExact ==
  [][\A p \in Processes :
       /\ FadeDone(p) =>
            \A r \in memories :
              (r.owner \in task[p].owners /\ r.status = "active" /\ Due(r, task[p].at))
                => ChangedMeanwhile(p, r)
       /\ FadeMemory(p) =>
            \A r \in memories :
              (r.status = "active" /\ r \notin memories')
                => Due(r, task[p].at) \/ ChangedMeanwhile(p, r)]_vars

(* delete_all that returns has left no memory of its owner, whatever its   *)
(* status, but for those that another process created since it began, and  *)
(* has removed no memory of another owner.                                 *)
DeleteAllDeletes ==
  [][\A p \in Processes :
       /\ DeleteAllDone(p) =>
            \A r \in memories : r.owner = task[p].owner => ChangedMeanwhile(p, r)
       /\ DeleteNext(p) =>
            \A r \in memories : r.owner # task[p].owner => r \in memories']_vars

(* ADR-012 point 3: "Nothing content-bearing survives a hard delete."      *)
ErasedFromTrail ==
  \A i \in DOMAIN audit :
    audit[i].to = "deleted" =>
      \A j \in DOMAIN audit : audit[j].memory = audit[i].memory => audit[j].reason = Null
=============================================================================
