--------------------------- MODULE AssistantProofs --------------------------
(***************************************************************************)
(* Theorems about Assistant for any number of processes and all owners,    *)
(* ids, keys, contents, times, policies, archive ages and bounds.          *)
(***************************************************************************)
EXTENDS Assistant, WellFoundedInduction, TLAPS

-----------------------------------------------------------------------------
(* What a step does to the tables. *)

Rewrites(cur, r) ==
  /\ r \in Record
  /\ r.id = cur.id /\ r.owner = cur.owner /\ r.key = cur.key /\ r.content = cur.content
  /\ r.status = "active" => cur.status = "active"

RewritesRow ==
  \E cur \in memories, r \in Record, action \in AuditAction, at \in Times,
     reason \in Keys \cup {Null} :
    Rewrites(cur, r) /\ PersistUpdate(cur, r, action, at, reason)

CreatesRow(r) == Create(r, Null)

SupersedesRow(cur, r) ==
  \E at \in Times, reason \in Keys \cup {Null} : Supersede(cur, r, at, reason)

DeletesRow == \E cur \in memories, at \in Times : HardDelete(cur, at)

TableStep ==
  \/ RewritesRow
  \/ DeletesRow
  \/ \E r \in Record : CreatesRow(r)
  \/ \E cur \in memories, r \in Record : SupersedesRow(cur, r)

Pending(p, job) == p \in Processes /\ Running(p, job)

TypeInv ==
  /\ TypeOK
  /\ Len(audit) <= MaxEvents
  /\ task \in [Processes -> Jobs \cup {Null}]

LEMMA JobTypes ==
  ASSUME TypeInv, NEW p \in Processes, ~ Idle(p)
  PROVE  /\ task[p] \in Jobs
         /\ task[p].at \in Times
         /\ task[p].job \in {"remember", "supersede"} => task[p].record \in Record
         /\ task[p].job \in {"forget", "supersede"} => task[p].reason \in Keys \cup {Null}
BY DEF TypeInv, Idle, Jobs

LEMMA ReinforceRewrites ==
  ASSUME NEW cur \in Record, NEW at \in Times
  PROVE  Rewrites(cur, [cur EXCEPT !.reinforced = @ + 1, !.updated = at])
<1>. DEFINE r == [cur EXCEPT !.reinforced = @ + 1, !.updated = at]
<1>1. cur.reinforced + 1 \in Nat
  BY DEF Record
<1>2. r \in Record
  BY <1>1 DEF Record
<1>3. /\ r.id = cur.id /\ r.owner = cur.owner /\ r.key = cur.key
      /\ r.content = cur.content /\ r.status = cur.status
  BY DEF Record
<1>. QED
  BY <1>2, <1>3 DEF Rewrites

LEMMA StatusRewrites ==
  ASSUME NEW cur \in Record, NEW at \in Times, NEW target \in RowStatus \ {"active"}
  PROVE  Rewrites(cur, ToStatus(cur, target, at))
BY DEF Rewrites, ToStatus, Record

(* The transitions to another status, whoever asks for them. *)
LEMMA TransitionShape ==
  ASSUME TypeInv, NEW cur \in memories, NEW at \in Times, NEW reason \in Keys \cup {Null},
         Archive(cur, at) \/ Expire(cur, at) \/ Forget(cur, at, reason)
  PROVE  RewritesRow
<1>1. cur \in Record
  BY DEF TypeInv, TypeOK
<1>2. /\ Rewrites(cur, ToStatus(cur, "archived", at))
      /\ Rewrites(cur, ToStatus(cur, "expired", at))
      /\ Rewrites(cur, ToStatus(cur, "forgotten", at))
  BY <1>1, StatusRewrites DEF RowStatus
<1>. QED
  BY <1>2 DEF Archive, Expire, Forget, RewritesRow, Rewrites, AuditAction

LEMMA PolicyShape ==
  ASSUME TypeInv, NEW cur \in memories, NEW at \in Times,
         NEW retention \in Policies, NEW expires \in Times \cup {Null},
         SetPolicy(cur, retention, expires, at)
  PROVE  RewritesRow
<1>. DEFINE r == [cur EXCEPT !.retention = retention,
                    !.expires = IF expires # Null THEN expires ELSE @,
                    !.updated = at]
<1>1. cur \in Record /\ retention \in RetentionPolicy
  BY UserPolicyAssumption DEF TypeInv, TypeOK
<1>2. r \in Record
  BY <1>1 DEF Record
<1>3. Rewrites(cur, r)
  BY <1>1, <1>2 DEF Rewrites, Record
<1>. QED
  BY <1>3 DEF SetPolicy, RewritesRow, Rewrites, AuditAction

LEMMA ReinforceShape ==
  ASSUME TypeInv, NEW cur \in memories, NEW at \in Times, Reinforce(cur, at)
  PROVE  RewritesRow
<1>1. Rewrites(cur, [cur EXCEPT !.reinforced = @ + 1, !.updated = at])
  BY ReinforceRewrites DEF TypeInv, TypeOK
<1>. QED
  BY <1>1 DEF Reinforce, RewritesRow, Rewrites, AuditAction

LEMMA UserCallShape ==
  ASSUME TypeInv, NEW p \in Processes, UserCall(p)
  PROVE  RewritesRow \/ DeletesRow
<1>1. now \in Times
  BY DEF TypeInv, TypeOK
<1>2. PICK cur \in memories :
        \/ Reinforce(cur, now)
        \/ Archive(cur, now)
        \/ Forget(cur, now, Null)
        \/ HardDelete(cur, now)
        \/ \E retention \in Policies, expires \in Times \cup {Null} :
             SetPolicy(cur, retention, expires, now)
  BY DEF UserCall
<1>3. CASE HardDelete(cur, now)
  BY <1>1, <1>3 DEF DeletesRow
<1>. QED
  BY <1>1, <1>2, <1>3, ReinforceShape, TransitionShape, PolicyShape

(* Facts are stored by the last call of a remember or supersede job only.  *)
LEMMA StepShape ==
  ASSUME TypeInv, NEW p \in Processes, Step(p)
  PROVE  \/ RewritesRow
         \/ DeletesRow
         \/ Remembered(p) /\ CreatesRow(task[p].record)
         \/ /\ SupersededOld(p)
            /\ \E cur \in Row(task[p].owner, task[p].old) : SupersedesRow(cur, task[p].record)
         \/ UNCHANGED repoVars
<1>1. CASE UserCall(p)
  BY <1>1, UserCallShape
<1>2. CASE Remembered(p)
  BY <1>2 DEF Remembered, CreatesRow
<1>3. CASE SupersededOld(p)
  BY <1>3, JobTypes DEF SupersededOld, SupersedesRow, Running
<1>4. CASE Forgotten(p)
  BY <1>4, JobTypes, TransitionShape DEF Forgotten, Running, Row
<1>5. CASE DeleteNext(p)
  BY <1>5, JobTypes DEF DeleteNext, Running, Row, DeletesRow
<1>6. CASE FadeMemory(p)
  <2>1. PICK d \in task[p].left : \E cur \in Row(d.owner, d.id) :
          Expire(cur, task[p].at) \/ Archive(cur, task[p].at)
    BY <1>6 DEF FadeMemory
  <2>. QED
    BY <1>6, <2>1, JobTypes, TransitionShape DEF FadeMemory, Running, Row
<1>. QED
  BY <1>1, <1>2, <1>3, <1>4, <1>5, <1>6
  DEF Step, PlanRemember, PlanForget, PlanCorrect, StartDeleteAll, DeleteAllDone,
      StartFade, FadeOwner, FadeDone, Abandon, Plan

LEMMA StepWrites ==
  ASSUME TypeInv, NEW p \in Processes, Step(p)
  PROVE  TableStep \/ UNCHANGED repoVars
<1>1. (Remembered(p) \/ SupersededOld(p)) => task[p].record \in Record
  BY JobTypes DEF Remembered, SupersededOld, Running
<1>2. \A cur \in Row(task[p].owner, task[p].old) : cur \in memories
  BY DEF Row
<1>. QED
  BY <1>1, <1>2, StepShape DEF TableStep

-----------------------------------------------------------------------------
(* Types: the tables ...                                                   *)

TablesOK ==
  /\ memories \subseteq {r \in Record : ValidRecord(r)}
  /\ fts \subseteq Ids \X Contents
  /\ audit \in Seq(AuditEvent)
  /\ Len(audit) <= MaxEvents

LEMMA EventType ==
  ASSUME NEW r \in Record, NEW owner \in Owners, NEW action \in AuditAction,
         NEW at \in Times, NEW reason \in Keys \cup {Null},
         NEW from \in RowStatus \cup {Null}, NEW to \in MemoryStatus
  PROVE  Event(r, owner, action, at, reason, from, to) \in AuditEvent
BY DEF Event, AuditEvent, Record

LEMMA AppendedTrail ==
  ASSUME TablesOK, NEW e \in AuditEvent, HasRoom(1), audit' = Append(audit, e)
  PROVE  audit' \in Seq(AuditEvent) /\ Len(audit') <= MaxEvents
BY BoundAssumption DEF TablesOK, HasRoom

LEMMA RewriteTables ==
  ASSUME TablesOK, RewritesRow
  PROVE  TablesOK'
<1>1. PICK cur \in memories, r \in Record, action \in AuditAction, at \in Times,
           reason \in Keys \cup {Null} :
        Rewrites(cur, r) /\ PersistUpdate(cur, r, action, at, reason)
  BY DEF RewritesRow
<1>2. cur \in Record /\ cur.owner \in Owners /\ cur.status \in RowStatus
  BY DEF TablesOK, Record
<1>3. memories' \subseteq {x \in Record : ValidRecord(x)}
  BY <1>1 DEF PersistUpdate, UpdateRow, TablesOK
<1>4. fts' \subseteq Ids \X Contents
  <2>1. <<r.id, r.content>> \in Ids \X Contents
    BY DEF Record
  <2>. QED
    BY <1>1, <2>1 DEF PersistUpdate, IndexUpdated, IndexInserted, Deindex, TablesOK
<1>5. Event(cur, cur.owner, action, at, reason, cur.status, r.status) \in AuditEvent
  <2>1. r.status \in MemoryStatus
    BY DEF Record, MemoryStatus
  <2>. QED
    BY <1>2, <2>1, EventType
<1>6. audit' \in Seq(AuditEvent) /\ Len(audit') <= MaxEvents
  BY <1>1, <1>5, AppendedTrail DEF PersistUpdate
<1>. QED
  BY <1>3, <1>4, <1>6 DEF TablesOK

LEMMA CreateTables ==
  ASSUME TablesOK, NEW r \in Record, CreatesRow(r)
  PROVE  TablesOK'
<1>1. Create(r, Null)
  BY DEF CreatesRow
<1>2. fts' \subseteq Ids \X Contents
  BY <1>1 DEF Create, IndexInserted, TablesOK, Record
<1>3. Event(r, r.owner, "create", r.created, Null, Null, r.status) \in AuditEvent
  BY EventType DEF Record, AuditAction, MemoryStatus
<1>4. audit' \in Seq(AuditEvent) /\ Len(audit') <= MaxEvents
  BY <1>1, <1>3, AppendedTrail DEF Create
<1>5. memories' \subseteq {x \in Record : ValidRecord(x)}
  BY <1>1 DEF Create, TablesOK
<1>. QED
  BY <1>2, <1>4, <1>5 DEF TablesOK

LEMMA LinkedTypes ==
  ASSUME NEW cur \in Record, NEW r \in Record, NEW at \in Times
  PROVE  /\ SupersededMemory(cur, r, at) \in Record
         /\ SupersededMemory(cur, r, at).id = cur.id
         /\ SupersededMemory(cur, r, at).owner = cur.owner
         /\ SupersededMemory(cur, r, at).key = cur.key
         /\ SupersededMemory(cur, r, at).status = "superseded"
         /\ LinkedReplacement(cur, r, at) \in Record
         /\ LinkedReplacement(cur, r, at).id = r.id
         /\ LinkedReplacement(cur, r, at).owner = r.owner
         /\ LinkedReplacement(cur, r, at).key = r.key
         /\ LinkedReplacement(cur, r, at).content = r.content
         /\ LinkedReplacement(cur, r, at).status = r.status
BY DEF SupersededMemory, LinkedReplacement, Record, RowStatus

LEMMA SupersedeTables ==
  ASSUME TablesOK, NEW cur \in memories, NEW r \in Record, SupersedesRow(cur, r)
  PROVE  TablesOK'
<1>1. PICK at \in Times, reason \in Keys \cup {Null} : Supersede(cur, r, at, reason)
  BY DEF SupersedesRow
<1>. DEFINE old == SupersededMemory(cur, r, at)
            new == LinkedReplacement(cur, r, at)
<1>2. cur \in Record /\ cur.owner \in Owners /\ cur.status \in RowStatus
  BY DEF TablesOK, Record
<1>3. old \in Record /\ new \in Record
  BY <1>2, LinkedTypes
<1>4. memories' \subseteq {x \in Record : ValidRecord(x)}
  BY <1>1, <1>3 DEF Supersede, UpdateRow, TablesOK
<1>5. fts' \subseteq Ids \X Contents
  <2>1. <<old.id, old.content>> \in Ids \X Contents /\ <<new.id, new.content>> \in Ids \X Contents
    BY <1>3 DEF Record
  <2>2. fts' = IndexInserted(IndexUpdated(fts, old), {new})
    BY <1>1 DEF Supersede
  <2>3. IndexUpdated(fts, old) \subseteq Ids \X Contents
    BY <2>1 DEF IndexUpdated, IndexInserted, Deindex, TablesOK
  <2>. QED
    BY <2>1, <2>2, <2>3 DEF IndexInserted
<1>6. audit' \in Seq(AuditEvent) /\ Len(audit') = Len(audit) + 2
  <2>1. Event(cur, cur.owner, "supersede", at, reason, cur.status, "superseded") \in AuditEvent
    BY <1>2, EventType DEF AuditAction, MemoryStatus, RowStatus
  <2>2. Event(new, cur.owner, "create", at, Null, Null, "active") \in AuditEvent
    BY <1>2, <1>3, EventType DEF AuditAction, MemoryStatus, RowStatus
  <2>3. audit' = audit \o
          << Event(cur, cur.owner, "supersede", at, reason, cur.status, "superseded"),
             Event(new, cur.owner, "create", at, Null, Null, "active") >>
    BY <1>1 DEF Supersede
  <2>. QED
    BY <2>1, <2>2, <2>3 DEF TablesOK
<1>7. Len(audit) + 2 <= MaxEvents
  BY <1>1 DEF Supersede, HasRoom
<1>. QED
  BY <1>4, <1>5, <1>6, <1>7 DEF TablesOK

LEMMA DeleteTables ==
  ASSUME TablesOK, DeletesRow
  PROVE  TablesOK'
<1>1. PICK cur \in memories, at \in Times : HardDelete(cur, at)
  BY DEF DeletesRow
<1>2. cur \in Record /\ cur.owner \in Owners /\ cur.status \in RowStatus
  BY DEF TablesOK, Record
<1>3. Event(cur, cur.owner, "hard_delete", at, Null, cur.status, "deleted") \in AuditEvent
  BY <1>2, EventType DEF AuditAction, MemoryStatus
<1>4. audit' \in Seq(AuditEvent) /\ Len(audit') <= MaxEvents
  BY <1>1, <1>3, AppendedTrail DEF HardDelete
<1>. QED
  BY <1>1, <1>4 DEF HardDelete, DeleteRow, Deindex, TablesOK

LEMMA TablesStep ==
  ASSUME TablesOK, TableStep
  PROVE  TablesOK'
BY RewriteTables, CreateTables, SupersedeTables, DeleteTables DEF TableStep

(* ... and the jobs.                                                       *)
LEMMA NewRecord ==
  ASSUME NEW id \in Ids, NEW o \in Owners, NEW key \in Keys, NEW content \in Contents,
         NEW retention \in RetentionPolicy, NEW at \in Times
  PROVE  MakeMemory(id, o, key, content, retention, Null, Null, at) \in Record
BY DEF MakeMemory, Record, RowStatus

LEMMA BecomesJob ==
  ASSUME TypeInv, NEW p \in Processes, NEW t \in Jobs \cup {Null}, Becomes(p, t)
  PROVE  task' \in [Processes -> Jobs \cup {Null}]
BY DEF TypeInv, Becomes

LEMMA PlansType ==
  ASSUME TypeInv, NEW p \in Processes,
         PlanRemember(p) \/ PlanForget(p) \/ PlanCorrect(p)
  PROVE  task' \in [Processes -> Jobs \cup {Null}]
<1>1. /\ now \in Times /\ memories \subseteq Record /\ FreshIds \subseteq Ids
      /\ Len(audit) \in 0 .. MaxEvents
  BY BoundAssumption DEF TypeInv, TypeOK, FreshIds
<1>2. CASE PlanRemember(p)
  <2>1. PICK o \in Owners, key \in Keys, content \in Contents, id \in FreshIds :
          LET record == MakeMemory(id, o, key, content, "durable", Null, Null, now)
          IN  \/ /\ FindActive(o, key) = {}
                 /\ Plan(p, [job |-> "remember", owner |-> o, at |-> now, since |-> Len(audit),
                             record |-> record])
              \/ \E old \in FindActive(o, key) :
                   /\ old.content # content
                   /\ Plan(p, [job |-> "supersede", owner |-> o, at |-> now, record |-> record,
                               old |-> old.id, reason |-> key])
    BY <1>2 DEF PlanRemember
  <2>. DEFINE record == MakeMemory(id, o, key, content, "durable", Null, Null, now)
  <2>2. record \in Record
    BY <1>1, NewRecord DEF RetentionPolicy
  <2>. HIDE DEF record
  <2>3. [job |-> "remember", owner |-> o, at |-> now, since |-> Len(audit),
         record |-> record] \in Jobs
    BY <1>1, <2>2 DEF Jobs
  <2>4. ASSUME NEW old \in FindActive(o, key)
        PROVE  [job |-> "supersede", owner |-> o, at |-> now, record |-> record,
                old |-> old.id, reason |-> key] \in Jobs
    <3>1. old.id \in Ids
      BY <1>1 DEF FindActive, Record
    <3>. QED
      BY <1>1, <2>2, <3>1 DEF Jobs
  <2>5. CASE Plan(p, [job |-> "remember", owner |-> o, at |-> now, since |-> Len(audit),
                      record |-> record])
    BY <2>3, <2>5, BecomesJob DEF Plan
  <2>6. ASSUME NEW old \in FindActive(o, key),
               Plan(p, [job |-> "supersede", owner |-> o, at |-> now, record |-> record,
                        old |-> old.id, reason |-> key])
        PROVE  task' \in [Processes -> Jobs \cup {Null}]
    BY <2>4, <2>6, BecomesJob DEF Plan
  <2>. QED
    BY <2>1, <2>5, <2>6 DEF record
<1>3. CASE PlanForget(p)
  <2>1. PICK o \in Owners, key \in Keys : \E old \in FindActive(o, key) :
          Plan(p, [job |-> "forget", owner |-> o, at |-> now, old |-> old.id, reason |-> key])
    BY <1>3 DEF PlanForget
  <2>2. PICK old \in FindActive(o, key) :
          Plan(p, [job |-> "forget", owner |-> o, at |-> now, old |-> old.id, reason |-> key])
    BY <2>1
  <2>3. old.id \in Ids
    BY <1>1 DEF FindActive, Record
  <2>4. [job |-> "forget", owner |-> o, at |-> now, old |-> old.id, reason |-> key] \in Jobs
    BY <1>1, <2>3 DEF Jobs
  <2>. QED
    BY <2>2, <2>4, BecomesJob DEF Plan
<1>4. CASE PlanCorrect(p)
  <2>1. PICK current \in memories, content \in Contents, id \in FreshIds :
          LET record == Replacement(id, current, content, now)
          IN  Plan(p, [job |-> "supersede", owner |-> current.owner, at |-> now,
                       record |-> record, old |-> current.id, reason |-> Null])
    BY <1>4 DEF PlanCorrect
  <2>. DEFINE record == Replacement(id, current, content, now)
  <2>2. current.owner \in Owners /\ current.id \in Ids
    BY <1>1 DEF Record
  <2>3. record \in Record
    BY <1>1, NewRecord DEF Replacement, Record
  <2>. HIDE DEF record
  <2>4. [job |-> "supersede", owner |-> current.owner, at |-> now,
         record |-> record, old |-> current.id, reason |-> Null] \in Jobs
    BY <1>1, <2>2, <2>3 DEF Jobs
  <2>5. Plan(p, [job |-> "supersede", owner |-> current.owner, at |-> now,
                 record |-> record, old |-> current.id, reason |-> Null])
    BY <2>1 DEF record
  <2>. QED
    BY <2>4, <2>5, BecomesJob DEF Plan
<1>. QED
  BY <1>2, <1>3, <1>4

FadeJob ==
  [job: {"fade"}, at: Times, since: 0 .. MaxEvents, owners: SUBSET Owners, done: SUBSET Owners,
   left: SUBSET [owner: Owners, id: Ids, to: {"expired", "archived"}]]

DeleteAllJob ==
  [job: {"delete_all"}, owner: Owners, at: Times, since: 0 .. MaxEvents, left: SUBSET Ids]

LEMMA LongJobs ==
  /\ FadeJob \subseteq Jobs /\ DeleteAllJob \subseteq Jobs
  /\ \A t \in Jobs : t.job = "fade" => t \in FadeJob
  /\ \A t \in Jobs : t.job = "delete_all" => t \in DeleteAllJob
BY DEF Jobs, FadeJob, DeleteAllJob

LEMMA LongJobsType ==
  ASSUME TypeInv, NEW p \in Processes,
         StartDeleteAll(p) \/ DeleteNext(p) \/ StartFade(p) \/ FadeOwner(p) \/ FadeMemory(p)
  PROVE  task' \in [Processes -> Jobs \cup {Null}]
<1>1. /\ now \in Times /\ memories \subseteq Record
      /\ Len(audit) \in 0 .. MaxEvents
  BY BoundAssumption DEF TypeInv, TypeOK
<1>2. Running(p, "delete_all") => task[p] \in DeleteAllJob
  BY JobTypes, LongJobs DEF Running
<1>3. Running(p, "fade") => task[p] \in FadeJob
  BY JobTypes, LongJobs DEF Running
<1>4. CASE StartDeleteAll(p)
  <2>1. PICK o \in Owners :
          Plan(p, [job |-> "delete_all", owner |-> o, at |-> now, since |-> Len(audit),
                   left |-> Deletable(o)])
    BY <1>4 DEF StartDeleteAll
  <2>2. Deletable(o) \subseteq Ids
    BY <1>1 DEF Deletable, Record
  <2>3. [job |-> "delete_all", owner |-> o, at |-> now, since |-> Len(audit),
         left |-> Deletable(o)] \in DeleteAllJob
    BY <1>1, <2>2 DEF DeleteAllJob
  <2>. QED
    BY <2>1, <2>3, LongJobs, BecomesJob DEF Plan
<1>5. CASE DeleteNext(p)
  <2>1. PICK id \in task[p].left : Becomes(p, [task[p] EXCEPT !.left = @ \ {id}])
    BY <1>5 DEF DeleteNext
  <2>2. [task[p] EXCEPT !.left = @ \ {id}] \in DeleteAllJob
    BY <1>2, <1>5 DEF DeleteNext, DeleteAllJob
  <2>. QED
    BY <2>1, <2>2, LongJobs, BecomesJob
<1>6. CASE StartFade(p)
  <2>1. PICK owners \in {{o} : o \in Owners} \cup {{r.owner : r \in memories}} :
          Plan(p, [job |-> "fade", at |-> now, since |-> Len(audit), owners |-> owners,
                   done |-> {}, left |-> {}])
    BY <1>6 DEF StartFade
  <2>2. owners \subseteq Owners
    BY <1>1 DEF Record
  <2>3. [job |-> "fade", at |-> now, since |-> Len(audit), owners |-> owners,
         done |-> {}, left |-> {}] \in FadeJob
    BY <1>1, <2>2 DEF FadeJob
  <2>. QED
    BY <2>1, <2>3, LongJobs, BecomesJob DEF Plan
<1>7. CASE FadeOwner(p)
  <2>1. PICK o \in task[p].owners \ task[p].done :
          Becomes(p, [task[p] EXCEPT !.done = @ \cup {o}, !.left = Decisions(o, task[p].at)])
    BY <1>7 DEF FadeOwner
  <2>2. task[p] \in FadeJob /\ o \in Owners
    BY <1>3, <1>7 DEF FadeOwner, FadeJob
  <2>3. Decisions(o, task[p].at) \subseteq [owner: Owners, id: Ids, to: {"expired", "archived"}]
    BY <1>1, <2>2 DEF Decisions, Record
  <2>4. [task[p] EXCEPT !.done = @ \cup {o}, !.left = Decisions(o, task[p].at)] \in FadeJob
    BY <2>2, <2>3 DEF FadeJob
  <2>. QED
    BY <2>1, <2>4, LongJobs, BecomesJob
<1>8. CASE FadeMemory(p)
  <2>1. PICK d \in task[p].left : Becomes(p, [task[p] EXCEPT !.left = @ \ {d}])
    BY <1>8 DEF FadeMemory
  <2>2. [task[p] EXCEPT !.left = @ \ {d}] \in FadeJob
    BY <1>3, <1>8 DEF FadeMemory, FadeJob
  <2>. QED
    BY <2>1, <2>2, LongJobs, BecomesJob
<1>. QED
  BY <1>4, <1>5, <1>6, <1>7, <1>8

LEMMA TypeStep == TypeInv /\ [Next]_vars => TypeInv'
<1>. SUFFICES ASSUME TypeInv, [Next]_vars PROVE TypeInv'
  OBVIOUS
<1>1. ASSUME TablesOK', now' \in Times, task' \in [Processes -> Jobs \cup {Null}]
      PROVE  TypeInv'
  <2>1. \A p \in Processes : task'[p] = Null \/ task'[p] \in Jobs
    BY <1>1
  <2>. QED
    BY <1>1, <2>1 DEF TablesOK, TypeInv, TypeOK, Idle
<1>2. now \in Times /\ task \in [Processes -> Jobs \cup {Null}]
  BY DEF TypeInv, TypeOK
<1>3. ASSUME NEW p \in Processes, Step(p) PROVE TypeInv'
  <2>1. TablesOK'
    <3>1. TablesOK
      BY DEF TypeInv, TypeOK, TablesOK
    <3>2. CASE UNCHANGED repoVars
      BY <3>1, <3>2 DEF repoVars, TablesOK
    <3>. QED
      BY <1>3, <3>1, <3>2, StepWrites, TablesStep
  <2>2. now' \in Times
    BY <1>2, <1>3
    DEF Step, PlanRemember, PlanForget, PlanCorrect, Remembered, SupersededOld, Forgotten,
        UserCall, StartDeleteAll, DeleteNext, DeleteAllDone, StartFade, FadeOwner,
        FadeMemory, FadeDone, Abandon, Plan
  <2>3. task' \in [Processes -> Jobs \cup {Null}]
    <3>1. CASE Becomes(p, Null)
      BY <3>1, BecomesJob
    <3>2. CASE task' = task
      BY <3>2, <1>2
    <3>. QED
      BY <1>3, <3>1, <3>2, PlansType, LongJobsType
      DEF Step, Remembered, SupersededOld, Forgotten, UserCall, DeleteAllDone, FadeDone, Abandon
  <2>. QED
    BY <1>1, <2>1, <2>2, <2>3
<1>4. TablesOK
  BY DEF TypeInv, TypeOK, TablesOK
<1>5. CASE Tick
  <2>1. now' \in Times
    BY <1>2, <1>5, TimeAssumption DEF Tick, Times
  <2>. QED
    BY <1>1, <1>2, <1>4, <1>5, <2>1 DEF Tick, repoVars, TablesOK
<1>6. CASE UNCHANGED vars
  BY <1>1, <1>2, <1>4, <1>6 DEF vars, repoVars, TablesOK
<1>. QED
  BY <1>3, <1>5, <1>6 DEF Next

LEMMA TypeInvariance == Spec => []TypeInv
<1>1. Init => TypeInv
  BY TimeAssumption, BoundAssumption DEF Init, TypeInv, TypeOK, Idle, Times
<1>. QED
  BY <1>1, TypeStep, PTL DEF Spec

(* Types: no interleaving of capture, governance and fade, cut short or    *)
(* not, leaves a row that MemoryRecord would refuse to read back.          *)
THEOREM TypeCorrect == Spec => []TypeOK
BY TypeInvariance, PTL DEF TypeInv
-----------------------------------------------------------------------------
(* Every row that a step writes gets an event of that step.                *)

Trail(n, r) == \E i \in n + 1 .. Len(audit) : audit[i].memory = r.id

WrittenRowsAudited ==
  /\ Len(audit) <= Len(audit') /\ \A i \in 1 .. Len(audit) : audit'[i] = audit[i]
  /\ \A r \in memories' \ memories :
       \E i \in Len(audit) + 1 .. Len(audit') : audit'[i].memory = r.id

LEMMA OneEvent ==
  ASSUME TablesOK, NEW e \in AuditEvent, audit' = Append(audit, e),
         \A r \in memories' \ memories : r.id = e.memory
  PROVE  WrittenRowsAudited /\ Len(audit) < Len(audit')
<1>1. /\ Len(audit) \in Nat /\ Len(audit') = Len(audit) + 1
      /\ audit'[Len(audit) + 1] = e
      /\ \A i \in 1 .. Len(audit) : audit'[i] = audit[i]
  BY DEF TablesOK
<1>. QED
  BY <1>1 DEF WrittenRowsAudited

LEMMA TwoEvents ==
  ASSUME TablesOK, NEW e \in AuditEvent, NEW f \in AuditEvent, audit' = audit \o <<e, f>>,
         \A r \in memories' \ memories : r.id \in {e.memory, f.memory}
  PROVE  WrittenRowsAudited /\ Len(audit) < Len(audit')
<1>1. /\ Len(audit) \in Nat /\ Len(audit') = Len(audit) + 2
      /\ audit'[Len(audit) + 1] = e /\ audit'[Len(audit) + 2] = f
      /\ \A i \in 1 .. Len(audit) : audit'[i] = audit[i]
  BY DEF TablesOK
<1>2. Len(audit) + 1 \in Len(audit) + 1 .. Len(audit') /\ Len(audit) + 2 \in Len(audit) + 1 .. Len(audit')
  BY <1>1
<1>3. \A r \in memories' \ memories :
        \E i \in Len(audit) + 1 .. Len(audit') : audit'[i].memory = r.id
  BY <1>1, <1>2
<1>4. Len(audit) < Len(audit')
  BY <1>1
<1>. QED
  BY <1>1, <1>3, <1>4 DEF WrittenRowsAudited

LEMMA TablesAudited ==
  ASSUME TablesOK, TableStep
  PROVE  WrittenRowsAudited /\ Len(audit) < Len(audit')
<1>1. memories \subseteq Record
  BY DEF TablesOK
<1>2. CASE RewritesRow
  <2>1. PICK cur \in memories, r \in Record, action \in AuditAction, at \in Times,
             reason \in Keys \cup {Null} :
          Rewrites(cur, r) /\ PersistUpdate(cur, r, action, at, reason)
    BY <1>2 DEF RewritesRow
  <2>. DEFINE e == Event(cur, cur.owner, action, at, reason, cur.status, r.status)
  <2>2. e \in AuditEvent /\ e.memory = cur.id
    BY <1>1, EventType DEF Record, MemoryStatus, Event
  <2>3. \A x \in memories' \ memories : x.id = e.memory
    BY <2>1, <2>2 DEF PersistUpdate, UpdateRow, Rewrites
  <2>. QED
    BY <1>1, <2>1, <2>2, <2>3, OneEvent DEF PersistUpdate
<1>3. CASE DeletesRow
  <2>1. PICK cur \in memories, at \in Times : HardDelete(cur, at)
    BY <1>3 DEF DeletesRow
  <2>. DEFINE e == Event(cur, cur.owner, "hard_delete", at, Null, cur.status, "deleted")
  <2>2. e \in AuditEvent
    BY <1>1, EventType DEF Record, MemoryStatus, AuditAction
  <2>. QED
    BY <1>1, <2>1, <2>2, OneEvent DEF HardDelete, DeleteRow
<1>4. ASSUME NEW r \in Record, CreatesRow(r)
      PROVE  WrittenRowsAudited /\ Len(audit) < Len(audit')
  <2>. DEFINE e == Event(r, r.owner, "create", r.created, Null, Null, r.status)
  <2>1. e \in AuditEvent /\ e.memory = r.id
    BY EventType DEF Record, MemoryStatus, AuditAction, Event
  <2>. QED
    BY <1>1, <1>4, <2>1, OneEvent DEF CreatesRow, Create
<1>5. ASSUME NEW cur \in memories, NEW r \in Record, SupersedesRow(cur, r)
      PROVE  WrittenRowsAudited /\ Len(audit) < Len(audit')
  <2>1. PICK at \in Times, reason \in Keys \cup {Null} :
          Supersede(cur, r, at, reason)
    BY <1>5 DEF SupersedesRow
  <2>. DEFINE old == SupersededMemory(cur, r, at)
              new == LinkedReplacement(cur, r, at)
              e == Event(cur, cur.owner, "supersede", at, reason, cur.status, "superseded")
              f == Event(new, cur.owner, "create", at, Null, Null, "active")
  <2>2. cur \in Record
    BY <1>1
  <2>3. old.id = cur.id /\ new \in Record
    BY <2>2, LinkedTypes
  <2>4. e \in AuditEvent /\ e.memory = cur.id /\ f \in AuditEvent /\ f.memory = new.id
    BY <2>2, <2>3, EventType DEF Record, MemoryStatus, RowStatus, AuditAction, Event
  <2>5. \A x \in memories' \ memories : x = old \/ x = new
    BY <2>1 DEF Supersede, UpdateRow
  <2>6. audit' = audit \o <<e, f>>
    BY <2>1 DEF Supersede
  <2>. HIDE DEF e, f, old, new
  <2>7. \A x \in memories' \ memories : x.id \in {e.memory, f.memory}
    BY <2>3, <2>4, <2>5
  <2>. QED
    BY <1>1, <2>4, <2>6, <2>7, TwoEvents
<1>. QED
  BY <1>2, <1>3, <1>4, <1>5 DEF TableStep

LEMMA StepAudited ==
  ASSUME TypeInv, NEW p \in Processes, Step(p)
  PROVE  WrittenRowsAudited
<1>1. TablesOK /\ Len(audit) \in Nat
  BY DEF TypeInv, TypeOK, TablesOK
<1>2. CASE UNCHANGED repoVars
  BY <1>1, <1>2 DEF repoVars, WrittenRowsAudited
<1>. QED
  BY <1>1, <1>2, StepWrites, TablesAudited

LEMMA NextAudited == TypeInv /\ [Next]_vars => WrittenRowsAudited
<1>. SUFFICES ASSUME TypeInv, [Next]_vars PROVE WrittenRowsAudited
  OBVIOUS
<1>1. Len(audit) \in Nat
  BY DEF TypeInv, TypeOK
<1>2. CASE Tick \/ UNCHANGED vars
  BY <1>1, <1>2 DEF Tick, vars, repoVars, WrittenRowsAudited
<1>. QED
  BY <1>2, StepAudited DEF Next

(* So a row that was not there before has been changed since n, and a row  *)
(* that has been changed since n stays that way.                           *)
LEMMA TrailKept ==
  ASSUME TypeInv, WrittenRowsAudited, NEW n \in Nat, n <= Len(audit), NEW r \in memories'
  PROVE  /\ r \notin memories => Trail(n, r)'
         /\ Trail(n, r) => Trail(n, r)'
<1>1. Len(audit) \in Nat /\ Len(audit') \in Nat /\ Len(audit) <= Len(audit')
  BY DEF TypeInv, TypeOK, WrittenRowsAudited
<1>2. ASSUME r \notin memories PROVE Trail(n, r)'
  <2>1. PICK i \in Len(audit) + 1 .. Len(audit') : audit'[i].memory = r.id
    BY <1>2 DEF WrittenRowsAudited
  <2>2. i \in n + 1 .. Len(audit')
    BY <1>1
  <2>. QED
    BY <2>1, <2>2 DEF Trail
<1>3. ASSUME Trail(n, r) PROVE Trail(n, r)'
  <2>1. PICK i \in n + 1 .. Len(audit) : audit[i].memory = r.id
    BY <1>3 DEF Trail
  <2>2. i \in n + 1 .. Len(audit') /\ i \in 1 .. Len(audit)
    BY <1>1
  <2>3. audit'[i].memory = r.id
    BY <2>1, <2>2 DEF WrittenRowsAudited
  <2>. QED
    BY <2>2, <2>3 DEF Trail
<1>. QED
  BY <1>2, <1>3
-----------------------------------------------------------------------------
(* An id names one row, and a rewrite replaces that row.                   *)

UniqueIds == \A r, s \in memories : r.id = s.id => r = s

LEMMA UpdateHitsOne ==
  ASSUME UniqueIds, NEW cur \in memories, NEW r, r.id = cur.id, r.owner = cur.owner
  PROVE  UpdateRow(memories, r) = (memories \ {cur}) \cup {r}
BY DEF UpdateRow, UniqueIds

LEMMA IdsKept ==
  ASSUME TablesOK, UniqueIds, TableStep
  PROVE  UniqueIds'
<1>1. CASE RewritesRow
  <2>1. PICK cur \in memories, r \in Record :
          r.id = cur.id /\ r.owner = cur.owner /\ memories' = UpdateRow(memories, r)
    BY <1>1 DEF RewritesRow, Rewrites, PersistUpdate
  <2>2. memories' = (memories \ {cur}) \cup {r}
    BY <2>1, UpdateHitsOne
  <2>. QED
    BY <2>1, <2>2 DEF UniqueIds
<1>2. ASSUME NEW cur \in memories, NEW r \in Record, SupersedesRow(cur, r)
      PROVE  UniqueIds'
  <2>1. PICK at \in Times, reason \in Keys \cup {Null} : Supersede(cur, r, at, reason)
    BY <1>2 DEF SupersedesRow
  <2>. DEFINE old == SupersededMemory(cur, r, at)
              new == LinkedReplacement(cur, r, at)
  <2>2. cur \in Record
    BY DEF TablesOK
  <2>3. old.id = cur.id /\ old.owner = cur.owner
    BY <2>2, LinkedTypes
  <2>4. UpdateRow(memories, old) = (memories \ {cur}) \cup {old}
    BY <2>3, UpdateHitsOne
  <2>5. /\ memories' = UpdateRow(memories, old) \cup {new}
        /\ \A s \in UpdateRow(memories, old) : s.id # new.id
    BY <2>1 DEF Supersede, NoConflict
  <2>. HIDE DEF old, new
  <2>. QED
    BY <2>3, <2>4, <2>5 DEF UniqueIds
<1>. QED
  BY <1>1, <1>2
  DEF TableStep, DeletesRow, HardDelete, DeleteRow, CreatesRow, Create, NoConflict, UniqueIds

LEMMA IdsStep ==
  ASSUME TypeInv, UniqueIds, NEW p \in Processes, Step(p)
  PROVE  UniqueIds'
<1>1. TablesOK
  BY DEF TypeInv, TypeOK, TablesOK
<1>. QED
  BY <1>1, StepWrites, IdsKept DEF repoVars, UniqueIds

LEMMA IdsInvariance == Spec => []UniqueIds
<1>1. Init => UniqueIds
  BY DEF Init, UniqueIds
<1>2. TypeInv /\ UniqueIds /\ [Next]_vars => UniqueIds'
  BY IdsStep DEF Next, Tick, vars, repoVars, UniqueIds
<1>. QED
  BY <1>1, <1>2, TypeInvariance, PTL DEF Spec
-----------------------------------------------------------------------------
(* A pass of fade.                                                         *)

FadePending(t) ==
  /\ t.since <= Len(audit)
  /\ \A r \in memories :
       (r.status = "active" /\ r.owner \in t.done /\ Due(r, t.at)) =>
         Trail(t.since, r) \/ \E d \in t.left : d.owner = r.owner /\ d.id = r.id
  /\ \A r \in memories, d \in t.left :
       (r.status = "active" /\ r.owner = d.owner /\ r.id = d.id) =>
         Trail(t.since, r) \/ Due(r, t.at)

(* delete_all *)
DeletePending(t) ==
  /\ t.since <= Len(audit)
  /\ \A r \in memories : r.owner = t.owner => Trail(t.since, r) \/ r.id \in t.left

JobsInv ==
  \A p \in Processes :
    /\ Running(p, "fade") => FadePending(task[p])
    /\ Running(p, "delete_all") => DeletePending(task[p])

LEMMA ChangedIsTrail ==
  ASSUME NEW p, NEW r
  PROVE  ChangedMeanwhile(p, r) <=> Trail(task[p].since, r)
BY DEF ChangedMeanwhile, Trail

(* What a process has pending survives the steps of the others.            *)
LEMMA FadeUndisturbed ==
  ASSUME TypeInv, WrittenRowsAudited, NEW t \in FadeJob, FadePending(t)
  PROVE  FadePending(t)'
<1>1. t.since \in Nat /\ Len(audit) \in Nat /\ Len(audit') \in Nat /\ Len(audit) <= Len(audit')
  BY BoundAssumption DEF TypeInv, TypeOK, WrittenRowsAudited, FadeJob
<1>2. t.since <= Len(audit) /\ t.since <= Len(audit')
  BY <1>1 DEF FadePending
<1>3. ASSUME NEW r \in memories', r.status = "active", r.owner \in t.done, Due(r, t.at)
      PROVE  Trail(t.since, r)' \/ \E d \in t.left : d.owner = r.owner /\ d.id = r.id
  BY <1>1, <1>2, <1>3, TrailKept DEF FadePending
<1>4. ASSUME NEW r \in memories', NEW d \in t.left,
             r.status = "active", r.owner = d.owner, r.id = d.id
      PROVE  Trail(t.since, r)' \/ Due(r, t.at)
  BY <1>1, <1>2, <1>4, TrailKept DEF FadePending
<1>. QED
  BY <1>2, <1>3, <1>4 DEF FadePending, Due, Overdue

LEMMA DeleteUndisturbed ==
  ASSUME TypeInv, WrittenRowsAudited, NEW t \in DeleteAllJob, DeletePending(t)
  PROVE  DeletePending(t)'
<1>1. t.since \in Nat /\ Len(audit) \in Nat /\ Len(audit') \in Nat /\ Len(audit) <= Len(audit')
  BY BoundAssumption DEF TypeInv, TypeOK, WrittenRowsAudited, DeleteAllJob
<1>2. t.since <= Len(audit) /\ t.since <= Len(audit')
  BY <1>1 DEF DeletePending
<1>3. ASSUME NEW r \in memories', r.owner = t.owner
      PROVE  Trail(t.since, r)' \/ r.id \in t.left
  BY <1>1, <1>2, <1>3, TrailKept DEF DeletePending
<1>. QED
  BY <1>2, <1>3 DEF DeletePending

(* The job of p after a step of q.                                         *)
LEMMA TaskStep ==
  ASSUME TypeInv, NEW p \in Processes, NEW q \in Processes, Step(q)
  PROVE  \/ task'[p] = task[p]
         \/ task'[p].job \in {"remember", "supersede", "forget"}
         \/ Idle(p)'
         \/ q = p /\ (StartFade(p) \/ FadeOwner(p) \/ FadeMemory(p))
         \/ q = p /\ (StartDeleteAll(p) \/ DeleteNext(p))
<1>1. ASSUME NEW t, Becomes(q, t)
      PROVE  task'[p] = IF p = q THEN t ELSE task[p]
  BY <1>1 DEF Becomes, TypeInv
<1>2. CASE q # p
  <2>1. ASSUME NEW t, Becomes(q, t) PROVE task'[p] = task[p]
    BY <1>1, <1>2, <2>1
  <2>. QED
    BY <2>1
    DEF Step, PlanRemember, PlanForget, PlanCorrect, Remembered, SupersededOld, Forgotten,
        UserCall, StartDeleteAll, DeleteNext, DeleteAllDone, StartFade, FadeOwner,
        FadeMemory, FadeDone, Abandon, Plan
<1>3. CASE q = p
  <2>1. CASE PlanRemember(p) \/ PlanForget(p) \/ PlanCorrect(p)
    <3>1. CASE PlanRemember(p)
      <4>1. PICK o, key, record :
              \/ Becomes(p, [job |-> "remember", owner |-> o, at |-> now, since |-> Len(audit),
                             record |-> record])
              \/ \E old :
                   Becomes(p, [job |-> "supersede", owner |-> o, at |-> now, record |-> record,
                               old |-> old.id, reason |-> key])
        BY <3>1 DEF PlanRemember, Plan
      <4>2. CASE Becomes(p, [job |-> "remember", owner |-> o, at |-> now, since |-> Len(audit),
                             record |-> record])
        BY <1>1, <1>3, <4>2
      <4>3. ASSUME NEW old,
                   Becomes(p, [job |-> "supersede", owner |-> o, at |-> now, record |-> record,
                               old |-> old.id, reason |-> key])
            PROVE  task'[p].job = "supersede"
        BY <1>1, <1>3, <4>3
      <4>. QED
        BY <4>1, <4>2, <4>3
    <3>2. CASE PlanForget(p)
      BY <1>1, <1>3, <3>2 DEF PlanForget, Plan
    <3>3. CASE PlanCorrect(p)
      BY <1>1, <1>3, <3>3 DEF PlanCorrect, Plan
    <3>. QED
      BY <2>1, <3>1, <3>2, <3>3
  <2>2. CASE Becomes(p, Null)
    BY <1>1, <1>3, <2>2 DEF Idle
  <2>3. CASE UserCall(p)
    BY <2>3 DEF UserCall
  <2>. QED
    BY <1>3, <2>1, <2>2, <2>3
    DEF Step, Remembered, SupersededOld, Forgotten, DeleteAllDone, FadeDone, Abandon
<1>. QED
  BY <1>2, <1>3

LEMMA DueIsDecided ==
  ASSUME NEW r \in Record, ValidRecord(r), NEW at \in Times
  PROVE  Due(r, at) <=> ShouldExpire(r, at) \/ ShouldArchive(r, at)
BY AgeAssumption, TimeAssumption
DEF Due, Overdue, ShouldExpire, ShouldArchive, ValidRecord, Record, Times

(* The pass's own steps. *)
LEMMA FadeStarts ==
  ASSUME TypeInv, NEW p \in Processes, StartFade(p)
  PROVE  task'[p].job = "fade" /\ FadePending(task[p])'
<1>1. PICK owners :
        Plan(p, [job |-> "fade", at |-> now, since |-> Len(audit), owners |-> owners,
                 done |-> {}, left |-> {}])
  BY DEF StartFade
<1>2. task'[p] = [job |-> "fade", at |-> now, since |-> Len(audit), owners |-> owners,
                  done |-> {}, left |-> {}]
  BY <1>1 DEF Plan, Becomes, TypeInv
<1>3. audit' = audit /\ Len(audit) \in Nat
  BY <1>1 DEF Plan, repoVars, TypeInv, TypeOK
<1>. QED
  BY <1>2, <1>3 DEF FadePending

LEMMA FadeDecides ==
  ASSUME TypeInv, UniqueIds, JobsInv, NEW p \in Processes, FadeOwner(p)
  PROVE  FadePending(task[p])'
<1>1. PICK o \in task[p].owners \ task[p].done :
        Becomes(p, [task[p] EXCEPT !.done = @ \cup {o}, !.left = Decisions(o, task[p].at)])
  BY DEF FadeOwner
<1>. DEFINE t == task[p]
<1>2. t \in FadeJob /\ t.at \in Times /\ t.left = {} /\ FadePending(t)
  BY JobTypes, LongJobs DEF FadeOwner, Running, JobsInv
<1>3. /\ task'[p].since = t.since /\ task'[p].at = t.at
      /\ task'[p].done = t.done \cup {o} /\ task'[p].left = Decisions(o, t.at)
  BY <1>1, <1>2 DEF Becomes, TypeInv, FadeJob
<1>4. memories' = memories /\ audit' = audit
  BY DEF FadeOwner, repoVars
<1>5. \A r \in memories : r \in Record /\ ValidRecord(r)
  BY DEF TypeInv, TypeOK
<1>. HIDE DEF t
<1>6. ASSUME NEW r \in memories, r.status = "active", r.owner \in t.done \cup {o}, Due(r, t.at)
      PROVE  Trail(t.since, r) \/ \E d \in Decisions(o, t.at) : d.owner = r.owner /\ d.id = r.id
  <2>1. CASE r.owner \in t.done
    BY <1>2, <1>6, <2>1 DEF FadePending
  <2>2. CASE r.owner = o
    <3>1. ShouldExpire(r, t.at) \/ ShouldArchive(r, t.at)
      BY <1>2, <1>5, <1>6, DueIsDecided
    <3>2. CASE ShouldExpire(r, t.at)
      <4>1. [owner |-> o, id |-> r.id, to |-> "expired"] \in Decisions(o, t.at)
        BY <1>6, <2>2, <3>2 DEF Decisions
      <4>. QED
        BY <2>2, <4>1
    <3>3. CASE ~ ShouldExpire(r, t.at) /\ ShouldArchive(r, t.at)
      <4>1. [owner |-> o, id |-> r.id, to |-> "archived"] \in Decisions(o, t.at)
        BY <1>6, <2>2, <3>3 DEF Decisions
      <4>. QED
        BY <2>2, <4>1
    <3>. QED
      BY <3>1, <3>2, <3>3
  <2>. QED
    BY <1>6, <2>1, <2>2
<1>7. ASSUME NEW r \in memories, NEW d \in Decisions(o, t.at),
             r.status = "active", r.owner = d.owner, r.id = d.id
      PROVE  Trail(t.since, r) \/ Due(r, t.at)
  <2>1. PICK s \in memories :
          s.id = d.id /\ s.owner = o /\ d.owner = o /\ (ShouldExpire(s, t.at) \/ ShouldArchive(s, t.at))
    BY DEF Decisions
  <2>2. s = r
    BY <1>7, <2>1 DEF UniqueIds
  <2>. QED
    BY <1>2, <1>5, <2>1, <2>2, DueIsDecided
<1>. QED
  BY <1>2, <1>3, <1>4, <1>6, <1>7 DEF FadePending, Trail, Due, Overdue

LEMMA FadeActs ==
  ASSUME TypeInv, UniqueIds, JobsInv, NEW p \in Processes, FadeMemory(p)
  PROVE  /\ FadePending(task[p])'
         /\ \A r \in memories :
              (r.status = "active" /\ r \notin memories') =>
                Due(r, task[p].at) \/ ChangedMeanwhile(p, r)
<1>1. PICK t \in FadeJob : t = task[p]
  BY JobTypes, LongJobs DEF FadeMemory, Running
<1>2. FadePending(t) /\ t.at \in Times
  BY <1>1, JobTypes DEF FadeMemory, JobsInv, Running
<1>3. PICK d \in t.left :
        /\ \E cur \in Row(d.owner, d.id) :
             IF d.to = "expired" THEN Expire(cur, t.at) ELSE Archive(cur, t.at)
        /\ Becomes(p, [t EXCEPT !.left = @ \ {d}])
  BY <1>1 DEF FadeMemory
<1>4. PICK cur \in memories :
        /\ cur.owner = d.owner /\ cur.id = d.id
        /\ Expire(cur, t.at) \/ Archive(cur, t.at)
  BY <1>3 DEF Row
<1>5. PICK r \in Record :
        /\ r.id = cur.id /\ r.owner = cur.owner /\ r.status # "active"
        /\ memories' = (memories \ {cur}) \cup {r}
  <2>1. cur \in Record
    BY DEF TypeInv, TypeOK
  <2>2. PICK target \in RowStatus \ {"active"} : memories' = UpdateRow(memories, ToStatus(cur, target, t.at))
    BY <1>4 DEF Expire, Archive, PersistUpdate, RowStatus
  <2>. DEFINE r == ToStatus(cur, target, t.at)
  <2>3. r \in Record /\ r.id = cur.id /\ r.owner = cur.owner /\ r.status # "active"
    BY <1>2, <2>1 DEF ToStatus, Record
  <2>4. memories' = (memories \ {cur}) \cup {r}
    BY <2>2, <2>3, UpdateHitsOne
  <2>. QED
    BY <2>3, <2>4
<1>6. FadePending(t)'
  <2>1. WrittenRowsAudited
    BY StepAudited DEF Step
  <2>. QED
    BY <1>2, <2>1, FadeUndisturbed
<1>7. /\ task'[p].since = t.since /\ task'[p].at = t.at /\ task'[p].done = t.done
      /\ task'[p].left = t.left \ {d}
  BY <1>3 DEF Becomes, TypeInv, FadeJob
<1>8. \A s \in memories' : s.owner = d.owner /\ s.id = d.id => s.status # "active"
  BY <1>4, <1>5 DEF UniqueIds
<1>9. FadePending(task[p])'
  BY <1>6, <1>7, <1>8 DEF FadePending, Trail, Due, Overdue
<1>10. ASSUME NEW s \in memories, s.status = "active", s \notin memories'
       PROVE  Due(s, t.at) \/ Trail(t.since, s)
  <2>1. s = cur
    BY <1>5, <1>10
  <2>. QED
    BY <1>2, <1>4, <1>10, <2>1 DEF FadePending
<1>. QED
  BY <1>1, <1>9, <1>10, ChangedIsTrail

LEMMA DeleteStarts ==
  ASSUME TypeInv, NEW p \in Processes, StartDeleteAll(p)
  PROVE  task'[p].job = "delete_all" /\ DeletePending(task[p])'
<1>1. PICK o \in Owners :
        Plan(p, [job |-> "delete_all", owner |-> o, at |-> now, since |-> Len(audit),
                 left |-> Deletable(o)])
  BY DEF StartDeleteAll
<1>2. task'[p] = [job |-> "delete_all", owner |-> o, at |-> now, since |-> Len(audit),
                  left |-> Deletable(o)]
  BY <1>1 DEF Plan, Becomes, TypeInv
<1>3. audit' = audit /\ memories' = memories /\ Len(audit) \in Nat
  BY <1>1 DEF Plan, repoVars, TypeInv, TypeOK
<1>. QED
  BY <1>2, <1>3 DEF DeletePending, Deletable

LEMMA DeleteActs ==
  ASSUME TypeInv, JobsInv, NEW p \in Processes, DeleteNext(p)
  PROVE  /\ DeletePending(task[p])'
         /\ \A r \in memories : r.owner # task[p].owner => r \in memories'
<1>1. PICK t \in DeleteAllJob : t = task[p]
  BY JobTypes, LongJobs DEF DeleteNext, Running
<1>2. DeletePending(t)
  BY <1>1 DEF DeleteNext, JobsInv
<1>3. PICK id \in t.left :
        /\ \E cur \in Row(t.owner, id) : HardDelete(cur, t.at)
        /\ Becomes(p, [t EXCEPT !.left = @ \ {id}])
  BY <1>1 DEF DeleteNext
<1>4. memories' = {s \in memories : ~ (s.id = id /\ s.owner = t.owner)}
  BY <1>3 DEF Row, HardDelete, DeleteRow
<1>5. DeletePending(t)'
  <2>1. WrittenRowsAudited
    BY StepAudited DEF Step
  <2>. QED
    BY <1>2, <2>1, DeleteUndisturbed
<1>6. /\ task'[p].since = t.since /\ task'[p].owner = t.owner
      /\ task'[p].left = t.left \ {id}
  BY <1>3 DEF Becomes, TypeInv, DeleteAllJob
<1>7. DeletePending(task[p])'
  BY <1>4, <1>5, <1>6 DEF DeletePending, Trail
<1>. QED
  BY <1>1, <1>4, <1>7

(* A long job stays one to its end. *)
LEMMA LongJobSteps ==
  ASSUME TypeInv, NEW p \in Processes
  PROVE  /\ StartFade(p) \/ FadeOwner(p) \/ FadeMemory(p) => task'[p].job = "fade"
         /\ StartDeleteAll(p) \/ DeleteNext(p) => task'[p].job = "delete_all"
<1>1. ASSUME FadeOwner(p) \/ FadeMemory(p) PROVE task[p] \in FadeJob
  BY <1>1, JobTypes, LongJobs DEF FadeOwner, FadeMemory, Running
<1>2. FadeOwner(p) => task'[p].job = "fade"
  BY <1>1 DEF FadeOwner, Becomes, TypeInv, FadeJob
<1>3. FadeMemory(p) => task'[p].job = "fade"
  BY <1>1 DEF FadeMemory, Becomes, TypeInv, FadeJob
<1>4. DeleteNext(p) => task'[p].job = "delete_all"
  <2>. SUFFICES ASSUME DeleteNext(p) PROVE task'[p].job = "delete_all"
    OBVIOUS
  <2>1. task[p] \in DeleteAllJob
    BY JobTypes, LongJobs DEF DeleteNext, Running
  <2>. QED
    BY <2>1 DEF DeleteNext, Becomes, TypeInv, DeleteAllJob
<1>. QED
  BY <1>2, <1>3, <1>4, FadeStarts, DeleteStarts

LEMMA JobsStep ==
  TypeInv /\ UniqueIds /\ JobsInv /\ [Next]_vars => JobsInv'
<1>. SUFFICES ASSUME TypeInv, UniqueIds, JobsInv, [Next]_vars, NEW p \in Processes
              PROVE  /\ Running(p, "fade")' => FadePending(task[p])'
                     /\ Running(p, "delete_all")' => DeletePending(task[p])'
  BY DEF JobsInv
<1>1. WrittenRowsAudited
  BY NextAudited
<1>2. CASE task'[p] = task[p]
  <2>1. ASSUME Running(p, "fade")' PROVE FadePending(task[p])'
    <3>1. Running(p, "fade")
      BY <1>2, <2>1 DEF Running, Idle
    <3>2. PICK t \in FadeJob : t = task[p]
      BY <3>1, JobTypes, LongJobs DEF Running
    <3>3. FadePending(t)'
      BY <1>1, <3>1, <3>2, FadeUndisturbed DEF JobsInv
    <3>. QED
      BY <1>2, <3>2, <3>3 DEF FadePending, Trail, Due, Overdue
  <2>2. ASSUME Running(p, "delete_all")' PROVE DeletePending(task[p])'
    <3>1. Running(p, "delete_all")
      BY <1>2, <2>2 DEF Running, Idle
    <3>2. PICK t \in DeleteAllJob : t = task[p]
      BY <3>1, JobTypes, LongJobs DEF Running
    <3>3. DeletePending(t)'
      BY <1>1, <3>1, <3>2, DeleteUndisturbed DEF JobsInv
    <3>. QED
      BY <1>2, <3>2, <3>3 DEF DeletePending, Trail
  <2>. QED
    BY <2>1, <2>2
<1>3. CASE task'[p].job \in {"remember", "supersede", "forget"} \/ Idle(p)'
  BY <1>3 DEF Running
<1>4. CASE StartFade(p) \/ FadeOwner(p) \/ FadeMemory(p)
  <2>1. ~ Running(p, "delete_all")'
    BY <1>4, LongJobSteps DEF Running
  <2>. QED
    BY <1>4, <2>1, FadeStarts, FadeDecides, FadeActs
<1>5. CASE StartDeleteAll(p) \/ DeleteNext(p)
  <2>1. ~ Running(p, "fade")'
    BY <1>5, LongJobSteps DEF Running
  <2>. QED
    BY <1>5, <2>1, DeleteStarts, DeleteActs
<1>6. CASE Tick \/ UNCHANGED vars
  BY <1>2, <1>6 DEF Tick, vars
<1>. QED
  BY <1>2, <1>3, <1>4, <1>5, <1>6, TaskStep DEF Next

LEMMA JobsInvariance == Spec => []JobsInv
<1>1. Init => JobsInv
  BY DEF Init, JobsInv, Running, Idle
<1>. QED
  BY <1>1, JobsStep, TypeInvariance, IdsInvariance, PTL DEF Spec

FadeStep ==
  \A p \in Processes :
    /\ FadeDone(p) =>
         \A r \in memories :
           (r.owner \in task[p].owners /\ r.status = "active" /\ Due(r, task[p].at))
             => ChangedMeanwhile(p, r)
    /\ FadeMemory(p) =>
         \A r \in memories :
           (r.status = "active" /\ r \notin memories')
             => Due(r, task[p].at) \/ ChangedMeanwhile(p, r)

LEMMA FadeStepExact == TypeInv /\ UniqueIds /\ JobsInv => FadeStep
<1>. SUFFICES ASSUME TypeInv, UniqueIds, JobsInv, NEW p \in Processes
              PROVE  /\ FadeDone(p) =>
                          \A r \in memories :
                            (r.owner \in task[p].owners /\ r.status = "active" /\ Due(r, task[p].at))
                              => ChangedMeanwhile(p, r)
                     /\ FadeMemory(p) =>
                          \A r \in memories :
                            (r.status = "active" /\ r \notin memories')
                              => Due(r, task[p].at) \/ ChangedMeanwhile(p, r)
  BY DEF FadeStep
<1>1. ASSUME FadeDone(p), NEW r \in memories, r.owner \in task[p].owners,
             r.status = "active", Due(r, task[p].at)
      PROVE  ChangedMeanwhile(p, r)
  BY <1>1, ChangedIsTrail DEF FadeDone, JobsInv, FadePending
<1>. QED
  BY <1>1, FadeActs

(* Invariant 9 and ADR-017: however a pass interleaves with captures,      *)
(* corrections, user calls and other passes, it takes exactly the memories *)
(* that are due out of use, but for those changed while it ran.            *)
THEOREM FadesExactly == Spec => FadeExact
BY FadeStepExact, TypeInvariance, IdsInvariance, JobsInvariance, PTL DEF FadeExact, FadeStep

DeleteStep ==
  \A p \in Processes :
    /\ DeleteAllDone(p) =>
         \A r \in memories : r.owner = task[p].owner => ChangedMeanwhile(p, r)
    /\ DeleteNext(p) =>
         \A r \in memories : r.owner # task[p].owner => r \in memories'

LEMMA DeleteStepDeletes == TypeInv /\ JobsInv => DeleteStep
<1>. SUFFICES ASSUME TypeInv, JobsInv, NEW p \in Processes
              PROVE  /\ DeleteAllDone(p) =>
                          \A r \in memories : r.owner = task[p].owner => ChangedMeanwhile(p, r)
                     /\ DeleteNext(p) =>
                          \A r \in memories : r.owner # task[p].owner => r \in memories'
  BY DEF DeleteStep
<1>1. ASSUME DeleteAllDone(p), NEW r \in memories, r.owner = task[p].owner
      PROVE  ChangedMeanwhile(p, r)
  BY <1>1, ChangedIsTrail DEF DeleteAllDone, JobsInv, DeletePending
<1>. QED
  BY <1>1, DeleteActs

(* delete_all that returns has left no memory of its owner but those       *)
(* written since it began, and it touches no other owner's.                *)
THEOREM DeletesAll == Spec => DeleteAllDeletes
BY DeleteStepDeletes, TypeInvariance, JobsInvariance, PTL DEF DeleteAllDeletes, DeleteStep
-----------------------------------------------------------------------------
(* What a planned job rests on when it runs.  The others create memories   *)
(* under ids of their own, with an event; apart from that they take        *)
(* memories out of use and never bring one into use.                       *)

FactOf(r) == <<r.owner, r.key, r.content>>

Same(r, s) == r.id = s.id /\ r.owner = s.owner /\ r.key = s.key

Storing(p) == Running(p, "remember") \/ Running(p, "supersede")

Seen == {audit[i].memory : i \in DOMAIN audit}

(* No id is used twice: not by a row, not by an event, not by a plan.      *)
FreshInv ==
  /\ \A r \in memories : r.id \in Seen
  /\ \A p \in Processes : Storing(p) => task[p].record.id \notin Seen
  /\ \A p, q \in Processes :
       Storing(p) /\ Storing(q) /\ p # q => task[p].record.id # task[q].record.id
  /\ \A p \in Processes : Running(p, "supersede") => task[p].old \in Seen

InTheWay(record, r) ==
  r.status = "active" /\ r.owner = record.owner /\ r.key = record.key

PlansHold ==
  \A p \in Processes :
    /\ Running(p, "remember") =>
         /\ task[p].since \in 0 .. Len(audit)
         /\ \A r \in memories :
              InTheWay(task[p].record, r) => CreatedSince(task[p].since, r.id)
    /\ Running(p, "supersede") =>
         \A r \in memories : r.id = task[p].old => r.key = task[p].record.key

PlansInv == UniqueIds /\ FreshInv /\ PlansHold

(* Among any memories there is an oldest one. *)
LEMMA OldestExists ==
  ASSUME NEW found \in SUBSET Record, found # {}
  PROVE  \E r \in found : \A s \in found : r.created <= s.created
<1>. DEFINE T == {r.created : r \in found}
<1>1. T \subseteq Nat /\ T # {}
  BY TimeAssumption DEF Record, Times
<1>2. PICK least \in T : \A t \in T : ~ (<<t, least>> \in OpToRel(<, Nat))
  <2>. HIDE DEF T
  <2>. QED
    BY <1>1, WFMin, NatLessThanWellFounded, Zenon
<1>3. \A t \in T : least <= t
  <2>. SUFFICES ASSUME NEW t \in T PROVE least <= t
    OBVIOUS
  <2>1. t \in Nat /\ least \in Nat
    BY <1>1
  <2>2. ~ (<<t, least>> \in {ss \in Nat \X Nat : ss[1] < ss[2]})
    BY <1>2 DEF OpToRel
  <2>. QED
    BY <2>1, <2>2
<1>. QED
  BY <1>3

LEMMA NothingFound ==
  ASSUME TypeInv, NEW o, NEW key, FindActive(o, key) = {}
  PROVE  \A r \in memories : r.owner = o /\ r.key = key => r.status # "active"
<1>. DEFINE found == {r \in memories : r.owner = o /\ r.key = key /\ r.status = "active"}
<1>1. found \in SUBSET Record
  BY DEF TypeInv, TypeOK
<1>2. {r \in found : \A s \in found : r.created <= s.created} = {}
  BY DEF FindActive
<1>. HIDE DEF found
<1>3. found = {}
  BY <1>1, <1>2, OldestExists
<1>. QED
  BY <1>3 DEF found

(* Where the rows after a step come from.                                  *)
Kept(r) == \E s \in memories : Same(r, s) /\ (r.status = "active" => s.status = "active")

Stores(q) == Remembered(q) \/ SupersededOld(q)

LEMMA RememberedRow ==
  ASSUME NEW p \in Processes, Remembered(p)
  PROVE  /\ Storing(p)
         /\ memories' = memories \cup {task[p].record}
         /\ audit' = Append(audit, Event(task[p].record, task[p].record.owner, "create",
                                         task[p].record.created, Null, Null,
                                         task[p].record.status))
BY DEF Remembered, Create, Storing

Replaces(p, cur, old, new, e, f) ==
  /\ cur.status = "active" /\ cur.id = task[p].old /\ cur.owner = task[p].record.owner
  /\ old.id = cur.id /\ old.owner = cur.owner /\ old.key = cur.key
  /\ old.status = "superseded"
  /\ new.id = task[p].record.id /\ new.owner = task[p].record.owner
  /\ new.key = task[p].record.key /\ new.content = task[p].record.content
  /\ new.status = "active"
  /\ memories' = ((memories \ {cur}) \cup {old}) \cup {new}
  /\ e.memory = cur.id /\ f.memory = new.id /\ f.action = "create"
  /\ audit' = audit \o <<e, f>>

LEMMA SupersededRow ==
  ASSUME TypeInv, UniqueIds, NEW p \in Processes, SupersededOld(p)
  PROVE  /\ Storing(p)
         /\ \E cur \in memories, old \in Record, new \in Record,
               e \in AuditEvent, f \in AuditEvent : Replaces(p, cur, old, new, e, f)
<1>1. PICK cur \in Row(task[p].owner, task[p].old) :
        Supersede(cur, task[p].record, task[p].at, task[p].reason)
  BY DEF SupersededOld
<1>. DEFINE old == SupersededMemory(cur, task[p].record, task[p].at)
            new == LinkedReplacement(cur, task[p].record, task[p].at)
            e == Event(cur, cur.owner, "supersede", task[p].at, task[p].reason,
                       cur.status, "superseded")
            f == Event(new, cur.owner, "create", task[p].at, Null, Null, "active")
<1>2. /\ cur \in memories /\ cur \in Record /\ cur.id = task[p].old
      /\ task[p].record \in Record /\ task[p].at \in Times
      /\ task[p].reason \in Keys \cup {Null}
  BY JobTypes DEF Row, TypeInv, TypeOK, SupersededOld, Running
<1>3. /\ old \in Record /\ old.id = cur.id /\ old.owner = cur.owner /\ old.key = cur.key
      /\ old.status = "superseded"
      /\ new \in Record /\ new.id = task[p].record.id
      /\ new.owner = task[p].record.owner /\ new.key = task[p].record.key
      /\ new.content = task[p].record.content /\ new.status = task[p].record.status
  BY <1>2, LinkedTypes, ZenonT(60)
<1>4. e \in AuditEvent /\ e.memory = cur.id
  BY <1>2, EventType DEF Record, RowStatus, MemoryStatus, AuditAction, Event
<1>5. f \in AuditEvent /\ f.memory = new.id /\ f.action = "create"
  BY <1>2, <1>3, EventType DEF Record, RowStatus, MemoryStatus, AuditAction, Event
<1>6. UpdateRow(memories, old) = (memories \ {cur}) \cup {old}
  BY <1>2, <1>3, UpdateHitsOne
<1>7. /\ memories' = UpdateRow(memories, old) \cup {new}
      /\ audit' = audit \o <<e, f>>
      /\ cur.owner = task[p].record.owner /\ task[p].record.status = "active"
      /\ cur.status = "active"
  BY <1>1 DEF Supersede, CanTransition, AllowedSources
<1>8. Storing(p)
  BY DEF Storing, SupersededOld
<1>. HIDE DEF old, new, e, f
<1>. QED
  BY <1>2, <1>3, <1>4, <1>5, <1>6, <1>7, <1>8 DEF Replaces

LEMMA OnlyStoringAdds ==
  ASSUME TypeInv, UniqueIds, NEW q \in Processes, Step(q), ~ Stores(q)
  PROVE  \A r \in memories' : Kept(r)
<1>1. CASE RewritesRow
  <2>1. PICK cur \in memories, r \in Record :
          Rewrites(cur, r) /\ memories' = UpdateRow(memories, r)
    BY <1>1 DEF RewritesRow, PersistUpdate
  <2>2. memories' = (memories \ {cur}) \cup {r}
    BY <2>1, UpdateHitsOne DEF Rewrites
  <2>. QED
    BY <2>1, <2>2 DEF Kept, Same, Rewrites
<1>. QED
  BY <1>1, StepShape DEF DeletesRow, HardDelete, DeleteRow, repoVars, Kept, Same, Stores

JustCreated(id) ==
  \E i \in Len(audit) + 1 .. Len(audit') : audit'[i].memory = id /\ audit'[i].action = "create"

LEMMA RowsAfter ==
  ASSUME TypeInv, UniqueIds, NEW q \in Processes, Step(q)
  PROVE  \A r \in memories' :
           Kept(r) \/ (Stores(q) /\ r.id = task[q].record.id /\ JustCreated(r.id))
<1>1. Len(audit) \in Nat /\ audit \in Seq(AuditEvent)
  BY DEF TypeInv, TypeOK
<1>2. CASE Remembered(q)
  <2>. DEFINE record == task[q].record
              e == Event(record, record.owner, "create", record.created, Null, Null, record.status)
  <2>1. e \in AuditEvent /\ e.memory = record.id /\ e.action = "create"
    <3>1. record \in Record
      BY <1>2, JobTypes DEF Remembered, Running
    <3>. HIDE DEF record
    <3>. QED
      BY <3>1, EventType DEF Record, AuditAction, MemoryStatus, Event
  <2>2. memories' = memories \cup {record} /\ audit' = Append(audit, e)
    BY <1>2, RememberedRow
  <2>. HIDE DEF record, e
  <2>3. Len(audit') = Len(audit) + 1 /\ audit'[Len(audit) + 1] = e
    BY <1>1, <2>1, <2>2
  <2>4. JustCreated(record.id)
    BY <1>1, <2>1, <2>3 DEF JustCreated, record
  <2>. QED
    BY <1>2, <2>2, <2>4 DEF Kept, Same, Stores, record
<1>3. CASE SupersededOld(q)
  <2>1. PICK cur \in memories, old \in Record, new \in Record,
             e \in AuditEvent, f \in AuditEvent : Replaces(q, cur, old, new, e, f)
    BY <1>3, SupersededRow
  <2>2. Len(audit') = Len(audit) + 2 /\ audit'[Len(audit) + 2] = f
    BY <1>1, <2>1 DEF Replaces
  <2>3. f.memory = new.id /\ f.action = "create" /\ new.id = task[q].record.id
    BY <2>1 DEF Replaces
  <2>4. JustCreated(new.id)
    <3>1. Len(audit) + 2 \in Len(audit) + 1 .. Len(audit')
      BY <1>1, <2>2
    <3>. QED
      BY <2>2, <2>3, <3>1 DEF JustCreated
  <2>5. /\ cur.status = "active" /\ Same(old, cur)
        /\ memories' = ((memories \ {cur}) \cup {old}) \cup {new}
    BY <2>1 DEF Replaces, Same
  <2>. QED
    BY <1>3, <2>3, <2>4, <2>5 DEF Kept, Same, Stores
<1>. QED
  BY <1>2, <1>3, OnlyStoringAdds DEF Stores

(* What is on record, and who adds to it.                                  *)
LEMMA OneMoreSeen ==
  ASSUME audit \in Seq(AuditEvent), NEW e \in AuditEvent, audit' = Append(audit, e)
  PROVE  Seen' = Seen \cup {e.memory}
<1>1. /\ DOMAIN audit' = DOMAIN audit \cup {Len(audit) + 1}
      /\ audit'[Len(audit) + 1] = e
      /\ \A i \in DOMAIN audit : audit'[i] = audit[i]
  OBVIOUS
<1>. QED
  BY <1>1 DEF Seen

LEMMA SeenAfter ==
  ASSUME TypeInv, UniqueIds, FreshInv, NEW q \in Processes, Step(q)
  PROVE  /\ Seen \subseteq Seen'
         /\ Seen' \subseteq Seen \cup (IF Stores(q) THEN {task[q].record.id} ELSE {})
         /\ Stores(q) => task[q].record.id \in Seen'
<1>1. audit \in Seq(AuditEvent) /\ memories \subseteq Record
  BY DEF TypeInv, TypeOK
<1>2. CASE RewritesRow /\ ~ Stores(q)
  <2>1. PICK cur \in memories, r \in Record, action \in AuditAction, at \in Times,
             reason \in Keys \cup {Null} :
          PersistUpdate(cur, r, action, at, reason)
    BY <1>2 DEF RewritesRow
  <2>. DEFINE e == Event(cur, cur.owner, action, at, reason, cur.status, r.status)
  <2>2. e \in AuditEvent /\ e.memory = cur.id
    BY <1>1, EventType DEF Record, MemoryStatus, Event
  <2>3. audit' = Append(audit, e) /\ cur.id \in Seen
    BY <2>1 DEF PersistUpdate, FreshInv
  <2>. QED
    BY <1>1, <1>2, <2>2, <2>3, OneMoreSeen
<1>3. CASE DeletesRow /\ ~ Stores(q)
  <2>1. PICK cur \in memories, at \in Times : HardDelete(cur, at)
    BY <1>3 DEF DeletesRow
  <2>. DEFINE e == Event(cur, cur.owner, "hard_delete", at, Null, cur.status, "deleted")
  <2>2. e \in AuditEvent /\ e.memory = cur.id
    BY <1>1, EventType DEF Record, MemoryStatus, AuditAction, Event
  <2>3. audit' = Append(audit, e) /\ cur.id \in Seen
    BY <2>1 DEF HardDelete, FreshInv
  <2>. QED
    BY <1>1, <1>3, <2>2, <2>3, OneMoreSeen
<1>4. CASE Remembered(q)
  <2>. DEFINE record == task[q].record
              e == Event(record, record.owner, "create", record.created, Null, Null, record.status)
  <2>1. e \in AuditEvent /\ e.memory = record.id
    <3>1. record \in Record
      BY <1>4, JobTypes DEF Remembered, Running
    <3>. HIDE DEF record
    <3>. QED
      BY <3>1, EventType DEF Record, AuditAction, MemoryStatus, Event
  <2>2. audit' = Append(audit, e)
    BY <1>4, RememberedRow
  <2>. QED
    BY <1>1, <1>4, <2>1, <2>2, OneMoreSeen DEF Stores
<1>5. CASE SupersededOld(q)
  <2>1. PICK cur \in memories, old \in Record, new \in Record,
             e \in AuditEvent, f \in AuditEvent : Replaces(q, cur, old, new, e, f)
    BY <1>5, SupersededRow
  <2>2. /\ DOMAIN audit' = DOMAIN audit \cup {Len(audit) + 1, Len(audit) + 2}
        /\ audit'[Len(audit) + 1] = e /\ audit'[Len(audit) + 2] = f
        /\ \A i \in DOMAIN audit : audit'[i] = audit[i]
    BY <1>1, <2>1 DEF Replaces
  <2>3. Seen' = Seen \cup {e.memory, f.memory}
    BY <2>2 DEF Seen
  <2>4. cur.id \in Seen
    BY DEF FreshInv
  <2>. QED
    BY <1>5, <2>1, <2>3, <2>4 DEF Stores, Replaces
<1>6. CASE UNCHANGED repoVars /\ ~ Stores(q)
  <2>1. Seen' = Seen
    BY <1>6 DEF repoVars, Seen
  <2>. QED
    BY <1>6, <2>1
<1>. QED
  BY <1>2, <1>3, <1>4, <1>5, <1>6, StepShape DEF Stores

LEMMA OnlyPlansStore ==
  ASSUME TypeInv, NEW p \in Processes, NEW q \in Processes, Step(q), Storing(p)'
  PROVE  \/ task'[p] = task[p] /\ Storing(p) /\ ~ (q = p /\ Stores(q))
         \/ q = p /\ (PlanRemember(p) \/ PlanCorrect(p))
<1>1. ASSUME NEW t, Becomes(q, t)
      PROVE  task'[p] = IF p = q THEN t ELSE task[p]
  BY <1>1 DEF Becomes, TypeInv
<1>2. task'[p] = task[p] => Storing(p)
  BY DEF Storing, Running, Idle
<1>3. CASE q # p
  <2>1. ASSUME NEW t, Becomes(q, t) PROVE task'[p] = task[p]
    BY <1>1, <1>3, <2>1
  <2>2. task'[p] = task[p]
    BY <2>1
    DEF Step, PlanRemember, PlanForget, PlanCorrect, Remembered, SupersededOld, Forgotten,
        UserCall, StartDeleteAll, DeleteNext, DeleteAllDone, StartFade, FadeOwner,
        FadeMemory, FadeDone, Abandon, Plan
  <2>. QED
    BY <1>2, <1>3, <2>2
<1>4. CASE q = p
  <2>1. ~ Becomes(p, Null)
    BY <1>1, <1>4 DEF Storing, Running, Idle
  <2>2. ~ (StartFade(p) \/ FadeOwner(p) \/ FadeMemory(p) \/ StartDeleteAll(p) \/ DeleteNext(p))
    BY LongJobSteps DEF Storing, Running
  <2>3. ~ PlanForget(p)
    <3>1. PlanForget(p) => task'[p].job = "forget"
      BY <1>1, <1>4 DEF PlanForget, Plan
    <3>. QED
      BY <3>1 DEF Storing, Running
  <2>4. UserCall(p) \/ PlanRemember(p) \/ PlanCorrect(p)
    BY <1>4, <2>1, <2>2, <2>3
    DEF Step, Remembered, SupersededOld, Forgotten, DeleteAllDone, FadeDone, Abandon
  <2>5. ~ Stores(q)
    BY <1>4, <2>1 DEF Stores, Remembered, SupersededOld
  <2>. QED
    BY <1>2, <1>4, <2>4, <2>5 DEF UserCall
<1>. QED
  BY <1>3, <1>4

(* What a new plan rests on.                                               *)
PlannedRight(p) ==
  /\ task'[p].record.id \in FreshIds
  /\ Running(p, "remember")' =>
       /\ task'[p].since = Len(audit)
       /\ \A r \in memories : ~ InTheWay(task'[p].record, r)
  /\ Running(p, "supersede")' =>
       /\ task'[p].old \in Seen
       /\ \A r \in memories : r.id = task'[p].old => r.key = task'[p].record.key

LEMMA PlanSound ==
  ASSUME TypeInv, UniqueIds, FreshInv, NEW p \in Processes,
         PlanRemember(p) \/ PlanCorrect(p)
  PROVE  /\ memories' = memories /\ audit' = audit
         /\ \A q \in Processes \ {p} : task'[q] = task[q]
         /\ PlannedRight(p)
<1>1. ASSUME NEW t, Plan(p, t)
      PROVE  /\ task'[p] = t /\ memories' = memories /\ audit' = audit
             /\ \A q \in Processes \ {p} : task'[q] = task[q]
  BY <1>1 DEF Plan, Becomes, TypeInv, repoVars
<1>2. memories \subseteq Record
  BY DEF TypeInv, TypeOK
<1>3. CASE PlanRemember(p)
  <2>1. PICK o \in Owners, key \in Keys, content \in Contents, id \in FreshIds :
          LET record == MakeMemory(id, o, key, content, "durable", Null, Null, now)
          IN  \/ /\ FindActive(o, key) = {}
                 /\ Plan(p, [job |-> "remember", owner |-> o, at |-> now, since |-> Len(audit),
                             record |-> record])
              \/ \E old \in FindActive(o, key) :
                   Plan(p, [job |-> "supersede", owner |-> o, at |-> now, record |-> record,
                            old |-> old.id, reason |-> key])
    BY <1>3 DEF PlanRemember
  <2>. DEFINE record == MakeMemory(id, o, key, content, "durable", Null, Null, now)
  <2>2. record.owner = o /\ record.key = key /\ record.id = id
    BY DEF MakeMemory
  <2>. HIDE DEF record
  <2>3. CASE /\ FindActive(o, key) = {}
             /\ Plan(p, [job |-> "remember", owner |-> o, at |-> now, since |-> Len(audit),
                         record |-> record])
    <3>1. /\ task'[p].job = "remember" /\ task'[p].record = record
          /\ task'[p].since = Len(audit)
      BY <1>1, <2>3
    <3>2. \A r \in memories : ~ InTheWay(record, r)
      BY <2>2, <2>3, NothingFound DEF InTheWay
    <3>. QED
      BY <1>1, <2>2, <2>3, <3>1, <3>2 DEF Running, PlannedRight
  <2>4. ASSUME NEW old \in FindActive(o, key),
               Plan(p, [job |-> "supersede", owner |-> o, at |-> now, record |-> record,
                        old |-> old.id, reason |-> key])
        PROVE  PlannedRight(p)
    <3>1. /\ task'[p].job = "supersede" /\ task'[p].record = record
          /\ task'[p].old = old.id
      BY <1>1, <2>4
    <3>2. old \in memories /\ old.key = key /\ old.id \in Seen
      BY DEF FindActive, FreshInv
    <3>. QED
      BY <2>2, <3>1, <3>2 DEF UniqueIds, Running, PlannedRight
  <2>. QED
    BY <1>1, <2>1, <2>3, <2>4 DEF record
<1>4. CASE PlanCorrect(p)
  <2>1. PICK current \in memories, content \in Contents, id \in FreshIds :
          LET record == Replacement(id, current, content, now)
          IN  Plan(p, [job |-> "supersede", owner |-> current.owner, at |-> now,
                       record |-> record, old |-> current.id, reason |-> Null])
    BY <1>4 DEF PlanCorrect
  <2>. DEFINE record == Replacement(id, current, content, now)
  <2>2. record.key = current.key /\ record.id = id /\ current.id \in Seen
    BY DEF Replacement, MakeMemory, FreshInv
  <2>3. Plan(p, [job |-> "supersede", owner |-> current.owner, at |-> now,
                 record |-> record, old |-> current.id, reason |-> Null])
    BY <2>1
  <2>. HIDE DEF record
  <2>4. /\ task'[p].job = "supersede" /\ task'[p].record = record
        /\ task'[p].old = current.id
    BY <1>1, <2>3
  <2>. QED
    BY <1>1, <2>2, <2>3, <2>4 DEF UniqueIds, Running, PlannedRight
<1>. QED
  BY <1>3, <1>4

LEMMA FreshStep ==
  ASSUME TypeInv, UniqueIds, FreshInv, NEW q \in Processes, Step(q)
  PROVE  FreshInv'
<1>1. \A r \in memories' : r.id \in Seen'
  BY RowsAfter, SeenAfter DEF Kept, Same, FreshInv
<1>2. Stores(q) => Storing(q)
  BY DEF Stores, Storing, Remembered, SupersededOld
<1>3. ASSUME NEW p \in Processes, Storing(p)', ~ (q = p /\ (PlanRemember(p) \/ PlanCorrect(p)))
      PROVE  task'[p] = task[p] /\ Storing(p) /\ task[p].record.id \notin Seen'
  <2>1. task'[p] = task[p] /\ Storing(p) /\ ~ (q = p /\ Stores(q))
    BY <1>3, OnlyPlansStore
  <2>. QED
    BY <1>2, <2>1, SeenAfter DEF FreshInv
<1>4. ASSUME NEW p \in Processes, Storing(p)', q = p /\ (PlanRemember(p) \/ PlanCorrect(p))
      PROVE  /\ task'[p].record.id \notin Seen'
             /\ \A x \in Processes \ {p} : Storing(x)' => task'[x].record.id # task'[p].record.id
  <2>1. /\ task'[p].record.id \in FreshIds /\ Seen' = Seen
        /\ \A x \in Processes \ {p} : task'[x] = task[x]
    BY <1>4, PlanSound DEF PlannedRight, Seen
  <2>2. \A x \in Processes \ {p} : Storing(x)' => Storing(x)
    BY <2>1 DEF Storing, Running, Idle
  <2>3. task'[p].record.id \notin Seen
    BY <2>1 DEF FreshIds, Seen
  <2>4. \A x \in Processes : Storing(x) => task[x].record.id # task'[p].record.id
    BY <2>1 DEF FreshIds, Storing, Running
  <2>. QED
    BY <2>1, <2>2, <2>3, <2>4
<1>5. \A p \in Processes : Storing(p)' => task'[p].record.id \notin Seen'
  BY <1>3, <1>4
<1>6. \A p, x \in Processes :
        Storing(p)' /\ Storing(x)' /\ p # x => task'[p].record.id # task'[x].record.id
  BY <1>3, <1>4 DEF FreshInv
<1>7. ASSUME NEW p \in Processes, Running(p, "supersede")'
      PROVE  task'[p].old \in Seen'
  <2>1. Storing(p)'
    BY <1>7 DEF Storing
  <2>2. CASE q = p /\ (PlanRemember(p) \/ PlanCorrect(p))
    BY <1>7, <2>2, PlanSound, SeenAfter DEF PlannedRight
  <2>3. CASE task'[p] = task[p]
    BY <1>7, <2>3, SeenAfter DEF FreshInv, Running, Idle
  <2>. QED
    BY <2>1, <2>2, <2>3, OnlyPlansStore
<1>. QED
  BY <1>1, <1>5, <1>6, <1>7 DEF FreshInv

LEMMA CreationKept ==
  ASSUME TypeInv, WrittenRowsAudited, NEW n \in 0 .. Len(audit), NEW id
  PROVE  /\ n <= Len(audit')
         /\ JustCreated(id) => CreatedSince(n, id)'
         /\ CreatedSince(n, id) => CreatedSince(n, id)'
<1>1. Len(audit) \in Nat /\ Len(audit') \in Nat /\ Len(audit) <= Len(audit')
  BY DEF TypeInv, TypeOK, WrittenRowsAudited
<1>2. ASSUME JustCreated(id) PROVE CreatedSince(n, id)'
  BY <1>1, <1>2 DEF JustCreated, CreatedSince
<1>3. ASSUME CreatedSince(n, id) PROVE CreatedSince(n, id)'
  <2>1. PICK i \in n + 1 .. Len(audit) : audit[i].memory = id /\ audit[i].action = "create"
    BY <1>3 DEF CreatedSince
  <2>2. i \in n + 1 .. Len(audit') /\ audit'[i] = audit[i]
    BY <1>1 DEF WrittenRowsAudited
  <2>. QED
    BY <2>1, <2>2 DEF CreatedSince
<1>. QED
  BY <1>1, <1>2, <1>3

LEMMA PlansStep ==
  ASSUME TypeInv, UniqueIds, FreshInv, PlansHold, NEW q \in Processes, Step(q)
  PROVE  PlansHold'
<1>. SUFFICES ASSUME NEW p \in Processes, Storing(p)'
              PROVE  /\ Running(p, "remember")' =>
                          /\ task'[p].since \in 0 .. Len(audit')
                          /\ \A r \in memories' :
                               InTheWay(task'[p].record, r) =>
                                 \E i \in task'[p].since + 1 .. Len(audit') :
                                   audit'[i].memory = r.id /\ audit'[i].action = "create"
                     /\ Running(p, "supersede")' =>
                          \A r \in memories' : r.id = task'[p].old => r.key = task'[p].record.key
  BY DEF PlansHold, CreatedSince, Storing, InTheWay
<1>1. CASE q = p /\ (PlanRemember(p) \/ PlanCorrect(p))
  <2>1. Len(audit) \in Nat
    BY DEF TypeInv, TypeOK
  <2>. QED
    BY <1>1, <2>1, PlanSound DEF PlannedRight
<1>2. CASE task'[p] = task[p] /\ Storing(p) /\ ~ (q = p /\ Stores(q))
  <2>1. /\ Running(p, "remember")' <=> Running(p, "remember")
        /\ Running(p, "supersede")' <=> Running(p, "supersede")
    BY <1>2 DEF Running, Idle
  <2>2. ASSUME Running(p, "remember")
        PROVE  /\ task[p].since \in 0 .. Len(audit')
               /\ \A r \in memories' :
                    InTheWay(task[p].record, r) =>
                      \E i \in task[p].since + 1 .. Len(audit') :
                        audit'[i].memory = r.id /\ audit'[i].action = "create"
    <3>1. PICK n \in 0 .. Len(audit) : n = task[p].since
      BY <2>2 DEF PlansHold
    <3>2. /\ Len(audit) \in Nat /\ Len(audit') \in Nat
          /\ WrittenRowsAudited
      BY StepAudited DEF TypeInv, TypeOK, WrittenRowsAudited
    <3>3. ASSUME NEW r \in memories', InTheWay(task[p].record, r)
          PROVE  CreatedSince(n, r.id)'
      <4>1. CASE JustCreated(r.id)
        BY <3>2, <4>1, CreationKept
      <4>2. CASE Kept(r)
        <5>1. PICK s \in memories : Same(r, s) /\ InTheWay(task[p].record, s)
          BY <3>3, <4>2 DEF Kept, Same, InTheWay
        <5>2. CreatedSince(n, r.id)
          BY <2>2, <3>1, <5>1 DEF PlansHold, Same
        <5>. QED
          BY <3>2, <5>2, CreationKept
      <4>. QED
        BY <4>1, <4>2, RowsAfter
    <3>4. n <= Len(audit')
      BY <3>2, CreationKept
    <3>. QED
      BY <3>1, <3>2, <3>3, <3>4 DEF CreatedSince
  <2>3. ASSUME Running(p, "supersede"), NEW r \in memories', r.id = task[p].old
        PROVE  r.key = task[p].record.key
    <3>1. Stores(q) => Storing(q) /\ q # p
      BY <1>2 DEF Stores, Storing, Remembered, SupersededOld
    <3>2. ~ (Stores(q) /\ r.id = task[q].record.id)
      BY <2>3, <3>1 DEF FreshInv
    <3>3. PICK s \in memories : Same(r, s)
      BY <3>2, RowsAfter DEF Kept
    <3>. QED
      BY <2>3, <3>3 DEF PlansHold, Same
  <2>. QED
    BY <1>2, <2>1, <2>2, <2>3
<1>. QED
  BY <1>1, <1>2, OnlyPlansStore

LEMMA PlansInvariance == Spec => []PlansInv
<1>1. Init => FreshInv /\ PlansHold
  BY DEF Init, FreshInv, PlansHold, Storing, Running, Idle
<1>2. TypeInv /\ UniqueIds /\ FreshInv /\ PlansHold /\ [Next]_vars => FreshInv' /\ PlansHold'
  <2>. SUFFICES ASSUME TypeInv, UniqueIds, FreshInv, PlansHold, [Next]_vars
                PROVE  FreshInv' /\ PlansHold'
    OBVIOUS
  <2>1. CASE Tick \/ UNCHANGED vars
    <3>1. memories' = memories /\ audit' = audit /\ task' = task
      BY <2>1 DEF Tick, vars, repoVars
    <3>2. FreshInv'
      BY <3>1 DEF FreshInv, Seen, Storing, Running, Idle
    <3>3. PlansHold'
      BY <3>1 DEF PlansHold, InTheWay, CreatedSince, Running, Idle
    <3>. QED
      BY <3>2, <3>3
  <2>. QED
    BY <2>1, FreshStep, PlansStep DEF Next
<1>. QED
  BY <1>1, <1>2, TypeInvariance, IdsInvariance, PTL DEF Spec, PlansInv
-----------------------------------------------------------------------------
(* The refinement of the notebook.                                         *)

Known == {FactOf(r) : r \in {s \in memories : s.status = "active"}}

LEMMA FactsKnown == Facts = Known
BY DEF Facts, Known, FactOf

NotebookStep == [AsNotebook!Next]_Facts

LEMMA FactsOn ==
  ASSUME NEW o, NEW key
  PROVE  AsNotebook!On(o, key) =
           {FactOf(r) : r \in {s \in memories : s.status = "active" /\ s.owner = o /\ s.key = key}}
BY FactsKnown DEF AsNotebook!On, Known, FactOf

LEMMA FactOnKey ==
  ASSUME OneActivePerKey, NEW cur \in memories, cur.status = "active"
  PROVE  AsNotebook!On(cur.owner, cur.key) = {FactOf(cur)}
<1>1. {s \in memories : s.status = "active" /\ s.owner = cur.owner /\ s.key = cur.key} = {cur}
  BY DEF OneActivePerKey
<1>. QED
  BY <1>1, FactsOn

(* A row that goes out of use takes its fact along.                        *)
LEMMA FactDropped ==
  ASSUME TypeInv, OneActivePerKey, NEW cur \in memories, cur.status = "active",
         \A r \in memories' : r.status = "active" => r \in memories \ {cur},
         memories \ {cur} \subseteq memories'
  PROVE  NotebookStep
<1>1. Facts' = {FactOf(r) : r \in {s \in memories' : s.status = "active"}}
  BY DEF Facts, FactOf
<1>2. {s \in memories' : s.status = "active"} = {s \in memories : s.status = "active"} \ {cur}
  OBVIOUS
<1>3. \A s \in memories : s.status = "active" /\ s # cur => FactOf(s) # FactOf(cur)
  BY DEF OneActivePerKey, FactOf
<1>4. Facts' = Facts \ {FactOf(cur)}
  BY <1>1, <1>2, <1>3, FactsKnown DEF Known
<1>5. cur.owner \in Owners /\ cur.key \in Keys
  BY DEF TypeInv, TypeOK, Record
<1>6. AsNotebook!Drop(cur.owner, cur.key)
  BY <1>4, FactOnKey DEF AsNotebook!Drop
<1>. QED
  BY <1>5, <1>6 DEF NotebookStep, AsNotebook!Next

LEMMA NotebookRewrite ==
  ASSUME TypeInv, UniqueIds, OneActivePerKey, RewritesRow
  PROVE  NotebookStep
<1>1. PICK cur \in memories, r \in Record :
        Rewrites(cur, r) /\ memories' = UpdateRow(memories, r)
  BY DEF RewritesRow, PersistUpdate
<1>2. memories' = (memories \ {cur}) \cup {r}
  BY <1>1, UpdateHitsOne DEF Rewrites
<1>3. CASE r.status = "active"
  <2>1. FactOf(r) = FactOf(cur) /\ cur.status = "active"
    BY <1>1, <1>3 DEF Rewrites, FactOf
  <2>2. Facts' = {FactOf(s) : s \in {x \in memories' : x.status = "active"}}
    BY DEF Facts, FactOf
  <2>3. Facts' = Facts
    BY <1>2, <1>3, <2>1, <2>2, FactsKnown DEF Known
  <2>. QED
    BY <2>3 DEF NotebookStep
<1>4. CASE r.status # "active" /\ cur.status = "active"
  BY <1>2, <1>4, FactDropped
<1>5. CASE r.status # "active" /\ cur.status # "active"
  <2>1. {s \in memories' : s.status = "active"} = {s \in memories : s.status = "active"}
    BY <1>2, <1>5
  <2>. QED
    BY <2>1 DEF NotebookStep, Facts
<1>. QED
  BY <1>3, <1>4, <1>5

LEMMA NotebookDelete ==
  ASSUME TypeInv, UniqueIds, OneActivePerKey, DeletesRow
  PROVE  NotebookStep
<1>1. PICK cur \in memories : memories' = DeleteRow(memories, cur.owner, cur.id)
  BY DEF DeletesRow, HardDelete
<1>2. memories' = memories \ {cur}
  BY <1>1 DEF DeleteRow, UniqueIds
<1>3. CASE cur.status = "active"
  BY <1>2, <1>3, FactDropped
<1>4. CASE cur.status # "active"
  <2>1. {s \in memories' : s.status = "active"} = {s \in memories : s.status = "active"}
    BY <1>2, <1>4
  <2>. QED
    BY <2>1 DEF NotebookStep, Facts
<1>. QED
  BY <1>3, <1>4

LEMMA ShrinkingKeeps ==
  ASSUME OneActivePerKey, UniqueIds', \A r \in memories' : Kept(r)
  PROVE  OneActivePerKey'
<1>. SUFFICES ASSUME NEW r \in memories', NEW s \in memories',
                     r.status = "active", s.status = "active", r.owner = s.owner, r.key = s.key
              PROVE  r = s
  BY DEF OneActivePerKey
<1>1. PICK x \in memories : Same(r, x) /\ x.status = "active"
  BY DEF Kept
<1>2. PICK y \in memories : Same(s, y) /\ y.status = "active"
  BY DEF Kept
<1>3. x = y
  BY <1>1, <1>2 DEF OneActivePerKey, Same
<1>. QED
  BY <1>1, <1>2, <1>3 DEF Same, UniqueIds

LEMMA RememberLearns ==
  ASSUME TypeInv, PlansHold, OneActivePerKey, NEW p \in Processes, Remembered(p), ~ Raced(p)
  PROVE  OneActivePerKey' /\ NotebookStep
<1>. DEFINE r == task[p].record
<1>1. r \in Record
  BY JobTypes DEF Remembered, Running
<1>2. /\ memories' = memories \cup {r}
      /\ \A s \in memories : s.owner = r.owner /\ s.key = r.key => s.status # "active"
  BY RememberedRow DEF PlansHold, InTheWay, Raced, Remembered
<1>3. OneActivePerKey'
  BY <1>2 DEF OneActivePerKey
<1>4. Facts' = {FactOf(s) : s \in {x \in memories' : x.status = "active"}}
  BY DEF Facts, FactOf
<1>5. CASE r.status = "active"
  <2>. HIDE DEF r
  <2>1. Facts' = Facts \cup {FactOf(r)}
    BY <1>2, <1>4, <1>5, FactsKnown DEF Known
  <2>2. AsNotebook!On(r.owner, r.key) = {}
    BY <1>2, FactsOn
  <2>3. AsNotebook!Learn(r.owner, r.key, r.content)
    BY <2>1, <2>2 DEF AsNotebook!Learn, FactOf
  <2>. QED
    BY <1>1, <1>3, <2>3 DEF NotebookStep, AsNotebook!Next, Record
<1>6. CASE r.status # "active"
  <2>1. {s \in memories' : s.status = "active"} = {s \in memories : s.status = "active"}
    BY <1>2, <1>6
  <2>. QED
    BY <1>3, <2>1 DEF NotebookStep, Facts
<1>. QED
  BY <1>5, <1>6

LEMMA SupersedeLearns ==
  ASSUME TypeInv, PlansInv, OneActivePerKey, NEW p \in Processes, SupersededOld(p)
  PROVE  OneActivePerKey' /\ NotebookStep
<1>1. PICK cur \in memories, old \in Record, new \in Record,
           e \in AuditEvent, f \in AuditEvent : Replaces(p, cur, old, new, e, f)
  BY SupersededRow DEF PlansInv
<1>2. cur.key = task[p].record.key
  BY <1>1 DEF PlansInv, PlansHold, SupersededOld, Replaces
<1>3. /\ cur.status = "active" /\ old.status = "superseded"
      /\ new.owner = cur.owner /\ new.key = cur.key /\ new.status = "active"
      /\ memories' = ((memories \ {cur}) \cup {old}) \cup {new}
  BY <1>1, <1>2 DEF Replaces
<1>4. OneActivePerKey'
  BY <1>3 DEF OneActivePerKey
<1>5. Facts' = {FactOf(s) : s \in {x \in memories' : x.status = "active"}}
  BY DEF Facts, FactOf
<1>6. \A s \in memories : s.status = "active" /\ s # cur => FactOf(s) # FactOf(cur)
  BY <1>3 DEF OneActivePerKey, FactOf
<1>7. {x \in memories' : x.status = "active"}
        = ({x \in memories : x.status = "active"} \ {cur}) \cup {new}
  BY <1>3
<1>8. Facts' = (Facts \ {FactOf(cur)}) \cup {FactOf(new)}
  BY <1>3, <1>5, <1>6, <1>7, FactsKnown DEF Known
<1>9. AsNotebook!On(new.owner, new.key) = {FactOf(cur)}
  BY <1>3, FactOnKey
<1>10. AsNotebook!Learn(new.owner, new.key, new.content)
  BY <1>8, <1>9 DEF AsNotebook!Learn, FactOf
<1>. QED
  BY <1>4, <1>10 DEF NotebookStep, AsNotebook!Next, Record

LEMMA StepOfNotebook ==
  ASSUME TypeInv, PlansInv, UniqueIds', OneActivePerKey, NEW p \in Processes, Step(p)
  PROVE  (OneActivePerKey' /\ NotebookStep) \/ Raced(p)
<1>1. CASE Stores(p)
  BY <1>1, RememberLearns, SupersedeLearns DEF Stores, PlansInv
<1>2. CASE ~ Stores(p)
  <2>1. OneActivePerKey'
    BY <1>2, OnlyStoringAdds, ShrinkingKeeps DEF PlansInv
  <2>2. RewritesRow \/ DeletesRow \/ UNCHANGED repoVars
    BY <1>2, StepShape DEF Stores
  <2>3. UNCHANGED repoVars => NotebookStep
    BY DEF repoVars, Facts, NotebookStep
  <2>. QED
    BY <2>1, <2>2, <2>3, NotebookRewrite, NotebookDelete DEF PlansInv
<1>. QED
  BY <1>1, <1>2

NotebookOrRace ==
  OneActivePerKey =>
    \/ OneActivePerKey' /\ NotebookStep
    \/ \E p \in Processes : Raced(p)

LEMMA NextOfNotebook ==
  TypeInv /\ PlansInv /\ PlansInv' /\ [Next]_vars => NotebookOrRace
<1>. SUFFICES ASSUME TypeInv, PlansInv, PlansInv', [Next]_vars, OneActivePerKey
              PROVE  \/ OneActivePerKey' /\ NotebookStep
                     \/ \E p \in Processes : Raced(p)
  BY DEF NotebookOrRace
<1>1. CASE Tick \/ UNCHANGED vars
  BY <1>1 DEF Tick, vars, repoVars, Facts, NotebookStep, OneActivePerKey
<1>. QED
  BY <1>1, StepOfNotebook DEF Next, PlansInv

(* Any number of processes store facts, run passes, delete, and are cut    *)
(* short.  As long as no capture stores a fact on a key on which another   *)
(* one created a memory since the first had looked there, an owner has one *)
(* active memory per key and the assistant does nothing the notebook does  *)
(* not allow: what it learns replaces what it knew on that subject and     *)
(* nothing else.  That overlap is the only way out of it.                  *)
THEOREM KeepsNotebookUntilRace == Spec => NotebookUntilRace
<1>1. Init => AsNotebook!Init
  BY DEF Init, AsNotebook!Init, Facts
<1>2. AsNotebook!Init /\ [][NotebookOrRace]_vars => NotebookUntilRace
  BY DEF NotebookOrRace, NotebookUntilRace, NotebookStep
<1>3. Spec => [][NotebookOrRace]_vars
  BY TypeInvariance, PlansInvariance, NextOfNotebook, PTL DEF Spec
<1>. QED
  BY <1>1, <1>2, <1>3 DEF Spec
=============================================================================
