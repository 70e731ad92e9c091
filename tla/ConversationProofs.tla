-------------------------- MODULE ConversationProofs -------------------------
(***************************************************************************)
(* Theorems about Conversation: for any number of processes, any tables    *)
(* earlier sessions left, any budgets and limits of retrieval and any      *)
(* interleaving with the calls of other processes.                         *)
(***************************************************************************)
EXTENDS Conversation, AssistantProofs, ComposerProofs, FiniteSetTheorems

-----------------------------------------------------------------------------
(* The tables under a session. *)

(* What was written with the index is in it.                               *)
Searchable ==
  indexed =>
    \A r \in memories :
      r.status = "active" /\ r.id \notin Unindexed => <<r.id, r.content>> \in fts

TablesInv ==
  /\ TypeInv /\ UniqueIds
  /\ IsFiniteSet(memories) /\ IsFiniteSet(fts)
  /\ Searchable

LEMMA OneMore ==
  ASSUME NEW S, IsFiniteSet(S), NEW x, NEW T, T \subseteq S \cup {x}
  PROVE  IsFiniteSet(T)
<1>1. IsFiniteSet(S \cup {x})
  BY FS_AddElement
<1>2. T \in SUBSET (S \cup {x})
  OBVIOUS
<1>. QED
  BY <1>1, <1>2, FS_Subset

LEMMA TablesFinite ==
  ASSUME TableStep, IsFiniteSet(memories), IsFiniteSet(fts)
  PROVE  IsFiniteSet(memories') /\ IsFiniteSet(fts')
<1>1. CASE RewritesRow
  <2>1. PICK r \in Record : memories' = UpdateRow(memories, r) /\ fts' = IndexUpdated(fts, r)
    BY <1>1 DEF RewritesRow, PersistUpdate
  <2>2. memories' \subseteq memories \cup {r}
    BY <2>1 DEF UpdateRow
  <2>3. fts' \subseteq fts \cup {<<r.id, r.content>>}
    BY <2>1 DEF IndexUpdated, IndexInserted, Deindex
  <2>. QED
    BY <2>2, <2>3, OneMore
<1>2. CASE DeletesRow
  <2>1. memories' \in SUBSET memories /\ fts' \in SUBSET fts
    BY <1>2 DEF DeletesRow, HardDelete, DeleteRow, Deindex
  <2>. QED
    BY <2>1, FS_Subset
<1>3. ASSUME NEW r \in Record, CreatesRow(r)
      PROVE  IsFiniteSet(memories') /\ IsFiniteSet(fts')
  <2>1. memories' \subseteq memories \cup {r}
    BY <1>3 DEF CreatesRow, Create
  <2>2. fts' \subseteq fts \cup {<<r.id, r.content>>}
    BY <1>3 DEF CreatesRow, Create, IndexInserted
  <2>. QED
    BY <2>1, <2>2, OneMore
<1>4. ASSUME NEW cur \in memories, NEW r \in Record, SupersedesRow(cur, r)
      PROVE  IsFiniteSet(memories') /\ IsFiniteSet(fts')
  <2>1. PICK at1 \in Times, reason \in Keys \cup {Null} : Supersede(cur, r, at1, reason)
    BY <1>4 DEF SupersedesRow
  <2>. DEFINE old == SupersededMemory(cur, r, at1)
              new == LinkedReplacement(cur, r, at1)
  <2>2. /\ memories' = UpdateRow(memories, old) \cup {new}
        /\ fts' = IndexInserted(IndexUpdated(fts, old), {new})
    BY <2>1 DEF Supersede
  <2>. HIDE DEF old, new
  <2>3. IsFiniteSet(UpdateRow(memories, old)) /\ IsFiniteSet(IndexUpdated(fts, old))
    <3>1. UpdateRow(memories, old) \subseteq memories \cup {old}
      BY DEF UpdateRow
    <3>2. IndexUpdated(fts, old) \subseteq fts \cup {<<old.id, old.content>>}
      BY DEF IndexUpdated, IndexInserted, Deindex
    <3>. QED
      BY <3>1, <3>2, OneMore, ZenonT(60)
  <2>4. fts' \subseteq IndexUpdated(fts, old) \cup {<<new.id, new.content>>}
    BY <2>2 DEF IndexInserted
  <2>. QED
    BY <2>2, <2>3, <2>4, OneMore
<1>. QED
  BY <1>1, <1>2, <1>3, <1>4 DEF TableStep

LEMMA ConnectionKept ==
  ASSUME TableStep
  PROVE  indexed' = indexed /\ fts5' = fts5
<1>1. CASE RewritesRow
  BY <1>1 DEF RewritesRow, PersistUpdate, connection
<1>2. CASE DeletesRow
  BY <1>2 DEF DeletesRow, HardDelete, connection
<1>3. ASSUME NEW r \in Record, CreatesRow(r) PROVE UNCHANGED connection
  BY <1>3 DEF CreatesRow, Create
<1>4. ASSUME NEW cur \in memories, NEW r \in Record, SupersedesRow(cur, r)
      PROVE  UNCHANGED connection
  BY <1>4 DEF SupersedesRow, Supersede
<1>. QED
  BY <1>1, <1>2, <1>3, <1>4 DEF TableStep, connection

(* The index follows the table: an entry goes only with its row.           *)
LEMMA SearchableKept ==
  ASSUME TablesOK, UniqueIds, Searchable, TableStep
  PROVE  Searchable'
<1>1. indexed' = indexed
  BY ConnectionKept
<1>. SUFFICES ASSUME indexed, NEW x \in memories', x.status = "active", x.id \notin Unindexed
              PROVE  <<x.id, x.content>> \in fts'
  BY <1>1 DEF Searchable
<1>2. CASE RewritesRow
  <2>1. PICK cur \in memories, r \in Record :
          /\ r.id = cur.id /\ r.owner = cur.owner
          /\ memories' = UpdateRow(memories, r) /\ fts' = IndexUpdated(fts, r)
    BY <1>2 DEF RewritesRow, Rewrites, PersistUpdate
  <2>2. memories' = (memories \ {cur}) \cup {r}
    BY <2>1, UpdateHitsOne
  <2>3. x = r \/ (x \in memories /\ x.id # r.id)
    BY <2>1, <2>2 DEF UniqueIds
  <2>. QED
    BY <2>1, <2>3 DEF Searchable, IndexUpdated, IndexInserted, Deindex
<1>3. CASE DeletesRow
  <2>1. PICK cur \in memories :
          /\ memories' = DeleteRow(memories, cur.owner, cur.id)
          /\ fts' = Deindex(fts, cur.id)
    BY <1>3 DEF DeletesRow, HardDelete
  <2>2. x \in memories /\ x.id # cur.id
    BY <2>1 DEF DeleteRow, UniqueIds
  <2>. QED
    BY <2>1, <2>2 DEF Searchable, Deindex
<1>4. ASSUME NEW r \in Record, CreatesRow(r) PROVE <<x.id, x.content>> \in fts'
  BY <1>4 DEF CreatesRow, Create, IndexInserted, Searchable
<1>5. ASSUME NEW cur \in memories, NEW r \in Record, SupersedesRow(cur, r)
      PROVE  <<x.id, x.content>> \in fts'
  <2>1. PICK at1 \in Times, reason \in Keys \cup {Null} : Supersede(cur, r, at1, reason)
    BY <1>5 DEF SupersedesRow
  <2>. DEFINE old == SupersededMemory(cur, r, at1)
              new == LinkedReplacement(cur, r, at1)
  <2>2. old.id = cur.id /\ old.owner = cur.owner /\ old.status = "superseded"
    BY LinkedTypes DEF TablesOK
  <2>3. /\ memories' = UpdateRow(memories, old) \cup {new}
        /\ fts' = IndexInserted(IndexUpdated(fts, old), {new})
    BY <2>1 DEF Supersede
  <2>. HIDE DEF old, new
  <2>4. UpdateRow(memories, old) = (memories \ {cur}) \cup {old}
    BY <2>2, UpdateHitsOne
  <2>5. x = new \/ (x \in memories /\ x.id # old.id)
    BY <2>2, <2>3, <2>4 DEF UniqueIds
  <2>. QED
    BY <2>3, <2>5 DEF Searchable, IndexUpdated, IndexInserted, Deindex
<1>. QED
  BY <1>2, <1>3, <1>4, <1>5 DEF TableStep

-----------------------------------------------------------------------------
(* What a step of the session, or of others, does to the tables: nothing,  *)
(* or one repository call.                                                 *)

LEMMA CommandWrites ==
  ASSUME TypeInv, CommandApplies
  PROVE  TableStep
<1>1. now \in Times
  BY DEF TypeInv, TypeOK
<1>2. PICK r \in memories : Forget(r, now, Null) \/ Archive(r, now) \/ Reinforce(r, now)
  BY DEF CommandApplies
<1>. QED
  BY <1>1, <1>2, TransitionShape, ReinforceShape DEF TableStep

LEMMA OthersWrite ==
  ASSUME TypeInv, Others
  PROVE  TableStep
<1>1. now \in Times
  BY DEF TypeInv, TypeOK
<1>2. CASE \E o \in Owners, key \in Keys, content \in Contents :
             FreshIds # {} /\ Create(MakeMemory(NextId, o, key, content, "durable", Null, Null, now), Null)
  <2>1. PICK o \in Owners, key \in Keys, content \in Contents :
          /\ FreshIds # {}
          /\ Create(MakeMemory(NextId, o, key, content, "durable", Null, Null, now), Null)
    BY <1>2
  <2>2. NextId \in Ids
    BY <2>1 DEF NextId, FreshIds
  <2>3. MakeMemory(NextId, o, key, content, "durable", Null, Null, now) \in Record
    BY <1>1, <2>2, NewRecord DEF RetentionPolicy
  <2>. QED
    BY <2>1, <2>3 DEF TableStep, CreatesRow
<1>3. ASSUME NEW cur \in memories,
             \/ Forget(cur, now, Null)
             \/ HardDelete(cur, now)
             \/ \E retention \in Policies : SetPolicy(cur, retention, now, now)
      PROVE  TableStep
  BY <1>1, <1>3, TransitionShape, PolicyShape DEF TableStep, DeletesRow
<1>. QED
  BY <1>2, <1>3 DEF Others

LEMMA JobsWrite ==
  ASSUME TypeInv,
         \/ Remembered(Session) \/ SupersededOld(Session) \/ Forgotten(Session)
         \/ DeleteNext(Session) \/ DeleteAllDone(Session)
  PROVE  TableStep \/ UNCHANGED repoVars
BY SessionAssumption, StepWrites DEF Step

Planned ==
  PlanRemember(Session) \/ PlanForget(Session) \/ PlanCorrect(Session) \/ StartDeleteAll(Session)

LEMMA PlansWriteNothing ==
  ASSUME Planned
  PROVE  UNCHANGED <<repoVars, now>>
BY DEF Planned, PlanRemember, PlanForget, PlanCorrect, StartDeleteAll, Plan

(* The steps that touch neither the tables nor the job. *)
Aside ==
  \/ ReadMessage \/ CaptureNothing \/ SearchIndex \/ FetchNext \/ SearchNothing \/ SearchRows
  \/ Rank \/ Compose \/ Composed \/ RetrievalFails \/ Respond \/ CommandRaises

LEMMA AsideWritesNothing ==
  ASSUME Aside
  PROVE  UNCHANGED vars
BY DEF Aside, ReadMessage, CaptureNothing, SearchIndex, FetchNext, SearchNothing, SearchRows,
       Rank, Compose, Composed, RetrievalFails, Respond, CommandRaises

LEMMA StepKinds ==
  ASSUME ConversationNext
  PROVE  Aside \/ CapturePlans \/ CaptureApplies \/ CaptureFails \/ CommandApplies
           \/ CommandPlans \/ CommandWorks \/ CommandTooLate \/ Others
BY DEF ConversationNext, Turn, Command, Aside

LEMMA ConversationWrites ==
  ASSUME TypeInv, ConversationNext
  PROVE  TableStep \/ UNCHANGED repoVars
<1>1. CASE Aside
  BY <1>1, AsideWritesNothing DEF vars
<1>2. CASE CapturePlans \/ CommandPlans
  BY <1>2, PlansWriteNothing DEF CapturePlans, CommandPlans, Planned
<1>3. CASE CaptureApplies \/ CommandWorks
  BY <1>3, JobsWrite DEF CaptureApplies, CommandWorks
<1>4. CASE CaptureFails \/ CommandTooLate
  BY <1>4 DEF CaptureFails, CommandTooLate
<1>. QED
  BY <1>1, <1>2, <1>3, <1>4, StepKinds, CommandWrites, OthersWrite

LEMMA SessionJob ==
  ASSUME TypeInv, ConversationNext
  PROVE  now' = now /\ task' \in [Processes -> Jobs \cup {Null}]
<1>1. Becomes(Session, Null) => task' \in [Processes -> Jobs \cup {Null}]
  BY SessionAssumption, BecomesJob
<1>2. task \in [Processes -> Jobs \cup {Null}]
  BY DEF TypeInv
<1>3. CASE Aside
  BY <1>2, <1>3, AsideWritesNothing DEF vars
<1>4. CASE CapturePlans \/ CommandPlans
  <2>1. Planned
    BY <1>4 DEF CapturePlans, CommandPlans, Planned
  <2>2. task' \in [Processes -> Jobs \cup {Null}]
    BY <2>1, SessionAssumption, PlansType, LongJobsType DEF Planned
  <2>. QED
    BY <2>1, <2>2, PlansWriteNothing
<1>5. CASE CaptureApplies \/ CommandWorks
  <2>1. \/ Remembered(Session) \/ SupersededOld(Session) \/ Forgotten(Session)
        \/ DeleteNext(Session) \/ DeleteAllDone(Session)
    BY <1>5 DEF CaptureApplies, CommandWorks
  <2>2. now' = now
    BY <2>1 DEF Remembered, SupersededOld, Forgotten, DeleteNext, DeleteAllDone
  <2>3. Becomes(Session, Null) \/ DeleteNext(Session)
    BY <2>1 DEF Remembered, SupersededOld, Forgotten, DeleteAllDone
  <2>. QED
    BY <1>1, <2>2, <2>3, SessionAssumption, LongJobsType
<1>6. CASE CaptureFails \/ CommandTooLate
  BY <1>1, <1>6 DEF CaptureFails, CommandTooLate
<1>7. CASE CommandApplies \/ Others
  BY <1>2, <1>7 DEF CommandApplies, Others
<1>. QED
  BY <1>3, <1>4, <1>5, <1>6, <1>7, StepKinds

LEMMA TablesKept ==
  ASSUME TablesInv, [ConversationNext]_conversation
  PROVE  TablesInv'
<1>1. TablesOK
  BY DEF TablesInv, TypeInv, TypeOK, TablesOK
<1>2. now' = now /\ task' \in [Processes -> Jobs \cup {Null}]
  BY SessionJob DEF TablesInv, TypeInv, conversation, vars
<1>3. TableStep \/ UNCHANGED repoVars
  BY ConversationWrites DEF TablesInv, conversation, vars
<1>4. CASE UNCHANGED repoVars
  BY <1>1, <1>2, <1>4 DEF repoVars, TablesInv, TypeInv, TypeOK, Idle, UniqueIds, Searchable
<1>5. CASE TableStep
  <2>1. TablesOK'
    BY <1>1, <1>5, TablesStep
  <2>2. TypeInv'
    BY <1>2, <2>1 DEF TablesInv, TablesOK, TypeInv, TypeOK, Idle
  <2>. QED
    BY <1>1, <1>5, <2>2, IdsKept, TablesFinite, SearchableKept DEF TablesInv
<1>. QED
  BY <1>3, <1>4, <1>5

-----------------------------------------------------------------------------
(* The tables that earlier sessions left. *)

LEMMA DrawnIds ==
  /\ SetToSeq(Ids) \in [1 .. Cardinality(Ids) -> Ids]
  /\ IsInjective(SetToSeq(Ids))
<1>1. ExistsBijection(1 .. Cardinality(Ids), Ids)
  BY HeldAssumption, FS_CardinalityType
<1>2. \E f \in [1 .. Cardinality(Ids) -> Ids] : IsInjective(f)
  BY <1>1 DEF ExistsBijection, Bijection, Injection
<1>. QED
  BY <1>2 DEF SetToSeq

LEMMA HeldRows ==
  ASSUME NEW held \in Held
  PROVE  \E n \in 0 .. MaxHeld :
           /\ held \in [1 .. n -> {r \in Record : ValidRecord(r) /\ r.status = "active"}]
           /\ \A i, j \in 1 .. n : held[i].id = held[j].id => i = j
<1>1. PICK n \in 0 .. MaxHeld : \E f \in [1 .. n -> Owners \X Keys \X Contents] : held = HeldBy(f)
  BY DEF Held
<1>2. PICK f \in [1 .. n -> Owners \X Keys \X Contents] : held = HeldBy(f)
  BY <1>1
<1>3. 1 .. n \subseteq 1 .. Cardinality(Ids)
  BY HeldAssumption, FS_CardinalityType
<1>4. ASSUME NEW i \in 1 .. n
      PROVE  /\ held[i] \in Record /\ ValidRecord(held[i]) /\ held[i].status = "active"
             /\ held[i].id = SetToSeq(Ids)[i]
  <2>1. /\ SetToSeq(Ids)[i] \in Ids
        /\ f[i][1] \in Owners /\ f[i][2] \in Keys /\ f[i][3] \in Contents
    BY <1>3, DrawnIds
  <2>2. held[i] = MakeMemory(SetToSeq(Ids)[i], f[i][1], f[i][2], f[i][3], "durable", Null, Null, 0)
    BY <1>2 DEF HeldBy
  <2>3. 0 \in Times /\ Null \notin Ids
    BY TimeAssumption, NullAssumption DEF Times
  <2>4. held[i] \in Record
    BY <2>1, <2>2, <2>3, NewRecord DEF RetentionPolicy
  <2>. QED
    BY <2>1, <2>2, <2>3, <2>4 DEF MakeMemory, ValidRecord
<1>5. \A i, j \in 1 .. n : held[i].id = held[j].id => i = j
  BY <1>3, <1>4, DrawnIds DEF IsInjective
<1>6. held \in [1 .. n -> {r \in Record : ValidRecord(r) /\ r.status = "active"}]
  BY <1>2, <1>4 DEF HeldBy
<1>. QED
  BY <1>5, <1>6

LEMMA TablesInitially == ConversationInit => TablesInv
<1>. SUFFICES ASSUME ConversationInit PROVE TablesInv
  OBVIOUS
<1>1. PICK held \in Held, build \in Builds :
        /\ memories = ToSet(held)
        /\ fts = IF build[1]
                 THEN {<<r.id, r.content>> : r \in {s \in ToSet(held) : s.id \notin Unindexed}}
                 ELSE {}
        /\ audit = [i \in DOMAIN held |-> Event(held[i], held[i].owner, "create", 0, Null, Null, "active")]
        /\ indexed = build[1]
  BY DEF ConversationInit
<1>2. PICK n \in 0 .. MaxHeld :
        /\ held \in [1 .. n -> {r \in Record : ValidRecord(r) /\ r.status = "active"}]
        /\ \A i, j \in 1 .. n : held[i].id = held[j].id => i = j
  BY HeldRows
<1>3. n \in Nat /\ n <= MaxEvents /\ 0 \in Times
  BY HeldAssumption, BoundAssumption, TimeAssumption DEF Times
<1>4. memories = {held[i] : i \in 1 .. n}
  BY <1>1, <1>2 DEF ToSet
<1>5. memories \subseteq {r \in Record : ValidRecord(r)}
  BY <1>2, <1>4
<1>6. fts \subseteq Ids \X Contents
  BY <1>1, <1>5 DEF Record
<1>7. audit \in Seq(AuditEvent) /\ Len(audit) <= MaxEvents
  <2>1. \A i \in 1 .. n : Event(held[i], held[i].owner, "create", 0, Null, Null, "active") \in AuditEvent
    BY <1>2, <1>3, EventType DEF Record, AuditAction, MemoryStatus, RowStatus
  <2>2. audit \in [1 .. n -> AuditEvent]
    BY <1>1, <1>2, <2>1
  <2>. QED
    BY <1>3, <2>2
<1>8. IsFiniteSet(1 .. n)
  BY <1>3, FS_Interval
<1>9. IsFiniteSet(memories)
  <2>1. held \in Surjection(1 .. n, memories)
    BY <1>2, <1>4 DEF Surjection
  <2>. QED
    BY <1>8, <2>1, FS_Surjection
<1>10. IsFiniteSet(fts)
  <2>. DEFINE entries == [i \in 1 .. n |-> <<held[i].id, held[i].content>>]
              all == {<<r.id, r.content>> : r \in memories}
  <2>1. entries \in Surjection(1 .. n, all)
    BY <1>4 DEF Surjection
  <2>2. IsFiniteSet(all)
    BY <1>8, <2>1, FS_Surjection
  <2>3. fts \in SUBSET all
    BY <1>1
  <2>. QED
    BY <2>2, <2>3, FS_Subset
<1>11. UniqueIds
  BY <1>2, <1>4 DEF UniqueIds
<1>12. Searchable
  BY <1>1 DEF Searchable
<1>13. TypeInv
  <2>1. now \in Times /\ task = [p \in Processes |-> Null]
    BY TimeAssumption DEF ConversationInit, Times
  <2>. QED
    BY <1>3, <1>5, <1>6, <1>7, <2>1 DEF TypeInv, TypeOK, Idle
<1>. QED
  BY <1>9, <1>10, <1>11, <1>12, <1>13 DEF TablesInv

LEMMA TablesInvariance == ConversationSpec => []TablesInv
BY TablesInitially, TablesKept, PTL DEF ConversationSpec

-----------------------------------------------------------------------------
(* What a turn works on. *)

Turns ==
  [query : SUBSET Contents, asked : Ids \cup {Null}, candidates : SUBSET Ids,
   results : SUBSET Record, facts : SUBSET Record, degraded : BOOLEAN, written : Nat]

(* While results may still come in, wasActive holds every active memory of *)
(* the user; what is ranked, packed and handed on stays within it.         *)
TurnInv ==
  /\ turn \in Turns /\ IsFiniteSet(turn.results)
  /\ wasActive \subseteq Record
  /\ at \in {"write", "writing", "search", "fetch"} => ActiveOf(User, memories) \subseteq wasActive
  /\ at \in {"write", "writing", "search", "fetch", "compose"} => turn.results \subseteq wasActive
  /\ at = "compose" \/ phase = "idle"
  /\ ComposeInv(wasActive)
  /\ at = "generate" => turn.facts \subseteq wasActive

LEMMA EmptyBlock ==
  ASSUME NEW S, NEW T, ComposeInv(S), phase = "idle", UNCHANGED composeVars
  PROVE  ComposeInv(T)'
BY BlockUntouched
DEF ComposeInv, ComposeTypeOK, PackedInOrder, composeVars, Limits

LEMMA SessionBlock ==
  ASSUME TurnInv, ComposeStep \/ UNCHANGED composeVars, wasActive' = wasActive
  PROVE  ComposeInv(wasActive)'
<1>1. PICK S : S = wasActive
  OBVIOUS
<1>2. Memory(S)
  BY <1>1, ContentAssumption DEF Memory, TurnInv, Record
<1>3. ComposeInv(S)
  BY <1>1 DEF TurnInv
<1>4. ComposeInv(S)'
  BY <1>2, <1>3, ComposeStepKeeps DEF ComposeNext
<1>5. wasActive' = S
  BY <1>1
<1>. QED
  BY <1>4, <1>5 DEF ComposeInv, ComposeTypeOK

LEMMA IdleBlock ==
  ASSUME TurnInv, phase = "idle", UNCHANGED composeVars
  PROVE  ComposeInv(wasActive)' /\ phase' = "idle"
<1>1. PICK S, T : S = wasActive /\ T = wasActive'
  OBVIOUS
<1>2. ComposeInv(S)
  BY <1>1 DEF TurnInv
<1>3. ComposeInv(T)'
  BY <1>2, EmptyBlock
<1>. QED
  BY <1>1, <1>3 DEF ComposeInv, ComposeTypeOK, composeVars

LEMMA DiscardedBlock ==
  ASSUME TurnInv, Discard
  PROVE  ComposeInv(wasActive)' /\ phase' = "idle"
<1>1. PICK S, T : S = wasActive /\ T = wasActive'
  OBVIOUS
<1>2. ComposeInv(T)'
  BY DEF Discard, ComposeInv, ComposeTypeOK, PackedInOrder, BlockWithinBudget, Limits, NoLimits
<1>. QED
  BY <1>1, <1>2 DEF ComposeInv, ComposeTypeOK, Discard

(* The memory that the planned call is to write. *)
Asked(t) == IF t.job = "remember" THEN t.record.id ELSE t.old

LEMMA PlannedJob ==
  ASSUME TypeInv, CapturePlans
  PROVE  turn' = [turn EXCEPT !.asked = Asked(task'[Session])] /\ Asked(task'[Session]) \in Ids
<1>1. Session \in Processes /\ task \in [Processes -> Jobs \cup {Null}]
  BY SessionAssumption DEF TypeInv
<1>2. memories \subseteq Record /\ FreshIds \subseteq Ids
  BY DEF TypeInv, TypeOK, FreshIds
<1>3. ASSUME NEW o, NEW key PROVE \A old \in FindActive(o, key) : old.id \in Ids
  BY <1>2 DEF FindActive, Record
<1>4. CASE PlanRemember(Session)
  <2>1. PICK o \in Owners, key \in Keys, content \in Contents, id \in FreshIds :
          LET record == MakeMemory(id, o, key, content, "durable", Null, Null, now)
          IN  \/ Becomes(Session, [job |-> "remember", owner |-> o, at |-> now, since |-> Len(audit),
                                   record |-> record])
              \/ \E old \in FindActive(o, key) :
                   Becomes(Session, [job |-> "supersede", owner |-> o, at |-> now, record |-> record,
                                     old |-> old.id, reason |-> key])
    BY <1>4 DEF PlanRemember, Plan
  <2>. DEFINE record == MakeMemory(id, o, key, content, "durable", Null, Null, now)
  <2>2. record.id \in Ids
    BY <1>2 DEF MakeMemory
  <2>. HIDE DEF record
  <2>3. ASSUME Becomes(Session, [job |-> "remember", owner |-> o, at |-> now, since |-> Len(audit),
                                 record |-> record])
        PROVE  Asked(task'[Session]) \in Ids
    BY <1>1, <2>2, <2>3 DEF Becomes, Asked
  <2>4. ASSUME NEW old \in FindActive(o, key),
               Becomes(Session, [job |-> "supersede", owner |-> o, at |-> now, record |-> record,
                                 old |-> old.id, reason |-> key])
        PROVE  Asked(task'[Session]) \in Ids
    BY <1>1, <1>3, <2>4 DEF Becomes, Asked
  <2>5. Asked(task'[Session]) \in Ids
    BY <2>1, <2>3, <2>4 DEF record
  <2>. QED
    BY <2>5 DEF CapturePlans, Asked
<1>5. CASE PlanForget(Session)
  <2>1. PICK o \in Owners, key \in Keys : \E old \in FindActive(o, key) :
          Becomes(Session, [job |-> "forget", owner |-> o, at |-> now, old |-> old.id, reason |-> key])
    BY <1>5 DEF PlanForget, Plan
  <2>2. PICK old \in FindActive(o, key) :
          Becomes(Session, [job |-> "forget", owner |-> o, at |-> now, old |-> old.id, reason |-> key])
    BY <2>1
  <2>3. Asked(task'[Session]) \in Ids
    BY <1>1, <1>3, <2>2 DEF Becomes, Asked
  <2>. QED
    BY <2>3 DEF CapturePlans, Asked
<1>. QED
  BY <1>4, <1>5 DEF CapturePlans

LEMMA TurnStarts ==
  ASSUME TablesInv, TurnInv, ReadMessage
  PROVE  TurnInv'
<1>1. ActiveOf(User, memories) \subseteq Record
  BY DEF TablesInv, TypeInv, TypeOK, ActiveOf
<1>2. PICK query \in SUBSET Contents : turn' = [NoTurn EXCEPT !.query = query, !.written = Len(audit)]
  BY DEF ReadMessage
<1>3. turn' \in Turns /\ turn'.results = {} /\ turn'.facts = {}
  <2>1. Len(audit) \in Nat
    BY DEF TablesInv, TypeInv, TypeOK
  <2>2. turn' = [query |-> query, asked |-> Null, candidates |-> {}, results |-> {},
                 facts |-> {}, degraded |-> FALSE, written |-> Len(audit)]
    BY <1>2 DEF NoTurn
  <2>. QED
    BY <2>1, <2>2 DEF Turns
<1>4. IsFiniteSet(turn'.results)
  BY <1>3, FS_EmptySet
<1>5. at = "prompt" /\ at' = "write" /\ wasActive' = ActiveOf(User, memories) /\ memories' = memories
  BY DEF ReadMessage, ReadLine, Enter, Goes, vars, repoVars
<1>6. ComposeInv(wasActive)' /\ phase' = "idle"
  BY <1>5, IdleBlock DEF TurnInv, ReadMessage
<1>. QED
  BY <1>1, <1>3, <1>4, <1>5, <1>6 DEF TurnInv, ActiveOf

(* A step of the turn that keeps the block empty, the tables and the       *)
(* history, and finds only what was active.                                *)
LEMMA TurnGoesOn ==
  ASSUME TablesInv, TurnInv, NEW label, at' = label,
         at \in {"write", "writing", "search", "fetch"},
         label \in {"write", "writing", "search", "fetch"},
         UNCHANGED <<memories, composeVars, wasActive>>,
         turn' \in Turns,
         turn'.results \subseteq turn.results \cup ActiveOf(User, memories)
  PROVE  TurnInv'
<1>1. IsFiniteSet(turn'.results)
  <2>1. ActiveOf(User, memories) \in SUBSET memories
    BY DEF ActiveOf
  <2>2. IsFiniteSet(turn.results \cup ActiveOf(User, memories))
    BY <2>1, FS_Subset, FS_Union DEF TablesInv, TurnInv
  <2>. QED
    BY <2>2, FS_Subset
<1>2. ComposeInv(wasActive)' /\ phase' = "idle"
  BY IdleBlock DEF TurnInv
<1>3. turn'.results \subseteq wasActive
  BY DEF TurnInv
<1>. QED
  BY <1>1, <1>2, <1>3 DEF TurnInv, ActiveOf

LEMMA MoreActive ==
  ASSUME TablesInv', TurnInv, at \in {"write", "writing", "search", "fetch"},
         at' \in {"search", at}, turn' = turn, Remembers(memories'), UNCHANGED composeVars
  PROVE  TurnInv'
<1>1. ActiveOf(User, memories') \subseteq Record
  BY DEF TablesInv, TypeInv, TypeOK, ActiveOf
<1>2. wasActive' = wasActive \cup ActiveOf(User, memories')
  BY DEF Remembers
<1>3. ComposeInv(wasActive)' /\ phase' = "idle"
  BY IdleBlock DEF TurnInv
<1>. QED
  BY <1>1, <1>2, <1>3 DEF TurnInv, ActiveOf

(* Outside a turn nothing is promised about the tables.                    *)
LEMMA BetweenTurns ==
  ASSUME TurnInv, at \in {"prompt", "command", "generate"}, at' \in {"prompt", "command", "dead"},
         UNCHANGED composeVars, turn' \in {turn, NoTurn}, wasActive' \in {wasActive, {}}
  PROVE  TurnInv'
<1>1. ComposeInv(wasActive)' /\ phase' = "idle"
  BY IdleBlock DEF TurnInv
<1>2. NoTurn \in Turns /\ IsFiniteSet(NoTurn.results)
  BY FS_EmptySet DEF NoTurn, Turns
<1>. QED
  BY <1>1, <1>2 DEF TurnInv

LEMMA WritingTurns ==
  ASSUME TablesInv, TurnInv, CaptureNothing \/ CapturePlans \/ CaptureFails
  PROVE  TurnInv'
<1>1. turn \in Turns
  BY DEF TurnInv
<1>2. CASE CaptureNothing
  BY <1>1, <1>2, TurnGoesOn DEF CaptureNothing, Goes, vars, repoVars
<1>3. CASE CapturePlans
  <2>1. turn' \in Turns /\ turn'.results = turn.results
    BY <1>1, <1>3, PlannedJob DEF TablesInv, Turns
  <2>2. memories' = memories
    BY <1>3, PlansWriteNothing DEF CapturePlans, Planned, repoVars
  <2>. QED
    BY <1>3, <2>1, <2>2, TurnGoesOn DEF CapturePlans, Goes
<1>4. CASE CaptureFails
  <2>1. turn' \in Turns /\ turn'.results = turn.results
    BY <1>1, <1>4 DEF CaptureFails, Turns
  <2>. QED
    BY <1>4, <2>1, TurnGoesOn DEF CaptureFails, Goes, repoVars
<1>. QED
  BY <1>2, <1>3, <1>4

LEMMA SearchingTurns ==
  ASSUME TablesInv, TurnInv, SearchIndex \/ FetchNext \/ SearchNothing \/ SearchRows
  PROVE  TurnInv'
<1>1. turn \in Turns
  BY DEF TurnInv
<1>2. ActiveOf(User, memories) \subseteq Record
  BY DEF TablesInv, TypeInv, TypeOK, ActiveOf
<1>3. CASE SearchIndex
  <2>1. Matching \subseteq Ids
    BY DEF Matching, TablesInv, TypeInv, TypeOK
  <2>2. turn' \in Turns /\ turn'.results = turn.results
    BY <1>1, <1>3, <2>1 DEF SearchIndex, Turns
  <2>. QED
    BY <1>3, <2>2, TurnGoesOn DEF SearchIndex, Goes, vars, repoVars
<1>4. CASE FetchNext
  <2>1. PICK id \in turn.candidates :
          turn' = [turn EXCEPT !.candidates = @ \ {id}, !.results = @ \cup Fetched(id)]
    BY <1>4 DEF FetchNext
  <2>2. Fetched(id) \subseteq ActiveOf(User, memories)
    BY DEF Fetched, ActiveOf
  <2>3. turn' \in Turns /\ turn'.results = turn.results \cup Fetched(id)
    BY <1>1, <1>2, <2>1, <2>2 DEF Turns
  <2>. QED
    BY <1>4, <2>2, <2>3, TurnGoesOn DEF FetchNext, vars, repoVars
<1>5. CASE SearchNothing
  BY <1>1, <1>5, TurnGoesOn DEF SearchNothing, Goes, vars, repoVars
<1>6. CASE SearchRows
  <2>1. PICK best \in SUBSET ActiveOf(User, memories) : turn' = [turn EXCEPT !.results = best]
    BY <1>6 DEF SearchRows, Listed
  <2>2. turn' \in Turns /\ turn'.results = best
    BY <1>1, <1>2, <2>1 DEF Turns
  <2>. QED
    BY <1>6, <2>2, TurnGoesOn DEF SearchRows, Goes, vars, repoVars
<1>. QED
  BY <1>3, <1>4, <1>5, <1>6

LEMMA RankedTurns ==
  ASSUME TablesInv, TurnInv, Rank
  PROVE  TurnInv'
<1>. DEFINE n == Cardinality(turn.results)
<1>1. PICK order \in [1 .. n -> turn.results], debug \in BOOLEAN : StartCompose(order, debug)
  BY DEF Rank
<1>2. n \in Nat
  BY FS_CardinalityType DEF TurnInv
<1>3. turn.results \subseteq wasActive
  BY DEF Rank, TurnInv
<1>4. PICK S : S = wasActive
  OBVIOUS
<1>5. order \in Seq(S)
  BY <1>2, <1>3, <1>4
<1>6. ComposeInv(S)
  BY <1>4 DEF TurnInv
<1>7. ComposeInv(S)'
  BY <1>1, <1>5, <1>6, StartKeeps
<1>8. wasActive' = S
  BY <1>4 DEF Rank
<1>9. ComposeInv(wasActive)'
  BY <1>7, <1>8 DEF ComposeInv, ComposeTypeOK
<1>. QED
  BY <1>3, <1>8, <1>9 DEF TurnInv, Rank, Goes

LEMMA ComposedTurns ==
  ASSUME TurnInv, Compose \/ Composed \/ RetrievalFails
  PROVE  TurnInv'
<1>1. turn \in Turns /\ wasActive \subseteq Record
  BY DEF TurnInv
<1>2. CASE Compose
  <2>1. ComposeInv(wasActive)'
    BY <1>2, SessionBlock DEF Compose
  <2>. QED
    BY <1>2, <2>1 DEF TurnInv, Compose
<1>3. CASE Composed
  <2>1. ComposeInv(wasActive)' /\ phase' = "idle"
    BY <1>3, DiscardedBlock DEF Composed
  <2>2. {items[i].memory : i \in DOMAIN items} \subseteq wasActive
    <3>1. items \in Seq(Item(wasActive))
      BY DEF TurnInv, ComposeInv, ComposeTypeOK
    <3>2. \A i \in DOMAIN items : items[i] \in Item(wasActive)
      BY <3>1
    <3>. QED
      BY <3>2 DEF Item
  <2>3. /\ turn' \in Turns /\ turn'.results = turn.results
        /\ turn'.facts \subseteq wasActive
    BY <1>1, <1>3, <2>2 DEF Composed, Turns
  <2>. QED
    BY <1>3, <2>1, <2>3 DEF TurnInv, Composed, Goes
<1>4. CASE RetrievalFails
  <2>1. ComposeInv(wasActive)' /\ phase' = "idle"
    BY <1>4, DiscardedBlock DEF RetrievalFails
  <2>2. turn' \in Turns /\ turn'.results = turn.results /\ turn'.facts = {}
    BY <1>1, <1>4 DEF RetrievalFails, Turns
  <2>. QED
    BY <1>4, <2>1, <2>2 DEF TurnInv, RetrievalFails, Goes
<1>. QED
  BY <1>2, <1>3, <1>4

LEMMA TurnKept ==
  ASSUME TablesInv, TurnInv, ConversationNext
  PROVE  TurnInv'
<1>1. TablesInv'
  BY TablesKept
<1>2. CASE ReadMessage
  BY <1>2, TurnStarts
<1>3. CASE CaptureApplies
  BY <1>1, <1>3, MoreActive DEF CaptureApplies, Goes
<1>4. CASE Respond
  BY <1>4, BetweenTurns DEF Respond, Goes
<1>5. CASE Command
  <2>1. at \in {"prompt", "command"} /\ at' \in {"prompt", "command", "dead"}
    BY <1>5
    DEF Command, CommandApplies, CommandRaises, CommandPlans, CommandWorks, CommandTooLate,
        ReadLine, Enter, Stays, Goes
  <2>2. UNCHANGED <<composeVars, turn, wasActive>>
    BY <1>5
    DEF Command, CommandApplies, CommandRaises, CommandPlans, CommandWorks, CommandTooLate, Stays
  <2>. QED
    BY <2>1, <2>2, BetweenTurns
<1>6. CASE Others
  <2>1. CASE at \in {"prompt", "command"}
    BY <1>6, <2>1, BetweenTurns DEF Others
  <2>2. CASE at \in {"writing", "search", "fetch"}
    BY <1>1, <1>6, <2>2, MoreActive DEF Others
  <2>. QED
    BY <1>6, <2>1, <2>2 DEF Others, Enter
<1>. QED
  BY <1>2, <1>3, <1>4, <1>5, <1>6, WritingTurns, SearchingTurns, RankedTurns, ComposedTurns
  DEF ConversationNext, Turn

LEMMA TurnStutters ==
  ASSUME TurnInv, UNCHANGED conversation
  PROVE  TurnInv'
<1>1. ComposeInv(wasActive)'
  BY SessionBlock DEF conversation
<1>. QED
  BY <1>1 DEF TurnInv, conversation, composeVars, vars, repoVars, ActiveOf

LEMMA TurnInvariance == ConversationSpec => []TurnInv
<1>1. ConversationInit => TurnInv
  <2>. SUFFICES ASSUME ConversationInit PROVE TurnInv
    OBVIOUS
  <2>1. ComposeInv(wasActive)
    BY ComposeInitial DEF ConversationInit
  <2>2. NoTurn \in Turns /\ IsFiniteSet(NoTurn.results)
    BY FS_EmptySet DEF NoTurn, Turns
  <2>. QED
    BY <2>1, <2>2 DEF ConversationInit, ComposeInit, TurnInv
<1>2. TablesInv /\ TurnInv /\ [ConversationNext]_conversation => TurnInv'
  BY TurnKept, TurnStutters
<1>. QED
  BY <1>1, <1>2, TablesInvariance, PTL DEF ConversationSpec

(* ContextWasActive: with any limit of retrieval and any budget, and other *)
(* processes forgetting, deleting and creating between any two steps of    *)
(* the turn, the backend gets no memory that is another owner's or was at  *)
(* no moment of this turn active.                                          *)
THEOREM ContextIsCurrent == ConversationSpec => []ContextWasActive
<1>1. TurnInv => ContextWasActive
  BY DEF TurnInv, ContextWasActive
<1>. QED
  BY <1>1, TurnInvariance, PTL

-----------------------------------------------------------------------------
(* What an answer that does not say "degraded" stands for. *)

Stored ==
  \E i \in turn.written + 1 .. Len(audit) :
    audit[i].memory = turn.asked /\ audit[i].action \in {"create", "supersede", "forget"}

ToldInv ==
  /\ turn.written <= Len(audit)
  /\ at = "write" => turn.asked = Null
  /\ at = "writing" => turn.asked = Asked(task[Session])
  /\ (at \in {"search", "fetch", "compose", "generate"} /\ ~ turn.degraded /\ turn.asked # Null) => Stored
  /\ (at \in {"fetch", "compose", "generate"} /\ ~ turn.degraded /\ turn.query # {}) => FtsUsable

LEMMA TrailGrows ==
  ASSUME TablesInv, ConversationNext
  PROVE  /\ Len(audit) \in Nat /\ Len(audit') \in Nat /\ Len(audit) <= Len(audit')
         /\ \A i \in 1 .. Len(audit) : audit'[i] = audit[i]
         /\ FtsUsable' = FtsUsable
<1>1. TablesOK /\ TablesInv'
  BY TablesKept DEF TablesInv, TypeInv, TypeOK, TablesOK
<1>2. Len(audit) \in Nat /\ Len(audit') \in Nat
  BY <1>1 DEF TablesInv, TypeInv, TypeOK
<1>3. TableStep \/ UNCHANGED repoVars
  BY ConversationWrites DEF TablesInv
<1>4. CASE TableStep
  BY <1>1, <1>2, <1>4, TablesAudited, ConnectionKept DEF WrittenRowsAudited, FtsUsable
<1>5. CASE UNCHANGED repoVars
  BY <1>2, <1>5 DEF repoVars, FtsUsable
<1>. QED
  BY <1>3, <1>4, <1>5

(* The call that capture decided on leaves its event. *)
LEMMA CallStores ==
  ASSUME TablesInv, TurnInv, ToldInv, CaptureApplies
  PROVE  Stored'
<1>1. audit \in Seq(AuditEvent) /\ Len(audit) \in Nat /\ turn.written \in Nat /\ turn' = turn
  BY DEF TablesInv, TypeInv, TypeOK, TurnInv, Turns, CaptureApplies
<1>2. turn.written + 1 <= Len(audit) + 1 /\ turn.asked = Asked(task[Session])
  BY <1>1 DEF ToldInv, CaptureApplies
<1>3. ASSUME NEW e \in AuditEvent, e.memory = turn.asked, e.action \in {"create", "supersede", "forget"},
             \/ audit' = Append(audit, e)
             \/ \E f \in AuditEvent : audit' = audit \o <<e, f>>
      PROVE  Stored'
  <2>1. audit'[Len(audit) + 1] = e /\ Len(audit') \in Nat /\ Len(audit) + 1 <= Len(audit')
    <3>1. CASE audit' = Append(audit, e)
      BY <1>1, <3>1
    <3>2. ASSUME NEW f \in AuditEvent, audit' = audit \o <<e, f>>
          PROVE  /\ audit'[Len(audit) + 1] = e
                 /\ Len(audit') \in Nat /\ Len(audit) + 1 <= Len(audit')
      <4>1. Len(audit') = Len(audit) + 2 /\ audit'[Len(audit) + 1] = e
        BY <1>1, <3>2
      <4>. QED
        BY <1>1, <4>1
    <3>. QED
      BY <1>3, <3>1, <3>2
  <2>2. Len(audit) + 1 \in turn'.written + 1 .. Len(audit')
    BY <1>1, <1>2, <2>1
  <2>. QED
    BY <1>1, <1>3, <2>1, <2>2 DEF Stored
<1>4. Session \in Processes /\ TypeInv /\ memories \subseteq Record
  BY SessionAssumption DEF TablesInv, TypeInv, TypeOK
<1>5. CASE Remembered(Session)
  <2>. DEFINE r == task[Session].record
              e == Event(r, r.owner, "create", r.created, Null, Null, r.status)
  <2>1. r \in Record
    BY <1>4, <1>5, JobTypes DEF Remembered, Running
  <2>2. e \in AuditEvent
    BY <2>1, EventType DEF Record, AuditAction, MemoryStatus
  <2>3. audit' = Append(audit, e)
    BY <1>5 DEF Remembered, Create
  <2>4. e.memory = turn.asked /\ e.action = "create"
    BY <1>2, <1>5 DEF Remembered, Running, Asked, Event
  <2>. QED
    BY <1>3, <2>2, <2>3, <2>4
<1>6. CASE SupersededOld(Session)
  <2>. DEFINE t == task[Session]
  <2>1. PICK cur \in Row(t.owner, t.old) : Supersede(cur, t.record, t.at, t.reason)
    BY <1>6 DEF SupersededOld
  <2>2. /\ t.record \in Record /\ t.at \in Times /\ t.reason \in Keys \cup {Null}
        /\ t.job = "supersede"
    BY <1>4, <1>6, JobTypes DEF SupersededOld, Running
  <2>3. cur \in Record /\ cur.id = t.old
    BY <1>4 DEF Row
  <2>. DEFINE new == LinkedReplacement(cur, t.record, t.at)
              e == Event(cur, cur.owner, "supersede", t.at, t.reason, cur.status, "superseded")
              f == Event(new, cur.owner, "create", t.at, Null, Null, "active")
  <2>4. new \in Record
    BY <2>2, <2>3, LinkedTypes
  <2>5. e \in AuditEvent
    BY <2>2, <2>3, EventType DEF Record, AuditAction, MemoryStatus, RowStatus
  <2>6. f \in AuditEvent
    BY <2>2, <2>3, <2>4, EventType DEF Record, AuditAction, MemoryStatus, RowStatus
  <2>7. audit' = audit \o <<e, f>>
    BY <2>1 DEF Supersede
  <2>8. e.memory = turn.asked /\ e.action = "supersede"
    BY <1>2, <2>2, <2>3 DEF Asked, Event
  <2>. HIDE DEF e, f
  <2>. QED
    BY <1>3, <2>5, <2>6, <2>7, <2>8
<1>7. CASE Forgotten(Session)
  <2>. DEFINE t == task[Session]
  <2>1. PICK cur \in Row(t.owner, t.old) : Forget(cur, t.at, t.reason)
    BY <1>7 DEF Forgotten
  <2>2. t.at \in Times /\ t.reason \in Keys \cup {Null} /\ t.job = "forget"
    BY <1>4, <1>7, JobTypes DEF Forgotten, Running
  <2>3. cur \in Record /\ cur.id = t.old
    BY <1>4 DEF Row
  <2>. DEFINE r == ToStatus(cur, "forgotten", t.at)
              e == Event(cur, cur.owner, "forget", t.at, t.reason, cur.status, r.status)
  <2>4. r.status = "forgotten"
    BY <2>3 DEF ToStatus, Record
  <2>5. e \in AuditEvent
    BY <2>2, <2>3, <2>4, EventType DEF Record, AuditAction, MemoryStatus, RowStatus
  <2>6. audit' = Append(audit, e)
    BY <2>1 DEF Forget, PersistUpdate
  <2>7. e.memory = turn.asked /\ e.action = "forget"
    BY <1>2, <2>2, <2>3 DEF Asked, Event
  <2>. HIDE DEF e
  <2>. QED
    BY <1>3, <2>5, <2>6, <2>7
<1>. QED
  BY <1>5, <1>6, <1>7 DEF CaptureApplies

(* What holds of the answer so far is carried on. *)
Carries ==
  /\ turn'.written = turn.written /\ turn'.asked = turn.asked /\ turn'.query = turn.query
  /\ turn'.degraded = turn.degraded

LEMMA StoredCarries ==
  ASSUME TablesInv, TurnInv, ConversationNext, Carries, Stored
  PROVE  Stored'
<1>1. PICK i \in turn.written + 1 .. Len(audit) :
        audit[i].memory = turn.asked /\ audit[i].action \in {"create", "supersede", "forget"}
  BY DEF Stored
<1>2. turn.written \in Nat /\ Len(audit) \in Nat /\ Len(audit') \in Nat
  BY TrailGrows DEF TurnInv, Turns
<1>3. i \in 1 .. Len(audit) /\ i \in turn.written + 1 .. Len(audit')
  BY <1>2, TrailGrows
<1>4. audit'[i] = audit[i]
  BY <1>3, TrailGrows
<1>. QED
  BY <1>1, <1>3, <1>4 DEF Stored, Carries

LEMMA WrittenCarries ==
  ASSUME TablesInv, TurnInv, ToldInv, ConversationNext, turn'.written = turn.written
  PROVE  turn'.written <= Len(audit')
<1>1. turn.written \in Nat /\ turn.written <= Len(audit)
  BY DEF TurnInv, Turns, ToldInv
<1>. QED
  BY <1>1, TrailGrows

LEMMA ToldOn ==
  ASSUME TablesInv, TurnInv, ToldInv, ConversationNext, Carries,
         at \in {"search", "fetch", "compose"}, at' \in {"search", "fetch", "compose", "generate"},
         at' = "search" \/ at \in {"fetch", "compose"} \/ turn.query = {} \/ FtsUsable
  PROVE  ToldInv'
<1>1. turn'.written <= Len(audit')
  BY WrittenCarries DEF Carries
<1>2. (~ turn'.degraded /\ turn'.asked # Null) => Stored'
  BY StoredCarries DEF ToldInv, Carries
<1>3. (at' # "search" /\ ~ turn'.degraded /\ turn'.query # {}) => FtsUsable'
  BY TrailGrows DEF ToldInv, Carries
<1>. QED
  BY <1>1, <1>2, <1>3 DEF ToldInv

(* An answer that says "degraded" promises nothing. *)
LEMMA ToldDegraded ==
  ASSUME TablesInv, TurnInv, ToldInv, CaptureFails \/ RetrievalFails
  PROVE  ToldInv'
<1>1. turn \in Turns
  BY DEF TurnInv
<1>2. ConversationNext
  BY DEF ConversationNext, Turn
<1>3. turn'.written = turn.written /\ turn'.degraded /\ at' \in {"search", "generate"}
  BY <1>1 DEF CaptureFails, RetrievalFails, Goes, Turns
<1>4. turn'.written <= Len(audit')
  BY <1>2, <1>3, WrittenCarries
<1>. QED
  BY <1>3, <1>4 DEF ToldInv

LEMMA ToldBetween ==
  ASSUME TablesInv, TurnInv, ToldInv, ConversationNext,
         at' \in {"prompt", "command", "dead"}, turn' \in {turn, NoTurn}
  PROVE  ToldInv'
<1>1. turn'.written <= Len(audit')
  <2>1. CASE turn' = turn
    BY <2>1, WrittenCarries
  <2>2. CASE turn' = NoTurn
    BY <2>2, TrailGrows DEF NoTurn
  <2>. QED
    BY <2>1, <2>2
<1>. QED
  BY <1>1 DEF ToldInv

LEMMA ToldWriting ==
  ASSUME TablesInv, TurnInv, ToldInv,
         ReadMessage \/ CaptureNothing \/ CapturePlans \/ CaptureApplies
  PROVE  ToldInv'
<1>1. turn \in Turns /\ Len(audit) \in Nat
  BY DEF TurnInv, TablesInv, TypeInv, TypeOK
<1>2. ConversationNext
  BY DEF ConversationNext, Turn
<1>3. CASE ReadMessage
  <2>1. turn'.written = Len(audit) /\ turn'.asked = Null
    BY <1>3 DEF ReadMessage, NoTurn
  <2>2. at' = "write" /\ audit' = audit
    BY <1>3 DEF ReadMessage, Goes, vars, repoVars
  <2>3. turn'.written <= Len(audit')
    BY <1>1, <2>1, <2>2
  <2>. QED
    BY <2>1, <2>2, <2>3 DEF ToldInv
<1>4. CASE CaptureNothing
  <2>1. turn' = turn /\ at' = "search" /\ turn.asked = Null
    BY <1>4 DEF CaptureNothing, Goes, ToldInv
  <2>2. turn'.written <= Len(audit')
    BY <1>2, <2>1, WrittenCarries
  <2>. QED
    BY <2>1, <2>2 DEF ToldInv
<1>5. CASE CapturePlans
  <2>1. turn'.asked = Asked(task'[Session]) /\ turn'.written = turn.written
    BY <1>1, <1>5, PlannedJob DEF TablesInv, Turns
  <2>2. turn'.written <= Len(audit')
    BY <1>2, <2>1, WrittenCarries
  <2>. QED
    BY <1>5, <2>1, <2>2 DEF CapturePlans, Goes, ToldInv, Asked
<1>6. CASE CaptureApplies
  <2>1. turn' = turn /\ at' = "search"
    BY <1>6 DEF CaptureApplies, Goes
  <2>2. turn'.written <= Len(audit')
    BY <1>2, <2>1, WrittenCarries
  <2>. QED
    BY <1>6, <2>1, <2>2, CallStores DEF ToldInv
<1>. QED
  BY <1>3, <1>4, <1>5, <1>6

LEMMA ToldSearching ==
  ASSUME TablesInv, TurnInv, ToldInv,
         SearchIndex \/ SearchNothing \/ SearchRows \/ FetchNext \/ Rank \/ Compose \/ Composed
  PROVE  ToldInv'
<1>1. turn \in Turns
  BY DEF TurnInv
<1>2. ConversationNext
  BY DEF ConversationNext, Turn
<1>3. CASE SearchIndex \/ SearchNothing \/ SearchRows
  <2>1. Carries
    BY <1>1, <1>3 DEF SearchIndex, SearchNothing, SearchRows, Carries, Turns
  <2>2. at = "search" /\ at' = "fetch" /\ (turn.query = {} \/ FtsUsable)
    BY <1>3 DEF SearchIndex, SearchNothing, SearchRows, Goes, FtsUsable
  <2>. QED
    BY <1>2, <2>1, <2>2, ToldOn
<1>4. CASE FetchNext \/ Rank \/ Compose \/ Composed
  <2>1. Carries
    BY <1>1, <1>4 DEF FetchNext, Rank, Compose, Composed, Carries, Turns
  <2>2. at \in {"fetch", "compose"} /\ at' \in {"fetch", "compose", "generate"}
    BY <1>4 DEF FetchNext, Rank, Compose, Composed, Goes
  <2>. QED
    BY <1>2, <2>1, <2>2, ToldOn
<1>. QED
  BY <1>3, <1>4

LEMMA ToldMeanwhile ==
  ASSUME TablesInv, TurnInv, ToldInv, Others
  PROVE  ToldInv'
<1>1. ConversationNext
  BY DEF ConversationNext
<1>2. turn' = turn /\ at' = at /\ task' = task
  BY DEF Others
<1>3. CASE at \in {"prompt", "command"}
  BY <1>1, <1>2, <1>3, ToldBetween
<1>4. CASE at = "writing"
  <2>1. turn'.written <= Len(audit')
    BY <1>1, <1>2, WrittenCarries
  <2>. QED
    BY <1>2, <1>4, <2>1 DEF ToldInv, Asked
<1>5. CASE at \in {"search", "fetch"}
  BY <1>1, <1>2, <1>5, ToldOn DEF Carries
<1>. QED
  BY <1>3, <1>4, <1>5 DEF Others, Enter

LEMMA ToldKept ==
  ASSUME TablesInv, TurnInv, ToldInv, [ConversationNext]_conversation
  PROVE  ToldInv'
<1>1. CASE Respond \/ Command
  <2>1. ConversationNext
    BY <1>1 DEF ConversationNext, Turn
  <2>2. at' \in {"prompt", "command", "dead"} /\ turn' \in {turn, NoTurn}
    BY <1>1
    DEF Respond, Command, CommandApplies, CommandRaises, CommandPlans, CommandWorks,
        CommandTooLate, Stays, Goes
  <2>. QED
    BY <2>1, <2>2, ToldBetween
<1>2. CASE UNCHANGED conversation
  BY <1>2 DEF conversation, vars, repoVars, ToldInv, Stored, FtsUsable, Asked
<1>. QED
  BY <1>1, <1>2, ToldWriting, ToldSearching, ToldDegraded, ToldMeanwhile DEF ConversationNext, Turn

LEMMA ToldInvariance == ConversationSpec => []ToldInv
<1>1. ConversationInit => ToldInv
  <2>. SUFFICES ASSUME ConversationInit PROVE ToldInv
    OBVIOUS
  <2>1. Len(audit) \in Nat
    BY TablesInitially DEF TablesInv, TypeInv, TypeOK
  <2>. QED
    BY <2>1 DEF ConversationInit, NoTurn, ToldInv
<1>. QED
  BY <1>1, ToldKept, TablesInvariance, TurnInvariance, PTL DEF ConversationSpec

(* DegradedIsTold: whatever the other processes do between capture's       *)
(* decision and its call, and in whatever build the session runs.          *)
THEOREM SilenceMeansDone == ConversationSpec => []DegradedIsTold
<1>1. ToldInv => DegradedIsTold
  BY DEF ToldInv, Stored, DegradedIsTold
<1>. QED
  BY <1>1, ToldInvariance, PTL

-----------------------------------------------------------------------------
(* What recall finds while nobody writes. *)

(* "Older" as in the ORDER BY of list_memories: r and what precedes it.    *)
Older(r) == {s \in ActiveOf(User, memories) : s.created <= r.created}

Attainable(r) ==
  IF indexed
    THEN r.id \notin Unindexed /\ Cardinality(Matching) <= CandidateLimit
    ELSE Cardinality(Older(r)) <= MaxRows

Covered ==
  \A r \in ActiveOf(User, memories) :
    r.content \in turn.query /\ Attainable(r) => r \in turn.results \/ r.id \in turn.candidates

FoundInv ==
  (at = "fetch" /\ Len(audit) = turn.written) =>
    Cardinality(turn.results) >= Limit \/ Covered

LEMMA MatchingFinite ==
  ASSUME TablesInv
  PROVE  IsFiniteSet(Matching) /\ Cardinality(Matching) \in Nat
<1>1. Matching \in SUBSET Ids
  BY DEF Matching, TablesInv, TypeInv, TypeOK
<1>2. IsFiniteSet(Matching)
  BY <1>1, HeldAssumption, FS_Subset
<1>. QED
  BY <1>2, FS_CardinalityType

LEMMA IndexFinds ==
  ASSUME TablesInv, TurnInv, SearchIndex
  PROVE  FoundInv'
<1>1. PICK best \in SUBSET Matching :
        /\ Cardinality(best) = Smaller(CandidateLimit, Cardinality(Matching))
        /\ turn' = [turn EXCEPT !.candidates = best]
  BY DEF SearchIndex
<1>2. turn'.candidates = best /\ turn'.query = turn.query
  BY <1>1 DEF TurnInv, Turns
<1>3. memories' = memories /\ fts' = fts /\ indexed
  BY DEF SearchIndex, vars, repoVars
<1>4. Matching' = Matching
  BY <1>2, <1>3 DEF Matching
<1>5. CandidateLimit \in Nat /\ CandidateLimit' = CandidateLimit /\ indexed' = indexed
  BY LimitAssumption DEF CandidateLimit, Smaller, SearchIndex, vars, repoVars
<1>6. ASSUME NEW r \in ActiveOf(User, memories), r.content \in turn.query, Attainable(r)
      PROVE  r.id \in best
  <2>1. r.id \notin Unindexed /\ Cardinality(Matching) <= CandidateLimit
    BY <1>3, <1>6 DEF Attainable
  <2>2. Cardinality(best) = Cardinality(Matching)
    BY <1>1, <1>5, <2>1, MatchingFinite DEF Smaller
  <2>3. best = Matching
    BY <2>2, MatchingFinite, FS_Subset
  <2>4. <<r.id, r.content>> \in fts
    BY <1>3, <2>1 DEF ActiveOf, TablesInv, Searchable
  <2>5. <<r.id, r.content>>[1] = r.id /\ <<r.id, r.content>>[2] = r.content
    OBVIOUS
  <2>. QED
    BY <1>6, <2>3, <2>4, <2>5 DEF Matching
<1>7. ActiveOf(User, memories)' = ActiveOf(User, memories)
  BY <1>3 DEF ActiveOf
<1>8. \A r \in ActiveOf(User, memories) :
        Attainable(r)' <=> r.id \notin Unindexed /\ Cardinality(Matching) <= CandidateLimit
  BY <1>3, <1>4, <1>5 DEF Attainable
<1>9. Covered'
  BY <1>2, <1>3, <1>6, <1>7, <1>8 DEF Covered, Attainable
<1>. QED
  BY <1>9 DEF FoundInv

(* The listed rows are the oldest ones: a row is among them if it and what *)
(* is as old are no more than are listed.                                  *)
LEMMA OldestListed ==
  ASSUME TablesInv, NEW rows, rows = ActiveOf(User, memories),
         NEW listed \in Listed(rows),
         NEW r \in rows, Cardinality(Older(r)) <= MaxRows
  PROVE  r \in listed
<1>. SUFFICES ASSUME r \notin listed PROVE FALSE
  OBVIOUS
<1>1. /\ listed \subseteq rows
      /\ Cardinality(listed) = Smaller(MaxRows, Cardinality(rows))
      /\ \A s \in listed : s.created <= r.created
  BY DEF Listed
<1>2. rows \in SUBSET memories /\ Older(r) \in SUBSET memories
  BY DEF ActiveOf, Older
<1>3. IsFiniteSet(rows) /\ IsFiniteSet(Older(r))
  BY <1>2, FS_Subset DEF TablesInv
<1>4. r \in Older(r)
  <2>1. r.created \in Nat
    BY <1>2, TimeAssumption DEF TablesInv, TypeInv, TypeOK, Record, Times
  <2>. QED
    BY <2>1 DEF Older
<1>5. listed \in SUBSET (Older(r) \ {r})
  BY <1>1 DEF Older
<1>6. /\ IsFiniteSet(Older(r) \ {r})
      /\ Cardinality(Older(r) \ {r}) = Cardinality(Older(r)) - 1
  BY <1>3, <1>4, FS_RemoveElement
<1>7. Cardinality(listed) <= Cardinality(Older(r)) - 1
  BY <1>5, <1>6, FS_Subset
<1>8. /\ Cardinality(rows) \in Nat /\ Cardinality(Older(r)) \in Nat
      /\ Cardinality(listed) \in Nat
  BY <1>1, <1>3, FS_CardinalityType, FS_Subset
<1>9. Cardinality(listed) = Cardinality(rows)
  BY <1>1, <1>7, <1>8, LimitAssumption DEF Smaller
<1>10. listed = rows
  BY <1>1, <1>3, <1>9, FS_Subset
<1>. QED
  BY <1>10

LEMMA RowsFind ==
  ASSUME TablesInv, TurnInv, SearchRows
  PROVE  FoundInv'
<1>1. PICK listed \in Listed(ActiveOf(User, memories)) :
        LET matching == {r \in listed : r.content \in turn.query}
        IN  \E best \in SUBSET matching :
              /\ Cardinality(best) = Smaller(Limit, Cardinality(matching))
              /\ turn' = [turn EXCEPT !.results = best]
  BY DEF SearchRows
<1>. DEFINE matching == {r \in listed : r.content \in turn.query}
<1>2. PICK best \in SUBSET matching :
        /\ Cardinality(best) = Smaller(Limit, Cardinality(matching))
        /\ turn' = [turn EXCEPT !.results = best]
  BY <1>1
<1>3. turn'.results = best /\ turn'.query = turn.query
  BY <1>2 DEF TurnInv, Turns
<1>4. memories' = memories /\ ~ indexed /\ ~ indexed'
  BY DEF SearchRows, vars, repoVars
<1>5. matching \in SUBSET memories
  BY DEF ActiveOf, Listed
<1>6. IsFiniteSet(matching) /\ Cardinality(matching) \in Nat
  BY <1>5, FS_Subset, FS_CardinalityType DEF TablesInv
<1>7. ASSUME NEW r \in ActiveOf(User, memories), r.content \in turn.query, Attainable(r)
      PROVE  r \in matching
  BY <1>4, <1>7, OldestListed DEF Attainable
<1>. HIDE DEF matching
<1>8. CASE Cardinality(best) >= Limit
  BY <1>3, <1>8 DEF FoundInv
<1>9. CASE ~ (Cardinality(best) >= Limit)
  <2>1. Cardinality(best) = Cardinality(matching)
    BY <1>2, <1>6, <1>9, LimitAssumption DEF Smaller
  <2>2. best = matching
    BY <1>6, <2>1, FS_Subset
  <2>3. ActiveOf(User, memories)' = ActiveOf(User, memories)
    BY <1>4 DEF ActiveOf
  <2>4. \A r \in ActiveOf(User, memories) : Attainable(r)' => Attainable(r)
    BY <1>4 DEF Attainable, Older, ActiveOf
  <2>5. Covered'
    BY <1>3, <1>7, <2>2, <2>3, <2>4 DEF Covered, Attainable, Older
  <2>. QED
    BY <2>5 DEF FoundInv
<1>. QED
  BY <1>8, <1>9

LEMMA FetchKeepsFinding ==
  ASSUME TurnInv, FoundInv, FetchNext
  PROVE  FoundInv'
<1>1. PICK id \in turn.candidates :
        turn' = [turn EXCEPT !.candidates = @ \ {id}, !.results = @ \cup Fetched(id)]
  BY DEF FetchNext
<1>2. /\ turn'.candidates = turn.candidates \ {id}
      /\ turn'.results = turn.results \cup Fetched(id)
      /\ turn'.query = turn.query /\ turn'.written = turn.written
  BY <1>1 DEF TurnInv, Turns
<1>3. memories' = memories /\ fts' = fts /\ audit' = audit /\ at = "fetch"
  BY DEF FetchNext, vars, repoVars
<1>4. \A r : Attainable(r)' <=> Attainable(r)
  <2>1. Matching' = Matching /\ CandidateLimit' = CandidateLimit /\ indexed' = indexed
    BY <1>2, <1>3 DEF Matching, CandidateLimit, FetchNext, vars, repoVars
  <2>. QED
    BY <1>3, <2>1 DEF Attainable, Older, ActiveOf
<1>5. ~ (Cardinality(turn.results) >= Limit)
  BY DEF FetchNext, Enough
<1>6. Covered => Covered'
  BY <1>2, <1>3, <1>4 DEF Covered, ActiveOf, Fetched
<1>. QED
  BY <1>2, <1>3, <1>5, <1>6 DEF FoundInv

LEMMA FoundKept ==
  ASSUME TablesInv, TurnInv, ToldInv, FoundInv, [ConversationNext]_conversation
  PROVE  FoundInv'
<1>1. CASE SearchNothing
  <2>1. turn'.query = {}
    BY <1>1 DEF SearchNothing
  <2>. QED
    BY <2>1 DEF FoundInv, Covered
<1>2. CASE Others
  <2>1. TableStep /\ TablesOK
    BY <1>2, OthersWrite DEF TablesInv, TypeInv, TypeOK, TablesOK
  <2>2. Len(audit) < Len(audit') /\ Len(audit) \in Nat /\ Len(audit') \in Nat
    BY <1>2, <2>1, TablesAudited, TrailGrows DEF ConversationNext
  <2>3. turn'.written = turn.written /\ turn.written \in Nat /\ turn.written <= Len(audit)
    BY <1>2 DEF Others, TurnInv, Turns, ToldInv
  <2>4. Len(audit') # turn'.written
    BY <2>2, <2>3
  <2>. QED
    BY <2>4 DEF FoundInv
<1>3. CASE UNCHANGED conversation
  BY <1>3 DEF conversation, vars, repoVars, FoundInv, Covered, Attainable, Older, Matching,
              CandidateLimit, ActiveOf
<1>4. CASE \/ ReadMessage \/ CaptureNothing \/ CapturePlans \/ CaptureApplies \/ CaptureFails
           \/ Rank \/ Compose \/ Composed \/ RetrievalFails \/ Respond \/ Command
  <2>1. at' # "fetch"
    BY <1>4
    DEF ReadMessage, CaptureNothing, CapturePlans, CaptureApplies, CaptureFails, Rank, Compose,
        Composed, RetrievalFails, Respond, Command, CommandApplies, CommandRaises, CommandPlans,
        CommandWorks, CommandTooLate, Stays, Goes
  <2>. QED
    BY <2>1 DEF FoundInv
<1>. QED
  BY <1>1, <1>2, <1>3, <1>4, IndexFinds, RowsFind, FetchKeepsFinding DEF ConversationNext, Turn

LEMMA FoundInvariance == ConversationSpec => []FoundInv
<1>1. ConversationInit => FoundInv
  BY DEF ConversationInit, FoundInv
<1>. QED
  BY <1>1, FoundKept, TablesInvariance, TurnInvariance, ToldInvariance, PTL DEF ConversationSpec

LEMMA CandidatesSuffice == Smaller(MaxCandidates, Limit * Multiplier) <= CandidateLimit
<1>1. Limit * Multiplier \in Nat
  BY LimitAssumption
<1>. QED
  BY <1>1, LimitAssumption DEF Smaller, CandidateLimit

(* NothingMissed, for every limit, multiplier and cap on the candidates    *)
(* and on the rows of the fallback, whatever part of the memories an       *)
(* earlier build left out of the index.                                    *)
THEOREM RecallMissesNothing == ConversationSpec => []NothingMissed
<1>1. TablesInv /\ FoundInv => NothingMissed
  <2>. SUFFICES ASSUME TablesInv, FoundInv, at = "fetch", Enough, Len(audit) = turn.written,
                       ~ (Cardinality(turn.results) >= Limit),
                       NEW r \in ActiveOf(User, memories), r.content \in turn.query, Reachable(r)
                PROVE  r \in turn.results
    BY DEF NothingMissed
  <2>1. Smaller(MaxCandidates, Limit * Multiplier) \in Nat /\ CandidateLimit \in Nat
    BY LimitAssumption DEF Smaller, CandidateLimit
  <2>2. Attainable(r)
    BY <2>1, MatchingFinite, CandidatesSuffice DEF Attainable, Reachable, Older
  <2>3. turn.candidates = {}
    BY DEF Enough
  <2>. QED
    BY <2>2, <2>3 DEF FoundInv, Covered
<1>. QED
  BY <1>1, FoundInvariance, TablesInvariance, PTL
=============================================================================
