---------------------------- MODULE Conversation ----------------------------
(***************************************************************************)
(* An interactive session (chat/session.py) over the chat engine           *)
(* (chat/engine.py): a message runs through capture, retrieval             *)
(* (memory/recall), ranking, composition and the backend; a slash command  *)
(* runs one governance operation or job.  Meanwhile other processes use    *)
(* the same file through the same repository.                              *)
(*                                                                         *)
(* Left open: which contents match a message, and the order the scores     *)
(* put them in.                                                            *)
(***************************************************************************)
EXTENDS Assistant, Composer, SequencesExt

CONSTANTS
  Session,        \* the process of the session, one of Processes
  User,           \* its owner id
  Builds,         \* the <<indexed, fts5>> a session may find
  Limit,          \* retrieve_limit
  Multiplier,     \* candidate_multiplier
  MaxCandidates,  \* _MAX_CANDIDATES of recall/fts.py
  MaxRows,        \* _MAX_CANDIDATES of recall/bm25.py
  Unindexed,      \* ids of what a build without FTS5 has written
  MaxHeld,        \* bound: memories earlier sessions left
  MaxLines        \* bound: lines the user enters

ASSUME SessionAssumption == Session \in Processes /\ User \in Owners
ASSUME LimitAssumption ==
  Limit \in Nat /\ Multiplier \in Nat /\ MaxCandidates \in Nat /\ MaxRows \in Nat
ASSUME ContentAssumption == Contents \subseteq DOMAIN Size

(* Earlier sessions drew an id and wrote an event for what they left. *)
ASSUME HeldAssumption ==
  /\ IsFiniteSet(Ids)
  /\ MaxHeld \in Nat /\ MaxHeld <= Cardinality(Ids) /\ MaxHeld <= MaxEvents

VARIABLES
  at,         \* where the session is; "dead" when an exception escaped
  turn,       \* the turn that is being answered
  wasActive,  \* history: the user's memories that were active during the turn
  lines       \* lines read so far

conversation == <<vars, composeVars, at, turn, wasActive, lines>>

ActiveOf(o, table) == {r \in table : r.owner = o /\ r.status = "active"}

(* "asked" is the memory that capture decided to write; "written" is       *)
(* history: the length of the audit trail when the turn began.             *)
NoTurn == [query |-> {}, asked |-> Null, candidates |-> {}, results |-> {}, facts |-> {},
           degraded |-> FALSE, written |-> 0]

-----------------------------------------------------------------------------
(* A file as earlier sessions left it: memories created and still active.  *)
(* What a build without FTS5 wrote is in no index: the next build with it  *)
(* creates an empty one and never fills it.                                *)
HeldBy(f) ==
  [i \in DOMAIN f |-> MakeMemory(SetToSeq(Ids)[i], f[i][1], f[i][2], f[i][3], "durable", Null, Null, 0)]

Held == {HeldBy(f) : f \in UNION {[1 .. n -> Owners \X Keys \X Contents] : n \in 0 .. MaxHeld}}

ConversationInit ==
  /\ \E held \in Held, build \in Builds :
       /\ memories = ToSet(held)
       /\ fts = IF build[1]
                  THEN {<<r.id, r.content>> : r \in {s \in ToSet(held) : s.id \notin Unindexed}}
                  ELSE {}
       /\ audit = [i \in DOMAIN held |-> Event(held[i], held[i].owner, "create", 0, Null, Null, "active")]
       /\ indexed = build[1] /\ fts5 = build[2]
  /\ now = MaxTime   \* it stands still during a session
  /\ task = [p \in Processes |-> Null]
  /\ ComposeInit
  /\ at = "prompt" /\ turn = NoTurn /\ wasActive = {} /\ lines = 0

Goes(label) == at' = label

(* The next line is read; at the end of the input the session is over.     *)
Enter == at = "prompt" /\ lines < MaxLines

ReadLine == Enter /\ lines' = lines + 1

(* New ids are random; which unused one is drawn tells nothing apart.      *)
NextId == CHOOSE id \in FreshIds : TRUE

DrawsNextId == "record" \in DOMAIN task'[Session] => task'[Session].record.id = NextId

-----------------------------------------------------------------------------
(* run_session: a line that is no command starts a turn.                   *)
ReadMessage ==
  /\ ReadLine
  /\ \E query \in SUBSET Contents : turn' = [NoTurn EXCEPT !.query = query, !.written = Len(audit)]
  /\ wasActive' = ActiveOf(User, memories)
  /\ Goes("write")
  /\ UNCHANGED <<vars, composeVars>>

(* _write_path: capture decides on nothing, or on one repository call.     *)
CaptureNothing ==
  /\ at = "write"
  /\ Goes("search")
  /\ UNCHANGED <<vars, composeVars, turn, wasActive, lines>>

CapturePlans ==
  /\ at = "write"
  /\ PlanRemember(Session) \/ PlanForget(Session)
  /\ task'[Session].owner = User /\ DrawsNextId
  /\ turn' = [turn EXCEPT !.asked = IF task'[Session].job = "remember"
                                       THEN task'[Session].record.id
                                       ELSE task'[Session].old]
  /\ Goes("writing")
  /\ UNCHANGED <<composeVars, wasActive, lines>>

Remembers(table) == wasActive' = wasActive \cup ActiveOf(User, table)

CaptureApplies ==
  /\ at = "writing"
  /\ Remembered(Session) \/ SupersededOld(Session) \/ Forgotten(Session)
  /\ Remembers(memories')
  /\ Goes("search")
  /\ UNCHANGED <<composeVars, turn, lines>>

(* Mutant of CaptureFails: the failure is swallowed. *)
CaptureFailsSilently ==
  /\ at \in {"write", "writing"}
  /\ Becomes(Session, Null)
  /\ Goes("search")
  /\ UNCHANGED <<repoVars, now, composeVars, turn, wasActive, lines>>

(* An exception anywhere in capture is isolated.                           *)
CaptureFails ==
  /\ at \in {"write", "writing"}
  /\ Becomes(Session, Null)
  /\ turn' = [turn EXCEPT !.degraded = TRUE]
  /\ Goes("search")
  /\ UNCHANGED <<repoVars, now, composeVars, wasActive, lines>>

-----------------------------------------------------------------------------
(* retrieve: Fts5Retriever.search, or Bm25Retriever.search without an index *)
Smaller(m, n) == IF m < n THEN m ELSE n

(* Mutant of CandidateLimit: no more candidates than results are wanted. *)
LimitItself == Smaller(MaxCandidates, Limit)

CandidateLimit == Smaller(MaxCandidates, IF Limit * Multiplier < Limit THEN Limit ELSE Limit * Multiplier)

(* MATCH ... ORDER BY rank LIMIT: entries of every owner, the best ones.   *)
Matching == {e[1] : e \in {f \in fts : f[2] \in turn.query}}

SearchIndex ==
  /\ at = "search" /\ indexed /\ fts5 /\ turn.query # {}
  /\ \E best \in SUBSET Matching :
       /\ Cardinality(best) = Smaller(CandidateLimit, Cardinality(Matching))
       /\ turn' = [turn EXCEPT !.candidates = best]
  /\ Goes("fetch")
  /\ UNCHANGED <<vars, composeVars, wasActive, lines>>

(* Mutant of Fetched: the candidate is fetched whatever its owner. *)
FetchedFromAnyone(id) == {r \in memories : r.id = id /\ r.status = "active"}

(* get: owner-scoped, active-only *)
Fetched(id) == {r \in memories : r.owner = User /\ r.id = id /\ r.status = "active"}

Enough == Cardinality(turn.results) >= Limit \/ turn.candidates = {}

FetchNext ==
  /\ at = "fetch" /\ ~ Enough
  /\ \E id \in turn.candidates :
       turn' = [turn EXCEPT !.candidates = @ \ {id}, !.results = @ \cup Fetched(id)]
  /\ UNCHANGED <<vars, composeVars, at, wasActive, lines>>

(* A message without a term: nothing is searched. *)
SearchNothing ==
  /\ at = "search" /\ turn.query = {}
  /\ Goes("fetch")
  /\ UNCHANGED <<vars, composeVars, turn, wasActive, lines>>

(* list_memories: ORDER BY created_at, id LIMIT; the ids are random.       *)
Listed(rows) ==
  {some \in SUBSET rows :
     /\ Cardinality(some) = Smaller(MaxRows, Cardinality(rows))
     /\ \A r \in some, other \in rows \ some : r.created <= other.created}

SearchRows ==
  /\ at = "search" /\ ~ indexed /\ turn.query # {}
  /\ \E listed \in Listed(ActiveOf(User, memories)) :
       LET matching == {r \in listed : r.content \in turn.query}
       IN  \E best \in SUBSET matching :
             /\ Cardinality(best) = Smaller(Limit, Cardinality(matching))
             /\ turn' = [turn EXCEPT !.results = best]
  /\ Goes("fetch")
  /\ UNCHANGED <<vars, composeVars, wasActive, lines>>

(* rank, compose_memory_context; "/debug" adds the id to every line.       *)
Rank ==
  /\ at = "fetch" /\ Enough
  /\ \E order \in {s \in [1 .. Cardinality(turn.results) -> turn.results] : IsInjective(s)},
        debug \in BOOLEAN :
       StartCompose(order, debug)
  /\ Goes("compose")
  /\ UNCHANGED <<vars, turn, wasActive, lines>>

Compose ==
  /\ at = "compose"
  /\ ComposeStep
  /\ UNCHANGED <<vars, at, turn, wasActive, lines>>

Composed ==
  /\ at = "compose" /\ phase = "done"
  /\ turn' = [turn EXCEPT !.facts = {items[i].memory : i \in DOMAIN items}]
  /\ Discard
  /\ Goes("generate")
  /\ UNCHANGED <<vars, wasActive, lines>>

(* Mutant of RetrievalFails: nothing catches the exception. *)
RetrievalFailsHard ==
  /\ at \in {"search", "fetch", "compose"}
  /\ Goes("dead")
  /\ UNCHANGED <<vars, composeVars, turn, wasActive, lines>>

(* _read_path isolates every exception; a build without FTS5 always raises *)
(* on a file with an index.                                                *)
RetrievalFails ==
  /\ at \in {"search", "fetch", "compose"}
  /\ turn' = [turn EXCEPT !.degraded = TRUE, !.facts = {}]
  /\ Discard
  /\ Goes("generate")
  /\ UNCHANGED <<vars, wasActive, lines>>

(* _generate answers with a fixed text when the backend fails.             *)
Respond ==
  /\ at = "generate"
  /\ turn' = NoTurn /\ wasActive' = {}
  /\ Goes("prompt")
  /\ UNCHANGED <<vars, composeVars, lines>>

-----------------------------------------------------------------------------
(* _handle_command *)
Stays == Goes("prompt") /\ UNCHANGED <<composeVars, turn, wasActive>>

Accepts(command, r) ==
  /\ FtsUsable
  /\ CASE command = "forget"    -> CanTransition("forget", r.status)
       [] command = "archive"   -> CanTransition("archive", r.status)
       [] command = "reinforce" -> r.status = "active"
       [] command = "correct"   ->
            r.status = "active" => ValidRecord(Replacement(CHOOSE id \in Ids : id # r.id, r, r.content, now))

(* "/forget", "/archive" and "/reinforce" of a memory that accepts it      *)
CommandApplies ==
  /\ ReadLine
  /\ \E r \in memories :
       /\ r.owner = User
       /\ \/ Accepts("forget", r) /\ Forget(r, now, Null)
          \/ Accepts("archive", r) /\ Archive(r, now)
          \/ Accepts("reinforce", r) /\ Reinforce(r, now)
  /\ Stays
  /\ UNCHANGED <<now, task>>

(* Only NotFoundError (and in _correct GovernanceError) is caught.         *)
CommandRaises ==
  /\ ReadLine
  /\ \E r \in memories, command \in {"forget", "archive", "reinforce", "correct"} :
       r.owner = User /\ ~ Accepts(command, r)
  /\ Goes("dead")
  /\ UNCHANGED <<vars, composeVars, turn, wasActive>>

(* "/correct" and "/delete-all" read first.  "/fade" is the fade job of    *)
(* Assistant and not a step of the session here.                           *)
CommandPlans ==
  /\ ReadLine
  /\ PlanCorrect(Session) \/ StartDeleteAll(Session)
  /\ task'[Session].owner = User /\ DrawsNextId
  /\ Goes("command")
  /\ UNCHANGED <<composeVars, turn, wasActive>>

CommandWorks ==
  /\ at = "command"
  /\ SupersededOld(Session) \/ DeleteNext(Session) \/ DeleteAllDone(Session)
  /\ Goes(IF task'[Session] = Null THEN "prompt" ELSE "command")
  /\ UNCHANGED <<composeVars, turn, wasActive, lines>>

Targets ==
  IF task[Session].job = "delete_all" THEN task[Session].left ELSE {task[Session].old}

(* Another process was faster.  _correct reports a missing row,            *)
(* "/delete-all" does not; a row that is no longer active raises.          *)
CommandTooLate ==
  /\ at = "command"
  /\ \E id \in Targets :
       \/ Row(User, id) = {}
       \/ task[Session].job = "supersede" /\ \E r \in Row(User, id) : r.status # "active"
  /\ Becomes(Session, Null)
  /\ Goes(IF task[Session].job = "supersede" /\ Row(User, task[Session].old) = {}
            THEN "prompt" ELSE "dead")
  /\ UNCHANGED <<repoVars, now, composeVars, turn, wasActive, lines>>

-----------------------------------------------------------------------------
(* Other processes: a call of any owner on any memory.  Where the session  *)
(* has not read the tables yet, or works on what it has read, calls count  *)
(* as made before.                                                         *)
Others ==
  /\ Enter \/ at \in {"writing", "search", "fetch", "command"}
  /\ \/ \E o \in Owners, key \in Keys, content \in Contents :
          FreshIds # {} /\ Create(MakeMemory(NextId, o, key, content, "durable", Null, Null, now), Null)
     \/ \E cur \in memories :
          \/ Forget(cur, now, Null)
          \/ HardDelete(cur, now)
          \/ \E retention \in Policies : SetPolicy(cur, retention, now, now)
  /\ IF at \in {"prompt", "command"}
       THEN UNCHANGED wasActive
       ELSE Remembers(memories')
  /\ UNCHANGED <<now, task, composeVars, at, turn, lines>>

Turn ==
  \/ CaptureNothing \/ CapturePlans \/ CaptureApplies \/ CaptureFails
  \/ SearchIndex \/ FetchNext \/ SearchNothing \/ SearchRows \/ Rank \/ Compose \/ Composed
  \/ RetrievalFails \/ Respond

Command == CommandApplies \/ CommandRaises \/ CommandPlans \/ CommandWorks \/ CommandTooLate

ConversationNext == ReadMessage \/ Turn \/ Command \/ Others

(* The session's process goes on with a turn it has begun.                 *)
ConversationSpec ==
  ConversationInit /\ [][ConversationNext]_conversation /\ WF_conversation(Turn)

-----------------------------------------------------------------------------
(* Invariant 3, ADR-016 point 3: every message is answered, whatever fails *)
(* in capture, retrieval or the backend and whatever other processes do.   *)
EveryMessageAnswered == at = "write" ~> at = "prompt"

(* Invariants 1 and 2 at the context boundary: what reaches the backend    *)
(* belongs to the user and was active at some moment of this very turn,    *)
(* although the index holds every owner's memories and other processes     *)
(* forget and delete between the search, the fetches and the generation.   *)
ContextWasActive ==
  at = "generate" => turn.facts \subseteq wasActive

(* ADR-016 point 3: an answer that does not say "degraded" has stored what *)
(* capture decided to store, as its audit event shows, and had retrieved   *)
(* over a search that worked.                                              *)
DegradedIsTold ==
  (at = "generate" /\ ~ turn.degraded) =>
    /\ turn.asked # Null =>
         \E i \in turn.written + 1 .. Len(audit) :
           audit[i].memory = turn.asked /\ audit[i].action \in {"create", "supersede", "forget"}
    /\ turn.query # {} => FtsUsable

(* What a search can reach.  With an index: what was indexed when it was   *)
(* written, while the matching entries, of all owners, do not exceed the   *)
(* candidates.  Without: the oldest MaxRows memories of the user.          *)
Reachable(r) ==
  IF indexed
    THEN r.id \notin Unindexed /\ Cardinality(Matching) <= Smaller(MaxCandidates, Limit * Multiplier)
    ELSE Cardinality({s \in ActiveOf(User, memories) : s.created <= r.created}) <= MaxRows

(* Recall misses nothing it can reach: a memory of the user that matches   *)
(* is found unless enough others were, although candidates of other owners *)
(* and of memories no longer active take up places, whatever has been      *)
(* written before the turn.                                                *)
NothingMissed ==
  (at = "fetch" /\ Enough /\ Len(audit) = turn.written /\ FtsUsable) =>
    \/ Cardinality(turn.results) >= Limit
    \/ \A r \in ActiveOf(User, memories) :
         r.content \in turn.query /\ Reachable(r) => r \in turn.results

=============================================================================
