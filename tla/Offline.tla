------------------------------ MODULE Offline -------------------------------
(***************************************************************************)
(* The commands of cli/main.py that run without a user at the prompt:      *)
(* "aira train", "aira bench" and "aira memeval".  One command runs per    *)
(* process; what a training leaves for an evaluation is the checkpoint     *)
(* file, which Evaluation takes as readable or not.  The two evaluations   *)
(* drive the assistant's own capture and composing.                        *)
(***************************************************************************)
EXTENDS Training, Evaluation, Composer, Capture

CONSTANTS
  RankedKeys,  \* canonical keys of ranked memories
  MaxRanked,   \* bound: length of a ranked list
  MaxStored    \* bound: memories in a store that takes another turn

ASSUME RankedAssumption == MaxRanked \in Nat

VARIABLE command

offlineVars == <<vars, evalVars, composeVars, captureVars, command>>

RankedLists ==
  {[i \in 1 .. n |-> [id |-> i, key |-> f[i].key, content |-> f[i].content]] :
     f \in [1 .. MaxRanked -> [key: RankedKeys, content: DOMAIN Size]], n \in 0 .. MaxRanked}

(* main: dispatch on the subcommand *)
OfflineInit ==
  /\ command \in {"train", "bench", "memeval"}
  /\ Init
  /\ EvalInit
  /\ ComposeInit
  /\ CaptureInit
  /\ command # "train" =>
       dataset = [train |-> 1, val |-> 0] /\ context = CHOOSE c \in ContextLengths : TRUE
  /\ stage = IF command = "bench" THEN "bench" ELSE "tasks"

(* _aira_context; bound: only the first task's context is composed step by *)
(* step, a later one holds the expected fact or not.                       *)
AiraContext ==
  /\ stage = "tasks" /\ shown.tasks = 0
  /\ \/ \E list \in RankedLists : StartCompose(list, FALSE)
     \/ ComposeStep
  /\ UNCHANGED evalVars

FirstTask ==
  /\ phase = "done"
  /\ \E fact \in DOMAIN Size :
       RunTask({\E i \in DOMAIN items : items[i].memory.content = fact})
  /\ Discard

LaterTask ==
  /\ shown.tasks > 0
  /\ RunTask(BOOLEAN)
  /\ UNCHANGED composeVars

(* The setup of a scenario, turn after turn; bound: a turn with secrets is *)
(* the only one.                                                           *)
Setup ==
  /\ stage = "bench" /\ outcomes = <<>> /\ scan = NoSecrets
  /\ \/ Cardinality(store) <= MaxStored /\ \E text \in Texts : CaptureTurn(text)
     \/ store = {} /\ \E found \in SortedFindings : CaptureSecret(found)
  /\ UNCHANGED evalVars

(* A scenario is judged without a setup: Evaluation leaves open what its   *)
(* engine holds.                                                           *)
Judge ==
  /\ store = {} /\ scan = NoSecrets
  /\ RunScenario \/ ReportBench
  /\ UNCHANGED captureVars

OfflineNext ==
  \/ /\ command = "train" /\ TrainNext
     /\ UNCHANGED <<evalVars, composeVars, captureVars, command>>
  \/ /\ command = "bench" /\ (Setup \/ Judge)
     /\ UNCHANGED <<vars, composeVars, command>>
  \/ /\ command = "memeval" /\ (AiraContext \/ FirstTask \/ LaterTask)
     /\ UNCHANGED <<vars, captureVars, command>>
  \/ /\ command = "memeval" /\ phase = "idle" /\ (LoadFails \/ Conclude)
     /\ UNCHANGED <<vars, composeVars, captureVars, command>>

OfflineSpec == OfflineInit /\ [][OfflineNext]_offlineVars
=============================================================================
