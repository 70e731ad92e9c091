------------------------------ MODULE Training ------------------------------
(***************************************************************************)
(* Training of Aira Core (core/train.py, data.py, checkpoint.py) by one    *)
(* Python process after the other: "aira train", or a script that resumes  *)
(* a checkpoint and trains on.  The user may press Ctrl-C, and the system  *)
(* may kill the process, between any two statements and in the middle of   *)
(* the optimizer's update or of torch.save.                                *)
(*                                                                         *)
(* Tensors are abstracted to the number of updates applied to them.  A     *)
(* corpus is the length of its two splits, a batch the positions it may    *)
(* start from.                                                             *)
(***************************************************************************)
EXTENDS Naturals, Integers

CONSTANTS
  StepCounts,     \* values of TrainConfig.steps ("aira train --steps")
  BlockSize,      \* TrainConfig.block_size
  ContextLengths, \* values of [model].context_length
  MaxSplit,       \* bound: tokens in a split
  MaxRuns,        \* bound: calls of train
  MaxInterrupts,  \* bound: times the user presses Ctrl-C
  MaxKills,       \* bound: killed processes
  Torn, Absent    \* a checkpoint file cut off while it was written, and none

ASSUME ConfigAssumption ==
  /\ StepCounts \subseteq Nat
  /\ BlockSize \in Nat \ {0} /\ ContextLengths \subseteq Nat \ {0}
  /\ MaxSplit \in Nat

(* What torch.load returns for a file torch.save has written to its end:   *)
(* "step" and the weights, and as history the updates of the call that     *)
(* saved it and whether that call ran to its end.                          *)
Checkpoint ==
  [step: Nat, updates: Nat, partial: BOOLEAN, run: Int, whole: BOOLEAN]

ASSUME FileAssumption == Torn \notin Checkpoint /\ Absent \notin Checkpoint

VARIABLES
  dataset,      \* the lengths of the train and val splits
  context,      \* the model's context_length
  cfg,          \* steps and whether a checkpoint path was given
  pc,           \* where train() is
  model,        \* updates applied, whether one is applied in part, the mode
  base,         \* history: the model when this call of train began
  next,         \* what the range iterator yields next
  step,         \* the loop variable
  history,      \* len(history)
  interrupted,  \* the flag of the same name
  file,         \* the checkpoint file
  used          \* how much of each bound is used

loopVars == <<next, step, history, interrupted>>
vars == <<dataset, context, cfg, pc, model, base, loopVars, file, used>>

FreshModel == [updates |-> 0, partial |-> FALSE, mode |-> "train"]

NoConfig == [steps |-> 0, path |-> FALSE]

-----------------------------------------------------------------------------
(* ByteDataset *)

(* split = int(len(data) * (1 - val_fraction)), val_fraction in [0, 1), of *)
(* a corpus that is not empty: any division of it may come out.            *)
Splits == {d \in [train: 0 .. MaxSplit, val: 0 .. MaxSplit] : d.train + d.val >= 1}

MaxStart(n) == n - BlockSize - 1

(* Mutant of HasBatches: >= 0 instead of >= 1. *)
HasBatchesAtEdge(n) == MaxStart(n) >= 0

HasBatches(n) == MaxStart(n) >= 1

(* get_batch raises where MaxStart < 1. *)
BatchRaises(n) == MaxStart(n) < 1

(* torch.randint(0, max_start) excludes max_start.                         *)
Starts(n) == 0 .. MaxStart(n) - 1

(* forward refuses a sequence longer than the context.                     *)
ForwardRaises == BlockSize > context

-----------------------------------------------------------------------------
Init ==
  /\ dataset \in Splits
  /\ context \in ContextLengths
  /\ cfg = NoConfig
  /\ pc = "idle"
  /\ model = FreshModel
  /\ base = FreshModel
  /\ next = 0 /\ step = 0 /\ history = 0 /\ interrupted = FALSE
  /\ file = Absent
  /\ used = [runs |-> 0, interrupts |-> 0, kills |-> 0]

Goto(label) == pc' = label

(* Mutant of StartTrain: self.model.train() is missing. *)
StartTrainAsIs ==
  /\ pc = "idle" /\ used.runs < MaxRuns
  /\ \E s \in StepCounts, p \in BOOLEAN :
       cfg' = [steps |-> s, path |-> p]
  /\ base' = model
  /\ next' = 0 /\ step' = 0 /\ history' = 0 /\ interrupted' = FALSE
  /\ used' = [used EXCEPT !.runs = @ + 1]
  /\ Goto("loop")
  /\ UNCHANGED <<dataset, context, file, model>>

(* train(): a new call with any configuration *)
StartTrain ==
  /\ pc = "idle" /\ used.runs < MaxRuns
  /\ \E s \in StepCounts, p \in BOOLEAN :
       cfg' = [steps |-> s, path |-> p]
  /\ model' = [model EXCEPT !.mode = "train"]
  /\ base' = model'
  /\ next' = 0 /\ step' = 0 /\ history' = 0 /\ interrupted' = FALSE
  /\ used' = [used EXCEPT !.runs = @ + 1]
  /\ Goto("loop")
  /\ UNCHANGED <<dataset, context, file>>

(* for step in range(cfg.steps) *)
NextStep ==
  /\ pc = "loop" /\ next < cfg.steps
  /\ step' = next /\ next' = next + 1
  /\ Goto("batch")
  /\ UNCHANGED <<dataset, context, cfg, model, base, history, interrupted, file, used>>

LoopEnds ==
  /\ pc = "loop" /\ next = cfg.steps
  /\ Goto("evaluate")
  /\ UNCHANGED <<dataset, context, cfg, model, base, loopVars, file, used>>

(* lr, get_batch, forward, backward: nothing that is kept, or an exception *)
Backward ==
  /\ pc = "batch"
  /\ Goto(IF BatchRaises(dataset.train) \/ ForwardRaises THEN "exited" ELSE "update")
  /\ UNCHANGED <<dataset, context, cfg, model, base, loopVars, file, used>>

(* optimizer.step(): one parameter after the other *)
UpdateFirst ==
  /\ pc = "update"
  /\ model' = [model EXCEPT !.partial = TRUE]
  /\ Goto("updating")
  /\ UNCHANGED <<dataset, context, cfg, base, loopVars, file, used>>

UpdateRest ==
  /\ pc = "updating"
  /\ model' = [model EXCEPT !.updates = @ + 1, !.partial = base.partial]
  /\ Goto("record")
  /\ UNCHANGED <<dataset, context, cfg, base, loopVars, file, used>>

Record ==
  /\ pc = "record"
  /\ history' = history + 1
  /\ Goto("loop")
  /\ UNCHANGED <<dataset, context, cfg, model, base, next, step, interrupted, file, used>>

InLoop == pc \in {"loop", "batch", "update", "updating", "record"}

(* Mutant of Interrupt: the partial run is not saved. *)
InterruptUnsaved ==
  /\ InLoop /\ used.interrupts < MaxInterrupts
  /\ interrupted' = TRUE
  /\ used' = [used EXCEPT !.interrupts = @ + 1]
  /\ Goto("evaluate")
  /\ UNCHANGED <<dataset, context, cfg, model, base, next, step, history, file>>

(* except KeyboardInterrupt *)
Interrupt ==
  /\ InLoop /\ used.interrupts < MaxInterrupts
  /\ interrupted' = TRUE
  /\ used' = [used EXCEPT !.interrupts = @ + 1]
  /\ Goto(IF cfg.path THEN "save" ELSE "evaluate")
  /\ UNCHANGED <<dataset, context, cfg, model, base, next, step, history, file>>

(* Outside the try block the KeyboardInterrupt ends the process.           *)
InterruptUncaught ==
  /\ pc \in {"save", "saving", "evaluate", "validating"}
  /\ used.interrupts < MaxInterrupts
  /\ used' = [used EXCEPT !.interrupts = @ + 1]
  /\ Goto("exited")
  /\ UNCHANGED <<dataset, context, cfg, model, base, loopVars, file>>

(* torch.save truncates the file and then writes it, in place.             *)
OpenFile ==
  /\ pc = "save"
  /\ file' = Torn
  /\ Goto("saving")
  /\ UNCHANGED <<dataset, context, cfg, model, base, loopVars, used>>

(* Mutant of SavedStep: the step is counted as done when it is interrupted. *)
NextSavedStep == IF interrupted THEN step + 1 ELSE cfg.steps

SavedStep == IF interrupted THEN step ELSE cfg.steps

WriteFile ==
  /\ pc = "saving"
  /\ file' = [step |-> SavedStep, updates |-> model.updates, partial |-> model.partial,
              run |-> model.updates - base.updates, whole |-> ~ interrupted]
  /\ Goto(IF interrupted THEN "evaluate" ELSE "returned")
  /\ UNCHANGED <<dataset, context, cfg, model, base, loopVars, used>>

AfterEvaluate == IF cfg.path /\ ~ interrupted THEN "save" ELSE "returned"

(* _evaluate *)
Evaluate ==
  /\ pc = "evaluate"
  /\ IF HasBatches(dataset.val)
       THEN /\ model' = [model EXCEPT !.mode = "eval"]
            /\ Goto("validating")
       ELSE /\ Goto(AfterEvaluate)
            /\ UNCHANGED model
  /\ UNCHANGED <<dataset, context, cfg, base, loopVars, file, used>>

Validate ==
  /\ pc = "validating"
  /\ IF BatchRaises(dataset.val) \/ ForwardRaises
       THEN Goto("exited") /\ UNCHANGED model
       ELSE Goto(AfterEvaluate) /\ model' = [model EXCEPT !.mode = "train"]
  /\ UNCHANGED <<dataset, context, cfg, base, loopVars, file, used>>

(* A script goes on; _cmd_train generates a sample (model.eval()), prints  *)
(* history[0], which raises when no step was recorded, and ends.           *)
ScriptGoesOn ==
  /\ pc = "returned"
  /\ \E mode \in {"train", "eval"} : model' = [model EXCEPT !.mode = mode]
  /\ Goto("idle")
  /\ UNCHANGED <<dataset, context, cfg, base, loopVars, file, used>>

CommandEnds ==
  /\ pc = "returned"
  /\ Goto("exited")
  /\ UNCHANGED <<dataset, context, cfg, model, base, loopVars, file, used>>

Kill ==
  /\ pc # "exited" /\ used.kills < MaxKills
  /\ used' = [used EXCEPT !.kills = @ + 1]
  /\ Goto("exited")
  /\ UNCHANGED <<dataset, context, cfg, model, base, loopVars, file>>

(* A new process builds a model with fresh weights ... *)
StartProcess ==
  /\ pc = "exited" /\ used.runs < MaxRuns
  /\ model' = FreshModel
  /\ Goto("idle")
  /\ UNCHANGED <<dataset, context, cfg, base, loopVars, file, used>>

(* ... and may resume the checkpoint, if it can be read.                   *)
Resume ==
  /\ pc = "idle" /\ used.runs < MaxRuns
  /\ IF file \in {Torn, Absent}
       THEN Goto("exited") /\ UNCHANGED model
       ELSE /\ model' = [model EXCEPT !.updates = file.updates, !.partial = file.partial]
            /\ UNCHANGED pc
  /\ UNCHANGED <<dataset, context, cfg, base, loopVars, file, used>>

Running ==
  \/ NextStep \/ LoopEnds \/ Backward \/ UpdateFirst \/ UpdateRest \/ Record
  \/ OpenFile \/ WriteFile \/ Evaluate \/ Validate

TrainNext ==
  \/ StartTrain \/ Running \/ Interrupt \/ InterruptUncaught
  \/ ScriptGoesOn \/ CommandEnds \/ Kill \/ StartProcess \/ Resume

-----------------------------------------------------------------------------
(* The step in a checkpoint that can be read is the number of updates its  *)
(* call of train made, or one less when it was interrupted between an      *)
(* update and the next step: wherever Ctrl-C lands it never claims an      *)
(* update the weights do not have, nor misses two.                         *)
CheckpointCounts ==
  file \notin {Torn, Absent} =>
    /\ file.run - file.step \in {0, 1}
    /\ file.whole => file.run = file.step

(* ADR-020 point 3: a call of train that returns, interrupted or not, has  *)
(* left all its updates in the file, and reports as many steps as it made, *)
(* but for the one cut off before it was recorded.                         *)
NothingLost ==
  pc = "returned" =>
    /\ cfg.path => file \notin {Torn, Absent} /\ file.updates = model.updates
    /\ model.updates - base.updates - history \in (IF interrupted THEN {0, 1} ELSE {0})
    /\ ~ interrupted => history = cfg.steps

(* Dropout is on in every update and off in every validation, though       *)
(* train, _evaluate and generate switch the mode of one module and may     *)
(* each be cut off before they switch it back.                             *)
ModeFits ==
  /\ InLoop => model.mode = "train"
  /\ pc = "validating" => model.mode = "eval"

(* has_batches admits no validation that get_batch then refuses (the       *)
(* training before it would be lost unsaved), and every window, with its   *)
(* targets shifted by one, lies inside its split.                          *)
WindowsFit ==
  /\ pc = "validating" => ~ BatchRaises(dataset.val)
  /\ \A n \in {dataset.train, dataset.val} :
       ~ BatchRaises(n) =>
         Starts(n) # {} /\ \A s \in Starts(n) : s >= 0 /\ s + BlockSize < n
=============================================================================
