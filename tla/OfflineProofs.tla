---------------------------- MODULE OfflineProofs ---------------------------
(***************************************************************************)
(* Theorems about the commands without a prompt: trainings of any length,  *)
(* benches of any number of scenarios, memory evaluations of any number of *)
(* tasks, stores of any size.                                              *)
(***************************************************************************)
EXTENDS Offline, ComposerProofs, GuardProofs, FiniteSetTheorems, TLAPS

-----------------------------------------------------------------------------
(* aira train *)

Labels ==
  {"idle", "loop", "batch", "update", "updating", "record", "evaluate", "validating",
   "save", "saving", "returned", "exited"}

Models == [updates: Nat, partial: BOOLEAN, mode: {"train", "eval"}]

TrainTypeOK ==
  /\ dataset \in [train: 0 .. MaxSplit, val: 0 .. MaxSplit]
  /\ cfg \in [steps: Nat, path: BOOLEAN]
  /\ pc \in Labels
  /\ model \in Models /\ base \in Models
  /\ next \in Nat /\ step \in Nat /\ history \in Nat /\ interrupted \in BOOLEAN
  /\ file \in Checkpoint \cup {Torn, Absent}

Made == model.updates - base.updates

(* How the loop's counters hang together wherever train() is.  After the   *)
(* loop only what an exit from it can have left remains.                   *)
InStep == ~ interrupted /\ next = step + 1 /\ next <= cfg.steps /\ history = step

LoopCounts ==
  /\ pc = "loop" =>
       /\ ~ interrupted /\ history = next /\ Made = next /\ next <= cfg.steps
       /\ next = 0 => step = 0
       /\ next > 0 => next = step + 1
  /\ pc \in {"batch", "update", "updating"} => InStep /\ Made = step
  /\ pc = "record" => InStep /\ Made = step + 1
  /\ pc \in {"evaluate", "validating", "save", "saving", "returned"} =>
       /\ ~ interrupted => history = cfg.steps /\ Made = cfg.steps
       /\ interrupted => Made - step \in {0, 1} /\ Made - history \in {0, 1}

(* When the file must hold the model: an interrupted run is saved before   *)
(* it is evaluated, a whole one after.                                     *)
FileCurrent ==
  /\ pc \in {"save", "saving"} => cfg.path
  /\ (cfg.path /\ (pc = "returned" \/ (pc \in {"evaluate", "validating"} /\ interrupted))) =>
       file \in Checkpoint /\ file.updates = model.updates

ValidationFits == pc = "validating" => HasBatches(dataset.val)

TrainInv ==
  TrainTypeOK /\ LoopCounts /\ FileCurrent /\ CheckpointCounts /\ ModeFits /\ ValidationFits

-----------------------------------------------------------------------------
LEMMA CheckpointIsReadable ==
  ASSUME NEW f \in Checkpoint
  PROVE  f \notin {Torn, Absent}
BY FileAssumption

LEMMA InitInv == Init => TrainInv
<1>. SUFFICES ASSUME Init PROVE TrainInv
  OBVIOUS
<1>1. TrainTypeOK
  BY DEF Init, TrainTypeOK, Splits, Labels, Models, FreshModel, NoConfig
<1>. QED
  BY <1>1 DEF Init, TrainInv, LoopCounts, FileCurrent, CheckpointCounts, ModeFits, InLoop,
              ValidationFits

(* The steps that keep within train() and leave the file alone. *)
LEMMA LoopInv ==
  ASSUME TrainInv,
         \/ StartTrain \/ NextStep \/ LoopEnds \/ Backward \/ UpdateFirst \/ UpdateRest \/ Record
  PROVE  TrainInv'
<1>. USE DEF TrainInv
<1>1. TrainTypeOK' /\ file' = file
  <2>1. CASE StartTrain
    <3>1. model' \in Models
      BY <2>1 DEF StartTrain, TrainTypeOK, Models
    <3>2. cfg' \in [steps: Nat, path: BOOLEAN]
      BY <2>1, ConfigAssumption DEF StartTrain
    <3>. QED
      BY <2>1, <3>1, <3>2 DEF StartTrain, Goto, TrainTypeOK, Labels
  <2>2. CASE NextStep
    BY <2>2 DEF NextStep, Goto, TrainTypeOK, Labels
  <2>3. CASE LoopEnds \/ Backward
    BY <2>3 DEF LoopEnds, Backward, Goto, loopVars, TrainTypeOK, Labels
  <2>4. CASE UpdateFirst
    BY <2>4 DEF UpdateFirst, Goto, loopVars, TrainTypeOK, Labels, Models
  <2>5. CASE UpdateRest
    <3>1. model.updates + 1 \in Nat /\ base.partial \in BOOLEAN
      BY DEF TrainTypeOK, Models
    <3>2. model' \in Models
      BY <2>5, <3>1 DEF UpdateRest, TrainTypeOK, Models
    <3>. QED
      BY <2>5, <3>2 DEF UpdateRest, Goto, loopVars, TrainTypeOK, Labels
  <2>6. CASE Record
    BY <2>6 DEF Record, Goto, TrainTypeOK, Labels
  <2>. QED
    BY <2>1, <2>2, <2>3, <2>4, <2>5, <2>6
<1>2. LoopCounts'
  <2>1. CASE StartTrain
    BY <2>1, ConfigAssumption DEF StartTrain, Goto, LoopCounts, Made, TrainTypeOK, Models
  <2>2. CASE NextStep
    BY <2>2 DEF NextStep, Goto, LoopCounts, InStep, Made, TrainTypeOK, Models
  <2>3. CASE LoopEnds
    BY <2>3 DEF LoopEnds, Goto, loopVars, LoopCounts, Made, TrainTypeOK, Models
  <2>4. CASE Backward
    BY <2>4 DEF Backward, Goto, loopVars, LoopCounts, InStep, Made, TrainTypeOK, Models
  <2>5. CASE UpdateFirst
    BY <2>5 DEF UpdateFirst, Goto, loopVars, LoopCounts, InStep, Made, TrainTypeOK, Models
  <2>6. CASE UpdateRest
    BY <2>6 DEF UpdateRest, Goto, loopVars, LoopCounts, InStep, Made, TrainTypeOK, Models
  <2>7. CASE Record
    BY <2>7 DEF Record, Goto, LoopCounts, InStep, Made, TrainTypeOK, Models
  <2>. QED
    BY <2>1, <2>2, <2>3, <2>4, <2>5, <2>6, <2>7
<1>3. FileCurrent' /\ ValidationFits'
  BY DEF StartTrain, NextStep, LoopEnds, Backward, UpdateFirst, UpdateRest, Record, Goto,
         loopVars, FileCurrent, ValidationFits, LoopCounts
<1>4. ModeFits'
  BY DEF StartTrain, NextStep, LoopEnds, Backward, UpdateFirst, UpdateRest, Record, Goto,
         loopVars, ModeFits, InLoop, TrainTypeOK, Models
<1>. QED
  BY <1>1, <1>2, <1>3, <1>4 DEF CheckpointCounts

LEMMA SaveInv ==
  ASSUME TrainInv, OpenFile \/ WriteFile
  PROVE  TrainInv'
<1>. USE DEF TrainInv
<1>1. CASE OpenFile
  BY <1>1 DEF OpenFile, Goto, loopVars, TrainTypeOK, Labels, LoopCounts, Made, FileCurrent,
              CheckpointCounts, ModeFits, InLoop, ValidationFits
<1>2. CASE WriteFile
  <2>1. file' = [step |-> SavedStep, updates |-> model.updates, partial |-> model.partial,
                 run |-> Made, whole |-> ~ interrupted]
    BY <1>2 DEF WriteFile, Made
  <2>2. SavedStep \in Nat /\ Made \in Int /\ model.updates \in Nat /\ model.partial \in BOOLEAN
    BY DEF SavedStep, Made, TrainTypeOK, Models
  <2>3. file' \in Checkpoint
    BY <2>1, <2>2 DEF Checkpoint
  <2>4. file'.step = SavedStep /\ file'.updates = model.updates /\ file'.run = Made
    BY <2>1
  <2>5. file'.whole => ~ interrupted
    BY <2>1
  <2>6. CheckpointCounts'
    <3>1. Made - SavedStep \in {0, 1} /\ (~ interrupted => Made = SavedStep)
      BY <1>2 DEF WriteFile, SavedStep, LoopCounts, TrainTypeOK
    <3>. QED
      BY <2>4, <2>5, <3>1 DEF CheckpointCounts
  <2>7. TrainTypeOK' /\ LoopCounts' /\ ModeFits' /\ ValidationFits'
    BY <1>2, <2>3
    DEF WriteFile, Goto, loopVars, TrainTypeOK, Labels, LoopCounts, Made, ModeFits, InLoop,
        ValidationFits
  <2>8. FileCurrent'
    BY <1>2, <2>3, <2>4 DEF WriteFile, Goto, FileCurrent
  <2>. QED
    BY <2>6, <2>7, <2>8
<1>. QED
  BY <1>1, <1>2

LEMMA EvaluateInv ==
  ASSUME TrainInv, Evaluate \/ Validate
  PROVE  TrainInv'
<1>. USE DEF TrainInv
<1>1. TrainTypeOK' /\ file' = file /\ model'.updates = model.updates
  BY DEF Evaluate, Validate, AfterEvaluate, Goto, loopVars, TrainTypeOK, Labels, Models
<1>2. LoopCounts'
  BY <1>1 DEF Evaluate, Validate, AfterEvaluate, Goto, loopVars, LoopCounts, Made
<1>3. FileCurrent'
  BY <1>1 DEF Evaluate, Validate, AfterEvaluate, Goto, loopVars, FileCurrent
<1>4. ModeFits' /\ ValidationFits'
  BY DEF Evaluate, Validate, AfterEvaluate, Goto, ModeFits, InLoop, ValidationFits, TrainTypeOK,
         Models
<1>. QED
  BY <1>1, <1>2, <1>3, <1>4 DEF CheckpointCounts

LEMMA InterruptInv ==
  ASSUME TrainInv, Interrupt
  PROVE  TrainInv'
<1>. USE DEF TrainInv
<1>1. TrainTypeOK'
  BY DEF Interrupt, Goto, TrainTypeOK, Labels
<1>2. Made - step \in {0, 1} /\ Made - history \in {0, 1}
  BY DEF Interrupt, InLoop, LoopCounts, InStep, TrainTypeOK
<1>3. LoopCounts'
  BY <1>2 DEF Interrupt, Goto, LoopCounts, Made
<1>. QED
  BY <1>1, <1>3
  DEF Interrupt, Goto, FileCurrent, CheckpointCounts, ModeFits, InLoop, ValidationFits

(* Leaving train(), or entering a new process: the counters mean nothing.  *)
LEMMA OutsideInv ==
  ASSUME TrainInv,
         \/ InterruptUncaught \/ ScriptGoesOn \/ CommandEnds \/ Kill \/ StartProcess \/ Resume
  PROVE  TrainInv'
<1>. USE DEF TrainInv
<1>1. pc' \in {"idle", "exited"} /\ file' = file
  BY DEF InterruptUncaught, ScriptGoesOn, CommandEnds, Kill, StartProcess, Resume, Goto
<1>2. TrainTypeOK'
  <2>1. CASE InterruptUncaught \/ CommandEnds \/ Kill
    BY <2>1 DEF InterruptUncaught, CommandEnds, Kill, Goto, loopVars, TrainTypeOK, Labels
  <2>2. CASE ScriptGoesOn \/ StartProcess
    <3>1. model' \in Models
      <4>1. CASE ScriptGoesOn
        <5>1. PICK mode \in {"train", "eval"} : model' = [model EXCEPT !.mode = mode]
          BY <4>1 DEF ScriptGoesOn
        <5>. QED
          BY <5>1 DEF TrainTypeOK, Models
      <4>2. CASE StartProcess
        BY <4>2 DEF StartProcess, Models, FreshModel
      <4>. QED
        BY <2>2, <4>1, <4>2
    <3>. QED
      BY <2>2, <3>1 DEF ScriptGoesOn, StartProcess, Goto, loopVars, TrainTypeOK, Labels
  <2>3. CASE Resume
    BY <2>3, ZenonT(60) DEF Resume, Goto, loopVars, TrainTypeOK, Labels, Models, Checkpoint
  <2>. QED
    BY <2>1, <2>2, <2>3
<1>. QED
  BY <1>1, <1>2
  DEF LoopCounts, FileCurrent, CheckpointCounts, ModeFits, InLoop, ValidationFits

LEMMA StepInv == TrainInv /\ [TrainNext]_vars => TrainInv'
<1>. SUFFICES ASSUME TrainInv, [TrainNext]_vars PROVE TrainInv'
  OBVIOUS
<1>1. CASE UNCHANGED vars
  BY <1>1 DEF vars, loopVars, TrainInv, TrainTypeOK, LoopCounts, InStep, Made, FileCurrent,
              CheckpointCounts, ModeFits, InLoop, ValidationFits
<1>2. CASE TrainNext
  BY <1>2, LoopInv, SaveInv, EvaluateInv, InterruptInv, OutsideInv DEF TrainNext, Running
<1>. QED
  BY <1>1, <1>2

(* What the other commands do is nothing to a training. *)
LEMMA OfflineTrains == [OfflineNext]_offlineVars => [TrainNext]_vars
BY DEF OfflineNext, offlineVars

LEMMA TrainInvariance == OfflineSpec => []TrainInv
<1>1. OfflineInit => TrainInv
  BY InitInv DEF OfflineInit
<1>. QED
  BY <1>1, OfflineTrains, StepInv, PTL DEF OfflineSpec

(* A checkpoint that can be read counts its own run, wherever Ctrl-C or a  *)
(* kill landed.                                                            *)
THEOREM CheckpointsCount == OfflineSpec => []CheckpointCounts
BY TrainInvariance, PTL DEF TrainInv

(* A call of train that returns has left all its updates in the file and   *)
(* reports the steps it made.                                              *)
THEOREM NothingIsLost == OfflineSpec => []NothingLost
<1>1. TrainInv => NothingLost
  <2>. SUFFICES ASSUME TrainInv, pc = "returned" PROVE NothingLost
    BY DEF NothingLost
  <2>1. cfg.path => file \notin {Torn, Absent} /\ file.updates = model.updates
    BY CheckpointIsReadable DEF TrainInv, FileCurrent
  <2>2. /\ Made - history \in (IF interrupted THEN {0, 1} ELSE {0})
        /\ ~ interrupted => history = cfg.steps
    BY DEF TrainInv, LoopCounts, TrainTypeOK
  <2>. QED
    BY <2>1, <2>2 DEF NothingLost, Made
<1>. QED
  BY <1>1, TrainInvariance, PTL

(* Dropout is on in every update and off in every validation.              *)
THEOREM ModeAlwaysFits == OfflineSpec => []ModeFits
BY TrainInvariance, PTL DEF TrainInv

(* Validation never starts on a split get_batch refuses, and every window  *)
(* lies inside its split.                                                  *)
THEOREM WindowsAlwaysFit == OfflineSpec => []WindowsFit
<1>1. TrainInv => WindowsFit
  <2>. SUFFICES ASSUME TrainInv PROVE WindowsFit
    OBVIOUS
  <2>1. pc = "validating" => ~ BatchRaises(dataset.val)
    BY ConfigAssumption
    DEF TrainInv, TrainTypeOK, ValidationFits, HasBatches, BatchRaises, MaxStart
  <2>2. ASSUME NEW n \in Nat, ~ BatchRaises(n)
        PROVE  Starts(n) # {} /\ \A s \in Starts(n) : s >= 0 /\ s + BlockSize < n
    <3>1. 0 \in Starts(n)
      BY <2>2, ConfigAssumption DEF BatchRaises, Starts, MaxStart
    <3>2. \A s \in Starts(n) : s >= 0 /\ s + BlockSize < n
      BY ConfigAssumption DEF Starts, MaxStart
    <3>. QED
      BY <3>1, <3>2
  <2>3. dataset.train \in Nat /\ dataset.val \in Nat
    BY ConfigAssumption DEF TrainInv, TrainTypeOK
  <2>. QED
    BY <2>1, <2>2, <2>3 DEF WindowsFit
<1>. QED
  BY <1>1, TrainInvariance, PTL

-----------------------------------------------------------------------------
(* aira bench and aira memeval: the context blocks *)

RankedMemory == [id: Nat, key: RankedKeys, content: DOMAIN Size]

LEMMA RankedMeasured == Memory(RankedMemory)
BY DEF Memory, RankedMemory

LEMMA ListsOfMemories ==
  ASSUME NEW list \in RankedLists
  PROVE  /\ list \in Seq(RankedMemory)
         /\ \A i, j \in DOMAIN list : list[i] = list[j] => i = j
<1>1. PICK f \in [1 .. MaxRanked -> [key: RankedKeys, content: DOMAIN Size]],
           n \in 0 .. MaxRanked :
             list = [i \in 1 .. n |-> [id |-> i, key |-> f[i].key, content |-> f[i].content]]
  BY DEF RankedLists
<1>2. n \in Nat /\ DOMAIN list = 1 .. n /\ 1 .. n \subseteq 1 .. MaxRanked
  BY <1>1, RankedAssumption
<1>3. ASSUME NEW i \in 1 .. n
      PROVE  list[i] \in RankedMemory /\ list[i].id = i
  <2>1. f[i] \in [key: RankedKeys, content: DOMAIN Size] /\ i \in Nat
    BY <1>1, <1>2, <1>3
  <2>2. list[i] = [id |-> i, key |-> f[i].key, content |-> f[i].content]
    BY <1>1, <1>2, <1>3
  <2>. QED
    BY <2>1, <2>2 DEF RankedMemory
<1>. QED
  BY <1>1, <1>2, <1>3

LEMMA OfflineComposes == [OfflineNext]_offlineVars => [ComposeNext(RankedMemory)]_composeVars
BY ListsOfMemories
DEF OfflineNext, offlineVars, AiraContext, FirstTask, LaterTask, ComposeNext, Setup, Judge

(* A ranked list that is set down holds different memories. *)
LEMMA ListsDiffer ==
  RankedDiffer /\ [OfflineNext]_offlineVars => RankedDiffer'
<1>1. ASSUME NEW list \in RankedLists, RankedDiffer, StartCompose(list, FALSE)
      PROVE  RankedDiffer'
  BY <1>1, ListsOfMemories DEF StartCompose, RankedDiffer
<1>2. ASSUME RankedDiffer, ComposeStep PROVE RankedDiffer'
  BY <1>2 DEF ComposeStep, Deduplicate, DedupDone, Pack, PackDone, RankedDiffer
<1>3. ASSUME Discard PROVE RankedDiffer'
  BY <1>3 DEF Discard, RankedDiffer
<1>4. ASSUME RankedDiffer, UNCHANGED composeVars PROVE RankedDiffer'
  BY <1>4 DEF composeVars, RankedDiffer
<1>. QED
  BY <1>1, <1>2, <1>3, <1>4
  DEF OfflineNext, offlineVars, AiraContext, FirstTask, LaterTask

LEMMA BlocksInvariance ==
  OfflineSpec => [](ComposeInv(RankedMemory) /\ AccountInv(RankedMemory) /\ RankedDiffer)
<1>1. OfflineInit => ComposeInv(RankedMemory) /\ AccountInv(RankedMemory) /\ RankedDiffer
  BY ComposeInitial, AccountInitial DEF OfflineInit, ComposeInit, RankedDiffer
<1>2. /\ ComposeInv(RankedMemory) /\ AccountInv(RankedMemory) /\ RankedDiffer
      /\ [OfflineNext]_offlineVars
      => (ComposeInv(RankedMemory) /\ AccountInv(RankedMemory) /\ RankedDiffer)'
  BY OfflineComposes, ListsDiffer, ComposeStepKeeps, AccountStep, RankedMeasured
<1>. QED
  BY <1>1, <1>2, PTL DEF OfflineSpec

(* The blocks of the memory evaluation keep to their limits too. *)
THEOREM TaskBlocksAreBounded == OfflineSpec => []BlockWithinBudget
<1>1. ComposeInv(RankedMemory) => BlockWithinBudget
  BY DEF ComposeInv
<1>. QED
  BY <1>1, BlocksInvariance, PTL

(* And they leave nothing out silently. *)
THEOREM TaskBlocksAreAccounted == OfflineSpec => []BlockAccounted
<1>1. AccountInv(RankedMemory) /\ RankedDiffer => BlockAccounted
  BY AccountedFor, RankedMeasured
<1>. QED
  BY <1>1, BlocksInvariance, PTL

-----------------------------------------------------------------------------
(* aira memeval: the conclusion *)

Tally == [n: Nat, hits: Nat]

(* Every baseline counts the same tasks, without memory no context holds a *)
(* fact, and an answer of Aira lacks a fact of its context only if that is *)
(* on record.                                                              *)
TalliesAgree ==
  /\ \A name \in {"no_memory", "aira"} :
       /\ acc[name].context \in Tally
       /\ acc[name].context.hits <= acc[name].context.n
  /\ acc["aira"].adherence \in Tally
  /\ acc["no_memory"].context.hits = 0
  /\ acc["no_memory"].context.n = acc["aira"].context.n
  /\ acc["aira"].adherence.n = acc["aira"].context.n
  /\ shown.inContext <=> acc["aira"].context.hits > 0
  /\ ~ shown.unused => acc["aira"].context.hits <= acc["aira"].adherence.hits

ConclusionInv ==
  /\ TalliesAgree
  /\ stage \in {"tasks", "raised"} => outcomes = <<>>
  /\ ConclusionHonest

LEMMA ProductPositive ==
  ASSUME NEW m \in Nat, NEW n \in Nat, m > 0, n > 0
  PROVE  m * n > 0
OBVIOUS

LEMMA ProductOrdered ==
  ASSUME NEW h \in Nat, NEW g \in Nat, NEW n \in Nat, h <= g
  PROVE  h * n <= g * n
OBVIOUS

(* What is printed follows from the tallies. *)
LEMMA ConclusionFollows ==
  ASSUME TalliesAgree
  PROVE  /\ ContextHelps <=> shown.inContext
         /\ GapExceedsTenth => shown.inContext /\ shown.unused
<1>. DEFINE h == acc["aira"].context.hits
            n == acc["aira"].context.n
            g == acc["aira"].adherence.hits
<1>1. /\ h \in Nat /\ n \in Nat /\ g \in Nat /\ h <= n
      /\ acc["aira"].adherence.n = n
      /\ acc["no_memory"].context.n = n /\ acc["no_memory"].context.hits = 0
      /\ shown.inContext <=> h > 0
      /\ ~ shown.unused => h <= g
  BY DEF TalliesAgree, Tally
<1>2. CASE n = 0
  <2>1. /\ Mean(acc["aira"].context) = Fraction(0, 1)
        /\ Mean(acc["no_memory"].context) = Fraction(0, 1)
        /\ Mean(acc["aira"].adherence) = Fraction(0, 1)
    BY <1>1, <1>2 DEF Mean, Rate
  <2>2. ~ ContextHelps /\ ~ GapExceedsTenth
    BY <2>1 DEF ContextHelps, GapExceedsTenth, AtMost, Fraction
  <2>. QED
    BY <1>1, <1>2, <2>2
<1>3. CASE n > 0
  <2>1. /\ Mean(acc["aira"].context) = Fraction(h, n)
        /\ Mean(acc["no_memory"].context) = Fraction(0, n)
        /\ Mean(acc["aira"].adherence) = Fraction(g, n)
    BY <1>1, <1>3 DEF Mean, Rate
  <2>2. ContextHelps <=> ~ (h * n <= 0 * n)
    BY <2>1 DEF ContextHelps, AtMost, Fraction
  <2>3. GapExceedsTenth <=> 10 * (h * n - g * n) > n * n
    BY <2>1 DEF GapExceedsTenth, Fraction
  <2>. HIDE DEF h, n, g
  <2>4. ContextHelps <=> h > 0
    <3>1. h > 0 => h * n > 0
      BY <1>1, <1>3, ProductPositive
    <3>2. h = 0 => h * n = 0
      BY <1>1
    <3>. QED
      BY <1>1, <2>2, <3>1, <3>2
  <2>5. GapExceedsTenth => h > g
    <3>1. h <= g => h * n <= g * n
      BY <1>1, ProductOrdered
    <3>2. n * n > 0
      BY <1>1, <1>3, ProductPositive
    <3>3. h * n \in Int /\ g * n \in Int /\ n * n \in Int
      BY <1>1
    <3>4. h <= g => 10 * (h * n - g * n) <= 0
      BY <3>1, <3>3
    <3>. QED
      BY <1>1, <2>3, <3>2, <3>3, <3>4
  <2>. QED
    BY <1>1, <2>4, <2>5
<1>. QED
  BY <1>1, <1>2, <1>3

LEMMA TaskTallied ==
  ASSUME NEW ctxs, TalliesAgree, RunTask(ctxs)
  PROVE  TalliesAgree'
<1>1. PICK kind \in TaskKinds, expected \in BOOLEAN,
           none \in Shows("no_memory"), aira \in Shows("aira"), full \in Shows("full_history") :
        LET show == [no_memory |-> none, aira |-> aira, full_history |-> full]
        IN  /\ acc' = [name \in BaselineNames |->
                         Recorded(acc[name], kind, expected, show[name])]
            /\ shown' = [tasks |-> shown.tasks + 1,
                         inContext |-> shown.inContext \/ (expected /\ aira.ctx),
                         unused |-> shown.unused \/ (expected /\ aira.ctx /\ ~ aira.out)]
  BY DEF RunTask
<1>2. /\ acc'["aira"] = Recorded(acc["aira"], kind, expected, aira)
      /\ acc'["no_memory"] = Recorded(acc["no_memory"], kind, expected, none)
  BY <1>1 DEF BaselineNames
<1>3. none.ctx = FALSE /\ aira.ctx \in BOOLEAN /\ aira.out \in BOOLEAN
  BY DEF Shows
<1>4. /\ acc'["aira"].context = Checked(acc["aira"].context, expected, aira.ctx)
      /\ acc'["aira"].adherence = Checked(acc["aira"].adherence, expected, aira.out)
      /\ acc'["no_memory"].context = Checked(acc["no_memory"].context, expected, none.ctx)
  BY <1>2 DEF Recorded
<1>5. /\ shown'.inContext <=> shown.inContext \/ (expected /\ aira.ctx)
      /\ shown'.unused <=> shown.unused \/ (expected /\ aira.ctx /\ ~ aira.out)
  BY <1>1
<1>. QED
  BY <1>3, <1>4, <1>5 DEF TalliesAgree, Tally, Checked, Counted

(* A judged scenario adds an outcome; nothing else changes the outcomes    *)
(* before the report.                                                      *)
LEMMA ConclusionKept ==
  ASSUME ConclusionInv, [OfflineNext]_offlineVars
  PROVE  ConclusionInv'
<1>. USE DEF ConclusionInv
<1>1. CASE UNCHANGED evalVars
  BY <1>1 DEF evalVars, TalliesAgree, ConclusionHonest
<1>2. ASSUME NEW ctxs, RunTask(ctxs) PROVE ConclusionInv'
  <2>1. TalliesAgree'
    BY <1>2, TaskTallied
  <2>2. stage' = "tasks" /\ outcomes' = outcomes
    BY <1>2 DEF RunTask
  <2>. QED
    BY <1>2, <2>1, <2>2 DEF RunTask, ConclusionHonest
<1>3. CASE LoadFails
  BY <1>3 DEF LoadFails, TalliesAgree, ConclusionHonest
<1>4. CASE Conclude
  <2>1. /\ report' = [helps |-> ContextHelps, unused |-> GapExceedsTenth, exit |-> 0]
        /\ stage' = "reported" /\ acc' = acc /\ shown' = shown
    BY <1>4 DEF Conclude
  <2>2. TalliesAgree'
    BY <2>1 DEF TalliesAgree
  <2>3. ConclusionHonest'
    BY <2>1, ConclusionFollows DEF ConclusionHonest
  <2>. QED
    BY <2>1, <2>2, <2>3
<1>5. ASSUME NEW outcome, NEW harm, Judged(outcome, harm) PROVE ConclusionInv'
  BY <1>5 DEF Judged, TalliesAgree, ConclusionHonest
<1>6. CASE RunScenario
  <2>1. \E outcome, harm : Judged(outcome, harm)
    BY <1>6
    DEF RunScenario, RunRecallLike, RunForget, RunLeaky, RunExpiry, RunDeleteExport, RunSecret,
        RunBudget, RunDegraded, RunIgnore, RunDuplicate, RunInjection, RunImport
  <2>. QED
    BY <1>5, <2>1
<1>7. CASE ReportBench
  BY <1>7 DEF ReportBench, TalliesAgree, ConclusionHonest
<1>. QED
  BY <1>1, <1>2, <1>3, <1>4, <1>6, <1>7
  DEF OfflineNext, offlineVars, Setup, Judge, AiraContext, FirstTask, LaterTask

LEMMA ConclusionInitial == OfflineInit => ConclusionInv
<1>. SUFFICES ASSUME EvalInit PROVE ConclusionInv
  BY DEF OfflineInit
<1>1. acc["aira"] = NewAccumulator /\ acc["no_memory"] = NewAccumulator
  BY DEF EvalInit, BaselineNames
<1>. QED
  BY <1>1
  DEF EvalInit, ConclusionInv, TalliesAgree, Tally, NewAccumulator, NoTally, ConclusionHonest

(* However many tasks of whatever kinds there were: memory is said to help *)
(* exactly if a fact reached a context, and the model is blamed only for   *)
(* what it was given.                                                      *)
THEOREM ConclusionsAreHonest == OfflineSpec => []ConclusionHonest
<1>1. ConclusionInv => ConclusionHonest
  BY DEF ConclusionInv
<1>. QED
  BY <1>1, ConclusionInitial, ConclusionKept, PTL DEF OfflineSpec

-----------------------------------------------------------------------------
(* aira bench: the gate *)

Measured == {"leaked", "secret", "budget"}

BaselinesOf(x) == Baselines(x[1], x[2], x[2] \cap x[3])

BaselineSets == {BaselinesOf(x) : x \in Contexts \X (SUBSET Memories) \X (SUBSET Memories)}

Outcomes ==
  [kind: Kinds, passed: BOOLEAN, leaked: BOOLEAN \cup {None}, secret: BOOLEAN \cup {None},
   budget: BOOLEAN \cup {None}, baselines: BaselineSets \cup {None}]

(* An outcome that measured something bad is a failure. *)
Consistent(o) == \A m \in Measured : o[m] # None /\ o[m] = TRUE => ~ o.passed

GateInv ==
  /\ outcomes \in Seq(Outcomes)
  /\ \A i \in DOMAIN outcomes : Consistent(outcomes[i])
  /\ harmed # {} => ~ AllPassed
  /\ stage = "tasks" => outcomes = <<>>
  /\ GateCatches

LEMMA ConsistentFields ==
  ASSUME NEW o,
         o.leaked # None /\ o.leaked = TRUE => ~ o.passed,
         o.secret # None /\ o.secret = TRUE => ~ o.passed,
         o.budget # None /\ o.budget = TRUE => ~ o.passed
  PROVE  Consistent(o)
BY DEF Consistent, Measured

LEMMA OutcomeConsistent ==
  ASSUME NEW kind \in Kinds, NEW passed \in BOOLEAN
  PROVE  /\ Outcome(kind, passed) \in Outcomes
         /\ Consistent(Outcome(kind, passed))
         /\ Outcome(kind, passed).passed = passed
BY DEF Outcome, Outcomes, Consistent, Measured

LEMMA LeakConsistent ==
  ASSUME NEW kind \in Kinds, NEW leaked \in BOOLEAN
  PROVE  /\ LeakOutcome(kind, leaked) \in Outcomes
         /\ Consistent(LeakOutcome(kind, leaked))
         /\ LeakOutcome(kind, leaked).passed = ~ leaked
<1>. DEFINE o == LeakOutcome(kind, leaked)
<1>1. o = [kind |-> kind, passed |-> ~ leaked, leaked |-> leaked, secret |-> None,
           budget |-> None, baselines |-> None]
  BY DEF LeakOutcome, Outcome
<1>2. o \in Outcomes
  BY <1>1 DEF Outcomes
<1>3. o.passed = (~ leaked) /\ o.leaked = leaked /\ o.secret = None /\ o.budget = None
  BY <1>1
<1>. QED
  <2>. HIDE DEF o
  <2>1. Consistent(o)
    BY <1>3, ConsistentFields
  <2>. QED
    BY <1>2, <1>3, <2>1 DEF o

(* A scenario that passes recalled something relevant. *)
LEMMA NothingRecalled ==
  ASSUME NEW relevant \in SUBSET Memories, NEW included,
         relevant # {}, ToSet(included) \cap relevant = {}
  PROVE  ~ AtMost(Fraction(1, 1), Recall(included, relevant))
<1>1. IsFiniteSet(relevant) /\ Cardinality(relevant) \in Nat /\ Cardinality(relevant) # 0
  BY MemoriesAssumption, FS_Subset, FS_CardinalityType, FS_EmptySet
<1>2. relevant \cap ToSet(included) = {} /\ Cardinality({}) = 0
  BY FS_EmptySet
<1>3. Recall(included, relevant) = Fraction(0, Cardinality(relevant))
  BY <1>2 DEF Recall
<1>. QED
  BY <1>1, <1>3 DEF AtMost, Fraction

LEMMA RecallLikeConsistent ==
  ASSUME NEW kind \in {"recall", "correction"}, NEW relevant \in SUBSET Memories,
         NEW forbidden \in SUBSET Memories, NEW active \in SUBSET Memories,
         NEW included \in Contexts, relevant \cap forbidden = {}
  PROVE  LET s == Scenario(kind, relevant, forbidden)
             o == RecallLike(s, active, included)
         IN  o \in Outcomes /\ Consistent(o) /\ (BrokenRecall(s, included) => ~ o.passed)
<1>. DEFINE s == Scenario(kind, relevant, forbidden)
            found == active \cap relevant
            leaked == IF forbidden = {} THEN None ELSE Leaks(s, included)
            stored == relevant # {} => found # {}
            recalled == AtMost(Fraction(1, 1), Recall(included, found))
            passed == stored /\ recalled /\ leaked # TRUE
            baselines == Baselines(included, active, found)
            o == RecallLike(s, active, included)
<1>1. s.kind = kind /\ s.relevant = relevant /\ s.forbidden = forbidden
  BY DEF Scenario
<1>2. o = [kind |-> kind, passed |-> passed, leaked |-> leaked, secret |-> None,
           budget |-> None, baselines |-> baselines]
  <2>1. o = [Outcome(kind, passed) EXCEPT !.leaked = leaked, !.baselines = baselines]
    BY <1>1, Zenon DEF RecallLike
  <2>. HIDE DEF passed, leaked, baselines, o
  <2>. QED
    BY <2>1 DEF Outcome
<1>3. passed \in BOOLEAN /\ leaked \in BOOLEAN \cup {None}
  BY DEF Leaks
<1>4. baselines \in BaselineSets
  <2>. DEFINE x == <<included, active, relevant>>
  <2>1. x \in Contexts \X (SUBSET Memories) \X (SUBSET Memories)
    OBVIOUS
  <2>2. x[1] = included /\ x[2] = active /\ x[3] = relevant
    OBVIOUS
  <2>3. baselines = BaselinesOf(x)
    BY <2>2 DEF BaselinesOf
  <2>. HIDE DEF x, baselines
  <2>. QED
    BY <2>1, <2>3 DEF BaselineSets
<1>5. kind \in Kinds
  BY DEF Kinds
<1>6. o \in Outcomes
  <2>. HIDE DEF passed, leaked, baselines
  <2>. QED
    BY <1>2, <1>3, <1>4, <1>5 DEF Outcomes
<1>7. Consistent(o)
  <2>1. o.passed = passed /\ o.leaked = leaked /\ o.secret = None /\ o.budget = None
    BY <1>2
  <2>2. leaked = TRUE => ~ passed
    OBVIOUS
  <2>. HIDE DEF passed, leaked, o
  <2>. QED
    BY <2>1, <2>2, ConsistentFields
<1>8. ASSUME BrokenRecall(s, included) PROVE ~ passed
  <2>1. CASE relevant # {} /\ ToSet(included) \cap relevant = {}
    <3>1. found # {} => ~ recalled
      BY <2>1, NothingRecalled
    <3>. QED
      BY <2>1, <3>1
  <2>2. CASE ToSet(included) \cap forbidden # {}
    BY <1>1, <2>2 DEF Leaks
  <2>. QED
    BY <1>1, <1>8, <2>1, <2>2 DEF BrokenRecall
<1>9. o.passed = passed
  BY <1>2
<1>. QED
  BY <1>6, <1>7, <1>8, <1>9

(* Every handler: what is broken fails. *)
LEMMA ScenariosConsistent ==
  ASSUME RunScenario
  PROVE  \E o \in Outcomes, harm \in BOOLEAN :
           Judged(o, harm) /\ Consistent(o) /\ (harm => ~ o.passed)
<1>. DEFINE Goal == \E o \in Outcomes, harm \in BOOLEAN :
                      Judged(o, harm) /\ Consistent(o) /\ (harm => ~ o.passed)
<1>1. CASE RunRecallLike
  <2>1. PICK kind \in {"recall", "correction"}, relevant \in SUBSET Memories,
             forbidden \in SUBSET Memories, active \in SUBSET Memories, included \in Contexts :
          LET s == Scenario(kind, relevant, forbidden)
          IN  /\ relevant \cap forbidden = {}
              /\ Judged(RecallLike(s, active, included), BrokenRecall(s, included))
    BY <1>1 DEF RunRecallLike
  <2>2. BrokenRecall(Scenario(kind, relevant, forbidden), included) \in BOOLEAN
    BY DEF BrokenRecall
  <2>. QED
    BY <2>1, <2>2, RecallLikeConsistent
<1>2. ASSUME NEW kind \in Kinds, RunLeaky(kind) PROVE Goal
  <2>1. PICK leaked \in BOOLEAN : Judged(LeakOutcome(kind, leaked), leaked)
    BY <1>2 DEF RunLeaky, Leaks
  <2>. QED
    BY <2>1, LeakConsistent
<1>3. CASE RunForget \/ RunExpiry
  BY <1>2, <1>3 DEF RunForget, RunExpiry, Kinds
<1>4. CASE RunDeleteExport
  <2>1. PICK leaked \in BOOLEAN : Judged(LeakOutcome("delete_export", leaked), leaked)
    BY <1>4 DEF RunDeleteExport
  <2>2. "delete_export" \in Kinds
    BY DEF Kinds
  <2>. QED
    BY <2>1, <2>2, LeakConsistent
<1>5. CASE RunSecret
  <2>1. PICK persisted \in BOOLEAN :
          Judged([Outcome("secret", ~ persisted) EXCEPT !.secret = persisted], persisted)
    BY <1>5 DEF RunSecret
  <2>. DEFINE o == [Outcome("secret", ~ persisted) EXCEPT !.secret = persisted]
  <2>2. o = [kind |-> "secret", passed |-> ~ persisted, leaked |-> None, secret |-> persisted,
             budget |-> None, baselines |-> None]
    BY DEF Outcome
  <2>3. o \in Outcomes
    BY <2>2 DEF Outcomes, Kinds
  <2>4. o.passed = (~ persisted) /\ o.secret = persisted /\ o.leaked = None /\ o.budget = None
    BY <2>2
  <2>5. Judged(o, persisted)
    BY <2>1
  <2>. HIDE DEF o
  <2>6. Consistent(o)
    BY <2>4, ConsistentFields
  <2>. QED
    BY <2>3, <2>4, <2>5, <2>6
<1>6. CASE RunBudget
  <2>1. PICK tokens, budget \in 0 .. 2 :
          Judged([Outcome("budget", ~ (tokens > budget)) EXCEPT !.budget = tokens > budget],
                 tokens > budget)
    BY <1>6, Zenon DEF RunBudget
  <2>2. PICK violated \in BOOLEAN : violated = (tokens > budget)
    <3>1. (tokens > budget) = TRUE \/ (tokens > budget) = FALSE
      OBVIOUS
    <3>. QED
      BY <3>1
  <2>. DEFINE o == [Outcome("budget", ~ violated) EXCEPT !.budget = violated]
  <2>3. o = [kind |-> "budget", passed |-> ~ violated, leaked |-> None, secret |-> None,
             budget |-> violated, baselines |-> None]
    BY DEF Outcome
  <2>4. o \in Outcomes
    BY <2>3 DEF Outcomes, Kinds
  <2>5. o.passed = (~ violated) /\ o.budget = violated /\ o.leaked = None /\ o.secret = None
    BY <2>3
  <2>6. Judged(o, violated)
    BY <2>1, <2>2, Zenon
  <2>. HIDE DEF o
  <2>7. Consistent(o)
    BY <2>5, ConsistentFields
  <2>. QED
    BY <2>4, <2>5, <2>6, <2>7
<1>7. ASSUME NEW kind \in Kinds, NEW passed \in BOOLEAN, NEW harm \in BOOLEAN, harm => ~ passed,
             Judged(Outcome(kind, passed), harm)
      PROVE  Goal
  BY <1>7, OutcomeConsistent
<1>8. CASE RunDegraded
  BY <1>7, <1>8 DEF RunDegraded, Kinds
<1>9. CASE RunIgnore
  BY <1>7, <1>9 DEF RunIgnore, Kinds
<1>10. CASE RunDuplicate
  <2>1. PICK active \in SUBSET Memories :
          Judged(Outcome("duplicate", Cardinality(active) = 1), Cardinality(active) > 1)
    BY <1>10 DEF RunDuplicate
  <2>2. Cardinality(active) \in Nat
    BY MemoriesAssumption, FS_Subset, FS_CardinalityType
  <2>3. Cardinality(active) > 1 => ~ (Cardinality(active) = 1)
    BY <2>2
  <2>4. (Cardinality(active) = 1) \in BOOLEAN /\ (Cardinality(active) > 1) \in BOOLEAN
    OBVIOUS
  <2>5. "duplicate" \in Kinds
    BY DEF Kinds
  <2>. QED
    BY <1>7, <2>1, <2>3, <2>4, <2>5
<1>11. CASE RunInjection
  BY <1>7, <1>11 DEF RunInjection, Kinds
<1>12. CASE RunImport
  BY <1>7, <1>12 DEF RunImport, Kinds
<1>. QED
  BY <1>1, <1>3, <1>4, <1>5, <1>6, <1>8, <1>9, <1>10, <1>11, <1>12 DEF RunScenario

LEMMA JudgedKept ==
  ASSUME GateInv, NEW o \in Outcomes, NEW harm \in BOOLEAN, Judged(o, harm), Consistent(o),
         harm => ~ o.passed
  PROVE  GateInv'
<1>1. /\ outcomes' = Append(outcomes, o) /\ outcomes \in Seq(Outcomes)
      /\ stage' = "bench" /\ harmed' = IF harm THEN harmed \cup {o.kind} ELSE harmed
  BY DEF Judged, GateInv
<1>2. /\ outcomes' \in Seq(Outcomes) /\ Len(outcomes) \in Nat
      /\ DOMAIN outcomes = 1 .. Len(outcomes)
      /\ DOMAIN outcomes' = 1 .. Len(outcomes) + 1
      /\ outcomes'[Len(outcomes) + 1] = o
      /\ \A i \in DOMAIN outcomes : outcomes'[i] = outcomes[i]
  BY <1>1
<1>3. \A i \in DOMAIN outcomes' : i \in DOMAIN outcomes \/ i = Len(outcomes) + 1
  BY <1>2
<1>4. \A i \in DOMAIN outcomes' : Consistent(outcomes'[i])
  BY <1>2, <1>3 DEF GateInv
<1>5. harmed' # {} => ~ AllPassed'
  <2>1. CASE harm
    BY <1>2, <2>1 DEF AllPassed
  <2>2. CASE ~ harm
    <3>1. harmed' = harmed
      BY <1>1, <2>2
    <3>2. ~ AllPassed => ~ AllPassed'
      BY <1>2 DEF AllPassed
    <3>. QED
      BY <3>1, <3>2 DEF GateInv
  <2>. QED
    BY <2>1, <2>2
<1>6. GateCatches'
  BY <1>1 DEF GateCatches
<1>. QED
  BY <1>1, <1>2, <1>4, <1>5, <1>6 DEF GateInv

(* A rate that is not zero has an outcome to show. *)
LEMMA RateHasOutcome ==
  ASSUME NEW kind, NEW measured \in Measured, Positive(FractionTrue(kind, measured)),
         \A i \in DOMAIN outcomes : Consistent(outcomes[i])
  PROVE  ~ AllPassed
<1>. DEFINE present == {i \in ByKind(kind) : outcomes[i][measured] # None}
            true == {i \in present : outcomes[i][measured] = TRUE}
<1>1. true # {}
  <2>. SUFFICES ASSUME true = {} PROVE FALSE
    OBVIOUS
  <2>1. Cardinality(true) = 0
    BY FS_EmptySet
  <2>2. FractionTrue(kind, measured) = Rate(0, Cardinality(present))
    BY <2>1 DEF FractionTrue
  <2>. QED
    BY <2>2 DEF Rate, Positive, Fraction
<1>2. PICK i \in DOMAIN outcomes : outcomes[i][measured] # None /\ outcomes[i][measured] = TRUE
  BY <1>1 DEF ByKind
<1>. QED
  BY <1>2 DEF AllPassed, Consistent

LEMMA ReportKept ==
  ASSUME GateInv, ReportBench
  PROVE  GateInv'
<1>1. /\ outcomes' = outcomes /\ harmed' = harmed
      /\ report' = [all_passed |-> AllPassed, rates |-> Rates, retrieval |-> Retrieval,
                    exit |-> IF Regressions THEN 1 ELSE 0]
  BY DEF ReportBench
<1>2. /\ report'.all_passed = AllPassed /\ report'.rates = Rates
      /\ report'.exit = IF Regressions THEN 1 ELSE 0
  BY <1>1
<1>3. ASSUME NEW kind, NEW measured \in Measured, AllPassed
      PROVE  ~ Positive(FractionTrue(kind, measured))
  BY <1>3, RateHasOutcome DEF GateInv
<1>4. AllPassed => ~ Regressions
  <2>. SUFFICES ASSUME AllPassed PROVE ~ Regressions
    OBVIOUS
  <2>1. \A name \in DOMAIN ZeroTolerance : ~ Positive(ZeroTolerance[name])
    <3>1. /\ ~ Positive(ZeroTolerance["cross_owner"]) /\ ~ Positive(ZeroTolerance["forgotten"])
          /\ ~ Positive(ZeroTolerance["secret"]) /\ ~ Positive(ZeroTolerance["budget"])
      BY <1>3 DEF ZeroTolerance, Measured
    <3>2. DOMAIN ZeroTolerance = {"cross_owner", "forgotten", "secret", "budget"}
      BY DEF ZeroTolerance
    <3>. QED
      BY <3>1, <3>2
  <2>. QED
    BY <2>1 DEF Regressions
<1>5. AllPassed => ~ Positive(Rates.stale)
  BY <1>3 DEF Rates, Measured
<1>6. ~ AllPassed => Regressions
  BY DEF Regressions
<1>7. GateCatches'
  BY <1>1, <1>2, <1>4, <1>5, <1>6 DEF GateCatches, GateInv
<1>. QED
  BY <1>1, <1>7 DEF GateInv, AllPassed, ReportBench

LEMMA GateInvariance == OfflineSpec => []GateInv
<1>1. OfflineInit => GateInv
  BY DEF OfflineInit, EvalInit, GateInv, GateCatches
<1>2. GateInv /\ [OfflineNext]_offlineVars => GateInv'
  <2>. SUFFICES ASSUME GateInv, [OfflineNext]_offlineVars PROVE GateInv'
    OBVIOUS
  <2>1. CASE RunScenario
    BY <2>1, ScenariosConsistent, JudgedKept
  <2>2. CASE ReportBench
    BY <2>2, ReportKept
  <2>3. CASE UNCHANGED <<stage, outcomes, harmed, report>>
    BY <2>3 DEF GateInv, GateCatches, AllPassed
  <2>4. CASE LoadFails \/ Conclude
    BY <2>4 DEF LoadFails, Conclude, GateInv, GateCatches, AllPassed
  <2>. QED
    BY <2>1, <2>2, <2>3, <2>4
  DEF OfflineNext, offlineVars, evalVars, Setup, Judge, AiraContext, FirstTask, LaterTask, RunTask
<1>. QED
  BY <1>1, <1>2, PTL DEF OfflineSpec

(* An exit code of 0 vouches for every scenario of the bench, however many *)
(* there are and whatever the engine under test did.                       *)
THEOREM TheGateCatches == OfflineSpec => []GateCatches
<1>1. GateInv => GateCatches
  BY DEF GateInv
<1>. QED
  BY <1>1, GateInvariance, PTL

-----------------------------------------------------------------------------
(* aira bench: the metrics *)

LEMMA RelevantFinite ==
  ASSUME NEW relevant \in SUBSET Memories
  PROVE  IsFiniteSet(relevant) /\ Cardinality(relevant) \in Nat
         /\ (Cardinality(relevant) = 0 <=> relevant = {})
BY MemoriesAssumption, FS_Subset, FS_CardinalityType, FS_EmptySet

(* Recall grows with what is retrieved. *)
LEMMA RecallMonotone ==
  ASSUME NEW relevant \in SUBSET Memories, NEW s, NEW t,
         relevant \cap ToSet(s) \subseteq ToSet(t)
  PROVE  AtMost(Recall(s, relevant), Recall(t, relevant))
<1>1. CASE relevant = {}
  BY <1>1 DEF Recall, AtMost, Fraction
<1>2. CASE relevant # {}
  <2>. DEFINE few == Cardinality(relevant \cap ToSet(s))
              more == Cardinality(relevant \cap ToSet(t))
              all == Cardinality(relevant)
  <2>1. /\ relevant \cap ToSet(s) \in SUBSET (relevant \cap ToSet(t))
        /\ relevant \cap ToSet(t) \in SUBSET Memories
        /\ relevant \cap ToSet(s) \in SUBSET Memories
    OBVIOUS
  <2>2. few \in Nat /\ more \in Nat /\ all \in Nat
    BY <2>1, RelevantFinite
  <2>3. few <= more
    BY <2>1, RelevantFinite, FS_Subset
  <2>4. Recall(s, relevant) = Fraction(few, all) /\ Recall(t, relevant) = Fraction(more, all)
    BY <1>2 DEF Recall
  <2>. HIDE DEF few, more, all
  <2>5. few * all <= more * all
    BY <2>2, <2>3, ProductOrdered
  <2>. QED
    BY <2>4, <2>5 DEF AtMost, Fraction
<1>. QED
  BY <1>1, <1>2

(* The first k of a list are part of it. *)
LEMMA CutIsPart ==
  ASSUME NEW s \in Seq(Memories)
  PROVE  ToSet(SubSeq(s, 1, Min({TopK, Len(s)}))) \subseteq ToSet(s)
<1>. DEFINE k == Min({TopK, Len(s)})
<1>1. TopK \in Nat /\ Len(s) \in Nat
  BY MemoriesAssumption
<1>2. \E x \in {TopK, Len(s)} : \A y \in {TopK, Len(s)} : x <= y
  BY <1>1, SMT
<1>3. k \in {TopK, Len(s)} /\ \A y \in {TopK, Len(s)} : k <= y
  BY <1>2, Zenon DEF Min
<1>4. k \in Nat /\ k <= Len(s)
  BY <1>1, <1>3
<1>. HIDE DEF k
<1>5. \A i \in 1 .. k : s[i] \in Memories
  BY <1>4
<1>6. /\ SubSeq(s, 1, k) \in Seq(Memories)
      /\ Len(SubSeq(s, 1, k)) = k
      /\ \A i \in 1 .. k : SubSeq(s, 1, k)[i] = s[i]
  BY <1>4, <1>5
<1>7. DOMAIN SubSeq(s, 1, k) = 1 .. k /\ 1 .. k \subseteq DOMAIN s
  BY <1>4, <1>6
<1>8. ToSet(SubSeq(s, 1, k)) \subseteq ToSet(s)
  BY <1>6, <1>7 DEF ToSet
<1>. QED
  BY <1>8 DEF k

(* Precision, reciprocal rank and recall see the same hits. *)
LEMMA HitsAgree ==
  ASSUME NEW s \in Seq(Memories), NEW relevant \in SUBSET Memories
  PROVE  /\ Positive(Precision(s, relevant)) <=> Positive(ReciprocalRank(s, relevant))
         /\ Positive(Precision(s, relevant)) => Positive(Recall(s, relevant))
<1>. DEFINE hits == {i \in DOMAIN s : s[i] \in relevant}
<1>1. IsFiniteSet(hits) /\ Cardinality(hits) \in Nat /\ (Cardinality(hits) = 0 <=> hits = {})
  <2>1. Len(s) \in Nat /\ DOMAIN s = 1 .. Len(s)
    OBVIOUS
  <2>2. IsFiniteSet(DOMAIN s)
    BY <2>1, FS_Interval
  <2>. QED
    BY <2>2, FS_Subset, FS_CardinalityType, FS_EmptySet
<1>2. Positive(Precision(s, relevant)) <=> hits # {}
  <2>1. CASE s = <<>>
    BY <2>1 DEF Precision, Positive, Fraction
  <2>2. CASE s # <<>>
    <3>1. Precision(s, relevant) = Fraction(Cardinality(hits), Len(s))
      BY <2>2 DEF Precision, Hits
    <3>. HIDE DEF hits
    <3>. QED
      BY <1>1, <3>1 DEF Positive, Fraction
  <2>. QED
    BY <2>1, <2>2
<1>3. Positive(ReciprocalRank(s, relevant)) <=> hits # {}
  BY DEF ReciprocalRank, Positive, Fraction
<1>4. ASSUME hits # {} PROVE Positive(Recall(s, relevant))
  <2>1. relevant \cap ToSet(s) # {} /\ relevant # {}
    BY <1>4 DEF ToSet
  <2>2. relevant \cap ToSet(s) \in SUBSET Memories
    OBVIOUS
  <2>3. Cardinality(relevant \cap ToSet(s)) > 0
    <3>. DEFINE both == relevant \cap ToSet(s)
    <3>. HIDE DEF hits, both
    <3>1. both \in SUBSET Memories /\ both # {}
      BY <2>1, <2>2 DEF both
    <3>2. Cardinality(both) \in Nat /\ Cardinality(both) # 0
      BY <3>1, RelevantFinite
    <3>. QED
      BY <3>2 DEF both
  <2>. QED
    BY <2>1, <2>3 DEF Recall, Positive, Fraction
<1>. QED
  BY <1>2, <1>3, <1>4

(* The full history retrieves every active memory. *)
LEMMA HistoryIsAll ==
  ASSUME NEW active \in SUBSET Memories
  PROVE  SetToSeq(active) \in Seq(Memories) /\ ToSet(SetToSeq(active)) = active
<1>. DEFINE n == Cardinality(active)
            f == SetToSeq(active)
<1>1. IsFiniteSet(active) /\ n \in Nat /\ ExistsBijection(1 .. n, active)
  BY MemoriesAssumption, FS_Subset, FS_CardinalityType
<1>2. \E g \in [1 .. n -> active] : IsInjective(g)
  BY <1>1 DEF ExistsBijection, Bijection, Injection, IsInjective
<1>3. f \in [1 .. n -> active] /\ IsInjective(f)
  BY <1>2, Zenon DEF SetToSeq
<1>4. f \in Injection(1 .. n, active)
  BY <1>3 DEF Injection
<1>5. Cardinality(1 .. n) = n
  BY <1>1, FS_Interval
<1>6. f \in Surjection(1 .. n, active)
  BY <1>1, <1>4, <1>5, FS_Injection
<1>7. ToSet(f) = active
  BY <1>3, <1>6 DEF ToSet, Surjection
<1>8. f \in Seq(Memories)
  BY <1>1, <1>3
<1>. QED
  BY <1>7, <1>8

LEMMA ContextsAreLists == Contexts \subseteq Seq(Memories)
<1>1. IsFiniteSet(Memories) /\ Cardinality(Memories) \in Nat
  BY MemoriesAssumption, FS_CardinalityType
<1>. QED
  BY <1>1 DEF Contexts, SeqOf

LEMMA BaselinesAgree ==
  ASSUME NEW b \in BaselineSets
  PROVE  Agree(b)
<1>1. PICK included \in Contexts, active \in SUBSET Memories, facts \in SUBSET Memories :
        b = Baselines(included, active, active \cap facts)
  <2>1. PICK x \in Contexts \X (SUBSET Memories) \X (SUBSET Memories) : b = BaselinesOf(x)
    BY DEF BaselineSets
  <2>2. x[1] \in Contexts /\ x[2] \in SUBSET Memories /\ x[3] \in SUBSET Memories
    BY <2>1
  <2>. QED
    BY <2>1, <2>2 DEF BaselinesOf
<1>. DEFINE relevant == active \cap facts
<1>2. relevant \in SUBSET Memories /\ relevant \subseteq active
  OBVIOUS
<1>3. /\ b.no_memory = MetricSet(<<>>, relevant)
      /\ b.aira = MetricSet(included, relevant)
      /\ b.full_history = MetricSet(SetToSeq(active), relevant)
      /\ DOMAIN b = {"no_memory", "aira", "full_history"}
  BY <1>1 DEF Baselines
<1>4. /\ <<>> \in Seq(Memories) /\ included \in Seq(Memories)
      /\ SetToSeq(active) \in Seq(Memories) /\ ToSet(SetToSeq(active)) = active
  BY ContextsAreLists, HistoryIsAll
<1>. HIDE DEF relevant
<1>5. ASSUME NEW s \in Seq(Memories)
      PROVE  LET m == MetricSet(s, relevant)
             IN  /\ Positive(m.precision) <=> Positive(m.mrr)
                 /\ Positive(m.precision) => Positive(m.recall)
                 /\ AtMost(m.recall_at_k, m.recall)
  <2>1. AtMost(RecallAtK(s, relevant), Recall(s, relevant))
    BY <1>2, CutIsPart, RecallMonotone DEF RecallAtK
  <2>. QED
    BY <1>2, <2>1, HitsAgree DEF MetricSet
<1>6. \A name \in DOMAIN b :
        /\ Positive(b[name].precision) <=> Positive(b[name].mrr)
        /\ Positive(b[name].precision) => Positive(b[name].recall)
        /\ AtMost(b[name].recall_at_k, b[name].recall)
  BY <1>3, <1>4, <1>5
<1>7. AtMost(Recall(<<>>, relevant), Recall(included, relevant))
  <2>1. ToSet(<<>>) = {}
    BY DEF ToSet
  <2>. QED
    BY <1>2, <2>1, RecallMonotone
<1>8. AtMost(Recall(included, relevant), Recall(SetToSeq(active), relevant))
  BY <1>2, <1>4, RecallMonotone
<1>9. /\ b.no_memory.recall = Recall(<<>>, relevant)
      /\ b.aira.recall = Recall(included, relevant)
      /\ b.full_history.recall = Recall(SetToSeq(active), relevant)
  BY <1>3 DEF MetricSet
<1>. QED
  BY <1>6, <1>7, <1>8, <1>9 DEF Agree

(* The metrics of every scenario agree, whatever the engine retrieves and  *)
(* however many memories there are.                                        *)
THEOREM MetricsOfOutcomesAgree == OfflineSpec => []OutcomesAgree
<1>1. GateInv => OutcomesAgree
  <2>. SUFFICES ASSUME GateInv, NEW i \in DOMAIN outcomes, outcomes[i].baselines # None
                PROVE  Agree(outcomes[i].baselines)
    BY DEF OutcomesAgree
  <2>1. outcomes[i] \in Outcomes
    BY DEF GateInv
  <2>. QED
    BY <2>1, BaselinesAgree DEF Outcomes
<1>. QED
  BY <1>1, GateInvariance, PTL

-----------------------------------------------------------------------------
(* The assistant's memory: what capture keeps *)

(* What is known of a statement that stands: the form and the words of a   *)
(* name.                                                                   *)
Wording(b) ==
  /\ b = Body(b.form, b.words, b.value)
  /\ b.form \in {"attribute", "project", "name", "instruction", "preference", "free"}
  /\ b.form = "attribute" => Lettered(b.words)
  /\ b.form \in {"project", "name"} => b.words = <<b.form>>

(* The record that capture makes of a statement. *)
Remembered(body) == [kind |-> Kind(body), slot |-> body.words, content |-> body]

(* The store holds the records of the statements that stand. *)
StoreInv ==
  /\ \A b \in meant : Wording(b)
  /\ store = {Remembered(b) : b \in meant}

LEMMA StatementWorded ==
  ASSUME NEW b \in Statements
  PROVE  Wording(b)
<1>1. CASE \E w \in Phrases, v \in Values : Lettered(w) /\ b = Body("attribute", w, v)
  BY <1>1 DEF Body, Wording
<1>2. CASE \E form \in {"project", "name"}, v \in Values : b = Body(form, <<form>>, v)
  BY <1>2 DEF Body, Wording
<1>3. CASE \E form \in {"instruction", "preference", "free"}, w \in Phrases :
             b = Body(form, w, "none")
  BY <1>3 DEF Body, Wording
<1>. QED
  BY <1>1, <1>2, <1>3 DEF Statements

(* Stripping words keeps the form, and the kind. *)
LEMMA StrippedWording ==
  ASSUME NEW b, Wording(b)
  PROVE  /\ Wording(Rest(b)) /\ Rest(b).form = b.form
         /\ Wording(Content(b)) /\ Content(b).form = b.form
         /\ Kind(Content(b)) = Kind(b)
<1>1. b = [form |-> b.form, words |-> b.words, value |-> b.value]
  BY DEF Wording, Body
<1>2. ASSUME NEW w PROVE [b EXCEPT !.words = w] = [form |-> b.form, words |-> w, value |-> b.value]
  BY <1>1
<1>3. Rest(b) = IF b.form = "free"
                  THEN [form |-> b.form, words |-> DropLead({"that", "to"}, b.words),
                        value |-> b.value]
                  ELSE b
  BY <1>2 DEF Rest
<1>4. Content(b) = IF b.form \in {"instruction", "preference", "free"}
                     THEN [form |-> b.form, words |-> StripDot(b.words), value |-> b.value]
                     ELSE b
  BY <1>2 DEF Content
<1>5. Wording(Rest(b)) /\ Rest(b).form = b.form
  <2>1. CASE b.form = "free"
    BY <1>3, <2>1 DEF Wording, Body
  <2>. QED
    BY <1>3, <2>1
<1>6. Wording(Content(b)) /\ Content(b).form = b.form
  <2>1. CASE b.form \in {"instruction", "preference", "free"}
    BY <1>4, <2>1 DEF Wording, Body
  <2>. QED
    BY <1>4, <2>1
<1>7. Kind(Content(b)) = Kind(b)
  <2>1. CASE b.form \in {"instruction", "preference", "free"}
    BY <1>6, <2>1 DEF Kind
  <2>. QED
    BY <1>4, <2>1
<1>. QED
  BY <1>5, <1>6, <1>7

(* A kind in terms of what the words name. *)
Tool(words) == \E tool \in Preferences : words = <<tool>>

LEMMA KindOfWords ==
  ASSUME NEW b, Wording(b)
  PROVE  /\ b.form = "instruction" => Kind(b) = "instruction"
         /\ b.form = "preference" => Kind(b) = "preference"
         /\ b.form = "free" => Kind(b) = "semantic"
         /\ b.form = "attribute" => Kind(b) = IF Tool(b.words) THEN "preference" ELSE "semantic"
         /\ b.form \in {"project", "name"} => Kind(b) = "semantic" /\ ~ Tool(b.words)
<1>1. b.form \in {"project", "name"} => ~ Tool(b.words)
  BY PhraseAssumption DEF Wording, Tool
<1>. QED
  BY <1>1 DEF Kind, KindForAttribute, Tool

LEMMA NamedForms ==
  ASSUME NEW words
  PROVE  Named(words) = IF Tool(words) THEN {"attribute", "preference"}
                        ELSE {"attribute", "project", "name", "free"}
BY DEF Named, Tool

(* Statements share a canonical key exactly if the one replaces the other. *)
LEMMA KeysReplace ==
  ASSUME NEW b, Wording(b), NEW c, Wording(c)
  PROVE  (Kind(b) = Kind(c) /\ b.words = c.words) <=> Replaces(c, b)
<1>1. ASSUME b.words = c.words
      PROVE  Kind(b) = Kind(c) <=> c.form = b.form \/ {c.form, b.form} \subseteq Named(b.words)
  <2>1. /\ b.form \in {"attribute", "project", "name", "instruction", "preference", "free"}
        /\ c.form \in {"attribute", "project", "name", "instruction", "preference", "free"}
    BY DEF Wording
  <2>2. {c.form, b.form} \subseteq Named(b.words) <=>
          c.form \in Named(b.words) /\ b.form \in Named(b.words)
    OBVIOUS
  <2>3. CASE Tool(b.words)
    BY <1>1, <2>1, <2>2, <2>3, KindOfWords, NamedForms
  <2>4. CASE ~ Tool(b.words)
    BY <1>1, <2>1, <2>2, <2>4, KindOfWords, NamedForms
  <2>. QED
    BY <2>3, <2>4
<1>. QED
  BY <1>1 DEF Replaces

(* A forget request finds exactly the records of the statements it reaches. *)
LEMMA TargetsReach ==
  ASSUME NEW t, NEW b, Wording(b)
  PROVE  (TargetKind(Target(t)) = Kind(b) /\ TargetSlot(Target(t)) = b.words) <=> Reaches(t, b)
<1>. DEFINE target == DropLead({"about"}, t.words)
<1>1. Target(t) = target
  BY DEF Target
<1>2. b.form \in {"attribute", "project", "name", "instruction", "preference", "free"}
  BY DEF Wording
<1>3. CASE Lettered(target)
  <2>1. TargetSlot(target) = DropLead({"my"}, target)
    BY <1>3 DEF TargetSlot
  <2>2. TargetKind(target) = KindForAttribute(TargetSlot(target))
    BY <1>3 DEF TargetKind
  <2>3. Reaches(t, b) <=> b.words = DropLead({"my"}, target) /\ b.form \in Named(b.words)
    BY <1>3 DEF Reaches
  <2>4. ASSUME TargetSlot(target) = b.words
        PROVE  TargetKind(target) = Kind(b) <=> b.form \in Named(b.words)
    <3>1. TargetKind(target) = IF Tool(b.words) THEN "preference" ELSE "semantic"
      BY <2>2, <2>4 DEF KindForAttribute, Tool
    <3>. QED
      BY <1>2, <3>1, KindOfWords, NamedForms
  <2>. QED
    BY <1>1, <2>1, <2>3, <2>4
<1>4. CASE ~ Lettered(target)
  <2>1. TargetSlot(target) = target /\ TargetKind(target) = "semantic"
    BY <1>4 DEF TargetSlot, TargetKind
  <2>2. Reaches(t, b) <=> b.words = target /\ b.form = "free"
    BY <1>4 DEF Reaches
  <2>3. b.form \in {"attribute", "project", "name"} => Lettered(b.words)
    BY PhraseAssumption DEF Wording, Lettered
  <2>. QED
    BY <1>1, <1>2, <1>4, <2>1, <2>2, <2>3, KindOfWords
<1>. QED
  BY <1>3, <1>4

LEMMA ClampBounds ==
  ASSUME NEW score \in Nat
  PROVE  /\ Clamp(score) \in Nat /\ Clamp(score) <= 100 /\ Clamp(score) <= score
         /\ score <= 100 => Clamp(score) = score
         /\ score > 100 => Clamp(score) = 100
<1>1. \E x \in {100, score} : \A y \in {100, score} : x <= y
  BY SMT
<1>2. Clamp(score) \in {100, score} /\ \A y \in {100, score} : Clamp(score) <= y
  BY <1>1, Zenon DEF Clamp, Min
<1>. QED
  BY <1>2

(* A candidate that extraction makes scores high enough to be kept. *)
LEMMA ScoresSuffice ==
  ASSUME NEW text, NEW c,
         c.importance \in 50 .. 80, c.confidence \in 60 .. 90
  PROVE  Keep(text, c) <=> "temporary" \notin text.flags
<1>1. KindBonus(c.kind) \in {5, 15}
  BY DEF KindBonus
<1>2. /\ Clamp(c.importance + KindBonus(c.kind)) \in Nat
      /\ Clamp(c.importance + KindBonus(c.kind)) >= 40
  BY <1>1, ClampBounds
<1>3. Clamp(Clamp(c.importance + KindBonus(c.kind))
              + IF c.source = "correction" THEN 5 ELSE 0) >= 40
  BY <1>2, ClampBounds
<1>4. Clamp(c.confidence + IF c.source = "explicit" THEN 5 ELSE 0) >= 50
  BY ClampBounds
<1>. QED
  BY <1>3, <1>4 DEF Keep

(* What stops a turn before extraction. *)
Refused(text) == text.flags \cap {"assistant", "oversized", "secret", "denied"} # {}

LEMMA AcceptedUnlessRefused ==
  ASSUME NEW text
  PROVE  Accepted(text) =
           IF Refused(text) THEN {} ELSE {c \in Candidates(text) : Considered(text, c)}
<1>1. (\/ Scan(text.flags).blocked \/ "assistant" \in text.flags
       \/ Scan(text.flags).do_not_remember) <=> Refused(text)
  BY DEF Scan, Refused
<1>. QED
  BY <1>1 DEF Accepted

LEMMA CountsUnlessRefused ==
  ASSUME NEW text
  PROVE  Counts(text) <=> /\ ~ Refused(text) /\ "temporary" \notin text.flags
                          /\ "override" \in text.flags => text.body.form # "instruction"
                          /\ text.body.form = "free" => text.verb = "remember"
                          /\ text.body.form # "empty"
BY DEF Counts, Refused

(* A text that is not refused as oversized is looked at for overrides.     *)
LEMMA OverrideSeen ==
  ASSUME NEW text, ~ Refused(text)
  PROVE  Scan(text.flags).instruction_like <=> "override" \in text.flags
BY DEF Scan, Refused

(* A forget request is accepted exactly if it counts. *)
LEMMA ForgetAccepted ==
  ASSUME NEW text, text.verb = "forget", text.body \in Targets
  PROVE  Accepted(text) = IF Counts(text) THEN {ForgetCandidate(text.body)} ELSE {}
<1>. DEFINE c == ForgetCandidate(text.body)
<1>1. Candidates(text) = {c}
  BY DEF Candidates
<1>2. /\ c.kind = TargetKind(Target(text.body)) /\ c.importance = 50 /\ c.confidence = 90
  BY DEF ForgetCandidate
<1>3. c.kind # "instruction"
  BY <1>2 DEF TargetKind, KindForAttribute
<1>4. Keep(text, c) <=> "temporary" \notin text.flags
  <2>. HIDE DEF c
  <2>. QED
    BY <1>2, ScoresSuffice
<1>5. Considered(text, c) <=> "temporary" \notin text.flags
  BY <1>3, <1>4 DEF Considered
<1>6. text.body.form = "target"
  BY DEF Targets, Body
<1>7. Counts(text) <=> ~ Refused(text) /\ Considered(text, c)
  BY <1>5, <1>6, CountsUnlessRefused
<1>. QED
  <2>. HIDE DEF c
  <2>1. {d \in Candidates(text) : Considered(text, d)} = IF Considered(text, c) THEN {c} ELSE {}
    BY <1>1
  <2>2. Accepted(text) = IF Counts(text) THEN {c} ELSE {}
    BY <1>7, <2>1, AcceptedUnlessRefused
  <2>. QED
    BY <2>2 DEF c

(* What extraction gives a statement as source and scores. *)
Sources == {"explicit", "correction", "inferred"}
Confidences == 60 .. 90
Importances == 50 .. 80

(* Extraction makes of a statement the candidate that says it, unless it   *)
(* is a free text nobody asked to remember.                                *)
Says(c, body) ==
  /\ c.action = "remember" /\ c.kind = Kind(body) /\ c.slot = body.words /\ c.content = body
  /\ c.importance \in Importances /\ c.confidence \in Confidences

LEMMA StatementParsed ==
  ASSUME NEW body, Wording(body), NEW source \in Sources,
         NEW confidence \in Confidences, NEW importance \in Importances
  PROVE  /\ (body.form = "free" /\ source # "explicit") =>
              ParseStatement(body, source, confidence, importance) = {}
         /\ ~ (body.form = "free" /\ source # "explicit") =>
              \E c : /\ ParseStatement(body, source, confidence, importance) = {c}
                     /\ Says(c, Content(body))
<1>. DEFINE raised == IF body.form = "instruction" THEN Max({importance, 80}) ELSE importance
            c == [action |-> "remember", kind |-> Kind(body), slot |-> Content(body).words,
                  content |-> Content(body), source |-> source, confidence |-> confidence,
                  importance |-> raised]
<1>1. body.form # "empty"
  BY DEF Wording
<1>2. raised \in Importances
  <2>1. \E x \in {importance, 80} : \A y \in {importance, 80} : x >= y
    BY SMT DEF Importances
  <2>2. Max({importance, 80}) \in {importance, 80}
    BY <2>1, Zenon DEF Max
  <2>. QED
    BY <2>2 DEF Importances
<1>3. Says(c, Content(body))
  <2>. HIDE DEF raised
  <2>1. Kind(Content(body)) = Kind(body)
    BY StrippedWording
  <2>. QED
    BY <1>2, <2>1 DEF Says
<1>4. ParseStatement(body, source, confidence, importance) =
        IF body.form = "free" /\ source # "explicit" THEN {} ELSE {c}
  BY <1>1 DEF ParseStatement
<1>. QED
  BY <1>3, <1>4

LEMMA StatementAccepted ==
  ASSUME NEW text, text.verb \in {"none", "remember"}, text.body \in Statements
  PROVE  IF Counts(text)
           THEN \E c : Accepted(text) = {c} /\ Says(c, Content(Rest(text.body)))
           ELSE Accepted(text) = {}
<1>. DEFINE said == Rest(text.body)
<1>0. /\ Wording(text.body) /\ Wording(said) /\ said.form = text.body.form
      /\ text.body.form # "free" => said = text.body
      /\ Content(said).form = text.body.form /\ Wording(Content(said))
  BY StatementWorded, StrippedWording DEF Rest
<1>1. IF text.body.form = "free" /\ text.verb # "remember"
        THEN Candidates(text) = {}
        ELSE \E c : Candidates(text) = {c} /\ Says(c, Content(said))
  <2>1. CASE text.verb = "remember"
    <3>1. Candidates(text) = ParseStatement(said, "explicit", 90, 70)
      BY <2>1 DEF Candidates
    <3>2. "explicit" \in Sources /\ 90 \in Confidences /\ 70 \in Importances
      BY DEF Sources, Confidences, Importances
    <3>. HIDE DEF said
    <3>3. /\ (text.body.form = "free" /\ "explicit" # "explicit") =>
               ParseStatement(said, "explicit", 90, 70) = {}
          /\ ~ (text.body.form = "free" /\ "explicit" # "explicit") =>
               \E c : /\ ParseStatement(said, "explicit", 90, 70) = {c}
                      /\ Says(c, Content(said))
      BY <1>0, <3>2, StatementParsed, SMTT(30)
    <3>. QED
      BY <1>0, <2>1, <3>1, <3>3
  <2>2. CASE text.verb = "none" /\ text.cue
    <3>1. Candidates(text) = ParseStatement(text.body, "correction", 85, 75)
      BY <2>2 DEF Candidates
    <3>2. "correction" \in Sources /\ 85 \in Confidences /\ 75 \in Importances
      BY DEF Sources, Confidences, Importances
    <3>. HIDE DEF said
    <3>3. /\ (text.body.form = "free" /\ "correction" # "explicit") =>
               ParseStatement(text.body, "correction", 85, 75) = {}
          /\ ~ (text.body.form = "free" /\ "correction" # "explicit") =>
               \E c : /\ ParseStatement(text.body, "correction", 85, 75) = {c}
                      /\ Says(c, Content(text.body))
      BY <1>0, <3>2, StatementParsed, SMTT(30)
    <3>. QED
      BY <1>0, <2>2, <3>1, <3>3
  <2>3. CASE text.verb = "none" /\ ~ text.cue
    <3>1. Candidates(text) = ParseStatement(text.body, "inferred", 60, 55)
      BY <2>3 DEF Candidates
    <3>2. "inferred" \in Sources /\ 60 \in Confidences /\ 55 \in Importances
      BY DEF Sources, Confidences, Importances
    <3>. HIDE DEF said
    <3>3. /\ (text.body.form = "free" /\ "inferred" # "explicit") =>
               ParseStatement(text.body, "inferred", 60, 55) = {}
          /\ ~ (text.body.form = "free" /\ "inferred" # "explicit") =>
               \E c : /\ ParseStatement(text.body, "inferred", 60, 55) = {c}
                      /\ Says(c, Content(text.body))
      BY <1>0, <3>2, StatementParsed, SMTT(30)
    <3>. QED
      BY <1>0, <2>3, <3>1, <3>3
  <2>. QED
    BY <2>1, <2>2, <2>3
<1>2. CASE text.body.form = "free" /\ text.verb # "remember"
  BY <1>1, <1>2, AcceptedUnlessRefused, CountsUnlessRefused
<1>3. CASE text.body.form = "free" => text.verb = "remember"
  <2>1. PICK c : Candidates(text) = {c} /\ Says(c, Content(said))
    BY <1>1, <1>3
  <2>. HIDE DEF said
  <2>2. Keep(text, c) <=> "temporary" \notin text.flags
    BY <2>1, ScoresSuffice DEF Says, Importances, Confidences
  <2>3. c.kind = "instruction" <=> text.body.form = "instruction"
    <3>1. Kind(Content(said)) = "instruction" <=> Content(said).form = "instruction"
      BY <1>0, KindOfWords DEF Wording
    <3>. QED
      BY <1>0, <2>1, <3>1 DEF Says
  <2>4. text.body.form # "empty"
    BY <1>0 DEF Wording
  <2>5. ~ Refused(text) => (Considered(text, c) <=> Counts(text))
    BY <1>3, <2>2, <2>3, <2>4, OverrideSeen, CountsUnlessRefused DEF Considered
  <2>6. {d \in Candidates(text) : Considered(text, d)} = IF Considered(text, c) THEN {c} ELSE {}
    BY <2>1
  <2>7. Accepted(text) = IF Counts(text) THEN {c} ELSE {}
    BY <2>5, <2>6, AcceptedUnlessRefused, CountsUnlessRefused
  <2>. QED
    BY <2>1, <2>7 DEF said
<1>. QED
  BY <1>2, <1>3

LEMMA NothingAccepted ==
  ASSUME NEW text, text.verb \in {"none", "remember"}, text.body = Nothing
  PROVE  Accepted(text) = {} /\ ~ Counts(text)
<1>1. text.body.form = "empty"
  BY DEF Nothing, Body
<1>2. Candidates(text) = {}
  BY <1>1 DEF Candidates, ParseStatement, Rest
<1>. QED
  BY <1>1, <1>2, AcceptedUnlessRefused, CountsUnlessRefused

LEMMA TextsParsed ==
  ASSUME NEW text \in Texts
  PROVE  \/ text.verb \in {"none", "remember"} /\ text.body \in Statements \cup {Nothing}
         \/ text.verb = "forget" /\ text.body \in Targets
BY DEF Texts

-----------------------------------------------------------------------------
LEMMA TargetForgotten ==
  ASSUME StoreInv, NEW text, CaptureTurn(text), text.verb = "forget", text.body \in Targets
  PROVE  StoreInv'
<1>. DEFINE t == text.body
<1>1. meant' = {b \in meant : ~ (Counts(text) /\ Reaches(t, b))}
  BY DEF CaptureTurn, Meaning
<1>2. store' = {r \in store : ~ (/\ Counts(text) /\ r.kind = TargetKind(Target(t))
                                 /\ r.slot = TargetSlot(Target(t)))}
  <2>1. CASE Counts(text)
    <3>. DEFINE c == ForgetCandidate(t)
    <3>1. Accepted(text) = {c}
      BY <2>1, ForgetAccepted
    <3>2. c.action = "forget" /\ c.kind = TargetKind(Target(t)) /\ c.slot = TargetSlot(Target(t))
      BY DEF ForgetCandidate
    <3>3. Resolve(c)
      BY <3>1 DEF CaptureTurn
    <3>. HIDE DEF c
    <3>. QED
      BY <2>1, <3>2, <3>3 DEF Resolve, Existing
  <2>2. CASE ~ Counts(text)
    <3>1. Accepted(text) = {}
      BY <2>2, ForgetAccepted
    <3>. QED
      BY <2>2, <3>1 DEF CaptureTurn
  <2>. QED
    BY <2>1, <2>2
<1>3. ASSUME NEW b \in meant
      PROVE  /\ Remembered(b).kind = TargetKind(Target(t))
             /\ Remembered(b).slot = TargetSlot(Target(t))
             <=> Reaches(t, b)
  BY TargetsReach DEF StoreInv, Remembered
<1>4. store = {Remembered(b) : b \in meant}
  BY DEF StoreInv
<1>5. store' = {Remembered(b) : b \in meant'}
  BY <1>1, <1>2, <1>3, <1>4, Zenon
<1>. QED
  BY <1>1, <1>5 DEF StoreInv

LEMMA StatementKept ==
  ASSUME StoreInv, NEW text, CaptureTurn(text), text.verb \in {"none", "remember"},
         text.body \in Statements \cup {Nothing}
  PROVE  StoreInv'
<1>. DEFINE new == Content(Rest(text.body))
<1>1. CASE ~ Counts(text)
  <2>1. Accepted(text) = {}
    BY <1>1, StatementAccepted, NothingAccepted
  <2>2. store' = store /\ meant' = meant
    BY <1>1, <2>1 DEF CaptureTurn, Meaning
  <2>. QED
    BY <2>2 DEF StoreInv
<1>2. CASE Counts(text)
  <2>1. text.body \in Statements
    BY <1>2, NothingAccepted
  <2>2. PICK c : Accepted(text) = {c} /\ Says(c, new)
    BY <1>2, <2>1, StatementAccepted
  <2>3. Resolve(c)
    BY <2>2 DEF CaptureTurn
  <2>4. meant' = {b \in meant : ~ Replaces(new, b)} \cup {new}
    BY <1>2 DEF CaptureTurn, Meaning
  <2>5. Wording(new)
    BY <2>1, StatementWorded, StrippedWording
  <2>. HIDE DEF new
  <2>6. store' = {r \in store : ~ (r.kind = Kind(new) /\ r.slot = new.words)} \cup {Remembered(new)}
    BY <2>2, <2>3 DEF Resolve, Existing, Says, Remembered
  <2>7. ASSUME NEW b \in meant
        PROVE  Remembered(b).kind = Kind(new) /\ Remembered(b).slot = new.words
               <=> Replaces(new, b)
    BY <2>5, KeysReplace DEF StoreInv, Remembered
  <2>8. store = {Remembered(b) : b \in meant}
    BY DEF StoreInv
  <2>9. store' = {Remembered(b) : b \in meant'}
    BY <2>4, <2>6, <2>7, <2>8, Zenon
  <2>. QED
    BY <2>4, <2>5, <2>9 DEF StoreInv
<1>. QED
  BY <1>1, <1>2

LEMMA StoreInvariance == OfflineSpec => []StoreInv
<1>1. OfflineInit => StoreInv
  BY DEF OfflineInit, CaptureInit, StoreInv
<1>2. StoreInv /\ [OfflineNext]_offlineVars => StoreInv'
  <2>. SUFFICES ASSUME StoreInv, [OfflineNext]_offlineVars PROVE StoreInv'
    OBVIOUS
  <2>1. ASSUME NEW text \in Texts, CaptureTurn(text) PROVE StoreInv'
    BY <2>1, TextsParsed, TargetForgotten, StatementKept
  <2>2. CASE UNCHANGED <<store, meant>>
    BY <2>2 DEF StoreInv
  <2>. QED
    BY <2>1, <2>2
    DEF OfflineNext, offlineVars, captureVars, Setup, Judge, AiraContext, CaptureSecret
<1>. QED
  BY <1>1, <1>2, PTL DEF OfflineSpec

(* After any number of turns, with any words: the statements that stand,   *)
(* each in one memory.                                                     *)
THEOREM StoreHoldsLastSaid == OfflineSpec => []StoreIsLastSaid
<1>1. StoreInv => StoreIsLastSaid
  <2>. SUFFICES ASSUME StoreInv PROVE StoreIsLastSaid
    OBVIOUS
  <2>1. /\ \A r \in store : \E b \in meant : r = Remembered(b)
        /\ \A b \in meant : Remembered(b) \in store
    BY DEF StoreInv
  <2>2. \A b \in meant : Remembered(b).content = b
    BY DEF Remembered
  <2>3. {r.content : r \in store} = meant
    BY <2>1, <2>2, Zenon
  <2>4. ASSUME NEW r \in store, NEW s \in store, r.content = s.content
        PROVE  r = s
    <3>1. PICK b \in meant : r = Remembered(b)
      BY <2>1
    <3>2. PICK d \in meant : s = Remembered(d)
      BY <2>1
    <3>3. b = d
      BY <2>2, <2>4, <3>1, <3>2
    <3>. QED
      BY <3>1, <3>2, <3>3
  <2>. QED
    BY <2>3, <2>4 DEF StoreIsLastSaid
<1>. QED
  BY <1>1, StoreInvariance, PTL

-----------------------------------------------------------------------------
(* aira bench: the means *)

Fractions == [num: Nat, den: Nat \ {0}]

LEMMA FractionIs ==
  ASSUME NEW n \in Nat, NEW d \in Nat, d # 0
  PROVE  Fraction(n, d) \in Fractions
  BY DEF Fraction, Fractions

LEMMA FractionParts ==
  ASSUME NEW x \in Fractions
  PROVE  x.num \in Nat /\ x.den \in Nat /\ x.den > 0
  BY DEF Fractions

LEMMA ProductOfSums ==
  ASSUME NEW a \in Nat, NEW b \in Nat, NEW c \in Nat, NEW d \in Nat,
         NEW e \in Nat, NEW f \in Nat, NEW g \in Nat, NEW h \in Nat,
         a * d <= c * b, e * h <= g * f
  PROVE  (a * f + e * b) * (d * h) <= (c * h + g * d) * (b * f)
<1>1. (a * d) * (f * h) <= (c * b) * (f * h)
  BY ProductOrdered
<1>2. (e * h) * (b * d) <= (g * f) * (b * d)
  BY ProductOrdered
<1>3. (a * f + e * b) * (d * h) = (a * d) * (f * h) + (e * h) * (b * d)
  OBVIOUS
<1>4. (c * h + g * d) * (b * f) = (c * b) * (f * h) + (g * f) * (b * d)
  OBVIOUS
<1>. QED
  BY <1>1, <1>2, <1>3, <1>4

LEMMA PlusIsFraction ==
  ASSUME NEW x \in Fractions, NEW y \in Fractions
  PROVE  /\ Plus(x, y) \in Fractions
         /\ Positive(Plus(x, y)) <=> Positive(x) \/ Positive(y)
<1>. DEFINE a == x.num
            b == x.den
            e == y.num
            f == y.den
<1>1. a \in Nat /\ b \in Nat /\ b > 0 /\ e \in Nat /\ f \in Nat /\ f > 0
  BY FractionParts
<1>. HIDE DEF a, b, e, f
<1>2. b * f > 0
  BY <1>1, ProductPositive
<1>3. /\ a * f \in Nat /\ e * b \in Nat /\ b * f \in Nat
      /\ a > 0 => a * f > 0
      /\ e > 0 => e * b > 0
      /\ a = 0 => a * f = 0
      /\ e = 0 => e * b = 0
  BY <1>1, ProductPositive
<1>4. a * f + e * b \in Nat /\ (a * f + e * b > 0 <=> a > 0 \/ e > 0)
  BY <1>1, <1>3
<1>5. Plus(x, y) = Fraction(a * f + e * b, b * f)
  BY DEF Plus, a, b, e, f
<1>6. Plus(x, y) \in Fractions
  BY <1>2, <1>3, <1>4, <1>5, FractionIs
<1>7. Positive(Plus(x, y)) <=> a * f + e * b > 0
  BY <1>5 DEF Positive, Fraction
<1>. QED
  BY <1>4, <1>6, <1>7 DEF Positive, a, e

LEMMA PlusOrdered ==
  ASSUME NEW x \in Fractions, NEW y \in Fractions, NEW u \in Fractions, NEW v \in Fractions,
         AtMost(x, y), AtMost(u, v)
  PROVE  AtMost(Plus(x, u), Plus(y, v))
<1>1. /\ x.num \in Nat /\ x.den \in Nat /\ y.num \in Nat /\ y.den \in Nat
      /\ u.num \in Nat /\ u.den \in Nat /\ v.num \in Nat /\ v.den \in Nat
  BY FractionParts
<1>2. x.num * y.den <= y.num * x.den /\ u.num * v.den <= v.num * u.den
  BY DEF AtMost
<1>3. (x.num * u.den + u.num * x.den) * (y.den * v.den)
        <= (y.num * v.den + v.num * y.den) * (x.den * u.den)
  BY <1>1, <1>2, ProductOfSums
<1>. QED
  BY <1>3 DEF AtMost, Plus, Fraction

IsSumRun(sum, values, n) ==
  /\ Total(values) = sum[n] /\ sum[0] = Fraction(0, 1)
  /\ \A i \in 1 .. n : sum[i] = Plus(sum[i - 1], values[i])

LEMMA TotalRuns ==
  ASSUME NEW values \in Seq(Fractions), NEW n \in Nat, n = Len(values)
  PROVE  \E sum : IsSumRun(sum, values, n)
<1>. DEFINE zero == Fraction(0, 1)
            IsRun(g) == g = [i \in 0 .. n |-> IF i = 0 THEN zero ELSE Plus(g[i - 1], values[i])]
            turn == [i \in 1 .. n |-> [x \in Fractions |-> Plus(x, values[i])]]
<1>1. ASSUME NEW i \in 1 .. n, NEW x \in Fractions PROVE Plus(x, values[i]) \in Fractions
  <2>1. values[i] \in Fractions
    OBVIOUS
  <2>. QED
    BY <2>1, PlusIsFraction
<1>2. turn \in [1 .. n -> [Fractions -> Fractions]]
  BY <1>1
<1>3. PICK f : IsLoop(f, Fractions, zero, n, turn)
  <2>1. zero \in Fractions
    BY FractionIs
  <2>. HIDE DEF turn, zero
  <2>. QED
    BY <1>2, <2>1, LoopExists
<1>4. ASSUME NEW i \in 1 .. n PROVE f[i] = Plus(f[i - 1], values[i])
  <2>1. f[i - 1] \in Fractions
    BY <1>3 DEF IsLoop
  <2>2. turn[i][f[i - 1]] = Plus(f[i - 1], values[i])
    BY <2>1
  <2>. QED
    BY <1>3, <2>2 DEF IsLoop
<1>5. IsRun(f)
  <2>1. f = [i \in 0 .. n |-> f[i]]
    BY <1>3 DEF IsLoop
  <2>2. \A i \in 0 .. n : f[i] = IF i = 0 THEN zero ELSE Plus(f[i - 1], values[i])
    BY <1>3, <1>4 DEF IsLoop
  <2>. QED
    BY <2>1, <2>2, Zenon
<1>. DEFINE sum == CHOOSE g : IsRun(g)
<1>6. IsRun(sum)
  <2>. HIDE DEF IsRun
  <2>. QED
    BY <1>5, Zenon
<1>7. Total(values) = sum[n]
  BY Zenon DEF Total
<1>8. \A i \in 0 .. n : sum[i] = IF i = 0 THEN zero ELSE Plus(sum[i - 1], values[i])
  <2>. HIDE DEF sum
  <2>. QED
    BY <1>6, Zenon
<1>. HIDE DEF sum
<1>9. sum[0] = zero /\ \A i \in 1 .. n : sum[i] = Plus(sum[i - 1], values[i])
  <2>1. 0 \in 0 .. n /\ \A i \in 1 .. n : i \in 0 .. n /\ i # 0
    OBVIOUS
  <2>. QED
    BY <1>8, <2>1, Zenon
<1>. QED
  BY <1>7, <1>9 DEF IsSumRun

(* A sum is positive if and only if one of the values is.                  *)
LEMMA TotalPositive ==
  ASSUME NEW values \in Seq(Fractions)
  PROVE  /\ Total(values) \in Fractions
         /\ Positive(Total(values)) <=> \E i \in DOMAIN values : Positive(values[i])
<1>1. PICK n \in Nat : n = Len(values)
  OBVIOUS
<1>2. PICK sum : IsSumRun(sum, values, n)
  BY <1>1, TotalRuns
<1>. DEFINE good == {i \in 0 .. n :
                       /\ sum[i] \in Fractions
                       /\ Positive(sum[i]) <=> \E j \in 1 .. i : Positive(values[j])}
<1>3. 0 \in good
  <2>1. sum[0] = Fraction(0, 1) /\ Fraction(0, 1) \in Fractions
    BY <1>2, FractionIs DEF IsSumRun
  <2>2. ~ Positive(Fraction(0, 1))
    BY DEF Positive, Fraction
  <2>. QED
    BY <2>1, <2>2
<1>4. ASSUME NEW i \in 1 .. n, i - 1 \in good PROVE i \in good
  <2>1. values[i] \in Fractions /\ sum[i - 1] \in Fractions
    BY <1>1, <1>4
  <2>2. sum[i] = Plus(sum[i - 1], values[i])
    BY <1>2 DEF IsSumRun
  <2>3. sum[i] \in Fractions /\ (Positive(sum[i]) <=> Positive(sum[i - 1]) \/ Positive(values[i]))
    BY <2>1, <2>2, PlusIsFraction
  <2>4. \A j \in 1 .. i : j = i \/ j \in 1 .. i - 1
    OBVIOUS
  <2>5. i \in 1 .. i /\ \A j \in 1 .. i - 1 : j \in 1 .. i
    OBVIOUS
  <2>. QED
    BY <1>4, <2>3, <2>4, <2>5
<1>5. n \in good
  <2>1. n \in 0 .. n
    OBVIOUS
  <2>. HIDE DEF good
  <2>. QED
    BY <1>3, <1>4, <2>1, Countup
<1>6. DOMAIN values = 1 .. n
  BY <1>1
<1>. QED
  BY <1>2, <1>5, <1>6 DEF IsSumRun

(* A sum grows with each of its values.                                    *)
LEMMA TotalOrdered ==
  ASSUME NEW values \in Seq(Fractions), NEW larger \in Seq(Fractions),
         Len(values) = Len(larger), \A i \in DOMAIN values : AtMost(values[i], larger[i])
  PROVE  AtMost(Total(values), Total(larger))
<1>1. PICK n \in Nat : n = Len(values) /\ n = Len(larger)
  OBVIOUS
<1>2. PICK sum : IsSumRun(sum, values, n)
  BY <1>1, TotalRuns
<1>3. PICK more : IsSumRun(more, larger, n)
  BY <1>1, TotalRuns
<1>. DEFINE good == {i \in 0 .. n : /\ sum[i] \in Fractions /\ more[i] \in Fractions
                                    /\ AtMost(sum[i], more[i])}
<1>4. 0 \in good
  BY <1>2, <1>3, FractionIs DEF IsSumRun, AtMost, Fraction
<1>5. ASSUME NEW i \in 1 .. n, i - 1 \in good PROVE i \in good
  <2>1. /\ values[i] \in Fractions /\ larger[i] \in Fractions /\ AtMost(values[i], larger[i])
        /\ sum[i - 1] \in Fractions /\ more[i - 1] \in Fractions /\ AtMost(sum[i - 1], more[i - 1])
    BY <1>1, <1>5
  <2>2. sum[i] = Plus(sum[i - 1], values[i]) /\ more[i] = Plus(more[i - 1], larger[i])
    BY <1>2, <1>3 DEF IsSumRun
  <2>3. AtMost(Plus(sum[i - 1], values[i]), Plus(more[i - 1], larger[i]))
    BY <2>1, PlusOrdered
  <2>4. Plus(sum[i - 1], values[i]) \in Fractions /\ Plus(more[i - 1], larger[i]) \in Fractions
    BY <2>1, PlusIsFraction
  <2>. QED
    BY <2>2, <2>3, <2>4
<1>6. n \in good
  <2>1. n \in 0 .. n
    OBVIOUS
  <2>. HIDE DEF good
  <2>. QED
    BY <1>4, <1>5, <2>1, Countup
<1>. QED
  BY <1>2, <1>3, <1>6 DEF IsSumRun

LEMMA AverageOrdered ==
  ASSUME NEW values \in Seq(Fractions), NEW larger \in Seq(Fractions), NEW n \in Nat,
         Len(values) = Len(larger), \A i \in DOMAIN values : AtMost(values[i], larger[i])
  PROVE  AtMost(Average(values, n), Average(larger, n))
<1>1. CASE n = 0
  BY <1>1 DEF Average, AtMost, Fraction
<1>2. CASE n # 0
  <2>. DEFINE x == Total(values)
              y == Total(larger)
  <2>1. x \in Fractions /\ y \in Fractions /\ AtMost(x, y)
    BY TotalPositive, TotalOrdered
  <2>2. Average(values, n) = Fraction(x.num, x.den * n) /\ Average(larger, n) = Fraction(y.num, y.den * n)
    BY <1>2 DEF Average
  <2>. HIDE DEF x, y
  <2>3. /\ x.num \in Nat /\ x.den \in Nat /\ y.num \in Nat /\ y.den \in Nat
        /\ x.num * y.den <= y.num * x.den
    BY <2>1, FractionParts DEF AtMost
  <2>4. (x.num * y.den) * n <= (y.num * x.den) * n
    <3>1. x.num * y.den \in Nat /\ y.num * x.den \in Nat
      BY <2>3
    <3>. QED
      BY <2>3, <3>1, ProductOrdered
  <2>5. x.num * (y.den * n) <= y.num * (x.den * n)
    BY <2>3, <2>4
  <2>. QED
    BY <2>2, <2>5 DEF AtMost, Fraction
<1>. QED
  BY <1>1, <1>2

LEMMA AveragePositive ==
  ASSUME NEW values \in Seq(Fractions), NEW n \in Nat
  PROVE  Positive(Average(values, n)) <=>
           n # 0 /\ \E i \in DOMAIN values : Positive(values[i])
<1>1. CASE n = 0
  BY <1>1 DEF Average, Positive, Fraction
<1>2. CASE n # 0
  <2>1. Positive(Average(values, n)) <=> Positive(Total(values))
    BY <1>2 DEF Average, Positive, Fraction
  <2>. QED
    BY <1>2, <2>1, TotalPositive
<1>. QED
  BY <1>1, <1>2

LEMMA MinOfPositions ==
  ASSUME NEW n \in Nat, NEW T \in SUBSET (1 .. n), T # {}
  PROVE  Min(T) \in 1 .. n
<1>1. PICK least \in T : \A x \in T : least <= x
  <2>1. T \in SUBSET Nat
    OBVIOUS
  <2>. QED
    BY <2>1, LeastExists
<1>2. Min(T) \in T
  BY <1>1, Zenon DEF Min
<1>. QED
  BY <1>2

LEMMA RecallIsFraction ==
  ASSUME NEW s, NEW relevant \in SUBSET Memories
  PROVE  Recall(s, relevant) \in Fractions
<1>1. CASE relevant = {}
  BY <1>1, FractionIs DEF Recall
<1>2. CASE relevant # {}
  <2>1. relevant \cap ToSet(s) \in SUBSET Memories
    OBVIOUS
  <2>2. /\ Cardinality(relevant \cap ToSet(s)) \in Nat
        /\ Cardinality(relevant) \in Nat /\ Cardinality(relevant) # 0
    BY <1>2, <2>1, RelevantFinite
  <2>. QED
    BY <1>2, <2>2, FractionIs DEF Recall
<1>. QED
  BY <1>1, <1>2

MetricKeys == {"precision", "recall", "recall_at_k", "mrr"}

LEMMA MetricsAreFractions ==
  ASSUME NEW s \in Seq(Memories), NEW relevant \in SUBSET Memories, NEW key \in MetricKeys
  PROVE  MetricSet(s, relevant)[key] \in Fractions
<1>. DEFINE hits == {i \in DOMAIN s : s[i] \in relevant}
<1>1. PICK n \in Nat : n = Len(s)
  OBVIOUS
<1>2. hits \in SUBSET (1 .. n) /\ IsFiniteSet(hits) /\ Cardinality(hits) \in Nat
  <2>1. DOMAIN s = 1 .. n
    BY <1>1
  <2>2. IsFiniteSet(1 .. n)
    BY FS_Interval
  <2>. QED
    BY <2>1, <2>2, FS_Subset, FS_CardinalityType
<1>3. Precision(s, relevant) \in Fractions
  <2>1. s # <<>> => n # 0
    BY <1>1
  <2>2. Hits(s, relevant) \in Nat
    BY <1>2 DEF Hits
  <2>. QED
    BY <1>1, <2>1, <2>2, FractionIs DEF Precision
<1>4. ReciprocalRank(s, relevant) \in Fractions
  <2>. HIDE DEF hits
  <2>0. hits # {} => Min(hits) \in 1 .. n
    BY <1>2, MinOfPositions
  <2>1. hits # {} => Min(hits) \in Nat /\ Min(hits) # 0
    BY <2>0
  <2>2. Fraction(0, 1) \in Fractions /\ (hits # {} => Fraction(1, Min(hits)) \in Fractions)
    BY <2>1, FractionIs
  <2>. QED
    BY <2>2 DEF ReciprocalRank, hits
<1>5. Recall(s, relevant) \in Fractions /\ RecallAtK(s, relevant) \in Fractions
  BY RecallIsFraction DEF RecallAtK
<1>. QED
  BY <1>3, <1>4, <1>5 DEF MetricSet, MetricKeys

LEMMA BaselinesAreFractions ==
  ASSUME NEW b \in BaselineSets, NEW name \in BaselineNames, NEW key \in MetricKeys
  PROVE  b[name][key] \in Fractions
<1>1. PICK included \in Contexts, active \in SUBSET Memories, facts \in SUBSET Memories :
        b = Baselines(included, active, active \cap facts)
  <2>1. PICK x \in Contexts \X (SUBSET Memories) \X (SUBSET Memories) : b = BaselinesOf(x)
    BY DEF BaselineSets
  <2>2. x[1] \in Contexts /\ x[2] \in SUBSET Memories /\ x[3] \in SUBSET Memories
    BY <2>1
  <2>. QED
    BY <2>1, <2>2 DEF BaselinesOf
<1>. DEFINE relevant == active \cap facts
<1>2. /\ <<>> \in Seq(Memories) /\ included \in Seq(Memories)
      /\ SetToSeq(active) \in Seq(Memories) /\ relevant \in SUBSET Memories
  BY ContextsAreLists, HistoryIsAll
<1>. HIDE DEF relevant
<1>3. b[name] \in {MetricSet(<<>>, relevant), MetricSet(included, relevant),
                   MetricSet(SetToSeq(active), relevant)}
  BY <1>1 DEF Baselines, BaselineNames, relevant
<1>. QED
  BY <1>2, <1>3, MetricsAreFractions

(* What an outcome adds to a mean, and over how many the mean is taken.    *)
Contribution(name, key) ==
  [i \in DOMAIN outcomes |->
     IF outcomes[i].baselines # None THEN outcomes[i].baselines[name][key] ELSE Fraction(0, 1)]

Measurements == Cardinality({i \in DOMAIN outcomes : outcomes[i].baselines # None})

LEMMA OutcomeBaselines ==
  ASSUME outcomes \in Seq(Outcomes), NEW i \in DOMAIN outcomes
  PROVE  outcomes[i].baselines \in BaselineSets \cup {None}
<1>1. outcomes[i] \in Outcomes
  OBVIOUS
<1>. QED
  BY <1>1 DEF Outcomes

LEMMA ContributionsAreFractions ==
  ASSUME outcomes \in Seq(Outcomes), NEW name \in BaselineNames, NEW key \in MetricKeys
  PROVE  /\ Contribution(name, key) \in Seq(Fractions)
         /\ Len(Contribution(name, key)) = Len(outcomes)
         /\ DOMAIN Contribution(name, key) = DOMAIN outcomes
         /\ Measurements \in Nat
         /\ MeanOf(name, key) = Average(Contribution(name, key), Measurements)
<1>1. PICK n \in Nat : n = Len(outcomes) /\ DOMAIN outcomes = 1 .. n
  OBVIOUS
<1>2. ASSUME NEW i \in 1 .. n
      PROVE  (IF outcomes[i].baselines # None THEN outcomes[i].baselines[name][key]
              ELSE Fraction(0, 1)) \in Fractions
  <2>1. outcomes[i].baselines \in BaselineSets \cup {None}
    BY <1>1, OutcomeBaselines
  <2>2. outcomes[i].baselines # None => outcomes[i].baselines[name][key] \in Fractions
    BY <2>1, BaselinesAreFractions
  <2>3. Fraction(0, 1) \in Fractions
    BY FractionIs
  <2>. QED
    BY <2>2, <2>3
<1>3. Contribution(name, key) \in [1 .. n -> Fractions]
  BY <1>1, <1>2 DEF Contribution
<1>4. Measurements \in Nat
  <2>. DEFINE measured == {i \in DOMAIN outcomes : outcomes[i].baselines # None}
  <2>1. IsFiniteSet(1 .. n) /\ measured \in SUBSET (1 .. n)
    BY <1>1, FS_Interval
  <2>2. Cardinality(measured) \in Nat
    <3>. HIDE DEF measured
    <3>. QED
      BY <2>1, FS_Subset, FS_CardinalityType
  <2>. QED
    BY <2>2 DEF Measurements
<1>5. MeanOf(name, key) = Average(Contribution(name, key), Measurements)
  BY DEF MeanOf, Contribution, Measurements
<1>. QED
  BY <1>1, <1>3, <1>4, <1>5

LEMMA MeansOrdered ==
  ASSUME outcomes \in Seq(Outcomes), NEW name \in BaselineNames, NEW other \in BaselineNames,
         NEW key \in MetricKeys, NEW wider \in MetricKeys,
         \A i \in DOMAIN outcomes : outcomes[i].baselines # None =>
           AtMost(outcomes[i].baselines[name][key], outcomes[i].baselines[other][wider])
  PROVE  AtMost(MeanOf(name, key), MeanOf(other, wider))
<1>. DEFINE few == Contribution(name, key)
            more == Contribution(other, wider)
<1>1. /\ few \in Seq(Fractions) /\ more \in Seq(Fractions) /\ Len(few) = Len(more)
      /\ DOMAIN few = DOMAIN outcomes /\ Measurements \in Nat
      /\ MeanOf(name, key) = Average(few, Measurements)
      /\ MeanOf(other, wider) = Average(more, Measurements)
  BY ContributionsAreFractions
<1>2. \A i \in DOMAIN outcomes : AtMost(few[i], more[i])
  <2>1. AtMost(Fraction(0, 1), Fraction(0, 1))
    BY DEF AtMost, Fraction
  <2>. QED
    BY <2>1 DEF Contribution
<1>. HIDE DEF few, more
<1>. QED
  BY <1>1, <1>2, AverageOrdered

LEMMA MeanPositive ==
  ASSUME outcomes \in Seq(Outcomes), NEW name \in BaselineNames, NEW key \in MetricKeys
  PROVE  Positive(MeanOf(name, key)) <=>
           /\ Measurements # 0
           /\ \E i \in DOMAIN outcomes :
                outcomes[i].baselines # None /\ Positive(outcomes[i].baselines[name][key])
<1>. DEFINE few == Contribution(name, key)
<1>1. /\ few \in Seq(Fractions) /\ DOMAIN few = DOMAIN outcomes /\ Measurements \in Nat
      /\ MeanOf(name, key) = Average(few, Measurements)
  BY ContributionsAreFractions
<1>2. \A i \in DOMAIN outcomes : Positive(few[i]) <=>
        outcomes[i].baselines # None /\ Positive(outcomes[i].baselines[name][key])
  <2>1. ~ Positive(Fraction(0, 1))
    BY DEF Positive, Fraction
  <2>. QED
    BY <2>1 DEF Contribution
<1>. HIDE DEF few
<1>. QED
  BY <1>1, <1>2, AveragePositive

(* The table of the report agrees as its outcomes do.                      *)
LEMMA RetrievalAgrees ==
  ASSUME outcomes \in Seq(Outcomes)
  PROVE  Agree(Retrieval)
<1>1. ASSUME NEW i \in DOMAIN outcomes, outcomes[i].baselines # None
      PROVE  /\ Agree(outcomes[i].baselines)
             /\ DOMAIN outcomes[i].baselines = BaselineNames
  <2>1. outcomes[i].baselines \in BaselineSets
    BY <1>1, OutcomeBaselines
  <2>2. ASSUME NEW b \in BaselineSets PROVE DOMAIN b = BaselineNames
    <3>1. PICK x : b = BaselinesOf(x)
      BY DEF BaselineSets
    <3>. QED
      BY <3>1 DEF BaselinesOf, Baselines, BaselineNames
  <2>. QED
    BY <2>1, <2>2, BaselinesAgree
<1>2. ASSUME NEW name \in BaselineNames
      PROVE  /\ Positive(MeanOf(name, "precision")) <=> Positive(MeanOf(name, "mrr"))
             /\ Positive(MeanOf(name, "precision")) => Positive(MeanOf(name, "recall"))
             /\ AtMost(MeanOf(name, "recall_at_k"), MeanOf(name, "recall"))
  <2>1. \A i \in DOMAIN outcomes : outcomes[i].baselines # None =>
          /\ Positive(outcomes[i].baselines[name]["precision"])
                <=> Positive(outcomes[i].baselines[name]["mrr"])
          /\ Positive(outcomes[i].baselines[name]["precision"])
                => Positive(outcomes[i].baselines[name]["recall"])
          /\ AtMost(outcomes[i].baselines[name]["recall_at_k"], outcomes[i].baselines[name]["recall"])
    BY <1>1 DEF Agree
  <2>2. {"precision", "mrr", "recall", "recall_at_k"} \subseteq MetricKeys
    BY DEF MetricKeys
  <2>3. AtMost(MeanOf(name, "recall_at_k"), MeanOf(name, "recall"))
    BY <2>1, <2>2, MeansOrdered
  <2>4. \A key \in MetricKeys : Positive(MeanOf(name, key)) <=>
          /\ Measurements # 0
          /\ \E i \in DOMAIN outcomes :
               outcomes[i].baselines # None /\ Positive(outcomes[i].baselines[name][key])
    BY MeanPositive
  <2>. QED
    BY <2>1, <2>2, <2>3, <2>4
<1>3. /\ AtMost(MeanOf("no_memory", "recall"), MeanOf("aira", "recall"))
      /\ AtMost(MeanOf("aira", "recall"), MeanOf("full_history", "recall"))
  <2>1. \A i \in DOMAIN outcomes : outcomes[i].baselines # None =>
          /\ AtMost(outcomes[i].baselines["no_memory"]["recall"],
                    outcomes[i].baselines["aira"]["recall"])
          /\ AtMost(outcomes[i].baselines["aira"]["recall"],
                    outcomes[i].baselines["full_history"]["recall"])
    BY <1>1 DEF Agree
  <2>2. "recall" \in MetricKeys /\ {"no_memory", "aira", "full_history"} \subseteq BaselineNames
    BY DEF MetricKeys, BaselineNames
  <2>. QED
    BY <2>1, <2>2, MeansOrdered
<1>4. /\ DOMAIN Retrieval = BaselineNames
      /\ \A name \in BaselineNames :
           /\ Retrieval[name].precision = MeanOf(name, "precision")
           /\ Retrieval[name].recall = MeanOf(name, "recall")
           /\ Retrieval[name].recall_at_k = MeanOf(name, "recall_at_k")
           /\ Retrieval[name].mrr = MeanOf(name, "mrr")
  BY DEF Retrieval
<1>5. {"no_memory", "aira", "full_history"} \subseteq BaselineNames
  BY DEF BaselineNames
<1>. QED
  BY <1>2, <1>3, <1>4, <1>5 DEF Agree

ReportInv == (stage = "reported" /\ outcomes # <<>>) => report.retrieval = Retrieval

LEMMA ReportInvariance == OfflineSpec => []ReportInv
<1>1. OfflineInit => ReportInv
  BY DEF OfflineInit, EvalInit, ReportInv
<1>2. GateInv /\ ReportInv /\ [OfflineNext]_offlineVars => ReportInv'
  <2>. SUFFICES ASSUME GateInv, ReportInv, [OfflineNext]_offlineVars PROVE ReportInv'
    OBVIOUS
  <2>1. CASE RunScenario
    <3>1. stage' = "bench"
      BY <2>1 DEF RunScenario, RunRecallLike, RunForget, RunExpiry, RunDeleteExport, RunSecret,
         RunBudget, RunDegraded, RunIgnore, RunDuplicate, RunInjection, RunImport, RunLeaky, Judged
    <3>. QED
      BY <3>1 DEF ReportInv
  <2>2. CASE ReportBench
    <3>1. outcomes' = outcomes /\ report'.retrieval = Retrieval
      BY <2>2 DEF ReportBench
    <3>2. Retrieval' = Retrieval
      BY <3>1 DEF Retrieval, MeanOf
    <3>. QED
      BY <3>1, <3>2 DEF ReportInv
  <2>3. CASE UNCHANGED <<stage, outcomes, report>>
    <3>1. Retrieval' = Retrieval
      BY <2>3 DEF Retrieval, MeanOf
    <3>. QED
      BY <2>3, <3>1 DEF ReportInv
  <2>4. CASE LoadFails \/ Conclude
    BY <2>4 DEF LoadFails, Conclude, GateInv, ReportInv
  <2>. QED
    BY <2>1, <2>2, <2>3, <2>4
  DEF OfflineNext, offlineVars, evalVars, Setup, Judge, AiraContext, FirstTask, LaterTask, RunTask
<1>. QED
  BY <1>1, <1>2, GateInvariance, PTL DEF OfflineSpec

(* The means that "aira bench" prints agree like the metrics of a single   *)
(* scenario (MeansAgree), over any number of scenarios and memories.       *)
THEOREM MeansOfReportsAgree == OfflineSpec => []MeansAgree
<1>1. GateInv /\ ReportInv => MeansAgree
  BY RetrievalAgrees DEF GateInv, ReportInv, MeansAgree
<1>. QED
  BY <1>1, GateInvariance, ReportInvariance, PTL

-----------------------------------------------------------------------------
(* The preview of the last turn is made of what was found in it.           *)
ScanInv ==
  \/ scan = NoSecrets
  \/ \E found \in SortedFindings : scan = [found |-> found, preview |-> Redact(found)]

LEMMA FindingsAreLists ==
  ASSUME NEW found \in SortedFindings
  PROVE  found \in Seq(Spans) /\ InOrder(found)
  BY LengthAssumption DEF SortedFindings

LEMMA ScanInvariance == OfflineSpec => []ScanInv
<1>1. OfflineInit => ScanInv
  BY DEF OfflineInit, CaptureInit, ScanInv
<1>2. ScanInv /\ [OfflineNext]_offlineVars => ScanInv'
  <2>. SUFFICES ASSUME ScanInv, [OfflineNext]_offlineVars PROVE ScanInv'
    OBVIOUS
  <2>1. ASSUME NEW text \in Texts, CaptureTurn(text) PROVE ScanInv'
    BY <2>1 DEF CaptureTurn, ScanInv
  <2>2. ASSUME NEW found \in SortedFindings, CaptureSecret(found) PROVE ScanInv'
    BY <2>2 DEF CaptureSecret, ScanInv
  <2>3. CASE UNCHANGED captureVars
    BY <2>3 DEF ScanInv, captureVars
  <2>. QED
    BY <2>1, <2>2, <2>3 DEF OfflineNext, offlineVars, Setup, Judge
<1>. QED
  BY <1>1, <1>2, PTL DEF OfflineSpec

(* However the secrets of a text overlap, the preview shows all that is    *)
(* outside them and nothing of them (RedactionCovers): for a text of any   *)
(* length, any number of findings and any detectors.                       *)
THEOREM RedactionAlwaysCovers == OfflineSpec => []RedactionCovers
<1>1. ScanInv => RedactionCovers
  <2>. SUFFICES ASSUME NEW found \in SortedFindings,
                       scan = [found |-> found, preview |-> Redact(found)]
                PROVE  Redacted(scan.found, scan.preview)
    BY DEF ScanInv, NoSecrets, RedactionCovers
  <2>1. Redacted(found, Redact(found))
    BY FindingsAreLists, RedactIsRedacted
  <2>. QED
    BY <2>1
<1>. QED
  BY <1>1, ScanInvariance, PTL
=============================================================================
