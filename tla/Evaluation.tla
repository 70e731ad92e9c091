----------------------------- MODULE Evaluation -----------------------------
(***************************************************************************)
(* Aira Bench (evaluation/runner.py, report.py, metrics.py) and the        *)
(* memory-conditioned evaluation (evaluation/memory_eval.py): the programs *)
(* that judge the assistant.  What they judge is open here: the engine     *)
(* under test may store, recall, leak or lose anything, so that a property *)
(* says what a report means even when the assistant is broken.             *)
(*                                                                         *)
(* A memory stands for its content; a scenario declares which contents     *)
(* hold its expected and its forbidden needles.  Floats are fractions.     *)
(***************************************************************************)
EXTENDS Naturals, Integers, Sequences, SequencesExt, FiniteSetsExt

CONSTANTS
  Memories,      \* what an engine under test may hold
  TopK,          \* [memory].top_k
  MaxScenarios,  \* bound: scenarios in one "aira bench"
  MaxTasks,      \* bound: tasks in one "aira memeval"
  None           \* Python None

ASSUME MemoriesAssumption == IsFiniteSet(Memories) /\ TopK \in Nat

VARIABLES
  stage,         \* "bench" or "tasks" while it runs, then "reported" or "raised"
  outcomes,      \* the ScenarioOutcomes so far
  harmed,        \* history: the kinds of the scenarios that went wrong
  acc,           \* the _Accumulators, per baseline
  shown,         \* history: tasks whose fact was in Aira's context, and of
                 \* these the ones whose fact was missing in the answer
  report         \* what was printed, with the exit code

evalVars == <<stage, outcomes, harmed, acc, shown, report>>

-----------------------------------------------------------------------------
(* metrics.py *)
Fraction(n, d) == [num |-> n, den |-> d]
AtMost(x, y) == x.num * y.den <= y.num * x.den
Positive(x) == x.num > 0

Hits(retrieved, relevant) == Cardinality({i \in DOMAIN retrieved : retrieved[i] \in relevant})

(* Mutant of Precision: an empty answer counts as precise. *)
PrecisionOrOne(retrieved, relevant) ==
  IF retrieved = <<>> THEN Fraction(1, 1)
  ELSE Fraction(Hits(retrieved, relevant), Len(retrieved))

Precision(retrieved, relevant) ==
  IF retrieved = <<>> THEN Fraction(0, 1)
  ELSE Fraction(Hits(retrieved, relevant), Len(retrieved))

Recall(retrieved, relevant) ==
  IF relevant = {} THEN Fraction(1, 1)
  ELSE Fraction(Cardinality(relevant \cap ToSet(retrieved)), Cardinality(relevant))

RecallAtK(retrieved, relevant) ==
  Recall(SubSeq(retrieved, 1, Min({TopK, Len(retrieved)})), relevant)

ReciprocalRank(retrieved, relevant) ==
  LET hits == {i \in DOMAIN retrieved : retrieved[i] \in relevant}
  IN  IF hits = {} THEN Fraction(0, 1) ELSE Fraction(1, Min(hits))

(* rate and mean: 0.0 over nothing *)
Rate(n, d) == IF d = 0 THEN Fraction(0, 1) ELSE Fraction(n, d)

-----------------------------------------------------------------------------
(* Scenarios and what an engine may show of itself when one has run. *)
Kinds ==
  {"recall", "correction", "forget", "cross_owner", "secret", "budget", "degraded",
   "ignore", "expiry", "injection", "duplicate", "import", "delete_export"}

Scenario(kind, relevant, forbidden) ==
  [kind |-> kind, relevant |-> relevant, forbidden |-> forbidden]

Contexts == {s \in SeqOf(Memories, Cardinality(Memories)) : IsInjective(s)}

BaselineNames == {"no_memory", "aira", "full_history"}

(* _metric_set under the three baselines *)
MetricSet(retrieved, relevant) ==
  [precision   |-> Precision(retrieved, relevant),
   recall      |-> Recall(retrieved, relevant),
   recall_at_k |-> RecallAtK(retrieved, relevant),
   mrr         |-> ReciprocalRank(retrieved, relevant)]

Baselines(included, active, relevant) ==
  [no_memory    |-> MetricSet(<<>>, relevant),
   aira         |-> MetricSet(included, relevant),
   full_history |-> MetricSet(SetToSeq(active), relevant)]

Outcome(kind, passed) ==
  [kind |-> kind, passed |-> passed, leaked |-> None, secret |-> None, budget |-> None,
   baselines |-> None]

LeakOutcome(kind, leaked) == [Outcome(kind, ~ leaked) EXCEPT !.leaked = leaked]

Leaks(s, included) == ToSet(included) \cap s.forbidden # {}

(* Mutant of RecallLike: a stored fact passes, recalled or not. *)
RecallLikeIfStored(s, active, included) ==
  LET relevant == active \cap s.relevant
      leaked == IF s.forbidden = {} THEN None ELSE Leaks(s, included)
  IN  [Outcome(s.kind, (s.relevant # {} => relevant # {}) /\ leaked # TRUE)
         EXCEPT !.leaked = leaked,
                !.baselines = Baselines(included, active, relevant)]

(* _recall_like: the relevant ids are sought among the active memories *)
RecallLike(s, active, included) ==
  LET relevant == active \cap s.relevant
      leaked == IF s.forbidden = {} THEN None ELSE Leaks(s, included)
      stored == s.relevant # {} => relevant # {}
      recalled == AtMost(Fraction(1, 1), Recall(included, relevant))
  IN  [Outcome(s.kind, stored /\ recalled /\ leaked # TRUE)
         EXCEPT !.leaked = leaked,
                !.baselines = Baselines(included, active, relevant)]

Judged(outcome, harm) ==
  /\ stage = "bench" /\ Len(outcomes) < MaxScenarios
  /\ outcomes' = Append(outcomes, outcome)
  /\ harmed' = IF harm THEN harmed \cup {outcome.kind} ELSE harmed
  /\ UNCHANGED <<stage, acc, shown, report>>

(* The scenario's own promise (its description), apart from the handler:   *)
(* a memory with the expected fact in the context, and none forbidden.     *)
BrokenRecall(s, included) ==
  \/ s.relevant # {} /\ ToSet(included) \cap s.relevant = {}
  \/ ToSet(included) \cap s.forbidden # {}

RunRecallLike ==
  \E kind \in {"recall", "correction"}, relevant \in SUBSET Memories,
     forbidden \in SUBSET Memories, active \in SUBSET Memories, included \in Contexts :
    LET s == Scenario(kind, relevant, forbidden)
    IN  /\ relevant \cap forbidden = {}
        /\ Judged(RecallLike(s, active, included), BrokenRecall(s, included))

RunLeaky(kind) ==
  \E forbidden \in SUBSET Memories, included \in Contexts :
    LET leaked == Leaks(Scenario(kind, {}, forbidden), included)
    IN  Judged(LeakOutcome(kind, leaked), leaked)

(* _h_forget, _h_cross_owner *)
RunForget == RunLeaky("forget") \/ RunLeaky("cross_owner")

(* _h_expiry lets everything expire and runs Fade before it looks.         *)
RunExpiry == RunLeaky("expiry")

(* _h_delete_export: the export must be empty, not only free of needles *)
RunDeleteExport ==
  \E left \in SUBSET Memories : Judged(LeakOutcome("delete_export", left # {}), left # {})

(* _h_secret reads memories of every status. *)
RunSecret ==
  \E persisted \in BOOLEAN :
    Judged([Outcome("secret", ~ persisted) EXCEPT !.secret = persisted], persisted)

RunBudget ==
  \E tokens, budget \in 0 .. 2 :
    LET violated == tokens > budget
    IN  Judged([Outcome("budget", ~ violated) EXCEPT !.budget = violated], violated)

RunDegraded ==
  \E degraded, answered \in BOOLEAN :
    Judged(Outcome("degraded", degraded /\ answered), ~ answered)

RunIgnore ==
  \E active \in SUBSET Memories : Judged(Outcome("ignore", active = {}), active # {})

RunDuplicate ==
  \E active \in SUBSET Memories :
    Judged(Outcome("duplicate", Cardinality(active) = 1), Cardinality(active) > 1)

RunInjection ==
  \E delimited, present \in BOOLEAN :
    Judged(Outcome("injection", delimited /\ present), present /\ ~ delimited)

RunImport ==
  \E rejected \in BOOLEAN, active \in SUBSET Memories :
    Judged(Outcome("import", rejected /\ active = {}), active # {})

-----------------------------------------------------------------------------
(* report.py *)
ByKind(kind) == {i \in DOMAIN outcomes : outcomes[i].kind = kind}

(* _fraction_true of a measurement skips None. *)
FractionTrue(kind, measured) ==
  LET present == {i \in ByKind(kind) : outcomes[i][measured] # None}
  IN  Rate(Cardinality({i \in present : outcomes[i][measured] = TRUE}), Cardinality(present))

ZeroTolerance ==
  [cross_owner |-> FractionTrue("cross_owner", "leaked"),
   forgotten   |-> FractionTrue("forget", "leaked"),
   secret      |-> FractionTrue("secret", "secret"),
   budget      |-> FractionTrue("budget", "budget")]

Rates ==
  [correction |-> FractionTrue("correction", "passed"),
   stale      |-> FractionTrue("correction", "leaked"),
   degraded   |-> FractionTrue("degraded", "passed")]

Plus(x, y) == Fraction(x.num * y.den + y.num * x.den, x.den * y.den)

(* sum() *)
Total(values) ==
  LET sum[i \in 0 .. Len(values)] ==
        IF i = 0 THEN Fraction(0, 1) ELSE Plus(sum[i - 1], values[i])
  IN  sum[Len(values)]

Average(values, n) ==
  LET sum == Total(values)
  IN  IF n = 0 THEN Fraction(0, 1) ELSE Fraction(sum.num, sum.den * n)

(* Mutant of MeanOf: zeros are left out, as they are for the latencies. *)
MeanOfPositive(name, key) ==
  LET measured == {i \in DOMAIN outcomes : outcomes[i].baselines # None}
  IN  Average([i \in DOMAIN outcomes |->
                 IF i \in measured THEN outcomes[i].baselines[name][key] ELSE Fraction(0, 1)],
              Cardinality({i \in measured : Positive(outcomes[i].baselines[name][key])}))

(* The mean over the outcomes with baselines; the others add nothing.      *)
MeanOf(name, key) ==
  LET measured == {i \in DOMAIN outcomes : outcomes[i].baselines # None}
  IN  Average([i \in DOMAIN outcomes |->
                 IF i \in measured THEN outcomes[i].baselines[name][key] ELSE Fraction(0, 1)],
              Cardinality(measured))

(* The table of the report, whose numbers are not rounded here.           *)
Retrieval ==
  [name \in BaselineNames |->
     [key \in {"precision", "recall", "recall_at_k", "mrr"} |-> MeanOf(name, key)]]

AllPassed == \A i \in DOMAIN outcomes : outcomes[i].passed

(* Whether regressions() is not empty *)
Regressions ==
  \/ \E name \in DOMAIN ZeroTolerance : Positive(ZeroTolerance[name])
  \/ ~ AllPassed

ReportBench ==
  /\ stage = "bench" /\ outcomes # <<>>
  /\ stage' = "reported"
  /\ report' = [all_passed |-> AllPassed, rates |-> Rates, retrieval |-> Retrieval,
                exit |-> IF Regressions THEN 1 ELSE 0]
  /\ UNCHANGED <<outcomes, harmed, acc, shown>>

-----------------------------------------------------------------------------
(* memory_eval.py *)
TaskKinds == {"factual", "correction", "forgetting"}

NoTally == [n |-> 0, hits |-> 0]

NewAccumulator ==
  [context |-> NoTally, adherence |-> NoTally, correction |-> NoTally,
   nondisclosure |-> NoTally, lexical |-> NoTally]

Counted(tally, hit) == [n |-> tally.n + 1, hits |-> tally.hits + IF hit THEN 1 ELSE 0]

Mean(tally) == Rate(tally.hits, tally.n)

(* What one baseline shows on a task: the expected fact in its context and *)
(* in its output, the forbidden one in its output, and (lexical) whether   *)
(* the ranking ablation has the expected fact in its context.              *)
Shows(name) ==
  [ctx: IF name = "no_memory" THEN {FALSE} ELSE BOOLEAN, out: BOOLEAN,
   leak: IF name = "aira" THEN BOOLEAN ELSE {FALSE},
   lexical: IF name = "aira" THEN BOOLEAN ELSE {FALSE}]

(* _availability counts the tasks with an expected fact only; record too.  *)
Checked(tally, expected, hit) == IF expected THEN Counted(tally, hit) ELSE tally

(* _Accumulator.record, and the ablation with lexical weights only         *)
Recorded(a, kind, expected, show) ==
  [context |-> Checked(a.context, expected, show.ctx),
   adherence |-> Checked(a.adherence, expected, show.out),
   correction |-> IF kind = "correction"
                    THEN Counted(a.correction, expected /\ show.out /\ ~ show.leak)
                    ELSE a.correction,
   nondisclosure |-> IF kind = "forgetting" THEN Counted(a.nondisclosure, ~ show.leak)
                     ELSE a.nondisclosure,
   lexical |-> Checked(a.lexical, expected, show.lexical)]

(* resume raises on a checkpoint that cannot be read. *)
LoadFails ==
  /\ stage = "tasks" /\ shown.tasks = 0
  /\ stage' = "raised"
  /\ UNCHANGED <<outcomes, harmed, acc, shown, report>>

(* One task under the three baselines; ctxs is what may be said of the     *)
(* expected fact in Aira's context.                                        *)
RunTask(ctxs) ==
  /\ stage = "tasks" /\ shown.tasks < MaxTasks
  /\ \E kind \in TaskKinds, expected \in BOOLEAN :
     \E none \in Shows("no_memory"), aira \in Shows("aira"), full \in Shows("full_history") :
       LET show == [no_memory |-> none, aira |-> aira, full_history |-> full]
       IN  /\ aira.ctx \in ctxs
           /\ acc' = [name \in BaselineNames |->
                        Recorded(acc[name], kind, expected, show[name])]
           /\ shown' = [tasks |-> shown.tasks + 1,
                        inContext |-> shown.inContext \/ (expected /\ aira.ctx),
                        unused |-> shown.unused \/ (expected /\ aira.ctx /\ ~ aira.out)]
  /\ UNCHANGED <<stage, outcomes, harmed, report>>

(* Mutant of ContextHelps: compared with the full history. *)
ContextHelpsAsMuch ==
  AtMost(Mean(acc["full_history"].context), Mean(acc["aira"].context))

(* _conclude *)
ContextHelps == ~ AtMost(Mean(acc["aira"].context), Mean(acc["no_memory"].context))

GapExceedsTenth ==
  LET ctx == Mean(acc["aira"].context) gen == Mean(acc["aira"].adherence)
  IN  10 * (ctx.num * gen.den - gen.num * ctx.den) > ctx.den * gen.den

Conclude ==
  /\ stage = "tasks"
  /\ stage' = "reported"
  /\ report' = [helps |-> ContextHelps, unused |-> GapExceedsTenth, exit |-> 0]
  /\ UNCHANGED <<outcomes, harmed, acc, shown>>

-----------------------------------------------------------------------------
EvalInit ==
  /\ stage \in {"bench", "tasks"}
  /\ outcomes = <<>> /\ harmed = {}
  /\ acc = [name \in BaselineNames |-> NewAccumulator]
  /\ shown = [tasks |-> 0, inContext |-> FALSE, unused |-> FALSE]
  /\ report = None

RunScenario ==
  \/ RunRecallLike \/ RunForget \/ RunExpiry \/ RunDeleteExport \/ RunSecret \/ RunBudget
  \/ RunDegraded \/ RunIgnore \/ RunDuplicate \/ RunInjection \/ RunImport

-----------------------------------------------------------------------------
(* The gate: "aira bench" exits 0 only if every scenario passed, and then  *)
(* none of them saw the engine break its promise, whatever the engine did; *)
(* the zero-tolerance rates, which leave out kinds and outcomes without a  *)
(* measurement, never pass what a scenario failed, and the stale answers   *)
(* they do not watch are caught all the same.                              *)
GateCatches ==
  (stage = "reported" /\ outcomes # <<>>) =>
    /\ (report.exit = 0) <=> report.all_passed
    /\ report.exit = 0 => harmed = {} /\ ~ Positive(report.rates.stale)

(* The four metrics agree: something relevant is retrieved by all of them  *)
(* or by none; the cut at k only loses recall; and an engine is never      *)
(* better than the full history, nor worse than no memory.                 *)
Agree(b) ==
  /\ \A name \in DOMAIN b :
       /\ Positive(b[name].precision) <=> Positive(b[name].mrr)
       /\ Positive(b[name].precision) => Positive(b[name].recall)
       /\ AtMost(b[name].recall_at_k, b[name].recall)
  /\ AtMost(b.no_memory.recall, b.aira.recall)
  /\ AtMost(b.aira.recall, b.full_history.recall)

(* So it is for every outcome of a scenario with expected facts, whatever  *)
(* the engine under test retrieves (metrics.py, BenchRunner._recall_like). *)
OutcomesAgree ==
  \A i \in DOMAIN outcomes :
    outcomes[i].baselines # None => Agree(outcomes[i].baselines)

(* And so it is for the means that the report prints.                      *)
MeansAgree == (stage = "reported" /\ outcomes # <<>>) => Agree(report.retrieval)

(* The printed conclusion: retrieval is said to help exactly if the fact   *)
(* of some task reached Aira's context, and the model is said not to use   *)
(* what it was given only if it was given a fact and did not repeat it.    *)
ConclusionHonest ==
  (stage = "reported" /\ outcomes = <<>>) =>
    /\ report.helps <=> shown.inContext
    /\ report.unused => report.helps /\ shown.unused
=============================================================================
