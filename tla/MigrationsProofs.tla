-------------------------- MODULE MigrationsProofs --------------------------
(***************************************************************************)
(* Theorems about Migrations for any set of processes and any number of    *)
(* kills.                                                                  *)
(***************************************************************************)
EXTENDS Migrations, TLAPS

(* What VersionIsEarned needs to be inductive: how far each process has    *)
(* got.  A process in the script has created every object before its next  *)
(* statement itself, since a statement whose object is there fails; one    *)
(* that is about to record a version has either finished the script or     *)
(* read the version that another recorded.                                 *)
ScriptRun(p) ==
  /\ next[p] <= Len(Script) /\ current[p] < SchemaVersion
  /\ \A i \in 1 .. next[p] - 1 : Script[i] \in objects

Progress ==
  \A p \in Processes :
    /\ pc[p] = "script" => ScriptRun(p)
    /\ pc[p] = "record_version" =>
         current[p] = SchemaVersion /\ Schema \subseteq objects

MigrationInv == TypeOK /\ Progress /\ VersionIsEarned

(* What a step of one process leaves to the others, and to itself.         *)
OnlyAt(p) ==
  \A q \in Processes \ {p} :
    pc'[q] = pc[q] /\ current'[q] = current[q] /\ next'[q] = next[q]

LEMMA ScriptFacts ==
  /\ Len(Script) = 6 /\ DOMAIN Script = 1 .. 6
  /\ Schema = {Script[i] : i \in 1 .. 6}
  /\ \A i \in 1 .. 6 : Script[i] \in Schema
BY DEF Script, Schema

LEMMA TypeStep == TypeOK /\ Progress /\ [Next]_vars => TypeOK'
<1>. SUFFICES ASSUME TypeOK, Progress, [Next]_vars PROVE TypeOK'
  OBVIOUS
<1>1. CASE UNCHANGED vars
  BY <1>1 DEF vars, TypeOK
<1>2. ASSUME NEW p \in Processes, Step(p) \/ Crash(p) PROVE TypeOK'
  <2>1. CASE CreateVersionTable(p)
    BY <2>1 DEF CreateVersionTable, Goto, TypeOK, Labels
  <2>2. CASE ReadVersion(p)
    BY <2>2, ScriptFacts DEF ReadVersion, Goto, TypeOK, Labels, SchemaVersion
  <2>3. CASE RunStatement(p)
    <3>1. next[p] \in 1 .. 6 /\ Script[next[p]] \in Schema
      BY <2>3, ScriptFacts DEF RunStatement, Progress, ScriptRun, TypeOK
    <3>2. /\ objects' \subseteq Schema \cup {"schema_version", "memories_fts"}
          /\ pc' \in [Processes -> Labels]
          /\ current' \in [Processes -> 0 .. SchemaVersion]
      BY <2>3, <3>1, SMTT(30) DEF RunStatement, Goto, TypeOK, Labels, SchemaVersion
    <3>3. next' \in [Processes -> 1 .. Len(Script) + 1]
      BY <2>3, <3>1, ScriptFacts DEF RunStatement, TypeOK
    <3>. QED
      BY <2>3, <3>2, <3>3 DEF RunStatement, TypeOK
  <2>4. CASE RecordVersion(p)
    BY <2>4 DEF RecordVersion, Goto, TypeOK, Labels
  <2>5. CASE CheckIndex(p)
    BY <2>5 DEF CheckIndex, Goto, TypeOK, Labels
  <2>6. CASE CreateIndex(p)
    BY <2>6 DEF CreateIndex, Goto, TypeOK, Labels
  <2>7. CASE Exit(p)
    BY <2>7 DEF Exit, Goto, TypeOK, Labels
  <2>8. CASE Crash(p)
    BY <2>8, CrashAssumption DEF Crash, Goto, TypeOK, Labels
  <2>. QED
    BY <1>2, <2>1, <2>2, <2>3, <2>4, <2>5, <2>6, <2>7, <2>8 DEF Step
<1>. QED
  BY <1>1, <1>2 DEF Next

(* Objects are only added, and a step moves one process. *)
LEMMA StepFrame ==
  ASSUME TypeOK, NEW p \in Processes, Step(p) \/ Crash(p)
  PROVE  objects \subseteq objects' /\ OnlyAt(p)
BY DEF Step, CreateVersionTable, ReadVersion, RunStatement, RecordVersion,
       CheckIndex, CreateIndex, Exit, Crash, Goto, OnlyAt, TypeOK

(* What a step makes of its own process and of the recorded version.       *)
ProgressAt(p) ==
  /\ pc[p] = "script" => ScriptRun(p)
  /\ pc[p] = "record_version" =>
       current[p] = SchemaVersion /\ Schema \subseteq objects
  /\ pc[p] \in {"check_index", "create_index", "open"} => Schema \subseteq objects

LEMMA OwnProgress ==
  ASSUME MigrationInv, NEW p \in Processes, Step(p) \/ Crash(p)
  PROVE  /\ ProgressAt(p)'
         /\ version' = version \/ (version' = SchemaVersion /\ Schema \subseteq objects')
<1>. USE DEF MigrationInv, TypeOK
<1>1. CASE CreateVersionTable(p)
  BY <1>1 DEF CreateVersionTable, Goto, ProgressAt
<1>2. CASE ReadVersion(p)
  <2>1. pc'[p] = "script" => ScriptRun(p)'
    BY <1>2, ScriptFacts DEF ReadVersion, Goto, ScriptRun, SchemaVersion
  <2>2. pc'[p] = "record_version" => version = SchemaVersion
    BY <1>2 DEF ReadVersion, Goto, SchemaVersion
  <2>. QED
    BY <1>2, <2>1, <2>2 DEF ReadVersion, Goto, ProgressAt, VersionIsEarned
<1>3. CASE RunStatement(p)
  <2>1. ScriptRun(p) /\ next[p] \in 1 .. 6
    BY <1>3, ScriptFacts DEF RunStatement, Progress, ScriptRun
  <2>2. CASE Script[next[p]] \in objects
    BY <1>3, <2>2 DEF RunStatement, Goto, ProgressAt
  <2>3. CASE Script[next[p]] \notin objects
    <3>1. /\ objects' = objects \cup {Script[next[p]]}
          /\ next'[p] = next[p] + 1
          /\ version' = version
      BY <1>3, <2>3 DEF RunStatement
    <3>2. \A i \in 1 .. next[p] : Script[i] \in objects'
      BY <2>1, <3>1 DEF ScriptRun
    <3>3. CASE next[p] = Len(Script)
      <4>1. Schema \subseteq objects'
        BY <3>2, <3>3, ScriptFacts
      <4>. QED
        BY <1>3, <2>3, <3>1, <3>3, <4>1 DEF RunStatement, Goto, ProgressAt
    <3>4. CASE next[p] # Len(Script)
      <4>1. pc'[p] = "script" /\ current'[p] = current[p]
        BY <1>3, <2>3, <3>4 DEF RunStatement
      <4>2. ScriptRun(p)'
        BY <2>1, <3>1, <3>2, <3>4, <4>1, ScriptFacts DEF ScriptRun
      <4>. QED
        BY <3>1, <4>1, <4>2 DEF ProgressAt
    <3>. QED
      BY <3>3, <3>4
  <2>. QED
    BY <2>2, <2>3
<1>4. CASE RecordVersion(p)
  BY <1>4 DEF RecordVersion, Goto, ProgressAt, Progress
<1>5. CASE CheckIndex(p)
  BY <1>5 DEF CheckIndex, Goto, ProgressAt, VersionIsEarned
<1>6. CASE CreateIndex(p)
  BY <1>6 DEF CreateIndex, Goto, ProgressAt, VersionIsEarned
<1>7. CASE Exit(p)
  BY <1>7 DEF Exit, Goto, ProgressAt
<1>8. CASE Crash(p)
  BY <1>8 DEF Crash, Goto, ProgressAt
<1>. QED
  BY <1>1, <1>2, <1>3, <1>4, <1>5, <1>6, <1>7, <1>8 DEF Step

LEMMA InvStep == MigrationInv /\ [Next]_vars => MigrationInv'
<1>. SUFFICES ASSUME MigrationInv, [Next]_vars PROVE MigrationInv'
  OBVIOUS
<1>1. TypeOK'
  BY TypeStep DEF MigrationInv
<1>2. CASE UNCHANGED vars
  BY <1>1, <1>2 DEF vars, MigrationInv, Progress, ScriptRun, VersionIsEarned
<1>3. ASSUME NEW p \in Processes, Step(p) \/ Crash(p) PROVE MigrationInv'
  <2>1. /\ objects \subseteq objects' /\ OnlyAt(p) /\ ProgressAt(p)'
        /\ version' = version \/ (version' = SchemaVersion /\ Schema \subseteq objects')
    BY <1>3, StepFrame, OwnProgress DEF MigrationInv
  <2>2. ASSUME NEW q \in Processes PROVE ProgressAt(q)'
    <3>1. CASE q = p
      BY <2>1, <3>1
    <3>2. CASE q # p
      BY <2>1, <3>2
      DEF OnlyAt, ProgressAt, ScriptRun, MigrationInv, Progress, VersionIsEarned
    <3>. QED
      BY <3>1, <3>2
  <2>. QED
    BY <1>1, <2>1, <2>2 DEF MigrationInv, Progress, ProgressAt, VersionIsEarned
<1>. QED
  BY <1>2, <1>3 DEF Next

LEMMA InvInit == Init => MigrationInv
<1>. SUFFICES ASSUME Init PROVE MigrationInv
  OBVIOUS
<1>1. TypeOK
  BY CrashAssumption, ScriptFacts DEF Init, TypeOK, Labels, SchemaVersion
<1>. QED
  BY <1>1 DEF Init, MigrationInv, Progress, VersionIsEarned, SchemaVersion

LEMMA Invariance == Spec => []MigrationInv
BY InvInit, InvStep, PTL DEF Spec

(* The type of every variable, for any number of processes. *)
THEOREM TypeCorrect == Spec => []TypeOK
BY Invariance, PTL DEF MigrationInv

(* Whatever is killed and whoever migrates at the same time, a recorded    *)
(* version means a complete schema, and so does an open file.              *)
THEOREM VersionEarned == Spec => []VersionIsEarned
BY Invariance, PTL DEF MigrationInv
-----------------------------------------------------------------------------
Settles ==
  /\ version' >= version
  /\ \A p \in Processes :
       pc'[p] = "failed" /\ pc[p] # "failed" => current[p] < SchemaVersion

LEMMA SettlesStep == MigrationInv /\ [Next]_vars => Settles
<1>. SUFFICES ASSUME MigrationInv, [Next]_vars PROVE Settles
  OBVIOUS
<1>. USE DEF MigrationInv, TypeOK
<1>1. CASE UNCHANGED vars
  BY <1>1 DEF vars, Settles
<1>2. ASSUME NEW p \in Processes, Step(p) \/ Crash(p) PROVE Settles
  <2>1. version' >= version
    BY <1>2, OwnProgress DEF SchemaVersion
  <2>2. pc'[p] = "failed" /\ pc[p] # "failed" => pc[p] = "script"
    BY <1>2 DEF Step, CreateVersionTable, ReadVersion, RunStatement, RecordVersion,
                CheckIndex, CreateIndex, Exit, Crash, Goto
  <2>3. \A q \in Processes \ {p} : pc'[q] = pc[q]
    BY <1>2, StepFrame DEF OnlyAt
  <2>. QED
    BY <2>1, <2>2, <2>3 DEF Settles, Progress, ScriptRun
<1>. QED
  BY <1>1, <1>2 DEF Next

(* A recorded version is never lost, and a process that has read it never  *)
(* fails to open the file.                                                 *)
THEOREM VersionStays == Spec => VersionSettles
<1>1. MigrationInv /\ [Next]_vars => [Settles]_vars
  BY SettlesStep
<1>2. Spec => [][Settles]_vars
  BY <1>1, Invariance, PTL DEF Spec
<1>. QED
  BY <1>2 DEF VersionSettles, Settles
=============================================================================
