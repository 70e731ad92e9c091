---------------------------- MODULE Migrations -----------------------------
(***************************************************************************)
(* Opening the database file: connect() runs apply_migrations and          *)
(* ensure_search_index (memory/vault/connection.py, schema.py).            *)
(*                                                                         *)
(* executescript() commits and then runs each statement of the script in   *)
(* autocommit, so the enclosing "with conn" protects only the DELETE and   *)
(* INSERT on schema_version.  A process may be killed between any two      *)
(* statements, and several processes may open the file at the same time.   *)
(***************************************************************************)
EXTENDS Naturals, Sequences

CONSTANTS
  Processes,
  MaxCrashes    \* bound: processes killed while opening or using the file

ASSUME CrashAssumption == MaxCrashes \in Nat

VARIABLES
  objects,   \* tables and indexes in the file
  version,   \* the row of schema_version, 0 for none
  pc,        \* where each process is in connect()
  current,   \* the version each process has read
  next,      \* the next statement of the migration script
  crashes

vars == <<objects, version, pc, current, next, crashes>>

SchemaVersion == 1

(* The statements of _MIGRATION_1, by the object each creates. *)
Script ==
  <<"memories", "idx_memories_owner_status", "idx_memories_owner_key",
    "idx_memories_owner_idem", "audit_events", "idx_audit_owner_memory">>

Schema == {Script[i] : i \in DOMAIN Script}

Init ==
  /\ objects = {}
  /\ version = 0
  /\ pc = [p \in Processes |-> "down"]
  /\ current = [p \in Processes |-> 0]
  /\ next = [p \in Processes |-> 1]
  /\ crashes = 0

Goto(p, label) == pc' = [pc EXCEPT ![p] = label]

(* _current_version: CREATE TABLE IF NOT EXISTS, then SELECT. *)
CreateVersionTable(p) ==
  /\ pc[p] = "down"
  /\ objects' = objects \cup {"schema_version"}
  /\ Goto(p, "read_version")
  /\ UNCHANGED <<version, current, next, crashes>>

(* Mutant of ReadVersion: ">=" for ">", migration 1 is always applied. *)
ReadVersionAgain(p) ==
  /\ pc[p] = "read_version"
  /\ current' = [current EXCEPT ![p] = version]
  /\ next' = [next EXCEPT ![p] = 1]
  /\ Goto(p, IF SchemaVersion >= version THEN "script" ELSE "record_version")
  /\ UNCHANGED <<objects, version, crashes>>

ReadVersion(p) ==
  /\ pc[p] = "read_version"
  /\ current' = [current EXCEPT ![p] = version]
  /\ next' = [next EXCEPT ![p] = 1]
  /\ Goto(p, IF SchemaVersion > version THEN "script" ELSE "record_version")
  /\ UNCHANGED <<objects, version, crashes>>

(* Mutant of RunStatement: "already exists" is taken for "already applied". *)
RunStatementLeniently(p) ==
  LET object == Script[next[p]]
  IN  /\ pc[p] = "script"
      /\ objects' = objects \cup {object}
      /\ next' = [next EXCEPT ![p] = @ + 1]
      /\ IF object \in objects \/ next[p] = Len(Script)
           THEN /\ Goto(p, "record_version")
                /\ current' = [current EXCEPT ![p] = SchemaVersion]
           ELSE UNCHANGED <<pc, current>>
      /\ UNCHANGED <<version, crashes>>

(* One statement of executescript.  CREATE without IF NOT EXISTS raises    *)
(* OperationalError when the object is there, and connect() fails.         *)
RunStatement(p) ==
  LET object == Script[next[p]]
  IN  /\ pc[p] = "script"
      /\ IF object \in objects
           THEN Goto(p, "failed") /\ UNCHANGED <<objects, next, current>>
           ELSE /\ objects' = objects \cup {object}
                /\ next' = [next EXCEPT ![p] = @ + 1]
                /\ IF next[p] = Len(Script)
                     THEN /\ Goto(p, "record_version")
                          /\ current' = [current EXCEPT ![p] = SchemaVersion]
                     ELSE UNCHANGED <<pc, current>>
      /\ UNCHANGED <<version, crashes>>

(* Mutants of RecordVersion: one version too far, and never written. *)
RecordNextVersion(p) ==
  /\ pc[p] = "record_version"
  /\ version' = current[p] + 1
  /\ Goto(p, "check_index")
  /\ UNCHANGED <<objects, current, next, crashes>>

RecordNothing(p) ==
  /\ pc[p] = "record_version"
  /\ Goto(p, "check_index")
  /\ UNCHANGED <<objects, version, current, next, crashes>>

(* DELETE and INSERT on schema_version, committed together. *)
RecordVersion(p) ==
  /\ pc[p] = "record_version"
  /\ version' = current[p]
  /\ Goto(p, "check_index")
  /\ UNCHANGED <<objects, current, next, crashes>>

(* ensure_search_index: look for the table, then create it; the error of a *)
(* process that lost the race is caught.                                   *)
CheckIndex(p) ==
  /\ pc[p] = "check_index"
  /\ Goto(p, IF "memories_fts" \in objects THEN "open" ELSE "create_index")
  /\ UNCHANGED <<objects, version, current, next, crashes>>

CreateIndex(p) ==
  /\ pc[p] = "create_index"
  /\ objects' = objects \cup {"memories_fts"}
  /\ Goto(p, "open")
  /\ UNCHANGED <<version, current, next, crashes>>

(* The command ends, or its connect() has failed; it may be run again. *)
Exit(p) ==
  /\ pc[p] \in {"open", "failed"}
  /\ Goto(p, "down")
  /\ UNCHANGED <<objects, version, current, next, crashes>>

Crash(p) ==
  /\ pc[p] # "down"
  /\ crashes < MaxCrashes
  /\ crashes' = crashes + 1
  /\ Goto(p, "down")
  /\ UNCHANGED <<objects, version, current, next>>

Step(p) ==
  \/ CreateVersionTable(p)
  \/ ReadVersion(p)
  \/ RunStatement(p)
  \/ RecordVersion(p)
  \/ CheckIndex(p)
  \/ CreateIndex(p)
  \/ Exit(p)

Next == \E p \in Processes : Step(p) \/ Crash(p)

(* A running process executes its next statement; a command that ended is  *)
(* run again.  Nothing is killed for ever.                                 *)
Fairness == \A p \in Processes : WF_vars(Step(p))

Spec == Init /\ [][Next]_vars

FairSpec == Spec /\ Fairness

-----------------------------------------------------------------------------
Labels ==
  {"down", "read_version", "script", "record_version", "check_index",
   "create_index", "open", "failed"}

TypeOK ==
  /\ objects \subseteq Schema \cup {"schema_version", "memories_fts"}
  /\ version \in 0 .. SchemaVersion
  /\ pc \in [Processes -> Labels]
  /\ current \in [Processes -> 0 .. SchemaVersion]
  /\ next \in [Processes -> 1 .. Len(Script) + 1]
  /\ crashes \in 0 .. MaxCrashes

(* The recorded version is never ahead of the schema, and a process that   *)
(* has opened the file finds every table there, whatever was killed.       *)
VersionIsEarned ==
  /\ version = SchemaVersion => Schema \subseteq objects
  /\ \A p \in Processes :
       pc[p] \in {"check_index", "create_index", "open"} => Schema \subseteq objects

(* Once a version is recorded it is never lost, and no process that reads  *)
(* it can fail to open the file: only unversioned files can.               *)
VersionSettles ==
  [][/\ version' >= version
     /\ \A p \in Processes :
          pc'[p] = "failed" /\ pc[p] # "failed" => current[p] < SchemaVersion]_vars

(* If nothing is killed, every process opens the file in the end, even one *)
(* whose first attempts fail because another is still migrating.           *)
StartsOpen ==
  [](crashes = 0) => \A p \in Processes : pc[p] = "down" ~> pc[p] = "open"

(* Once migrated, the file can be opened again after any kill: connect()   *)
(* on a file with a recorded version never gets stuck or fails for ever.   *)
VersionedFileOpens ==
  \A p \in Processes :
    (pc[p] = "down" /\ version = SchemaVersion) ~> pc[p] = "open"

(* REQUIREMENTS.md "Provide recoverable local migrations", schema.py "safe *)
(* to call on every startup": after a crash a later start opens the file.  *)
Recovers == \A p \in Processes : pc[p] = "down" ~> pc[p] = "open"
=============================================================================
