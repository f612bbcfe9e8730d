-------------------------- MODULE ScenarioDatabase --------------------------
(***************************************************************************)
(* The aggregator database during a behave run of the features tagged      *)
(* @aggregator_cleaner and @aggregator_exporter: context.connection, the   *)
(* psycopg2 session the steps of common_db.py, common_aggregator.py and    *)
(* cleaner_storage.py share; the binaries the steps run against the same   *)
(* database; and prepare_db, which opens a session of its own before each  *)
(* feature and after each @database scenario (features/environment.py).    *)
(*                                                                         *)
(* psycopg2 opens a transaction with the first statement and keeps it, and *)
(* the locks PostgreSQL gave it, until commit or rollback. A SELECT leaves *)
(* an ACCESS SHARE lock on its table, with which the DROP TABLE of another *)
(* session conflicts. A statement that fails aborts the transaction, which *)
(* releases its locks but still has to be rolled back.                     *)
(*                                                                         *)
(* A scenario is the sequence of its database steps. Loops over DB_TABLES  *)
(* may visit the tables in any order: no statement depends on another one. *)
(***************************************************************************)
EXTENDS Naturals, Sequences

CONSTANTS
  Tables,   \* DB_TABLES, all of which setup/clean_aggregator_database.sql drops
  Rows,     \* the records the features insert
  Scripts   \* the scenarios: sequences of steps

AllTablesOps == {"database_empty", "prepare_schema", "tables_empty", "delete_all"}
OneTableOps  == {"table_empty", "rule_hits"}

\* `table` is the table a step names, `rows` the records it inserts, and
\* `returnCode` what it passes to process_generated_output.
Step == [op : AllTablesOps \cup OneTableOps \cup {"insert", "run", "check"},
         table : Tables, rows : SUBSET Rows, returnCode : {0, 2}]

ASSUME ScriptsAssumption == Scripts \subseteq Seq(Step)

\* The steps that read and keep their transaction open, the ones that end a
\* transaction, and the ones that pass only if they find table t empty.
Reading            == {"tables_empty"} \cup OneTableOps
Releasing          == {"database_empty", "prepare_schema", "delete_all", "insert"}
FindsEmpty(s, t)   == \/ s.op \in {"database_empty", "tables_empty"}
                      \/ s.op = "table_empty" /\ s.table = t
InsertsInto(s, t)  == s.op = "insert" /\ s.table = t

\* No scenario of the two feature directories ends with a step that reads.
ReadsReleased(s) ==
  \A i \in 1..Len(s) : s[i].op \in Reading =>
    \E j \in (i + 1)..Len(s) : s[j].op \in Releasing

\* Each of them inserts into a table it has found empty, and only once.
InsertsOnce(s) ==
  \A i \in 1..Len(s) : s[i].op = "insert" =>
    /\ \E k \in 1..(i - 1) : FindsEmpty(s[k], s[i].table)
    /\ \A k \in 1..(i - 1) : ~InsertsInto(s[k], s[i].table)

ASSUME ReadsAssumption   == \A s \in Scripts : ReadsReleased(s)
ASSUME InsertsAssumption == \A s \in Scripts : InsertsOnce(s)

VARIABLES
  pc,         \* what behave is doing
  script,     \* the steps left, the current one first
  failed,     \* a step of the scenario raised
  todo,       \* the tables the current loop has still to visit
  batch,      \* the rows the current step has still to insert
  conn,       \* the transaction status of context.connection
  locks,      \* the tables its transaction holds a lock on
  created,    \* the tables that exist
  stored,     \* the committed records of each table
  exitCode,   \* the exit code of the last binary
  hookError   \* the last prepare_db raised

behave   == <<pc, script, failed>>
loop     == <<todo, batch>>
session  == <<conn, locks>>
database == <<created, stored>>
results  == <<exitCode, hookError>>
vars     == <<behave, loop, session, database, results>>

TypeOK ==
  /\ pc \in {"feature", "skipped", "idle", "steps", "loop", "hook", "pop"}
  /\ script \in Seq(Step)
  /\ failed \in BOOLEAN
  /\ todo \subseteq Tables
  /\ batch \subseteq Rows
  /\ conn \in {"none", "idle", "open", "aborted"}
  /\ locks \subseteq Tables
  /\ created \subseteq Tables
  /\ stored \in [Tables -> SUBSET Rows]
  /\ exitCode \in {0, 1, 2}
  /\ hookError \in BOOLEAN

Empty == created = {} /\ stored = [t \in Tables |-> {}]

\* The run starts with whatever an earlier one left in the database.
Init ==
  /\ pc = "feature" /\ script = <<>> /\ failed = FALSE
  /\ todo = Tables /\ batch = {}
  /\ conn = "none" /\ locks = {}
  /\ created \in SUBSET Tables
  /\ stored \in [Tables -> SUBSET Rows]
  /\ \A t \in Tables \ created : stored[t] = {}
  /\ exitCode = 0 /\ hookError = FALSE

op    == script[1].op
table == script[1].table
rows  == script[1].rows

-----------------------------------------------------------------------------
(* The session of the steps *)

\* A statement succeeds on table t: its transaction is open and holds a lock.
Execute(t) == conn' = "open" /\ locks' = locks \cup {t}

\* connection.commit() and connection.rollback() release the locks.
EndTransaction == conn' = "idle" /\ locks' = {}

\* A statement fails and nobody rolls back.
Abort == conn' = "aborted" /\ locks' = {}

Pass == pc' = "steps" /\ script' = Tail(script) /\ UNCHANGED failed

\* after_scenario starts prepare_db.
StartHook == pc' = "hook" /\ todo' = Tables /\ batch' = {}

\* The step raises: the rest of the scenario is skipped.
Raise == StartHook /\ failed' = TRUE /\ UNCHANGED script

\* The loop of the step goes on with the next table.
Visited(t) == todo' = todo \ {t} /\ UNCHANGED <<behave, batch>>

Visits(ops, t) == pc = "loop" /\ op \in ops /\ t \in todo

-----------------------------------------------------------------------------
(* Scenarios *)

\* The background establishes the connection, or fails to.
BeginScenario(s) ==
  /\ pc = "idle"
  /\ script' = s
  /\ \/ pc' = "steps" /\ failed' = FALSE /\ conn' = "idle" /\ UNCHANGED <<loop, locks>>
     \/ StartHook /\ failed' = TRUE /\ UNCHANGED session
  /\ UNCHANGED <<database, results>>

\* Mutant: the loop of the step runs over the records instead of the tables.
BeginStepOverRecords ==
  /\ pc = "steps" /\ script # <<>> /\ op \notin {"run", "check"}
  /\ pc' = "loop"
  /\ todo' = rows
  /\ batch' = IF op = "insert" THEN rows ELSE {}
  /\ UNCHANGED <<script, failed, session, database, results>>

BeginStep ==
  /\ pc = "steps" /\ script # <<>> /\ op \notin {"run", "check"}
  /\ pc' = "loop"
  /\ todo' = CASE op \in AllTablesOps -> Tables
               [] op \in OneTableOps  -> {table}
               [] op = "insert"       -> {}
  /\ batch' = IF op = "insert" THEN rows ELSE {}
  /\ UNCHANGED <<script, failed, session, database, results>>

EndScenario ==
  /\ pc = "steps" /\ script = <<>>
  /\ StartHook
  /\ UNCHANGED <<script, failed, session, database, results>>

-----------------------------------------------------------------------------
(* Steps that loop over tables *)

\* Mutant: the step polls until the table is gone.
ProbeTablePolling(t) ==
  /\ Visits({"database_empty"}, t)
  /\ EndTransaction
  /\ t \notin created
  /\ Visited(t)
  /\ UNCHANGED <<database, results>>

\* "the database is empty": the SELECT has to fail with UndefinedTable.
ProbeTable(t) ==
  /\ Visits({"database_empty"}, t)
  /\ EndTransaction
  /\ \/ t \notin created /\ Visited(t)
     \/ t \in created /\ Raise
  /\ UNCHANGED <<database, results>>

\* "I prepare database schema": one commit for each table.
CreateTable(t) ==
  /\ Visits({"prepare_schema"}, t)
  /\ EndTransaction
  /\ \/ t \notin created /\ created' = created \cup {t} /\ Visited(t)
     \/ t \in created /\ Raise /\ UNCHANGED created
  /\ UNCHANGED <<stored, results>>

\* "I should find that all tables are empty" and "... that table T is empty":
\* the transaction is left open, and after a wrong count too.
CountRows(t) ==
  /\ Visits({"tables_empty", "table_empty"}, t)
  /\ \/ t \notin created /\ Abort /\ Raise
     \/ t \in created /\ Execute(t) /\ stored[t] = {} /\ Visited(t)
     \/ t \in created /\ Execute(t) /\ stored[t] # {} /\ Raise
  /\ UNCHANGED <<database, results>>

\* "I should see the following rule_hit": the rows may be the expected ones.
CompareRuleHits(t) ==
  /\ Visits({"rule_hits"}, t)
  /\ \/ t \notin created /\ Abort /\ Raise
     \/ t \in created /\ Execute(t) /\ (Visited(t) \/ Raise)
  /\ UNCHANGED <<database, results>>

\* "I delete all tables from database": one commit for each table.
DropTable(t) ==
  /\ Visits({"delete_all"}, t)
  /\ EndTransaction
  /\ \/ /\ t \in created
        /\ created' = created \ {t} /\ stored' = [stored EXCEPT ![t] = {}]
        /\ Visited(t)
     \/ t \notin created /\ Raise /\ UNCHANGED database
  /\ UNCHANGED results

EndLoop ==
  /\ pc = "loop" /\ op # "insert" /\ todo = {}
  /\ Pass
  /\ UNCHANGED <<loop, session, database, results>>

-----------------------------------------------------------------------------
(* "I insert following records into {table} table": one transaction *)

\* Mutant: autocommit, every INSERT is visible at once.
InsertRowAutocommit(r) ==
  /\ pc = "loop" /\ op = "insert" /\ r \in batch
  /\ EndTransaction
  /\ \/ /\ table \in created /\ r \notin stored[table]
        /\ stored' = [stored EXCEPT ![table] = @ \cup {r}]
        /\ batch' = batch \ {r} /\ UNCHANGED <<behave, todo>>
     \/ (table \notin created \/ r \in stored[table]) /\ Raise /\ UNCHANGED stored
  /\ UNCHANGED <<created, results>>

\* A record that is already stored violates the primary key.
InsertRow(r) ==
  /\ pc = "loop" /\ op = "insert" /\ r \in batch
  /\ \/ /\ table \in created /\ r \notin stored[table]
        /\ Execute(table)
        /\ batch' = batch \ {r} /\ UNCHANGED <<behave, todo>>
     \/ (table \notin created \/ r \in stored[table]) /\ EndTransaction /\ Raise
  /\ UNCHANGED <<database, results>>

\* Mutant: the commit is forgotten.
InsertWithoutCommit ==
  /\ pc = "loop" /\ op = "insert" /\ batch = {}
  /\ Pass
  /\ UNCHANGED <<loop, session, database, results>>

InsertCommit ==
  /\ pc = "loop" /\ op = "insert" /\ batch = {}
  /\ EndTransaction
  /\ stored' = [stored EXCEPT ![table] = @ \cup rows]
  /\ Pass
  /\ UNCHANGED <<loop, created, results>>

-----------------------------------------------------------------------------
(* Binaries, checks and failing statements *)

\* The exit codes process_generated_output accepts: it tests `if return_code:`.
Accepted(code) == script[1].returnCode # 0 => code \in {0, script[1].returnCode}

\* The step runs the cleaner or the exporter to its end. The cleaner keeps the
\* records in `kept`. Its row locks do not conflict with an open SELECT.
RunBinary(kept, code) ==
  /\ pc = "steps" /\ script # <<>> /\ op = "run"
  /\ stored' = [t \in Tables |-> stored[t] \cap kept]
  /\ exitCode' = code
  /\ \/ Accepted(code) /\ Pass /\ UNCHANGED loop
     \/ ~Accepted(code) /\ Raise
  /\ UNCHANGED <<session, created, hookError>>

\* A step that compares the output of the binary with the expected one.
CheckOutput ==
  /\ pc = "steps" /\ script # <<>> /\ op = "check"
  /\ (Pass /\ UNCHANGED loop) \/ Raise
  /\ UNCHANGED <<session, database, results>>

\* The server refuses a statement for a reason of its own. The steps that
\* write roll back before they raise, the ones that read do not.
StatementFails ==
  /\ pc = "loop" /\ (todo # {} \/ batch # {})
  /\ \/ op \in {"prepare_schema", "delete_all", "insert"} /\ EndTransaction
     \/ op \in {"database_empty", "tables_empty"} \cup OneTableOps /\ Abort
  /\ Raise
  /\ UNCHANGED <<database, results>>

-----------------------------------------------------------------------------
(* prepare_db: in before_feature, and in after_scenario for tag "database" *)

\* DROP TABLE IF EXISTS waits for every other session that holds a lock.
PrepareDrop(t) ==
  /\ pc \in {"feature", "hook"} /\ t \in todo
  /\ t \notin locks
  /\ todo' = todo \ {t}
  /\ UNCHANGED <<behave, batch, session, database, results>>

AfterPrepare(feature, hook) ==
  /\ pc' = IF pc = "feature" THEN feature ELSE hook
  /\ UNCHANGED <<script, failed, batch, session, exitCode>>

\* Mutant: a scenario that passed is trusted to have cleaned up.
PrepareCommitAfterFailure ==
  /\ pc \in {"feature", "hook"} /\ todo = {}
  /\ IF failed THEN Empty' ELSE UNCHANGED database
  /\ hookError' = FALSE
  /\ AfterPrepare("idle", "pop")
  /\ UNCHANGED todo

PrepareCommit ==
  /\ pc \in {"feature", "hook"} /\ todo = {}
  /\ created' = {} /\ stored' = [t \in Tables |-> {}]
  /\ hookError' = FALSE
  /\ AfterPrepare("idle", "pop")
  /\ UNCHANGED todo

\* The connection or a statement fails: the transaction of prepare_db is rolled
\* back and the hook raises. behave skips a feature whose hook raised, and goes
\* on after a scenario whose hook raised.
PrepareFails ==
  /\ pc \in {"feature", "hook"}
  /\ hookError' = TRUE
  /\ todo' = {}
  /\ AfterPrepare("skipped", "pop")
  /\ UNCHANGED database

\* behave drops the context of the scenario, and the connection goes with it.
PopContext ==
  /\ pc = "pop"
  /\ pc' = "idle" /\ script' = <<>> /\ UNCHANGED failed
  /\ conn' = "none" /\ locks' = {}
  /\ UNCHANGED <<loop, database, results>>

\* before_feature of the next feature file.
NextFeature ==
  /\ pc \in {"idle", "skipped"}
  /\ pc' = "feature" /\ todo' = Tables
  /\ UNCHANGED <<script, failed, batch, session, database, results>>

-----------------------------------------------------------------------------

\* What behave does on its own account once a scenario or a feature has begun.
Progress ==
  \/ BeginStep \/ EndLoop \/ EndScenario
  \/ \E t \in Tables : \/ ProbeTable(t) \/ CreateTable(t) \/ CountRows(t)
                       \/ CompareRuleHits(t) \/ DropTable(t) \/ PrepareDrop(t)
  \/ \E r \in Rows : InsertRow(r)
  \/ InsertCommit
  \/ \E kept \in SUBSET Rows, code \in {0, 1, 2} : RunBinary(kept, code)
  \/ CheckOutput
  \/ PrepareCommit
  \/ PopContext

Next ==
  \/ \E s \in Scripts : BeginScenario(s)
  \/ NextFeature
  \/ Progress
  \/ StatementFails
  \/ PrepareFails

Spec == Init /\ [][Next]_vars

FairSpec == Spec /\ WF_vars(Progress)

-----------------------------------------------------------------------------
(* Properties *)

\* prepare_db waits for a lock of context.connection. Both sessions belong to
\* the one thread of behave, so that the wait never ends; PostgreSQL sees no
\* cycle and does not break it.
Hung == pc = "hook" /\ todo \cap locks # {}

\* after_scenario (environment.py:88-91) never waits for the session of the
\* scenario it cleans up after: "Run after each scenario is run."
HookNeverHangs == ~Hung

\* A scenario whose steps all passed has ended all its transactions, so that
\* the hook can only hang after a failure (cleaner_storage.py:41-52, 91-127).
HangNeedsFailedStep == Hung => failed

\* Every scenario starts from an empty database, whatever step the scenario
\* before it failed at, unless prepare_db itself raised (environment.py:90-91).
ScenariosStartEmpty == pc = "idle" /\ ~hookError => Empty

\* An INSERT step that failed left none of its records behind
\* (cleaner_storage.py:72-88). The scenarios insert into empty tables.
FailedInsertLeavesNothing ==
  failed /\ pc = "hook" /\ script # <<>> /\ op = "insert" => stored[table] = {}

\* A scenario that has begun its steps ends, or hangs in the hook: nothing else
\* in the steps, in their order or in prepare_db waits for the database.
ScenarioEnds == pc = "steps" ~> (pc = "idle" \/ Hung)

\* "it is expected that exit code will be 0" (cleaner_main.py:49, 87, 123, 141):
\* a step that passes return_code=0 does not pass for another exit code.
RunStepsExpectExitZero ==
  [][pc = "steps" /\ pc' = "steps" /\ op = "run" /\ script[1].returnCode = 0
       => exitCode' = 0]_vars

=============================================================================
