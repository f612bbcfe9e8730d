----------------------- MODULE ScenarioDatabase_proofs -----------------------
(***************************************************************************)
(* What a scenario finds in the database, for every set of tables, records *)
(* and scenarios. ScenariosStartEmpty speaks of the moment before a        *)
(* scenario; it is not inductive, because the hook commits one step before *)
(* behave drops the context. IInv therefore also speaks of that step, and  *)
(* says that a loop belongs to a step, which its types rest on.            *)
(*                                                                         *)
(* That a scenario which passed cannot hang the hook follows the locks of  *)
(* the session through the script (LockInv): a lock that is held before a  *)
(* step is released by a step still to come, because the scripts commit    *)
(* after they read. That a failed insert leaves nothing follows the tables *)
(* the script has still to insert into (InsertInv): such a table is empty, *)
(* or a step that passes only if it is comes first.                        *)
(***************************************************************************)
EXTENDS ScenarioDatabase, TLAPS

LoopHasStep == pc = "loop" => script # <<>>

\* The database is empty from the commit of prepare_db to the next scenario.
EmptyAfterHook == pc \in {"idle", "pop"} /\ ~hookError => Empty

\* A step of the script ends a transaction.
Releases(s) == \E j \in 1..Len(s) : s[j].op \in Releasing

\* Between two scenarios no session holds a lock.
NoLocksBetween == pc \in {"feature", "skipped", "idle"} => locks = {}

\* Before a step: what holds a lock is followed by what releases it.
LocksReleased == pc = "steps" => locks = {} \/ Releases(script)

\* A loop that ends a transaction at every table holds no lock after the first.
LoopReleases == pc = "loop" /\ op \notin Reading \cup {"insert"} => todo = Tables \/ locks = {}

\* After a scenario that passed: what HangNeedsFailedStep comes to.
HookLocks == pc = "hook" /\ ~failed => locks = {}

LockInv ==
  ReadsReleased(script) /\ NoLocksBetween /\ LocksReleased /\ LoopReleases /\ HookLocks

\* Every insert of script s finds its table empty in database d, or comes after
\* a step that passes only if the table is empty, and after no insert into it.
InsertsFind(s, d) ==
  \A i \in 1..Len(s) : s[i].op = "insert" =>
    /\ d[s[i].table] = {} \/ \E k \in 1..(i - 1) : FindsEmpty(s[k], s[i].table)
    /\ \A k \in 1..(i - 1) : ~InsertsInto(s[k], s[i].table)

\* There is no record without its table.
RecordsHaveTable == \A t \in Tables \ created : stored[t] = {}

\* A loop that checks for emptiness has found the tables it visited empty.
LoopFound ==
  pc = "loop" => \A t \in Tables \ todo : FindsEmpty(script[1], t) => stored[t] = {}

\* The table of a record that was inserted exists.
LoopInserts == pc = "loop" /\ op = "insert" => batch = rows \/ table \in created

InsertInv ==
  InsertsFind(script, stored) /\ RecordsHaveTable /\ LoopFound /\ LoopInserts

IInv == TypeOK /\ LoopHasStep /\ EmptyAfterHook /\ LockInv /\ InsertInv

-----------------------------------------------------------------------------

\* A run starts before a feature, with no claim about the database.
LEMMA InitInvariant == Init => IInv
<1> SUFFICES ASSUME Init PROVE IInv
  OBVIOUS
<1>1. script \in Seq(Step)
  <2>1. <<>> \in Seq(Step)
    OBVIOUS
  <2> QED BY <2>1 DEF Init
<1>2. TypeOK
  BY <1>1 DEF Init, TypeOK
<1>3. LoopHasStep /\ EmptyAfterHook
  BY DEF Init, LoopHasStep, EmptyAfterHook
<1>4. LockInv
  BY DEF Init, LockInv, ReadsReleased, NoLocksBetween, LocksReleased, LoopReleases, HookLocks
<1>5. InsertInv
  BY DEF Init, InsertInv, InsertsFind, RecordsHaveTable, LoopFound, LoopInserts
<1> QED BY <1>2, <1>3, <1>4, <1>5 DEF IInv

\* The first step of a script is a step, and what is left of it is a script.
LEMMA Script ==
  ASSUME script \in Seq(Step), script # <<>>
  PROVE  script[1] \in Step /\ Tail(script) \in Seq(Step)
  OBVIOUS

\* The fields of the current step, for the actions that use them.
LEMMA Fields ==
  ASSUME script[1] \in Step
  PROVE  /\ op \in AllTablesOps \cup OneTableOps \cup {"insert", "run", "check"}
         /\ table \in Tables
         /\ rows \subseteq Rows
  BY DEF op, table, rows, Step

\* Every action keeps the types, and starts a loop only for a step.
LEMMA NextTypes == TypeOK /\ LoopHasStep /\ [Next]_vars => TypeOK' /\ LoopHasStep'
<1> SUFFICES ASSUME TypeOK, LoopHasStep, [Next]_vars
             PROVE  TypeOK' /\ LoopHasStep'
  OBVIOUS
<1> USE DEF TypeOK, LoopHasStep, behave, loop, session, database, results
<1>1. CASE UNCHANGED vars
  BY <1>1 DEF vars
<1>2. ASSUME NEW s \in Scripts, BeginScenario(s) PROVE TypeOK' /\ LoopHasStep'
  <2>1. s \in Seq(Step)
    BY ScriptsAssumption
  <2> QED BY <1>2, <2>1 DEF BeginScenario, StartHook
<1>3. CASE NextFeature
  BY <1>3 DEF NextFeature
<1>4. CASE StatementFails
  BY <1>4 DEF StatementFails, EndTransaction, Abort, Raise, StartHook
<1>5. CASE PrepareFails
  BY <1>5 DEF PrepareFails, AfterPrepare
<1>6. CASE BeginStep
  <2>1. script # <<>>
    BY <1>6 DEF BeginStep
  <2>2. todo' \subseteq Tables /\ batch' \subseteq Rows
    BY <1>6, <2>1, Script, Fields DEF BeginStep, AllTablesOps, OneTableOps
  <2> QED BY <1>6, <2>1, <2>2 DEF BeginStep
<1>7. CASE EndLoop
  BY <1>7, Script DEF EndLoop, Pass
<1>8. CASE EndScenario
  BY <1>8 DEF EndScenario, StartHook
<1>9. ASSUME NEW t \in Tables, ProbeTable(t) PROVE TypeOK' /\ LoopHasStep'
  BY <1>9 DEF ProbeTable, Visits, EndTransaction, Visited, Raise, StartHook
<1>10. ASSUME NEW t \in Tables, CreateTable(t) PROVE TypeOK' /\ LoopHasStep'
  BY <1>10 DEF CreateTable, Visits, EndTransaction, Visited, Raise, StartHook
<1>11. ASSUME NEW t \in Tables, CountRows(t) PROVE TypeOK' /\ LoopHasStep'
  BY <1>11 DEF CountRows, Visits, Execute, Abort, Visited, Raise, StartHook
<1>12. ASSUME NEW t \in Tables, CompareRuleHits(t) PROVE TypeOK' /\ LoopHasStep'
  BY <1>12 DEF CompareRuleHits, Visits, Execute, Abort, Visited, Raise, StartHook
<1>13. ASSUME NEW t \in Tables, DropTable(t) PROVE TypeOK' /\ LoopHasStep'
  BY <1>13 DEF DropTable, Visits, EndTransaction, Visited, Raise, StartHook
<1>14. ASSUME NEW t \in Tables, PrepareDrop(t) PROVE TypeOK' /\ LoopHasStep'
  BY <1>14 DEF PrepareDrop
<1>15. ASSUME NEW r \in Rows, InsertRow(r) PROVE TypeOK' /\ LoopHasStep'
  <2>1. table \in Tables
    BY <1>15, Script, Fields DEF InsertRow
  <2> QED BY <1>15, <2>1 DEF InsertRow, Execute, EndTransaction, Raise, StartHook
<1>16. CASE InsertCommit
  <2>1. script # <<>> /\ table \in Tables /\ rows \subseteq Rows
    BY <1>16, Script, Fields DEF InsertCommit
  <2>2. stored' \in [Tables -> SUBSET Rows]
    BY <1>16, <2>1 DEF InsertCommit
  <2> QED BY <1>16, <2>1, <2>2, Script DEF InsertCommit, EndTransaction, Pass
<1>17. ASSUME NEW kept \in SUBSET Rows, NEW code \in {0, 1, 2}, RunBinary(kept, code)
       PROVE TypeOK' /\ LoopHasStep'
  BY <1>17, Script DEF RunBinary, Pass, Raise, StartHook
<1>18. CASE CheckOutput
  BY <1>18, Script DEF CheckOutput, Pass, Raise, StartHook
<1>19. CASE PrepareCommit
  BY <1>19 DEF PrepareCommit, AfterPrepare
<1>20. CASE PopContext
  BY <1>20 DEF PopContext
<1> QED
  BY <1>1, <1>2, <1>3, <1>4, <1>5, <1>6, <1>7, <1>8, <1>9, <1>10, <1>11, <1>12,
     <1>13, <1>14, <1>15, <1>16, <1>17, <1>18, <1>19, <1>20 DEF Next, Progress

\* Only PrepareCommit makes the antecedent true, and it empties the database;
\* no action between it and the next scenario writes to the database.
LEMMA NextEmptyAfterHook == EmptyAfterHook /\ [Next]_vars => EmptyAfterHook'
<1> SUFFICES ASSUME EmptyAfterHook, [Next]_vars PROVE EmptyAfterHook'
  OBVIOUS
<1> USE DEF EmptyAfterHook, Empty, behave, loop, session, database, results
<1>1. CASE UNCHANGED vars
  BY <1>1 DEF vars
<1>2. ASSUME NEW s \in Scripts, BeginScenario(s) PROVE EmptyAfterHook'
  BY <1>2 DEF BeginScenario, StartHook
<1>3. CASE NextFeature
  BY <1>3 DEF NextFeature
<1>4. CASE StatementFails
  BY <1>4 DEF StatementFails, Raise, StartHook
<1>5. CASE PrepareFails
  BY <1>5 DEF PrepareFails, AfterPrepare
<1>6. CASE BeginStep
  BY <1>6 DEF BeginStep
<1>7. CASE EndLoop
  BY <1>7 DEF EndLoop, Pass
<1>8. CASE EndScenario
  BY <1>8 DEF EndScenario, StartHook
<1>9. ASSUME NEW t \in Tables,
             \/ ProbeTable(t) \/ CreateTable(t) \/ CountRows(t)
             \/ CompareRuleHits(t) \/ DropTable(t)
      PROVE EmptyAfterHook'
  BY <1>9 DEF ProbeTable, CreateTable, CountRows, CompareRuleHits, DropTable,
              Visits, Visited, Raise, StartHook
<1>10. ASSUME NEW t \in Tables, PrepareDrop(t) PROVE EmptyAfterHook'
  BY <1>10 DEF PrepareDrop
<1>11. ASSUME NEW r \in Rows, InsertRow(r) PROVE EmptyAfterHook'
  BY <1>11 DEF InsertRow, Raise, StartHook
<1>12. CASE InsertCommit
  BY <1>12 DEF InsertCommit, Pass
<1>13. ASSUME NEW kept \in SUBSET Rows, NEW code \in {0, 1, 2}, RunBinary(kept, code)
       PROVE EmptyAfterHook'
  BY <1>13 DEF RunBinary, Pass, Raise, StartHook
<1>14. CASE CheckOutput
  BY <1>14 DEF CheckOutput, Pass, Raise, StartHook
<1>15. CASE PrepareCommit
  BY <1>15 DEF PrepareCommit, AfterPrepare
<1>16. CASE PopContext
  BY <1>16 DEF PopContext
<1> QED
  BY <1>1, <1>2, <1>3, <1>4, <1>5, <1>6, <1>7, <1>8, <1>9, <1>10, <1>11, <1>12,
     <1>13, <1>14, <1>15, <1>16 DEF Next, Progress

-----------------------------------------------------------------------------
(* What is left of a scenario *)

\* The steps left are those after the first.
LEMMA TailSteps ==
  ASSUME NEW s \in Seq(Step), s # <<>>
  PROVE  /\ Len(s) \in Nat /\ Len(s) >= 1
         /\ Len(Tail(s)) = Len(s) - 1
         /\ \A i \in 1..Len(Tail(s)) : i + 1 \in 1..Len(s) /\ Tail(s)[i] = s[i + 1]
  OBVIOUS

\* A step that reads is followed by one that ends its transaction, and so are
\* those after it.
LEMMA TailReads ==
  ASSUME NEW s \in Seq(Step), s # <<>>, ReadsReleased(s)
  PROVE  /\ ReadsReleased(Tail(s))
         /\ s[1].op \in Reading => Releases(Tail(s))
<1>1. ASSUME NEW i \in 1..Len(s), s[i].op \in Reading
      PROVE  \E j \in i..Len(Tail(s)) : Tail(s)[j].op \in Releasing
  <2>1. PICK j \in (i + 1)..Len(s) : s[j].op \in Releasing
    BY <1>1 DEF ReadsReleased
  <2>2. j - 1 \in i..Len(Tail(s)) /\ j - 1 \in 1..Len(Tail(s)) /\ (j - 1) + 1 = j
    BY TailSteps
  <2>3. Tail(s)[j - 1] = s[j]
    BY <2>2, TailSteps
  <2> QED BY <2>1, <2>2, <2>3
<1>2. ASSUME NEW i \in 1..Len(Tail(s)), Tail(s)[i].op \in Reading
      PROVE  \E j \in (i + 1)..Len(Tail(s)) : Tail(s)[j].op \in Releasing
  <2>1. i + 1 \in 1..Len(s) /\ s[i + 1].op \in Reading
    BY <1>2, TailSteps
  <2> QED BY <2>1, <1>1
<1>3. ASSUME s[1].op \in Reading PROVE Releases(Tail(s))
  <2>1. 1 \in 1..Len(s)
    BY TailSteps
  <2> QED BY <1>1, <1>3, <2>1 DEF Releases
<1> QED BY <1>2, <1>3 DEF ReadsReleased

\* A step that ends no transaction leaves the ones that do for later.
LEMMA TailReleases ==
  ASSUME NEW s \in Seq(Step), s # <<>>, Releases(s), s[1].op \notin Releasing
  PROVE  Releases(Tail(s))
<1>1. PICK j \in 1..Len(s) : s[j].op \in Releasing
  BY DEF Releases
<1>2. j - 1 \in 1..Len(Tail(s)) /\ (j - 1) + 1 = j
  BY <1>1, TailSteps
<1>3. Tail(s)[j - 1] = s[j]
  BY <1>2, TailSteps
<1> QED BY <1>1, <1>2, <1>3 DEF Releases

\* The first step has passed: it wrote to no table that a later one expects to
\* be empty, and if it looked for emptiness it found it.
LEMMA TailInserts ==
  ASSUME NEW s \in Seq(Step), s # <<>>, NEW d, NEW e, InsertsFind(s, d),
         \A t \in Tables : d[t] = {} /\ ~InsertsInto(s[1], t) => e[t] = {},
         \A t \in Tables : FindsEmpty(s[1], t) => e[t] = {}
  PROVE  InsertsFind(Tail(s), e)
<1> SUFFICES ASSUME NEW i \in 1..Len(Tail(s)), Tail(s)[i].op = "insert"
             PROVE  /\ \/ e[Tail(s)[i].table] = {}
                       \/ \E k \in 1..(i - 1) : FindsEmpty(Tail(s)[k], Tail(s)[i].table)
                    /\ \A k \in 1..(i - 1) : ~InsertsInto(Tail(s)[k], Tail(s)[i].table)
  BY DEF InsertsFind
<1>1. i + 1 \in 1..Len(s) /\ Tail(s)[i] = s[i + 1] /\ (i + 1) - 1 = i
  BY TailSteps
<1> DEFINE t == s[i + 1].table
<1>2. t \in Tables
  <2>1. s[i + 1] \in Step
    BY <1>1
  <2> QED BY <2>1 DEF Step
<1>3. /\ d[t] = {} \/ \E k \in 1..i : FindsEmpty(s[k], t)
      /\ \A k \in 1..i : ~InsertsInto(s[k], t)
  BY <1>1 DEF InsertsFind
<1>4. \A k \in 1..(i - 1) : k + 1 \in 1..i /\ Tail(s)[k] = s[k + 1]
  BY TailSteps
<1>5. e[t] = {} \/ \E k \in 1..(i - 1) : FindsEmpty(Tail(s)[k], t)
  <2>1. CASE d[t] = {}
    BY <1>2, <1>3, <2>1
  <2>2. ASSUME NEW k \in 1..i, FindsEmpty(s[k], t) PROVE <1>5!1 \/ <1>5!2
    <3>1. CASE k = 1
      BY <1>2, <2>2, <3>1
    <3>2. CASE k # 1
      <4>1. k - 1 \in 1..(i - 1) /\ (k - 1) + 1 = k
        BY <3>2
      <4>2. Tail(s)[k - 1] = s[k]
        BY <4>1, <1>4
      <4> QED BY <2>2, <4>1, <4>2
    <3> QED BY <3>1, <3>2
  <2> QED BY <1>3, <2>1, <2>2
<1>6. \A k \in 1..(i - 1) : ~InsertsInto(Tail(s)[k], t)
  BY <1>3, <1>4
<1> QED BY <1>1, <1>5, <1>6

\* Removing records disturbs no insert to come.
LEMMA KeepInserts ==
  ASSUME NEW s \in Seq(Step), NEW d, NEW e, InsertsFind(s, d),
         \A t \in Tables : d[t] = {} => e[t] = {}
  PROVE  InsertsFind(s, e)
<1>1. \A i \in 1..Len(s) : s[i].table \in Tables
  <2>1. \A i \in 1..Len(s) : s[i] \in Step
    OBVIOUS
  <2> QED BY <2>1 DEF Step
<1> QED BY <1>1 DEF InsertsFind

-----------------------------------------------------------------------------

\* No step leaves locks where LockInv says there are none: the loops that end
\* transactions release them, and a script never ends with a step that reads.
LEMMA NextLocks ==
  TypeOK /\ LoopHasStep /\ LockInv /\ [Next]_vars => LockInv'
<1> SUFFICES ASSUME TypeOK, LoopHasStep, LockInv, [Next]_vars PROVE LockInv'
  OBVIOUS
<1>a. script \in Seq(Step) /\ locks \subseteq Tables
  BY DEF TypeOK
<1>b. ReadsReleased(script) /\ NoLocksBetween /\ LocksReleased /\ LoopReleases /\ HookLocks
  BY DEF LockInv
<1>c. pc = "loop" => script # <<>>
  BY DEF LoopHasStep
<1>d. script # <<>> => op \in AllTablesOps \cup OneTableOps \cup {"insert", "run", "check"}
  BY <1>a, Script, Fields
<1>e. ReadsReleased(<<>>)
  BY DEF ReadsReleased
<1> USE DEF LockInv, NoLocksBetween, LocksReleased, LoopReleases, HookLocks,
            behave, loop, session
<1>1. CASE UNCHANGED vars
  BY <1>1, <1>b DEF vars, op
<1>2. ASSUME NEW s \in Scripts, BeginScenario(s) PROVE LockInv'
  BY <1>2, <1>b, ReadsAssumption DEF BeginScenario, StartHook
<1>3. CASE NextFeature
  BY <1>3, <1>b DEF NextFeature
<1>4. CASE StatementFails
  BY <1>4, <1>b DEF StatementFails, EndTransaction, Abort, Raise, StartHook
<1>5. CASE PrepareFails
  BY <1>5, <1>b DEF PrepareFails, AfterPrepare
<1>6. CASE BeginStep
  <2>1. op \notin Reading \cup {"insert"} => op \in AllTablesOps
    BY <1>6, <1>d DEF BeginStep, Reading
  <2>2. op \in AllTablesOps => todo' = Tables
    BY <1>6 DEF BeginStep, AllTablesOps, OneTableOps
  <2> QED BY <1>6, <1>b, <2>1, <2>2 DEF BeginStep, op
<1>7. CASE EndLoop
  <2>1. ReadsReleased(script') /\ (op \in Reading => Releases(script'))
    BY <1>7, <1>a, <1>c, <1>b, TailReads DEF EndLoop, Pass, op
  <2>2. op \in Reading \/ locks = {}
    BY <1>7, <1>a, <1>b DEF EndLoop
  <2> QED BY <1>7, <2>1, <2>2 DEF EndLoop, Pass
<1>8. CASE EndScenario
  <2>1. locks = {}
    BY <1>8, <1>b DEF EndScenario, Releases
  <2> QED BY <1>8, <1>b, <2>1 DEF EndScenario, StartHook
<1>9. ASSUME NEW t \in Tables, ProbeTable(t) \/ CreateTable(t) \/ DropTable(t)
      PROVE LockInv'
  BY <1>9, <1>b DEF ProbeTable, CreateTable, DropTable, EndTransaction, Visits, Visited,
                    Raise, StartHook
<1>10. ASSUME NEW t \in Tables, CountRows(t) \/ CompareRuleHits(t) PROVE LockInv'
  BY <1>10, <1>b DEF CountRows, CompareRuleHits, Execute, Abort, Visits, Visited,
                     Raise, StartHook, op, Reading, OneTableOps
<1>11. ASSUME NEW t \in Tables, PrepareDrop(t) PROVE LockInv'
  BY <1>11, <1>b DEF PrepareDrop
<1>12. ASSUME NEW r \in Rows, InsertRow(r) PROVE LockInv'
  BY <1>12, <1>b DEF InsertRow, Execute, EndTransaction, Raise, StartHook, op
<1>13. CASE InsertCommit
  <2>1. ReadsReleased(script')
    BY <1>13, <1>a, <1>b, <1>c, TailReads DEF InsertCommit, Pass
  <2> QED BY <1>13, <2>1 DEF InsertCommit, EndTransaction, Pass
<1>14. ASSUME script # <<>>, Pass, UNCHANGED locks, pc = "steps", op \in {"run", "check"}
       PROVE LockInv'
  <2>1. ReadsReleased(script')
    BY <1>14, <1>a, <1>b, TailReads DEF Pass
  <2>2. locks = {} \/ Releases(script')
    BY <1>14, <1>a, <1>b, TailReleases DEF Pass, op, Releasing
  <2> QED BY <1>14, <2>1, <2>2 DEF Pass
<1>15. ASSUME Raise, UNCHANGED locks PROVE LockInv'
  BY <1>15, <1>b DEF Raise, StartHook
<1>16. ASSUME NEW kept \in SUBSET Rows, NEW code \in {0, 1, 2}, RunBinary(kept, code)
       PROVE LockInv'
  BY <1>16, <1>14, <1>15 DEF RunBinary
<1>17. CASE CheckOutput
  BY <1>17, <1>14, <1>15 DEF CheckOutput
<1>18. CASE PrepareCommit
  BY <1>18, <1>b DEF PrepareCommit, AfterPrepare
<1>19. CASE PopContext
  BY <1>19, <1>e DEF PopContext
<1> QED
  BY <1>1, <1>2, <1>3, <1>4, <1>5, <1>6, <1>7, <1>8, <1>9, <1>10, <1>11, <1>12,
     <1>13, <1>16, <1>17, <1>18, <1>19 DEF Next, Progress

\* No step breaks what the inserts rest on: only an insert adds records, to a
\* table that exists and that no later insert of the scenario names.
LEMMA NextInserts ==
  TypeOK /\ LoopHasStep /\ InsertInv /\ [Next]_vars => InsertInv'
<1> SUFFICES ASSUME TypeOK, LoopHasStep, InsertInv, [Next]_vars PROVE InsertInv'
  OBVIOUS
<1>a. script \in Seq(Step) /\ stored \in [Tables -> SUBSET Rows] /\ todo \subseteq Tables
  BY DEF TypeOK
<1>b. InsertsFind(script, stored) /\ RecordsHaveTable /\ LoopFound /\ LoopInserts
  BY DEF InsertInv
<1>c. pc = "loop" => script # <<>>
  BY DEF LoopHasStep
<1>d. script # <<>> => table \in Tables
  BY <1>a, Script, Fields
<1>e. InsertsFind(<<>>, stored')
  BY DEF InsertsFind
<1> USE DEF behave, loop, session, database
\* The actions that leave the steps and the database alone and begin no loop.
<1>f. ASSUME UNCHANGED <<script, database>>, pc' # "loop" PROVE InsertInv'
  BY <1>f, <1>b DEF InsertInv, RecordsHaveTable, LoopFound, LoopInserts
\* A step that passes without having inserted anything.
<1>g. ASSUME Pass, UNCHANGED created, script # <<>>, op # "insert",
             \A t \in Tables : stored[t] = {} => stored'[t] = {},
             \A t \in Tables : FindsEmpty(script[1], t) => stored'[t] = {}
      PROVE  InsertInv'
  <2>1. InsertsFind(script', stored')
    BY <1>g, <1>a, <1>b, TailInserts DEF Pass
  <2> QED BY <1>g, <1>b, <2>1 DEF Pass, InsertInv, RecordsHaveTable, LoopFound, LoopInserts
\* A step that visits a table and leaves the database alone.
<1>h. ASSUME NEW t \in Tables, Visited(t), UNCHANGED database, op # "insert",
             FindsEmpty(script[1], t) => stored[t] = {}
      PROVE  InsertInv'
  <2>1. LoopFound'
    BY <1>h, <1>b DEF Visited, LoopFound
  <2> QED BY <1>h, <1>b, <2>1 DEF Visited, InsertInv, RecordsHaveTable, LoopInserts, op
<1>1. CASE UNCHANGED vars
  BY <1>1, <1>b DEF vars, InsertInv, RecordsHaveTable, LoopFound, LoopInserts, op, rows, table
<1>2. ASSUME NEW s \in Scripts, BeginScenario(s) PROVE InsertInv'
  <2>1. InsertsFind(s, stored)
    BY InsertsAssumption DEF InsertsOnce, InsertsFind
  <2> QED BY <1>2, <1>b, <2>1 DEF BeginScenario, StartHook, InsertInv, RecordsHaveTable,
                                  LoopFound, LoopInserts
<1>3. CASE NextFeature
  BY <1>3, <1>f DEF NextFeature
<1>4. CASE StatementFails
  BY <1>4, <1>f DEF StatementFails, Raise, StartHook
<1>5. CASE PrepareFails
  BY <1>5, <1>f DEF PrepareFails, AfterPrepare
<1>6. CASE BeginStep
  <2>1. op = "insert" => batch' = rows
    BY <1>6 DEF BeginStep
  <2>2. op \in AllTablesOps => todo' = Tables
    BY <1>6 DEF BeginStep, AllTablesOps, OneTableOps
  <2>3. op = "table_empty" => todo' = {table}
    BY <1>6 DEF BeginStep, AllTablesOps, OneTableOps
  <2>4. \A t \in Tables \ todo' : ~FindsEmpty(script[1], t)
    BY <2>2, <2>3 DEF FindsEmpty, AllTablesOps, op, table
  <2> QED BY <1>6, <1>b, <2>1, <2>4
          DEF BeginStep, InsertInv, RecordsHaveTable, LoopFound, LoopInserts, op, rows, table
<1>7. CASE EndLoop
  <2>1. \A t \in Tables : FindsEmpty(script[1], t) => stored'[t] = {}
    BY <1>7, <1>b DEF EndLoop, LoopFound
  <2> QED BY <1>7, <1>c, <1>g, <2>1 DEF EndLoop
<1>8. CASE EndScenario
  BY <1>8, <1>f DEF EndScenario, StartHook
<1>9. ASSUME NEW t \in Tables, ProbeTable(t) PROVE InsertInv'
  <2>1. t \notin created => stored[t] = {}
    BY <1>b DEF RecordsHaveTable
  <2> QED BY <1>9, <1>f, <1>h, <2>1 DEF ProbeTable, Visits, Raise, StartHook
<1>10. ASSUME NEW t \in Tables, CreateTable(t) PROVE InsertInv'
  <2>1. CASE Raise /\ UNCHANGED created
    BY <1>10, <1>f, <2>1 DEF CreateTable, Raise, StartHook
  <2>2. CASE created' = created \cup {t} /\ Visited(t)
    BY <1>10, <1>b, <2>2 DEF CreateTable, Visits, Visited, InsertInv, RecordsHaveTable,
                             LoopFound, LoopInserts, FindsEmpty, op
  <2> QED BY <1>10, <2>1, <2>2 DEF CreateTable
<1>11. ASSUME NEW t \in Tables, CountRows(t) PROVE InsertInv'
  BY <1>11, <1>f, <1>h DEF CountRows, Visits, Raise, StartHook
<1>12. ASSUME NEW t \in Tables, CompareRuleHits(t) PROVE InsertInv'
  BY <1>12, <1>f, <1>h DEF CompareRuleHits, Visits, Raise, StartHook, FindsEmpty, op
<1>13. ASSUME NEW t \in Tables, DropTable(t) PROVE InsertInv'
  <2>1. CASE Raise /\ UNCHANGED database
    BY <1>13, <1>f, <2>1 DEF Raise, StartHook
  <2>2. CASE /\ created' = created \ {t} /\ stored' = [stored EXCEPT ![t] = {}]
             /\ Visited(t)
    <3>1. \A u \in Tables : stored[u] = {} => stored'[u] = {}
      BY <1>a, <2>2
    <3>2. InsertsFind(script', stored')
      BY <1>a, <1>b, <2>2, <3>1, KeepInserts DEF Visited
    <3>3. RecordsHaveTable'
      BY <1>a, <1>b, <2>2 DEF RecordsHaveTable
    <3> QED BY <1>13, <2>2, <3>2, <3>3 DEF DropTable, Visits, Visited, InsertInv, LoopFound,
                                           LoopInserts, FindsEmpty, op
  <2> QED BY <1>13, <2>1, <2>2 DEF DropTable
<1>14. ASSUME NEW r \in Rows, InsertRow(r) PROVE InsertInv'
  <2>1. CASE Raise
    BY <1>14, <1>f, <2>1 DEF InsertRow, Raise, StartHook
  <2>2. CASE table \in created /\ UNCHANGED <<behave, todo>>
    BY <1>14, <1>b, <2>2 DEF InsertRow, InsertInv, RecordsHaveTable, LoopFound, LoopInserts,
                             table, op
  <2> QED BY <1>14, <2>1, <2>2 DEF InsertRow
<1>15. CASE InsertCommit
  <2>1. \A t \in Tables : t # table => stored'[t] = stored[t]
    BY <1>15, <1>a DEF InsertCommit
  <2>2. InsertsFind(Tail(script), stored')
    <3>1. \A t \in Tables : stored[t] = {} /\ ~InsertsInto(script[1], t) => stored'[t] = {}
      BY <1>15, <2>1 DEF InsertCommit, InsertsInto, op, table
    <3>2. \A t \in Tables : ~FindsEmpty(script[1], t)
      BY <1>15 DEF InsertCommit, FindsEmpty, op
    <3> QED BY <1>15, <1>a, <1>b, <1>c, <3>1, <3>2, TailInserts DEF InsertCommit
  <2>3. table \in created \/ stored'[table] = stored[table]
    <3>1. rows = {} \/ table \in created
      BY <1>15, <1>b DEF InsertCommit, LoopInserts
    <3> QED BY <1>15, <1>a, <1>c, <1>d, <3>1 DEF InsertCommit
  <2>4. RecordsHaveTable'
    BY <1>15, <1>b, <2>1, <2>3 DEF InsertCommit, RecordsHaveTable
  <2> QED BY <1>15, <2>2, <2>4 DEF InsertCommit, Pass, InsertInv, LoopFound, LoopInserts
<1>16. ASSUME NEW kept \in SUBSET Rows, NEW code \in {0, 1, 2}, RunBinary(kept, code)
       PROVE InsertInv'
  <2>1. \A t \in Tables : stored[t] = {} => stored'[t] = {}
    BY <1>16 DEF RunBinary
  <2>2. CASE Raise
    <3>1. InsertsFind(script', stored')
      BY <1>a, <1>b, <2>1, <2>2, KeepInserts DEF Raise
    <3> QED BY <1>16, <1>b, <2>1, <2>2, <3>1
            DEF RunBinary, Raise, StartHook, InsertInv, RecordsHaveTable, LoopFound, LoopInserts
  <2>3. CASE Pass
    <3>1. op # "insert" /\ \A t \in Tables : ~FindsEmpty(script[1], t)
      BY <1>16 DEF RunBinary, FindsEmpty, op
    <3> QED BY <1>16, <1>g, <2>1, <2>3, <3>1 DEF RunBinary
  <2> QED BY <1>16, <2>2, <2>3 DEF RunBinary
<1>17. CASE CheckOutput
  <2>1. op # "insert" /\ \A t \in Tables : ~FindsEmpty(script[1], t)
    BY <1>17 DEF CheckOutput, FindsEmpty, op
  <2> QED BY <1>17, <1>f, <1>g, <2>1 DEF CheckOutput, Raise, StartHook
<1>18. CASE PrepareCommit
  <2>1. \A t \in Tables : stored'[t] = {}
    BY <1>18 DEF PrepareCommit
  <2>2. InsertsFind(script', stored')
    BY <1>18, <1>a, <1>b, <2>1, KeepInserts DEF PrepareCommit, AfterPrepare
  <2> QED BY <1>18, <2>1, <2>2 DEF PrepareCommit, AfterPrepare, InsertInv, RecordsHaveTable,
                                   LoopFound, LoopInserts
<1>19. CASE PopContext
  BY <1>19, <1>b, <1>e DEF PopContext, InsertInv, RecordsHaveTable, LoopFound, LoopInserts
<1>20. ASSUME NEW t \in Tables, PrepareDrop(t) PROVE InsertInv'
  BY <1>20, <1>f DEF PrepareDrop
<1> QED
  BY <1>1, <1>2, <1>3, <1>4, <1>5, <1>6, <1>7, <1>8, <1>9, <1>10, <1>11, <1>12, <1>13,
     <1>14, <1>15, <1>16, <1>17, <1>18, <1>19, <1>20 DEF Next, Progress

\* The invariant holds in every reachable state.
LEMMA Invariance == Spec => []IInv
<1>1. Init => IInv
  BY InitInvariant
<1>2. IInv /\ [Next]_vars => IInv'
  BY NextTypes, NextEmptyAfterHook, NextLocks, NextInserts DEF IInv
<1> QED BY <1>1, <1>2, PTL DEF Spec

-----------------------------------------------------------------------------

\* The state of behave, of the session of the steps and of the database keeps
\* its types, for every set of scenarios.
THEOREM TypeCorrect == Spec => []TypeOK
<1>1. IInv => TypeOK
  BY DEF IInv
<1> QED BY <1>1, Invariance, PTL

\* Whatever steps the scenarios are made of and wherever they fail, the next one
\* starts from an empty database unless prepare_db raised (environment.py:88-91).
THEOREM StartEmpty == Spec => []ScenariosStartEmpty
<1>1. IInv => ScenariosStartEmpty
  BY DEF IInv, EmptyAfterHook, ScenariosStartEmpty
<1> QED BY <1>1, Invariance, PTL

\* prepare_db waits for the session of the scenario only if one of its steps
\* raised, as long as no scenario ends with a step that reads (ReadsAssumption;
\* environment.py:88-91, cleaner_storage.py:41-52).
THEOREM HangsOnlyAfterFailure == Spec => []HangNeedsFailedStep
<1>1. IInv => HangNeedsFailedStep
  BY DEF IInv, LockInv, HookLocks, HangNeedsFailedStep, Hung
<1> QED BY <1>1, Invariance, PTL

\* Wherever an INSERT step fails, none of its records is in the table, as long
\* as the scenarios insert once into tables they found empty (InsertsAssumption;
\* cleaner_storage.py:72-88).
THEOREM FailedInsertIsUndone == Spec => []FailedInsertLeavesNothing
<1>1. IInv => FailedInsertLeavesNothing
  <2> SUFFICES ASSUME IInv, script # <<>>, op = "insert" PROVE stored[table] = {}
    BY DEF FailedInsertLeavesNothing
  <2>1. script \in Seq(Step) /\ InsertsFind(script, stored)
    BY DEF IInv, TypeOK, InsertInv
  <2>2. 1 \in 1..Len(script) /\ 1..(1 - 1) = {}
    BY <2>1, TailSteps
  <2> QED BY <2>1, <2>2 DEF InsertsFind, op, table
<1> QED BY <1>1, Invariance, PTL

=============================================================================
