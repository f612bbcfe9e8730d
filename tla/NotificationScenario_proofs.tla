---------------------- MODULE NotificationScenario_proofs ----------------------
(***************************************************************************)
(* That a step of the notification scenarios commits what its table says   *)
(* or nothing, that a run reads rows of its own scenario only, and what    *)
(* the checks of events and of the latest row can tell of the last run:    *)
(* for any clusters, rules, keys, dates, runs, and numbers of scenarios    *)
(* and steps.                                                              *)
(* The rows of a scenario are its own because its background truncates two *)
(* of the tables and recreates the others when it names them (OwnRows,     *)
(* OwnKeys); what a step commits is the effect of each row it has executed *)
(* (Done); the times of runs count them (Times), so that no row of a run   *)
(* is found in place of the one the last run wrote (Wrote); and the topic  *)
(* ends with the events of the run until it is deleted (Sent).             *)
(*                                                                         *)
(* And that the types hold, with the bound of the number a count step      *)
(* reads: each step adds as many rows as its table has, or one for each    *)
(* cluster and type of events, of which those still to be inserted are     *)
(* counted beforehand (Sizes), so that the bound holds between any two     *)
(* rows of a step.                                                         *)
(***************************************************************************)
EXTENDS NotificationScenario, FiniteSetTheorems, SequenceTheorems, TLAPS

Tables == {"new_reports", "reported"} \cup DisableTables
Message == [event : Event, scenario : Nat]

\* Types, as far as the steps depend on them.
Shape ==
  /\ pc \in {"idle", "topic", "tables", "steps", "rows"}
  /\ scenario \in Nat /\ records \in [Partitions -> Seq(Message)]
  /\ DOMAIN db = Tables /\ DOMAIN work = Tables
  /\ DOMAIN context = {"named", "ignore", "count"}
  /\ DOMAIN run = {"n", "sent", "wrote", "read", "output", "topic"}
  /\ run.n \in Nat /\ run.sent \in Seq(Event)
  /\ pc = "rows" => /\ step.op \in Operations /\ step.rows \subseteq RowsOf(step.op)
                    /\ todo \subseteq step.rows

\* Reports and reported rows are the scenario's once the tables are set up.
OwnRows(w) ==
  pc \in {"steps", "rows"} =>
    \A row \in w.new_reports \cup w.reported : row.scenario = scenario

\* Toggles and acks are the scenario's when it names their database.
OwnKeys(w) ==
  pc # "idle" /\ context.named =>
    \A row \in w.toggles \cup w.acks : row.scenario = scenario

OwnRead == \A row \in run.read : row.scenario = scenario

\* Before the steps there was no run.
NoRunYet ==
  pc \in {"idle", "topic", "tables"} => run.n = 0 /\ run.read = {} /\ run.wrote = {}

\* A row is dated by a table, or has the number of its run for a date.
Dated(row) == row.at \in Nat /\ row.run \in Nat /\ (row.run = 0 \/ row.at = row.run)

\* A row of a run has a date, which is not after the last run's.
Times(w) == \A row \in w.reported :
  Dated(row) /\ (pc \in {"steps", "rows"} => row.run <= run.n)

\* What the last run has reported on has a row of its date.
Wrote(w) == \A key \in run.wrote : \E row \in w.reported :
  row.cluster = key[1] /\ row.type = key[2] /\ row.at = run.n

\* A row that was executed has had its effect.
Done == pc = "rows" => \A r \in step.rows \ todo : HasEffect(work, r)

\* After a run, the topic ends with its events and holds no others if it was
\* empty before.
EndsWith(log, events) ==
  /\ Len(events) <= Len(log)
  /\ \A i \in 1..Len(events) : log[Len(log) - Len(events) + i].event = events[i]
Sent ==
  /\ run.topic # "lost" => EndsWith(records[P0], run.sent)
  /\ run.topic = "empty" => Len(records[P0]) = Len(run.sent)

Data ==
  /\ Shape /\ NothingPending
  /\ OwnRows(db) /\ OwnRows(work) /\ OwnKeys(db) /\ OwnKeys(work)
  /\ OwnRead /\ NoRunYet
  /\ Times(db) /\ Times(work) /\ Wrote(db) /\ Wrote(work)
  /\ Done /\ Sent

IInv == Data /\ ChecksFindTheRun /\ LatestRowIsTheRuns

-----------------------------------------------------------------------------
(* Rows *)

\* A statement leaves the tables it is not about as they are.
LEMMA ExecutedTables ==
  ASSUME NEW op \in Operations, NEW w, DOMAIN w = Tables, NEW r, NEW flag
  PROVE  /\ DOMAIN Executed(op, w, r, flag) = Tables
         /\ \A table \in Tables \ {TableOf[op]} : Executed(op, w, r, flag)[table] = w[table]
<1> USE DEF Tables, DisableTables, TableOf, Executed
<1>1. CASE op = "new_reports"
  BY <1>1 DEF InsertReport
<1>2. CASE op = "reported"
  BY <1>2 DEF InsertReported
<1>3. CASE op = "insert_toggles"
  BY <1>3 DEF InsertToggle
<1>4. CASE op = "update_toggles"
  BY <1>4 DEF UpdateToggle
<1>5. CASE op = "insert_acks"
  BY <1>5 DEF InsertAck
<1>6. CASE op = "delete_acks"
  BY <1>6 DEF DeleteAck
<1> QED BY <1>1, <1>2, <1>3, <1>4, <1>5, <1>6 DEF Operations

\* The rows a statement leaves in its table were there before, or are of this
\* scenario; a reported row that a step inserts is of no run.
LEMMA ExecutedRows ==
  ASSUME NEW op \in Operations, NEW w, DOMAIN w = Tables, NEW flag, NEW r \in RowsOf(op)
  PROVE  \A row \in Executed(op, w, r, flag)[TableOf[op]] :
           \/ row \in w[TableOf[op]]
           \/ row.scenario = scenario /\ (op = "reported" => row.at \in Nat /\ row.run = 0)
<1> USE DEF Tables, DisableTables, TableOf, Executed
<1>1. CASE op = "new_reports"
  BY <1>1 DEF InsertReport
<1>2. CASE op = "reported"
  <2>1. r.at \in Nat
    BY <1>2, TimesAssumption DEF RowsOf, ReportedRows
  <2> QED BY <1>2, <2>1 DEF InsertReported
<1>3. CASE op = "insert_toggles"
  BY <1>3 DEF InsertToggle, Row
<1>4. CASE op = "update_toggles"
  BY <1>4 DEF UpdateToggle, Row, Others
<1>5. CASE op = "insert_acks"
  BY <1>5 DEF InsertAck, Row
<1>6. CASE op = "delete_acks"
  BY <1>6 DEF DeleteAck, Others
<1> QED BY <1>1, <1>2, <1>3, <1>4, <1>5, <1>6 DEF Operations

\* Nothing that was reported before is lost by a statement.
LEMMA ExecutedKeeps ==
  ASSUME NEW op \in Operations, NEW w, DOMAIN w = Tables, NEW r, NEW flag
  PROVE  w.reported \subseteq Executed(op, w, r, flag).reported
<1>1. CASE op = "reported"
  BY <1>1 DEF Tables, DisableTables, Executed, InsertReported
<1>2. CASE op # "reported"
  <2>1. "reported" \in Tables \ {TableOf[op]}
    BY <1>2 DEF Tables, DisableTables, TableOf, Operations
  <2> QED BY <2>1, ExecutedTables
<1> QED BY <1>1, <1>2

\* A statement that is allowed has its effect, and keeps that of other rows.
LEMMA ExecutedEffect ==
  ASSUME step.op \in Operations, DOMAIN work = Tables, NEW r \in RowsOf(step.op),
         Affects(step.op, work, r),
         NEW after, after = Executed(step.op, work, r, step.flag)
  PROVE  /\ HasEffect(after, r)
         /\ \A other \in RowsOf(step.op) :
              other # r /\ HasEffect(work, other) => HasEffect(after, other)
<1>1. CASE step.op = "new_reports"
  <2> DEFINE new == [cluster |-> r.cluster, rules |-> r.rules, step |-> steps,
                     scenario |-> scenario]
  <2>1. after = InsertReport(work, r)
    BY <1>1 DEF Executed
  <2>2. after.new_reports = work.new_reports \cup {new}
    BY <2>1 DEF InsertReport, Tables
  <2>3. new.cluster = r.cluster /\ new.scenario = scenario
    OBVIOUS
  <2> HIDE DEF new
  <2> QED BY <1>1, <2>2, <2>3 DEF HasEffect
<1>2. CASE step.op = "reported"
  <2> DEFINE new == [cluster |-> r.cluster, type |-> r.type, at |-> r.at,
                     step |-> steps, scenario |-> scenario, run |-> 0]
  <2>1. after = InsertReported(work, r)
    BY <1>2 DEF Executed
  <2>2. after.reported = work.reported \cup {new}
    BY <2>1 DEF InsertReported, Tables
  <2>3. new.cluster = r.cluster /\ new.scenario = scenario
    OBVIOUS
  <2> HIDE DEF new
  <2> QED BY <1>2, <2>2, <2>3 DEF HasEffect
<1>3. Row(r, step.flag).key = r /\ Row(r, step.flag).disabled = step.flag /\ Row(r, 1).key = r
  BY DEF Row
<1>4. CASE step.op = "insert_toggles"
  <2>1. after = InsertToggle(work, r, step.flag)
    BY <1>4 DEF Executed
  <2>2. after.toggles = work.toggles \cup {Row(r, step.flag)}
    BY <2>1 DEF InsertToggle, Tables, DisableTables
  <2> QED BY <1>3, <1>4, <2>2 DEF HasEffect
<1>5. CASE step.op = "update_toggles"
  <2>1. Stored(work, "toggles", r)
    BY <1>5 DEF Affects, TableOf
  <2>2. after = UpdateToggle(work, r, step.flag)
    BY <1>5 DEF Executed
  <2>3. after.toggles = Others(work, "toggles", r) \cup {Row(r, step.flag)}
    BY <2>1, <2>2 DEF UpdateToggle, Tables, DisableTables
  <2>4. \A row \in work.toggles : row.key # r => row \in Others(work, "toggles", r)
    BY DEF Others
  <2> QED BY <1>3, <1>5, <2>3, <2>4 DEF HasEffect
<1>6. CASE step.op = "insert_acks"
  <2>1. after = InsertAck(work, r)
    BY <1>6 DEF Executed
  <2>2. after.acks = work.acks \cup {Row(r, 1)}
    BY <2>1 DEF InsertAck, Tables, DisableTables
  <2> QED BY <1>3, <1>6, <2>2 DEF HasEffect, Stored
<1>7. CASE step.op = "delete_acks"
  <2>1. after = DeleteAck(work, r)
    BY <1>7 DEF Executed
  <2>2. after.acks = Others(work, "acks", r)
    BY <2>1 DEF DeleteAck, Tables, DisableTables
  <2> QED BY <1>7, <2>2 DEF HasEffect, Stored, Others
<1> QED BY <1>1, <1>2, <1>4, <1>5, <1>6, <1>7 DEF Operations

-----------------------------------------------------------------------------
(* The actions *)

\* At the start there is nothing.
LEMMA InitData == Init => Data
<1> SUFFICES ASSUME Init PROVE Data
  OBVIOUS
<1>1. records \in [Partitions -> Seq(Message)]
  BY DEF Init, NoRecords
<1>2. /\ DOMAIN db = Tables /\ db.reported = {} /\ db.new_reports = {} /\ work = db
  BY DEF Init, EmptyDb, Tables, DisableTables
<1>3. run = NoRun /\ run.n = 0 /\ run.sent = <<>> /\ run.read = {} /\ run.wrote = {}
      /\ run.topic = "lost"
  BY DEF Init, NoRun
<1>4. pc = "idle" /\ scenario = 0 /\ DOMAIN context = {"named", "ignore", "count"}
  BY DEF Init, NoContext
<1>5. DOMAIN run = {"n", "sent", "wrote", "read", "output", "topic"} /\ run.sent \in Seq(Event)
  BY <1>3 DEF NoRun
<1>6. Shape
  BY <1>1, <1>2, <1>3, <1>4, <1>5 DEF Shape
<1> QED BY <1>2, <1>3, <1>4, <1>6
        DEF Data, NothingPending, OwnRows, OwnKeys, OwnRead, NoRunYet, Times, Wrote, Done, Sent

\* A scenario that ends leaves rows with their dates.
LEMMA AbandonData ==
  ASSUME Data, Abandon, scenario' = scenario,
         records' \in [Partitions -> Seq(Message)],
         DOMAIN db' = Tables, work' = db',
         \A row \in db'.reported : Dated(row)
  PROVE  Data'
<1>1. pc' = "idle" /\ context' = NoContext /\ run' = NoRun
  BY DEF Abandon
<1>2. /\ run'.n = 0 /\ run'.sent = <<>> /\ run'.read = {} /\ run'.wrote = {} /\ run'.topic = "lost"
      /\ DOMAIN run' = {"n", "sent", "wrote", "read", "output", "topic"}
  BY <1>1 DEF NoRun
<1>3. DOMAIN context' = {"named", "ignore", "count"}
  BY <1>1 DEF NoContext
<1>4. Shape'
  BY <1>1, <1>2, <1>3 DEF Data, Shape
<1> QED BY <1>1, <1>2, <1>4
        DEF Data, NothingPending, OwnRows, OwnKeys, OwnRead, NoRunYet, Times, Wrote, Done, Sent

\* A scenario begins without a run, and with keys that are its own or that it
\* does not name.
LEMMA BeginScenarioData == Data /\ BeginScenario => Data'
<1> SUFFICES ASSUME Data, BeginScenario PROVE Data'
  OBVIOUS
<1>1. PICK two \in BOOLEAN :
        /\ context' = [NoContext EXCEPT !.named = two]
        /\ db' = IF two THEN [db EXCEPT !.toggles = {}, !.acks = {}] ELSE db
        /\ work' = db'
  BY DEF BeginScenario
<1>2. /\ pc = "idle" /\ pc' = "topic" /\ scenario' = scenario + 1
      /\ UNCHANGED <<records, run, step, todo>>
  BY DEF BeginScenario, kafka, batch
<1>3. /\ DOMAIN db' = Tables /\ db'.reported = db.reported
      /\ two => db'.toggles = {} /\ db'.acks = {}
  BY <1>1 DEF Data, Shape, Tables, DisableTables
<1>4. DOMAIN context' = {"named", "ignore", "count"} /\ context'.named = two
  BY <1>1 DEF NoContext
<1>5. run.read = {} /\ run.wrote = {} /\ run.n = 0
  BY <1>2 DEF Data, NoRunYet
<1>6. Shape'
  BY <1>1, <1>2, <1>3, <1>4 DEF Data, Shape
<1>7. OwnKeys(db)' /\ OwnKeys(work)'
  BY <1>1, <1>3, <1>4 DEF OwnKeys
<1>8. Sent'
  BY <1>2 DEF Data, Sent
<1>9. Times(db)' /\ Times(work)'
  BY <1>1, <1>2, <1>3 DEF Data, Times
<1> QED BY <1>1, <1>2, <1>5, <1>6, <1>7, <1>8, <1>9
        DEF Data, NothingPending, OwnRows, OwnRead, NoRunYet, Wrote, Done

\* Once the topic is deleted, nothing is known of it.
LEMMA LostData ==
  ASSUME Data, records' \in [Partitions -> Seq(Message)],
         run' = [run EXCEPT !.topic = "lost"],
         UNCHANGED <<scenario, context, stored, batch>>,
         \/ pc' = pc
         \/ pc = "topic" /\ pc' = "tables"
  PROVE  Data'
<1>1. /\ run'.n = run.n /\ run'.sent = run.sent /\ run'.read = run.read
      /\ run'.wrote = run.wrote /\ run'.topic = "lost"
      /\ DOMAIN run' = {"n", "sent", "wrote", "read", "output", "topic"}
  BY DEF Data, Shape
<1>2. UNCHANGED <<db, work, step, todo>>
  BY DEF stored, batch
<1>3. Shape'
  BY <1>1, <1>2 DEF Data, Shape, RowsOf, NewReports, ReportedRows
<1>4. Done'
  BY <1>2 DEF Data, Done, HasEffect, Stored
<1> QED BY <1>1, <1>2, <1>3, <1>4
        DEF Data, NothingPending, OwnRows, OwnKeys, OwnRead, NoRunYet, Times, Wrote, Sent

\* The two tables are empty when the steps begin.
LEMMA SetUpTablesData == Data /\ SetUpTables => Data'
<1> SUFFICES ASSUME Data, SetUpTables PROVE Data'
  OBVIOUS
<1>1. /\ pc = "tables" /\ pc' = "steps" /\ work' = db'
      /\ db' = [db EXCEPT !.new_reports = {}, !.reported = {}]
      /\ UNCHANGED <<records, scenario, context, step, todo, run>>
  BY DEF SetUpTables, kafka, batch
<1>2. /\ DOMAIN db' = Tables /\ db'.new_reports = {} /\ db'.reported = {}
      /\ db'.toggles = db.toggles /\ db'.acks = db.acks
  BY <1>1 DEF Data, Shape, Tables, DisableTables
<1>3. run.read = {} /\ run.wrote = {}
  BY <1>1 DEF Data, NoRunYet
<1>4. Shape'
  BY <1>1, <1>2 DEF Data, Shape
<1> QED BY <1>1, <1>2, <1>3, <1>4
        DEF Data, NothingPending, OwnRows, OwnKeys, OwnRead, NoRunYet, Times, Wrote, Done, Sent

\* A step begins with all of its rows to execute.
LEMMA BeginRowsData ==
  ASSUME Data, NEW op \in Operations, NEW rows \in SUBSET RowsOf(op), NEW flag,
         BeginRows(op, rows, flag)
  PROVE  Data'
<1>1. /\ pc = "steps" /\ pc' = "rows" /\ todo' = rows
      /\ step' = [op |-> op, rows |-> rows, flag |-> flag]
      /\ UNCHANGED <<records, scenario, context, db, work, run>>
  BY DEF BeginRows, Step, kafka, stored
<1>2. step'.op = op /\ step'.rows = rows
  BY <1>1
<1>3. Shape'
  BY <1>1, <1>2 DEF Data, Shape, RowsOf, NewReports, ReportedRows
<1>4. Done'
  BY <1>1, <1>2 DEF Done
<1> QED BY <1>1, <1>3, <1>4
        DEF Data, NothingPending, OwnRows, OwnKeys, OwnRead, NoRunYet, Times, Wrote, Sent

\* A row that is executed has its effect in the open transaction.
LEMMA ExecuteRowData == ASSUME Data, NEW r, ExecuteRow(r) PROVE Data'
<1>1. /\ pc = "rows" /\ r \in todo /\ Reaches(step.op) /\ Affects(step.op, work, r)
      /\ work' = Executed(step.op, work, r, step.flag) /\ todo' = todo \ {r}
      /\ UNCHANGED <<pc, records, scenario, context, db, step, run>>
  BY DEF ExecuteRow, kafka, behave
<1>2. /\ step.op \in Operations /\ step.rows \subseteq RowsOf(step.op) /\ todo \subseteq step.rows
      /\ r \in RowsOf(step.op) /\ DOMAIN work = Tables
  BY <1>1 DEF Data, Shape
<1>3. /\ DOMAIN work' = Tables
      /\ \A table \in Tables \ {TableOf[step.op]} : work'[table] = work[table]
  BY <1>1, <1>2, ExecutedTables
<1>4. \A row \in work'[TableOf[step.op]] :
         \/ row \in work[TableOf[step.op]]
         \/ row.scenario = scenario /\ (step.op = "reported" => row.at \in Nat /\ row.run = 0)
  BY <1>1, <1>2, ExecutedRows
<1>5. /\ TableOf[step.op] \in Tables
      /\ TableOf[step.op] = "reported" => step.op = "reported"
  BY <1>2 DEF TableOf, Operations, Tables, DisableTables
<1>6. \A table \in Tables : \A row \in work'[table] :
         \/ row \in work[table]
         \/ row.scenario = scenario /\ (table = "reported" => row.at \in Nat /\ row.run = 0)
  BY <1>3, <1>4, <1>5
<1>7. Shape'
  BY <1>1, <1>2, <1>3 DEF Data, Shape, RowsOf, NewReports, ReportedRows
<1>8. OwnRows(work)' /\ OwnKeys(work)'
  BY <1>1, <1>6 DEF Data, OwnRows, OwnKeys, Tables, DisableTables
<1>9. Times(work)'
  BY <1>1, <1>6 DEF Data, Shape, Times, Dated, Tables, DisableTables
<1>10. Wrote(work)'
  <2>1. work.reported \subseteq work'.reported
    BY <1>1, <1>2, ExecutedKeeps
  <2> QED BY <1>1, <2>1 DEF Data, Wrote
<1>11. Done'
  <2> SUFFICES ASSUME NEW q \in step.rows \ (todo \ {r}) PROVE HasEffect(work', q)
    BY <1>1 DEF Done, HasEffect, Stored
  <2>1. CASE q = r
    BY <1>1, <1>2, <2>1, ExecutedEffect
  <2>2. CASE q # r
    <3>1. HasEffect(work, q)
      BY <1>1, <2>2 DEF Data, Done
    <3> QED BY <1>1, <1>2, <2>2, <3>1, ExecutedEffect
  <2> QED BY <2>1, <2>2
<1> QED BY <1>1, <1>7, <1>8, <1>9, <1>10, <1>11
        DEF Data, NothingPending, OwnRows, OwnKeys, OwnRead, NoRunYet, Times, Wrote, Sent

\* The commit makes both views of the databases equal.
LEMMA CommitRowsData == Data /\ CommitRows => Data'
<1> SUFFICES ASSUME Data, CommitRows PROVE Data'
  OBVIOUS
<1>1. /\ pc = "rows" /\ pc' = "steps" /\ db' = work
      /\ UNCHANGED <<records, scenario, context, work, run>>
  BY DEF CommitRows, kafka
<1>2. Shape'
  BY <1>1 DEF Data, Shape
<1> QED BY <1>1, <1>2
        DEF Data, NothingPending, OwnRows, OwnKeys, OwnRead, NoRunYet, Times, Wrote, Done, Sent

\* A check, or a step that sets a flag.
LEMMA PassData ==
  ASSUME Data, pc = "steps", Pass, DOMAIN context' = DOMAIN context,
         context'.named = context.named
  PROVE  Data'
<1>1. /\ pc' = "steps"
      /\ UNCHANGED <<records, scenario, db, work, step, todo, run>>
  BY DEF Pass, kafka, stored, batch
<1>2. Shape'
  BY <1>1 DEF Data, Shape
<1> QED BY <1>1, <1>2
        DEF Data, NothingPending, OwnRows, OwnKeys, OwnRead, NoRunYet, Times, Wrote, Done, Sent

\* The messages of a run are events, and the topic ends with them.
LEMMA Messages ==
  ASSUME Data, NEW events \in Runs,
         Produce(P0, [i \in DOMAIN events |-> [event |-> events[i], scenario |-> scenario]])
  PROVE  /\ records' \in [Partitions -> Seq(Message)]
         /\ EndsWith(records'[P0], events)
         /\ records[P0] = <<>> => Len(records'[P0]) = Len(events)
<1> DEFINE messages == [i \in DOMAIN events |-> [event |-> events[i], scenario |-> scenario]]
<1>1. events \in Seq(Event) /\ scenario \in Nat /\ records[P0] \in Seq(Message)
  BY RunsAssumption, PartitionAssumption DEF Data, Shape
<1>2. DOMAIN events = 1..Len(events) /\ Len(events) \in Nat
  BY <1>1
<1>3. \A i \in DOMAIN events : messages[i] \in Message /\ messages[i].event = events[i]
  BY <1>1 DEF Message
<1>4. messages \in [1..Len(events) -> Message]
  BY <1>2, <1>3
<1>5. messages \in Seq(Message) /\ Len(messages) = Len(events)
  BY <1>2, <1>4
<1> HIDE DEF messages
<1>6. records' = [records EXCEPT ![P0] = records[P0] \o messages]
  BY DEF Produce, messages
<1>7. records' \in [Partitions -> Seq(Message)]
  <2>1. records[P0] \o messages \in Seq(Message)
    BY <1>1, <1>5
  <2>2. records \in [Partitions -> Seq(Message)]
    BY DEF Data, Shape
  <2> QED BY <1>6, <2>1, <2>2
<1>8. records'[P0] = records[P0] \o messages
  BY <1>6, PartitionAssumption DEF Data, Shape
<1>9. /\ Len(records[P0]) \in Nat
      /\ Len(records'[P0]) = Len(records[P0]) + Len(events)
      /\ \A i \in 1..Len(events) : records'[P0][Len(records[P0]) + i] = messages[i]
  <2>1. Len(records[P0]) \in Nat
    BY <1>1
  <2>2. ASSUME NEW i \in 1..Len(messages)
        PROVE  (records[P0] \o messages)[Len(records[P0]) + i] = messages[i]
    BY <1>1, <1>5, <2>1
  <2>3. Len(records[P0] \o messages) = Len(records[P0]) + Len(messages)
    BY <1>1, <1>5, ConcatProperties
  <2> QED BY <1>5, <1>8, <2>1, <2>2, <2>3
<1>10. EndsWith(records'[P0], events)
  <2>1. \A i \in 1..Len(events) :
          records'[P0][Len(records'[P0]) - Len(events) + i].event = events[i]
    <3> SUFFICES ASSUME NEW i \in 1..Len(events)
                 PROVE  records'[P0][Len(records'[P0]) - Len(events) + i].event = events[i]
      OBVIOUS
    <3>1. Len(records'[P0]) - Len(events) + i = Len(records[P0]) + i
      BY <1>2, <1>9
    <3> QED BY <1>2, <1>3, <1>9, <3>1
  <2> QED BY <1>2, <1>9, <2>1 DEF EndsWith
<1>11. records[P0] = <<>> => Len(records'[P0]) = Len(events)
  BY <1>2, <1>9
<1> QED BY <1>7, <1>10, <1>11

\* A run writes rows of its time, and only it reads keys of its scenario.
LEMMA RunServiceData ==
  ASSUME Data, NEW events \in Runs, NEW types, NEW output, RunService(events, types, output)
  PROVE  Data'
<1> DEFINE number == run.n + 1
           wrote == {row.cluster : row \in db.new_reports} \X types
           row(key) == [cluster |-> key[1], type |-> key[2], at |-> number,
                        step |-> steps, scenario |-> scenario, run |-> number]
<1>1. /\ pc = "steps" /\ work' = db'
      /\ Produce(P0, [i \in DOMAIN events |-> [event |-> events[i], scenario |-> scenario]])
      /\ db' = [db EXCEPT !.reported = @ \cup {row(key) : key \in wrote}]
  BY DEF RunService
<1>2. number \in Nat /\ run.n \in Nat /\ run.n <= number
  BY DEF Data, Shape
<1>3. \A key \in wrote :
        /\ row(key).cluster = key[1] /\ row(key).type = key[2] /\ row(key).at = number
        /\ row(key).run = number /\ row(key).scenario = scenario
  OBVIOUS
<1> DEFINE new == {row(key) : key \in wrote}
<1>4. /\ \A x \in new : x.at = number /\ x.run = number /\ x.scenario = scenario
      /\ \A key \in wrote : \E x \in new : x.cluster = key[1] /\ x.type = key[2] /\ x.at = number
  <2> HIDE DEF number, row, wrote
  <2> QED BY <1>3
<1>5. /\ DOMAIN db' = Tables /\ db'.reported = db.reported \cup new
      /\ db'.new_reports = db.new_reports /\ db'.toggles = db.toggles /\ db'.acks = db.acks
  <2> HIDE DEF new
  <2>1. db' = [db EXCEPT !.reported = db.reported \cup new]
    BY <1>1 DEF new
  <2> QED BY <2>1 DEF Data, Shape, Tables, DisableTables
<1>6. /\ records' \in [Partitions -> Seq(Message)]
      /\ EndsWith(records'[P0], events)
      /\ records[P0] = <<>> => Len(records'[P0]) = Len(events)
  BY <1>1, Messages
<1> HIDE DEF new
<1>7. \A x \in db'.reported : Dated(x) /\ x.run <= number /\ x.scenario = scenario
  <2> HIDE DEF number
  <2>1. \A x \in db.reported : Dated(x) /\ x.run <= run.n /\ x.scenario = scenario
    BY <1>1 DEF Data, Times, OwnRows
  <2>2. \A x \in db.reported : x.run <= number
    BY <1>2, <2>1 DEF Dated
  <2>3. \A x \in new : Dated(x) /\ x.run <= number /\ x.scenario = scenario
    BY <1>2, <1>4 DEF Dated
  <2> QED BY <1>5, <2>1, <2>2, <2>3
<1>8. CASE Abandon /\ UNCHANGED scenario
  BY <1>1, <1>5, <1>6, <1>7, <1>8, AbandonData
<1>9. CASE /\ run' = [n |-> number, sent |-> events, wrote |-> wrote, output |-> output,
                      read |-> IF Ignores THEN {} ELSE db.toggles \cup db.acks,
                      topic |-> IF records[P0] = <<>> THEN "empty" ELSE "used"]
           /\ UNCHANGED <<pc, scenario, context, batch>>
  <2>1. /\ run'.n = number /\ run'.sent = events /\ run'.wrote = wrote
        /\ run'.read = (IF Ignores THEN {} ELSE db.toggles \cup db.acks)
        /\ run'.topic = "empty" => records[P0] = <<>>
        /\ DOMAIN run' = {"n", "sent", "wrote", "read", "output", "topic"}
    BY <1>9
  <2>2. events \in Seq(Event)
    BY RunsAssumption
  <2> HIDE DEF wrote, number
  <2>3. Shape'
    BY <1>1, <1>2, <1>5, <1>6, <1>9, <2>1, <2>2 DEF Data, Shape, batch
  <2>4. OwnRows(db)'
    BY <1>1, <1>5, <1>7, <1>9 DEF Data, OwnRows
  <2>5. OwnKeys(db)'
    BY <1>5, <1>9 DEF Data, OwnKeys
  <2>6. OwnRead'
    BY <1>1, <1>9, <2>1 DEF Data, OwnRead, OwnKeys, Ignores
  <2>7. Times(db)'
    BY <1>7, <2>1 DEF Times
  <2>8. Wrote(db)'
    BY <1>4, <1>5, <2>1 DEF Wrote
  <2>9. Sent'
    BY <1>6, <2>1 DEF Sent
  <2> QED BY <1>1, <1>9, <2>3, <2>4, <2>5, <2>6, <2>7, <2>8, <2>9
          DEF Data, NothingPending, OwnRows, OwnKeys, NoRunYet, Times, Wrote, Done
<1> QED BY <1>8, <1>9 DEF RunService

-----------------------------------------------------------------------------
(* The checks of events and of the latest row *)

\* What is asked for are the last events of the run, in a topic that was empty or
\* if the run has sent as many.
LEMMA AskedOfRun ==
  ASSUME Data, NEW n \in Nat,
         run.topic = "empty" \/ (run.topic = "used" /\ n \in 1..Len(run.sent))
  PROVE  /\ Asked(P0, n) \in Seq(Message) /\ LastOf(run.sent, n) \in Seq(Event)
         /\ Len(Asked(P0, n)) = Len(LastOf(run.sent, n))
         /\ Len(LastOf(run.sent, n)) <= Len(run.sent)
         /\ \A i \in 1..Len(LastOf(run.sent, n)) :
              Asked(P0, n)[i].event = LastOf(run.sent, n)[i]
<1> DEFINE log == records[P0]
           sent == run.sent
           d == Len(log) - Len(sent)
<1>1. sent \in Seq(Event) /\ log \in Seq(Message) /\ Len(sent) \in Nat /\ Len(log) \in Nat
  BY PartitionAssumption DEF Data, Shape
<1>2. /\ Len(sent) <= Len(log) /\ \A i \in 1..Len(sent) : log[d + i].event = sent[i]
      /\ run.topic = "empty" => Len(log) = Len(sent)
  BY DEF Data, Sent, EndsWith
<1>3. run.topic = "empty" \/ n \in 1..Len(sent)
  OBVIOUS
<1>4. Asked(P0, n) = IF n = 0 \/ n > Len(log) THEN log ELSE SubSeq(log, Len(log) - n + 1, Len(log))
  BY DEF Asked
<1>5. LastOf(sent, n) = IF n = 0 \/ n > Len(sent) THEN sent
                                                  ELSE SubSeq(sent, Len(sent) - n + 1, Len(sent))
  BY DEF LastOf
<1> SUFFICES /\ Asked(P0, n) \in Seq(Message) /\ LastOf(sent, n) \in Seq(Event)
             /\ Len(Asked(P0, n)) = Len(LastOf(sent, n))
             /\ Len(LastOf(sent, n)) <= Len(sent)
             /\ \A i \in 1..Len(LastOf(sent, n)) : Asked(P0, n)[i].event = LastOf(sent, n)[i]
  OBVIOUS
<1> HIDE DEF log, sent
<1>6. CASE n = 0 \/ n > Len(sent)
  <2>1. Len(log) = Len(sent)
    BY <1>1, <1>2, <1>3, <1>6
  <2>2. Asked(P0, n) = log /\ LastOf(sent, n) = sent
    BY <1>4, <1>5, <1>6, <2>1
  <2>3. \A i \in 1..Len(sent) : d + i = i
    BY <1>1, <2>1
  <2> HIDE DEF d
  <2> QED BY <1>1, <1>2, <2>1, <2>2, <2>3
<1>7. CASE ~(n = 0 \/ n > Len(sent))
  <2>1. n \in 1..Len(sent) /\ n \in 1..Len(log)
    BY <1>1, <1>2, <1>7
  <2>2. /\ Asked(P0, n) = SubSeq(log, Len(log) - n + 1, Len(log))
        /\ LastOf(sent, n) = SubSeq(sent, Len(sent) - n + 1, Len(sent))
    BY <1>1, <1>4, <1>5, <1>7, <2>1
  <2>3. /\ Asked(P0, n) \in Seq(Message) /\ Len(Asked(P0, n)) = n
        /\ \A i \in 1..n : Asked(P0, n)[i] = log[Len(log) - n + i]
    BY <1>1, <2>1, <2>2
  <2>4. /\ LastOf(sent, n) \in Seq(Event) /\ Len(LastOf(sent, n)) = n
        /\ \A i \in 1..n : LastOf(sent, n)[i] = sent[Len(sent) - n + i]
    BY <1>1, <2>1, <2>2
  <2>5. \A i \in 1..n : /\ Len(sent) - n + i \in 1..Len(sent)
                         /\ d + (Len(sent) - n + i) = Len(log) - n + i
    BY <1>1, <2>1
  <2>6. \A i \in 1..n : log[Len(log) - n + i].event = sent[Len(sent) - n + i]
    <3> SUFFICES ASSUME NEW i \in 1..n
                 PROVE  log[Len(log) - n + i].event = sent[Len(sent) - n + i]
      OBVIOUS
    <3> DEFINE j == Len(sent) - n + i
    <3>1. j \in 1..Len(sent) /\ d + j = Len(log) - n + i
      BY <2>5
    <3> HIDE DEF d, j
    <3>2. log[d + j].event = sent[j]
      BY <1>2, <3>1
    <3>3. log[Len(log) - n + i].event = sent[j]
      BY <3>1, <3>2
    <3> QED BY <3>3 DEF j
  <2>7. \A i \in 1..n : Asked(P0, n)[i].event = LastOf(sent, n)[i]
    BY <2>3, <2>4, <2>6
  <2>8. \A i \in 1..Len(LastOf(sent, n)) : Asked(P0, n)[i].event = LastOf(sent, n)[i]
    BY <2>4, <2>7
  <2>9. Len(Asked(P0, n)) = Len(LastOf(sent, n)) /\ Len(LastOf(sent, n)) <= Len(sent)
    BY <1>1, <2>1, <2>3, <2>4
  <2> QED BY <2>3, <2>4, <2>8, <2>9
<1> QED BY <1>6, <1>7

\* What is found are the first of these events: all of them if there are as many.
LEMMA FoundOfRun ==
  ASSUME Data, NEW n \in Nat, NEW events \in Found(n),
         run.topic = "empty" \/ (run.topic = "used" /\ n \in 1..Len(run.sent))
  PROVE  /\ IsPrefix(events, LastOf(run.sent, n))
         /\ Len(events) = n => n <= Len(run.sent)
         /\ Len(events) = Len(Asked(P0, n)) => events = LastOf(run.sent, n)
<1> DEFINE asked == Asked(P0, n)
           last == LastOf(run.sent, n)
<1>1. /\ asked \in Seq(Message) /\ last \in Seq(Event) /\ Len(asked) = Len(last)
      /\ Len(last) <= Len(run.sent) /\ Len(last) \in Nat /\ Len(run.sent) \in Nat
      /\ \A i \in 1..Len(last) : asked[i].event = last[i]
  <2>1. /\ asked \in Seq(Message) /\ last \in Seq(Event) /\ Len(asked) = Len(last)
        /\ Len(last) <= Len(run.sent) /\ \A i \in 1..Len(last) : asked[i].event = last[i]
    BY AskedOfRun
  <2>2. run.sent \in Seq(Event)
    BY DEF Data, Shape
  <2> HIDE DEF asked, last
  <2> QED BY <2>1, <2>2
<1> SUFFICES /\ IsPrefix(events, last)
             /\ Len(events) = n => n <= Len(run.sent)
             /\ Len(events) = Len(asked) => events = last
  OBVIOUS
<1>2. PICK k \in 0..Len(asked) :
        events = [i \in DOMAIN SubSeq(asked, 1, k) |-> SubSeq(asked, 1, k)[i].event]
  BY DEF Found, GetEvents
<1> HIDE DEF asked, last
<1>3. /\ DOMAIN SubSeq(asked, 1, k) = 1..k /\ k \in Nat /\ k <= Len(last)
      /\ \A i \in 1..k : SubSeq(asked, 1, k)[i] = asked[i]
  BY <1>1
<1>4. events = [i \in 1..k |-> last[i]]
  <2>1. \A i \in 1..k : SubSeq(asked, 1, k)[i].event = last[i]
    BY <1>1, <1>3
  <2> QED BY <1>2, <1>3, <2>1
<1>5. events \in Seq(Event) /\ Len(events) = k
  <2>1. \A i \in 1..k : last[i] \in Event
    BY <1>1, <1>3
  <2> QED BY <1>3, <1>4, <2>1
<1>6. SubSeq(events, 1, k) = events /\ SubSeq(last, 1, k) = events
  <2>1. SubSeq(last, 1, k) = [i \in 1..k |-> last[i]]
    BY <1>1, <1>3
  <2>2. SubSeq(events, 1, k) = events
    BY <1>3, <1>5
  <2> QED BY <1>4, <2>1, <2>2
<1>7. IsPrefix(events, last)
  BY <1>3, <1>5, <1>6 DEF IsPrefix
<1>8. Len(events) = Len(asked) => events = last
  <2>1. SubSeq(last, 1, Len(last)) = last
    BY <1>1
  <2> QED BY <1>1, <1>5, <1>6, <2>1
<1>9. Len(events) = n => n <= Len(run.sent)
  BY <1>1, <1>3, <1>5
<1> QED BY <1>7, <1>8, <1>9

\* A check of events says of the run what is true of it.
LEMMA EventsClaim ==
  ASSUME Data, NEW n \in Nat, NEW events \in Found(n), NEW counted \in BOOLEAN,
         counted => \E again \in Found(n) : Len(again) = n,
         Claim(n, events, counted)
  PROVE  ChecksFindTheRun' /\ LatestRowIsTheRuns'
<1>1. /\ run' = run /\ claim'.kind = "events" /\ claim'.n = n /\ claim'.events = events
      /\ claim'.counted = counted /\ claim'.whole = (Len(events) = Len(Asked(P0, n)))
  BY DEF Claim, Pass
<1>2. ASSUME run.topic = "empty" \/ (run.topic = "used" /\ n \in 1..Len(run.sent))
      PROVE  /\ IsPrefix(events, LastOf(run.sent, n))
             /\ counted => n <= Len(run.sent)
             /\ Len(events) = Len(Asked(P0, n)) => events = LastOf(run.sent, n)
  BY <1>2, FoundOfRun
<1>3. ChecksFindTheRun'
  BY <1>1, <1>2 DEF ChecksFindTheRun
<1>4. LatestRowIsTheRuns'
  BY <1>1 DEF LatestRowIsTheRuns
<1> QED BY <1>3, <1>4

\* The latest row of what the run has reported is of that run, or prepared.
LEMMA LatestClaim ==
  ASSUME Data, pc = "steps", NEW c, NEW type, NEW row \in LatestReported(c, type),
         run' = run, scenario' = scenario,
         claim' = [kind |-> "latest", cluster |-> c, type |-> type, row |-> row]
  PROVE  ChecksFindTheRun' /\ LatestRowIsTheRuns'
<1>1. /\ claim'.kind = "latest" /\ claim'.row = row
      /\ claim'.cluster = c /\ claim'.type = type
  OBVIOUS
<1>2. /\ row \in db.reported /\ row.cluster = c /\ row.type = type
      /\ \A other \in db.reported :
           other.cluster = c /\ other.type = type => other.at <= row.at
  BY DEF LatestReported, RowsAbout
<1>3. row.scenario = scenario /\ Dated(row) /\ row.run <= run.n /\ run.n \in Nat
  BY <1>2 DEF Data, OwnRows, Times, Shape
<1>4. ASSUME <<c, type>> \in run.wrote PROVE row.run = run.n \/ (row.run = 0 /\ row.at >= run.n)
  <2>1. PICK other \in db.reported :
          other.cluster = c /\ other.type = type /\ other.at = run.n
    <3>1. <<c, type>>[1] = c /\ <<c, type>>[2] = type
      OBVIOUS
    <3> QED BY <1>4, <3>1 DEF Data, Wrote
  <2>2. run.n <= row.at
    BY <1>2, <2>1
  <2> QED BY <1>3, <2>2 DEF Dated
<1> QED BY <1>1, <1>2, <1>3, <1>4 DEF ChecksFindTheRun, LatestRowIsTheRuns

\* Without a claim nothing is said.
LEMMA NothingClaimed ==
  ASSUME claim' = NoClaim PROVE ChecksFindTheRun' /\ LatestRowIsTheRuns'
  BY DEF NoClaim, ChecksFindTheRun, LatestRowIsTheRuns

-----------------------------------------------------------------------------
(* The invariant *)

\* A step that leaves the run and the claim alone leaves what the claim says.
LEMMA SameClaim ==
  ASSUME ChecksFindTheRun, LatestRowIsTheRuns, run' = run, claim' = claim,
         scenario' = scenario \/ run.wrote = {}
  PROVE  ChecksFindTheRun' /\ LatestRowIsTheRuns'
<1>1. ChecksFindTheRun'
  BY DEF ChecksFindTheRun, IsPrefix, LastOf
<1>2. LatestRowIsTheRuns'
  BY DEF LatestRowIsTheRuns
<1> QED BY <1>1, <1>2

\* The invariant holds at the start.
LEMMA InitInvariant == Init => IInv
<1> SUFFICES ASSUME Init PROVE IInv
  OBVIOUS
<1>1. claim.kind = "none"
  BY DEF Init, NoClaim
<1> QED BY <1>1, InitData DEF IInv, ChecksFindTheRun, LatestRowIsTheRuns

\* A scenario that ends keeps the rows that were committed or none.
LEMMA RaiseKeeps ==
  ASSUME Data, Raise, work' = db',
         db' \in {db, [db EXCEPT !.new_reports = {}]}
  PROVE  Data'
<1>1. Abandon /\ UNCHANGED <<scenario, records>>
  BY DEF Raise, kafka
<1>2. DOMAIN db' = Tables /\ db'.reported = db.reported
  BY DEF Data, Shape, Tables
<1>3. \A row \in db'.reported : Dated(row)
  BY <1>2 DEF Data, Times
<1> QED BY <1>1, <1>2, <1>3, AbandonData DEF Data, Shape

\* What the broker and the steps do to the topic keeps its shape.
LEMMA TopicShape ==
  ASSUME Data, DeleteTopic \/ DeletionCompletes
  PROVE  records' \in [Partitions -> Seq(Message)]
<1>1. NoRecords \in [Partitions -> Seq(Message)]
  BY DEF NoRecords
<1>2. records' = records \/ records' = NoRecords
  BY DEF DeleteTopic, DeletionCompletes, kafka
<1> QED BY <1>1, <1>2 DEF Data, Shape

\* Steps that look something up or set a flag.
LEMMA PassInvariant ==
  ASSUME Data, pc = "steps", Pass, claim' = NoClaim \/ claim'.kind = "reported",
         \/ context' = context
         \/ context' = [context EXCEPT !.ignore = TRUE]
         \/ \E n : context' = [context EXCEPT !.count = n]
  PROVE  IInv'
<1>1. DOMAIN context' = DOMAIN context /\ context'.named = context.named
  BY DEF Data, Shape
<1>2. Data'
  BY <1>1, PassData
<1>3. claim'.kind \in {"none", "reported"}
  BY DEF NoClaim
<1> QED BY <1>2, <1>3 DEF IInv, ChecksFindTheRun, LatestRowIsTheRuns

\* Every step keeps the invariant.
LEMMA NextInvariant == IInv /\ [Next]_vars => IInv'
<1> SUFFICES ASSUME IInv, [Next]_vars PROVE IInv'
  OBVIOUS
<1> USE DEF IInv
<1>1. CASE BeginScenario
  <2>1. run.wrote = {}
    BY <1>1 DEF BeginScenario, Data, NoRunYet
  <2> QED BY <1>1, <2>1, BeginScenarioData, SameClaim DEF BeginScenario
<1>2. CASE EmptyTopic
  BY <1>2, TopicShape, LostData, NothingClaimed DEF EmptyTopic
<1>3. CASE SetUpTables
  BY <1>3, SetUpTablesData, SameClaim DEF SetUpTables
<1>4. CASE SetUpTablesFails
  BY <1>4, RaiseKeeps, NothingClaimed DEF SetUpTablesFails, Raise, Abandon
<1>5. CASE EndScenario
  <2>1. work' = db' /\ db' = db
    BY <1>5 DEF EndScenario, stored, Data, NothingPending
  <2> QED BY <1>5, <2>1, RaiseKeeps, NothingClaimed DEF EndScenario, Raise, Abandon
<1>6. ASSUME NEW op \in Operations, NEW rows \in SUBSET RowsOf(op), NEW flag \in FlagsOf(op),
             BeginRows(op, rows, flag)
      PROVE  IInv'
  BY <1>6, BeginRowsData, NothingClaimed DEF BeginRows
<1>7. ASSUME NEW r \in todo, ExecuteRow(r) PROVE IInv'
  BY <1>7, ExecuteRowData, SameClaim DEF ExecuteRow, behave
<1>8. CASE RowFails
  BY <1>8, RaiseKeeps, NothingClaimed DEF RowFails, Raise, Abandon
<1>9. CASE CommitRows
  BY <1>9, CommitRowsData, SameClaim DEF CommitRows
<1>10. CASE IgnoreDisabledRules
  BY <1>10, PassInvariant DEF IgnoreDisabledRules, Step
<1>11. ASSUME NEW events \in Runs, NEW types \in SUBSET EventTypes, NEW output \in Outputs,
              RunService(events, types, output)
       PROVE  IInv'
  <2>1. claim' = NoClaim
    BY <1>11 DEF RunService, Abandon
  <2> QED BY <1>11, <2>1, RunServiceData, NothingClaimed
<1>12. CASE BrokerDeletes
  <2>1. Data'
    BY <1>12, TopicShape, LostData DEF BrokerDeletes, behave
  <2>2. /\ run'.topic = "lost" /\ run'.n = run.n /\ run'.wrote = run.wrote
        /\ claim' = claim /\ scenario' = scenario
    BY <1>12 DEF BrokerDeletes, behave, Data, Shape
  <2> QED BY <2>1, <2>2 DEF ChecksFindTheRun, LatestRowIsTheRuns
<1>13. CASE SelectRows
  BY <1>13, PassInvariant DEF SelectRows, Step
<1>14. ASSUME NEW n \in 0..MaxSteps, CheckRows(n) PROVE IInv'
  BY <1>14, PassInvariant DEF CheckRows, Step
<1>15. CASE CheckReportedRows
  BY <1>15, PassInvariant DEF CheckReportedRows, Step
<1>16. ASSUME NEW c \in Clusters, NEW type \in EventTypes, CheckLatestReported(c, type)
       PROVE  IInv'
  BY <1>16, LatestClaim, PassData DEF CheckLatestReported, Step, Pass
<1>17. ASSUME NEW rules \in SUBSET Rules, CheckRulesInNewReports(rules) PROVE IInv'
  BY <1>17, PassInvariant DEF CheckRulesInNewReports, Step
<1>18. ASSUME NEW check \in OutputChecks, CheckOutput(check) PROVE IInv'
  BY <1>18, PassInvariant DEF CheckOutput, Step
<1>19. ASSUME NEW n \in 0..MaxEvents, CountEvents(n) \/ CheckFollowingEvents(n) PROVE IInv'
  <2>1. n \in Nat
    OBVIOUS
  <2>2. pc = "steps" /\ Pass /\ context' = context
    BY <1>19 DEF CountEvents, CheckFollowingEvents, Step, Claim
  <2>3. Data'
    BY <2>2, PassData
  <2>4. PICK events \in Found(n) : /\ \E again \in Found(n) : Len(again) = n
                                   /\ Claim(n, events, TRUE)
    BY <1>19 DEF CountEvents, CheckFollowingEvents
  <2> QED BY <2>1, <2>3, <2>4, EventsClaim
<1>20. CASE CheckOnlyRules \/ CheckExactEvents
  <2>1. pc = "steps" /\ Pass /\ context' = context
    BY <1>20 DEF CheckOnlyRules, CheckExactEvents, Step, Claim
  <2>2. Data'
    BY <2>1, PassData
  <2>3. PICK events \in Found(0) : Claim(0, events, FALSE)
    BY <1>20 DEF CheckOnlyRules, CheckExactEvents
  <2> QED BY <2>2, <2>3, EventsClaim
<1>21. CASE UNCHANGED vars
  <2>1. UNCHANGED <<topic, records, pc, scenario, steps, context, db, work, step, todo, run, claim>>
    BY <1>21 DEF vars, kafka, behave, stored, batch
  <2>2. Data'
    BY <2>1 DEF Data, Shape, NothingPending, OwnRows, OwnKeys, OwnRead, NoRunYet, Times, Wrote,
                Done, HasEffect, Stored, Sent, RowsOf, NewReports, ReportedRows
  <2> QED BY <2>1, <2>2, SameClaim
<1> QED BY <1>1, <1>2, <1>3, <1>4, <1>5, <1>6, <1>7, <1>8, <1>9, <1>10, <1>11, <1>12, <1>13,
           <1>14, <1>15, <1>16, <1>17, <1>18, <1>19, <1>20, <1>21 DEF Next

\* IInv is an invariant.
LEMMA Invariant == Spec => []IInv
  BY InitInvariant, NextInvariant, PTL DEF Spec

-----------------------------------------------------------------------------
(* Types and bounds *)

\* Every step adds at most MaxRows rows to a table, or one for each cluster and
\* type of events.
Bound(k) == k * (MaxRows + Cardinality(Clusters \X EventTypes))

TopicTypes ==
  /\ topic \in {"absent", "present", "doomed"}
  /\ \A i \in DOMAIN records[P0] : records[P0][i].event \in Events

Counters ==
  /\ scenario \in 0..MaxScenarios /\ steps \in 0..MaxSteps
  /\ pc \in {"idle", "topic", "tables"} => steps = 0
  /\ run.n \in 0..steps /\ Len(run.sent) <= MaxEvents

ContextType == context \in [named : BOOLEAN, ignore : BOOLEAN, count : -1..MaxReported]

StepType ==
  /\ step.op \in Operations \cup {"none"} /\ todo \subseteq step.rows
  /\ pc # "rows" => todo = {}

\* The rows that are still to be inserted count as if they were.
Sizes ==
  pc \in {"steps", "rows"} =>
    /\ IsFiniteSet(todo)
    /\ \A row \in work.new_reports : row.cluster \in Clusters
    /\ \A table \in {"new_reports", "reported"} :
         /\ IsFiniteSet(work[table])
         /\ Cardinality(work[table]) + Cardinality(todo) <= Bound(steps)

TypeInv == TopicTypes /\ Counters /\ ContextType /\ StepType /\ Sizes

\* The bound grows with the steps.
LEMMA BoundFacts ==
  /\ IsFiniteSet(Clusters \X EventTypes) /\ Cardinality(Clusters \X EventTypes) \in Nat
  /\ Bound(0) = 0 /\ MaxReported \in Nat
  /\ \A k \in Nat : /\ Bound(k) \in Nat
                     /\ Bound(k + 1) = Bound(k) + MaxRows + Cardinality(Clusters \X EventTypes)
  /\ \A k \in 0..MaxSteps : Bound(k) <= MaxReported
<1> DEFINE m == MaxRows + Cardinality(Clusters \X EventTypes)
<1>1. /\ IsFiniteSet(Clusters \X EventTypes) /\ Cardinality(Clusters \X EventTypes) \in Nat
      /\ MaxRows \in Nat /\ MaxSteps \in Nat /\ m \in Nat
  <2>1. IsFiniteSet(Clusters \X EventTypes)
    BY FiniteAssumption, FS_Product
  <2> QED BY <2>1, BoundsAssumption, FS_CardinalityType
<1>2. \A k \in Nat : k * m \in Nat /\ (k + 1) * m = k * m + m /\ 0 * m = 0
  <2> HIDE DEF m
  <2> QED BY <1>1
<1>3. \A k \in 0..MaxSteps : k * m <= MaxSteps * m
  <2> HIDE DEF m
  <2> SUFFICES ASSUME NEW k \in 0..MaxSteps PROVE k * m <= MaxSteps * m
    OBVIOUS
  <2>1. MaxSteps * m = k * m + (MaxSteps - k) * m /\ (MaxSteps - k) * m \in Nat /\ k * m \in Nat
    BY <1>1
  <2> QED BY <2>1
<1>4. MaxReported = MaxSteps * m /\ \A k : Bound(k) = k * m
  BY DEF Bound, MaxReported
<1>5. Bound(0) = 0 /\ MaxReported \in Nat
  BY <1>1, <1>2, <1>4
<1>6. ASSUME NEW k \in Nat
      PROVE  /\ Bound(k) \in Nat
             /\ Bound(k + 1) = Bound(k) + MaxRows + Cardinality(Clusters \X EventTypes)
  <2>1. k * m \in Nat /\ (k + 1) * m = k * m + m
    BY <1>2
  <2>2. Bound(k) \in Nat /\ Bound(k + 1) = Bound(k) + m
    BY <1>4, <2>1
  <2> QED BY <1>1, <2>2
<1> QED BY <1>1, <1>3, <1>4, <1>5, <1>6

\* The rows a step may insert are finitely many.
LEMMA RowsFinite == ASSUME NEW op \in Operations PROVE IsFiniteSet(RowsOf(op))
<1>1. IsFiniteSet(NewReports)
  <2> DEFINE new(p) == [cluster |-> p[1], rules |-> p[2]]
             f == [p \in Clusters \X Reports |-> new(p)]
  <2>1. IsFiniteSet(Clusters \X Reports)
    BY FiniteAssumption, FS_Product
  <2>2. f \in Surjection(Clusters \X Reports, NewReports)
    <3>1. \A p \in Clusters \X Reports : f[p] = new(p) /\ new(p) \in NewReports
      BY DEF NewReports
    <3>2. ASSUME NEW row \in NewReports PROVE \E p \in Clusters \X Reports : f[p] = row
      <4>1. PICK c \in Clusters, r \in Reports : row = [cluster |-> c, rules |-> r]
        BY DEF NewReports
      <4>2. <<c, r>> \in Clusters \X Reports /\ new(<<c, r>>) = row
        BY <4>1
      <4> QED BY <3>1, <4>2
    <3> QED BY <3>1, <3>2 DEF Surjection
  <2> QED BY <2>1, <2>2, FS_Surjection
<1>2. IsFiniteSet(ReportedRows)
  <2> DEFINE keys == (Clusters \X EventTypes) \X NotifiedAt
             row(p) == [cluster |-> p[1][1], type |-> p[1][2], at |-> p[2]]
             f == [p \in keys |-> row(p)]
  <2>1. IsFiniteSet(keys)
    <3>1. IsFiniteSet(Clusters \X EventTypes)
      BY FiniteAssumption, FS_Product
    <3> QED BY <3>1, FiniteAssumption, FS_Product
  <2>2. f \in Surjection(keys, ReportedRows)
    <3>1. \A p \in keys : f[p] = row(p) /\ row(p) \in ReportedRows
      BY DEF ReportedRows
    <3>2. ASSUME NEW r \in ReportedRows PROVE \E p \in keys : f[p] = r
      <4>1. PICK c \in Clusters, type \in EventTypes, at \in NotifiedAt :
              r = [cluster |-> c, type |-> type, at |-> at]
        BY DEF ReportedRows
      <4>2. <<<<c, type>>, at>> \in keys /\ row(<<<<c, type>>, at>>) = r
        BY <4>1
      <4> QED BY <3>1, <4>2
    <3> QED BY <3>1, <3>2 DEF Surjection
  <2> QED BY <2>1, <2>2, FS_Surjection
<1>3. RowsOf(op) \in {NewReports, ReportedRows, Toggles, Acks}
  BY DEF RowsOf, Keys, TableOf, Operations
<1> QED BY <1>1, <1>2, <1>3, FiniteAssumption

\* The statement for a row adds at most that row to the tables of the service.
LEMMA ExecutedSize ==
  ASSUME NEW op \in Operations, NEW w, DOMAIN w = Tables, NEW r, NEW flag,
         NEW table \in {"new_reports", "reported"}, IsFiniteSet(w[table])
  PROVE  /\ IsFiniteSet(Executed(op, w, r, flag)[table])
         /\ Cardinality(Executed(op, w, r, flag)[table]) <= Cardinality(w[table]) + 1
<1>1. \E x : Executed(op, w, r, flag)[table] \in {w[table], w[table] \cup {x}}
  <2>1. CASE op \in {"new_reports", "reported"} /\ table = op
    BY <2>1 DEF Executed, InsertReport, InsertReported, Tables
  <2>2. CASE ~(op \in {"new_reports", "reported"} /\ table = op)
    <3>1. table \in Tables \ {TableOf[op]}
      BY <2>2 DEF Tables, DisableTables, TableOf, Operations
    <3> QED BY <3>1, ExecutedTables
  <2> QED BY <2>1, <2>2
<1>2. Cardinality(w[table]) \in Nat
  BY FS_CardinalityType
<1> QED BY <1>1, <1>2, FS_AddElement

\* Reports in the table are about the clusters.
LEMMA ExecutedClusters ==
  ASSUME NEW op \in Operations, NEW w, DOMAIN w = Tables, NEW r \in RowsOf(op), NEW flag,
         \A row \in w.new_reports : row.cluster \in Clusters
  PROVE  \A row \in Executed(op, w, r, flag).new_reports : row.cluster \in Clusters
<1>1. CASE op = "new_reports"
  <2> DEFINE new == [cluster |-> r.cluster, rules |-> r.rules, step |-> steps,
                     scenario |-> scenario]
  <2>1. r \in NewReports
    BY <1>1 DEF RowsOf
  <2>2. new.cluster \in Clusters
    BY <2>1 DEF NewReports
  <2>3. Executed(op, w, r, flag).new_reports = w.new_reports \cup {new}
    BY <1>1 DEF Executed, InsertReport, Tables
  <2> HIDE DEF new
  <2> QED BY <2>2, <2>3
<1>2. CASE op # "new_reports"
  <2>1. "new_reports" \in Tables \ {TableOf[op]}
    BY <1>2 DEF Tables, DisableTables, TableOf, Operations
  <2> QED BY <2>1, ExecutedTables
<1> QED BY <1>1, <1>2

\* What the steps do to the topic keeps its types.
LEMMA KeptTopic ==
  ASSUME TopicTypes, DeleteTopic \/ DeletionCompletes \/ UNCHANGED kafka
  PROVE  TopicTypes'
<1>1. topic' \in {"absent", "present", "doomed"}
  BY DEF TopicTypes, DeleteTopic, DeletionCompletes, kafka
<1>2. records' = records \/ records' = NoRecords
  BY DEF DeleteTopic, DeletionCompletes, kafka
<1>3. DOMAIN NoRecords[P0] = {}
  BY PartitionAssumption DEF NoRecords
<1> QED BY <1>1, <1>2, <1>3 DEF TopicTypes

\* The events of a run are events.
LEMMA ProducedTopic ==
  ASSUME IInv, TopicTypes, NEW events \in Runs,
         Produce(P0, [i \in DOMAIN events |-> [event |-> events[i], scenario |-> scenario]])
  PROVE  TopicTypes'
<1> DEFINE messages == [i \in DOMAIN events |-> [event |-> events[i], scenario |-> scenario]]
<1>1. events \in Seq(Event) /\ records[P0] \in Seq(Message) /\ P0 \in DOMAIN records
  BY RunsAssumption, PartitionAssumption DEF IInv, Data, Shape
<1>2. DOMAIN events = 1..Len(events) /\ Len(events) \in Nat
  BY <1>1
<1>3. \A i \in DOMAIN messages : messages[i].event \in Events
  BY <1>2 DEF Events, ToSet
<1>4. DOMAIN messages = 1..Len(events) /\ Len(messages) = Len(events) /\ messages \in Seq(Message)
  <2>1. \A i \in 1..Len(events) : messages[i] \in Message
    BY <1>1, <1>2 DEF Message, IInv, Data, Shape
  <2> QED BY <1>2, <2>1
<1> HIDE DEF messages
<1>5. records' = [records EXCEPT ![P0] = records[P0] \o messages]
  BY DEF Produce, messages
<1>6. records'[P0] = records[P0] \o messages
  BY <1>1, <1>5
<1>7. \A i \in DOMAIN records'[P0] : records'[P0][i].event \in Events
  <2> SUFFICES ASSUME NEW i \in DOMAIN records'[P0] PROVE records'[P0][i].event \in Events
    OBVIOUS
  <2>1. i \in 1..(Len(records[P0]) + Len(events)) /\ Len(records[P0]) \in Nat
    BY <1>1, <1>4, <1>6
  <2>2. CASE i <= Len(records[P0])
    BY <1>1, <1>4, <1>6, <2>1, <2>2 DEF TopicTypes
  <2>3. CASE i > Len(records[P0])
    <3>1. i - Len(records[P0]) \in DOMAIN messages
      BY <1>2, <1>4, <2>1, <2>3
    <3>2. records'[P0][i] = messages[i - Len(records[P0])]
      BY <1>1, <1>4, <1>6, <2>1, <2>3
    <3> QED BY <1>3, <3>1, <3>2
  <2> QED BY <2>1, <2>2, <2>3
<1>8. topic' \in {"absent", "present", "doomed"}
  BY DEF Produce, TopicTypes
<1> QED BY <1>7, <1>8 DEF TopicTypes

\* Attributes a background sets, and the ones that steps set.
LEMMA ContextTypes ==
  /\ \A two \in BOOLEAN : [NoContext EXCEPT !.named = two]
       \in [named : BOOLEAN, ignore : BOOLEAN, count : -1..MaxReported]
  /\ NoContext \in [named : BOOLEAN, ignore : BOOLEAN, count : -1..MaxReported]
<1>1. -1 \in -1..MaxReported
  BY BoundFacts
<1>2. NoContext \in [named : BOOLEAN, ignore : BOOLEAN, count : -1..MaxReported]
  BY <1>1 DEF NoContext
<1> QED BY <1>2

\* A scenario that ends has taken no steps and has no run.
LEMMA AbandonTypes ==
  ASSUME TypeInv, Abandon, scenario' = scenario, TopicTypes' PROVE TypeInv'
<1>1. /\ pc' = "idle" /\ steps' = 0 /\ context' = NoContext /\ run' = NoRun
      /\ step' = NoStep /\ todo' = {}
  BY DEF Abandon
<1>2. run'.n = 0 /\ Len(run'.sent) = 0
  BY <1>1 DEF NoRun
<1>3. Counters'
  BY <1>1, <1>2, RunsAssumption, BoundsAssumption DEF TypeInv, Counters
<1>4. StepType'
  BY <1>1 DEF StepType, NoStep
<1>5. ContextType'
  BY <1>1, ContextTypes DEF ContextType
<1> QED BY <1>1, <1>3, <1>4, <1>5 DEF TypeInv, Sizes

\* A step that writes no rows.
LEMMA StepTypes ==
  ASSUME TypeInv, TopicTypes', ContextType', Step, pc' = pc,
         UNCHANGED <<scenario, stored, batch>>, run'.n = run.n, run'.sent = run.sent
  PROVE  TypeInv'
<1>1. /\ pc = "steps" /\ steps < MaxSteps /\ steps' = steps + 1
      /\ UNCHANGED <<scenario, work, step, todo>>
  BY DEF Step, stored, batch
<1>2. Counters
  BY DEF TypeInv
<1>3. Counters' /\ steps \in Nat
  BY <1>1, <1>2, BoundsAssumption DEF Counters
<1>4. StepType'
  BY <1>1 DEF TypeInv, StepType
<1>5. Sizes'
  <2>1. Sizes /\ StepType
    BY DEF TypeInv
  <2>2. Bound(steps) <= Bound(steps + 1)
    <3>1. /\ Bound(steps + 1) = Bound(steps) + MaxRows + Cardinality(Clusters \X EventTypes)
          /\ Bound(steps) \in Nat
      BY <1>3, BoundFacts
    <3> QED BY <3>1, BoundFacts, BoundsAssumption
  <2>3. Bound(steps) \in Nat /\ Bound(steps + 1) \in Nat
    BY <1>3, BoundFacts
  <2>4. \A table \in {"new_reports", "reported"} :
           Cardinality(work[table]) + Cardinality(todo) \in Nat
    BY <1>1, <2>1, FS_CardinalityType DEF Sizes
  <2> QED BY <1>1, <2>1, <2>2, <2>3, <2>4 DEF Sizes
<1> QED BY <1>3, <1>4, <1>5 DEF TypeInv

\* A step counts at most as many rows as the bound says.
LEMMA CountTypes ==
  ASSUME IInv, TypeInv, pc = "steps", NEW table \in {"new_reports", "reported"}
  PROVE  Cardinality(db[table]) \in 0..MaxReported
<1>1. work = db /\ todo = {}
  BY DEF IInv, Data, NothingPending, TypeInv, StepType
<1>2. IsFiniteSet(db[table]) /\ Cardinality(db[table]) + Cardinality(todo) <= Bound(steps)
  BY <1>1 DEF TypeInv, Sizes
<1>3. Cardinality(todo) = 0 /\ Cardinality(db[table]) \in Nat
  BY <1>1, <1>2, FS_EmptySet, FS_CardinalityType
<1>4. Bound(steps) \in Nat /\ Bound(steps) <= MaxReported /\ MaxReported \in Nat
  BY BoundFacts DEF TypeInv, Counters
<1> QED BY <1>2, <1>3, <1>4

\* A step begins with rows that fit below its bound.
LEMMA BeginRowsTypes ==
  ASSUME IInv, TypeInv, NEW op \in Operations, NEW rows \in SUBSET RowsOf(op), NEW flag,
         Cardinality(rows) <= MaxRows, BeginRows(op, rows, flag)
  PROVE  TypeInv'
<1>1. /\ pc = "steps" /\ pc' = "rows" /\ steps < MaxSteps /\ steps' = steps + 1
      /\ step' = [op |-> op, rows |-> rows, flag |-> flag] /\ todo' = rows
      /\ UNCHANGED <<topic, records, scenario, context, work, run>>
  BY DEF BeginRows, Step, kafka, stored
<1>2. TopicTypes /\ Counters /\ ContextType /\ StepType /\ Sizes
  BY DEF TypeInv
<1>3. Counters' /\ steps \in Nat
  BY <1>1, <1>2, BoundsAssumption DEF Counters
<1>4. TopicTypes' /\ ContextType' /\ StepType'
  BY <1>1, <1>2 DEF TopicTypes, ContextType, StepType
<1>5. IsFiniteSet(rows)
  BY RowsFinite, FS_Subset
<1>6. ASSUME NEW table \in {"new_reports", "reported"}
      PROVE  /\ IsFiniteSet(work[table])
             /\ Cardinality(work[table]) + Cardinality(rows) <= Bound(steps + 1)
  <2>1. /\ IsFiniteSet(work[table]) /\ todo = {}
        /\ Cardinality(work[table]) + Cardinality(todo) <= Bound(steps)
    BY <1>1, <1>2 DEF StepType, Sizes
  <2>2. Cardinality(work[table]) \in Nat /\ Cardinality(rows) \in Nat /\ Cardinality(todo) = 0
    BY <1>5, <2>1, FS_CardinalityType, FS_EmptySet
  <2>3. /\ Bound(steps) \in Nat /\ Cardinality(Clusters \X EventTypes) \in Nat /\ MaxRows \in Nat
        /\ Bound(steps + 1) = Bound(steps) + MaxRows + Cardinality(Clusters \X EventTypes)
    BY <1>3, BoundFacts, BoundsAssumption
  <2> QED BY <2>1, <2>2, <2>3
<1>7. Sizes'
  BY <1>1, <1>2, <1>5, <1>6 DEF Sizes
<1> QED BY <1>3, <1>4, <1>7 DEF TypeInv

\* The row that is executed was counted before.
LEMMA ExecuteRowTypes == ASSUME IInv, TypeInv, NEW r, ExecuteRow(r) PROVE TypeInv'
<1>1. /\ pc = "rows" /\ r \in todo /\ todo' = todo \ {r}
      /\ work' = Executed(step.op, work, r, step.flag)
      /\ UNCHANGED <<topic, records, pc, scenario, steps, context, step, run>>
  BY DEF ExecuteRow, kafka, behave
<1>2. TopicTypes /\ Counters /\ ContextType /\ StepType /\ Sizes
  BY DEF TypeInv
<1>3. TopicTypes' /\ Counters' /\ ContextType' /\ StepType'
  BY <1>1, <1>2 DEF TopicTypes, Counters, ContextType, StepType
<1>4. step.op \in Operations /\ r \in RowsOf(step.op) /\ DOMAIN work = Tables
  BY <1>1 DEF IInv, Data, Shape
<1>5. /\ IsFiniteSet(todo) /\ Cardinality(todo) \in Nat
      /\ IsFiniteSet(todo') /\ Cardinality(todo') = Cardinality(todo) - 1
  BY <1>1, <1>2, FS_RemoveElement, FS_CardinalityType DEF Sizes
<1>6. \A row \in work'.new_reports : row.cluster \in Clusters
  <2>1. \A row \in work.new_reports : row.cluster \in Clusters
    BY <1>1, <1>2 DEF Sizes
  <2> QED BY <1>1, <1>4, <2>1, ExecutedClusters
<1>7. ASSUME NEW table \in {"new_reports", "reported"}
      PROVE  /\ IsFiniteSet(work'[table])
             /\ Cardinality(work'[table]) + Cardinality(todo') <= Bound(steps)
  <2>1. /\ IsFiniteSet(work[table])
        /\ Cardinality(work[table]) + Cardinality(todo) <= Bound(steps)
    BY <1>1, <1>2 DEF Sizes
  <2>2. IsFiniteSet(work'[table]) /\ Cardinality(work'[table]) <= Cardinality(work[table]) + 1
    BY <1>1, <1>4, <2>1, ExecutedSize
  <2>3. /\ Cardinality(work[table]) \in Nat /\ Cardinality(work'[table]) \in Nat
        /\ Bound(steps) \in Nat
    BY <1>2, <2>1, <2>2, FS_CardinalityType, BoundFacts DEF Counters
  <2> QED BY <1>5, <2>1, <2>2, <2>3
<1>8. Sizes'
  BY <1>1, <1>5, <1>6, <1>7 DEF Sizes
<1> QED BY <1>3, <1>8 DEF TypeInv

\* A run reports on each cluster once.
LEMMA RunServiceTypes ==
  ASSUME IInv, TypeInv, NEW events \in Runs, NEW types \in SUBSET EventTypes, NEW output,
         RunService(events, types, output)
  PROVE  TypeInv'
<1> DEFINE number == run.n + 1
           wrote == {row.cluster : row \in db.new_reports} \X types
           row(key) == [cluster |-> key[1], type |-> key[2], at |-> number,
                        step |-> steps, scenario |-> scenario, run |-> number]
           new == {row(key) : key \in wrote}
<1>1. /\ pc = "steps" /\ steps < MaxSteps /\ work' = db'
      /\ Produce(P0, [i \in DOMAIN events |-> [event |-> events[i], scenario |-> scenario]])
      /\ db' = [db EXCEPT !.reported = @ \cup {row(key) : key \in wrote}]
  BY DEF RunService
<1>2. TopicTypes'
  BY <1>1, ProducedTopic DEF TypeInv
<1>3. CASE Abandon /\ UNCHANGED scenario
  BY <1>2, <1>3, AbandonTypes
<1>4. CASE /\ run' = [n |-> number, sent |-> events, wrote |-> wrote, output |-> output,
                      read |-> IF Ignores THEN {} ELSE db.toggles \cup db.acks,
                      topic |-> IF records[P0] = <<>> THEN "empty" ELSE "used"]
           /\ steps' = steps + 1
           /\ UNCHANGED <<pc, scenario, context, batch>>
  <2>1. run'.n = number /\ run'.sent = events
    BY <1>4
  <2>2. Counters /\ ContextType /\ StepType /\ Sizes
    BY DEF TypeInv
  <2>3. Counters' /\ steps \in Nat
    BY <1>1, <1>4, <2>1, <2>2, RunsAssumption, BoundsAssumption DEF Counters
  <2>4. ContextType' /\ StepType'
    BY <1>4, <2>2 DEF ContextType, StepType, batch
  <2>5. todo = {} /\ todo' = {} /\ pc' = "steps" /\ work = db
    BY <1>1, <1>4, <2>2 DEF StepType, batch, IInv, Data, NothingPending
  <2>6. wrote \subseteq Clusters \X EventTypes
    BY <1>1, <2>2, <2>5 DEF Sizes
  <2>7. IsFiniteSet(wrote) /\ Cardinality(wrote) <= Cardinality(Clusters \X EventTypes)
    <3> HIDE DEF wrote
    <3> QED BY <2>6, BoundFacts, FS_Subset
  <2>8. IsFiniteSet(new) /\ Cardinality(new) <= Cardinality(wrote)
    <3> DEFINE f == [key \in wrote |-> row(key)]
    <3> HIDE DEF wrote, row
    <3>1. f \in Surjection(wrote, new)
      BY DEF Surjection
    <3> QED BY <2>7, <3>1, FS_Surjection
  <2>9. /\ work'.reported = db.reported \cup new
        /\ work'.new_reports = db.new_reports
    <3> HIDE DEF new
    <3>1. db' = [db EXCEPT !.reported = db.reported \cup new]
      BY <1>1 DEF new
    <3> QED BY <1>1, <3>1 DEF IInv, Data, Shape, Tables, DisableTables
  <2> HIDE DEF new, wrote, number
  <2>10. ASSUME NEW table \in {"new_reports", "reported"}
         PROVE  /\ IsFiniteSet(work'[table])
                /\ Cardinality(work'[table])
                     <= Cardinality(db[table]) + Cardinality(Clusters \X EventTypes)
    <3>1. IsFiniteSet(db[table])
      BY <1>1, <2>2, <2>5 DEF Sizes
    <3>2. /\ Cardinality(db[table]) \in Nat /\ Cardinality(new) \in Nat
          /\ Cardinality(wrote) \in Nat /\ Cardinality(Clusters \X EventTypes) \in Nat
      BY <2>7, <2>8, <3>1, BoundFacts, FS_CardinalityType
    <3>3. /\ IsFiniteSet(db[table] \cup new)
          /\ Cardinality(db[table] \cup new) <= Cardinality(db[table]) + Cardinality(new)
      <4>1. /\ IsFiniteSet(db[table] \cup new)
            /\ Cardinality(db[table] \cup new)
                 = Cardinality(db[table]) + Cardinality(new) - Cardinality(db[table] \cap new)
        BY <2>8, <3>1, FS_Union
      <4>2. Cardinality(db[table] \cap new) \in Nat
        BY <3>1, FS_Intersection, FS_CardinalityType
      <4> QED BY <3>2, <4>1, <4>2
    <3>4. work'[table] \in {db[table], db[table] \cup new}
      BY <2>9
    <3>5. CASE work'[table] = db[table]
      BY <3>1, <3>2, <3>5
    <3>6. CASE work'[table] = db[table] \cup new
      <4>1. Cardinality(db[table] \cup new) \in Nat
        BY <3>3, FS_CardinalityType
      <4> QED BY <2>7, <2>8, <3>2, <3>3, <3>6, <4>1
    <3> QED BY <3>4, <3>5, <3>6
  <2>11. Sizes'
    <3>1. /\ IsFiniteSet({}) /\ Cardinality({}) = 0 /\ MaxRows \in Nat
          /\ Bound(steps + 1) = Bound(steps) + MaxRows + Cardinality(Clusters \X EventTypes)
          /\ Bound(steps) \in Nat /\ Cardinality(Clusters \X EventTypes) \in Nat
      BY <2>3, FS_EmptySet, BoundFacts, BoundsAssumption
    <3>2. \A x \in work'.new_reports : x.cluster \in Clusters
      BY <1>1, <2>2, <2>5, <2>9 DEF Sizes
    <3>3. ASSUME NEW table \in {"new_reports", "reported"}
          PROVE  Cardinality(work'[table]) + Cardinality({}) <= Bound(steps + 1)
      <4>1. /\ IsFiniteSet(db[table])
            /\ Cardinality(db[table]) + Cardinality({}) <= Bound(steps)
        BY <1>1, <2>2, <2>5 DEF Sizes
      <4>2. Cardinality(db[table]) \in Nat /\ Cardinality(work'[table]) \in Nat
        BY <2>10, <4>1, FS_CardinalityType
      <4> QED BY <2>10, <3>1, <4>1, <4>2
    <3> QED BY <1>4, <2>5, <2>10, <3>1, <3>2, <3>3 DEF Sizes
  <2> QED BY <1>2, <2>3, <2>4, <2>11 DEF TypeInv
<1> QED BY <1>3, <1>4 DEF RunService

\* At the start nothing is stored and nothing was sent.
LEMMA InitTypes == Init => TypeInv
<1> SUFFICES ASSUME Init PROVE TypeInv
  OBVIOUS
<1>1. /\ pc = "idle" /\ scenario = 0 /\ steps = 0 /\ topic = "absent" /\ context = NoContext
      /\ step = NoStep /\ todo = {} /\ run = NoRun /\ records = NoRecords
  BY DEF Init
<1>2. TopicTypes
  BY <1>1, PartitionAssumption DEF TopicTypes, NoRecords
<1>3. Counters
  BY <1>1, RunsAssumption, BoundsAssumption DEF Counters, NoRun
<1>4. ContextType
  BY <1>1, ContextTypes DEF ContextType
<1>5. StepType
  BY <1>1 DEF StepType, NoStep
<1> QED BY <1>1, <1>2, <1>3, <1>4, <1>5 DEF TypeInv, Sizes

\* The steps that set an attribute, look something up or pass over it.
LEMMA PassTypes ==
  ASSUME IInv, TypeInv, Step, Pass,
         \/ context' = context
         \/ context' = [context EXCEPT !.ignore = TRUE]
         \/ \E table \in {"new_reports", "reported"} :
              context' = [context EXCEPT !.count = Cardinality(db[table])]
  PROVE  TypeInv'
<1>1. pc = "steps" /\ ContextType
  BY DEF Step, TypeInv
<1>2. \A table \in {"new_reports", "reported"} : Cardinality(db[table]) \in -1..MaxReported
  BY <1>1, CountTypes, BoundFacts
<1>3. ContextType'
  BY <1>1, <1>2 DEF ContextType
<1>4. TopicTypes'
  BY KeptTopic DEF Pass, TypeInv
<1> QED BY <1>3, <1>4, StepTypes DEF Pass

\* Every step keeps the types and the bounds.
LEMMA NextTypes == IInv /\ TypeInv /\ [Next]_vars => TypeInv'
<1> SUFFICES ASSUME IInv, TypeInv, [Next]_vars PROVE TypeInv'
  OBVIOUS
<1>a. TopicTypes /\ Counters /\ ContextType /\ StepType /\ Sizes
  BY DEF TypeInv
<1>1. CASE BeginScenario
  <2>1. /\ pc = "idle" /\ pc' = "topic" /\ scenario < MaxScenarios /\ scenario' = scenario + 1
        /\ \E two \in BOOLEAN : context' = [NoContext EXCEPT !.named = two]
        /\ UNCHANGED <<topic, records, steps, step, todo, run>>
    BY <1>1 DEF BeginScenario, kafka, batch
  <2>2. Counters'
    BY <1>a, <2>1, BoundsAssumption DEF Counters
  <2>3. ContextType'
    BY <2>1, ContextTypes DEF ContextType
  <2> QED BY <1>a, <2>1, <2>2, <2>3 DEF TypeInv, TopicTypes, StepType, Sizes
<1>2. CASE EmptyTopic
  <2>1. run'.n = run.n /\ run'.sent = run.sent
    BY <1>2 DEF EmptyTopic, IInv, Data, Shape
  <2>2. TopicTypes'
    BY <1>2, <1>a, KeptTopic DEF EmptyTopic
  <2>3. ContextType'
    BY <1>2, <1>a DEF EmptyTopic, ContextType
  <2>4. CASE pc = "topic" /\ pc' = "tables" /\ UNCHANGED steps
    <3>1. UNCHANGED <<scenario, steps, step, todo>>
      BY <1>2, <2>4 DEF EmptyTopic, batch
    <3>2. Counters' /\ StepType'
      BY <1>a, <2>1, <2>4, <3>1 DEF Counters, StepType
    <3> QED BY <2>2, <2>3, <2>4, <3>2 DEF TypeInv, Sizes
  <2>5. CASE Step /\ UNCHANGED pc
    BY <1>2, <2>1, <2>2, <2>3, <2>5, StepTypes DEF EmptyTopic
  <2> QED BY <1>2, <2>4, <2>5 DEF EmptyTopic, Step
<1>3. CASE SetUpTables
  <2>1. /\ pc = "tables" /\ pc' = "steps" /\ work' = db'
        /\ db' = [db EXCEPT !.new_reports = {}, !.reported = {}]
        /\ UNCHANGED <<topic, records, scenario, steps, context, step, todo, run>>
    BY <1>3 DEF SetUpTables, kafka, batch
  <2>2. work'.new_reports = {} /\ work'.reported = {}
    BY <2>1 DEF IInv, Data, Shape, Tables, DisableTables
  <2>3. /\ todo' = {} /\ IsFiniteSet({}) /\ Cardinality({}) + Cardinality({}) <= Bound(steps')
    BY <1>a, <2>1, FS_EmptySet, BoundFacts DEF StepType, Counters
  <2>4. Counters'
    BY <1>a, <2>1 DEF Counters
  <2>5. Sizes'
    BY <2>1, <2>2, <2>3 DEF Sizes
  <2> QED BY <1>a, <2>1, <2>4, <2>5 DEF TypeInv, TopicTypes, ContextType, StepType
<1>4. CASE SetUpTablesFails \/ EndScenario \/ RowFails
  <2>1. Raise
    BY <1>4 DEF SetUpTablesFails, EndScenario, RowFails
  <2> QED BY <1>a, <2>1, KeptTopic, AbandonTypes DEF Raise
<1>5. ASSUME NEW op \in Operations, NEW rows \in SUBSET RowsOf(op), NEW flag \in FlagsOf(op),
             Cardinality(rows) <= MaxRows, BeginRows(op, rows, flag)
      PROVE  TypeInv'
  BY <1>5, BeginRowsTypes
<1>6. ASSUME NEW r \in todo, ExecuteRow(r) PROVE TypeInv'
  BY <1>6, ExecuteRowTypes
<1>7. CASE CommitRows
  <2>1. /\ pc = "rows" /\ pc' = "steps" /\ todo = {} /\ step' = NoStep
        /\ UNCHANGED <<topic, records, scenario, steps, context, work, todo, run>>
    BY <1>7 DEF CommitRows, kafka
  <2>2. StepType'
    BY <2>1 DEF StepType, NoStep
  <2>3. Sizes'
    BY <1>a, <2>1 DEF Sizes
  <2> QED BY <1>a, <2>1, <2>2, <2>3 DEF TypeInv, TopicTypes, Counters, ContextType
<1>8. CASE IgnoreDisabledRules
  BY <1>8, PassTypes DEF IgnoreDisabledRules
<1>9. ASSUME NEW events \in Runs, NEW types \in SUBSET EventTypes, NEW output \in Outputs,
             RunService(events, types, output)
      PROVE  TypeInv'
  BY <1>9, RunServiceTypes
<1>10. CASE BrokerDeletes
  <2>1. run'.n = run.n /\ run'.sent = run.sent
    BY <1>10 DEF BrokerDeletes, IInv, Data, Shape
  <2>2. TopicTypes'
    BY <1>10, <1>a, KeptTopic DEF BrokerDeletes
  <2>3. UNCHANGED <<pc, scenario, steps, context, work, step, todo>>
    BY <1>10 DEF BrokerDeletes, behave, stored, batch
  <2> QED BY <1>a, <2>1, <2>2, <2>3 DEF TypeInv, Counters, ContextType, StepType, Sizes
<1>11. CASE SelectRows \/ CheckReportedRows
  BY <1>11, PassTypes DEF SelectRows, CheckReportedRows
<1>12. ASSUME NEW n \in 0..MaxSteps, CheckRows(n) PROVE TypeInv'
  BY <1>12, PassTypes DEF CheckRows
<1>13. ASSUME NEW c \in Clusters, NEW type \in EventTypes, CheckLatestReported(c, type)
       PROVE  TypeInv'
  BY <1>13, PassTypes DEF CheckLatestReported
<1>14. ASSUME NEW rules \in SUBSET Rules, CheckRulesInNewReports(rules) PROVE TypeInv'
  BY <1>14, PassTypes DEF CheckRulesInNewReports
<1>15. ASSUME NEW check \in OutputChecks, CheckOutput(check) PROVE TypeInv'
  BY <1>15, PassTypes DEF CheckOutput
<1>16. ASSUME NEW n \in 0..MaxEvents, CountEvents(n) \/ CheckFollowingEvents(n) PROVE TypeInv'
  BY <1>16, PassTypes DEF CountEvents, CheckFollowingEvents, Claim
<1>17. CASE CheckOnlyRules \/ CheckExactEvents
  BY <1>17, PassTypes DEF CheckOnlyRules, CheckExactEvents, Claim
<1>18. CASE UNCHANGED vars
  <2>1. UNCHANGED <<topic, records, pc, scenario, steps, context, work, step, todo, run>>
    BY <1>18 DEF vars, kafka, behave, stored, batch
  <2> QED BY <1>a, <2>1 DEF TypeInv, TopicTypes, Counters, ContextType, StepType, Sizes
<1> QED BY <1>1, <1>2, <1>3, <1>4, <1>5, <1>6, <1>7, <1>8, <1>9, <1>10, <1>11, <1>12, <1>13,
           <1>14, <1>15, <1>16, <1>17, <1>18 DEF Next

-----------------------------------------------------------------------------
(* The theorems *)

\* Between the steps of every scenario no connection has an open transaction
\* (conn.commit() at the end of each row step of notification_database.py and
\* in aggregator_transaction).
THEOREM Pending == Spec => []NothingPending
<1>1. IInv => NothingPending
  BY DEF IInv, Data
<1> QED BY <1>1, Invariant, PTL

\* No run of the service compares its reports with a row of another scenario,
\* or is told to read a disabled rule of one (the truncations of the background
\* and the recreated aggregator database).
THEOREM OwnScenario == Spec => []RowsOfThisScenario
<1>1. IInv => RowsOfThisScenario
  BY DEF IInv, Data, OwnRows, OwnRead, RowsOfThisScenario
<1> QED BY <1>1, Invariant, PTL

\* The row that is found for a cluster and a type of events that the last run
\* reported on is that run's, or one that the scenario has prepared with a date
\* that is not before it: no row of an earlier run or scenario, whatever dates the
\* tables name (ORDER BY notified_at DESC LIMIT 1, for one event type).
THEOREM LatestRow == Spec => []LatestRowIsTheRuns
<1>1. IInv => LatestRowIsTheRuns
  BY DEF IInv
<1> QED BY <1>1, Invariant, PTL

\* However many events runs send, and whenever kcat fails unnoticed, a check of
\* events has found the last run's, in order and without a gap, if the run met an
\* empty topic or has sent as many as are asked for; and the number it counts was
\* sent (get_events_kafka, kcat -o -n).
THEOREM EventsFound == Spec => []ChecksFindTheRun
<1>1. IInv => ChecksFindTheRun
  BY DEF IInv
<1> QED BY <1>1, Invariant, PTL

\* A step that writes rows ends in a commit of what its table says, or leaves
\* the databases as they were (one commit after the loop over the rows).
THEOREM Committed == Spec => CommittedAsTold
<1> DEFINE Told == pc = "rows" /\ (pc' = "steps" \/ db' # db)
                     => todo = {} /\ \A r \in step.rows : HasEffect(db', r)
<1>1. IInv /\ [Next]_vars => [Told]_vars
  <2> SUFFICES ASSUME IInv, Next, pc = "rows", pc' = "steps" \/ db' # db
               PROVE  todo = {} /\ \A r \in step.rows : HasEffect(db', r)
    BY DEF vars
  <2>1. CommitRows
    <3> USE DEF Step, stored, behave
    <3>1. ~BeginScenario /\ ~EmptyTopic /\ ~SetUpTables /\ ~SetUpTablesFails /\ ~EndScenario
      BY DEF BeginScenario, EmptyTopic, SetUpTables, SetUpTablesFails, EndScenario
    <3>2. ~(\E op \in Operations : \E rows \in SUBSET RowsOf(op), flag \in FlagsOf(op) :
              rows # {} /\ Cardinality(rows) <= MaxRows /\ BeginRows(op, rows, flag))
      BY DEF BeginRows
    <3>3. ~(\E r \in todo : ExecuteRow(r)) /\ ~RowFails /\ ~BrokerDeletes
      BY DEF ExecuteRow, RowFails, Raise, Abandon, BrokerDeletes
    <3>4. ~IgnoreDisabledRules /\ ~SelectRows /\ ~CheckReportedRows
      BY DEF IgnoreDisabledRules, SelectRows, CheckReportedRows
    <3>5. ~(\E events \in Runs, types \in SUBSET EventTypes, output \in Outputs :
              RunService(events, types, output))
      BY DEF RunService
    <3>6. /\ ~(\E n \in 0..MaxSteps : CheckRows(n))
          /\ ~(\E c \in Clusters, type \in EventTypes : CheckLatestReported(c, type))
          /\ ~(\E rules \in SUBSET Rules : CheckRulesInNewReports(rules))
          /\ ~(\E check \in OutputChecks : CheckOutput(check))
      BY DEF CheckRows, CheckLatestReported, CheckRulesInNewReports, CheckOutput
    <3>7. /\ ~(\E n \in 0..MaxEvents : CountEvents(n) \/ CheckFollowingEvents(n))
          /\ ~CheckOnlyRules /\ ~CheckExactEvents
      BY DEF CountEvents, CheckFollowingEvents, CheckOnlyRules, CheckExactEvents
    <3> QED BY <3>1, <3>2, <3>3, <3>4, <3>5, <3>6, <3>7 DEF Next
  <2>2. todo = {} /\ db' = work
    BY <2>1 DEF CommitRows
  <2> QED BY <2>2 DEF IInv, Data, Done, HasEffect, Stored
<1> QED BY <1>1, Invariant, PTL DEF Spec, CommittedAsTold

\* The topic, the databases and the context keep their types and the bounds
\* that the steps of a scenario imply, for any numbers of scenarios, steps and
\* rows (notification_database.py, disabled_rules.py, notification_service.py).
THEOREM TypeCorrect == Spec => []TypeOK
<1>1. IInv /\ TypeInv => TypeOK
  <2> SUFFICES ASSUME IInv, TypeInv PROVE TypeOK
    OBVIOUS
  <2>1. TopicTypes /\ Counters /\ ContextType /\ StepType /\ Shape
    BY DEF IInv, Data, TypeInv
  <2>2. DOMAIN db = {"new_reports", "reported"} \cup DisableTables /\ DOMAIN work = DOMAIN db
    BY <2>1 DEF Shape, Tables
  <2>3. run.n \in 0..MaxSteps
    BY <2>1, BoundsAssumption DEF Counters
  <2> QED BY <2>1, <2>2, <2>3 DEF TypeOK, TopicTypes, Counters, ContextType, StepType, Shape
<1> QED BY <1>1, Invariant, InitTypes, NextTypes, PTL DEF Spec
================================================================================
