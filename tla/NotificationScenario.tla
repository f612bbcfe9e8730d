------------------------ MODULE NotificationScenario ------------------------
(***************************************************************************)
(* The scenarios of CCX Notification Service: the rows its steps write     *)
(* into the notification database (notification_database.py) and, over a   *)
(* connection of its own, into the aggregator database (disabled_rules.py, *)
(* aggregator_storage.py); the runs of the service (notification_service.py*)
(* waits for each of them); and the checks of the events found in Kafka.   *)
(*                                                                         *)
(* A scenario is its background, then any steps. The steps that write rows *)
(* execute one statement per row and commit once. The service is the       *)
(* program under test: a run may send any events and report any rows, and  *)
(* it is for the checks to notice.                                         *)
(***************************************************************************)
EXTENDS KafkaTopic, Integers, SequencesExt

CONSTANTS
  Clusters, Rules,        \* what reports are about; rules stand for total risks
  Reports,                \* the sets of rules that prepared reports hit
  EventTypes,             \* whom a reported row is for: Kafka, Service Log
  NotifiedAt,             \* the times prepared reported rows may have
  Runs,                   \* what a run may send: sequences of events
  Toggles, Acks,          \* keys of cluster_rule_toggle and of rule_disable
  P0,                     \* the only partition of the notification topic
  MaxScenarios, MaxSteps, \* bounds: scenarios, and steps after the background
  MaxRows,                \* bound: rows a step inserts
  MaxEvents,              \* bound: events a run sends
  Outputs                 \* the outputs of a run, as sets of phrases

VARIABLES
  pc,          \* what behave is doing
  scenario,    \* the number of the scenario
  steps,       \* the steps it has taken
  context,     \* attributes of the behave context
  db,          \* both databases, committed
  work,        \* both databases, with the open transaction
  step,        \* the step that is executing statements: operation and rows
  todo,        \* the rows it has left
  run,         \* the last run of the service in this scenario
  claim        \* what the check that just passed says

behave == <<pc, scenario, steps>>
stored == <<db, work>>
batch  == <<step, todo>>
vars   == <<kafka, behave, context, stored, batch, run, claim>>

Event == [cluster : Clusters, rules : SUBSET Rules]
ASSUME RunsAssumption ==
  /\ <<>> \in Runs /\ Runs \subseteq Seq(Event)
  /\ MaxEvents \in Nat /\ \A events \in Runs : Len(events) <= MaxEvents
\* Tables of feature files are finite, and so is a behave run.
ASSUME FiniteAssumption ==
  /\ IsFiniteSet(Clusters) /\ IsFiniteSet(Reports) /\ IsFiniteSet(Toggles)
  /\ IsFiniteSet(Acks) /\ IsFiniteSet(EventTypes) /\ IsFiniteSet(NotifiedAt)
ASSUME TimesAssumption == NotifiedAt \subseteq Nat
ASSUME BoundsAssumption == MaxScenarios \in Nat /\ MaxSteps \in Nat /\ MaxRows \in Nat
ASSUME PartitionAssumption == P0 \in Partitions

Events == UNION {ToSet(events) : events \in Runs}

DisableTables == {"toggles", "acks"}
Keys == [toggles |-> Toggles, acks |-> Acks]
Operations == {"new_reports", "reported", "insert_toggles", "update_toggles",
               "insert_acks", "delete_acks"}
TableOf == [new_reports |-> "new_reports", reported |-> "reported",
            insert_toggles |-> "toggles", update_toggles |-> "toggles",
            insert_acks |-> "acks", delete_acks |-> "acks"]

NoContext == [named |-> FALSE, ignore |-> FALSE, count |-> -1]
NoStep    == [op |-> "none", rows |-> {}, flag |-> 0]
\* `sent`, `wrote` and `output` are what the run did, `read` the disabled rules
\* it was told to read, `topic` whether the topic was empty or held messages
\* ("used") when it started, or has been deleted since ("lost").
NoRun == [n |-> 0, sent |-> <<>>, wrote |-> {}, read |-> {}, output |-> {},
          topic |-> "lost"]
NoClaim == [kind |-> "none"]

\* Every step inserts at most MaxRows rows, every run one per cluster and type.
MaxReported == MaxSteps * (MaxRows + Cardinality(Clusters \X EventTypes))

\* The type of every variable, and the bounds that the steps of a scenario keep.
TypeOK ==
  /\ topic \in {"absent", "present", "doomed"}
  /\ \A i \in DOMAIN records[P0] : records[P0][i].event \in Events
  /\ pc \in {"idle", "topic", "tables", "steps", "rows"}
  /\ scenario \in 0..MaxScenarios /\ steps \in 0..MaxSteps
  /\ context \in [named : BOOLEAN, ignore : BOOLEAN, count : -1..MaxReported]
  /\ DOMAIN db = {"new_reports", "reported"} \cup DisableTables
  /\ DOMAIN work = DOMAIN db
  /\ step.op \in Operations \cup {"none"} /\ todo \subseteq step.rows
  /\ run.n \in 0..MaxSteps /\ Len(run.sent) <= MaxEvents

EmptyDb == [table \in {"new_reports", "reported"} \cup DisableTables |-> {}]

Init ==
  /\ topic = "absent" /\ records = NoRecords
  /\ pc = "idle" /\ scenario = 0 /\ steps = 0
  /\ context = NoContext
  /\ db = EmptyDb /\ work = EmptyDb
  /\ step = NoStep /\ todo = {}
  /\ run = NoRun /\ claim = NoClaim

-----------------------------------------------------------------------------
(* The scenario *)

\* Mutant: the rows of the failed step are kept.
AbandonKeepingRows ==
  /\ pc' = "idle" /\ steps' = 0
  /\ context' = NoContext /\ run' = NoRun /\ claim' = NoClaim
  /\ step' = NoStep /\ UNCHANGED todo

\* A step raises: the rest of the scenario is skipped and its layer of the
\* context goes.
Abandon ==
  /\ pc' = "idle" /\ steps' = 0
  /\ context' = NoContext /\ run' = NoRun /\ claim' = NoClaim
  /\ step' = NoStep /\ todo' = {}

Raise == Abandon /\ UNCHANGED <<scenario, kafka>>

\* A background that names the aggregator database recreates it before
\* connecting to it. An error on the way raises.
BeginScenario ==
  /\ pc = "idle" /\ scenario < MaxScenarios
  /\ scenario' = scenario + 1 /\ pc' = "topic"
  /\ \E two \in BOOLEAN :
       /\ context' = [NoContext EXCEPT !.named = two]
       /\ db' = IF two THEN [db EXCEPT !.toggles = {}, !.acks = {}] ELSE db
       /\ work' = db'
  /\ UNCHANGED <<kafka, steps, batch, run, claim>>

\* "Kafka topic ... is empty": in the background, and again between two runs.
EmptyTopic ==
  /\ \/ pc = "topic" /\ pc' = "tables" /\ UNCHANGED steps
     \/ pc = "steps" /\ steps < MaxSteps /\ steps' = steps + 1 /\ UNCHANGED pc
  /\ DeleteTopic
  /\ run' = [run EXCEPT !.topic = "lost"] /\ claim' = NoClaim
  /\ UNCHANGED <<scenario, context, stored, batch>>

\* Mutant: only the first of the tables is truncated.
SetUpNewReportsOnly ==
  /\ pc = "tables"
  /\ db' = [db EXCEPT !.new_reports = {}] /\ work' = db'
  /\ pc' = "steps"
  /\ UNCHANGED <<kafka, scenario, steps, context, batch, run, claim>>

\* "CCX Notification database is set up" truncates table after table and
\* commits each of them.
SetUpTables ==
  /\ pc = "tables"
  /\ db' = [db EXCEPT !.new_reports = {}, !.reported = {}] /\ work' = db'
  /\ pc' = "steps"
  /\ UNCHANGED <<kafka, scenario, steps, context, batch, run, claim>>

\* The second table cannot be truncated: the first one stays empty.
SetUpTablesFails ==
  /\ pc = "tables"
  /\ db' \in {db, [db EXCEPT !.new_reports = {}]} /\ work' = db'
  /\ Raise

\* The last step, or a check that does not pass.
EndScenario == pc = "steps" /\ Raise /\ UNCHANGED stored

Step == pc = "steps" /\ steps < MaxSteps /\ steps' = steps + 1

\* A check or a flag step that passes.
Pass == pc' = pc /\ UNCHANGED <<kafka, scenario, stored, batch, run>>

-----------------------------------------------------------------------------
(* Rows: notification_database.py and disabled_rules.py *)

\* The rows of a step, with what the generators put into reports: a rule per
\* listed total risk. `at` is the column notified_at: the k-th run of a scenario
\* writes at time k, and a table names any date, before the runs, between them
\* (ten seconds before its step) or in 2990.
NewReports   == [cluster : Clusters, rules : Reports]
ReportedRows == [cluster : Clusters, type : EventTypes, at : NotifiedAt]
RowsOf(op) == CASE op = "new_reports" -> NewReports
                [] op = "reported" -> ReportedRows
                [] OTHER -> Keys[TableOf[op]]

\* The column "disabled" of a toggle.
FlagsOf(op) == IF TableOf[op] = "toggles" THEN {0, 1} ELSE {1}

\* aggregator_transaction takes the aggregator connection, or else the only
\* connection there is, where the two tables are not found.
Reaches(op) == TableOf[op] \in DisableTables => context.named

Stored(w, table, key) == \E row \in w[table] : row.key = key

\* Mutant: rowcount is not checked.
AffectsAnyRow(op, w, r) == TRUE

\* An INSERT raises when the key is there already; check_rule_was_affected
\* asserts that an UPDATE or a DELETE met a row.
Affects(op, w, r) ==
  /\ op \in {"insert_toggles", "insert_acks"} => ~Stored(w, TableOf[op], r)
  /\ op \in {"update_toggles", "delete_acks"} => Stored(w, TableOf[op], r)

Row(r, flag) == [key |-> r, disabled |-> flag, scenario |-> scenario]

Others(w, table, r) == {row \in w[table] : row.key # r}

\* What the statement for row r makes of the databases.
InsertReport(w, r) ==
  [w EXCEPT !.new_reports = @ \cup {[cluster |-> r.cluster, rules |-> r.rules,
                                      step |-> steps, scenario |-> scenario]}]
InsertReported(w, r) ==
  [w EXCEPT !.reported = @ \cup {[cluster |-> r.cluster, type |-> r.type, at |-> r.at,
                                   step |-> steps, scenario |-> scenario, run |-> 0]}]
InsertToggle(w, r, flag) == [w EXCEPT !.toggles = @ \cup {Row(r, flag)}]
UpdateToggle(w, r, flag) ==
  IF Stored(w, "toggles", r)
    THEN [w EXCEPT !.toggles = Others(w, "toggles", r) \cup {Row(r, flag)}] ELSE w
InsertAck(w, r) == [w EXCEPT !.acks = @ \cup {Row(r, 1)}]
DeleteAck(w, r) == [w EXCEPT !.acks = Others(w, "acks", r)]

Executed(op, w, r, flag) ==
  CASE op = "new_reports"    -> InsertReport(w, r)
    [] op = "reported"       -> InsertReported(w, r)
    [] op = "insert_toggles" -> InsertToggle(w, r, flag)
    [] op = "update_toggles" -> UpdateToggle(w, r, flag)
    [] op = "insert_acks"    -> InsertAck(w, r)
    [] op = "delete_acks"    -> DeleteAck(w, r)

BeginRows(op, rows, flag) ==
  /\ Step /\ pc' = "rows"
  /\ step' = [op |-> op, rows |-> rows, flag |-> flag] /\ todo' = rows
  /\ claim' = NoClaim
  /\ UNCHANGED <<kafka, scenario, context, stored, run>>

ExecuteRow(r) ==
  /\ pc = "rows" /\ r \in todo
  /\ Reaches(step.op) /\ Affects(step.op, work, r)
  /\ work' = Executed(step.op, work, r, step.flag)
  /\ todo' = todo \ {r}
  /\ UNCHANGED <<kafka, behave, context, db, step, run, claim>>

\* The statement raises, or the row it should affect is not there.
RowFails ==
  /\ pc = "rows" /\ todo # {}
  /\ work' = db /\ UNCHANGED db
  /\ Raise

\* Mutant: the step returns without a commit.
ReturnWithoutCommit ==
  /\ pc = "rows" /\ todo = {}
  /\ pc' = "steps" /\ step' = NoStep
  /\ UNCHANGED <<kafka, scenario, steps, context, stored, todo, run, claim>>

CommitRows ==
  /\ pc = "rows" /\ todo = {}
  /\ db' = work /\ pc' = "steps" /\ step' = NoStep
  /\ UNCHANGED <<kafka, scenario, steps, context, work, todo, run, claim>>

-----------------------------------------------------------------------------
(* The service *)

IgnoreDisabledRules ==
  /\ Step /\ context' = [context EXCEPT !.ignore = TRUE] /\ claim' = NoClaim /\ Pass

\* The flag is added when it was asked for or no aggregator database is named.
Ignores == context.ignore \/ ~context.named

\* A run sends events for clusters of new reports, reports on each of those
\* clusters for some types of events or stops before it does, and exits with a
\* code the scenario accepts or with another one.
RunService(events, types, output) ==
  LET clusters == {row.cluster : row \in db.new_reports}
      number == run.n + 1
      wrote == clusters \X types
      row(key) == [cluster |-> key[1], type |-> key[2], at |-> number,
                   step |-> steps, scenario |-> scenario, run |-> number]
  IN /\ pc = "steps" /\ steps < MaxSteps
     /\ \A e \in ToSet(events) : e.cluster \in clusters
     /\ Produce(P0, [i \in DOMAIN events |->
                       [event |-> events[i], scenario |-> scenario]])
     /\ db' = [db EXCEPT !.reported = @ \cup {row(key) : key \in wrote}]
     /\ work' = db'
     /\ \/ /\ run' = [n |-> number, sent |-> events, wrote |-> wrote, output |-> output,
                       read |-> IF Ignores THEN {} ELSE db.toggles \cup db.acks,
                       topic |-> IF records[P0] = <<>> THEN "empty" ELSE "used"]
           /\ steps' = steps + 1 /\ claim' = NoClaim
           /\ UNCHANGED <<pc, scenario, context, batch>>
        \/ Abandon /\ UNCHANGED scenario

BrokerDeletes ==
  /\ DeletionCompletes
  /\ run' = [run EXCEPT !.topic = "lost"]
  /\ UNCHANGED <<behave, context, stored, batch, claim>>

-----------------------------------------------------------------------------
(* Checks of the databases and of the output *)

\* "I select all rows from table": the count stays in the context.
SelectRows ==
  /\ Step
  /\ \E table \in {"new_reports", "reported"} :
       context' = [context EXCEPT !.count = Cardinality(db[table])]
  /\ claim' = NoClaim /\ Pass

CheckRows(n) ==
  /\ Step /\ context.count = n /\ claim' = NoClaim /\ Pass /\ UNCHANGED context

CheckReportedRows ==
  /\ Step
  /\ context' = [context EXCEPT !.count = Cardinality(db.reported)]
  /\ claim' = [kind |-> "reported", count |-> context'.count] /\ Pass

\* The rows of a cluster that are for the type the table asks for.
RowsAbout(c, type) == {row \in db.reported : row.cluster = c /\ row.type = type}

\* Mutant: ORDER BY notified_at, without DESC.
EarliestReported(c, type) ==
  {row \in RowsAbout(c, type) : \A other \in RowsAbout(c, type) : other.at >= row.at}

\* ORDER BY notified_at DESC LIMIT 1: any of the rows with the latest time.
LatestReported(c, type) ==
  {row \in RowsAbout(c, type) : \A other \in RowsAbout(c, type) : other.at <= row.at}

\* Its state and its report are compared with the table's.
CheckLatestReported(c, type) ==
  /\ Step
  /\ \E row \in LatestReported(c, type) :
       claim' = [kind |-> "latest", cluster |-> c, type |-> type, row |-> row]
  /\ Pass /\ UNCHANGED context

\* Every report in new_reports has the listed rules, and there is a report.
CheckRulesInNewReports(rules) ==
  /\ Step /\ db.new_reports # {}
  /\ \A row \in db.new_reports : rules \subseteq row.rules
  /\ claim' = NoClaim /\ Pass /\ UNCHANGED context

\* The steps that look for phrases in the output of the last run. The phrases
\* of one message are looked for one by one, in the whole output.
OutputChecks ==
  {[has |-> {"print", table}, lacks |-> {}] : table \in {"new_reports", "reported"}}
  \cup {[has |-> {"clean", "finished", table}, lacks |-> {}] : table \in {"new_reports", "reported"}}
  \cup {[has |-> {"old reports"}, lacks |-> {}], [has |-> {}, lacks |-> {"old reports"}]}

CheckOutput(check) ==
  /\ Step /\ run.n > 0
  /\ check.has \subseteq run.output /\ check.lacks \cap run.output = {}
  /\ claim' = NoClaim /\ Pass /\ UNCHANGED context

-----------------------------------------------------------------------------
(* Checks of the events in Kafka *)

\* Mutant: kcat starts at the beginning of the topic.
FoundFirst(n) ==
  LET length == Len(records[P0])
      upTo == IF n = 0 \/ n > length THEN length ELSE n
  IN  {[i \in 1..k |-> records[P0][i].event] : k \in 0..upTo}

Found(n) == {[i \in DOMAIN found |-> found[i].event] : found \in GetEvents(P0, n)}

\* The check passes for `events`, found when the last n were asked for (all if
\* n = 0). `whole` is history: whether kcat has not failed.
Claim(n, events, counted) ==
  /\ claim' = [kind |-> "events", n |-> n, events |-> events, counted |-> counted,
                whole |-> Len(events) = Len(Asked(P0, n))]
  /\ Pass /\ UNCHANGED context

\* "it should have sent n notification events to Kafka"
CountEvents(n) ==
  /\ Step
  /\ \E events \in Found(n) : Len(events) = n /\ Claim(n, events, TRUE)

\* "it should have sent the following n notification events": the events are
\* read, read again to be counted, and those of the first time are compared
\* with the table in order. A deletion that completes in between fails the step.
CheckFollowingEvents(n) ==
  /\ Step /\ n > 0
  /\ \E events, again \in Found(n) : Len(again) = n /\ Claim(n, events, TRUE)

\* "the notification event should contain only the following rules"
CheckOnlyRules ==
  /\ Step
  /\ \E events \in Found(0) : Len(events) = 1 /\ Claim(0, events, FALSE)

\* "the notification topic should contain exactly the following events": both
\* lists are sorted before they are compared.
CheckExactEvents == Step /\ \E events \in Found(0) : Claim(0, events, FALSE)

Next ==
  \/ BeginScenario \/ EmptyTopic \/ SetUpTables \/ SetUpTablesFails \/ EndScenario
  \/ \E op \in Operations : \E rows \in SUBSET RowsOf(op), flag \in FlagsOf(op) :
       rows # {} /\ Cardinality(rows) <= MaxRows /\ BeginRows(op, rows, flag)
  \/ (\E r \in todo : ExecuteRow(r)) \/ RowFails \/ CommitRows
  \/ IgnoreDisabledRules
  \/ \E events \in Runs, types \in SUBSET EventTypes, output \in Outputs :
       RunService(events, types, output)
  \/ BrokerDeletes
  \/ SelectRows \/ (\E n \in 0..MaxSteps : CheckRows(n)) \/ CheckReportedRows
  \/ (\E c \in Clusters, type \in EventTypes : CheckLatestReported(c, type))
  \/ (\E rules \in SUBSET Rules : CheckRulesInNewReports(rules))
  \/ (\E check \in OutputChecks : CheckOutput(check))
  \/ (\E n \in 0..MaxEvents : CountEvents(n) \/ CheckFollowingEvents(n))
  \/ CheckOnlyRules \/ CheckExactEvents

Spec == Init /\ [][Next]_vars

-----------------------------------------------------------------------------
(* Properties *)

\* Between the steps no connection has an open transaction: what a step wrote
\* is what the service, which has a connection of its own, reads.
NothingPending == pc # "rows" => work = db

\* The rows that a run compares its reports with, and the disabled rules it is
\* told to read, were written in its own scenario: nothing that an earlier
\* scenario left, failed or not, decides what is notified.
RowsOfThisScenario ==
  /\ pc \in {"steps", "rows"} =>
       \A row \in db.new_reports \cup db.reported : row.scenario = scenario
  /\ \A row \in run.read : row.scenario = scenario

HasEffect(d, r) ==
  /\ step.op \in {"new_reports", "reported"} =>
       \E row \in d[step.op] : row.cluster = r.cluster /\ row.scenario = scenario
  /\ step.op \in {"insert_toggles", "update_toggles"} =>
       \E row \in d.toggles : row.key = r /\ row.disabled = step.flag
  /\ step.op = "insert_acks" => Stored(d, "acks", r)
  /\ step.op = "delete_acks" => ~Stored(d, "acks", r)

\* A step that writes rows commits all of them or none, and a toggle or an ack
\* it changes was there to be changed: what is committed, and what a step that
\* passes leaves, is what the table of the feature file says.
CommittedAsTold ==
  [][pc = "rows" /\ (pc' = "steps" \/ db' # db)
       => todo = {} /\ \A r \in step.rows : HasEffect(db', r)]_vars

LastOf(s, n) == IF n = 0 \/ n > Len(s) THEN s ELSE SubSeq(s, Len(s) - n + 1, Len(s))

\* What the checks of events can tell of the last run, if its messages were not
\* deleted: in a topic that was empty, and in any topic if no more events are
\* asked for than the run has sent, the events that a check has compared are the
\* run's, in their order and without a gap. A check that counts n of them is right
\* that there are n. It takes a kcat that has not failed to tell that they are
\* all, or that no event was sent.
ChecksFindTheRun ==
  /\ claim.kind = "events"
  /\ run.topic = "empty" \/ (run.topic = "used" /\ claim.n \in 1..Len(run.sent))
  => /\ IsPrefix(claim.events, LastOf(run.sent, claim.n))
     /\ claim.counted => claim.n <= Len(run.sent)
     /\ claim.whole => claim.events = LastOf(run.sent, claim.n)

\* When the last run has reported on a cluster to someone, the row that is found
\* for them is the one of that run. Only a row that this scenario has prepared,
\* with a date that is not before the run, can be found in its place: never a row
\* of an earlier run or scenario, or one that is for another type of events.
LatestRowIsTheRuns ==
  claim.kind = "latest" /\ <<claim.cluster, claim.type>> \in run.wrote =>
    LET row == claim.row
    IN  /\ row.cluster = claim.cluster /\ row.type = claim.type
        /\ row.scenario = scenario
        /\ row.run = run.n \/ (row.run = 0 /\ row.at >= run.n)
=============================================================================
