------------------------- MODULE MCScenarioDatabase -------------------------
(* ScenarioDatabase for TLC. Two tables stand for the eleven of DB_TABLES,   *)
(* two records for the ones inserted. The scenarios are those of             *)
(* features/insights-results-aggregator-cleaner and -exporter, each shape    *)
(* once, with the steps between them that do not touch the database left out.*)
EXTENDS ScenarioDatabase

CONSTANTS report, ruleHit, r1, r2

StepOf(name)      == [op |-> name, table |-> report, rows |-> {}, returnCode |-> 0]
Insert(t)         == [StepOf("insert") EXCEPT !.table = t, !.rows = {r1, r2}]
TableEmpty(t)     == [StepOf("table_empty") EXCEPT !.table = t]
RuleHits          == [StepOf("rule_hits") EXCEPT !.table = ruleHit]
RunWithFlag       == [StepOf("run") EXCEPT !.returnCode = 2]

Prepare == <<StepOf("database_empty"), StepOf("prepare_schema"), StepOf("tables_empty")>>
Delete  == <<StepOf("delete_all"), StepOf("database_empty")>>

MCScripts == {
  \* cleanup_all.feature: "Clean up old records"
  Prepare \o <<Insert(report), StepOf("run"), StepOf("check")>> \o Delete,
  \* cleanup_all.feature: "Clean up orphan records"
  Prepare \o <<Insert(ruleHit), StepOf("run"), TableEmpty(ruleHit)>> \o Delete,
  \* cleanup_all.feature: "Clean up only orphan records"
  Prepare \o <<Insert(report), Insert(ruleHit), StepOf("run"), RuleHits>> \o Delete,
  \* vacuuming.feature: "Vacuum the database"
  Prepare \o <<Insert(report), StepOf("run"), StepOf("check")>>,
  \* file_export.feature of the exporter
  Prepare \o <<RunWithFlag, StepOf("check")>> \o Delete,
  \* smoketests.feature and database_access.feature
  <<StepOf("database_empty")>>
}
=============================================================================
