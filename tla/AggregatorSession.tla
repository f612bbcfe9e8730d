--------------------------- MODULE AggregatorSession ---------------------------
(***************************************************************************)
(* The scenarios of the aggregator: its services in the background, the    *)
(* requests and their checks, the tools that are run to their end, and the *)
(* migrations of its database. The migration step starts one process for   *)
(* the DVO recommendations and one for the OCP recommendations; it waits   *)
(* for the second.                                                         *)
(***************************************************************************)
EXTENDS RestSteps

CONSTANT MaxDvo \* bound: DVO migrations that run at the same time

ASSUME MaxDvoAssumption == MaxDvo \in Nat

VARIABLES
  dvo,   \* how many DVO migrations run
  child  \* the process that a step communicates with

migrations == <<dvo, child>>
vars == <<behave, services, rest, migrations>>

\* The exit codes that the step which waits for a child accepts.
ExitCodes == {0, 1, 2}
Accepted == [aggregator |-> ExitCodes, mock |-> {0, 2}, migration |-> {0, 2}]

\* The type of every variable; a request is under way only while behave asks,
\* and a child is there only while behave communicates with it.
TypeOK ==
  /\ ServicesTypeOK /\ RestTypeOK
  /\ dvo \in 0..MaxDvo /\ child \in DOMAIN Accepted \cup {"none"}
  /\ pc = "communicating" <=> child # "none"

Init == ServicesInit /\ RestInit /\ dvo = 0 /\ child = "none"

Communicate(c) ==
  /\ child' = c /\ pc' = "communicating"
  /\ UNCHANGED <<subject, services, rest, dvo>>

RunAggregatorWithFlag == pc = "steps" /\ Communicate("aggregator")
RunMockWithFlag == pc = "steps" /\ Communicate("mock")

\* The first Popen of "I migrate aggregator database": its output is a pipe
\* that nobody reads, and the second one replaces it.
MigrateDvo ==
  /\ pc = "steps" /\ dvo < MaxDvo
  /\ dvo' = dvo + 1 /\ pc' = "migrating"
  /\ UNCHANGED <<subject, services, rest, child>>

MigrateOcp == pc = "migrating" /\ Communicate("migration")

DvoEnds == dvo > 0 /\ dvo' = dvo - 1 /\ UNCHANGED <<behave, services, rest, child>>

\* process_generated_output: communicate ends with the process, whose exit code
\* may end the scenario.
ChildReturns ==
  /\ pc = "communicating" /\ child' = "none"
  /\ \E code \in ExitCodes :
       \/ code \in Accepted[child] /\ pc' = "steps" /\ UNCHANGED rest
       \/ code \notin Accepted[child] /\ pc' = "cleanup" /\ ForgetResponses
  /\ UNCHANGED <<subject, services, dvo>>

Background ==
  \/ BeginScenario \/ Started \/ WaitTimesOut \/ WaitReturns
  \/ RunCleanup \/ EndScenario
  \/ \E s \in Services : StartedAlready(s) \/ Start(s) \/ Terminate(s) \/ CheckTerminated(s)
  \/ \E p \in Processes : Exit(p)

Requests ==
  \/ RequestListOfOrganizations \/ RequestListOfClusters \/ RequestClustersHittingRule
  \/ RequestListOfGroups \/ RequestReportForCluster \/ RequestReportInOrganization
  \/ RequestUpgradeRisk \/ RequestResults \/ RequestContent \/ RequestListOfAckedRules
  \/ AckRuleWithoutJustification \/ AckRuleWithJustification
  \/ ChangeJustification \/ DeleteRuleAck
  \/ AccessUsingToken \/ RequestListOfDisabledRules \/ EnableRule \/ DisableRule
  \/ UpdateRule \/ RequestEndpoint \/ AccessEndpoint

Checks ==
  \/ CheckListOfReportsIsEmpty \/ CheckEmptyContent \/ CheckEmptyListOfOrganizations
  \/ CheckEmptyListOfClusters \/ CheckEmptyListOfDisabledRules
  \/ \E rows \in SUBSET Items :
       \/ CheckListOfOrganizations(rows) \/ CheckListOfClusters(rows)
       \/ CheckListOfGroups(rows) \/ CheckReportsForListOfClusters(rows)
       \/ CheckListOfUnknownClusters(rows)
       \/ CheckAllRuleHits(rows) \/ CheckListOfAckedRules(rows)
       \/ CheckDisabledRulesList(rows) \/ CheckReturnedClusterReportList(rows)
  \/ \E n \in 0..MaxItems :
       \/ CheckNumberOfRuleHits(n) \/ CheckMetadata(n)
       \/ CheckListOfAckedRulesLength(n) \/ CheckNonEmptyListOfDisabledRules(n)
       \/ CheckRuleHits(n)
  \/ \E c \in Items : CheckNoReportForCluster(c)
  \/ \E status \in Statuses : CheckStatusCode(status)

Next ==
  \/ Background /\ UNCHANGED <<rest, migrations>>
  \/ (StartFails \/ EndSteps) /\ ForgetResponses /\ UNCHANGED migrations
  \/ (Requests \/ Answered \/ ConnectionFails \/ TimesOut) /\ UNCHANGED migrations
  \/ Checks /\ UNCHANGED migrations
  \/ RunAggregatorWithFlag \/ RunMockWithFlag \/ MigrateDvo \/ MigrateOcp
  \/ DvoEnds \/ ChildReturns

Spec == Init /\ [][Next]_vars

\* behave goes on when a wait is over, and SIGKILL is obeyed.
FairSpec ==
  /\ Spec
  /\ WF_vars(WaitReturns /\ UNCHANGED <<rest, migrations>>)
  /\ WF_vars(WaitTimesOut /\ UNCHANGED <<rest, migrations>>)
  /\ WF_vars(KilledExits /\ UNCHANGED <<rest, migrations>>)

\* "run DVO migrations first to not mess with the OCP migrations output we're
\* checking later" (insights_results_aggregator.py:196): while the OCP migration
\* runs, no DVO migration does.
DvoMigratesFirst == child = "migration" => dvo = 0
=============================================================================
