------------------------------- MODULE RestSteps -------------------------------
(***************************************************************************)
(* The steps that send a request and those that look at its answer:        *)
(* insights_results_aggregator_mock.py, insights_results_aggregator.py and *)
(* common_http.py. The service is the program under test: it may answer    *)
(* anything, or nothing at all. The requests to the aggregator are         *)
(* answered by a process of BackgroundService; the mock was started by the *)
(* script that runs the scenarios.                                         *)
(***************************************************************************)
EXTENDS BackgroundService, FiniteSets

CONSTANTS
  Aggregator, \* the service that answers the requests with a token
  Items,      \* what a list in an answer may hold: rules, clusters, ...
  MaxItems    \* bound: the length of such a list

ASSUME MaxItemsAssumption == MaxItems \in Nat

VARIABLES
  request,   \* what the step that has sent a request does with its answer
  response,  \* context.response: one of the lists in it, and what goes with it
  passed     \* the number and the rows last found in this response, if any

rest == <<request, response, passed>>

Statuses == {200, 201, 204, 403, 404, 500}
Keys == {"organizations", "clusters", "data", "groups", "report", "reports",
         "errors", "content", "disabledRules", "hits"}
Lists == UNION {[1..n -> Items] : n \in 0..MaxItems}

\* Each request: who answers it, the status codes its step accepts, whether it
\* gives up a service that is silent for TIMEOUT, and the attributes that may hold
\* lists in the answer.
ToMock(accepts, keys) ==
  [server |-> "mock", accepts |-> accepts, timeout |-> FALSE, keys |-> keys]
ToAggregator(keys) ==
  [server |-> "aggregator", accepts |-> Statuses, timeout |-> TRUE, keys |-> keys]

NoRequest  == [server |-> "none", accepts |-> {}, timeout |-> FALSE, keys |-> {}]
NoResponse == [key |-> "none", status |-> 0, items |-> <<>>, count |-> 0, sound |-> TRUE]
NoChecks   == [length |-> {}, rows |-> {}]

RestTypeOK ==
  /\ request.server \in {"none", "mock", "aggregator"}
  /\ request.accepts \subseteq Statuses /\ request.keys \subseteq Keys
  /\ pc = "asking" <=> request # NoRequest
  /\ response.key \in Keys \cup {"none"} /\ response.status \in Statuses \cup {0}
  /\ response.items \in Lists /\ response.count \in 0..MaxItems
  /\ response.sound \in BOOLEAN
  /\ passed \in [length : SUBSET (0..MaxItems), rows : SUBSET SUBSET Items]

RestInit == request = NoRequest /\ response = NoResponse /\ passed = NoChecks

\* The last step has come: nobody looks at the response any more.
ForgetResponses == request' = NoRequest /\ response' = NoResponse /\ passed' = NoChecks

\* Until the request is answered no step looks at the response it replaces.
Send(r) ==
  /\ pc = "steps" /\ pc' = "asking" /\ request' = r
  /\ response' = NoResponse /\ passed' = NoChecks /\ UNCHANGED <<subject, services>>

\* insights_results_aggregator_mock.py
RequestListOfOrganizations == Send(ToMock({200}, {"organizations"}))
RequestListOfClusters      == Send(ToMock({200, 403}, {"clusters"}))
RequestClustersHittingRule == Send(ToMock({200}, {"data"}))
RequestListOfGroups        == Send(ToMock({200}, {"groups"}))
RequestReportForCluster    == Send(ToMock({200}, {"report"}))
RequestReportInOrganization == Send(ToMock(Statuses, {"report"}))
RequestUpgradeRisk         == Send(ToMock(Statuses, {}))
RequestResults ==
  \/ Send(ToMock({200}, {"reports", "errors"}))
  \/ Send([ToAggregator({"reports", "hits"}) EXCEPT !.accepts = {200}, !.timeout = FALSE])
RequestContent             == Send(ToMock({200}, {"content"}))
RequestListOfAckedRules    == Send(ToMock({200}, {"data"}))
AckRuleWithoutJustification == Send(ToMock({200, 201}, {}))
AckRuleWithJustification   == Send(ToMock({200, 201}, {}))
ChangeJustification        == Send(ToMock({200}, {}))
DeleteRuleAck              == Send(ToMock({200, 204, 404}, {}))

\* insights_results_aggregator.py
AccessUsingToken           == Send(ToAggregator({"organizations", "clusters"}))
RequestListOfDisabledRules == Send(ToAggregator({"disabledRules"}))
EnableRule                 == Send(ToAggregator({}))
DisableRule                == Send(ToAggregator({}))
UpdateRule                 == Send(ToAggregator({}))

\* common_http.py: no timeout either, and any service.
RequestEndpoint == Send(ToMock(Statuses, {}))
AccessEndpoint  == Send(ToMock(Statuses, {"organizations", "clusters"}))

\* A server that listens: the aggregator may be one of an earlier scenario that
\* is still about to terminate.
Listens(server) ==
  server = "aggregator" =>
    \E p \in Processes : p[1] = Aggregator /\ process[p].running

\* What the service may answer; only status 200 comes with a list, and what the
\* checks do not look at is left out.
Answers ==
  {[NoResponse EXCEPT !.status = s] : s \in Statuses} \cup
  {[key |-> k, status |-> 200, items |-> list, count |-> n, sound |-> sound] :
     k \in request.keys, list \in Lists,
     n \in IF request.keys \cap {"data", "report"} # {} THEN 0..MaxItems ELSE {0},
     sound \in IF request.keys \cap {"groups", "reports"} # {} THEN BOOLEAN ELSE {TRUE}}

\* Mutant: the request is kept.
RaiseKeepingRequest ==
  pc' = "cleanup" /\ UNCHANGED <<subject, services, rest>>

\* It raises, and the scenario ends.
RequestRaises ==
  /\ pc' = "cleanup" /\ ForgetResponses
  /\ UNCHANGED <<subject, services>>

\* The answer replaces the one before it; with a status that the step does not
\* accept it goes with the scenario.
Answered ==
  /\ pc = "asking" /\ Listens(request.server)
  /\ \E answer \in Answers :
       \/ /\ answer.status \in request.accepts /\ pc' = "steps"
          /\ response' = answer /\ passed' = NoChecks /\ request' = NoRequest
          /\ UNCHANGED <<subject, services>>
       \/ answer.status \notin request.accepts /\ RequestRaises

ConnectionFails == pc = "asking" /\ RequestRaises

\* TIMEOUT bounds the connection and each wait for more bytes, not the request as
\* a whole: a service that trickles keeps it under way for as long as it likes.
TimesOut == pc = "asking" /\ request.timeout /\ RequestRaises

-----------------------------------------------------------------------------
(* The checks of an answer; one that fails raises, and EndSteps follows *)

Looks(key) == pc = "steps" /\ response.key = key /\ UNCHANGED <<behave, services, rest>>

HasLength(key, n) ==
  /\ pc = "steps" /\ response.key = key /\ Len(response.items) = n
  /\ passed' = [passed EXCEPT !.length = {n}]
  /\ UNCHANGED <<behave, services, request, response>>

\* Every row of the feature file is looked up in the list; an exact match.
HasRows(key, rows) ==
  /\ pc = "steps" /\ response.key = key /\ rows \subseteq ToSet(response.items)
  /\ passed' = [passed EXCEPT !.rows = {rows}]
  /\ UNCHANGED <<behave, services, request, response>>

\* assert_sets_equality
SameSet(key, rows) == ToSet(response.items) = rows /\ Looks(key)

CheckListOfOrganizations(rows) == SameSet("organizations", rows)
CheckListOfClusters(rows) == SameSet("clusters", rows) \/ SameSet("data", rows)
CheckListOfGroups(rows) == response.sound /\ SameSet("groups", rows)
CheckNumberOfRuleHits(n) == response.count = n /\ Looks("report")
CheckAllRuleHits(rows) == HasRows("report", rows)
CheckMetadata(n) == response.count = n /\ Looks("data")
CheckListOfReportsIsEmpty == response.items = <<>> /\ Looks("reports")
\* The clusters, the status of each and that its metadata count its hits.
CheckReportsForListOfClusters(rows) == response.sound /\ SameSet("reports", rows)
CheckListOfUnknownClusters(rows) == SameSet("errors", rows)
CheckEmptyContent == response.items = <<>> /\ Looks("content")

\* Mutant: at least so many.
AtLeast(n) ==
  /\ pc = "steps" /\ response.key = "data" /\ Len(response.items) >= n
  /\ passed' = [passed EXCEPT !.length = {n}]
  /\ UNCHANGED <<behave, services, request, response>>

CheckListOfAckedRulesLength(n) == HasLength("data", n)
CheckListOfAckedRules(rows) == HasRows("data", rows)

CheckEmptyListOfOrganizations == response.items = <<>> /\ Looks("organizations")
CheckEmptyListOfClusters == response.items = <<>> /\ Looks("clusters")
CheckEmptyListOfDisabledRules == HasLength("disabledRules", 0)
CheckNonEmptyListOfDisabledRules(n) == HasLength("disabledRules", n)
CheckDisabledRulesList(rows) == HasRows("disabledRules", rows)
CheckRuleHits(n) == HasLength("hits", n)
CheckNoReportForCluster(c) == c \notin ToSet(response.items) /\ Looks("reports")
CheckReturnedClusterReportList(rows) == HasRows("hits", rows)

CheckStatusCode(status) ==
  /\ pc = "steps" /\ response.status = status
  /\ UNCHANGED <<behave, services, rest>>

-----------------------------------------------------------------------------
(* Properties *)

\* None of the checks of disabled rules, of acked rules and of rule hits is
\* exact: one counts, the other looks rows up. When a list passes both for the
\* same n rows, it holds those rows and nothing else, even if the service
\* repeats itself.
ListedExactly ==
  \A rows \in passed.rows :
    Cardinality(rows) \in passed.length
      => ToSet(response.items) = rows /\ IsInjective(response.items)
=============================================================================
