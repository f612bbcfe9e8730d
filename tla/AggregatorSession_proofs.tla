----------------------- MODULE AggregatorSession_proofs -----------------------
(***************************************************************************)
(* That a scenario never has two running processes of a service, that a    *)
(* process it has started is signalled before the next scenario begins,    *)
(* and that the checks of a list are exact together, for any number of     *)
(* services, processes and items. None of the three is inductive. The      *)
(* first rests on a start step that polls the stored process (Stored,      *)
(* Breathing); the second on cleanups that are not empty before all of     *)
(* them have run (Registered, Emptied); the third on passed being          *)
(* forgotten with the response (Counted, LookedUp).                        *)
(***************************************************************************)
EXTENDS AggregatorSession, FiniteSetTheorems, TLAPS

\* The process a start step has just started.
Newborn(p) == pc = "breathing" /\ subject = p

\* A running process of this scenario is the one its attribute names, or the
\* newborn one.
Stored == \A p \in Processes :
  process[p].running /\ process[p].current => attribute[p[1]] = p \/ Newborn(p)

\* A start step has started a process nobody knows, of a service that does not
\* run.
Breathing ==
  pc = "breathing" =>
    subject \in Processes /\ subject \notin ToSet(cleanups) /\ ~Running(subject[1])

\* A running process was signalled, or will be at the end of the scenario.
Registered == \A p \in Processes :
  process[p].running => process[p].signalled \/ p \in ToSet(cleanups) \/ Newborn(p)

\* A wait is for a process.
Awaited == pc \in {"waiting", "killed"} => subject \in Processes

\* Between the scenarios all cleanups have run.
Emptied == pc = "idle" => cleanups = <<>>

ServicesInv ==
  /\ ServicesTypeOK /\ cleanups \in Seq(Processes)
  /\ Stored /\ Breathing /\ Awaited /\ Registered /\ Emptied

\* What the checks have passed is true of the response that is still there.
Counted == \A n \in passed.length : Len(response.items) = n
LookedUp == \A rows \in passed.rows : rows \subseteq ToSet(response.items)

IInv == TypeOK /\ ServicesInv /\ Counted /\ LookedUp

-----------------------------------------------------------------------------
(* Processes and lists *)

\* The first component of a process is its service.
LEMMA ServiceOf == ASSUME NEW p \in Processes PROVE p[1] \in Services
  BY ProcessesAssumption

\* A cleanup that was stacked is on the stack, once.
LEMMA AppendSet ==
  ASSUME NEW s \in Seq(Processes), NEW p \in Processes
  PROVE  /\ Append(s, p) \in Seq(Processes)
         /\ ToSet(Append(s, p)) = ToSet(s) \cup {p}
         /\ IsInjective(s) /\ p \notin ToSet(s) => IsInjective(Append(s, p))
<1>1. Append(s, p) \in Seq(Processes) /\ Len(Append(s, p)) = Len(s) + 1
  OBVIOUS
<1>2. /\ DOMAIN s = 1..Len(s) /\ DOMAIN Append(s, p) = 1..(Len(s) + 1)
      /\ \A i \in 1..Len(s) : Append(s, p)[i] = s[i]
      /\ Append(s, p)[Len(s) + 1] = p
  OBVIOUS
<1>3. Len(s) \in Nat
  OBVIOUS
<1>4. ToSet(Append(s, p)) = ToSet(s) \cup {p}
  BY <1>2, <1>3 DEF ToSet
<1>5. ASSUME IsInjective(s), p \notin ToSet(s) PROVE IsInjective(Append(s, p))
  BY <1>2, <1>3, <1>5 DEF ToSet, IsInjective
<1> QED BY <1>1, <1>4, <1>5

\* A cleanup that has run is off the stack, and the others are still there.
LEMMA FrontSet ==
  ASSUME NEW s \in Seq(Processes), s # <<>>
  PROVE  /\ Front(s) \in Seq(Processes) /\ Last(s) \in Processes
         /\ ToSet(s) = ToSet(Front(s)) \cup {Last(s)}
         /\ IsInjective(s) => IsInjective(Front(s))
<1>1. Len(s) \in Nat \ {0} /\ DOMAIN s = 1..Len(s)
  OBVIOUS
<1>2. /\ Front(s) \in Seq(Processes) /\ Len(Front(s)) = Len(s) - 1
      /\ \A i \in 1..(Len(s) - 1) : Front(s)[i] = s[i]
  BY <1>1 DEF Front
<1>3. DOMAIN Front(s) = 1..(Len(s) - 1)
  BY <1>2
<1>4. ToSet(s) = ToSet(Front(s)) \cup {Last(s)}
  BY <1>1, <1>2, <1>3 DEF ToSet, Last
<1>5. IsInjective(s) => IsInjective(Front(s))
  BY <1>1, <1>2, <1>3 DEF IsInjective
<1> QED BY <1>1, <1>2, <1>4, <1>5 DEF Last

-----------------------------------------------------------------------------
(* The services *)

\* No process runs at the start.
LEMMA ServicesInitInvariant == ServicesInit => ServicesInv
<1> SUFFICES ASSUME ServicesInit PROVE ServicesInv
  OBVIOUS
<1> USE DEF ServicesInit, Gone, ProcessRecord
<1>1. ToSet(<<>>) = {} /\ IsInjective(<<>>) /\ <<>> \in Seq(Processes)
  BY DEF ToSet, IsInjective
<1>2. ServicesTypeOK
  BY <1>1 DEF ServicesTypeOK
<1>3. Stored /\ Breathing /\ Awaited /\ Registered /\ Emptied
  BY DEF Stored, Breathing, Awaited, Registered, Emptied
<1> QED BY <1>1, <1>2, <1>3 DEF ServicesInv

\* A step that has to do with no process.
LEMMA OtherSteps ==
  ASSUME ServicesInv, UNCHANGED <<subject, services>>,
         pc # "breathing",
         \/ pc' = pc
         \/ pc' \in {"steps", "cleanup", "asking", "migrating", "communicating"}
  PROVE  ServicesInv'
  BY DEF ServicesInv, ServicesTypeOK, services, Stored, Breathing, Awaited,
         Registered, Emptied, Newborn, Running

\* A service is started when it does not run.
LEMMA StartInvariant ==
  ASSUME ServicesInv, NEW s \in Services, Start(s)
  PROVE  ServicesInv'
<1> USE DEF ServicesInv
<1>1. PICK p \in Processes : /\ p[1] = s /\ Unused(p)
                             /\ process' = [process EXCEPT ![p] = Fresh]
                             /\ subject' = p
  BY DEF Start, Popen
<1>2. pc = "steps" /\ ~Running(s) /\ pc' = "breathing" /\ UNCHANGED <<attribute, cleanups>>
  BY DEF Start, Popen
<1>3. Fresh \in ProcessRecord /\ Fresh.running
  BY DEF Fresh, Gone, ProcessRecord
<1>4. p \notin ToSet(cleanups) /\ \A t \in Services : attribute[t] # p
  BY <1>1 DEF Unused
<1>5. ServicesTypeOK'
  BY <1>1, <1>2, <1>3 DEF ServicesTypeOK
<1>6. \A q \in Processes \ {p} : process'[q] = process[q]
  BY <1>1 DEF ServicesTypeOK
<1>7. process'[p].running
  BY <1>1, <1>3 DEF ServicesTypeOK
<1>8. Stored'
  BY <1>1, <1>2, <1>6 DEF Stored, Newborn
<1>9. Breathing'
  BY <1>1, <1>2, <1>4, <1>6 DEF Breathing, Running, ServicesTypeOK
<1>10. Registered'
  BY <1>1, <1>2, <1>6 DEF Registered, Newborn
<1>11. Emptied' /\ Awaited'
  BY <1>2 DEF Emptied, Awaited
<1> QED BY <1>2, <1>5, <1>8, <1>9, <1>10, <1>11

\* A process that has breathed is stacked, and stored if it still runs.
LEMMA StartedInvariant ==
  ASSUME ServicesInv, Started \/ StartFails
  PROVE  ServicesInv'
<1> USE DEF ServicesInv
<1>1. /\ pc = "breathing" /\ pc' \in {"steps", "cleanup"}
      /\ cleanups' = Append(cleanups, subject)
      /\ subject' = NoProcess /\ UNCHANGED process
  BY DEF Started, StartFails
<1>2. subject \in Processes /\ subject \notin ToSet(cleanups) /\ ~Running(subject[1])
  BY <1>1 DEF Breathing
<1>3. subject[1] \in Services
  BY <1>2, ServiceOf
<1>4. /\ cleanups' \in Seq(Processes) /\ IsInjective(cleanups')
      /\ ToSet(cleanups') = ToSet(cleanups) \cup {subject}
  BY <1>1, <1>2, AppendSet DEF ServicesTypeOK
<1>5. \/ attribute' = [attribute EXCEPT ![subject[1]] = subject]
      \/ ~process[subject].running /\ attribute' = attribute
  BY DEF Started, StartFails
<1>6. ServicesTypeOK'
  <2>1. pc' \in {"steps", "cleanup"}
    BY DEF Started, StartFails
  <2>2. attribute' \in [Services -> Processes \cup {NoProcess}]
    BY <1>2, <1>3, <1>5 DEF ServicesTypeOK
  <2> QED BY <1>1, <1>2, <1>4, <2>1, <2>2 DEF ServicesTypeOK
<1>7. Stored'
  <2> SUFFICES ASSUME NEW p \in Processes, process[p].running, process[p].current
               PROVE  attribute'[p[1]] = p
    BY <1>1 DEF Stored
  <2>1. p[1] \in Services
    BY ServiceOf
  <2>2. CASE p = subject
    BY <1>5, <1>3, <2>2 DEF ServicesTypeOK
  <2>3. CASE p # subject
    <3>1. attribute[p[1]] = p
      BY <2>3 DEF Stored, Newborn
    <3>2. p # NoProcess
      BY ProcessesAssumption
    <3>3. Running(p[1])
      BY <3>1, <3>2 DEF Running
    <3>4. p[1] # subject[1]
      BY <1>2, <3>3
    <3> QED BY <1>3, <1>5, <2>1, <3>1, <3>4 DEF ServicesTypeOK
  <2> QED BY <2>2, <2>3
<1>8. Registered'
  BY <1>1, <1>4 DEF Registered, Newborn
<1> QED BY <1>1, <1>4, <1>6, <1>7, <1>8 DEF Breathing, Emptied, Awaited

\* A signal changes neither what runs nor what is stored.
LEMMA SignalInvariant ==
  ASSUME ServicesInv, NEW p \in Processes, NEW kill \in BOOLEAN, Signal(p, kill)
  PROVE  /\ process' \in [Processes -> ProcessRecord]
         /\ \A q \in Processes : /\ process'[q].running = process[q].running
                                 /\ process'[q].current = process[q].current
                                 /\ process[q].signalled => process'[q].signalled
         /\ process[p].running => process'[p].signalled
<1> USE DEF ServicesInv, ServicesTypeOK, ProcessRecord
<1>1. process[p] \in ProcessRecord
  OBVIOUS
<1>2. process' = [process EXCEPT ![p].signalled = process[p].signalled \/ process[p].running,
                                 ![p].killed = process[p].killed \/ (kill /\ process[p].running)]
  BY DEF Signal
<1>3. \A q \in Processes \ {p} : process'[q] = process[q]
  BY <1>2
<1>4. process'[p] = [running |-> process[p].running,
                     signalled |-> process[p].signalled \/ process[p].running,
                     killed |-> process[p].killed \/ (kill /\ process[p].running),
                     current |-> process[p].current]
  BY <1>1, <1>2
<1>5. process' \in [Processes -> ProcessRecord]
  BY <1>1, <1>2
<1> QED BY <1>1, <1>3, <1>4, <1>5

\* The termination step signals the stored process, and waits.
LEMMA TerminateInvariant ==
  ASSUME ServicesInv,
         (\E s \in Services : Terminate(s)) \/ WaitTimesOut \/ WaitReturns
  PROVE  ServicesInv'
<1> USE DEF ServicesInv
<1>1. CASE WaitReturns
  <2>1. pc # "breathing" /\ pc' = "steps" /\ subject' = NoProcess /\ UNCHANGED services
    BY <1>1 DEF WaitReturns
  <2> QED BY <2>1 DEF ServicesTypeOK, services, Stored, Breathing, Awaited,
                      Registered, Emptied, Newborn
<1>2. CASE WaitTimesOut \/ \E s \in Services : Terminate(s)
  <2>1. PICK p \in Processes, kill \in BOOLEAN :
          Signal(p, kill) /\ subject' = p
    <3>1. CASE WaitTimesOut
      <4>1. process[subject].running /\ Signal(subject, TRUE) /\ subject' = subject
        BY <3>1 DEF WaitTimesOut
      <4>2. subject \in Processes
        BY <3>1 DEF WaitTimesOut, Awaited
      <4> QED BY <4>1, <4>2
    <3>2. CASE \E s \in Services : Terminate(s)
      BY <3>2 DEF Terminate, Running, ServicesTypeOK
    <3> QED BY <1>2, <3>1, <3>2
  <2>2. /\ pc # "breathing" /\ pc' \in {"waiting", "killed"}
        /\ UNCHANGED <<attribute, cleanups>>
    BY <1>2 DEF WaitTimesOut, Terminate
  <2> QED BY <2>1, <2>2, SignalInvariant DEF ServicesTypeOK, Stored, Breathing,
                                            Awaited, Registered, Emptied, Newborn
<1> QED BY <1>1, <1>2

\* A cleanup signals the process it takes off the stack.
LEMMA CleanupInvariant == ServicesInv /\ RunCleanup => ServicesInv'
<1> SUFFICES ASSUME ServicesInv, RunCleanup PROVE ServicesInv'
  OBVIOUS
<1> USE DEF ServicesInv
<1>1. /\ pc = "cleanup" /\ cleanups # <<>> /\ pc' = pc /\ subject' = subject
      /\ Signal(Last(cleanups), FALSE) /\ cleanups' = Front(cleanups)
      /\ attribute' = attribute
  BY DEF RunCleanup, behave
<1>2. /\ cleanups' \in Seq(Processes) /\ Last(cleanups) \in Processes
      /\ ToSet(cleanups) = ToSet(cleanups') \cup {Last(cleanups)}
      /\ IsInjective(cleanups')
  BY <1>1, FrontSet DEF ServicesTypeOK
<1>3. /\ process' \in [Processes -> ProcessRecord]
      /\ \A q \in Processes : /\ process'[q].running = process[q].running
                              /\ process'[q].current = process[q].current
                              /\ process[q].signalled => process'[q].signalled
      /\ process[Last(cleanups)].running => process'[Last(cleanups)].signalled
  BY <1>1, <1>2, SignalInvariant
<1>4. ServicesTypeOK'
  BY <1>1, <1>2, <1>3 DEF ServicesTypeOK
<1>5. Stored'
  BY <1>1, <1>3 DEF Stored, Newborn
<1>6. Registered'
  BY <1>1, <1>2, <1>3 DEF Registered, Newborn
<1> QED BY <1>1, <1>2, <1>4, <1>5, <1>6 DEF Breathing, Awaited, Emptied

\* The end of a scenario forgets the attributes when all cleanups have run.
LEMMA EndScenarioInvariant == ServicesInv /\ EndScenario => ServicesInv'
<1> SUFFICES ASSUME ServicesInv, EndScenario PROVE ServicesInv'
  OBVIOUS
<1> USE DEF ServicesInv
<1>1. /\ pc = "cleanup" /\ cleanups = <<>> /\ pc' = "idle"
      /\ attribute' = [s \in Services |-> NoProcess]
      /\ process' = [p \in Processes |-> [process[p] EXCEPT !.current = FALSE]]
      /\ subject' = subject /\ cleanups' = cleanups
  BY DEF EndScenario
<1>2. \A p \in Processes : /\ process'[p] \in ProcessRecord
                            /\ ~process'[p].current
                            /\ process'[p].running = process[p].running
                            /\ process'[p].signalled = process[p].signalled
  BY <1>1 DEF ServicesTypeOK, ProcessRecord
<1>3. ServicesTypeOK'
  BY <1>1, <1>2 DEF ServicesTypeOK
<1>4. Registered'
  BY <1>1, <1>2 DEF Registered, Newborn
<1> QED BY <1>1, <1>2, <1>3, <1>4 DEF Stored, Breathing, Awaited, Emptied

\* A process that exits is gone, and may be used again when nobody knows it.
LEMMA ExitInvariant ==
  ASSUME ServicesInv, NEW p \in Processes, Exit(p)
  PROVE  ServicesInv'
<1> USE DEF ServicesInv
<1>1. /\ process' = [process EXCEPT ![p] = Gone]
      /\ UNCHANGED <<pc, subject, attribute, cleanups>>
  BY DEF Exit, behave
<1>2. process' \in [Processes -> ProcessRecord] /\ ~process'[p].running
  BY <1>1 DEF ServicesTypeOK, Gone, ProcessRecord
<1>3. \A q \in Processes \ {p} : process'[q] = process[q]
  BY <1>1 DEF ServicesTypeOK
<1>4. Breathing'
  <2> SUFFICES ASSUME pc = "breathing", Running(subject[1])' PROVE FALSE
    BY <1>1 DEF Breathing
  <2>1. attribute[subject[1]] # NoProcess /\ process'[attribute[subject[1]]].running
    BY <1>1 DEF Running
  <2>2. attribute[subject[1]] \in Processes
    BY <2>1, ServiceOf DEF Breathing, ServicesTypeOK
  <2> QED BY <1>2, <1>3, <2>1, <2>2 DEF Breathing, Running
<1> QED BY <1>1, <1>2, <1>3, <1>4 DEF ServicesTypeOK, Stored, Registered, Newborn,
                                    Awaited, Emptied

\* Every step of the services keeps the invariant.
LEMMA BackgroundInvariant == ServicesInv /\ Background => ServicesInv'
<1> SUFFICES ASSUME ServicesInv, Background PROVE ServicesInv'
  OBVIOUS
<1>1. CASE BeginScenario \/ \E s \in Services : StartedAlready(s) \/ CheckTerminated(s)
  BY <1>1, OtherSteps DEF BeginScenario, StartedAlready, CheckTerminated, behave
<1>2. CASE \E s \in Services : Start(s)
  BY <1>2, StartInvariant
<1>3. CASE Started
  BY <1>3, StartedInvariant
<1>4. CASE WaitTimesOut \/ WaitReturns \/ \E s \in Services : Terminate(s)
  BY <1>4, TerminateInvariant
<1>5. CASE RunCleanup
  BY <1>5, CleanupInvariant
<1>6. CASE EndScenario
  BY <1>6, EndScenarioInvariant
<1>7. CASE \E p \in Processes : Exit(p)
  BY <1>7, ExitInvariant
<1> QED BY <1>1, <1>2, <1>3, <1>4, <1>5, <1>6, <1>7 DEF Background

-----------------------------------------------------------------------------
(* Requests and checks *)

RequestRecord == [server : {"mock", "aggregator"}, accepts : SUBSET Statuses,
                  timeout : BOOLEAN, keys : SUBSET Keys]

RestInv == RestTypeOK /\ Counted /\ LookedUp

\* The empty list is one that an answer may hold.
LEMMA EmptyList == <<>> \in Lists /\ 0 \in 0..MaxItems /\ ToSet(<<>>) = {}
<1>1. 0 \in 0..MaxItems
  BY MaxItemsAssumption
<1>2. <<>> \in [1..0 -> Items]
  OBVIOUS
<1> QED BY <1>1, <1>2 DEF Lists, ToSet

\* A list is a function on the numbers up to its length.
LEMMA ListLength ==
  ASSUME NEW list \in Lists
  PROVE  /\ Len(list) \in 0..MaxItems /\ list \in [1..Len(list) -> Items]
         /\ ToSet(list) \subseteq Items
<1>1. PICK n \in 0..MaxItems : list \in [1..n -> Items]
  BY DEF Lists
<1>2. n \in Nat /\ DOMAIN list = 1..n
  BY <1>1, MaxItemsAssumption
<1>3. list \in Seq(Items)
  BY <1>1, <1>2
<1>4. Len(list) = n
  BY <1>2, <1>3
<1> QED BY <1>1, <1>2, <1>4 DEF ToSet

\* Without a response there is nothing to look at, and nothing has passed.
LEMMA NothingPassed ==
  /\ NoResponse.key = "none" /\ NoResponse.status = 0 /\ NoResponse.sound
  /\ NoResponse.items \in Lists /\ NoResponse.count \in 0..MaxItems
  /\ NoChecks.length = {} /\ NoChecks.rows = {}
  /\ NoChecks \in [length : SUBSET (0..MaxItems), rows : SUBSET SUBSET Items]
  BY EmptyList DEF NoResponse, NoChecks

\* Every request is a record of the four things a step says of it.
LEMMA RequestTypes == Requests => \E r \in RequestRecord : Send(r)
<1>1. ASSUME NEW accepts \in SUBSET Statuses, NEW keys \in SUBSET Keys
      PROVE  /\ ToMock(accepts, keys) \in RequestRecord
             /\ ToAggregator(keys) \in RequestRecord
  BY DEF RequestRecord, ToMock, ToAggregator
<1>2. [ToAggregator({"reports", "hits"}) EXCEPT !.accepts = {200}, !.timeout = FALSE]
        \in RequestRecord
  <2>1. ASSUME NEW r \in RequestRecord, NEW accepts \in SUBSET Statuses
        PROVE  [r EXCEPT !.accepts = accepts, !.timeout = FALSE] \in RequestRecord
    BY DEF RequestRecord
  <2>2. {200} \in SUBSET Statuses
    BY DEF Statuses
  <2>3. {"reports", "hits"} \in SUBSET Keys
    BY DEF Keys
  <2>4. ToAggregator({"reports", "hits"}) \in RequestRecord
    BY <1>1, <2>3
  <2> QED BY <2>1, <2>2, <2>4
<1>3. /\ RequestListOfOrganizations => \E r \in RequestRecord : Send(r)
      /\ RequestListOfClusters => \E r \in RequestRecord : Send(r)
      /\ RequestClustersHittingRule => \E r \in RequestRecord : Send(r)
      /\ RequestListOfGroups => \E r \in RequestRecord : Send(r)
      /\ RequestReportForCluster => \E r \in RequestRecord : Send(r)
      /\ RequestReportInOrganization => \E r \in RequestRecord : Send(r)
      /\ RequestUpgradeRisk => \E r \in RequestRecord : Send(r)
  BY <1>1 DEF Statuses, Keys, RequestListOfOrganizations, RequestListOfClusters, RequestClustersHittingRule,
         RequestListOfGroups, RequestReportForCluster, RequestReportInOrganization,
         RequestUpgradeRisk
<1>4. /\ RequestResults => \E r \in RequestRecord : Send(r)
      /\ RequestContent => \E r \in RequestRecord : Send(r)
      /\ RequestListOfAckedRules => \E r \in RequestRecord : Send(r)
      /\ AckRuleWithoutJustification => \E r \in RequestRecord : Send(r)
      /\ AckRuleWithJustification => \E r \in RequestRecord : Send(r)
      /\ ChangeJustification => \E r \in RequestRecord : Send(r)
      /\ DeleteRuleAck => \E r \in RequestRecord : Send(r)
  BY <1>1, <1>2 DEF Statuses, Keys, RequestResults, RequestContent, RequestListOfAckedRules,
         AckRuleWithoutJustification, AckRuleWithJustification, ChangeJustification,
         DeleteRuleAck
<1>5. /\ AccessUsingToken => \E r \in RequestRecord : Send(r)
      /\ RequestListOfDisabledRules => \E r \in RequestRecord : Send(r)
      /\ EnableRule => \E r \in RequestRecord : Send(r)
      /\ DisableRule => \E r \in RequestRecord : Send(r)
      /\ UpdateRule => \E r \in RequestRecord : Send(r)
      /\ RequestEndpoint => \E r \in RequestRecord : Send(r)
      /\ AccessEndpoint => \E r \in RequestRecord : Send(r)
  BY <1>1 DEF Statuses, Keys, AccessUsingToken, RequestListOfDisabledRules, EnableRule, DisableRule,
         UpdateRule, RequestEndpoint, AccessEndpoint
<1> QED BY <1>3, <1>4, <1>5 DEF Requests

\* A request takes the response before it away.
LEMMA SendInvariant ==
  ASSUME RestInv, NEW r \in RequestRecord, Send(r)
  PROVE  RestInv'
<1>1. /\ pc' = "asking" /\ request' = r
      /\ response' = NoResponse /\ passed' = NoChecks
  BY DEF Send
<1>2. r # NoRequest
  BY DEF RequestRecord, NoRequest
<1> QED BY <1>1, <1>2, NothingPassed DEF RestInv, RestTypeOK, RequestRecord, Counted, LookedUp

\* When a scenario comes to its cleanups nobody asks, and nothing is checked.
LEMMA ForgetInvariant ==
  ASSUME RestInv, ForgetResponses, pc' = "cleanup"
  PROVE  RestInv'
  BY NothingPassed DEF ForgetResponses, RestInv, RestTypeOK, Counted, LookedUp, NoRequest

\* An answer is a response that nothing was checked of, or ends the scenario.
LEMMA AnsweredInvariant == RestInv /\ Answered => RestInv'
<1> SUFFICES ASSUME RestInv, Answered PROVE RestInv'
  OBVIOUS
<1>0. CASE RequestRaises
  BY <1>0, ForgetInvariant DEF RequestRaises
<1> SUFFICES ASSUME ~RequestRaises PROVE RestInv'
  BY <1>0
<1>1. /\ response' \in Answers /\ passed' = NoChecks /\ request' = NoRequest
      /\ pc' # "asking"
  BY DEF Answered
<1> DEFINE counts == IF request.keys \cap {"data", "report"} # {} THEN 0..MaxItems ELSE {0}
           sounds == IF request.keys \cap {"groups", "reports"} # {} THEN BOOLEAN ELSE {TRUE}
           without == {[NoResponse EXCEPT !.status = s] : s \in Statuses}
           with == {[key |-> k, status |-> 200, items |-> list, count |-> n, sound |-> sound] :
                      k \in request.keys, list \in Lists, n \in counts, sound \in sounds}
<1>2. counts \subseteq 0..MaxItems /\ sounds \subseteq BOOLEAN
  BY EmptyList
<1>3. Answers = without \cup with
  BY DEF Answers
<1>4. /\ response'.key \in Keys \cup {"none"} /\ response'.status \in Statuses \cup {0}
      /\ response'.items \in Lists /\ response'.count \in 0..MaxItems
      /\ response'.sound \in BOOLEAN
  <2>1. CASE response' \in without
    BY <2>1, EmptyList DEF NoResponse
  <2>2. CASE response' \in with
    <3> HIDE DEF counts, sounds
    <3>1. PICK k \in request.keys, list \in Lists, n \in counts, sound \in sounds :
            response' = [key |-> k, status |-> 200, items |-> list, count |-> n,
                         sound |-> sound]
      BY <2>2
    <3>2. k \in Keys /\ 200 \in Statuses
      BY DEF RestInv, RestTypeOK, Statuses
    <3>3. n \in 0..MaxItems /\ sound \in BOOLEAN
      BY <1>2, Zenon
    <3>4. /\ response'.key = k /\ response'.status = 200 /\ response'.items = list
          /\ response'.count = n /\ response'.sound = sound
      BY <3>1
    <3>5. response'.sound \in BOOLEAN
      BY <3>3, <3>4, Zenon
    <3> QED BY <3>2, <3>3, <3>4, <3>5
  <2> HIDE DEF without, with
  <2> QED BY <1>1, <1>3, <2>1, <2>2
<1> QED BY <1>1, <1>4, NothingPassed
        DEF RestInv, RestTypeOK, Counted, LookedUp, NoRequest

\* A check changes nothing but what has passed.
LEMMA CheckEffects ==
  ASSUME Checks
  PROVE  /\ pc = "steps" /\ UNCHANGED <<behave, services, request, response>>
         /\ \/ passed' = passed
            \/ \E n \in 0..MaxItems :
                 Len(response.items) = n /\ passed' = [passed EXCEPT !.length = {n}]
            \/ \E rows \in SUBSET Items :
                 /\ rows \subseteq ToSet(response.items)
                 /\ passed' = [passed EXCEPT !.rows = {rows}]
<1> DEFINE Effects ==
             /\ pc = "steps" /\ UNCHANGED <<behave, services, request, response>>
             /\ \/ passed' = passed
                \/ \E n \in 0..MaxItems :
                     Len(response.items) = n /\ passed' = [passed EXCEPT !.length = {n}]
                \/ \E rows \in SUBSET Items :
                     /\ rows \subseteq ToSet(response.items)
                     /\ passed' = [passed EXCEPT !.rows = {rows}]
<1>1. ASSUME NEW key, Looks(key) PROVE Effects
  BY <1>1 DEF Looks, rest
<1>2. ASSUME NEW key, NEW n \in 0..MaxItems, HasLength(key, n) PROVE Effects
  BY <1>2 DEF HasLength
<1>3. ASSUME NEW key, NEW rows \in SUBSET Items, HasRows(key, rows) PROVE Effects
  BY <1>3 DEF HasRows
<1> SUFFICES Effects
  OBVIOUS
<1> HIDE DEF Effects
<1>4. CASE \/ CheckListOfReportsIsEmpty \/ CheckEmptyContent
           \/ CheckEmptyListOfOrganizations \/ CheckEmptyListOfClusters
           \/ CheckEmptyListOfDisabledRules
  BY <1>4, <1>1, <1>2, EmptyList
     DEF CheckListOfReportsIsEmpty, CheckEmptyContent, CheckEmptyListOfOrganizations,
         CheckEmptyListOfClusters, CheckEmptyListOfDisabledRules
<1>5. CASE \E rows \in SUBSET Items :
             \/ CheckListOfOrganizations(rows) \/ CheckListOfClusters(rows)
             \/ CheckListOfGroups(rows) \/ CheckReportsForListOfClusters(rows)
             \/ CheckListOfUnknownClusters(rows)
  BY <1>5, <1>1
     DEF CheckListOfOrganizations, CheckListOfClusters, CheckListOfGroups,
         CheckReportsForListOfClusters, CheckListOfUnknownClusters, SameSet
<1>6. CASE \E rows \in SUBSET Items :
             \/ CheckAllRuleHits(rows) \/ CheckListOfAckedRules(rows)
             \/ CheckDisabledRulesList(rows) \/ CheckReturnedClusterReportList(rows)
  BY <1>6, <1>3
     DEF CheckAllRuleHits, CheckListOfAckedRules, CheckDisabledRulesList,
         CheckReturnedClusterReportList
<1>7. CASE \E n \in 0..MaxItems :
             \/ CheckNumberOfRuleHits(n) \/ CheckMetadata(n)
             \/ CheckListOfAckedRulesLength(n) \/ CheckNonEmptyListOfDisabledRules(n)
             \/ CheckRuleHits(n)
  BY <1>7, <1>1, <1>2
     DEF CheckNumberOfRuleHits, CheckMetadata, CheckListOfAckedRulesLength,
         CheckNonEmptyListOfDisabledRules, CheckRuleHits
<1>8. CASE \E c \in Items : CheckNoReportForCluster(c)
  BY <1>8, <1>1 DEF CheckNoReportForCluster
<1>9. CASE \E status \in Statuses : CheckStatusCode(status)
  BY <1>9 DEF CheckStatusCode, rest, Effects
<1> QED BY <1>4, <1>5, <1>6, <1>7, <1>8, <1>9 DEF Checks

\* What a check passes is true of the response it looks at.
LEMMA ChecksInvariant == RestInv /\ Checks => RestInv'
<1> SUFFICES ASSUME RestInv, Checks PROVE RestInv'
  OBVIOUS
<1>1. pc' = pc /\ UNCHANGED <<request, response>>
  BY CheckEffects DEF behave
<1>2. passed \in [length : SUBSET (0..MaxItems), rows : SUBSET SUBSET Items]
  BY DEF RestInv, RestTypeOK
<1>3. CASE passed' = passed
  BY <1>1, <1>3 DEF RestInv, RestTypeOK, Counted, LookedUp
<1>4. ASSUME NEW n \in 0..MaxItems, Len(response.items) = n,
             passed' = [passed EXCEPT !.length = {n}]
      PROVE  RestInv'
  <2>1. /\ passed' \in [length : SUBSET (0..MaxItems), rows : SUBSET SUBSET Items]
        /\ passed'.length = {n} /\ passed'.rows = passed.rows
    BY <1>2, <1>4
  <2> QED BY <1>1, <1>4, <2>1 DEF RestInv, RestTypeOK, Counted, LookedUp
<1>5. ASSUME NEW rows \in SUBSET Items, rows \subseteq ToSet(response.items),
             passed' = [passed EXCEPT !.rows = {rows}]
      PROVE  RestInv'
  <2>1. /\ passed' \in [length : SUBSET (0..MaxItems), rows : SUBSET SUBSET Items]
        /\ passed'.length = passed.length /\ passed'.rows = {rows}
    BY <1>2, <1>5
  <2> QED BY <1>1, <1>5, <2>1 DEF RestInv, RestTypeOK, Counted, LookedUp
<1> QED BY <1>3, <1>4, <1>5, CheckEffects

-----------------------------------------------------------------------------
(* The invariant *)

\* At the start nothing runs, and nothing was asked.
LEMMA InitInvariant == Init => IInv
<1> SUFFICES ASSUME Init PROVE IInv
  OBVIOUS
<1>1. ServicesInv
  BY ServicesInitInvariant DEF Init
<1>2. RestInv
  BY NothingPassed DEF Init, ServicesInit, RestInit, RestInv, RestTypeOK, Counted,
                       LookedUp, NoRequest
<1> QED BY <1>1, <1>2, MaxDvoAssumption
        DEF Init, ServicesInit, IInv, TypeOK, ServicesInv, RestInv, Accepted

\* Every step keeps it.
LEMMA NextInvariant == IInv /\ [Next]_vars => IInv'
<1> SUFFICES ASSUME IInv, [Next]_vars PROVE IInv'
  OBVIOUS
<1>1. ServicesInv /\ RestInv /\ TypeOK
  BY DEF IInv, RestInv, TypeOK
<1>2. SUFFICES /\ ServicesInv' /\ RestInv'
               /\ dvo' \in 0..MaxDvo /\ child' \in DOMAIN Accepted \cup {"none"}
               /\ pc' = "communicating" <=> child' # "none"
  BY DEF IInv, TypeOK, ServicesInv, RestInv
<1>3. CASE UNCHANGED vars
  BY <1>1, <1>3, OtherSteps
     DEF vars, behave, services, rest, migrations, TypeOK, RestInv, RestTypeOK,
         Counted, LookedUp, ServicesInv, ServicesTypeOK, Stored, Breathing, Awaited,
         Registered, Emptied, Newborn, Running
<1>4. CASE Background /\ UNCHANGED <<rest, migrations>>
  <2>1. /\ pc' = "asking" <=> pc = "asking"
        /\ pc' = "communicating" <=> pc = "communicating"
    BY <1>4 DEF Background, BeginScenario, Started, WaitTimesOut, WaitReturns, RunCleanup,
                EndScenario, StartedAlready, Start, Popen, Terminate, CheckTerminated, Exit,
                behave
  <2> QED BY <1>1, <1>4, <2>1, BackgroundInvariant
          DEF rest, migrations, TypeOK, RestInv, RestTypeOK, Counted, LookedUp
<1>5. CASE (StartFails \/ EndSteps) /\ ForgetResponses /\ UNCHANGED migrations
  <2>1. pc \in {"breathing", "steps"} /\ pc' = "cleanup"
    BY <1>5 DEF StartFails, EndSteps
  <2>2. ServicesInv'
    BY <1>1, <1>5, <2>1, StartedInvariant, OtherSteps DEF EndSteps
  <2> QED BY <1>1, <1>5, <2>1, <2>2, ForgetInvariant DEF migrations, TypeOK
<1>6. CASE (Requests \/ Answered \/ ConnectionFails \/ TimesOut) /\ UNCHANGED migrations
  <2>1. CASE Requests
    <3>1. PICK r \in RequestRecord : Send(r)
      BY <2>1, RequestTypes
    <3>2. ServicesInv'
      BY <1>1, <3>1, OtherSteps DEF Send
    <3> QED BY <1>1, <1>6, <3>1, <3>2, SendInvariant DEF Send, migrations, TypeOK
  <2>2. CASE Answered
    <3>1. pc = "asking" /\ pc' \in {"steps", "cleanup"} /\ UNCHANGED <<subject, services>>
      BY <2>2 DEF Answered, RequestRaises
    <3>2. ServicesInv'
      BY <1>1, <3>1, OtherSteps
    <3> QED BY <1>1, <1>6, <2>2, <3>1, <3>2, AnsweredInvariant DEF migrations, TypeOK
  <2>3. CASE ConnectionFails \/ TimesOut
    <3>1. /\ pc = "asking" /\ pc' = "cleanup" /\ UNCHANGED <<subject, services>>
          /\ ForgetResponses
      BY <2>3 DEF ConnectionFails, TimesOut, RequestRaises
    <3>2. ServicesInv'
      BY <1>1, <3>1, OtherSteps
    <3> QED BY <1>1, <1>6, <3>1, <3>2, ForgetInvariant DEF migrations, TypeOK
  <2> QED BY <1>6, <2>1, <2>2, <2>3
<1>7. CASE Checks /\ UNCHANGED migrations
  <2>1. pc = "steps" /\ pc' = pc /\ UNCHANGED <<subject, services>>
    BY <1>7, CheckEffects DEF behave
  <2>2. ServicesInv'
    BY <1>1, <2>1, OtherSteps
  <2> QED BY <1>1, <1>7, <2>1, <2>2, ChecksInvariant DEF migrations, TypeOK
<1>8. CASE RunAggregatorWithFlag \/ RunMockWithFlag \/ MigrateDvo \/ MigrateOcp \/ ChildReturns
  <2>1. /\ pc \in {"steps", "migrating", "communicating"}
        /\ pc' \in {"steps", "cleanup", "migrating", "communicating"}
        /\ UNCHANGED <<subject, services>>
        /\ UNCHANGED rest \/ (pc' = "cleanup" /\ ForgetResponses)
        /\ pc' = "communicating" <=> child' # "none"
        /\ child' \in DOMAIN Accepted \cup {"none"} /\ dvo' \in 0..MaxDvo
    BY <1>1, <1>8, MaxDvoAssumption
       DEF RunAggregatorWithFlag, RunMockWithFlag, MigrateDvo, MigrateOcp, ChildReturns,
           Communicate, Accepted, TypeOK
  <2>2. ServicesInv'
    BY <1>1, <2>1, OtherSteps
  <2>3. RestInv'
    <3>1. CASE UNCHANGED rest
      BY <1>1, <2>1, <3>1 DEF rest, RestInv, RestTypeOK, Counted, LookedUp
    <3>2. CASE pc' = "cleanup" /\ ForgetResponses
      BY <1>1, <3>2, ForgetInvariant
    <3> QED BY <2>1, <3>1, <3>2
  <2> QED BY <2>1, <2>2, <2>3
<1>9. CASE DvoEnds
  <2>1. pc' = pc /\ UNCHANGED <<subject, services, rest, child>> /\ dvo' \in 0..MaxDvo
    BY <1>1, <1>9, MaxDvoAssumption DEF DvoEnds, behave, TypeOK
  <2> QED BY <1>1, <2>1
          DEF rest, services, TypeOK, RestInv, RestTypeOK, Counted, LookedUp, ServicesInv,
              ServicesTypeOK, Stored, Breathing, Awaited, Registered, Emptied, Newborn, Running
<1> QED BY <1>3, <1>4, <1>5, <1>6, <1>7, <1>8, <1>9 DEF Next

\* The invariant of the specification.
LEMMA Invariant == Spec => []IInv
<1> QED BY InitInvariant, NextInvariant, PTL DEF Spec

-----------------------------------------------------------------------------
(* What follows from it *)

\* A list of length n that contains n given items holds each of them once.
LEMMA ExactList ==
  ASSUME NEW list \in Lists, NEW rows, rows \subseteq ToSet(list),
         Cardinality(rows) = Len(list)
  PROVE  ToSet(list) = rows /\ IsInjective(list)
<1> DEFINE n == Len(list)
<1>1. n \in Nat /\ list \in [1..n -> Items] /\ Cardinality(rows) = n
  BY ListLength, MaxItemsAssumption
<1> HIDE DEF n
<1>2. list \in Surjection(1..n, ToSet(list))
  BY <1>1 DEF Surjection, ToSet
<1>3. IsFiniteSet(1..n) /\ Cardinality(1..n) = n
  BY <1>1, FS_Interval
<1>4. /\ IsFiniteSet(ToSet(list)) /\ Cardinality(ToSet(list)) <= n
      /\ Cardinality(ToSet(list)) = n <=> list \in Injection(1..n, ToSet(list))
  BY <1>2, <1>3, FS_Surjection
<1>5. /\ Cardinality(rows) <= Cardinality(ToSet(list))
      /\ Cardinality(ToSet(list)) = Cardinality(rows) => ToSet(list) = rows
  BY <1>4, FS_Subset
<1>6. Cardinality(ToSet(list)) \in Nat
  BY <1>4, FS_CardinalityType
<1>7. Cardinality(ToSet(list)) = n
  BY <1>1, <1>4, <1>5, <1>6
<1>8. list \in Injection(1..n, ToSet(list))
  BY <1>4, <1>7
<1> QED BY <1>1, <1>5, <1>7, <1>8 DEF Injection

\* Type correctness of the aggregator's scenarios.
THEOREM TypeCorrect == Spec => []TypeOK
<1>1. IInv => TypeOK
  BY DEF IInv
<1> QED BY <1>1, Invariant, PTL

\* A scenario never runs two processes of a service: the newborn one is of a
\* service that does not run, and every other one is the one stored.
THEOREM OneRunning == Spec => []OneRunningPerService
<1>1. IInv => OneRunningPerService
  <2> SUFFICES ASSUME IInv, NEW p \in Processes, NEW q \in Processes,
                      process[p].running, process[p].current,
                      process[q].running, process[q].current, p[1] = q[1]
               PROVE  p = q
    BY DEF OneRunningPerService
  <2>1. /\ attribute[p[1]] = p \/ Newborn(p)
        /\ attribute[q[1]] = q \/ Newborn(q)
    BY DEF IInv, ServicesInv, Stored
  <2>2. p # NoProcess /\ q # NoProcess
    BY ProcessesAssumption
  <2>3. ASSUME NEW x \in Processes, Newborn(x) PROVE ~Running(x[1])
    BY <2>3 DEF IInv, ServicesInv, Breathing, Newborn
  <2> QED BY <2>1, <2>2, <2>3 DEF Running, Newborn
<1> QED BY <1>1, Invariant, PTL

\* Between the scenarios a service in the background that runs was signalled: the
\* cleanups are empty, and no process is newborn.
THEOREM AllSignalled == Spec => []NothingUnsignalled
<1>1. IInv => NothingUnsignalled
  BY DEF IInv, ServicesInv, Registered, Emptied, Newborn, NothingUnsignalled, ToSet
<1> QED BY <1>1, Invariant, PTL

\* A list that passes a count and a look-up of as many rows is those rows.
THEOREM Exact == Spec => []ListedExactly
<1>1. IInv => ListedExactly
  <2> SUFFICES ASSUME IInv, NEW rows \in passed.rows, Cardinality(rows) \in passed.length
               PROVE  ToSet(response.items) = rows /\ IsInjective(response.items)
    BY DEF ListedExactly
  <2>1. response.items \in Lists /\ rows \subseteq ToSet(response.items)
    BY DEF IInv, TypeOK, RestTypeOK, LookedUp
  <2>2. Cardinality(rows) = Len(response.items)
    BY DEF IInv, Counted
  <2> QED BY <2>1, <2>2, ExactList
<1> QED BY <1>1, Invariant, PTL
=============================================================================
