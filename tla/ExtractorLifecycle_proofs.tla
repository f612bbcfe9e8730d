---------------------- MODULE ExtractorLifecycle_proofs ----------------------
(***************************************************************************)
(* Proofs about ExtractorLifecycle, for every set of processes: its types, *)
(* that a service never has two live consumers, that nothing is carried    *)
(* from one scenario into the next, and that it implements ConsumerSlots.  *)
(***************************************************************************)
EXTENDS ExtractorLifecycle, TLAPS

\* The heart of the inductive invariant: a process the harness has not waited
\* for is the one context.services names for its service, so that the loop of
\* after_scenario cannot miss it.
Registered ==
  \A p \in Procs :
    Outstanding(p) => service[p] \in Services /\ services[service[p]] = p

\* An entry of context.services was started as that service.
EntriesMatch ==
  \A s \in Services :
    services[s] # NoProc => service[services[s]] = s /\ proc[services[s]] # "unborn"

\* What the loop has already left behind is reaped.
LoopProgress ==
  /\ pc \in {"hook", "wait", "kill"} =>
       \A s \in Services : services[s] # NoProc /\ s \notin todo
                             => services[s] \in reaped
  /\ pc \in {"hook", "wait", "kill"} => \A s \in todo : services[s] # NoProc
  /\ pc \in {"wait", "kill"} => current \in todo

\* After the hook, whether it returned or raised, everything is reaped.
HookDone ==
  pc = "cleanup" => \A s \in Services : services[s] # NoProc => services[s] \in reaped

\* Between scenarios the context of the last one is gone.
ContextPopped == pc = "idle" => \A s \in Services : services[s] = NoProc

\* Only processes that were started are to be cleaned up.
CleanupsStarted == \A p \in cleanups : proc[p] # "unborn"

\* Only exited processes are ever reaped, and a raised hook started nothing.
ReapedExited == \A p \in reaped : proc[p] = "exited"
HookRaisedEarly ==
  hookError => pc \in {"cleanup", "idle"} /\ \A s \in Services : services[s] = NoProc

IInv ==
  /\ TypeOK
  /\ Registered
  /\ EntriesMatch
  /\ LoopProgress
  /\ HookDone
  /\ ContextPopped
  /\ CleanupsStarted
  /\ ReapedExited
  /\ HookRaisedEarly

-----------------------------------------------------------------------------

\* The initial state has no process and no context.
LEMMA InitInvariant == Init => IInv
<1> SUFFICES ASSUME Init PROVE IInv
  OBVIOUS
<1> USE NoProcAssumption DEF Init
<1>1. TypeOK
  BY DEF TypeOK, Tags, Services, NoService
<1>2. Registered /\ EntriesMatch /\ LoopProgress /\ HookDone
  BY DEF Registered, EntriesMatch, LoopProgress, HookDone, Outstanding
<1>3. ContextPopped /\ CleanupsStarted /\ ReapedExited /\ HookRaisedEarly
  BY DEF ContextPopped, CleanupsStarted, ReapedExited, HookRaisedEarly
<1>4. QED
  BY <1>1, <1>2, <1>3 DEF IInv

\* Every step keeps the types. The loop of after_scenario needs the invariant:
\* it only ever reaps a service that has an entry.
LEMMA NextTypeOK == IInv /\ [Next]_vars => TypeOK'
<1> SUFFICES ASSUME IInv, [Next]_vars PROVE TypeOK'
  OBVIOUS
<1> TypeOK /\ LoopProgress
  BY DEF IInv
<1> USE NoProcAssumption DEF TypeOK, NoService, runnerVars, osVars
<1>1. ASSUME NEW t \in Tags, BeginScenario(t) PROVE TypeOK'
  BY <1>1 DEF BeginScenario
<1>2. ASSUME NEW s \in Services, NEW p \in Procs, StartService(s, p) PROVE TypeOK'
  BY <1>2 DEF StartService
<1>3. ASSUME NEW s \in Services, ServiceIsRunning(s) PROVE TypeOK'
  BY <1>3 DEF ServiceIsRunning
<1>4. CASE StepFails
  BY <1>4 DEF StepFails
<1>5. CASE EndSteps
  BY <1>5 DEF EndSteps
<1>6. CASE HookRaises
  BY <1>6 DEF HookRaises
<1>7. ASSUME NEW s \in Services, HookTerminate(s) PROVE TypeOK'
  <2>1. services[s] \in Procs
    BY <1>7 DEF HookTerminate, LoopProgress
  <2>2. QED
    BY <1>7, <2>1 DEF HookTerminate, Terminate
<1>8. CASE HookWaitReturns
  <2>1. services[current] \in Procs
    BY <1>8 DEF HookWaitReturns, LoopProgress
  <2>2. QED
    BY <1>8, <2>1 DEF HookWaitReturns, Visited
<1>9. CASE HookKill
  BY <1>9 DEF HookKill
<1>10. CASE HookReturns
  BY <1>10 DEF HookReturns
<1>11. ASSUME NEW p \in Procs, RunCleanup(p) PROVE TypeOK'
  BY <1>11 DEF RunCleanup, Terminate
<1>12. CASE PopContext
  BY <1>12 DEF PopContext
<1>13. ASSUME NEW p \in Procs, NEW c \in {"zero", "nonzero"}, Exit(p, c) PROVE TypeOK'
  BY <1>13 DEF Exit
<1>14. CASE UNCHANGED vars
  BY <1>14 DEF vars
<1>15. QED
  BY <1>1, <1>2, <1>3, <1>4, <1>5, <1>6, <1>7, <1>8, <1>9, <1>10, <1>11, <1>12,
     <1>13, <1>14 DEF Next, Steps, Teardown, Environment

\* Every step keeps the rest of the inductive invariant.
LEMMA NextRest ==
  IInv /\ [Next]_vars =>
    (Registered /\ EntriesMatch /\ LoopProgress /\ HookDone /\ ContextPopped
       /\ CleanupsStarted /\ ReapedExited /\ HookRaisedEarly)'
<1> DEFINE Rest == Registered /\ EntriesMatch /\ LoopProgress /\ HookDone
                     /\ ContextPopped /\ CleanupsStarted /\ ReapedExited
                     /\ HookRaisedEarly
<1> SUFFICES ASSUME IInv, [Next]_vars PROVE Rest'
  OBVIOUS
<1> USE NoProcAssumption
    DEF IInv, TypeOK, Registered, EntriesMatch, LoopProgress, HookDone,
        ContextPopped, CleanupsStarted, ReapedExited, HookRaisedEarly, Outstanding, Alive,
        NoService, runnerVars, osVars
<1>1. ASSUME NEW t \in Tags, BeginScenario(t) PROVE Rest'
  BY <1>1 DEF BeginScenario
<1>2. ASSUME NEW s \in Services, NEW p \in Procs, StartService(s, p) PROVE Rest'
  BY <1>2 DEF StartService, ServiceNotStarted
<1>3. ASSUME NEW s \in Services, ServiceIsRunning(s) PROVE Rest'
  BY <1>3 DEF ServiceIsRunning
<1>4. CASE StepFails
  BY <1>4 DEF StepFails
<1>5. CASE EndSteps
  BY <1>5 DEF EndSteps
<1>6. CASE HookRaises
  BY <1>6 DEF HookRaises, HasServices
<1>7. ASSUME NEW s \in Services, HookTerminate(s) PROVE Rest'
  BY <1>7 DEF HookTerminate, Terminate
<1>8. CASE HookWaitReturns
  BY <1>8 DEF HookWaitReturns, Visited
<1>9. CASE HookKill
  BY <1>9 DEF HookKill
<1>10. CASE HookReturns
  BY <1>10 DEF HookReturns, EntersLoop, HasServices, Tags
<1>11. ASSUME NEW p \in Procs, RunCleanup(p) PROVE Rest'
  BY <1>11 DEF RunCleanup, Terminate
<1>12. CASE PopContext
  BY <1>12 DEF PopContext
<1>13. ASSUME NEW p \in Procs, NEW c \in {"zero", "nonzero"}, Exit(p, c) PROVE Rest'
  BY <1>13 DEF Exit
<1>14. CASE UNCHANGED vars
  BY <1>14 DEF vars
<1>15. QED
  BY <1>1, <1>2, <1>3, <1>4, <1>5, <1>6, <1>7, <1>8, <1>9, <1>10, <1>11, <1>12,
     <1>13, <1>14 DEF Next, Steps, Teardown, Environment

\* The inductive invariant holds in every behaviour of the run.
LEMMA Invariance == Spec => []IInv
<1>1. IInv /\ [Next]_vars => IInv'
  BY NextTypeOK, NextRest DEF IInv
<1>2. QED
  BY InitInvariant, <1>1, PTL DEF Spec

-----------------------------------------------------------------------------

\* The variables of ExtractorLifecycle keep their types in every behaviour of
\* the run, whatever the extractors do.
THEOREM TypeCorrect == Spec => []TypeOK
<1>1. IInv => TypeOK
  BY DEF IInv
<1>2. QED
  BY Invariance, <1>1, PTL

\* A live process has not been reaped, so context.services names it, and it
\* names only one process for a service.
LEMMA RegisteredUnique == IInv => OneConsumerPerService
<1> SUFFICES ASSUME IInv,
                    NEW p \in Procs, NEW q \in Procs,
                    Alive(p), Alive(q), service[p] = service[q]
             PROVE  p = q
  BY DEF OneConsumerPerService
<1>1. Outstanding(p) /\ Outstanding(q)
  BY DEF IInv, ReapedExited, Outstanding, Alive
<1>2. services[service[p]] = p /\ services[service[q]] = q
  BY <1>1 DEF IInv, Registered
<1>3. QED
  BY <1>2

\* Of the processes started as one service in all the scenarios of a run, at
\* most one is alive (environment.py:98-99).
THEOREM OneConsumer == Spec => []OneConsumerPerService
BY Invariance, RegisteredUnique, PTL

\* No process is alive or unreaped between two scenarios.
LEMMA IdleClean == IInv => NothingOutstandingBetweenScenarios
<1> SUFFICES ASSUME IInv, pc = "idle", NEW p \in Procs
             PROVE  ~Outstanding(p) /\ ~Alive(p)
  BY DEF NothingOutstandingBetweenScenarios
<1>1. ~Outstanding(p)
  BY NoProcAssumption DEF IInv, Registered, ContextPopped
<1>2. ~Alive(p)
  BY <1>1 DEF Outstanding, Alive, IInv, ReapedExited
<1>3. QED
  BY <1>1, <1>2

\* No consumer and no zombie of one scenario is carried into the next.
THEOREM NothingCarriedOver == Spec => []NothingOutstandingBetweenScenarios
BY Invariance, IdleClean, PTL

\* The hook that raised on a missing context.services had nothing to stop.
THEOREM HookErrorIsHarmless == Spec => []HookErrorLeaksNothing
<1>1. IInv => HookErrorLeaksNothing
  <2> SUFFICES ASSUME IInv, hookError, NEW p \in Procs PROVE ~Alive(p)
    BY DEF HookErrorLeaksNothing
  <2>1. ~Outstanding(p)
    BY NoProcAssumption DEF IInv, Registered, HookRaisedEarly
  <2>2. QED
    BY <2>1 DEF Outstanding, Alive, IInv, ReapedExited
<1>2. QED
  BY Invariance, <1>1, PTL

-----------------------------------------------------------------------------
(* ExtractorLifecycle implements ConsumerSlots *)

\* The live processes of a service.
Live(s) == {p \in Procs : Alive(p) /\ service[p] = s}

\* A step that changes neither the phase seen from outside nor a live process
\* is a stuttering step of ConsumerSlots.
LEMMA Stutter ==
  ASSUME (pc # "idle") <=> (pc' # "idle"),
         \A s \in Services : Live(s)' = Live(s)
  PROVE  UNCHANGED Slots!vars
BY Zenon DEF Slots!vars, Live

\* Every step is a step of ConsumerSlots or leaves the slots alone.
LEMMA StepSimulation == IInv /\ IInv' /\ [Next]_vars => [Slots!Next]_(Slots!vars)
<1> SUFFICES ASSUME IInv, IInv', [Next]_vars PROVE [Slots!Next]_(Slots!vars)
  OBVIOUS
<1> DEFINE Cons == [s \in Services |-> Live(s)]
<1> TypeOK /\ TypeOK'
  BY DEF IInv
<1> USE NoProcAssumption DEF NoService, runnerVars, osVars
<1>1. ASSUME NEW t \in Tags, BeginScenario(t) PROVE Slots!Open
  <2>1. pc = "idle" /\ pc' # "idle" /\ UNCHANGED <<proc, service>>
    BY <1>1 DEF BeginScenario
  <2>2. QED
    BY <2>1 DEF Slots!Open, Alive
<1>2. ASSUME NEW s \in Services, NEW p \in Procs, StartService(s, p)
      PROVE Slots!Join(s, p)
  <2>1. pc # "idle" /\ pc' # "idle"
    BY <1>2 DEF StartService
  <2>2. Live(s) = {}
    <3> SUFFICES ASSUME NEW q \in Procs, Alive(q), service[q] = s PROVE FALSE
      BY DEF Live
    <3>1. Outstanding(q)
      BY DEF IInv, ReapedExited, Outstanding, Alive
    <3>2. QED
      BY <1>2, <3>1 DEF IInv, Registered, StartService, ServiceNotStarted
  <2>3. Live(s)' = {p}
    <3>1. Alive(p)' /\ service'[p] = s
      BY <1>2 DEF StartService, TypeOK, Alive
    <3>2. \A q \in Procs : q # p => (Alive(q)' <=> Alive(q)) /\ service'[q] = service[q]
      BY <1>2 DEF StartService, TypeOK, Alive
    <3>3. QED
      BY <2>2, <3>1, <3>2 DEF Live
  <2>4. \A r \in Services : r # s => Live(r)' = Live(r)
    BY <1>2 DEF StartService, TypeOK, Alive, Live
  <2>5. Cons' = [Cons EXCEPT ![s] = {p}]
    BY <2>3, <2>4
  <2>6. QED
    BY <2>1, <2>2, <2>5 DEF Slots!Join, Live
<1>3. ASSUME NEW s \in Services, NEW p \in Procs, NEW c \in {"zero", "nonzero"},
             Exit(p, c), service[p] = s
      PROVE  Slots!Leave(s)
  <2>1. UNCHANGED <<pc, service>> /\ Alive(p) /\ proc[p] # "unborn"
    BY <1>3 DEF Exit, Alive
  <2>2. Outstanding(p)
    BY <2>1 DEF IInv, ReapedExited, Outstanding, Alive
  <2>3. pc # "idle"
    BY <2>2 DEF IInv, Registered, ContextPopped
  <2>4. Live(s) = {p}
    BY <1>3, <2>1, RegisteredUnique DEF OneConsumerPerService, Live
  <2>5. ~Alive(p)' /\ \A q \in Procs : q # p => (Alive(q)' <=> Alive(q))
    BY <1>3 DEF Exit, TypeOK, Alive
  <2>6. Live(s)' = {}
    BY <2>1, <2>4, <2>5 DEF Live
  <2>7. \A r \in Services : r # s => Live(r)' = Live(r)
    BY <1>3, <2>1, <2>5 DEF Live
  <2>8. Cons' = [Cons EXCEPT ![s] = {}]
    BY <2>6, <2>7
  <2>9. QED
    BY <2>1, <2>3, <2>4, <2>8 DEF Slots!Leave, Live
<1>4. CASE PopContext
  <2>1. pc = "cleanup" /\ pc' = "idle" /\ UNCHANGED <<proc, service>>
    BY <1>4 DEF PopContext
  <2>2. \A p \in Procs : ~Outstanding(p)
    BY <2>1 DEF IInv, Registered, HookDone, Outstanding
  <2>3. \A p \in Procs : ~Alive(p)
    BY <2>2 DEF IInv, ReapedExited, Outstanding, Alive
  <2>4. Slots!Close
    BY <2>1, <2>3 DEF Slots!Close, Alive
  <2>5. QED
    BY <2>4 DEF Slots!Next
<1>5. ASSUME pc # "idle", pc' # "idle", service' = service,
             \A p \in Procs : Alive(p)' <=> Alive(p)
      PROVE  UNCHANGED Slots!vars
  BY <1>5, Stutter DEF Live
<1>6. ASSUME pc # "idle", pc' # "idle", UNCHANGED <<proc, service>>
      PROVE  UNCHANGED Slots!vars
  BY <1>5, <1>6 DEF Alive
<1>7. CASE StepFails \/ EndSteps \/ HookRaises \/ HookReturns \/ HookWaitReturns
  <2>1. pc # "idle" /\ pc' # "idle" /\ UNCHANGED <<proc, service>>
    BY <1>7 DEF StepFails, EndSteps, HookRaises, HookReturns, HookWaitReturns, Visited
  <2>2. QED
    BY <1>6, <2>1
<1>8. ASSUME NEW s \in Services, ServiceIsRunning(s) PROVE UNCHANGED Slots!vars
  BY <1>6, <1>8 DEF ServiceIsRunning
<1>9. ASSUME NEW s \in Services, HookTerminate(s) PROVE UNCHANGED Slots!vars
  BY <1>5, <1>9 DEF HookTerminate, Terminate, Alive, TypeOK
<1>10. CASE HookKill
  BY <1>5, <1>10 DEF HookKill, Alive, TypeOK
<1>11. ASSUME NEW p \in Procs, RunCleanup(p) PROVE UNCHANGED Slots!vars
  BY <1>5, <1>11 DEF RunCleanup, Terminate, Alive, TypeOK
<1>12. CASE UNCHANGED vars
  BY <1>12, Stutter DEF vars, Alive, Live
<1>13. ASSUME NEW p \in Procs, NEW c \in {"zero", "nonzero"}, Exit(p, c)
       PROVE  Slots!Next
  <2>1. service[p] \in Services
    BY <1>13 DEF Exit, IInv, Registered, ReapedExited, Outstanding, Alive
  <2>2. PICK s \in Services : service[p] = s
    BY <2>1, Zenon
  <2>3. Slots!Leave(s)
    BY <1>3, <1>13, <2>2
  <2>4. QED
    BY <2>3 DEF Slots!Next
<1>14. QED
  BY <1>1, <1>2, <1>4, <1>7, <1>8, <1>9, <1>10, <1>11, <1>12, <1>13
     DEF Next, Steps, Teardown, Environment, Slots!Next

\* Whatever the extractors and the steps do, the run seen from outside is a
\* behaviour of ConsumerSlots: consumers join free slots of an open scenario,
\* and a scenario closes with all slots free.
THEOREM SlotsImplemented == Spec => ImplementsConsumerSlots
<1>1. Init => Slots!Init
  BY DEF Init, Slots!Init, Alive
<1>2. QED
  BY <1>1, StepSimulation, Invariance, PTL
     DEF Spec, ImplementsConsumerSlots, Slots!Spec
=============================================================================
