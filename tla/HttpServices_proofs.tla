-------------------------- MODULE HttpServices_proofs --------------------------
(***************************************************************************)
(* What a passed start step, a passed stop step and the end of a scenario  *)
(* mean, for every set of processes and ports and every number of          *)
(* attempts. The strengthening follows a process from Popen to its         *)
(* cleanup: nobody else comes to a port that was free (OwnPort), an        *)
(* answered process stays registered until it is signalled (Answered), and *)
(* a mock that can be stopped is registered (MocksRegistered).             *)
(***************************************************************************)
EXTENDS HttpServices, TLAPS

Registered == {cleanups[i] : i \in DOMAIN cleanups}

\* No live process but p is on the port of p.
Alone(p) == \A q \in Procs : q # p /\ Alive(q) => port[q] # port[p]

\* Nobody joins a registered process, or the one being checked, on its port.
OwnPort ==
  /\ \A p \in Registered : portWasFree[p] => Alone(p)
  /\ pc = "check" /\ portWasFree[popen] => Alone(popen)

\* The process being checked is a new one.
NewProcess ==
  /\ \A p \in Registered : process[p] # "unborn"
  /\ pc = "check" => popen \in Procs \ Registered /\ process[popen] # "unborn"

OwnAnswer == \A p \in Registered : portWasFree[p] => answeredBy[p] = p

Answered ==
  /\ \A p \in Procs : process[p] = "unborn" => answeredBy[p] = NoProc
  /\ \A p \in Procs : Alive(p) /\ answeredBy[p] # NoProc /\ p \notin signalled
                        => p \in Registered

MocksRegistered ==
  /\ pc \in {"steps", "check", "stopping"} => mocks \subseteq Registered
  /\ pc = "stopping" => popen \in Registered
  /\ pc = "idle" => mocks = {} /\ cleanups = <<>>

AttemptsLeft == pc = "check" => attempts > 0

IInv ==
  /\ TypeOK
  /\ AttemptsLeft
  /\ OwnPort
  /\ NewProcess
  /\ OwnAnswer
  /\ Answered
  /\ MocksRegistered

-----------------------------------------------------------------------------
(* The registered processes as a set *)

\* add_cleanup adds one process.
LEMMA RegisterOne ==
  ASSUME cleanups \in Seq(Procs), NEW p \in Procs, cleanups' = Append(cleanups, p)
  PROVE  cleanups' \in Seq(Procs) /\ Registered' = Registered \cup {p}
<1>1. cleanups' \in Seq(Procs) /\ Len(cleanups') = Len(cleanups) + 1
  OBVIOUS
<1>2. DOMAIN cleanups' = 1..(Len(cleanups) + 1) /\ DOMAIN cleanups = 1..Len(cleanups)
  BY <1>1
<1>3. /\ \A i \in DOMAIN cleanups : cleanups'[i] = cleanups[i]
      /\ cleanups'[Len(cleanups) + 1] = p
  BY <1>2
<1>4. Len(cleanups) \in Nat
  OBVIOUS
<1>5. DOMAIN cleanups' = DOMAIN cleanups \cup {Len(cleanups) + 1}
  BY <1>2, <1>4
<1> QED BY <1>1, <1>3, <1>5 DEF Registered

\* Running a cleanup removes at most the process it terminates.
LEMMA UnregisterLast ==
  ASSUME cleanups \in Seq(Procs), cleanups # <<>>,
         cleanups' = SubSeq(cleanups, 1, Len(cleanups) - 1)
  PROVE  /\ cleanups' \in Seq(Procs)
         /\ cleanups[Len(cleanups)] \in Procs
         /\ Registered' \subseteq Registered
         /\ Registered \subseteq Registered' \cup {cleanups[Len(cleanups)]}
<1>1. Len(cleanups) \in Nat \ {0} /\ DOMAIN cleanups = 1..Len(cleanups)
  OBVIOUS
<1>2. cleanups' \in Seq(Procs) /\ Len(cleanups') = Len(cleanups) - 1
  BY <1>1
<1>3. DOMAIN cleanups' = 1..(Len(cleanups) - 1)
  BY <1>2
<1>4. \A i \in DOMAIN cleanups' : cleanups'[i] = cleanups[i]
  BY <1>1, <1>3
<1>5. DOMAIN cleanups = DOMAIN cleanups' \cup {Len(cleanups)}
  BY <1>1, <1>3
<1>6. cleanups[Len(cleanups)] \in Procs
  BY <1>1
<1> QED BY <1>2, <1>4, <1>5, <1>6 DEF Registered

\* The registered processes are processes.
LEMMA RegisteredType == cleanups \in Seq(Procs) => Registered \subseteq Procs
  BY DEF Registered

\* The registered processes only change with the list.
LEMMA RegisteredSame == cleanups' = cleanups => Registered' = Registered
  BY DEF Registered

-----------------------------------------------------------------------------

\* At the start nothing was ever started or registered.
LEMMA InitInvariant == Init => IInv
<1> SUFFICES ASSUME Init PROVE IInv
  OBVIOUS
<1>1. cleanups \in Seq(Procs) /\ Registered = {}
  <2>1. <<>> \in Seq(Procs) /\ DOMAIN <<>> = {}
    OBVIOUS
  <2> QED BY <2>1 DEF Init, Registered
<1>2. TypeOK
  BY <1>1, AttemptsAssumption DEF Init, TypeOK
<1>3. AttemptsLeft /\ OwnPort /\ NewProcess /\ OwnAnswer /\ Answered /\ MocksRegistered
  BY <1>1 DEF Init, AttemptsLeft, OwnPort, NewProcess, OwnAnswer, Answered, MocksRegistered, Alive
<1> QED BY <1>2, <1>3 DEF IInv

\* Every action keeps the types.
LEMMA NextTypeOK == TypeOK /\ AttemptsLeft /\ NewProcess /\ [Next]_vars => TypeOK' /\ AttemptsLeft'
<1> SUFFICES ASSUME TypeOK, AttemptsLeft, NewProcess, [Next]_vars
             PROVE  TypeOK' /\ AttemptsLeft'
  OBVIOUS
<1> USE AttemptsAssumption DEF TypeOK, AttemptsLeft, behave, os, ghosts
<1>1. CASE UNCHANGED vars
  BY <1>1 DEF vars
<1>2. CASE BeginScenario
  BY <1>2 DEF BeginScenario
<1>3. ASSUME NEW p \in Procs, StartService(p) PROVE TypeOK' /\ AttemptsLeft'
  BY <1>3 DEF StartService
<1>4. ASSUME NEW p \in Procs, StopMock(p) PROVE TypeOK' /\ AttemptsLeft'
  BY <1>4 DEF StopMock, Terminate
<1>5. CASE EndSteps
  BY <1>5 DEF EndSteps
<1>6. ASSUME NEW q \in Procs, NEW isMock \in BOOLEAN, CheckAnswered(q, isMock)
      PROVE TypeOK' /\ AttemptsLeft'
  <2>1. popen \in Procs
    BY <1>6 DEF CheckAnswered, NewProcess
  <2>2. cleanups' \in Seq(Procs)
    BY <1>6, <2>1, RegisterOne DEF CheckAnswered, Register
  <2> QED BY <1>6, <2>1, <2>2 DEF CheckAnswered, Register
<1>7. CASE CheckTimesOut
  BY <1>7 DEF CheckTimesOut
<1>8. CASE CheckRefused
  BY <1>8 DEF CheckRefused
<1>9. CASE MockStopped
  BY <1>9 DEF MockStopped
<1>10. CASE RunCleanup
  <2>1. cleanups' \in Seq(Procs) /\ cleanups[Len(cleanups)] \in Procs
    BY <1>10, UnregisterLast DEF RunCleanup
  <2> QED BY <1>10, <2>1 DEF RunCleanup, Terminate
<1>11. CASE PopContext
  BY <1>11 DEF PopContext
<1>12. ASSUME NEW p \in Procs, Bind(p) PROVE TypeOK' /\ AttemptsLeft'
  BY <1>12 DEF Bind
<1>13. ASSUME NEW p \in Procs, Exit(p) PROVE TypeOK' /\ AttemptsLeft'
  BY <1>13 DEF Exit
<1> QED
  BY <1>1, <1>2, <1>3, <1>4, <1>5, <1>6, <1>7, <1>8, <1>9, <1>10, <1>11, <1>12,
     <1>13 DEF Next, Harness

\* The part of the invariant that relates processes, ports and cleanups.
Rest == OwnPort /\ NewProcess /\ OwnAnswer /\ Answered /\ MocksRegistered

\* Popen: the guard of the start step keeps new processes away from the ports of
\* the scenario, and portWasFree says that nobody else was there.
LEMMA StartKeepsRest ==
  ASSUME IInv, NEW p \in Procs, StartService(p)
  PROVE  Rest'
<1> USE DEF IInv, TypeOK, StartService, behave, os, ghosts
<1>1. Registered' = Registered /\ Registered \subseteq Procs
  BY RegisteredSame, RegisteredType
<1>2. p \notin Registered /\ \A q \in Registered : port[q] # port[p]
  BY DEF NewProcess, Registered
<1>3. OwnPort'
  BY <1>1, <1>2 DEF OwnPort, Alone, Alive
<1>4. NewProcess' /\ OwnAnswer'
  BY <1>1, <1>2 DEF NewProcess, OwnAnswer
<1>5. Answered'
  BY <1>1 DEF Answered, Alive
<1>6. MocksRegistered'
  BY <1>1 DEF MocksRegistered
<1> QED BY <1>3, <1>4, <1>5, <1>6 DEF Rest

\* The check passes: on a port nobody else has, only the new process answers.
LEMMA AnswerKeepsRest ==
  ASSUME IInv, NEW q \in Procs, NEW isMock \in BOOLEAN, CheckAnswered(q, isMock)
  PROVE  Rest'
<1> USE DEF IInv, TypeOK, CheckAnswered, Register, behave, os, ghosts
<1>1. popen \in Procs \ Registered
  BY DEF NewProcess
<1>2. Registered' = Registered \cup {popen} /\ Registered \subseteq Procs
  BY <1>1, RegisterOne, RegisteredType
<1>3. portWasFree[popen] => q = popen
  BY <1>1 DEF OwnPort, Alone, Alive, Servers
<1>4. OwnPort'
  BY <1>1, <1>2 DEF OwnPort, Alone, Alive
<1>5. NewProcess' /\ OwnAnswer'
  BY <1>1, <1>2, <1>3 DEF NewProcess, OwnAnswer
<1>6. Answered'
  BY <1>1, <1>2 DEF Answered, Alive, NewProcess
<1>7. MocksRegistered'
  BY <1>1, <1>2 DEF MocksRegistered
<1> QED BY <1>4, <1>5, <1>6, <1>7 DEF Rest

\* A cleanup signals the process it unregisters.
LEMMA CleanupKeepsRest == IInv /\ RunCleanup => Rest'
<1> SUFFICES ASSUME IInv, RunCleanup PROVE Rest'
  OBVIOUS
<1> USE DEF IInv, TypeOK, RunCleanup, Terminate, behave, os, ghosts
<1> DEFINE last == cleanups[Len(cleanups)]
<1>1. /\ Registered' \subseteq Registered
      /\ Registered \subseteq Registered' \cup {last}
      /\ last \in Procs
  BY UnregisterLast
<1> HIDE DEF last
<1>2. signalled' = IF Alive(last) THEN signalled \cup {last} ELSE signalled
  BY DEF last
<1>3. OwnPort' /\ NewProcess' /\ OwnAnswer'
  BY <1>1 DEF OwnPort, Alone, Alive, NewProcess, OwnAnswer
<1>4. Answered'
  BY <1>1, <1>2 DEF Answered, Alive
<1>5. MocksRegistered'
  BY DEF MocksRegistered
<1> QED BY <1>3, <1>4, <1>5 DEF Rest

\* The other actions register nothing and start nothing.
LEMMA NextRest == IInv /\ [Next]_vars => Rest'
<1> SUFFICES ASSUME IInv, [Next]_vars PROVE Rest'
  OBVIOUS
<1>1. CASE \/ UNCHANGED vars \/ BeginScenario \/ EndSteps \/ CheckTimesOut
           \/ CheckRefused \/ MockStopped \/ PopContext
  <2>1. cleanups' = cleanups /\ UNCHANGED <<os, ghosts>> /\ popen' \in {popen, NoProc}
    BY <1>1 DEF vars, BeginScenario, EndSteps, CheckTimesOut, CheckRefused,
                MockStopped, PopContext, behave
  <2>2. Registered' = Registered
    BY <2>1, RegisteredSame
  <2>3. pc' = "check" => pc = "check" /\ popen' = popen
    BY <1>1 DEF vars, BeginScenario, EndSteps, CheckTimesOut, CheckRefused,
                MockStopped, PopContext, behave
  <2>4. OwnPort' /\ NewProcess' /\ OwnAnswer' /\ Answered'
    BY <2>1, <2>2, <2>3 DEF IInv, OwnPort, Alone, Alive, NewProcess, OwnAnswer,
                            Answered, os, ghosts
  <2>5. MocksRegistered'
    BY <1>1, <2>2 DEF IInv, MocksRegistered, vars, BeginScenario, EndSteps,
                      CheckTimesOut, CheckRefused, MockStopped, PopContext, behave
  <2> QED BY <2>4, <2>5 DEF Rest
<1>2. ASSUME NEW p \in Procs, StopMock(p) PROVE Rest'
  <2> USE DEF StopMock, Terminate, ghosts
  <2>1. Registered' = Registered
    BY <1>2, RegisteredSame
  <2> QED
    BY <1>2, <2>1 DEF IInv, TypeOK, Rest, OwnPort, Alone, Alive, NewProcess,
                      OwnAnswer, Answered, MocksRegistered
<1>3. ASSUME NEW p \in Procs, Bind(p) \/ Exit(p) PROVE Rest'
  <2> USE DEF Bind, Exit, behave, ghosts
  <2>1. Registered' = Registered /\ Registered \subseteq Procs
    BY <1>3, RegisteredSame, RegisteredType DEF IInv, TypeOK
  <2>2. \A q \in Procs : Alive(q)' => Alive(q)
    BY <1>3 DEF IInv, TypeOK, Alive
  <2>3. \A q \in Procs : process'[q] = "unborn" <=> process[q] = "unborn"
    BY <1>3 DEF IInv, TypeOK, Alive
  <2>4. OwnPort'
    BY <1>3, <2>1, <2>2 DEF IInv, OwnPort, Alone
  <2>5. NewProcess' /\ OwnAnswer' /\ MocksRegistered'
    BY <1>3, <2>1, <2>3 DEF IInv, NewProcess, OwnAnswer, MocksRegistered
  <2>6. Answered'
    BY <1>3, <2>1, <2>2, <2>3 DEF IInv, Answered
  <2> QED BY <2>4, <2>5, <2>6 DEF Rest
<1> QED
  BY <1>1, <1>2, <1>3, StartKeepsRest, AnswerKeepsRest, CleanupKeepsRest
     DEF Next, Harness

\* The invariant holds in every reachable state.
LEMMA Invariance == Spec => []IInv
<1>1. Init => IInv
  BY InitInvariant
<1>2. IInv /\ [Next]_vars => IInv'
  BY NextTypeOK, NextRest DEF IInv, Rest
<1> QED BY <1>1, <1>2, PTL DEF Spec

-----------------------------------------------------------------------------

\* The state of behave and of the processes keeps its types, for every set of
\* processes and ports.
THEOREM TypeCorrect == Spec => []TypeOK
<1>1. IInv => TypeOK
  BY DEF IInv
<1> QED BY <1>1, Invariance, PTL

\* For every number of processes, ports and attempts: a start step that passed
\* on a free port was answered by its own process (common_http.py:25-41).
THEOREM CheckSound == Spec => []CheckSoundOnFreePort
<1>1. IInv => CheckSoundOnFreePort
  BY DEF IInv, OwnAnswer, CheckSoundOnFreePort, Registered
<1> QED BY <1>1, Invariance, PTL

\* For every number of processes: the only processes a scenario leaves without a
\* signal are those of start steps that raised (ccx_data_engineering_service.py:61-62).
THEOREM NoAnsweredLeak == Spec => []OnlyUnansweredLeak
<1>1. IInv => OnlyUnansweredLeak
  BY DEF IInv, Answered, MocksRegistered, OnlyUnansweredLeak, Registered
<1> QED BY <1>1, Invariance, PTL

\* For every number of processes: a stop step that passes leaves the port of a
\* mock silent if it was free before (ccx_inference_service.py:69-75).
THEOREM StopSilences == Spec => StoppedMockIsSilent
<1>1. ASSUME IInv, [Next]_vars, pc = "stopping", pc' = "steps", portWasFree[popen]
      PROVE  Servers(port[popen]) = {}
  <2>1. MockStopped
    BY <1>1 DEF Next, Harness, vars, behave, BeginScenario, StartService, StopMock,
                EndSteps, CheckAnswered, Register, CheckTimesOut, CheckRefused, RunCleanup,
                PopContext, Bind, Exit
  <2>2. popen \in Registered
    BY <1>1 DEF IInv, MocksRegistered
  <2>3. Alone(popen) /\ ~Alive(popen)
    BY <1>1, <2>1, <2>2 DEF IInv, OwnPort, MockStopped
  <2> QED BY <2>3 DEF Servers, Alone, Alive
<1>2. IInv /\ [Next]_vars
        => [pc = "stopping" /\ pc' = "steps" /\ portWasFree[popen]
              => Servers(port[popen]) = {}]_vars
  BY <1>1
<1> QED BY <1>2, Invariance, PTL DEF Spec, StoppedMockIsSilent

=============================================================================
