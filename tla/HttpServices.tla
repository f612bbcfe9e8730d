----------------------------- MODULE HttpServices -----------------------------
(***************************************************************************)
(* The HTTP services of the ccx-upgrades features: the steps of            *)
(* ccx_data_engineering_service.py and ccx_inference_service.py that start *)
(* and stop the two services and their mocks, and check_service_started of *)
(* common_http.py, which decides that a service is up.                     *)
(*                                                                         *)
(* Each service is a uvicorn process on a fixed port. Nothing waits for it *)
(* to exit at the end of a scenario: behave only calls the terminate of    *)
(* the processes given to context.add_cleanup, and the next scenario       *)
(* starts its own processes on the same ports.                             *)
(***************************************************************************)
EXTENDS Naturals, Sequences

CONSTANTS
  Procs,     \* the processes Popen may create: bounds the starts of a run
  NoProc,    \* no process
  Ports,     \* the ports the features name
  Attempts   \* the attempts of check_service_started

ASSUME NoProcAssumption   == NoProc \notin Procs
ASSUME AttemptsAssumption == Attempts \in Nat \ {0}

VARIABLES
  pc,          \* what behave is doing
  popen,       \* the process the current step starts or stops
  attempts,    \* the attempts check_service_started has left
  cleanups,    \* the processes whose terminate was given to add_cleanup
  mocks,       \* context.mock_rhobs and context.mock_inference
  process,     \* what the operating system knows of each process
  port,        \* the port a process is started on
  signalled,   \* the processes that were sent SIGTERM
  portWasFree, \* whether no live process had the port when one was started
  answeredBy   \* who gave a process its answer in check_service_started

behave == <<pc, popen, attempts, cleanups, mocks>>
os     == <<process, port, signalled>>
ghosts == <<portWasFree, answeredBy>>
vars   == <<behave, os, ghosts>>

TypeOK ==
  /\ pc \in {"idle", "steps", "check", "stopping", "cleanup"}
  /\ popen \in Procs \cup {NoProc}
  /\ attempts \in 0..Attempts
  /\ cleanups \in Seq(Procs)
  /\ mocks \subseteq Procs
  /\ process \in [Procs -> {"unborn", "booting", "serving", "dead"}]
  /\ port \in [Procs -> Ports]
  /\ signalled \subseteq Procs
  /\ portWasFree \in [Procs -> BOOLEAN]
  /\ answeredBy \in [Procs -> Procs \cup {NoProc}]

Alive(p)    == process[p] \in {"booting", "serving"}
Servers(pt) == {p \in Procs : process[p] = "serving" /\ port[p] = pt}

Init ==
  /\ pc = "idle" /\ popen = NoProc /\ attempts = 0
  /\ cleanups = <<>> /\ mocks = {}
  /\ process = [p \in Procs |-> "unborn"]
  /\ port \in [Procs -> Ports]
  /\ signalled = {}
  /\ portWasFree = [p \in Procs |-> FALSE]
  /\ answeredBy = [p \in Procs |-> NoProc]

\* popen.terminate(): a process that has exited is not signalled.
Terminate(p) == signalled' = IF Alive(p) THEN signalled \cup {p} ELSE signalled

-----------------------------------------------------------------------------
(* Starting a service *)

BeginScenario ==
  /\ pc = "idle"
  /\ pc' = "steps"
  /\ UNCHANGED <<popen, attempts, cleanups, mocks, os, ghosts>>

\* "The ... Service is running on port ...". A scenario starts at most one
\* service on a port.
StartService(p) ==
  /\ pc = "steps"
  /\ process[p] = "unborn"
  /\ \A i \in DOMAIN cleanups : port[cleanups[i]] # port[p]
  /\ process' = [process EXCEPT ![p] = "booting"]
  /\ portWasFree' = [portWasFree EXCEPT ![p] =
                       \A q \in Procs : Alive(q) => port[q] # port[p]]
  /\ popen' = p
  /\ attempts' = Attempts
  /\ pc' = "check"
  /\ UNCHANGED <<cleanups, mocks, port, signalled, answeredBy>>

\* Mutant: the process replaces the one registered before it.
RegisterReplacing(isMock) ==
  /\ cleanups' = <<popen>>
  /\ mocks' = IF isMock THEN mocks \cup {popen} ELSE mocks

\* The end of a start step: its process is given to add_cleanup, and kept in the
\* context if it is a mock.
Register(isMock) ==
  /\ cleanups' = Append(cleanups, popen)
  /\ mocks' = IF isMock THEN mocks \cup {popen} ELSE mocks

\* Somebody answers on the port: the step registers its process and passes.
CheckAnswered(q, isMock) ==
  /\ pc = "check"
  /\ q \in Servers(port[popen])
  /\ answeredBy' = [answeredBy EXCEPT ![popen] = q]
  /\ Register(isMock)
  /\ pc' = "steps"
  /\ UNCHANGED <<popen, attempts, os, portWasFree>>

\* The answer takes longer than the two seconds of request_endpoint: ReadTimeout
\* is no ConnectionError, and the step raises before it registers its process.
CheckTimesOut ==
  /\ pc = "check"
  /\ Servers(port[popen]) # {}
  /\ pc' = "cleanup"
  /\ UNCHANGED <<popen, attempts, cleanups, mocks, os, ghosts>>

Refused == \A q \in Servers(port[popen]) : q \in signalled

\* Mutant: the attempts are not counted.
CheckRefusedUncounted ==
  /\ pc = "check"
  /\ Refused
  /\ attempts > 0
  /\ UNCHANGED vars

\* Mutant: the loop ends without raising when the attempts are used up.
CheckRefusedWithoutRaise ==
  /\ pc = "check"
  /\ Refused
  /\ attempts' = attempts - 1
  /\ \/ attempts' > 0 /\ UNCHANGED <<pc, cleanups>>
     \/ attempts' = 0 /\ pc' = "steps" /\ cleanups' = Append(cleanups, popen)
  /\ UNCHANGED <<popen, mocks, os, ghosts>>

\* Mutant: one attempt too many, `while attempts >= 0`.
CheckRefusedOnceMore ==
  /\ pc = "check"
  /\ Refused
  /\ attempts' = attempts - 1
  /\ \/ attempts' >= 0 /\ UNCHANGED pc
     \/ attempts' < 0 /\ pc' = "cleanup"
  /\ UNCHANGED <<popen, cleanups, mocks, os, ghosts>>

\* Nobody accepts the connection, or a server that is exiting resets it.
CheckRefused ==
  /\ pc = "check"
  /\ Refused
  /\ attempts' = attempts - 1
  /\ \/ attempts' > 0 /\ UNCHANGED pc
     \/ attempts' = 0 /\ pc' = "cleanup"
  /\ UNCHANGED <<popen, cleanups, mocks, os, ghosts>>

-----------------------------------------------------------------------------
(* Stopping a mock *)

\* "I stop the mock ... Service": terminate, then poll until it has exited.
StopMock(p) ==
  /\ pc = "steps"
  /\ p \in mocks
  /\ Terminate(p)
  /\ popen' = p
  /\ pc' = "stopping"
  /\ UNCHANGED <<attempts, cleanups, mocks, process, port, ghosts>>

\* Mutant: the step does not wait.
MockStoppedAtOnce ==
  /\ pc = "stopping"
  /\ pc' = "steps"
  /\ UNCHANGED <<popen, attempts, cleanups, mocks, os, ghosts>>

MockStopped ==
  /\ pc = "stopping"
  /\ ~Alive(popen)
  /\ pc' = "steps"
  /\ UNCHANGED <<popen, attempts, cleanups, mocks, os, ghosts>>

-----------------------------------------------------------------------------
(* The end of a scenario *)

\* The last step passed, or a step raised.
EndSteps ==
  /\ pc = "steps"
  /\ pc' = "cleanup"
  /\ UNCHANGED <<popen, attempts, cleanups, mocks, os, ghosts>>

\* behave runs the cleanups last in, first out.
RunCleanup ==
  /\ pc = "cleanup"
  /\ cleanups # <<>>
  /\ Terminate(cleanups[Len(cleanups)])
  /\ cleanups' = SubSeq(cleanups, 1, Len(cleanups) - 1)
  /\ UNCHANGED <<pc, popen, attempts, mocks, process, port, ghosts>>

PopContext ==
  /\ pc = "cleanup"
  /\ cleanups = <<>>
  /\ pc' = "idle" /\ popen' = NoProc /\ mocks' = {} /\ attempts' = 0
  /\ UNCHANGED <<cleanups, os, ghosts>>

-----------------------------------------------------------------------------
(* The uvicorn processes (external) *)

Bind(p) ==
  /\ process[p] = "booting"
  /\ Servers(port[p]) = {}
  /\ process' = [process EXCEPT ![p] = "serving"]
  /\ UNCHANGED <<behave, port, signalled, ghosts>>

\* On SIGTERM, because the port is taken or for a reason of its own.
Exit(p) ==
  /\ Alive(p)
  /\ process' = [process EXCEPT ![p] = "dead"]
  /\ UNCHANGED <<behave, port, signalled, ghosts>>

-----------------------------------------------------------------------------

Harness ==
  \/ \E q \in Procs, isMock \in BOOLEAN : CheckAnswered(q, isMock)
  \/ CheckTimesOut
  \/ CheckRefused
  \/ MockStopped
  \/ RunCleanup
  \/ PopContext

Next ==
  \/ BeginScenario
  \/ \E p \in Procs : StartService(p)
  \/ \E p \in Procs : StopMock(p)
  \/ EndSteps
  \/ Harness
  \/ \E p \in Procs : Bind(p) \/ Exit(p)

Spec == Init /\ [][Next]_vars

\* behave goes on with a step it has begun, and uvicorn exits on SIGTERM.
Fairness ==
  /\ WF_vars(Harness)
  /\ \A p \in Procs : WF_vars(p \in signalled /\ Exit(p))

FairSpec == Spec /\ Fairness

-----------------------------------------------------------------------------
(* Properties *)

\* A start step that passed on a port no live process had was answered by the
\* process it started, not by another one and not by nobody (common_http.py:25-41).
CheckSoundOnFreePort ==
  \A i \in DOMAIN cleanups :
    portWasFree[cleanups[i]] => answeredBy[cleanups[i]] = cleanups[i]

\* After a scenario every process whose check was answered has been told to
\* exit; only a start step that raised leaks its process, because add_cleanup
\* comes after the check (ccx_data_engineering_service.py:61-62).
OnlyUnansweredLeak ==
  pc = "idle" => \A p \in Procs :
    Alive(p) => p \in signalled \/ answeredBy[p] = NoProc

\* After "I stop the mock ..." nobody answers on the port of the mock, if it was
\* free when the mock was started (ccx_inference_service.py:69-75).
StoppedMockIsSilent ==
  [][pc = "stopping" /\ pc' = "steps" /\ portWasFree[popen]
       => Servers(port[popen]) = {}]_vars

\* Start and stop steps come to an end whatever the processes do: the attempts
\* run out, and a mock that was told to exit does.
StepsComeToAnEnd == pc \in {"check", "stopping"} ~> pc \in {"steps", "cleanup"}

\* "Any response is valid as it means the service started" (common_http.py:28):
\* the answer that makes a start step pass comes from the service it started.
AnswerMeansStarted ==
  \A i \in DOMAIN cleanups : answeredBy[cleanups[i]] = cleanups[i]

=============================================================================
