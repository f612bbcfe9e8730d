------------------------- MODULE ExtractorLifecycle -------------------------
(***************************************************************************)
(* The life of the SHA extractor and DVO extractor processes during one    *)
(* behave run: the steps of features/steps/ccx_messaging.py that start and *)
(* observe them, the after_scenario hook of features/environment.py that   *)
(* stops them, and the cleanups behave runs when it drops the context of   *)
(* the scenario.                                                           *)
(*                                                                         *)
(* An extractor is a Kafka consumer that the operating system runs beside  *)
(* the harness: it may exit on its own at any moment, it may ignore        *)
(* SIGTERM, and it stays a zombie until its Popen object polls or waits.   *)
(* Kafka itself is left out: the module is about who may be consuming.     *)
(***************************************************************************)
CONSTANTS
  Procs,    \* the processes Popen may create: bounds the starts of a run
  NoProc    \* a service that has no entry in context.services

ASSUME NoProcAssumption == NoProc \notin Procs

Tags     == {"sha_extractor", "dvo_extractor"}
Services == {"insights_sha_extractor", "dvo_extractor"}

VARIABLES
  pc,         \* what behave is doing
  tag,        \* the extractor tag among scenario.effective_tags
  services,   \* context.services, service name -> Popen object
  cleanups,   \* the processes whose terminate was given to context.add_cleanup
  failed,     \* a step of the scenario raised
  hookError,  \* after_scenario raised
  todo,       \* services the loop of after_scenario has still to visit
  current,    \* the service the loop is waiting for
  proc,       \* what the operating system knows of each process
  service,    \* the service a process was started as
  exitCode,   \* the exit code of a process that has exited
  reaped      \* the Popen objects whose returncode is known

vars == <<pc, tag, services, cleanups, failed, hookError, todo, current,
          proc, service, exitCode, reaped>>

osVars     == <<proc, service, exitCode, reaped>>
runnerVars == <<pc, tag, services, cleanups, failed, hookError, todo,
                current>>

NoService == "none"

TypeOK ==
  /\ pc \in {"idle", "steps", "hook", "wait", "kill", "cleanup"}
  /\ tag \in Tags
  /\ services \in [Services -> Procs \cup {NoProc}]
  /\ cleanups \subseteq Procs
  /\ failed \in BOOLEAN
  /\ hookError \in BOOLEAN
  /\ todo \subseteq Services
  /\ current \in Services \cup {NoService}
  /\ proc \in [Procs -> {"unborn", "running", "stopping", "killed", "exited"}]
  /\ service \in [Procs -> Services \cup {NoService}]
  /\ exitCode \in [Procs -> {"zero", "nonzero"}]
  /\ reaped \subseteq Procs

\* hasattr(context, "services"): the attribute is created by the start steps,
\* which give it an entry at once.
HasServices == \E s \in Services : services[s] # NoProc

\* A process the operating system still runs.
Alive(p) == proc[p] \in {"running", "stopping", "killed"}

Init ==
  /\ pc = "idle"
  /\ tag \in Tags
  /\ services = [s \in Services |-> NoProc]
  /\ cleanups = {}
  /\ failed = FALSE
  /\ hookError = FALSE
  /\ todo = {}
  /\ current = NoService
  /\ proc = [p \in Procs |-> "unborn"]
  /\ service = [p \in Procs |-> NoService]
  /\ exitCode = [p \in Procs |-> "zero"]
  /\ reaped = {}

-----------------------------------------------------------------------------
(* Popen *)

\* Popen.terminate(): nothing happens to a process that has already exited,
\* which send_signal finds out by polling, and so reaps.
Terminate(p) ==
  /\ proc' = [proc EXCEPT ![p] = IF @ = "running" THEN "stopping" ELSE @]
  /\ reaped' = IF Alive(p) THEN reaped ELSE reaped \cup {p}

-----------------------------------------------------------------------------
(* The scenario and its steps *)

BeginScenario(t) ==
  /\ pc = "idle"
  /\ pc' = "steps"
  /\ tag' = t
  /\ failed' = FALSE
  /\ hookError' = FALSE
  /\ UNCHANGED <<services, cleanups, todo, current, osVars>>

\* "{service} service is not started": the features start a service at most
\* once in a scenario, and this step is how they check it.
ServiceNotStarted(s) == services[s] = NoProc

\* "{service} service is started", with and without compression.
StartService(s, p) ==
  /\ pc = "steps"
  /\ ~failed
  /\ ServiceNotStarted(s)
  /\ proc[p] = "unborn"
  /\ proc' = [proc EXCEPT ![p] = "running"]
  /\ service' = [service EXCEPT ![p] = s]
  /\ cleanups' = cleanups \cup {p}
  /\ services' = [services EXCEPT ![s] = p]
  /\ UNCHANGED <<pc, tag, failed, hookError, todo, current, exitCode, reaped>>

\* "{service} service does not exit with an error code": poll() is falsy both
\* while the service runs and after it exited with code 0.
ServiceIsRunning(s) ==
  /\ pc = "steps"
  /\ ~failed
  /\ services[s] # NoProc
  /\ reaped' = IF Alive(services[s]) THEN reaped ELSE reaped \cup {services[s]}
  /\ failed' = (~Alive(services[s]) /\ exitCode[services[s]] = "nonzero")
  /\ UNCHANGED <<pc, tag, services, cleanups, hookError, todo, current, proc,
                 service, exitCode>>

\* Any step may raise: Kafka is not reachable, Popen finds no ccx-messaging, a
\* message is not found in the log in time.
StepFails ==
  /\ pc = "steps"
  /\ ~failed
  /\ failed' = TRUE
  /\ UNCHANGED <<pc, tag, services, cleanups, hookError, todo, current, osVars>>

\* Mutant: the loop runs over the values of context.services, not its keys.
EndStepsIteratingValues ==
  /\ pc = "steps"
  /\ pc' = "hook"
  /\ todo' = {services[s] : s \in Services} \ {NoProc}
  /\ UNCHANGED <<tag, services, cleanups, failed, hookError, current, osVars>>

\* The last step passed, or one failed and the remaining ones are skipped.
EndSteps ==
  /\ pc = "steps"
  /\ pc' = "hook"
  /\ todo' = {s \in Services : services[s] # NoProc}
  /\ UNCHANGED <<tag, services, cleanups, failed, hookError, current, osVars>>

-----------------------------------------------------------------------------
(* after_scenario *)

\* `and` binds tighter than `or`: only the dvo_extractor tag is guarded by
\* hasattr, and the loop over a missing context.services raises.
EntersLoop == tag = "sha_extractor" \/ (tag = "dvo_extractor" /\ HasServices)

\* Mutant: the hook gives up after terminate, before it has waited.
HookRaisesInLoop ==
  /\ pc = "hook"
  /\ EntersLoop
  /\ hookError' = TRUE
  /\ pc' = "cleanup"
  /\ UNCHANGED <<tag, services, cleanups, failed, todo, current, osVars>>

HookRaises ==
  /\ pc = "hook"
  /\ EntersLoop
  /\ ~HasServices
  /\ hookError' = TRUE
  /\ pc' = "cleanup"
  /\ UNCHANGED <<tag, services, cleanups, failed, todo, current, osVars>>

\* Mutant: terminate without wait, as the cleanups do.
HookTerminateOnly(s) ==
  /\ pc = "hook"
  /\ EntersLoop
  /\ s \in todo
  /\ Terminate(services[s])
  /\ todo' = todo \ {s}
  /\ UNCHANGED <<pc, tag, services, cleanups, failed, hookError, current, service,
                 exitCode>>

HookTerminate(s) ==
  /\ pc = "hook"
  /\ EntersLoop
  /\ s \in todo
  /\ Terminate(services[s])
  /\ current' = s
  /\ pc' = "wait"
  /\ UNCHANGED <<tag, services, cleanups, failed, hookError, todo, service,
                 exitCode>>

\* wait() has reaped the process of the current service: the assertion that
\* poll() is not None holds, and the loop goes on.
Visited ==
  /\ todo' = todo \ {current}
  /\ current' = NoService
  /\ pc' = "hook"

HookWaitReturns ==
  /\ pc \in {"wait", "kill"}
  /\ ~Alive(services[current])
  /\ reaped' = reaped \cup {services[current]}
  /\ Visited
  /\ UNCHANGED <<tag, services, cleanups, failed, hookError, proc, service,
                 exitCode>>

\* Mutant: a second SIGTERM instead of SIGKILL.
HookTerminateAgain ==
  /\ pc = "wait"
  /\ Terminate(services[current])
  /\ pc' = "kill"
  /\ UNCHANGED <<tag, services, cleanups, failed, hookError, todo, current,
                 service, exitCode>>

\* wait(timeout=10) raised TimeoutExpired.
HookKill ==
  /\ pc = "wait"
  /\ Alive(services[current])
  /\ proc' = [proc EXCEPT ![services[current]] = "killed"]
  /\ pc' = "kill"
  /\ UNCHANGED <<tag, services, cleanups, failed, hookError, todo,
                 current, service, exitCode, reaped>>

\* Mutant: the loop ends before it has visited every service.
HookReturnsEarly ==
  /\ pc = "hook"
  /\ todo' = {}
  /\ pc' = "cleanup"
  /\ UNCHANGED <<tag, services, cleanups, failed, hookError, current, osVars>>

HookReturns ==
  /\ pc = "hook"
  /\ IF EntersLoop THEN HasServices /\ todo = {} ELSE TRUE
  /\ todo' = {}
  /\ pc' = "cleanup"
  /\ UNCHANGED <<tag, services, cleanups, failed, hookError, current, osVars>>

-----------------------------------------------------------------------------
(* behave drops the context layer of the scenario *)

\* The registered terminate calls are independent of each other, so that the
\* order in which behave makes them does not matter here.
RunCleanup(p) ==
  /\ pc = "cleanup"
  /\ p \in cleanups
  /\ cleanups' = cleanups \ {p}
  /\ Terminate(p)
  /\ UNCHANGED <<pc, tag, services, failed, hookError, todo, current, service,
                 exitCode>>

PopContext ==
  /\ pc = "cleanup"
  /\ cleanups = {}
  /\ services' = [s \in Services |-> NoProc]
  /\ pc' = "idle"
  /\ UNCHANGED <<tag, cleanups, failed, hookError, todo, current, osVars>>

-----------------------------------------------------------------------------
(* The operating system and the extractors (external) *)

Exit(p, code) ==
  /\ Alive(p)
  /\ proc[p] = "killed" => code = "nonzero"
  /\ proc' = [proc EXCEPT ![p] = "exited"]
  /\ exitCode' = [exitCode EXCEPT ![p] = code]
  /\ UNCHANGED <<runnerVars, service, reaped>>

-----------------------------------------------------------------------------

Steps ==
  \/ \E t \in Tags : BeginScenario(t)
  \/ \E s \in Services, p \in Procs : StartService(s, p)
  \/ \E s \in Services : ServiceIsRunning(s)
  \/ StepFails
  \/ EndSteps

Teardown ==
  \/ HookRaises
  \/ \E s \in Services : HookTerminate(s)
  \/ HookWaitReturns
  \/ HookKill
  \/ HookReturns
  \/ \E p \in Procs : RunCleanup(p)
  \/ PopContext

Environment ==
  \E p \in Procs : \E c \in {"zero", "nonzero"} : Exit(p, c)

Next == Steps \/ Teardown \/ Environment

Spec == Init /\ [][Next]_vars

\* behave never stops in the middle of a teardown, and a process that was sent
\* SIGKILL exits. Nothing is assumed of one that was only sent SIGTERM.
Fairness ==
  /\ WF_vars(Teardown)
  /\ \A p \in Procs : WF_vars(proc[p] = "killed" /\ Exit(p, "nonzero"))

FairSpec == Spec /\ Fairness

-----------------------------------------------------------------------------
(* Properties *)

Slots == INSTANCE ConsumerSlots WITH
  open      <- pc # "idle",
  consumers <- [s \in Services |-> {p \in Procs : Alive(p) /\ service[p] = s}]

\* A process whose exit the harness has not observed yet.
Outstanding(p) == proc[p] # "unborn" /\ p \notin reaped

\* "terminate the subprocess to have one kafka consumer at a time"
\* (environment.py:98-99): of the processes started as one service, in all the
\* scenarios of the run, at most one is alive.
OneConsumerPerService ==
  \A p, q \in Procs :
    Alive(p) /\ Alive(q) /\ service[p] = service[q] => p = q

\* Between two scenarios every process that was started has exited and was
\* waited for, also after failed steps and a hook that raised: no consumer and
\* no zombie of one scenario is carried into the next.
NothingOutstandingBetweenScenarios ==
  pc = "idle" => \A p \in Procs : ~Outstanding(p) /\ ~Alive(p)

\* When after_scenario raises before it terminates anything (environment.py:100
\* with no context.services), there is nothing it should have terminated.
HookErrorLeaksNothing ==
  hookError => \A p \in Procs : ~Alive(p)

\* Seen from outside, a run only opens a scenario, lets a consumer join a free
\* slot, sees consumers leave, and closes the scenario when no consumer is left.
ImplementsConsumerSlots == Slots!Spec

\* after_scenario ends for every scenario, even if an extractor ignores SIGTERM
\* (environment.py:105-108).
TeardownEnds == (pc = "hook") ~> (pc = "idle")

=============================================================================
