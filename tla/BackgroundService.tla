--------------------------- MODULE BackgroundService ---------------------------
(***************************************************************************)
(* Services that scenarios start in the background and terminate: the      *)
(* Insights Results Aggregator (insights_results_aggregator.py) and the    *)
(* DVO writer (dvo_writer.py), whose steps are the same. behave takes one  *)
(* step after the other; a process may exit whenever it wants to, and it   *)
(* may ignore SIGTERM. Scenarios follow each other without end: of a       *)
(* process only its service, its signals, and whether the scenario that    *)
(* started it is still the current one are kept.                           *)
(***************************************************************************)
EXTENDS Naturals, SequencesExt

CONSTANTS
  Services,
  Processes,  \* pairs of a service and a number: the processes it may have
  NoProcess

ASSUME ProcessesAssumption ==
  /\ Processes \subseteq Services \X Nat
  /\ NoProcess \notin Processes

VARIABLES
  pc,        \* what behave is doing
  subject,   \* the process that the step is about
  process,   \* what is known of each process
  attribute, \* context.aggregator_process and context.dvo_writer_process
  cleanups   \* what context.add_cleanup has stacked: process.terminate

behave   == <<pc, subject>>
services == <<process, attribute, cleanups>>

ProcessRecord == [running : BOOLEAN, signalled : BOOLEAN, killed : BOOLEAN, current : BOOLEAN]
Gone  == [running |-> FALSE, signalled |-> FALSE, killed |-> FALSE, current |-> FALSE]
Fresh == [Gone EXCEPT !.running = TRUE, !.current = TRUE]

ServicesTypeOK ==
  /\ pc \in {"idle", "steps", "breathing", "waiting", "killed", "cleanup",
             "asking", "migrating", "communicating"}
  /\ subject \in Processes \cup {NoProcess}
  /\ process \in [Processes -> ProcessRecord]
  /\ attribute \in [Services -> Processes \cup {NoProcess}]
  /\ ToSet(cleanups) \subseteq Processes /\ IsInjective(cleanups)

ServicesInit ==
  /\ pc = "idle" /\ subject = NoProcess
  /\ process = [p \in Processes |-> Gone]
  /\ attribute = [s \in Services |-> NoProcess] /\ cleanups = <<>>

\* A process that is gone, and that nobody knows any more.
Unused(p) ==
  /\ ~process[p].running /\ p \notin ToSet(cleanups)
  /\ \A s \in Services : attribute[s] # p

Running(s) == attribute[s] # NoProcess /\ process[attribute[s]].running

\* Popen.terminate and Popen.kill do nothing once the process was polled dead.
Signal(p, kill) ==
  process' = [process EXCEPT ![p].signalled = @ \/ process[p].running,
                             ![p].killed = @ \/ (kill /\ process[p].running)]

BeginScenario ==
  /\ pc = "idle" /\ pc' = "steps"
  /\ UNCHANGED <<subject, services>>

\* "... service is started in background": nothing to do.
StartedAlready(s) == pc = "steps" /\ Running(s) /\ UNCHANGED <<behave, services>>

Popen(s) ==
  /\ \E p \in Processes :
       /\ p[1] = s /\ Unused(p)
       /\ process' = [process EXCEPT ![p] = Fresh]
       /\ subject' = p
  /\ pc' = "breathing" /\ UNCHANGED <<attribute, cleanups>>

\* Mutant: started again in any case.
StartAgain(s) == pc = "steps" /\ Popen(s)

\* Popen, and then the breath the process is given.
Start(s) == pc = "steps" /\ ~Running(s) /\ Popen(s)

\* Mutant: nothing is registered for the end of the scenario.
StartedUnregistered ==
  /\ pc = "breathing" /\ process[subject].running
  /\ attribute' = [attribute EXCEPT ![subject[1]] = subject]
  /\ pc' = "steps" /\ subject' = NoProcess
  /\ UNCHANGED <<process, cleanups>>

\* The process is registered, polled and stored.
Started ==
  /\ pc = "breathing" /\ process[subject].running
  /\ cleanups' = Append(cleanups, subject)
  /\ attribute' = [attribute EXCEPT ![subject[1]] = subject]
  /\ pc' = "steps" /\ subject' = NoProcess /\ UNCHANGED process

\* It has exited already: the step raises, and does not store it.
StartFails ==
  /\ pc = "breathing" /\ ~process[subject].running
  /\ cleanups' = Append(cleanups, subject)
  /\ pc' = "cleanup" /\ subject' = NoProcess /\ UNCHANGED <<process, attribute>>

\* "I terminate ...": the process has to run, and is waited for ten seconds.
Terminate(s) ==
  /\ pc = "steps" /\ Running(s)
  /\ Signal(attribute[s], FALSE)
  /\ subject' = attribute[s] /\ pc' = "waiting" /\ UNCHANGED <<attribute, cleanups>>

\* Mutant: the process is asked again, and waited for without a limit.
WaitTimesOutPolitely ==
  /\ pc = "waiting" /\ process[subject].running
  /\ Signal(subject, FALSE) /\ pc' = "killed"
  /\ UNCHANGED <<subject, attribute, cleanups>>

WaitTimesOut ==
  /\ pc = "waiting" /\ process[subject].running
  /\ Signal(subject, TRUE) /\ pc' = "killed"
  /\ UNCHANGED <<subject, attribute, cleanups>>

WaitReturns ==
  /\ pc \in {"waiting", "killed"} /\ ~process[subject].running
  /\ pc' = "steps" /\ subject' = NoProcess /\ UNCHANGED services

\* "... process should terminate"
CheckTerminated(s) ==
  /\ pc = "steps" /\ attribute[s] # NoProcess /\ ~Running(s)
  /\ UNCHANGED <<behave, services>>

\* The last step, or one that raises.
EndSteps == pc = "steps" /\ pc' = "cleanup" /\ UNCHANGED <<subject, services>>

\* The layer of the context is dropped: its cleanups run, the last one first,
\* and nobody waits for the processes they terminate.
RunCleanup ==
  /\ pc = "cleanup" /\ cleanups # <<>>
  /\ Signal(Last(cleanups), FALSE) /\ cleanups' = Front(cleanups)
  /\ UNCHANGED <<behave, attribute>>

EndScenario ==
  /\ pc = "cleanup" /\ cleanups = <<>> /\ pc' = "idle"
  /\ attribute' = [s \in Services |-> NoProcess]
  /\ process' = [p \in Processes |-> [process[p] EXCEPT !.current = FALSE]]
  /\ UNCHANGED <<subject, cleanups>>

Exit(p) ==
  /\ process[p].running /\ process' = [process EXCEPT ![p] = Gone]
  /\ UNCHANGED <<behave, attribute, cleanups>>

\* Fairness: behave goes on when a wait is over, and SIGKILL is obeyed.
KilledExits == \E p \in Processes : process[p].killed /\ Exit(p)

-----------------------------------------------------------------------------
(* Properties *)

\* A scenario never has two processes of one service that run at the same time:
\* two consumers would share its messages.
OneRunningPerService ==
  \A p, q \in Processes :
    /\ process[p].running /\ process[p].current
    /\ process[q].running /\ process[q].current
    /\ p[1] = q[1]
    => p = q

\* However a scenario ended, a service it started in the background has exited or
\* was told to.
NothingUnsignalled ==
  pc = "idle" => \A p \in Processes : process[p].running => process[p].signalled

\* The step that terminates a service ends, whether the service obeys or not.
TerminateEnds == pc = "waiting" ~> pc = "steps"
=============================================================================
