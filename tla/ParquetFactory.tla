---------------------------- MODULE ParquetFactory ----------------------------
(***************************************************************************)
(* The scenarios of Parquet Factory (parquet_factory.py): a topic and a    *)
(* bucket that are made anew, messages that are filled in, and runs of the *)
(* program under a timer that kills it. behave, the timer's thread and the *)
(* program take their steps in any order; the program is a consumer of the *)
(* topic that stores what it has aggregated and commits its offsets.       *)
(***************************************************************************)
EXTENDS KafkaTopic, Integers, S3Bucket

CONSTANTS MaxScenarios, MaxSteps, MaxMessages

ASSUME BoundsAssumption == {MaxScenarios, MaxSteps, MaxMessages} \subseteq Nat

VARIABLES
  pc,        \* what behave is doing
  scenario,  \* the number of the scenario
  steps,     \* the steps it has taken
  context,   \* attributes of the behave context
  factory,   \* the last process: "none", "running", "finished" or "killed"
  timer,     \* its Timer: "off", "armed", "fires", "fired", "over", "cancelled"
  committed, \* the offsets of the consumer group of the program
  position,  \* how far the running process has read
  output     \* the lines in its log files

behave  == <<pc, scenario, steps, context>>
process == <<factory, timer, position, output>>
vars    == <<kafka, storage, behave, process, committed>>

Hours == {"previous", "current"}
\* `fresh`, `clean` and `run` are history: whether the topic is new, whether it
\* was when the last run began, and the number of that run's step.
NoContext == [client |-> FALSE, broken |-> FALSE, fresh |-> FALSE, clean |-> FALSE,
              run |-> 0, verdict |-> "none", logs |-> {}]
Messages == {"processed", "FINISH"}
\* A line of the log; `run` and `scenario` say whose process wrote it and who
\* sent the message.
Lines == [partition : Partitions, offset : 0..(MaxMessages - 1), message : Messages,
          run : 0..MaxSteps, scenario : 0..MaxScenarios]

\* The type of every variable.
TypeOK ==
  /\ topic \in {"absent", "present", "doomed"} /\ DOMAIN records = Partitions
  /\ bucket \in {"absent", "present"}
  /\ names \subseteq ObjectNames /\ NamesOf(objects) \subseteq ObjectNames
  /\ \A o, other \in objects : o.name = other.name => o = other
  /\ pc \in {"idle", "topic", "connect", "bucket", "clean", "make", "steps",
             "communicate", "verdict"}
  /\ scenario \in 0..MaxScenarios /\ steps \in 0..MaxSteps
  /\ context.client \in BOOLEAN /\ context.verdict \in {"none", "finished", "timed out"}
  /\ context.logs \subseteq Lines /\ output \subseteq Lines
  /\ factory \in {"none", "running", "finished", "killed"}
  /\ timer \in {"off", "armed", "fires", "fired", "over", "cancelled"}
  /\ \A p \in Partitions : committed[p] <= Len(records[p]) /\ position[p] <= Len(records[p])

NoOffsets == [p \in Partitions |-> 0]

Init ==
  /\ topic = "absent" /\ records = NoRecords
  /\ bucket = "absent" /\ objects = {} /\ names = {}
  /\ pc = "idle" /\ scenario = 0 /\ steps = 0 /\ context = NoContext
  /\ factory = "none" /\ timer = "off"
  /\ committed = NoOffsets /\ position = NoOffsets /\ output = {}

-----------------------------------------------------------------------------
(* The scenario and its background *)

Raise ==
  /\ pc' = "idle" /\ steps' = 0 /\ context' = NoContext
  /\ names' = {}
  /\ UNCHANGED <<kafka, bucket, scenario, process, committed>>

BeginScenario ==
  /\ pc = "idle" /\ scenario < MaxScenarios
  /\ scenario' = scenario + 1 /\ pc' = "topic"
  /\ UNCHANGED <<kafka, storage, steps, context, process, committed>>

\* The group loses its offsets with the topic.
Offsets ==
  /\ committed' = (IF records' = NoRecords THEN NoOffsets ELSE committed)
  /\ position' = (IF records' = NoRecords THEN NoOffsets ELSE position)

\* "Kafka topic ... is empty and has 2 partitions": in the background, and
\* again between two runs.
EmptyTopic ==
  /\ \/ pc = "topic" /\ pc' = "connect" /\ UNCHANGED steps
     \/ pc = "steps" /\ steps < MaxSteps /\ steps' = steps + 1 /\ UNCHANGED pc
  /\ RecreateTopic /\ Offsets
  /\ context' = [context EXCEPT !.fresh = topic' = "present" /\ records' = NoRecords]
  /\ UNCHANGED <<storage, scenario, factory, timer, output>>

\* The S3 settings are asserted, and the client is constructed once.
Connect ==
  /\ pc = "connect" /\ pc' = "bucket"
  /\ context' = [context EXCEPT !.client = TRUE]
  /\ UNCHANGED <<kafka, storage, scenario, steps, process, committed>>

Background ==
  UNCHANGED <<kafka, scenario, steps, context, process, committed>>

\* Mutant: a bucket that exists is taken as it is.
KeepBucket ==
  /\ pc = "bucket" /\ Background /\ UNCHANGED storage
  /\ pc' = IF bucket = "absent" THEN "make" ELSE "steps"

\* "The S3 bucket is empty", as a given: create_bucket.
BucketExists ==
  /\ pc = "bucket" /\ Background
  /\ \/ bucket = "absent" /\ pc' = "make" /\ UNCHANGED storage
     \/ ListObjects /\ pc' = "clean"
CleanBucket == pc = "clean" /\ Background /\ UNCHANGED pc /\ \E name \in names : RemoveObject(name)
RemoveOldBucket == pc = "clean" /\ Background /\ RemoveBucket /\ pc' = "make"
MakeNewBucket == pc = "make" /\ Background /\ MakeBucket /\ pc' = "steps"

\* A setting is missing, or a call of Kafka or of S3 raises.
BackgroundFails ==
  pc \in {"topic", "connect", "bucket", "clean", "make"} /\ Raise /\ UNCHANGED objects

\* The last step, or a check that does not pass.
EndScenario == pc = "steps" /\ Raise /\ UNCHANGED objects

Step == pc = "steps" /\ steps < MaxSteps /\ steps' = steps + 1

\* A setting of the program that stays for the later runs of the scenario: one
\* that leads nowhere, or one that does.
SetEnvironment ==
  /\ Step /\ \E broken \in BOOLEAN : context' = [context EXCEPT !.broken = broken]
  /\ UNCHANGED <<kafka, storage, pc, scenario, process, committed>>

\* A row of "I fill the topics with messages of the ... hour".
FillTopic(p, hour) ==
  /\ Step /\ Len(records[p]) < MaxMessages
  /\ Produce(p, <<[hour |-> hour, scenario |-> scenario]>>)
  /\ UNCHANGED <<storage, pc, scenario, context, process, committed>>

BrokerDeletes ==
  /\ DeletionCompletes /\ Offsets
  /\ UNCHANGED <<storage, behave, factory, timer, output>>

-----------------------------------------------------------------------------
(* The run: behave waits for the program, and a timer waits to kill it *)

\* Mutant: the log files are opened for appending.
StartFactoryAppending ==
  /\ Step /\ pc' = "communicate"
  /\ context' = [context EXCEPT !.run = steps', !.clean = context.fresh,
                                !.verdict = "finished"]
  /\ factory' = "running" /\ timer' = "armed" /\ position' = committed
  /\ UNCHANGED <<kafka, storage, scenario, output, committed>>

\* Popen with new log files, then timer.start.
StartFactory ==
  /\ Step /\ pc' = "communicate"
  /\ context' = [context EXCEPT !.run = steps', !.clean = context.fresh,
                                !.verdict = "finished"]
  /\ factory' = "running" /\ timer' = "armed"
  /\ output' = {} /\ position' = committed
  /\ UNCHANGED <<kafka, storage, scenario, committed>>

Program == UNCHANGED <<kafka, behave>>

\* The program logs what it does with the next message of a partition; one of
\* the current hour stays where it is.
FactoryReads(p) ==
  LET offset == position[p]
  IN  /\ factory = "running" /\ offset < Len(records[p])
      /\ LET m == records[p][offset + 1]
             line(text) == [partition |-> p, offset |-> offset, message |-> text,
                            run |-> steps, scenario |-> m.scenario]
         IN  \/ /\ m.hour = "previous" /\ output' = output \cup {line("processed")}
                /\ position' = [position EXCEPT ![p] = offset + 1]
             \/ /\ m.hour = "current" /\ output' = output \cup {line("FINISH")}
                /\ line("FINISH") \notin output
                /\ UNCHANGED position
      /\ UNCHANGED <<storage, factory, timer, committed>> /\ Program

\* It stores what it has aggregated and commits afterwards, if its settings
\* are good.
FactoryStores(file) ==
  /\ factory = "running" /\ ~context.broken /\ position # committed
  /\ \E rows \in SUBSET Table : PutObject(file, rows, scenario)
  /\ UNCHANGED <<process, committed>> /\ Program

FactoryCommits ==
  /\ factory = "running" /\ ~context.broken /\ objects # {}
  /\ committed' = position
  /\ UNCHANGED <<storage, process>> /\ Program

FactoryExits ==
  /\ factory = "running" /\ factory' = "finished"
  /\ UNCHANGED <<storage, timer, position, output, committed>> /\ Program

Timer(from, to) ==
  /\ timer = from /\ timer' = to
  /\ UNCHANGED <<storage, position, output, committed>> /\ Program

TimerFires == Timer("armed", "fires") /\ UNCHANGED factory

\* Mutant: terminate instead of kill, and the program goes on.
TimerTerminates == Timer("fires", "fired") /\ UNCHANGED factory

\* proc.kill does nothing to a process that was waited for.
TimerKills ==
  /\ Timer("fires", "fired")
  /\ factory' = IF factory = "running" THEN "killed" ELSE factory

\* The timer's thread ends: is_alive is False from now on.
TimerEnds == Timer("fired", "over") /\ UNCHANGED factory

Exited == factory \in {"finished", "killed"}

Behave == UNCHANGED <<kafka, storage, scenario, steps, committed, position, output>>

\* Mutant: behave waits for the timer, not for the program.
JoinTimer ==
  /\ pc = "communicate" /\ (Exited \/ timer \in {"fires", "fired", "over"}) /\ pc' = "verdict"
  /\ UNCHANGED <<context, factory, timer>> /\ Behave

CommunicateReturns ==
  /\ pc = "communicate" /\ Exited /\ pc' = "verdict"
  /\ UNCHANGED <<context, factory, timer>> /\ Behave

\* Mutant: the timer is cancelled before it is asked whether it is alive.
CancelThenAsk ==
  /\ pc = "verdict" /\ pc' = "steps"
  /\ context' = [context EXCEPT !.logs = output,
                   !.verdict = IF timer \in {"armed", "over"} THEN "timed out" ELSE "finished"]
  /\ timer' = IF timer = "armed" THEN "cancelled" ELSE timer
  /\ UNCHANGED factory /\ Behave

\* is_alive, then cancel; the logs are read.
AskTimer ==
  /\ pc = "verdict" /\ pc' = "steps"
  /\ context' = [context EXCEPT !.logs = output,
                   !.verdict = IF timer = "over" THEN "timed out" ELSE "finished"]
  /\ timer' = IF timer = "armed" THEN "cancelled" ELSE timer
  /\ UNCHANGED factory /\ Behave

-----------------------------------------------------------------------------
(* The checks *)

Check ==
  /\ Step
  /\ UNCHANGED <<kafka, storage, pc, scenario, context, process, committed>>

\* "Parquet Factory should have finish", and "shouldn't have finish".
CheckVerdict(verdict) == context.verdict = verdict /\ Check

Holds(logs, p, offset, message) ==
  \E line \in logs : line.partition = p /\ line.offset = offset /\ line.message = message

\* A row of the tables "The logs should contain" and "The logs shouldn't
\* contain": partition, offset and message have to be in one line.
CheckLogsTable(p, offset, message) ==
  Holds(context.logs, p, offset, message) /\ Check
CheckNoLogsTable(p, offset, message) ==
  /\ context.verdict # "none" /\ ~Holds(context.logs, p, offset, message)
  /\ Check

\* The plain sentence returns what it finds and asserts nothing.
CheckLogsMessage == context.verdict # "none" /\ Check

CheckBucket ==
  /\ \/ IsEmpty \/ IsNotEmpty
     \/ \E files \in SUBSET Files : files # {} /\ (HasObjects(files) \/ LacksObjects(files))
  /\ Check

\* The content of an object, as the exporter scenarios check it.
CheckObject(file) ==
  /\ \E rows \in SUBSET Table : HasRecords(file, Cardinality(rows)) \/ HoldsOnly(file, rows)
  /\ Check

Run == CommunicateReturns \/ AskTimer \/ TimerFires \/ TimerKills \/ TimerEnds

Next ==
  \/ BeginScenario \/ EmptyTopic \/ Connect
  \/ BucketExists \/ CleanBucket \/ RemoveOldBucket \/ MakeNewBucket
  \/ BackgroundFails \/ EndScenario \/ SetEnvironment \/ BrokerDeletes
  \/ \E p \in Partitions, hour \in Hours : FillTopic(p, hour)
  \/ StartFactory \/ Run
  \/ (\E p \in Partitions : FactoryReads(p)) \/ (\E file \in Files : FactoryStores(file))
  \/ FactoryCommits \/ FactoryExits
  \/ \E verdict \in {"finished", "timed out"} : CheckVerdict(verdict)
  \/ \E p \in Partitions, offset \in 0..(MaxMessages - 1), message \in Messages :
       CheckLogsTable(p, offset, message) \/ CheckNoLogsTable(p, offset, message)
  \/ CheckLogsMessage \/ CheckBucket \/ \E file \in Files : CheckObject(file)

Spec == Init /\ [][Next]_vars

\* Python runs both threads; the program owes nobody an end.
FairSpec ==
  /\ Spec /\ WF_vars(CommunicateReturns) /\ WF_vars(AskTimer)
  /\ WF_vars(TimerFires) /\ WF_vars(TimerKills) /\ WF_vars(TimerEnds)

-----------------------------------------------------------------------------
(* Properties *)

\* A process never outlives the step that started it: it cannot store objects
\* or commit offsets in a later step or a later scenario.
NoFactoryOutlivesItsStep == pc # "communicate" => factory # "running"

\* However far the background of an earlier scenario came, and whatever the runs
\* before have stored, the bucket of a scenario's steps holds objects of its own
\* runs only.
BucketOfThisScenario ==
  pc \in {"steps", "communicate", "verdict"} =>
    bucket = "present" /\ \A o \in objects : o.scenario = scenario

\* "Make sure Parquet Factory finished gracefully" (parquet_factory.py:85): a run
\* that is said to have finished was not killed.
FinishedGracefully == pc = "steps" /\ context.verdict = "finished" => factory = "finished"

\* What the verdict does tell: a wrong one, of a killed run or of one that has
\* finished, is given only after the time of the run was up. One that ends before
\* behave's timer fires is neither killed nor said to have timed out, whatever the
\* timer's thread does when it is cancelled.
WrongVerdictNeedsTimeout ==
  pc = "steps" /\ context.verdict # "none" =>
    \/ context.verdict = "finished" /\ factory = "finished"
    \/ context.verdict = "timed out" /\ factory = "killed"
    \/ timer \in {"fires", "fired", "over"}

\* The lines that the checks of the logs look at were written by the last run of
\* the scenario, and if the topic was really empty they are about its messages.
LogsOfTheLastRun ==
  pc = "steps" =>
    \A line \in context.logs :
      line.run = context.run /\ (context.clean => line.scenario = scenario)

\* The step of a run comes to an end even if the program never does.
RunEnds == pc = "communicate" ~> pc = "steps"
===============================================================================
