------------------------- MODULE ParquetFactory_proofs -------------------------
(***************************************************************************)
(* That no run of Parquet Factory outlives its step, that a verdict on it  *)
(* is right unless its time was up, that the bucket holds objects of the   *)
(* scenario only, and that the logs are those of its last run: for any     *)
(* partitions, files, rows, and numbers of scenarios, steps and messages.  *)
(* The program ends before behave leaves the step, and a killed one has    *)
(* been reached by its timer, which then has fired (End). A bucket that is *)
(* not there is empty (Storage). A line is written while its step runs,    *)
(* about a message that is the scenario's if the topic was emptied         *)
(* (Written).                                                              *)
(***************************************************************************)
EXTENDS ParquetFactory, TLAPS

Message == [hour : Hours, scenario : 0..MaxScenarios]
Steps == {"steps", "communicate", "verdict"}

\* Types, as far as the steps depend on them.
Shape ==
  /\ TypeOK
  /\ records \in [Partitions -> Seq(Message)]
  /\ \A p \in Partitions : Len(records[p]) <= MaxMessages
  /\ committed \in [Partitions -> Nat] /\ position \in [Partitions -> Nat]
  /\ DOMAIN context = {"client", "broken", "fresh", "clean", "run", "verdict", "logs"}
  /\ context.fresh \in BOOLEAN /\ context.clean \in BOOLEAN

\* A killed process was reached by its timer. The timer of a run is cancelled
\* when behave asks for the verdict, which it does when the process has ended.
\* The background has no verdict.
End ==
  /\ NoFactoryOutlivesItsStep
  /\ pc = "verdict" => factory \in {"finished", "killed"}
  /\ factory = "killed" => timer \in {"fired", "over"}
  /\ pc \in {"communicate", "verdict"} => timer # "cancelled"
  /\ pc \notin Steps => context.verdict = "none"
  /\ WrongVerdictNeedsTimeout

Storage ==
  /\ bucket = "absent" => objects = {}
  /\ BucketOfThisScenario

\* Messages in a topic that was emptied, and lines of the run that goes on, are
\* of this scenario. The background has no logs.
Written ==
  /\ pc = "idle" => context = NoContext
  /\ pc \notin Steps => context.logs = {}
  /\ context.fresh =>
       \A p \in Partitions : \A i \in 1..Len(records[p]) : records[p][i].scenario = scenario
  /\ pc \in {"communicate", "verdict"} =>
       /\ context.run = steps /\ (context.clean => context.fresh)
       /\ \A line \in output : line.run = steps /\ (context.clean => line.scenario = scenario)
  /\ LogsOfTheLastRun

IInv == Shape /\ End /\ Storage /\ Written

-----------------------------------------------------------------------------
(* The steps *)

ScenarioSteps == BeginScenario \/ EmptyTopic \/ Connect \/ BackgroundFails \/ EndScenario
BucketSteps == BucketExists \/ CleanBucket \/ RemoveOldBucket \/ MakeNewBucket
TimerSteps  == TimerFires \/ TimerKills \/ TimerEnds

\* Steps that look something up change nothing.
LEMMA NextCases ==
  ASSUME Next
  PROVE  \/ ScenarioSteps \/ BucketSteps \/ SetEnvironment \/ BrokerDeletes
         \/ \E p \in Partitions, hour \in Hours : FillTopic(p, hour)
         \/ StartFactory \/ CommunicateReturns \/ AskTimer \/ TimerSteps
         \/ \E p \in Partitions : FactoryReads(p)
         \/ \E file \in Files : FactoryStores(file)
         \/ FactoryCommits \/ FactoryExits \/ Check
<1>1. ASSUME NEW verdict, CheckVerdict(verdict) PROVE Check
  BY <1>1 DEF CheckVerdict
<1>2. ASSUME NEW p, NEW offset, NEW message,
             CheckLogsTable(p, offset, message) \/ CheckNoLogsTable(p, offset, message)
      PROVE  Check
  BY <1>2 DEF CheckLogsTable, CheckNoLogsTable
<1>3. ASSUME CheckLogsMessage \/ CheckBucket PROVE Check
  BY <1>3 DEF CheckLogsMessage, CheckBucket
<1>4. ASSUME NEW file, CheckObject(file) PROVE Check
  BY <1>4 DEF CheckObject
<1> QED BY <1>1, <1>2, <1>3, <1>4 DEF Next, Run, ScenarioSteps, BucketSteps, TimerSteps

\* The invariant holds at the start.
LEMMA InitInvariant == Init => IInv
<1> SUFFICES ASSUME Init PROVE IInv
  OBVIOUS
<1>1. /\ context.logs = {} /\ context.verdict = "none" /\ context.fresh = FALSE /\ context.clean = FALSE
      /\ context.client \in BOOLEAN
      /\ DOMAIN context = {"client", "broken", "fresh", "clean", "run", "verdict", "logs"}
  BY DEF Init, NoContext
<1>2. /\ records \in [Partitions -> Seq(Message)]
      /\ \A p \in Partitions : Len(records[p]) = 0 /\ committed[p] = 0 /\ position[p] = 0
      /\ committed \in [Partitions -> Nat] /\ position \in [Partitions -> Nat]
  BY DEF Init, NoRecords, NoOffsets
<1>3. TypeOK
  <2>1. names \subseteq ObjectNames /\ NamesOf(objects) = {} /\ objects = {}
    BY DEF Init, NamesOf
  <2>2. scenario \in 0..MaxScenarios /\ steps \in 0..MaxSteps
    BY BoundsAssumption DEF Init
  <2>3. \A p \in Partitions : committed[p] <= Len(records[p]) /\ position[p] <= Len(records[p])
    <3> SUFFICES ASSUME NEW p \in Partitions
                 PROVE  committed[p] <= Len(records[p]) /\ position[p] <= Len(records[p])
      OBVIOUS
    <3>1. committed[p] = 0 /\ position[p] = 0 /\ Len(records[p]) = 0
      BY <1>2
    <3>2. 0 <= 0
      OBVIOUS
    <3> QED BY <3>1, <3>2, Zenon
  <2>4. context.logs \subseteq Lines /\ output \subseteq Lines
    BY <1>1 DEF Init
  <2>5. /\ topic = "absent" /\ bucket = "absent" /\ pc = "idle" /\ factory = "none" /\ timer = "off"
        /\ DOMAIN records = Partitions
    BY DEF Init, NoRecords
  <2> QED BY <1>1, <2>1, <2>2, <2>3, <2>4, <2>5 DEF TypeOK
<1>4. Shape
  <2>1. 0 <= MaxMessages
    BY BoundsAssumption
  <2>2. \A p \in Partitions : Len(records[p]) <= MaxMessages
    BY <1>2, <2>1, Zenon
  <2> QED BY <1>1, <1>2, <1>3, <2>2 DEF Shape
<1> QED BY <1>1, <1>4 DEF Init, IInv, End, Steps, Storage, Written, NoFactoryOutlivesItsStep,
           WrongVerdictNeedsTimeout, BucketOfThisScenario, LogsOfTheLastRun

\* Every step keeps the end of the runs in order.
LEMMA EndStep == ASSUME IInv, [Next]_vars PROVE End'
<1> USE DEF IInv, End, Steps, NoFactoryOutlivesItsStep, WrongVerdictNeedsTimeout
<1>0. DOMAIN context = {"client", "broken", "fresh", "clean", "run", "verdict", "logs"}
  BY DEF Shape
<1>1. CASE ScenarioSteps
  <2>1. CASE Raise
    <3>1. pc' = "idle" /\ context'.verdict = "none" /\ UNCHANGED <<factory, timer>>
      BY <2>1 DEF Raise, NoContext, process
    <3>2. factory # "running"
      BY <1>1, <2>1 DEF ScenarioSteps, BeginScenario, EmptyTopic, Connect, BackgroundFails, EndScenario
    <3> QED BY <3>1, <3>2
  <2>2. CASE BeginScenario \/ EmptyTopic \/ Connect
    <3>1. context'.verdict = context.verdict /\ UNCHANGED <<factory, timer>>
      BY <1>0, <2>2 DEF BeginScenario, EmptyTopic, Connect, process
    <3>2. \/ pc \notin Steps /\ pc' \notin Steps
          \/ pc = "steps" /\ pc' = pc
      BY <2>2 DEF BeginScenario, EmptyTopic, Connect
    <3> QED BY <3>1, <3>2
  <2> QED BY <1>1, <2>1, <2>2 DEF ScenarioSteps, BackgroundFails, EndScenario
<1>2. CASE BucketSteps
  <2>1. UNCHANGED <<context, factory, timer>>
    BY <1>2 DEF BucketSteps, BucketExists, CleanBucket, RemoveOldBucket, MakeNewBucket, Background,
                process
  <2>2. pc \notin Steps /\ (pc' \notin Steps \/ pc' = "steps")
    BY <1>2 DEF BucketSteps, BucketExists, CleanBucket, RemoveOldBucket, MakeNewBucket, Background
  <2> QED BY <2>1, <2>2
<1>3. CASE SetEnvironment
  BY <1>0, <1>3 DEF SetEnvironment, Step, process
<1>4. CASE BrokerDeletes
  BY <1>4 DEF BrokerDeletes, behave
<1>5. ASSUME NEW p \in Partitions, NEW hour \in Hours, FillTopic(p, hour) PROVE End'
  BY <1>5 DEF FillTopic, Step, process
<1>6. CASE StartFactory
  BY <1>0, <1>6 DEF StartFactory, Step
<1>7. CASE CommunicateReturns
  BY <1>7 DEF CommunicateReturns, Exited
<1>8. CASE AskTimer
  <2>1. context'.verdict = IF timer = "over" THEN "timed out" ELSE "finished"
    BY <1>0, <1>8 DEF AskTimer
  <2> QED BY <1>8, <2>1 DEF AskTimer
<1>9. CASE TimerSteps
  <2>1. UNCHANGED <<pc, context>>
    BY <1>9 DEF TimerSteps, TimerFires, TimerKills, TimerEnds, Timer, Program, behave
  <2>2. CASE timer = "armed" /\ timer' = "fires" /\ factory' = factory
    BY <2>1, <2>2
  <2>3. CASE timer = "fires" /\ timer' = "fired"
             /\ factory' = IF factory = "running" THEN "killed" ELSE factory
    BY <2>1, <2>3
  <2>4. CASE timer = "fired" /\ timer' = "over" /\ factory' = factory
    BY <2>1, <2>4
  <2> QED BY <1>9, <2>2, <2>3, <2>4 DEF TimerSteps, TimerFires, TimerKills, TimerEnds, Timer
<1>10. ASSUME NEW p \in Partitions, FactoryReads(p) PROVE End'
  BY <1>10 DEF FactoryReads, Program, behave
<1>11. ASSUME NEW file \in Files, FactoryStores(file) PROVE End'
  BY <1>11 DEF FactoryStores, Program, behave, process
<1>12. CASE FactoryCommits
  BY <1>12 DEF FactoryCommits, Program, behave, process
<1>13. CASE FactoryExits
  BY <1>13 DEF FactoryExits, Program, behave
<1>14. CASE Check
  BY <1>14 DEF Check, Step, process
<1>15. CASE UNCHANGED vars
  BY <1>15 DEF vars, behave, process
<1> QED BY <1>1, <1>2, <1>3, <1>4, <1>5, <1>6, <1>7, <1>8, <1>9, <1>10, <1>11, <1>12, <1>13,
           <1>14, <1>15, NextCases

\* Every step keeps the bucket in order.
LEMMA StorageStep == ASSUME IInv, [Next]_vars PROVE Storage'
<1> USE DEF IInv, Storage, BucketOfThisScenario
<1>1. CASE ScenarioSteps
  BY <1>1 DEF ScenarioSteps, BeginScenario, EmptyTopic, Connect, BackgroundFails, EndScenario,
              Raise, storage
<1>2. CASE BucketSteps
  BY <1>2 DEF BucketSteps, BucketExists, CleanBucket, RemoveOldBucket, MakeNewBucket, Background,
              storage, ListObjects, RemoveObject, RemoveBucket, MakeBucket
<1>3. CASE SetEnvironment
  BY <1>3 DEF SetEnvironment, Step, storage
<1>4. CASE BrokerDeletes
  BY <1>4 DEF BrokerDeletes, behave, storage
<1>5. ASSUME NEW p \in Partitions, NEW hour \in Hours, FillTopic(p, hour) PROVE Storage'
  BY <1>5 DEF FillTopic, Step, storage
<1>6. CASE StartFactory
  BY <1>6 DEF StartFactory, Step, storage
<1>7. CASE CommunicateReturns
  BY <1>7 DEF CommunicateReturns, Behave, storage
<1>8. CASE AskTimer
  BY <1>8 DEF AskTimer, Behave, storage
<1>9. CASE TimerSteps
  BY <1>9 DEF TimerSteps, TimerFires, TimerKills, TimerEnds, Timer, Program, behave, storage
<1>10. ASSUME NEW p \in Partitions, FactoryReads(p) PROVE Storage'
  BY <1>10 DEF FactoryReads, Program, behave, storage
<1>11. ASSUME NEW file \in Files, FactoryStores(file) PROVE Storage'
  <2>1. pc = "communicate" /\ pc' = pc /\ scenario' = scenario
    BY <1>11 DEF FactoryStores, Program, behave, End, NoFactoryOutlivesItsStep
  <2>2. PICK rows \in SUBSET Table : PutObject(file, rows, scenario)
    BY <1>11 DEF FactoryStores
  <2>3. bucket' = "present" /\ \A o \in objects' : o \in objects \/ o.scenario = scenario
    BY <2>2, <2>1 DEF PutObject
  <2> QED BY <2>1, <2>3
<1>12. CASE FactoryCommits
  BY <1>12 DEF FactoryCommits, Program, behave, storage
<1>13. CASE FactoryExits
  BY <1>13 DEF FactoryExits, Program, behave, storage
<1>14. CASE Check
  BY <1>14 DEF Check, Step, storage
<1>15. CASE UNCHANGED vars
  BY <1>15 DEF vars, behave, storage
<1> QED BY <1>1, <1>2, <1>3, <1>4, <1>5, <1>6, <1>7, <1>8, <1>9, <1>10, <1>11, <1>12, <1>13,
           <1>14, <1>15, NextCases

\* Every step keeps to the run and to the scenario what is written.
LEMMA WrittenStep == ASSUME IInv, [Next]_vars PROVE Written'
<1> USE DEF IInv, Written, LogsOfTheLastRun, Steps
<1>0. /\ DOMAIN context = {"client", "broken", "fresh", "clean", "run", "verdict", "logs"}
      /\ records \in [Partitions -> Seq(Message)]
  BY DEF Shape
<1>1. CASE ScenarioSteps
  <2>1. CASE Raise
    <3>1. /\ pc' = "idle" /\ context' = NoContext /\ ~context'.fresh /\ context'.logs = {}
      BY <2>1 DEF Raise, NoContext
    <3> QED BY <3>1
  <2>2. CASE BeginScenario
    <3>1. /\ pc = "idle" /\ pc' = "topic" /\ context' = context
          /\ ~context.fresh /\ context.logs = {}
      BY <2>2 DEF BeginScenario, NoContext
    <3> QED BY <3>1
  <2>3. CASE EmptyTopic
    <3>1. /\ pc' \notin {"idle", "communicate", "verdict"} /\ scenario' = scenario
          /\ (pc' = "steps" /\ pc = "steps") \/ (pc' \notin Steps /\ pc \notin Steps)
          /\ context'.logs = context.logs /\ context'.clean = context.clean
          /\ context'.run = context.run
          /\ context'.fresh => records' = NoRecords
      BY <1>0, <2>3 DEF EmptyTopic
    <3>2. \A p \in Partitions : Len(NoRecords[p]) = 0
      BY DEF NoRecords
    <3> QED BY <3>1, <3>2
  <2>4. CASE Connect
    <3>1. /\ pc = "connect" /\ pc' = "bucket" /\ UNCHANGED <<records, scenario>>
          /\ context'.logs = context.logs /\ context'.fresh = context.fresh
      BY <1>0, <2>4 DEF Connect, kafka
    <3> QED BY <3>1
  <2> QED BY <1>1, <2>1, <2>2, <2>3, <2>4 DEF ScenarioSteps, BackgroundFails, EndScenario
<1>2. CASE BucketSteps
  <2>1. UNCHANGED <<records, scenario, context>>
    BY <1>2 DEF BucketSteps, BucketExists, CleanBucket, RemoveOldBucket, MakeNewBucket, Background,
                kafka
  <2>2. pc' \in {"make", "clean", "steps"} /\ pc \notin Steps
    BY <1>2 DEF BucketSteps, BucketExists, CleanBucket, RemoveOldBucket, MakeNewBucket, Background,
                Steps
  <2> QED BY <2>1, <2>2
<1>3. CASE SetEnvironment
  <2>1. /\ pc = "steps" /\ pc' = pc /\ UNCHANGED <<records, scenario>>
        /\ context'.logs = context.logs /\ context'.clean = context.clean
        /\ context'.fresh = context.fresh /\ context'.run = context.run
    BY <1>0, <1>3 DEF SetEnvironment, Step, kafka
  <2> QED BY <2>1
<1>4. CASE BrokerDeletes
  <2>1. UNCHANGED <<pc, scenario, steps, context, output>> /\ records' = NoRecords
    BY <1>4 DEF BrokerDeletes, behave, DeletionCompletes
  <2>2. \A p \in Partitions : Len(NoRecords[p]) = 0
    BY DEF NoRecords
  <2> QED BY <2>1, <2>2
<1>5. ASSUME NEW p \in Partitions, NEW hour \in Hours, FillTopic(p, hour) PROVE Written'
  <2> DEFINE m == [hour |-> hour, scenario |-> scenario]
  <2>1. /\ pc = "steps" /\ UNCHANGED <<pc, scenario, context>>
        /\ records' = [records EXCEPT ![p] = records[p] \o <<m>>]
    BY <1>5 DEF FillTopic, Step, Produce
  <2>2. m.scenario = scenario
    OBVIOUS
  <2> HIDE DEF m
  <2>3. \A i \in 1..Len(records'[p]) : records'[p][i] = m \/ (i \in 1..Len(records[p]) /\ records'[p][i] = records[p][i])
    BY <1>0, <2>1
  <2>4. \A q \in Partitions : q # p => records'[q] = records[q]
    BY <1>0, <2>1
  <2>5. ASSUME context.fresh, NEW q \in Partitions, NEW i \in 1..Len(records'[q])
        PROVE  records'[q][i].scenario = scenario
    BY <2>2, <2>3, <2>4, <2>5
  <2> QED BY <2>1, <2>5
<1>6. CASE StartFactory
  <2>1. /\ pc' = "communicate" /\ output' = {} /\ UNCHANGED <<records, scenario>>
        /\ context'.logs = context.logs /\ context'.clean = context.fresh
        /\ context'.fresh = context.fresh /\ context'.run = steps'
    BY <1>0, <1>6 DEF StartFactory, Step, kafka
  <2> QED BY <2>1
<1>7. CASE CommunicateReturns
  <2>1. /\ pc = "communicate" /\ pc' = "verdict"
        /\ UNCHANGED <<context, scenario, steps, output, records>>
    BY <1>7 DEF CommunicateReturns, Behave, kafka
  <2> QED BY <2>1
<1>8. CASE AskTimer
  <2>1. /\ pc = "verdict" /\ pc' = "steps" /\ UNCHANGED <<scenario, steps, output, records>>
        /\ context'.logs = output /\ context'.clean = context.clean
        /\ context'.fresh = context.fresh /\ context'.run = context.run
    BY <1>0, <1>8 DEF AskTimer, Behave, kafka
  <2> QED BY <2>1
<1>9. CASE TimerSteps \/ FactoryCommits \/ FactoryExits
  <2>1. UNCHANGED <<pc, scenario, steps, context, records, output>>
    BY <1>9 DEF TimerSteps, TimerFires, TimerKills, TimerEnds, Timer, FactoryCommits, FactoryExits,
                Program, behave, process, kafka
  <2> QED BY <2>1
<1>10. ASSUME NEW p \in Partitions, FactoryReads(p) PROVE Written'
  <2> DEFINE offset == position[p]
             m == records[p][offset + 1]
             line(text) == [partition |-> p, offset |-> offset, message |-> text,
                            run |-> steps, scenario |-> m.scenario]
  <2>1. /\ UNCHANGED <<pc, scenario, steps, context, records>>
        /\ factory = "running" /\ offset < Len(records[p])
        /\ \E text \in Messages : output' = output \cup {line(text)}
    BY <1>10 DEF FactoryReads, Program, behave, kafka, Messages
  <2>2. pc = "communicate"
    BY <2>1 DEF End, NoFactoryOutlivesItsStep
  <2>3. \A text \in Messages : line(text).run = steps /\ line(text).scenario = m.scenario
    OBVIOUS
  <2>4. context.fresh => m.scenario = scenario
    <3>1. offset \in Nat /\ Len(records[p]) \in Nat
      BY <1>0 DEF Shape
    <3> QED BY <2>1, <3>1
  <2> HIDE DEF line, m, offset
  <2> QED BY <2>1, <2>2, <2>3, <2>4
<1>11. ASSUME NEW file \in Files, FactoryStores(file) PROVE Written'
  <2>1. UNCHANGED <<pc, scenario, steps, context, records, output>>
    BY <1>11 DEF FactoryStores, Program, behave, process, kafka
  <2> QED BY <2>1
<1>12. CASE Check
  <2>1. /\ pc = "steps" /\ UNCHANGED <<pc, scenario, context, records>>
    BY <1>12 DEF Check, Step, kafka
  <2> QED BY <2>1
<1>13. CASE UNCHANGED vars
  <2>1. UNCHANGED <<pc, scenario, steps, context, records, output>>
    BY <1>13 DEF vars, behave, process, kafka
  <2> QED BY <2>1
<1> QED BY <1>1, <1>2, <1>3, <1>4, <1>5, <1>6, <1>7, <1>8, <1>9, <1>10, <1>11, <1>12, <1>13,
           NextCases

\* A step of the topic keeps the offsets within it.
LEMMA OffsetsKept ==
  ASSUME Shape, Offsets, records' = records \/ records' = NoRecords
  PROVE  /\ records' \in [Partitions -> Seq(Message)]
         /\ \A p \in Partitions : Len(records'[p]) <= MaxMessages
         /\ committed' \in [Partitions -> Nat] /\ position' \in [Partitions -> Nat]
         /\ \A p \in Partitions :
              committed'[p] <= Len(records'[p]) /\ position'[p] <= Len(records'[p])
<1>1. CASE records' = NoRecords
  <2>1. committed' = NoOffsets /\ position' = NoOffsets
    BY <1>1 DEF Offsets
  <2>2. /\ records' \in [Partitions -> Seq(Message)]
        /\ committed' \in [Partitions -> Nat] /\ position' \in [Partitions -> Nat]
    BY <1>1, <2>1 DEF NoRecords, NoOffsets
  <2>3. \A p \in Partitions : Len(records'[p]) = 0 /\ committed'[p] = 0 /\ position'[p] = 0
    BY <1>1, <2>1 DEF NoRecords, NoOffsets
  <2>4. 0 <= 0 /\ 0 <= MaxMessages
    BY BoundsAssumption
  <2>5. /\ \A p \in Partitions : Len(records'[p]) <= MaxMessages
        /\ \A p \in Partitions :
             committed'[p] <= Len(records'[p]) /\ position'[p] <= Len(records'[p])
    BY <2>3, <2>4, Zenon
  <2> QED BY <2>2, <2>5
<1>2. CASE records' = records /\ records' # NoRecords
  BY <1>2 DEF Offsets, Shape, TypeOK
<1> QED BY <1>1, <1>2

\* What a bucket holds under a name, it holds once.
Objects ==
  /\ bucket \in {"absent", "present"}
  /\ names \subseteq ObjectNames /\ NamesOf(objects) \subseteq ObjectNames
  /\ \A o, other \in objects : o.name = other.name => o = other

\* The calls of the S3 client, and the program's, keep that.
LEMMA ObjectsKept ==
  ASSUME Objects,
         \/ UNCHANGED storage
         \/ names' = {} /\ UNCHANGED <<bucket, objects>>
         \/ ListObjects \/ \E name \in names : RemoveObject(name)
         \/ RemoveBucket \/ MakeBucket
         \/ \E file \in Files, rows \in SUBSET Table : PutObject(file, rows, scenario)
  PROVE  Objects'
<1> USE DEF Objects, NamesOf
<1>1. CASE UNCHANGED storage \/ (names' = {} /\ UNCHANGED <<bucket, objects>>)
  BY <1>1 DEF storage
<1>2. CASE ListObjects \/ RemoveBucket \/ MakeBucket
  BY <1>2 DEF ListObjects, RemoveBucket, MakeBucket
<1>3. CASE \E name \in names : RemoveObject(name)
  BY <1>3 DEF RemoveObject
<1>4. ASSUME NEW file \in Files, NEW rows \in SUBSET Table, PutObject(file, rows, scenario)
      PROVE  Objects'
  <2> DEFINE new == [name |-> ObjectName(file), rows |-> rows, scenario |-> scenario]
  <2>1. /\ objects' = {o \in objects : o.name # ObjectName(file)} \cup {new}
        /\ UNCHANGED <<bucket, names>>
    BY <1>4 DEF PutObject
  <2>2. new.name = ObjectName(file) /\ ObjectName(file) \in ObjectNames
    BY DEF ObjectNames
  <2> HIDE DEF new
  <2>3. ObjectNames' = ObjectNames
    BY DEF ObjectNames
  <2> QED BY <2>1, <2>2, <2>3
<1> QED BY <1>1, <1>2, <1>3, <1>4

\* Every step keeps the bucket's objects unique.
LEMMA ObjectsStep == ASSUME IInv, [Next]_vars PROVE Objects'
<1>1. Objects
  BY DEF IInv, Shape, TypeOK, Objects
<1>2. CASE ScenarioSteps
  <2>1. UNCHANGED storage \/ (names' = {} /\ UNCHANGED <<bucket, objects>>)
    BY <1>2 DEF ScenarioSteps, BeginScenario, EmptyTopic, Connect, BackgroundFails, EndScenario,
                Raise, storage
  <2> QED BY <1>1, <2>1, ObjectsKept
<1>3. CASE BucketSteps
  <2>1. \/ UNCHANGED storage \/ ListObjects \/ \E name \in names : RemoveObject(name)
        \/ RemoveBucket \/ MakeBucket
    BY <1>3 DEF BucketSteps, BucketExists, CleanBucket, RemoveOldBucket, MakeNewBucket
  <2> QED BY <1>1, <2>1, ObjectsKept
<1>4. ASSUME NEW file \in Files, FactoryStores(file) PROVE Objects'
  BY <1>1, <1>4, ObjectsKept DEF FactoryStores
<1>5. CASE \/ SetEnvironment \/ BrokerDeletes \/ StartFactory \/ CommunicateReturns \/ AskTimer
           \/ TimerSteps \/ FactoryCommits \/ FactoryExits \/ Check \/ UNCHANGED vars
           \/ \E p \in Partitions, hour \in Hours : FillTopic(p, hour)
           \/ \E p \in Partitions : FactoryReads(p)
  <2>1. UNCHANGED storage
    BY <1>5 DEF SetEnvironment, BrokerDeletes, StartFactory, CommunicateReturns, AskTimer, Behave,
                TimerSteps, TimerFires, TimerKills, TimerEnds, Timer, FactoryCommits, FactoryExits,
                Check, vars, FillTopic, FactoryReads
  <2> QED BY <1>1, <2>1, ObjectsKept
<1> QED BY <1>2, <1>3, <1>4, <1>5, NextCases

\* The topic, and the offsets in it.
Log ==
  /\ topic \in {"absent", "present", "doomed"}
  /\ records \in [Partitions -> Seq(Message)]
  /\ \A p \in Partitions : Len(records[p]) <= MaxMessages
  /\ committed \in [Partitions -> Nat] /\ position \in [Partitions -> Nat]
  /\ \A p \in Partitions : committed[p] <= Len(records[p]) /\ position[p] <= Len(records[p])

\* Every step keeps the topic and the offsets in it.
LEMMA LogStep == ASSUME IInv, [Next]_vars PROVE Log'
<1>1. Log /\ Shape /\ scenario \in 0..MaxScenarios
  BY DEF IInv, Shape, TypeOK, Log
<1>2. CASE EmptyTopic \/ BrokerDeletes
  <2>1. /\ topic' \in {"absent", "present", "doomed"} /\ Offsets
        /\ records' = records \/ records' = NoRecords
    BY <1>1, <1>2 DEF Log, EmptyTopic, BrokerDeletes, RecreateTopic, CreateTopic, DeletionCompletes,
                      kafka
  <2> QED BY <1>1, <2>1, OffsetsKept DEF Log
<1>3. ASSUME NEW p \in Partitions, NEW hour \in Hours, FillTopic(p, hour) PROVE Log'
  <2> DEFINE m == [hour |-> hour, scenario |-> scenario]
  <2>1. /\ Len(records[p]) < MaxMessages /\ records' = [records EXCEPT ![p] = records[p] \o <<m>>]
        /\ topic' \in {"present", topic} /\ UNCHANGED <<committed, position>>
    BY <1>3 DEF FillTopic, Produce, process
  <2>2. m \in Message
    BY <1>1 DEF Message
  <2> HIDE DEF m
  <2>3. records[p] \o <<m>> \in Seq(Message) /\ Len(records[p] \o <<m>>) = Len(records[p]) + 1
    BY <1>1, <2>2 DEF Log
  <2>4. records' \in [Partitions -> Seq(Message)]
    BY <1>1, <2>1, <2>3 DEF Log
  <2>5. \A q \in Partitions : /\ q = p => Len(records'[q]) = Len(records[q]) + 1
                              /\ q # p => Len(records'[q]) = Len(records[q])
    BY <1>1, <2>1, <2>3 DEF Log
  <2>6. \A q \in Partitions : Len(records[q]) \in Nat /\ committed[q] \in Nat /\ position[q] \in Nat
    BY <1>1 DEF Log
  <2>7. ASSUME NEW q \in Partitions
        PROVE  /\ Len(records'[q]) <= MaxMessages
               /\ committed[q] <= Len(records'[q]) /\ position[q] <= Len(records'[q])
    <3>1. /\ Len(records[q]) <= MaxMessages
          /\ committed[q] <= Len(records[q]) /\ position[q] <= Len(records[q])
      BY <1>1 DEF Log
    <3>2. MaxMessages \in Nat /\ UNCHANGED <<committed, position>>
      BY <2>1, BoundsAssumption
    <3>3. CASE q = p
      <4>1. Len(records[q]) + 1 <= MaxMessages /\ Len(records'[q]) = Len(records[q]) + 1
        BY <2>1, <2>5, <2>6, <3>2, <3>3
      <4> QED BY <2>6, <3>1, <3>2, <4>1
    <3>4. CASE q # p
      BY <2>5, <3>1, <3>2, <3>4
    <3> QED BY <3>3, <3>4
  <2> QED BY <1>1, <2>1, <2>4, <2>7 DEF Log
<1>4. CASE StartFactory
  <2>1. UNCHANGED <<topic, records, committed>> /\ position' = committed
    BY <1>4 DEF StartFactory, kafka
  <2> QED BY <1>1, <2>1 DEF Log
<1>5. ASSUME NEW p \in Partitions, FactoryReads(p) PROVE Log'
  <2>1. /\ position[p] < Len(records[p]) /\ UNCHANGED <<topic, records, committed>>
        /\ position' \in {position, [position EXCEPT ![p] = position[p] + 1]}
    BY <1>5 DEF FactoryReads, Program, kafka
  <2>2. CASE position' = position
    BY <1>1, <2>1, <2>2 DEF Log
  <2>3. CASE position' = [position EXCEPT ![p] = position[p] + 1]
    <3>1. position' \in [Partitions -> Nat]
      BY <1>1, <2>3 DEF Log
    <3>2. \A q \in Partitions : position'[q] <= Len(records[q])
      BY <1>1, <2>1, <2>3 DEF Log
    <3> QED BY <1>1, <2>1, <3>1, <3>2 DEF Log
  <2> QED BY <2>1, <2>2, <2>3
<1>6. CASE FactoryCommits
  <2>1. UNCHANGED <<topic, records, position>> /\ committed' = position
    BY <1>6 DEF FactoryCommits, Program, kafka, process
  <2> QED BY <1>1, <2>1 DEF Log
<1>7. CASE \/ SetEnvironment \/ CommunicateReturns \/ AskTimer \/ TimerSteps \/ FactoryExits \/ Check
           \/ UNCHANGED vars \/ \E file \in Files : FactoryStores(file)
  <2>1. UNCHANGED <<topic, records, committed, position>>
    BY <1>7 DEF SetEnvironment, CommunicateReturns, AskTimer, Behave, TimerSteps, TimerFires,
                TimerKills, TimerEnds, Timer, FactoryExits, Check, vars, FactoryStores, Program,
                process, kafka
  <2> QED BY <1>1, <2>1 DEF Log
<1>8. CASE BucketSteps \/ (ScenarioSteps /\ ~EmptyTopic)
  <2>1. UNCHANGED <<topic, records, committed, position>>
    BY <1>8 DEF BucketSteps, BucketExists, CleanBucket, RemoveOldBucket, MakeNewBucket, Background,
                ScenarioSteps, BeginScenario, Connect, BackgroundFails, EndScenario, Raise, process,
                kafka
  <2> QED BY <1>1, <2>1 DEF Log
<1> QED BY <1>2, <1>3, <1>4, <1>5, <1>6, <1>7, <1>8, NextCases

\* behave, its context, and the process.
Rest ==
  /\ pc \in {"idle", "topic", "connect", "bucket", "clean", "make", "steps",
             "communicate", "verdict"}
  /\ scenario \in 0..MaxScenarios /\ steps \in 0..MaxSteps
  /\ DOMAIN context = {"client", "broken", "fresh", "clean", "run", "verdict", "logs"}
  /\ context.fresh \in BOOLEAN /\ context.clean \in BOOLEAN
  /\ context.client \in BOOLEAN /\ context.verdict \in {"none", "finished", "timed out"}
  /\ context.logs \subseteq Lines /\ output \subseteq Lines
  /\ factory \in {"none", "running", "finished", "killed"}
  /\ timer \in {"off", "armed", "fires", "fired", "over", "cancelled"}

\* A step that leaves the context and the process alone keeps the rest, too.
LEMMA RestKept ==
  ASSUME Rest, pc' \in {pc, "make", "clean", "steps"}, output' \subseteq Lines,
         UNCHANGED <<scenario, steps, context, factory, timer>>
  PROVE  Rest'
<1>1. Lines' = Lines
  BY DEF Lines
<1>2. pc' \in {"idle", "topic", "connect", "bucket", "clean", "make", "steps",
              "communicate", "verdict"}
  BY DEF Rest
<1> QED BY <1>1, <1>2 DEF Rest

\* Every step keeps their types.
LEMMA RestStep == ASSUME IInv, [Next]_vars PROVE Rest'
<1>1. Rest
  BY DEF IInv, Shape, TypeOK, Rest
<1>0. /\ scenario < MaxScenarios => scenario + 1 \in 0..MaxScenarios
      /\ steps < MaxSteps => steps + 1 \in 0..MaxSteps
      /\ Lines' = Lines /\ 0 \in 0..MaxSteps
  <2>1. Lines' = Lines
    BY DEF Lines
  <2>2. MaxScenarios \in Nat /\ MaxSteps \in Nat
    BY BoundsAssumption
  <2>3. scenario \in 0..MaxScenarios /\ steps \in 0..MaxSteps
    BY <1>1 DEF Rest
  <2> QED BY <2>1, <2>2, <2>3
<1>2. CASE BeginScenario
  <2>1. /\ pc' = "topic" /\ scenario' = scenario + 1 /\ scenario < MaxScenarios
        /\ UNCHANGED <<steps, context, factory, timer, output>>
    BY <1>2 DEF BeginScenario, process
  <2> QED BY <1>0, <1>1, <2>1 DEF Rest
<1>3. CASE EmptyTopic
  <2>1. /\ context'.fresh \in BOOLEAN /\ context'.clean = context.clean /\ context'.logs = context.logs
        /\ context'.client = context.client /\ context'.verdict = context.verdict
        /\ DOMAIN context' = DOMAIN context
    BY <1>1, <1>3 DEF EmptyTopic, Rest
  <2>2. /\ pc' \in {"connect", "steps"} /\ UNCHANGED <<scenario, factory, timer, output>>
        /\ steps' \in {steps, steps + 1} /\ (steps' = steps \/ steps < MaxSteps)
    BY <1>3 DEF EmptyTopic
  <2> QED BY <1>0, <1>1, <2>1, <2>2 DEF Rest
<1>4. CASE Connect \/ SetEnvironment
  <2>1. /\ context'.fresh = context.fresh /\ context'.clean = context.clean /\ context'.logs = context.logs
        /\ context'.client \in BOOLEAN /\ context'.verdict = context.verdict
        /\ DOMAIN context' = DOMAIN context
    BY <1>1, <1>4 DEF Connect, SetEnvironment, Rest
  <2>2. /\ pc' \in {"bucket", "steps"} /\ UNCHANGED <<scenario, factory, timer, output>>
        /\ steps' \in {steps, steps + 1} /\ (steps' = steps \/ steps < MaxSteps)
    BY <1>4 DEF Connect, SetEnvironment, Step, process
  <2> QED BY <1>0, <1>1, <2>1, <2>2 DEF Rest
<1>5. CASE BackgroundFails \/ EndScenario
  <2>1. /\ context'.fresh = FALSE /\ context'.clean = FALSE /\ context'.logs = {}
        /\ context'.client = FALSE /\ context'.verdict = "none"
        /\ DOMAIN context' = {"client", "broken", "fresh", "clean", "run", "verdict", "logs"}
    BY <1>5 DEF BackgroundFails, EndScenario, Raise, NoContext
  <2>2. pc' = "idle" /\ steps' = 0 /\ UNCHANGED <<scenario, factory, timer, output>>
    BY <1>5 DEF BackgroundFails, EndScenario, Raise, process
  <2> QED BY <1>0, <1>1, <2>1, <2>2 DEF Rest
<1>6. CASE BucketSteps
  <2>1. /\ pc' \in {"make", "clean", "steps"}
        /\ UNCHANGED <<scenario, steps, context, factory, timer>> /\ output' \subseteq Lines
    BY <1>1, <1>6 DEF Rest, BucketSteps, BucketExists, CleanBucket, RemoveOldBucket, MakeNewBucket, Background,
                process
  <2> QED BY <1>1, <2>1, RestKept
<1>7. CASE StartFactory
  <2>1. /\ context'.fresh = context.fresh /\ context'.clean = context.fresh /\ context'.logs = context.logs
        /\ context'.client = context.client /\ context'.verdict = "finished"
        /\ DOMAIN context' = DOMAIN context
    BY <1>1, <1>7 DEF StartFactory, Rest
  <2>2. /\ pc' = "communicate" /\ factory' = "running" /\ timer' = "armed" /\ output' = {}
        /\ scenario' = scenario /\ steps' = steps + 1 /\ steps < MaxSteps
    BY <1>7 DEF StartFactory, Step
  <2> QED BY <1>0, <1>1, <2>1, <2>2 DEF Rest
<1>8. CASE AskTimer
  <2>1. /\ context'.fresh = context.fresh /\ context'.clean = context.clean /\ context'.logs = output
        /\ context'.client = context.client /\ context'.verdict \in {"timed out", "finished"}
        /\ DOMAIN context' = DOMAIN context
    BY <1>1, <1>8 DEF AskTimer, Rest
  <2>2. /\ pc' = "steps" /\ timer' \in {timer, "cancelled"}
        /\ UNCHANGED <<factory, scenario, steps, output>>
    BY <1>8 DEF AskTimer, Behave
  <2> QED BY <1>0, <1>1, <2>1, <2>2 DEF Rest
<1>9. ASSUME NEW p \in Partitions, FactoryReads(p) PROVE Rest'
  <2> DEFINE offset == position[p]
             m == records[p][offset + 1]
             line(text) == [partition |-> p, offset |-> offset, message |-> text,
                            run |-> steps, scenario |-> m.scenario]
  <2>1. /\ UNCHANGED <<pc, scenario, steps, context, factory, timer>>
        /\ offset < Len(records[p])
        /\ \E text \in Messages : output' = output \cup {line(text)}
    BY <1>9 DEF FactoryReads, Program, behave, kafka, Messages
  <2>2. /\ offset \in Nat /\ records[p] \in Seq(Message) /\ Len(records[p]) <= MaxMessages
        /\ Len(records[p]) \in Nat
    BY DEF IInv, Shape
  <2>3. offset \in 0..(MaxMessages - 1) /\ m \in Message
    BY <2>1, <2>2, BoundsAssumption
  <2>4. m.scenario \in 0..MaxScenarios
    BY <2>3 DEF Message
  <2> HIDE DEF offset, m
  <2>5. \A text \in Messages : line(text) \in Lines
    BY <1>1, <2>3, <2>4 DEF Rest, Lines
  <2> HIDE DEF line
  <2>6. output' \subseteq Lines
    BY <1>1, <2>1, <2>5 DEF Rest
  <2> QED BY <1>1, <2>1, <2>6, RestKept
<1>10. CASE \/ BrokerDeletes \/ CommunicateReturns \/ TimerSteps \/ FactoryCommits
            \/ FactoryExits \/ Check \/ UNCHANGED vars
            \/ \E p \in Partitions, hour \in Hours : FillTopic(p, hour)
            \/ \E file \in Files : FactoryStores(file)
  <2>1. /\ UNCHANGED <<scenario, context, output>>
        /\ pc' \in {pc, "verdict"} /\ factory' \in {factory, "killed", "finished"}
        /\ timer' \in {timer, "fires", "fired", "over"}
        /\ steps' \in {steps, steps + 1} /\ (steps' = steps \/ steps < MaxSteps)
    BY <1>10 DEF FillTopic, BrokerDeletes, CommunicateReturns, TimerSteps, TimerFires, TimerKills,
                 TimerEnds, Timer, FactoryCommits, FactoryExits, Check, vars, FactoryStores,
                 Program, Behave, Step, behave, process
  <2>2. steps' \in 0..MaxSteps
    BY <1>0, <1>1, <2>1 DEF Rest
  <2>3. /\ pc' \in {"idle", "topic", "connect", "bucket", "clean", "make", "steps",
                   "communicate", "verdict"}
        /\ factory' \in {"none", "running", "finished", "killed"}
        /\ timer' \in {"off", "armed", "fires", "fired", "over", "cancelled"}
    BY <1>1, <2>1 DEF Rest
  <2> QED BY <1>0, <1>1, <2>1, <2>2, <2>3 DEF Rest
<1> QED BY <1>2, <1>3, <1>4, <1>5, <1>6, <1>7, <1>8, <1>9, <1>10, NextCases DEF ScenarioSteps

\* Every step keeps the invariant.
LEMMA NextInvariant == IInv /\ [Next]_vars => IInv'
<1> SUFFICES ASSUME IInv, [Next]_vars PROVE IInv'
  OBVIOUS
<1>1. Objects' /\ Log' /\ Rest'
  BY ObjectsStep, LogStep, RestStep
<1>2. DOMAIN records' = Partitions
  BY <1>1 DEF Log
<1>3. Shape'
  BY <1>1, <1>2 DEF Objects, Log, Rest, Shape, TypeOK
<1> QED BY <1>3, EndStep, StorageStep, WrittenStep DEF IInv

\* IInv is an invariant.
LEMMA Invariant == Spec => []IInv
  BY InitInvariant, NextInvariant, PTL DEF Spec

-----------------------------------------------------------------------------
(* The theorems *)

\* Type correctness: no variable leaves its type in any step.
THEOREM TypeCorrect == Spec => []TypeOK
<1>1. IInv => TypeOK
  BY DEF IInv, Shape
<1> QED BY <1>1, Invariant, PTL

\* A run of Parquet Factory has ended when its step does (run_parquet_factory
\* waits in communicate, and its timer kills).
THEOREM NoneOutlives == Spec => []NoFactoryOutlivesItsStep
<1>1. IInv => NoFactoryOutlivesItsStep
  BY DEF IInv, End
<1> QED BY <1>1, Invariant, PTL

\* A run that ends before its timer fires is said to have finished, and has: only
\* one whose time is up can be killed and said to have finished, or finish and be
\* said to have timed out (timer.is_alive, then timer.cancel).
THEOREM WrongOnlyAfterTimeout == Spec => []WrongVerdictNeedsTimeout
<1>1. IInv => WrongVerdictNeedsTimeout
  BY DEF IInv, End
<1> QED BY <1>1, Invariant, PTL

\* The bucket of a scenario's steps is there, and holds objects of its own runs
\* (create_bucket cleans, removes and makes it).
THEOREM OwnBucket == Spec => []BucketOfThisScenario
<1>1. IInv => BucketOfThisScenario
  BY DEF IInv, Storage
<1> QED BY <1>1, Invariant, PTL

\* The logs that the checks look at are those of the last run, and about
\* messages of the scenario if its topic was really emptied (the log files are
\* opened for writing, and read when the run has ended).
THEOREM OwnLogs == Spec => []LogsOfTheLastRun
<1>1. IInv => LogsOfTheLastRun
  BY DEF IInv, Written
<1> QED BY <1>1, Invariant, PTL
================================================================================
