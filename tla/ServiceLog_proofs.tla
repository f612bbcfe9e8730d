-------------------------- MODULE ServiceLog_proofs --------------------------
(***************************************************************************)
(* That a delete of the service log mock pops the log it was asked for, for *)
(* any number of threads, clusters and logs. The index a delete has found   *)
(* stays right because publish_log only appends, and because no two deletes *)
(* are at work: that needs the whole of behave's side, where a delete is    *)
(* always the request behave waits for (OneDelete), and behave waits for no *)
(* answer when it starts the next one (NotWaiting).                         *)
(*                                                                         *)
(* And that the count of a scenario is exact. Logs have ids of their own    *)
(* (OwnIds); a list collects every log before its index, once (Collecting), *)
(* while publish_log appends behind it; what the purge has not deleted was  *)
(* published by a request the notification service had given up (Left,      *)
(* Published), and what was acknowledged since is in the list (Acked).      *)
(*                                                                         *)
(* And that the mock implements LogStore. The answer to a list is cut from  *)
(* the list as it is when the loop ends (Collecting), and what behave was   *)
(* given and has not deleted is still there (Held), so that a delete takes  *)
(* the same log out of both.                                                *)
(***************************************************************************)
EXTENDS ServiceLog, SequenceTheorems, TLAPS

\* A delete is the request behave waits for, of the purge it is in.
OneDelete ==
  \A t \in Threads : op[t] \in {"find", "pop"} =>
    waits = t /\ pc = "purging" /\ logs # <<>>

\* Between its requests behave waits for nothing.
NotWaiting == pc \in {"idle", "running", "counted"} => waits = NoThread

\* The index of a loop is one of the list or the one after it.
AtPositive == \A t \in Threads : at[t] \in Nat \ {0}

IInv == TypeOK /\ OneDelete /\ NotWaiting /\ AtPositive /\ PopHitsItsLog

-----------------------------------------------------------------------------
(* Logs and lists *)

\* A request for the logs of a cluster is about that cluster.
LEMMA AboutType ==
  ASSUME NEW c \in Clusters
  PROVE  About(c) \in Log
<1>1. (CHOOSE i \in Ids : TRUE) \in Ids
  BY IdsAssumption
<1> QED BY <1>1 DEF About, Log

\* There is a log for an idle thread to hold.
LEMMA AnyLogType == ASSUME NEW c \in Clusters PROVE AnyLog \in Log
<1>1. (CHOOSE d \in Clusters : TRUE) \in Clusters
  OBVIOUS
<1> QED BY <1>1, AboutType DEF AnyLog

\* random_id gives the new log an id of its own.
LEMMA NewLogType ==
  ASSUME cluster \in Clusters, issued \subseteq Ids, issued # Ids
  PROVE  NewLog \in Log
<1>1. \E i \in Ids : i \notin issued
  OBVIOUS
<1> QED BY <1>1 DEF NewLog, Log

\* Popping an element leaves a list of logs.
LEMMA PopType ==
  ASSUME NEW s \in Seq(Log), NEW i \in Nat \ {0}, i <= Len(s)
  PROVE  SubSeq(s, 1, i - 1) \o SubSeq(s, i + 1, Len(s)) \in Seq(Log)
<1>1. Len(s) \in Nat /\ \A j \in 1..Len(s) : s[j] \in Log
  OBVIOUS
<1>2. SubSeq(s, 1, i - 1) \in Seq(Log)
  BY <1>1
<1>3. SubSeq(s, i + 1, Len(s)) \in Seq(Log)
  BY <1>1
<1> QED BY <1>2, <1>3

-----------------------------------------------------------------------------
(* The invariant *)

\* At the start no thread works.
LEMMA InitInvariant == Init => IInv
<1> SUFFICES ASSUME Init PROVE IInv
  OBVIOUS
<1>1. AnyLog \in Log
  BY AnyLogType DEF Init
<1>2. TypeOK
  BY <1>1 DEF Init, TypeOK
<1>3. OneDelete /\ NotWaiting /\ AtPositive /\ PopHitsItsLog
  BY DEF Init, OneDelete, NotWaiting, AtPositive, PopHitsItsLog
<1> QED BY <1>2, <1>3 DEF IInv

\* A request gives a free thread its work.
LEMMA RequestTypes ==
  ASSUME TypeOK, AtPositive, NEW t \in Threads, NEW l \in Log,
         NEW o \in {"publish", "list", "query", "find"}, Request(t, o, l)
  PROVE  /\ op' \in [Threads -> {"idle", "publish", "list", "query", "find", "pop"}]
         /\ asked' \in [Threads -> Log]
         /\ at' \in [Threads -> Nat] /\ AtPositive'
         /\ res' \in [Threads -> Seq(Log)]
  BY DEF TypeOK, AtPositive, Request

\* A response frees the thread.
LEMMA RespondTypes ==
  ASSUME TypeOK, AtPositive, NEW t \in Threads, Respond(t)
  PROVE  /\ op' \in [Threads -> {"idle", "publish", "list", "query", "find", "pop"}]
         /\ asked' \in [Threads -> Log]
         /\ at' \in [Threads -> Nat] /\ AtPositive'
         /\ res' \in [Threads -> Seq(Log)]
<1>1. AnyLog \in Log
  BY AnyLogType DEF TypeOK
<1> QED BY <1>1 DEF TypeOK, AtPositive, Respond

\* The handlers keep the types.
LEMMA HandlerTypes ==
  ASSUME IInv, NEW t \in Threads, Handler(t)
  PROVE  TypeOK' /\ AtPositive'
<1> USE DEF IInv, TypeOK, AtPositive
<1>1. CASE publish_log(t)
  <2>1. asked[t] \in Log /\ asked[t].id \in Ids
    BY DEF Log
  <2>2. log_storage' \in Seq(Log)
    BY <1>1, <2>1 DEF publish_log
  <2> QED BY <1>1, <2>1, <2>2, RespondTypes DEF publish_log, steps
<1>2. CASE Collect(t)
  <2>1. at[t] \in 1..Len(log_storage)
    BY <1>2 DEF Collect
  <2>2. log_storage[at[t]] \in Log
    BY <2>1
  <2>3. res' \in [Threads -> Seq(Log)]
    BY <1>2, <2>2 DEF Collect
  <2>4. at' \in [Threads -> Nat] /\ AtPositive'
    BY <1>2 DEF Collect
  <2> QED BY <1>2, <2>3, <2>4 DEF Collect, steps, ghosts
<1>3. CASE Collected(t)
  <2>1. logs' \in Seq(Log) /\ waits' \in Threads \cup {NoThread}
    BY <1>3 DEF Collected, Answer
  <2> QED BY <1>3, <2>1, RespondTypes DEF Collected, ghosts
<1>4. CASE Find(t)
  <2>1. op' \in [Threads -> {"idle", "publish", "list", "query", "find", "pop"}]
    BY <1>4 DEF Find
  <2>2. at' \in [Threads -> Nat] /\ AtPositive'
    <3>1. at' = at \/ at' = [at EXCEPT ![t] = @ + 1]
      BY <1>4 DEF Find
    <3>2. at \in [Threads -> Nat] /\ AtPositive
      OBVIOUS
    <3>3. CASE at' = at
      BY <3>2, <3>3
    <3>4. CASE at' = [at EXCEPT ![t] = @ + 1]
      BY <3>2, <3>4
    <3> QED BY <3>1, <3>3, <3>4
  <2>3. UNCHANGED <<log_storage, asked, res, issued, steps, posting, ghosts>>
    BY <1>4 DEF Find
  <2> QED BY <2>1, <2>2, <2>3 DEF steps, ghosts
<1>5. CASE Pop(t)
  <2>1. op[t] = "pop" /\ at[t] <= Len(log_storage) /\ logs # <<>>
    BY <1>5 DEF Pop, PopHitsItsLog, OneDelete
  <2>2. log_storage' \in Seq(Log)
    BY <1>5, <2>1, PopType DEF Pop
  <2>3. Tail(logs) \in Seq(Log)
    BY <2>1
  <2>4. logs' \in Seq(Log) /\ waits' \in Threads \cup {NoThread}
    BY <1>5, <2>3 DEF Pop, Answer
  <2> QED BY <1>5, <2>2, <2>4, RespondTypes DEF Pop, ghosts
<1> QED BY <1>1, <1>2, <1>3, <1>4, <1>5 DEF Handler

\* The steps and the other clients keep the types.
LEMMA OtherTypes ==
  ASSUME IInv, [Next]_vars, ~ \E t \in Threads : Handler(t)
  PROVE  TypeOK' /\ AtPositive'
<1> USE DEF IInv, TypeOK, AtPositive
<1>1. CASE UNCHANGED vars
  BY <1>1 DEF vars, handlers, steps, ghosts
<1>2. ASSUME NEW t \in Threads, NEW c \in Clusters, BeginScenario(t, c)
      PROVE TypeOK' /\ AtPositive'
  BY <1>2, AboutType, RequestTypes DEF BeginScenario
<1>3. ASSUME NEW t \in Threads, NEW c \in Clusters, Query(t, c)
      PROVE TypeOK' /\ AtPositive'
  BY <1>3, AboutType, RequestTypes DEF Query, steps, ghosts
<1>4. CASE PurgeBegins \/ PurgeEnds \/ Count
  BY <1>4 DEF PurgeBegins, PurgeEnds, Count, handlers, ghosts
<1>5. ASSUME NEW t \in Threads, PurgeNext(t) PROVE TypeOK' /\ AtPositive'
  <2>1. logs[1] \in Log
    BY <1>5 DEF PurgeNext
  <2> QED BY <1>5, <2>1, RequestTypes DEF PurgeNext, ghosts
<1>6. ASSUME NEW t \in Threads, ServiceExits(t) PROVE TypeOK' /\ AtPositive'
  <2>1. posting \in Threads => asked[posting].id \in Ids
    BY DEF Log
  <2> QED BY <1>6, <2>1, AboutType, RequestTypes DEF ServiceExits
<1>7. CASE EndScenario
  BY <1>7 DEF EndScenario, handlers, ghosts
<1>8. CASE GiveUp
  <2>1. posting \in Threads
    BY <1>8 DEF GiveUp
  <2>2. asked[posting].id \in Ids
    BY <2>1 DEF Log
  <2> QED BY <1>8, <2>2 DEF GiveUp, handlers, steps
<1>9. ASSUME NEW t \in Threads, Post(t) PROVE TypeOK' /\ AtPositive'
  <2>1. NewLog \in Log /\ NewLog.id \in Ids
    BY <1>9, NewLogType DEF Post, Log
  <2> QED BY <1>9, <2>1, RequestTypes DEF Post, steps, ghosts
<1> QED
  BY <1>1, <1>2, <1>3, <1>4, <1>5, <1>6, <1>7, <1>8, <1>9 DEF Next, Proceed

\* The rest of the invariant: one delete at a time, with an index that holds.
Deletes == OneDelete /\ NotWaiting /\ PopHitsItsLog

\* The handlers: appending keeps what is at an index, and Find looked.
LEMMA HandlerDeletes ==
  ASSUME IInv, NEW t \in Threads, Handler(t)
  PROVE  Deletes'
<1> USE NoThreadAssumption DEF IInv, TypeOK, AtPositive, Deletes, OneDelete, NotWaiting
<1>1. CASE publish_log(t)
  <2>1. /\ Len(log_storage') = Len(log_storage) + 1
        /\ \A i \in 1..Len(log_storage) : log_storage'[i] = log_storage[i]
    BY <1>1 DEF publish_log
  <2>2. PopHitsItsLog'
    BY <1>1, <2>1 DEF publish_log, Respond, PopHitsItsLog
  <2> QED BY <1>1, <2>2 DEF publish_log, Respond, steps
<1>2. CASE Collect(t)
  BY <1>2 DEF Collect, PopHitsItsLog, steps
<1>3. CASE Collected(t)
  <2>1. OneDelete' /\ NotWaiting'
    BY <1>3 DEF Collected, Respond, Answer
  <2>2. PopHitsItsLog'
    BY <1>3 DEF Collected, Respond, PopHitsItsLog
  <2> QED BY <2>1, <2>2
<1>4. CASE Find(t)
  <2>1. PopHitsItsLog'
    BY <1>4 DEF Find, PopHitsItsLog
  <2> QED BY <1>4, <2>1 DEF Find, steps
<1>5. CASE Pop(t)
  <2>1. \A u \in Threads : op'[u] \notin {"find", "pop"}
    BY <1>5 DEF Pop, Respond
  <2>2. pc' = pc /\ waits' = NoThread
    BY <1>5 DEF Pop, Answer
  <2> QED BY <2>1, <2>2 DEF PopHitsItsLog
<1> QED BY <1>1, <1>2, <1>3, <1>4, <1>5 DEF Handler

\* The others: only behave starts deletes, and only when it waits for nothing.
LEMMA OtherDeletes ==
  ASSUME IInv, [Next]_vars, ~ \E t \in Threads : Handler(t)
  PROVE  Deletes'
<1> USE NoThreadAssumption DEF IInv, TypeOK, Deletes, OneDelete, NotWaiting, PopHitsItsLog
<1>1. CASE UNCHANGED vars
  BY <1>1 DEF vars, handlers, steps
<1>2. ASSUME NEW t \in Threads, NEW c \in Clusters, BeginScenario(t, c) PROVE Deletes'
  BY <1>2 DEF BeginScenario, Request
<1>3. ASSUME NEW t \in Threads, NEW c \in Clusters, Query(t, c) PROVE Deletes'
  BY <1>3 DEF Query, Request, steps
<1>4. CASE PurgeBegins \/ PurgeEnds \/ Count \/ EndScenario
  BY <1>4 DEF PurgeBegins, PurgeEnds, Count, EndScenario, handlers
<1>5. ASSUME NEW t \in Threads, PurgeNext(t) PROVE Deletes'
  BY <1>5 DEF PurgeNext, Request
<1>6. ASSUME NEW t \in Threads, ServiceExits(t) PROVE Deletes'
  BY <1>6 DEF ServiceExits, Request
<1>7. CASE GiveUp
  BY <1>7 DEF GiveUp, handlers, steps
<1>8. ASSUME NEW t \in Threads, Post(t) PROVE Deletes'
  BY <1>8 DEF Post, Request, steps
<1> QED
  BY <1>1, <1>2, <1>3, <1>4, <1>5, <1>6, <1>7, <1>8 DEF Next, Proceed

\* The invariant holds in every reachable state.
LEMMA Invariance == Spec => []IInv
<1>1. Init => IInv
  BY InitInvariant
<1>2. IInv /\ [Next]_vars => IInv'
  BY HandlerTypes, OtherTypes, HandlerDeletes, OtherDeletes DEF IInv, Deletes
<1> QED BY <1>1, <1>2, PTL DEF Spec

-----------------------------------------------------------------------------

\* The mock, its clients and the steps keep their types, for every set of
\* threads, clusters and ids.
THEOREM TypeCorrect == Spec => []TypeOK
<1>1. IInv => TypeOK
  BY DEF IInv
<1> QED BY <1>1, Invariance, PTL

\* For every number of threads and logs: delete_logs pops the log it was asked
\* to delete (service_log.py:257-260).
THEOREM PopHits == Spec => []PopHitsItsLog
<1>1. IInv => PopHitsItsLog
  BY DEF IInv
<1> QED BY <1>1, Invariance, PTL

-----------------------------------------------------------------------------
(* What the count of a scenario rests on *)

\* Logs have ids of their own, in the list and on their way to it.
OwnIds ==
  /\ \A i, j \in 1..Len(log_storage) : log_storage[i].id = log_storage[j].id => i = j
  /\ \A i \in 1..Len(log_storage) : log_storage[i].id \in issued
  /\ \A t \in Threads : op[t] = "publish" =>
       /\ asked[t].id \in issued
       /\ \A i \in 1..Len(log_storage) : log_storage[i].id # asked[t].id
       /\ \A u \in Threads : op[u] = "publish" /\ asked[u].id = asked[t].id => u = t

\* A log that is published is one the notification service waits for, of the
\* scenario, or one it has abandoned.
Published ==
  /\ posting # NoThread =>
       pc = "running" /\ op[posting] = "publish" /\ asked[posting].cluster_uuid = cluster
  /\ \A t \in Threads : op[t] = "publish" /\ t # posting => asked[t].id \in abandoned

\* What behave waits for: the list, or the delete of the first log that is left.
Waiting ==
  /\ waits # NoThread =>
       IF pc \in {"listing", "counting"} THEN op[waits] = "list" ELSE op[waits] \in {"find", "pop"}
  /\ \A t \in Threads : op[t] = "list" =>
       waits = t /\ pc \in {"listing", "counting"} /\ asked[t].cluster_uuid = cluster
  /\ \A t \in Threads : op[t] \in {"find", "pop"} => asked[t] = logs[1]

\* A list has collected the logs of the cluster before its index, each once.
HasCollected(list, c, index, r) ==
  /\ index <= Len(list) + 1
  /\ \A i \in 1..Len(list) :
       i < index /\ list[i].cluster_uuid = c => \E k \in 1..Len(r) : r[k] = list[i]
  /\ \A k \in 1..Len(r) : \E i \in 1..Len(list) :
       i < index /\ list[i].cluster_uuid = c /\ r[k] = list[i]
  /\ \A k, l \in 1..Len(r) : r[k].id = r[l].id => k = l

Collects(t) == HasCollected(log_storage, cluster, at[t], res[t])

Collecting == \A t \in Threads : op[t] = "list" => Collects(t)

\* The log with this id is in the list, and of the cluster of the scenario.
OfCluster(id) ==
  \E i \in 1..Len(log_storage) :
    log_storage[i].id = id /\ log_storage[i].cluster_uuid = cluster

\* What was acknowledged in the scenario is in the list.
Acked ==
  /\ pc \in {"listing", "purging"} => acked = {}
  /\ pc \in {"running", "counting"} => \A id \in acked : OfCluster(id)

\* What an earlier scenario left of the cluster is still to be deleted, or was
\* abandoned; after the purge it is acknowledged or abandoned.
LeftOver(id) ==
  /\ pc = "purging" \/ (pc = "listing" /\ waits = NoThread) =>
       \/ \E k \in 1..Len(logs) : logs[k].id = id
       \/ id \in abandoned
  /\ pc \in {"running", "counting"} => id \in acked \cup abandoned

Left == \A id \in Ids : OfCluster(id) => LeftOver(id)

\* The answer to the count.
Counted ==
  pc = "counted" \/ (pc = "counting" /\ waits = NoThread) =>
    /\ \A id \in acked : \E k \in 1..Len(logs) : logs[k].id = id
    /\ \A k \in 1..Len(logs) : logs[k].id \in acked \cup abandoned
    /\ \A k, l \in 1..Len(logs) : logs[k].id = logs[l].id => k = l

CountInv == OwnIds /\ Published /\ Waiting /\ Collecting /\ Acked /\ Left /\ Counted

\* At the start there are no logs.
LEMMA InitCount == Init => CountInv
BY NoThreadAssumption
   DEF Init, CountInv, OwnIds, Published, Waiting, Collecting, Acked, Left, OfCluster,
       Counted

\* Where the element at an index is removed, the others stay, in their order.
LEMMA PopElements ==
  ASSUME NEW s \in Seq(Log), NEW i \in Nat \ {0}, i <= Len(s)
  PROVE  LET r == SubSeq(s, 1, i - 1) \o SubSeq(s, i + 1, Len(s))
         IN  /\ Len(r) = Len(s) - 1
             /\ \A j \in 1..(Len(s) - 1) : r[j] = IF j < i THEN s[j] ELSE s[j + 1]
<1> DEFINE before == SubSeq(s, 1, i - 1)
           after  == SubSeq(s, i + 1, Len(s))
           r      == before \o after
<1>1. Len(s) \in Nat
  OBVIOUS
<1>2. /\ before \in Seq(Log) /\ Len(before) = i - 1
      /\ \A j \in 1..(i - 1) : before[j] = s[j]
  BY <1>1
<1>3. /\ after \in Seq(Log) /\ Len(after) = Len(s) - i
      /\ \A j \in 1..(Len(s) - i) : after[j] = s[i + j]
  BY <1>1
<1> HIDE DEF before, after
<1>4. /\ Len(r) = Len(before) + Len(after)
      /\ \A j \in 1..(Len(before) + Len(after)) :
           r[j] = IF j <= Len(before) THEN before[j] ELSE after[j - Len(before)]
  BY <1>2, <1>3, ConcatProperties
<1>5. Len(r) = Len(s) - 1
  BY <1>1, <1>2, <1>3, <1>4
<1>6. ASSUME NEW j \in 1..(Len(s) - 1)
      PROVE  r[j] = IF j < i THEN s[j] ELSE s[j + 1]
  <2>1. CASE j < i
    <3>1. j \in 1..Len(before)
      BY <1>1, <1>2, <2>1
    <3> QED BY <1>2, <1>3, <2>1, <3>1
  <2>2. CASE ~(j < i)
    <3>1. j \in 1..(Len(before) + Len(after)) /\ ~(j <= Len(before))
      BY <1>1, <1>2, <1>3, <2>2
    <3>2. r[j] = after[j - Len(before)]
      BY <1>2, <1>3, <3>1
    <3>3. j - Len(before) = j - i + 1 /\ j - i + 1 \in 1..(Len(s) - i)
      BY <1>1, <1>2, <2>2
    <3>4. after[j - i + 1] = s[i + (j - i + 1)]
      BY <1>3, <3>3
    <3> QED BY <2>2, <3>2, <3>3, <3>4
  <2> QED BY <2>1, <2>2
<1> QED BY <1>5, <1>6 DEF before, after

\* A published log has an id of its own; it was acknowledged in the scenario or
\* abandoned.
LEMMA PublishCount ==
  ASSUME IInv, CountInv, NEW t \in Threads, publish_log(t) PROVE CountInv'
<1> DEFINE n == Len(log_storage)
<1>1. /\ n \in Nat /\ Len(log_storage') = n + 1 /\ log_storage'[n + 1] = asked[t]
      /\ \A i \in 1..n : log_storage'[i] = log_storage[i]
  BY DEF publish_log, IInv, TypeOK
<1>2. /\ op[t] = "publish" /\ op'[t] = "idle"
      /\ \A u \in Threads \ {t} :
           op'[u] = op[u] /\ asked'[u] = asked[u] /\ at'[u] = at[u] /\ res'[u] = res[u]
  BY DEF publish_log, Respond, IInv, TypeOK
<1>3. /\ issued' = issued /\ pc' = pc /\ cluster' = cluster /\ waits' = waits
      /\ logs' = logs /\ abandoned' = abandoned
  BY DEF publish_log, steps
<1>4. /\ acked' = IF t = posting THEN acked \cup {asked[t].id} ELSE acked
      /\ posting' = IF t = posting THEN NoThread ELSE posting
      /\ t # NoThread /\ (posting # NoThread => posting \in Threads)
  BY NoThreadAssumption DEF publish_log, IInv, TypeOK
<1>5. OwnIds /\ Published /\ Waiting /\ Collecting /\ Acked /\ Left /\ Counted
  BY DEF CountInv
<1>6. \A u \in Threads : at[u] \in Nat
  BY DEF IInv, TypeOK
<1>7. OwnIds'
  <2>1. ASSUME NEW i \in 1..(n + 1), NEW j \in 1..(n + 1),
               log_storage'[i].id = log_storage'[j].id
        PROVE  i = j
    <3>1. \A k \in 1..n : log_storage'[k].id # log_storage'[n + 1].id
      BY <1>1, <1>2, <1>5 DEF OwnIds
    <3>2. CASE i \in 1..n /\ j \in 1..n
      BY <1>1, <1>5, <2>1, <3>2 DEF OwnIds
    <3>3. CASE i = n + 1 \/ j = n + 1
      <4> HIDE DEF n
      <4> QED BY <1>1, <2>1, <3>1, <3>3
    <3> QED BY <1>1, <3>2, <3>3
  <2>2. ASSUME NEW i \in 1..(n + 1)
        PROVE  /\ log_storage'[i].id \in issued
               /\ \A u \in Threads : op'[u] = "publish" => log_storage'[i].id # asked'[u].id
    <3>1. CASE i \in 1..n
      <4>1. log_storage'[i] = log_storage[i]
        BY <1>1, <3>1
      <4> QED BY <1>2, <1>5, <3>1, <4>1 DEF OwnIds
    <3>2. CASE i = n + 1
      BY <1>1, <1>2, <1>5, <3>2 DEF OwnIds
    <3> QED BY <1>1, <3>1, <3>2
  <2>3. ASSUME NEW u \in Threads, op'[u] = "publish"
        PROVE  /\ asked'[u].id \in issued
               /\ \A v \in Threads : op'[v] = "publish" /\ asked'[v].id = asked'[u].id => v = u
    BY <1>2, <1>5, <2>3 DEF OwnIds
  <2> HIDE DEF n
  <2> QED BY <1>1, <1>3, <2>1, <2>2, <2>3 DEF OwnIds
<1>8. Published'
  BY <1>2, <1>3, <1>4, <1>5 DEF Published
<1>9. Waiting'
  <2>1. waits # NoThread => waits \in Threads /\ waits # t
    BY <1>2, <1>5 DEF Waiting, IInv, TypeOK
  <2> QED BY <1>2, <1>3, <1>5, <2>1 DEF Waiting
<1>10. Collecting'
  <2> SUFFICES ASSUME NEW u \in Threads, op'[u] = "list" PROVE Collects(u)'
    BY DEF Collecting
  <2>1. u # t /\ at'[u] = at[u] /\ res'[u] = res[u] /\ Collects(u)
    BY <1>2, <1>5 DEF Collecting
  <2>2. at[u] <= n + 1 /\ at[u] \in Nat
    BY <1>6, <2>1 DEF Collects, HasCollected
  <2>3. /\ \A i \in 1..n : i \in 1..(n + 1) /\ log_storage'[i] = log_storage[i]
        /\ \A i \in 1..(n + 1) : i < at[u] => i \in 1..n
    BY <1>1, <2>2
  <2> HIDE DEF n
  <2>4. at[u] <= (n + 1) + 1
    BY <1>1, <2>1, <2>2
  <2>5. /\ \A i \in 1..n :
             i < at[u] /\ log_storage[i].cluster_uuid = cluster =>
               \E k \in 1..Len(res[u]) : res[u][k] = log_storage[i]
        /\ \A k \in 1..Len(res[u]) : \E i \in 1..n :
             i < at[u] /\ log_storage[i].cluster_uuid = cluster /\ res[u][k] = log_storage[i]
        /\ \A k, l \in 1..Len(res[u]) : res[u][k].id = res[u][l].id => k = l
    BY <2>1 DEF Collects, HasCollected, n
  <2>6. \A i \in 1..(n + 1) :
          i < at[u] /\ log_storage'[i].cluster_uuid = cluster =>
            \E k \in 1..Len(res[u]) : res[u][k] = log_storage'[i]
    BY <2>3, <2>5
  <2>7. ASSUME NEW k \in 1..Len(res[u])
        PROVE  \E i \in 1..(n + 1) : i < at[u] /\ log_storage'[i].cluster_uuid = cluster
                                       /\ res[u][k] = log_storage'[i]
    <3>1. PICK i \in 1..n :
            i < at[u] /\ log_storage[i].cluster_uuid = cluster /\ res[u][k] = log_storage[i]
      BY <2>5
    <3>2. i \in 1..(n + 1) /\ log_storage'[i] = log_storage[i]
      BY <2>3, <3>1
    <3> QED BY <3>1, <3>2
  <2>8. /\ Len(log_storage') = n + 1 /\ cluster' = cluster
        /\ at'[u] = at[u] /\ res'[u] = res[u]
    BY <1>1, <1>3, <2>1
  <2>9. HasCollected(log_storage', cluster, at[u], res[u])
    BY <2>4, <2>5, <2>6, <2>7, <2>8 DEF HasCollected
  <2> QED BY <2>8, <2>9 DEF Collects
<1>11. ASSUME NEW id
       PROVE  OfCluster(id)' <=>
                OfCluster(id) \/ (id = asked[t].id /\ asked[t].cluster_uuid = cluster)
  <2>1. OfCluster(id) <=> \E i \in 1..n :
          log_storage[i].id = id /\ log_storage[i].cluster_uuid = cluster
    BY DEF OfCluster
  <2>2. OfCluster(id)' <=> \E i \in 1..(n + 1) :
          log_storage'[i].id = id /\ log_storage'[i].cluster_uuid = cluster
    BY <1>1, <1>3 DEF OfCluster
  <2>3. 1..(n + 1) = 1..n \cup {n + 1}
    BY <1>1
  <2> HIDE DEF n
  <2> QED BY <1>1, <2>1, <2>2, <2>3
<1>12. Acked' /\ Left'
  <2>1. t = posting => pc = "running" /\ asked[t].cluster_uuid = cluster
    BY <1>4, <1>5 DEF Published
  <2>2. t # posting => asked[t].id \in abandoned
    BY <1>2, <1>5 DEF Published
  <2>3. Acked'
    <3>1. CASE t = posting
      BY <1>3, <1>4, <1>5, <1>11, <2>1, <3>1 DEF Acked
    <3>2. CASE t # posting
      <4>1. acked' = acked
        BY <1>4, <3>2
      <4> QED BY <1>3, <1>5, <1>11, <4>1 DEF Acked
    <3> QED BY <3>1, <3>2
  <2>4. ASSUME NEW id \in Ids, OfCluster(id)' PROVE LeftOver(id)'
    <3>1. CASE OfCluster(id)
      BY <1>3, <1>4, <1>5, <3>1 DEF Left, LeftOver
    <3>2. CASE id = asked[t].id /\ asked[t].cluster_uuid = cluster
      BY <1>3, <1>4, <2>1, <2>2, <3>2 DEF LeftOver
    <3> QED BY <1>11, <2>4, <3>1, <3>2
  <2> QED BY <2>3, <2>4 DEF Left
<1>13. Counted'
  BY <1>3, <1>4, <1>5 DEF Counted, Published
<1> QED BY <1>7, <1>8, <1>9, <1>10, <1>11, <1>12, <1>13 DEF CountInv

\* A list collects the log at its index if it is of its cluster.
LEMMA CollectCount ==
  ASSUME IInv, CountInv, NEW t \in Threads, Collect(t) PROVE CountInv'
<1>1. /\ log_storage' = log_storage /\ op' = op /\ asked' = asked /\ issued' = issued
      /\ pc' = pc /\ cluster' = cluster /\ waits' = waits /\ logs' = logs
      /\ posting' = posting /\ acked' = acked /\ abandoned' = abandoned
  BY DEF Collect, steps, ghosts
<1>2. OwnIds /\ Published /\ Waiting /\ Collecting /\ Acked /\ Left /\ Counted
  BY DEF CountInv
<1>3. (OwnIds /\ Published /\ Waiting /\ Acked /\ Left /\ Counted)'
  BY <1>1, <1>2 DEF OwnIds, Published, Waiting, Acked, Left, OfCluster, LeftOver, Counted
<1>4. \A u \in Threads \ {t} : at'[u] = at[u] /\ res'[u] = res[u]
  BY DEF Collect, IInv, TypeOK
<1>5. ASSUME op[t] = "list" PROVE Collects(t)'
  <2> DEFINE log == log_storage[at[t]]
             m   == Len(res[t])
             n   == Len(log_storage)
  <2>1. /\ at[t] \in 1..n /\ n \in Nat /\ at'[t] = at[t] + 1 /\ m \in Nat
        /\ asked[t].cluster_uuid = cluster
    BY <1>2, <1>5 DEF Collect, Waiting, IInv, TypeOK, AtPositive
  <2>2. /\ log.cluster_uuid = cluster =>
             /\ Len(res'[t]) = m + 1 /\ res'[t][m + 1] = log
             /\ \A k \in 1..m : res'[t][k] = res[t][k]
        /\ log.cluster_uuid # cluster => res'[t] = res[t]
    <3>1. log \in Log /\ res[t] \in Seq(Log)
      BY <2>1 DEF IInv, TypeOK
    <3>2. res'[t] = IF log.cluster_uuid = cluster THEN Append(res[t], log) ELSE res[t]
      BY <1>5, <2>1 DEF Collect, Matches, IInv, TypeOK
    <3> HIDE DEF log
    <3> QED BY <3>1, <3>2
  <2>3. Collects(t)
    BY <1>2, <1>5 DEF Collecting
  <2>4. CASE log.cluster_uuid # cluster
    <3>1. /\ at[t] + 1 <= n + 1
          /\ \A i \in 1..n : i < at[t] + 1 /\ i # at[t] => i < at[t]
          /\ \A i \in 1..n : i < at[t] => i < at[t] + 1
      BY <2>1
    <3> HIDE DEF n
    <3>2. /\ \A i \in 1..n :
               i < at[t] /\ log_storage[i].cluster_uuid = cluster =>
                 \E k \in 1..Len(res[t]) : res[t][k] = log_storage[i]
          /\ \A k \in 1..Len(res[t]) : \E i \in 1..n :
               i < at[t] /\ log_storage[i].cluster_uuid = cluster /\ res[t][k] = log_storage[i]
          /\ \A k, l \in 1..Len(res[t]) : res[t][k].id = res[t][l].id => k = l
      BY <2>3 DEF Collects, HasCollected, n
    <3>3. \A i \in 1..n : i < at[t] + 1 /\ log_storage[i].cluster_uuid = cluster =>
            \E k \in 1..Len(res[t]) : res[t][k] = log_storage[i]
      BY <2>4, <3>1, <3>2
    <3>4. \A k \in 1..Len(res[t]) : \E i \in 1..n :
            i < at[t] + 1 /\ log_storage[i].cluster_uuid = cluster /\ res[t][k] = log_storage[i]
      BY <3>1, <3>2
    <3>5. /\ Len(log_storage') = n /\ cluster' = cluster /\ log_storage' = log_storage
          /\ at'[t] = at[t] + 1 /\ res'[t] = res[t]
      BY <1>1, <2>1, <2>2, <2>4 DEF n
    <3> QED BY <3>1, <3>2, <3>3, <3>4, <3>5 DEF Collects, HasCollected
  <2>5. CASE log.cluster_uuid = cluster
    <3>1. /\ Len(res'[t]) = m + 1 /\ res'[t][m + 1] = log
          /\ \A k \in 1..m : res'[t][k] = res[t][k]
      BY <2>2, <2>5
    <3>2. \A k \in 1..m : \E i \in 1..n :
            i < at[t] /\ log_storage[i].cluster_uuid = cluster /\ res[t][k] = log_storage[i]
      BY <2>3 DEF Collects, HasCollected
    <3>3. ASSUME NEW k \in 1..m PROVE res[t][k].id # log.id
      <4>1. PICK i \in 1..n : i < at[t] /\ res[t][k] = log_storage[i]
        BY <3>2
      <4>2. i # at[t]
        BY <2>1, <4>1
      <4> QED BY <1>2, <2>1, <4>1, <4>2 DEF OwnIds
    <3>4. \A k, l \in 1..m : res[t][k].id = res[t][l].id => k = l
      BY <2>3 DEF Collects, HasCollected
    <3>5. \A i \in 1..n : i < at[t] /\ log_storage[i].cluster_uuid = cluster =>
            \E k \in 1..m : res[t][k] = log_storage[i]
      BY <2>3 DEF Collects, HasCollected
    <3> HIDE DEF log, m
    <3>6. ASSUME NEW k \in 1..(m + 1), NEW l \in 1..(m + 1), res'[t][k].id = res'[t][l].id
          PROVE  k = l
      <4>1. CASE k \in 1..m /\ l \in 1..m
        BY <3>1, <3>4, <3>6, <4>1
      <4>2. ~(k = m + 1 /\ l \in 1..m) /\ ~(l = m + 1 /\ k \in 1..m)
        BY <3>1, <3>3, <3>6
      <4>3. (k \in 1..m \/ k = m + 1) /\ (l \in 1..m \/ l = m + 1)
        BY <2>1
      <4> QED BY <4>1, <4>2, <4>3
    <3>7. ASSUME NEW i \in 1..n, i < at[t] + 1, log_storage[i].cluster_uuid = cluster
          PROVE  \E k \in 1..(m + 1) : res'[t][k] = log_storage[i]
      <4>1. CASE i = at[t]
        BY <2>1, <3>1, <4>1 DEF log
      <4>2. CASE i < at[t]
        <5>1. PICK k \in 1..m : res[t][k] = log_storage[i]
          BY <3>5, <3>7, <4>2
        <5> QED BY <2>1, <3>1, <5>1
      <4> QED BY <2>1, <3>7, <4>1, <4>2
    <3>8. ASSUME NEW k \in 1..(m + 1)
          PROVE  \E i \in 1..n : i < at[t] + 1 /\ log_storage[i].cluster_uuid = cluster
                                   /\ res'[t][k] = log_storage[i]
      <4>1. CASE k = m + 1
        BY <2>1, <2>5, <3>1, <4>1 DEF log
      <4>2. CASE k \in 1..m
        <5>1. PICK i \in 1..n : i < at[t] /\ log_storage[i].cluster_uuid = cluster
                                  /\ res[t][k] = log_storage[i]
          BY <3>2, <4>2
        <5>2. i < at[t] + 1 /\ res'[t][k] = log_storage[i]
          BY <2>1, <3>1, <4>2, <5>1
        <5> QED BY <5>1, <5>2
      <4> QED BY <2>1, <4>1, <4>2
    <3> HIDE DEF n
    <3>9. at[t] + 1 <= n + 1
      BY <2>1
    <3> QED BY <1>1, <2>1, <3>1, <3>6, <3>7, <3>8, <3>9 DEF Collects, HasCollected, n
  <2> QED BY <2>4, <2>5
<1>6. Collecting'
  <2> SUFFICES ASSUME NEW u \in Threads, op[u] = "list" PROVE Collects(u)'
    BY <1>1 DEF Collecting
  <2>1. CASE u # t
    <3>1. Collects(u) /\ at'[u] = at[u] /\ res'[u] = res[u]
      BY <1>2, <1>4, <2>1 DEF Collecting
    <3> QED BY <1>1, <3>1 DEF Collects
  <2>2. CASE u = t
    BY <1>5, <2>2
  <2> QED BY <2>1, <2>2
<1> QED BY <1>3, <1>6 DEF CountInv

\* The answer to a list has the logs of the cluster, each once.
LEMMA CollectedCount ==
  ASSUME IInv, CountInv, NEW t \in Threads, Collected(t) PROVE CountInv'
<1>1. /\ log_storage' = log_storage /\ issued' = issued /\ pc' = pc /\ cluster' = cluster
      /\ posting' = posting /\ acked' = acked /\ abandoned' = abandoned
      /\ logs' = IF t = waits THEN res[t] ELSE logs
      /\ waits' = IF t = waits THEN NoThread ELSE waits
  BY DEF Collected, Answer, ghosts
<1>2. /\ op[t] \in {"list", "query"} /\ op'[t] = "idle"
      /\ \A u \in Threads \ {t} :
           op'[u] = op[u] /\ asked'[u] = asked[u] /\ at'[u] = at[u] /\ res'[u] = res[u]
  BY DEF Collected, Respond, IInv, TypeOK
<1>3. OwnIds /\ Published /\ Waiting /\ Collecting /\ Acked /\ Left /\ Counted
  BY DEF CountInv
<1>4. /\ t # NoThread
      /\ posting # NoThread => posting \in Threads
      /\ waits # NoThread => waits \in Threads
  BY NoThreadAssumption DEF IInv, TypeOK
<1>5. OwnIds' /\ Published'
  <2>1. OwnIds'
    BY <1>1, <1>2, <1>3 DEF OwnIds
  <2>2. Published'
    BY <1>1, <1>2, <1>3, <1>4 DEF Published
  <2> QED BY <2>1, <2>2
<1>6. ASSUME NEW id PROVE OfCluster(id)' <=> OfCluster(id)
  BY <1>1 DEF OfCluster
<1>7. Collecting'
  <2> SUFFICES ASSUME NEW u \in Threads, op'[u] = "list" PROVE Collects(u)'
    BY DEF Collecting
  <2>1. Collects(u) /\ at'[u] = at[u] /\ res'[u] = res[u]
    BY <1>2, <1>3 DEF Collecting
  <2> QED BY <1>1, <2>1 DEF Collects
<1>8. Acked'
  BY <1>1, <1>3, <1>6 DEF Acked
<1>9. CASE op[t] = "query"
  <2>1. waits # t
    BY <1>3, <1>4, <1>9 DEF Waiting
  <2>2. waits' = waits /\ logs' = logs
    BY <1>1, <2>1
  <2>3. Waiting'
    BY <1>1, <1>2, <1>3, <1>4, <2>1, <2>2 DEF Waiting
  <2>4. Left'
    BY <1>1, <1>3, <1>6, <2>2 DEF Left, LeftOver
  <2>5. Counted'
    BY <1>1, <1>3, <2>2 DEF Counted
  <2> QED BY <1>5, <1>7, <1>8, <2>3, <2>4, <2>5 DEF CountInv
<1>10. CASE op[t] = "list"
  <2>1. waits = t /\ pc \in {"listing", "counting"}
    BY <1>3, <1>10 DEF Waiting
  <2>2. logs' = res[t] /\ waits' = NoThread
    BY <1>1, <2>1
  <2>3. \A u \in Threads : op'[u] \notin {"list", "find", "pop"}
    BY <1>2, <1>3, <2>1 DEF Waiting, IInv, OneDelete
  <2>4. Waiting'
    BY <2>2, <2>3 DEF Waiting
  <2>5. /\ \A id : OfCluster(id) => \E k \in 1..Len(res[t]) : res[t][k].id = id
        /\ \A k \in 1..Len(res[t]) : OfCluster(res[t][k].id)
        /\ \A k, l \in 1..Len(res[t]) : res[t][k].id = res[t][l].id => k = l
    <3>1. Collects(t)
      BY <1>3, <1>10 DEF Collecting
    <3>2. \A i \in 1..Len(log_storage) : i < at[t]
      BY DEF Collected, IInv, TypeOK
    <3>3. ASSUME NEW id, OfCluster(id) PROVE \E k \in 1..Len(res[t]) : res[t][k].id = id
      <4>1. PICK i \in 1..Len(log_storage) :
              log_storage[i].id = id /\ log_storage[i].cluster_uuid = cluster
        BY <3>3 DEF OfCluster
      <4>2. PICK k \in 1..Len(res[t]) : res[t][k] = log_storage[i]
        BY <3>1, <3>2, <4>1 DEF Collects, HasCollected
      <4> QED BY <4>1, <4>2
    <3>4. ASSUME NEW k \in 1..Len(res[t]) PROVE OfCluster(res[t][k].id)
      <4>1. PICK i \in 1..Len(log_storage) :
              log_storage[i].cluster_uuid = cluster /\ res[t][k] = log_storage[i]
        BY <3>1 DEF Collects, HasCollected
      <4> QED BY <4>1 DEF OfCluster
    <3> QED BY <3>1, <3>3, <3>4 DEF Collects, HasCollected
  <2>6. Left'
    <3>1. ASSUME NEW id \in Ids, OfCluster(id)' PROVE LeftOver(id)'
      BY <1>1, <1>3, <1>6, <2>1, <2>2, <2>5, <3>1 DEF Left, LeftOver
    <3> QED BY <3>1 DEF Left
  <2>7. Counted'
    <3> SUFFICES ASSUME pc = "counting"
                 PROVE  /\ \A id \in acked : \E k \in 1..Len(res[t]) : res[t][k].id = id
                        /\ \A k \in 1..Len(res[t]) : res[t][k].id \in acked \cup abandoned
                        /\ \A k, l \in 1..Len(res[t]) : res[t][k].id = res[t][l].id => k = l
      BY <1>1, <2>1, <2>2 DEF Counted
    <3>1. \A id \in acked : OfCluster(id)
      BY <1>3 DEF Acked
    <3>2. \A k \in 1..Len(res[t]) : res[t][k].id \in Ids
      <4>1. res[t] \in Seq(Log)
        BY DEF IInv, TypeOK
      <4>2. \A k \in 1..Len(res[t]) : res[t][k] \in Log
        BY <4>1
      <4> QED BY <4>2 DEF Log
    <3>3. \A id \in Ids : OfCluster(id) => id \in acked \cup abandoned
      BY <1>3 DEF Left, LeftOver
    <3> QED BY <2>5, <3>1, <3>2, <3>3
  <2> QED BY <1>5, <1>7, <1>8, <2>4, <2>6, <2>7 DEF CountInv
<1> QED BY <1>2, <1>9, <1>10

\* A turn of delete_logs changes no log.
LEMMA FindCount ==
  ASSUME IInv, CountInv, NEW t \in Threads, Find(t) PROVE CountInv'
<1>1. /\ log_storage' = log_storage /\ asked' = asked /\ res' = res /\ issued' = issued
      /\ pc' = pc /\ cluster' = cluster /\ waits' = waits /\ logs' = logs
      /\ posting' = posting /\ acked' = acked /\ abandoned' = abandoned
  BY DEF Find, steps, ghosts
<1>2. /\ op[t] = "find" /\ op'[t] \in {"find", "pop"}
      /\ \A u \in Threads \ {t} : op'[u] = op[u]
      /\ \A u \in Threads \ {t} : at'[u] = at[u]
  BY DEF Find, IInv, TypeOK
<1>3. OwnIds /\ Published /\ Waiting /\ Collecting /\ Acked /\ Left /\ Counted
  BY DEF CountInv
<1>4. /\ posting # NoThread => posting \in Threads
      /\ waits # NoThread => waits \in Threads
  BY DEF IInv, TypeOK
<1>5. OwnIds' /\ Published'
  BY <1>1, <1>2, <1>3, <1>4 DEF OwnIds, Published
<1>6. (Acked /\ Left /\ Counted)'
  BY <1>1, <1>3 DEF Acked, Left, OfCluster, LeftOver, Counted
<1>7. Waiting'
  <2>1. waits = t /\ pc = "purging"
    BY <1>2 DEF IInv, OneDelete
  <2> QED BY <1>1, <1>2, <1>3, <1>4, <2>1 DEF Waiting
<1>8. Collecting'
  <2> SUFFICES ASSUME NEW u \in Threads, op'[u] = "list" PROVE Collects(u)'
    BY DEF Collecting
  <2>1. Collects(u) /\ at'[u] = at[u]
    BY <1>2, <1>3 DEF Collecting
  <2> QED BY <1>1, <2>1 DEF Collects
<1> QED BY <1>5, <1>6, <1>7, <1>8 DEF CountInv

\* A delete takes the first of the logs behave holds out of both lists.
LEMMA PopCount ==
  ASSUME IInv, CountInv, NEW t \in Threads, Pop(t) PROVE CountInv'
<1> DEFINE n == Len(log_storage)
<1>1. /\ issued' = issued /\ pc' = pc /\ cluster' = cluster /\ posting' = posting
      /\ acked' = acked /\ abandoned' = abandoned
  BY DEF Pop, ghosts
<1>2. /\ op[t] = "pop" /\ op'[t] = "idle"
      /\ \A u \in Threads \ {t} : op'[u] = op[u] /\ asked'[u] = asked[u]
  BY DEF Pop, Respond, IInv, TypeOK
<1>3. OwnIds /\ Published /\ Waiting /\ Acked /\ Left
  BY DEF CountInv
<1>4. /\ waits = t /\ pc = "purging" /\ logs # <<>> /\ asked[t] = logs[1]
      /\ at[t] \in 1..n /\ log_storage[at[t]].id = asked[t].id /\ n \in Nat
  BY <1>2, <1>3 DEF IInv, TypeOK, OneDelete, AtPositive, PopHitsItsLog, Waiting
<1>5. /\ waits' = NoThread /\ logs' = Tail(logs)
  BY <1>4 DEF Pop, Answer
<1>6. /\ Len(log_storage') = n - 1
      /\ \A j \in 1..(n - 1) :
           log_storage'[j] = IF j < at[t] THEN log_storage[j] ELSE log_storage[j + 1]
  <2>1. log_storage \in Seq(Log) /\ at[t] \in Nat \ {0} /\ at[t] <= Len(log_storage)
    BY <1>4 DEF IInv, TypeOK
  <2> HIDE DEF n
  <2>2. log_storage' = SubSeq(log_storage, 1, at[t] - 1)
                         \o SubSeq(log_storage, at[t] + 1, Len(log_storage))
    BY DEF Pop
  <2> QED BY <2>1, <2>2, PopElements DEF n
<1>7. ASSUME NEW j \in 1..(n - 1)
      PROVE  LET i == IF j < at[t] THEN j ELSE j + 1
             IN  i \in 1..n /\ i # at[t] /\ log_storage'[j] = log_storage[i]
  <2> HIDE DEF n
  <2> QED BY <1>4, <1>6
<1>8. posting = NoThread /\ \A u \in Threads : op'[u] \notin {"list", "find", "pop"}
  BY <1>2, <1>3, <1>4 DEF Published, Waiting, IInv, OneDelete
<1>9. OwnIds'
  <2>1. ASSUME NEW j \in 1..(n - 1), NEW k \in 1..(n - 1),
               log_storage'[j].id = log_storage'[k].id
        PROVE  j = k
    <3> DEFINE before(x) == IF x < at[t] THEN x ELSE x + 1
    <3>1. before(j) \in 1..n /\ before(k) \in 1..n
      BY <1>7
    <3>2. log_storage[before(j)].id = log_storage[before(k)].id
      BY <1>7, <2>1
    <3>3. before(j) = before(k)
      BY <1>3, <3>1, <3>2 DEF OwnIds
    <3> HIDE DEF n
    <3> QED BY <1>4, <3>3
  <2>2. ASSUME NEW j \in 1..(n - 1)
        PROVE  /\ log_storage'[j].id \in issued
               /\ \A u \in Threads : op'[u] = "publish" => log_storage'[j].id # asked'[u].id
    <3>1. PICK i \in 1..n : log_storage'[j] = log_storage[i]
      BY <1>7
    <3> QED BY <1>2, <1>3, <3>1 DEF OwnIds
  <2>3. ASSUME NEW u \in Threads, op'[u] = "publish"
        PROVE  /\ asked'[u].id \in issued
               /\ \A v \in Threads : op'[v] = "publish" /\ asked'[v].id = asked'[u].id => v = u
    BY <1>2, <1>3, <2>3 DEF OwnIds
  <2> HIDE DEF n
  <2> QED BY <1>1, <1>6, <2>1, <2>2, <2>3 DEF OwnIds
<1>10. Published'
  BY <1>1, <1>2, <1>3, <1>8 DEF Published
<1>11. Waiting' /\ Collecting'
  BY <1>5, <1>8 DEF Waiting, Collecting
<1>12. Acked' /\ Counted'
  BY <1>1, <1>3, <1>4 DEF Acked, Counted
<1>13. Left'
  <2> SUFFICES ASSUME NEW id \in Ids, OfCluster(id)' PROVE LeftOver(id)'
    BY DEF Left
  <2>1. PICK j \in 1..(n - 1) :
          log_storage'[j].id = id /\ log_storage'[j].cluster_uuid = cluster
    BY <1>1, <1>6 DEF OfCluster
  <2>2. PICK i \in 1..n : i # at[t] /\ log_storage'[j] = log_storage[i]
    BY <1>7
  <2>3. id # logs[1].id
    BY <1>3, <1>4, <2>1, <2>2 DEF OwnIds
  <2>4. LeftOver(id)
    BY <1>3, <2>1, <2>2 DEF Left, OfCluster
  <2>5. CASE id \in abandoned
    BY <1>1, <1>4, <2>5 DEF LeftOver
  <2>6. CASE id \notin abandoned
    <3>1. PICK k \in 1..Len(logs) : logs[k].id = id
      BY <1>4, <2>4, <2>6 DEF LeftOver
    <3>2. /\ logs \in Seq(Log) /\ k # 1 /\ k - 1 \in 1..(Len(logs) - 1)
          /\ Len(Tail(logs)) = Len(logs) - 1 /\ Tail(logs)[k - 1] = logs[k]
      BY <1>4, <2>3, <3>1 DEF IInv, TypeOK
    <3>3. \E l \in 1..Len(logs') : logs'[l].id = id
      BY <1>5, <3>1, <3>2
    <3> QED BY <1>1, <1>4, <3>3 DEF LeftOver
  <2> QED BY <2>5, <2>6
<1> QED BY <1>9, <1>10, <1>11, <1>12, <1>13 DEF CountInv

\* A handler keeps the invariant.
LEMMA HandlerCount ==
  ASSUME IInv, CountInv, NEW t \in Threads, Handler(t) PROVE CountInv'
BY PublishCount, CollectCount, CollectedCount, FindCount, PopCount DEF Handler

\* A new scenario counts from the start.
LEMMA BeginCount ==
  ASSUME IInv, CountInv, NEW t \in Threads, NEW c \in Clusters, BeginScenario(t, c)
  PROVE  CountInv'
<1>1. /\ log_storage' = log_storage /\ issued' = issued /\ logs' = logs
      /\ posting' = posting /\ abandoned' = abandoned
      /\ pc = "idle" /\ pc' = "listing" /\ cluster' = c /\ waits' = t /\ acked' = {}
  BY DEF BeginScenario
<1>2. /\ op'[t] = "list" /\ asked'[t].cluster_uuid = c /\ at'[t] = 1 /\ res'[t] = <<>>
      /\ op[t] = "idle"
      /\ \A u \in Threads \ {t} :
           op'[u] = op[u] /\ asked'[u] = asked[u] /\ at'[u] = at[u] /\ res'[u] = res[u]
  BY DEF BeginScenario, Request, About, IInv, TypeOK
<1>3. OwnIds /\ Published /\ Waiting
  BY DEF CountInv
<1>4. posting = NoThread /\ t # NoThread /\ Len(log_storage) \in Nat
  BY <1>1, <1>3, NoThreadAssumption DEF Published, IInv, TypeOK
<1>5. \A u \in Threads : op[u] \notin {"list", "find", "pop"}
  BY <1>1, <1>3 DEF Waiting, IInv, OneDelete
<1>6. OwnIds' /\ Published'
  BY <1>1, <1>2, <1>3, <1>4 DEF OwnIds, Published
<1>7. Waiting'
  BY <1>1, <1>2, <1>4, <1>5 DEF Waiting
<1>8. Collecting'
  <2>1. \A u \in Threads : op'[u] = "list" => u = t
    BY <1>2, <1>5
  <2>2. Collects(t)'
    BY <1>1, <1>2, <1>4 DEF Collects, HasCollected
  <2> QED BY <2>1, <2>2 DEF Collecting
<1>9. (Acked /\ Left /\ Counted)'
  BY <1>1, <1>4 DEF Acked, Left, LeftOver, Counted
<1> QED BY <1>6, <1>7, <1>8, <1>9 DEF CountInv

\* The count of a scenario begins when the notification service has exited.
LEMMA ExitsCount ==
  ASSUME IInv, CountInv, NEW t \in Threads, ServiceExits(t) PROVE CountInv'
<1>1. /\ log_storage' = log_storage /\ issued' = issued /\ logs' = logs /\ cluster' = cluster
      /\ pc = "running" /\ pc' = "counting" /\ waits' = t /\ acked' = acked
      /\ posting' = NoThread
      /\ abandoned' = IF posting = NoThread THEN abandoned
                      ELSE abandoned \cup {asked[posting].id}
  BY DEF ServiceExits
<1>2. /\ op'[t] = "list" /\ asked'[t].cluster_uuid = cluster /\ at'[t] = 1 /\ res'[t] = <<>>
      /\ op[t] = "idle"
      /\ \A u \in Threads \ {t} :
           op'[u] = op[u] /\ asked'[u] = asked[u] /\ at'[u] = at[u] /\ res'[u] = res[u]
  BY DEF ServiceExits, Request, About, IInv, TypeOK
<1>3. OwnIds /\ Published /\ Waiting /\ Acked /\ Left
  BY DEF CountInv
<1>4. /\ t # NoThread /\ Len(log_storage) \in Nat
      /\ posting # NoThread => posting \in Threads
  BY <1>1, <1>3, NoThreadAssumption DEF IInv, TypeOK
<1>5. \A u \in Threads : op[u] \notin {"list", "find", "pop"}
  BY <1>1, <1>3 DEF Waiting, IInv, OneDelete
<1>6. OwnIds' /\ Published'
  BY <1>1, <1>2, <1>3, <1>4 DEF OwnIds, Published
<1>7. Waiting'
  BY <1>1, <1>2, <1>4, <1>5 DEF Waiting
<1>8. Collecting'
  <2>1. \A u \in Threads : op'[u] = "list" => u = t
    BY <1>2, <1>5
  <2>2. Collects(t)'
    BY <1>1, <1>2, <1>4 DEF Collects, HasCollected
  <2> QED BY <2>1, <2>2 DEF Collecting
<1>9. (Acked /\ Left /\ Counted)'
  <2>1. ASSUME NEW id PROVE OfCluster(id)' <=> OfCluster(id)
    BY <1>1 DEF OfCluster
  <2> QED BY <1>1, <1>3, <1>4, <2>1 DEF Acked, Left, LeftOver, Counted
<1> QED BY <1>6, <1>7, <1>8, <1>9 DEF CountInv

\* A request that is not a list keeps the invariant.
LEMMA RequestCount ==
  ASSUME IInv, CountInv, NEW t \in Threads,
         (\E c \in Clusters : Query(t, c)) \/ PurgeNext(t) \/ Post(t)
  PROVE  CountInv'
<1>1. /\ log_storage' = log_storage /\ logs' = logs /\ cluster' = cluster /\ pc' = pc
      /\ acked' = acked /\ abandoned' = abandoned
  BY DEF Query, PurgeNext, Post, steps, ghosts
<1>2. /\ op[t] = "idle" /\ op'[t] \in {"query", "find", "publish"}
      /\ \A u \in Threads \ {t} :
           op'[u] = op[u] /\ asked'[u] = asked[u] /\ at'[u] = at[u] /\ res'[u] = res[u]
  BY DEF Query, PurgeNext, Post, Request, IInv, TypeOK
<1>3. OwnIds /\ Published /\ Waiting /\ Collecting /\ Acked /\ Left /\ Counted
  BY DEF CountInv
<1>4. /\ t # NoThread
      /\ posting # NoThread => posting \in Threads
      /\ waits # NoThread => waits \in Threads
  BY NoThreadAssumption DEF IInv, TypeOK
<1>5. Collecting'
  <2> SUFFICES ASSUME NEW u \in Threads, op'[u] = "list" PROVE Collects(u)'
    BY DEF Collecting
  <2>1. Collects(u) /\ at'[u] = at[u] /\ res'[u] = res[u]
    BY <1>2, <1>3 DEF Collecting
  <2>2. log_storage' = log_storage /\ cluster' = cluster
    BY <1>1
  <2> QED BY <2>1, <2>2 DEF Collects
<1>6. Acked'
  BY <1>1, <1>3 DEF Acked, OfCluster
<1>7. ASSUME NEW id PROVE OfCluster(id)' <=> OfCluster(id)
  BY <1>1 DEF OfCluster
<1>8. ASSUME NEW c \in Clusters, Query(t, c) PROVE CountInv'
  <2>1. issued' = issued /\ waits' = waits /\ posting' = posting /\ op'[t] = "query"
    BY <1>8 DEF Query, Request, steps, IInv, TypeOK
  <2>2. OwnIds' /\ Published'
    BY <1>1, <1>2, <1>3, <1>4, <2>1 DEF OwnIds, Published
  <2>3. Waiting'
    BY <1>1, <1>2, <1>3, <1>4, <2>1 DEF Waiting
  <2>4. Left' /\ Counted'
    BY <1>1, <1>3, <1>7, <2>1 DEF Left, LeftOver, Counted
  <2> QED BY <1>5, <1>6, <2>2, <2>3, <2>4 DEF CountInv
<1>9. CASE PurgeNext(t)
  <2>1. /\ issued' = issued /\ waits' = t /\ posting' = posting /\ op'[t] = "find"
        /\ pc = "purging" /\ waits = NoThread /\ asked'[t] = logs[1]
    BY <1>9 DEF PurgeNext, Request, IInv, TypeOK
  <2>2. OwnIds' /\ Published'
    BY <1>1, <1>2, <1>3, <1>4, <2>1 DEF OwnIds, Published
  <2>3. Waiting'
    BY <1>1, <1>2, <1>3, <1>4, <2>1 DEF Waiting
  <2>4. Left' /\ Counted'
    BY <1>1, <1>3, <1>7, <2>1 DEF Left, LeftOver, Counted
  <2> QED BY <1>5, <1>6, <2>2, <2>3, <2>4 DEF CountInv
<1>10. CASE Post(t)
  <2>1. /\ waits' = waits /\ posting' = t /\ op'[t] = "publish"
        /\ pc = "running" /\ posting = NoThread /\ asked'[t] = NewLog
        /\ issued' = issued \cup {NewLog.id}
    BY <1>10 DEF Post, Request, steps, IInv, TypeOK
  <2>2. NewLog.id \notin issued /\ NewLog.cluster_uuid = cluster
    <3>1. \E i \in Ids : i \notin issued
      BY <1>10 DEF Post, IInv, TypeOK
    <3> QED BY <3>1 DEF NewLog
  <2>3. OwnIds'
    BY <1>1, <1>2, <1>3, <2>1, <2>2 DEF OwnIds
  <2>4. Published'
    BY <1>1, <1>2, <1>3, <1>4, <2>1, <2>2, NoThreadAssumption DEF Published
  <2>5. Waiting'
    BY <1>1, <1>2, <1>3, <1>4, <2>1 DEF Waiting
  <2>6. Left' /\ Counted'
    BY <1>1, <1>3, <1>7, <2>1 DEF Left, LeftOver, Counted
  <2> QED BY <1>5, <1>6, <2>3, <2>4, <2>5, <2>6 DEF CountInv
<1> QED BY <1>8, <1>9, <1>10

\* The rest of a scenario starts no request.
LEMMA QuietCount ==
  ASSUME IInv, CountInv,
         PurgeBegins \/ PurgeEnds \/ Count \/ EndScenario \/ GiveUp \/ UNCHANGED vars
  PROVE  CountInv'
<1>1. /\ log_storage' = log_storage /\ op' = op /\ asked' = asked /\ at' = at /\ res' = res
      /\ issued' = issued /\ cluster' = cluster /\ waits' = waits /\ acked' = acked
  BY DEF PurgeBegins, PurgeEnds, Count, EndScenario, GiveUp, vars, handlers, steps, ghosts
<1>2. OwnIds /\ Published /\ Waiting /\ Collecting /\ Acked /\ Left /\ Counted
  BY DEF CountInv
<1>3. OwnIds' /\ Collecting'
  BY <1>1, <1>2 DEF OwnIds, Collecting, Collects
<1>4. ASSUME NEW id PROVE OfCluster(id)' <=> OfCluster(id)
  BY <1>1 DEF OfCluster
<1>5. /\ posting # NoThread => posting \in Threads
      /\ pc \in {"idle", "running", "counted"} => waits = NoThread
      /\ \A t \in Threads : op[t] \in {"find", "pop"} => waits = t /\ pc = "purging"
  BY DEF IInv, TypeOK, OneDelete, NotWaiting
<1>6. CASE PurgeBegins
  <2>1. /\ pc = "listing" /\ waits = NoThread /\ pc' = "purging" /\ logs' = logs
        /\ posting' = posting /\ abandoned' = abandoned
    BY <1>6 DEF PurgeBegins, ghosts
  <2>2. Published' /\ Waiting' /\ Counted'
    BY <1>1, <1>2, <1>5, <2>1, NoThreadAssumption DEF Published, Waiting, Counted
  <2>3. Acked' /\ Left'
    BY <1>1, <1>2, <1>4, <2>1 DEF Acked, Left, LeftOver
  <2> QED BY <1>3, <2>2, <2>3 DEF CountInv
<1>7. CASE PurgeEnds
  <2>1. /\ pc = "purging" /\ waits = NoThread /\ pc' = "running" /\ logs' = logs
        /\ logs = <<>> /\ posting' = posting /\ abandoned' = abandoned
    BY <1>7 DEF PurgeEnds, ghosts
  <2>2. Published' /\ Waiting' /\ Counted'
    BY <1>1, <1>2, <1>5, <2>1, NoThreadAssumption DEF Published, Waiting, Counted
  <2>3. Acked' /\ Left'
    BY <1>1, <1>2, <1>4, <2>1 DEF Acked, Left, LeftOver
  <2> QED BY <1>3, <2>2, <2>3 DEF CountInv
<1>8. CASE Count
  <2>1. /\ pc = "counting" /\ waits = NoThread /\ pc' = "counted" /\ logs' = logs
        /\ posting' = posting /\ abandoned' = abandoned
    BY <1>8 DEF Count, ghosts
  <2>2. Published' /\ Waiting' /\ Counted'
    BY <1>1, <1>2, <1>5, <2>1, NoThreadAssumption DEF Published, Waiting, Counted
  <2>3. Acked' /\ Left'
    BY <2>1 DEF Acked, Left, LeftOver
  <2> QED BY <1>3, <2>2, <2>3 DEF CountInv
<1>9. CASE EndScenario
  <2>1. /\ pc = "counted" /\ pc' = "idle" /\ posting' = posting /\ abandoned' = abandoned
    BY <1>9 DEF EndScenario, ghosts
  <2>2. Published' /\ Waiting' /\ Counted'
    BY <1>1, <1>2, <1>5, <2>1, NoThreadAssumption DEF Published, Waiting, Counted
  <2>3. Acked' /\ Left'
    BY <2>1 DEF Acked, Left, LeftOver
  <2> QED BY <1>3, <2>2, <2>3 DEF CountInv
<1>10. CASE GiveUp
  <2>1. /\ posting # NoThread /\ pc' = pc /\ logs' = logs /\ posting' = NoThread
        /\ abandoned' = abandoned \cup {asked[posting].id}
    BY <1>10 DEF GiveUp, steps
  <2>2. pc = "running"
    BY <1>2, <2>1 DEF Published
  <2>3. Published' /\ Waiting' /\ Counted'
    BY <1>1, <1>2, <1>5, <2>1, <2>2 DEF Published, Waiting, Counted
  <2>4. Acked' /\ Left'
    BY <1>1, <1>2, <1>4, <2>1 DEF Acked, Left, LeftOver
  <2> QED BY <1>3, <2>3, <2>4 DEF CountInv
<1>11. CASE UNCHANGED vars
  <2>1. pc' = pc /\ logs' = logs /\ posting' = posting /\ abandoned' = abandoned
    BY <1>11 DEF vars, steps, ghosts
  <2>2. Published' /\ Waiting' /\ Counted'
    BY <1>1, <1>2, <2>1 DEF Published, Waiting, Counted
  <2>3. Acked' /\ Left'
    BY <1>1, <1>2, <1>4, <2>1 DEF Acked, Left, LeftOver
  <2> QED BY <1>3, <2>2, <2>3 DEF CountInv
<1> QED BY <1>6, <1>7, <1>8, <1>9, <1>10, <1>11

\* Every reachable state can be counted right.
LEMMA CountInvariance == Spec => [](IInv /\ CountInv)
<1>1. Init => IInv /\ CountInv
  BY InitInvariant, InitCount
<1>2. IInv /\ [Next]_vars => IInv'
  BY HandlerTypes, OtherTypes, HandlerDeletes, OtherDeletes DEF IInv, Deletes
<1>3. ASSUME IInv, CountInv, [Next]_vars PROVE CountInv'
  BY <1>3, HandlerCount, BeginCount, ExitsCount, RequestCount, QuietCount DEF Next, Proceed
<1> QED BY <1>1, <1>2, <1>3, PTL DEF Spec

\* For every number of threads, clusters and logs: the count of a scenario has
\* each log the mock acknowledged in it, once, and no log of an earlier scenario
\* (notification_service.py:620-641).
THEOREM CountExact == Spec => []CountIsExact
<1>1. IInv /\ CountInv => CountIsExact
  <2> SUFFICES ASSUME IInv, Counted, pc = "counted"
               PROVE  /\ acked \subseteq IdsOf(logs)
                      /\ IdsOf(logs) \subseteq acked \cup abandoned
                      /\ \A i, j \in DOMAIN logs : logs[i].id = logs[j].id => i = j
    BY DEF CountInv, CountIsExact
  <2>1. DOMAIN logs = 1..Len(logs)
    BY DEF IInv, TypeOK
  <2>2. IdsOf(logs) = {logs[i].id : i \in 1..Len(logs)}
    BY <2>1 DEF IdsOf
  <2> QED BY <2>1, <2>2 DEF Counted
<1> QED BY <1>1, CountInvariance, PTL

-----------------------------------------------------------------------------
(* The mock as a store of logs *)

\* No two logs of a list have the same id.
Distinct(s) == \A k, l \in 1..Len(s) : s[k].id = s[l].id => k = l

\* What behave was given and has not deleted is stored, each log once.
Held ==
  /\ \A k \in 1..Len(logs) : \E i \in 1..Len(log_storage) : logs[k] = log_storage[i]
  /\ Distinct(logs)

StoreInv == IInv /\ CountInv /\ Held

\* The elements of a list, by its indexes.
LEMMA ElementsByIndex ==
  ASSUME NEW s \in Seq(Log) PROVE Elements(s) = {s[i] : i \in 1..Len(s)}
<1>1. DOMAIN s = 1..Len(s)
  OBVIOUS
<1> QED BY <1>1 DEF Elements

\* An appended log is an element more.
LEMMA ElementsAppend ==
  ASSUME NEW s \in Seq(Log), NEW l \in Log
  PROVE  Elements(Append(s, l)) = Elements(s) \cup {l}
<1> DEFINE r == Append(s, l)
           n == Len(s)
<1>1. /\ n \in Nat /\ r \in Seq(Log) /\ Len(r) = n + 1 /\ r[n + 1] = l
      /\ \A i \in 1..n : r[i] = s[i]
  OBVIOUS
<1>2. Elements(r) = {r[i] : i \in 1..Len(r)} /\ Elements(s) = {s[i] : i \in 1..n}
  BY <1>1, ElementsByIndex
<1> HIDE DEF r, n
<1>3. 1..Len(r) = 1..n \cup {n + 1}
  BY <1>1
<1>4. Elements(r) = Elements(s) \cup {l}
  BY <1>1, <1>2, <1>3
<1> QED BY <1>4 DEF r

\* A list without its log at an index has one element less.
LEMMA ElementsPop ==
  ASSUME NEW s \in Seq(Log), Distinct(s), NEW i \in Nat \ {0}, i <= Len(s)
  PROVE  Elements(SubSeq(s, 1, i - 1) \o SubSeq(s, i + 1, Len(s))) = Elements(s) \ {s[i]}
<1> DEFINE r == SubSeq(s, 1, i - 1) \o SubSeq(s, i + 1, Len(s))
           n == Len(s)
<1>1. n \in Nat /\ i \in 1..n
  OBVIOUS
<1>2. r \in Seq(Log)
  BY PopType
<1>3. Len(r) = n - 1 /\ \A j \in 1..(n - 1) : r[j] = IF j < i THEN s[j] ELSE s[j + 1]
  BY PopElements
<1>4. Elements(r) = {r[j] : j \in 1..Len(r)} /\ Elements(s) = {s[j] : j \in 1..n}
  BY <1>2, ElementsByIndex
<1>5. \A j, k \in 1..n : s[j] = s[k] => j = k
  BY DEF Distinct
<1> HIDE DEF r, n
<1>6. ASSUME NEW j \in 1..(n - 1) PROVE r[j] \in Elements(s) \ {s[i]}
  <2>1. PICK k \in 1..n : k # i /\ r[j] = s[k]
    <3>1. CASE j < i
      BY <1>1, <1>3, <3>1
    <3>2. CASE ~(j < i)
      <4>1. j + 1 \in 1..n /\ j + 1 # i /\ r[j] = s[j + 1]
        BY <1>1, <1>3, <3>2
      <4> QED BY <4>1
    <3> QED BY <3>1, <3>2
  <2> QED BY <1>1, <1>4, <1>5, <2>1
<1>7. ASSUME NEW k \in 1..n, s[k] # s[i] PROVE s[k] \in Elements(r)
  <2>1. PICK j \in 1..(n - 1) : r[j] = s[k]
    <3>1. CASE k < i
      <4>1. k \in 1..(n - 1)
        BY <1>1, <3>1
      <4> QED BY <1>3, <3>1, <4>1
    <3>2. CASE ~(k < i)
      <4>1. k - 1 \in 1..(n - 1) /\ ~(k - 1 < i) /\ (k - 1) + 1 = k
        BY <1>1, <1>7, <3>2
      <4>2. r[k - 1] = s[k]
        BY <1>3, <4>1
      <4> QED BY <4>1, <4>2
    <3> QED BY <3>1, <3>2
  <2> QED BY <1>3, <1>4, <2>1
<1>8. Elements(r) = Elements(s) \ {s[i]}
  <2>1. Elements(r) \subseteq Elements(s) \ {s[i]}
    BY <1>3, <1>4, <1>6
  <2>2. Elements(s) \ {s[i]} \subseteq Elements(r)
    BY <1>4, <1>7
  <2> QED BY <2>1, <2>2
<1> QED BY <1>8 DEF r

\* The tail of a list has all but its head.
LEMMA ElementsTail ==
  ASSUME NEW s \in Seq(Log), s # <<>>, Distinct(s)
  PROVE  /\ Elements(Tail(s)) = Elements(s) \ {s[1]}
         /\ Distinct(Tail(s))
<1> DEFINE r == Tail(s)
           n == Len(s)
<1>1. /\ n \in Nat \ {0} /\ r \in Seq(Log) /\ Len(r) = n - 1
      /\ \A j \in 1..(n - 1) : r[j] = s[j + 1]
  OBVIOUS
<1>2. Elements(r) = {r[j] : j \in 1..Len(r)} /\ Elements(s) = {s[j] : j \in 1..n}
  BY <1>1, ElementsByIndex
<1>3. \A j, k \in 1..n : s[j].id = s[k].id => j = k
  BY DEF Distinct
<1> HIDE DEF r, n
<1>4. ASSUME NEW j \in 1..(n - 1) PROVE j + 1 \in 1..n /\ j + 1 # 1 /\ r[j] = s[j + 1]
  BY <1>1
<1>5. ASSUME NEW k \in 1..n, k # 1 PROVE k - 1 \in 1..(n - 1) /\ r[k - 1] = s[k]
  <2>1. k - 1 \in 1..(n - 1) /\ (k - 1) + 1 = k
    BY <1>1, <1>5
  <2> QED BY <1>1, <2>1
<1>6. Elements(r) \subseteq Elements(s) \ {s[1]}
  <2> SUFFICES ASSUME NEW j \in 1..(n - 1) PROVE r[j] \in Elements(s) \ {s[1]}
    BY <1>1, <1>2
  <2>1. 1 \in 1..n
    BY <1>1
  <2> QED BY <1>2, <1>3, <1>4, <2>1
<1>7. Elements(s) \ {s[1]} \subseteq Elements(r)
  <2> SUFFICES ASSUME NEW k \in 1..n, s[k] # s[1] PROVE s[k] \in Elements(r)
    BY <1>2
  <2>1. k - 1 \in 1..(n - 1) /\ r[k - 1] = s[k]
    BY <1>5
  <2> QED BY <1>1, <1>2, <2>1
<1>8. ASSUME NEW j \in 1..(n - 1), NEW k \in 1..(n - 1), r[j].id = r[k].id PROVE j = k
  <2>1. j + 1 = k + 1
    BY <1>3, <1>4, <1>8
  <2> QED BY <2>1
<1>9. Distinct(r)
  BY <1>1, <1>8 DEF Distinct
<1> QED BY <1>6, <1>7, <1>9 DEF r

\* What is stored and what was given, as the store has them.
LEMMA StoreElements ==
  ASSUME TypeOK
  PROVE  /\ Elements(log_storage) = {log_storage[i] : i \in 1..Len(log_storage)}
         /\ Elements(logs) = {logs[k] : k \in 1..Len(logs)}
BY ElementsByIndex DEF TypeOK

\* What was given is in the list.
LEMMA GivenIsStored ==
  ASSUME TypeOK PROVE Held <=> Elements(logs) \subseteq Elements(log_storage) /\ Distinct(logs)
BY StoreElements DEF Held

\* A publish stores a log that was not there.
LEMMA PublishStores ==
  ASSUME StoreInv, NEW t \in Threads, publish_log(t)
  PROVE  Store!Publish(asked[t]) /\ asked[t] \in Log /\ logs' = logs
<1>1. /\ op[t] = "publish" /\ log_storage' = Append(log_storage, asked[t]) /\ logs' = logs
  BY DEF publish_log, steps
<1>2. log_storage \in Seq(Log) /\ asked[t] \in Log /\ TypeOK
  BY DEF StoreInv, IInv, TypeOK
<1>3. Elements(log_storage') = Elements(log_storage) \cup {asked[t]}
  BY <1>1, <1>2, ElementsAppend
<1>4. \A i \in 1..Len(log_storage) : log_storage[i].id # asked[t].id
  BY <1>1 DEF StoreInv, CountInv, OwnIds
<1>5. \A other \in Elements(log_storage) : other.id # asked[t].id
  BY <1>2, <1>4, StoreElements
<1> QED BY <1>1, <1>2, <1>3, <1>5 DEF Store!Publish

\* The answer to a list is what is stored of the cluster when it answers.
LEMMA CollectedLists ==
  ASSUME StoreInv, NEW t \in Threads, Collected(t), t = waits
  PROVE  Store!List(cluster) /\ Distinct(logs') /\ log_storage' = log_storage
<1>1. /\ log_storage' = log_storage /\ logs' = res[t] /\ op[t] \in {"list", "query"}
      /\ at[t] > Len(log_storage)
  BY DEF Collected, Answer
<1>2. /\ res[t] \in Seq(Log) /\ Len(log_storage) \in Nat /\ at[t] \in Nat /\ TypeOK
      /\ t # NoThread
  BY NoThreadAssumption DEF StoreInv, IInv, TypeOK
<1>3. op[t] = "list"
  BY <1>1, <1>2 DEF StoreInv, CountInv, Waiting
<1>4. HasCollected(log_storage, cluster, at[t], res[t])
  BY <1>3 DEF StoreInv, CountInv, Collecting, Collects
<1>5. \A i \in 1..Len(log_storage) : i < at[t]
  BY <1>1, <1>2
<1>6. Elements(res[t]) = {l \in Elements(log_storage) : l.cluster_uuid = cluster}
  <2>1. Elements(res[t]) = {res[t][k] : k \in 1..Len(res[t])}
    BY <1>2, ElementsByIndex
  <2>2. Elements(log_storage) = {log_storage[i] : i \in 1..Len(log_storage)}
    BY <1>2, StoreElements
  <2>3. ASSUME NEW k \in 1..Len(res[t])
        PROVE  \E i \in 1..Len(log_storage) :
                 log_storage[i].cluster_uuid = cluster /\ res[t][k] = log_storage[i]
    BY <1>4 DEF HasCollected
  <2>4. ASSUME NEW i \in 1..Len(log_storage), log_storage[i].cluster_uuid = cluster
        PROVE  \E k \in 1..Len(res[t]) : res[t][k] = log_storage[i]
    BY <1>4, <1>5, <2>4 DEF HasCollected
  <2>5. Elements(res[t]) \subseteq {l \in Elements(log_storage) : l.cluster_uuid = cluster}
    <3> SUFFICES ASSUME NEW k \in 1..Len(res[t])
                 PROVE  res[t][k] \in Elements(log_storage) /\ res[t][k].cluster_uuid = cluster
      BY <2>1
    <3> QED BY <2>2, <2>3
  <2>6. {l \in Elements(log_storage) : l.cluster_uuid = cluster} \subseteq Elements(res[t])
    <3> SUFFICES ASSUME NEW i \in 1..Len(log_storage), log_storage[i].cluster_uuid = cluster
                 PROVE  log_storage[i] \in Elements(res[t])
      BY <2>2
    <3> QED BY <2>1, <2>4
  <2> QED BY <2>5, <2>6
<1>7. Distinct(res[t])
  BY <1>4 DEF HasCollected, Distinct
<1> QED BY <1>1, <1>6, <1>7 DEF Store!List

\* A pop deletes the first of the logs that are left.
LEMMA PopDeletes ==
  ASSUME StoreInv, NEW t \in Threads, Pop(t)
  PROVE  Store!Delete(logs[1]) /\ logs[1] \in Log /\ Distinct(logs')
<1> DEFINE i == at[t]
           l == logs[1]
<1>1. /\ op[t] = "pop" /\ waits = t /\ logs # <<>> /\ asked[t] = l
      /\ i \in Nat \ {0} /\ i <= Len(log_storage) /\ log_storage[i].id = asked[t].id
  BY DEF Pop, StoreInv, IInv, CountInv, TypeOK, OneDelete, AtPositive, PopHitsItsLog, Waiting
<1>2. /\ logs \in Seq(Log) /\ log_storage \in Seq(Log) /\ TypeOK
      /\ Len(log_storage) \in Nat /\ Len(logs) \in Nat
  BY DEF StoreInv, IInv, TypeOK
<1>3. 1 \in 1..Len(logs) /\ l \in Log
  BY <1>1, <1>2
<1>4. Distinct(log_storage) /\ Distinct(logs)
  BY DEF StoreInv, CountInv, OwnIds, Held, Distinct
<1>5. /\ logs' = Tail(logs)
      /\ log_storage' = SubSeq(log_storage, 1, i - 1)
                          \o SubSeq(log_storage, i + 1, Len(log_storage))
  BY <1>1 DEF Pop, Answer
<1>6. l = log_storage[i]
  <2>1. PICK j \in 1..Len(log_storage) : l = log_storage[j]
    BY <1>3 DEF StoreInv, Held
  <2>2. i \in 1..Len(log_storage)
    BY <1>1, <1>2
  <2>3. log_storage[i].id = log_storage[j].id
    BY <1>1, <2>1
  <2>4. i = j
    BY <1>4, <2>2, <2>3 DEF Distinct
  <2> QED BY <2>1, <2>4
<1>7. l \in Elements(logs) /\ l \in Elements(log_storage)
  <2>1. l \in Elements(logs)
    BY <1>2, <1>3, StoreElements
  <2>2. i \in 1..Len(log_storage)
    BY <1>1, <1>2
  <2> QED BY <1>2, <1>6, <2>1, <2>2, StoreElements
<1> HIDE DEF i
<1>8. Elements(log_storage') = Elements(log_storage) \ {l}
  BY <1>1, <1>2, <1>4, <1>5, <1>6, ElementsPop
<1>9. Elements(logs') = Elements(logs) \ {l} /\ Distinct(logs')
  BY <1>1, <1>2, <1>4, <1>5, ElementsTail
<1> QED BY <1>3, <1>7, <1>8, <1>9 DEF Store!Delete

\* Where neither list changes, neither does the store.
LEMMA StoreStutter ==
  ASSUME log_storage' = log_storage, logs' = logs
  PROVE  UNCHANGED Store!vars
BY DEF Store!vars

\* A request changes neither list.
LEMMA RequestsStutter ==
  ASSUME NEW t \in Threads,
         (\E c \in Clusters : BeginScenario(t, c) \/ Query(t, c))
           \/ PurgeNext(t) \/ ServiceExits(t) \/ Post(t)
  PROVE  log_storage' = log_storage /\ logs' = logs
BY DEF BeginScenario, Query, PurgeNext, ServiceExits, Post, steps

\* Nor does a turn of a loop, the answer to another client, or what behave does
\* between its requests.
LEMMA QuietStutter ==
  ASSUME \/ PurgeBegins \/ PurgeEnds \/ Count \/ GiveUp \/ UNCHANGED vars
         \/ \E t \in Threads : Collect(t) \/ Find(t) \/ (Collected(t) /\ t # waits)
  PROVE  log_storage' = log_storage /\ logs' = logs
BY DEF PurgeBegins, PurgeEnds, Count, GiveUp, vars, steps, Collect, Find, Collected, Answer

\* Every step is a step of the store, or one the store does not see.
LEMMA StoreStep ==
  ASSUME StoreInv, TypeOK', [Next]_vars
  PROVE  [Store!Next]_(Store!vars) /\ Held'
<1>1. TypeOK /\ Held /\ Distinct(logs) /\ Elements(logs) \subseteq Elements(log_storage)
  BY GivenIsStored DEF StoreInv, IInv
<1>2. SUFFICES /\ [Store!Next]_(Store!vars)
               /\ Elements(logs') \subseteq Elements(log_storage') /\ Distinct(logs')
  <2>1. /\ Elements(logs') = {logs'[k] : k \in 1..Len(logs')}
        /\ Elements(log_storage') = {log_storage'[i] : i \in 1..Len(log_storage')}
    BY ElementsByIndex DEF TypeOK
  <2> QED BY <2>1 DEF Held
<1>3. ASSUME log_storage' = log_storage, logs' = logs
      PROVE  /\ UNCHANGED Store!vars
             /\ Elements(logs') \subseteq Elements(log_storage') /\ Distinct(logs')
  BY <1>1, <1>3, StoreStutter
<1>4. ASSUME NEW t \in Threads, publish_log(t)
      PROVE  /\ Store!Next
             /\ Elements(logs') \subseteq Elements(log_storage') /\ Distinct(logs')
  <2>1. Store!Publish(asked[t]) /\ asked[t] \in Log /\ logs' = logs
    BY <1>4, PublishStores
  <2> QED BY <1>1, <2>1 DEF Store!Next, Store!Publish
<1>5. ASSUME NEW t \in Threads, Collected(t), t = waits
      PROVE  /\ Store!Next
             /\ Elements(logs') \subseteq Elements(log_storage') /\ Distinct(logs')
  <2>1. Store!List(cluster) /\ Distinct(logs') /\ log_storage' = log_storage
    BY <1>5, CollectedLists
  <2>2. cluster \in Clusters
    BY <1>1 DEF TypeOK
  <2> QED BY <2>1, <2>2 DEF Store!Next, Store!List
<1>6. ASSUME NEW t \in Threads, Pop(t)
      PROVE  /\ Store!Next
             /\ Elements(logs') \subseteq Elements(log_storage') /\ Distinct(logs')
  <2>1. Store!Delete(logs[1]) /\ logs[1] \in Log /\ Distinct(logs')
    BY <1>6, PopDeletes
  <2> QED BY <1>1, <2>1 DEF Store!Next, Store!Delete
<1>7. CASE EndScenario
  <2>1. log_storage' = log_storage /\ logs' = <<>>
    BY <1>7 DEF EndScenario
  <2>2. Elements(logs') = {} /\ Distinct(logs')
    BY <2>1 DEF Elements, Distinct
  <2>3. Store!Forget
    BY <2>1, <2>2 DEF Store!Forget
  <2> QED BY <2>2, <2>3 DEF Store!Next
<1>8. \/ \E t \in Threads : publish_log(t) \/ (Collected(t) /\ t = waits) \/ Pop(t)
      \/ EndScenario
      \/ log_storage' = log_storage /\ logs' = logs
  BY RequestsStutter, QuietStutter DEF Next, Proceed, Handler
<1> QED BY <1>3, <1>4, <1>5, <1>6, <1>7, <1>8

\* For every number of threads, clusters and logs: the steps cannot tell the mock,
\* whose handlers run in threads on one shared list, from a store whose handlers
\* take effect at once (service_log.py:186-265).
THEOREM LogStoreImplemented == Spec => ImplementsLogStore
<1>1. Init => Store!Init /\ Held
  BY DEF Init, Store!Init, Elements, Held, Distinct
<1>2. IInv => TypeOK
  BY DEF IInv
<1>3. IInv /\ CountInv /\ Held /\ TypeOK' /\ [Next]_vars => [Store!Next]_(Store!vars) /\ Held'
  BY StoreStep DEF StoreInv
<1> QED BY <1>1, <1>2, <1>3, CountInvariance, PTL DEF Spec, ImplementsLogStore, Store!Spec

=============================================================================
