------------------------------ MODULE ServiceLog ------------------------------
(***************************************************************************)
(* The service log mock (mocks/service-log/service_log.py) and its clients *)
(* in the scenarios of features/ccx-notification-service/service_log.feature: *)
(* the steps of notification_service.py that purge and count the logs of a *)
(* cluster, the notification service they start, which publishes logs, and *)
(* anyone who queries the mock meanwhile.                                  *)
(*                                                                         *)
(* The handlers of the mock are plain functions, so that FastAPI runs each *)
(* request in a thread of a pool, on one shared list. A list operation is  *)
(* atomic, a loop over the list is not: it looks at index after index of   *)
(* the list as it then is. A handler whose client has gone runs to its     *)
(* end. Every request has an Authorization header: one without is turned   *)
(* away before it reaches the list.                                        *)
(***************************************************************************)
EXTENDS Naturals, Sequences

CONSTANTS
  Threads,   \* the threads of the pool
  NoThread,  \* a client that waits for no answer
  Clusters,  \* the clusters logs are about
  None,      \* cluster_id of a log or a query that names none
  Ids        \* the ids random_id gives out: bounds the logs of a run

ASSUME NoThreadAssumption == NoThread \notin Threads
ASSUME NoneAssumption     == None \notin Clusters
ASSUME IdsAssumption      == Ids # {}

Log == [id : Ids, cluster_uuid : Clusters, cluster_id : Clusters \cup {None}]

VARIABLES
  log_storage,  \* the shared list
  op,           \* what the handler in each thread does
  asked,        \* the log each handler was asked for, published or deletes
  at,           \* the index its loop has reached
  res,          \* the logs its loop has collected
  issued,       \* the ids given out
  pc,           \* the step behave is at
  cluster,      \* the cluster the scenario is about
  waits,        \* the thread that works for behave
  logs,         \* the answer behave got last
  posting,      \* the thread that works for the notification service
  acked,        \* the logs whose 201 the notification service got in the scenario
  abandoned     \* the logs whose answer it did not wait for

handlers == <<op, asked, at, res>>
steps    == <<pc, cluster, waits, logs>>
ghosts   == <<acked, abandoned>>
vars     == <<log_storage, handlers, issued, steps, posting, ghosts>>

TypeOK ==
  /\ log_storage \in Seq(Log)
  /\ op \in [Threads -> {"idle", "publish", "list", "query", "find", "pop"}]
  /\ asked \in [Threads -> Log]
  /\ at \in [Threads -> Nat]
  /\ res \in [Threads -> Seq(Log)]
  /\ issued \subseteq Ids
  /\ pc \in {"idle", "listing", "purging", "running", "counting", "counted"}
  /\ cluster \in Clusters
  /\ waits \in Threads \cup {NoThread}
  /\ logs \in Seq(Log)
  /\ posting \in Threads \cup {NoThread}
  /\ acked \subseteq Ids /\ abandoned \subseteq Ids

\* What a request for the logs of a cluster asks for: it names no cluster_id, and
\* its id means nothing.
About(c) == [id |-> CHOOSE i \in Ids : TRUE, cluster_uuid |-> c, cluster_id |-> None]

\* What an idle thread was asked for means nothing.
AnyLog == About(CHOOSE c \in Clusters : TRUE)

Init ==
  /\ log_storage = <<>>
  /\ op = [t \in Threads |-> "idle"]
  /\ asked = [t \in Threads |-> AnyLog]
  /\ at = [t \in Threads |-> 1]
  /\ res = [t \in Threads |-> <<>>]
  /\ issued = {}
  /\ pc = "idle" /\ cluster \in Clusters /\ waits = NoThread /\ logs = <<>>
  /\ posting = NoThread
  /\ acked = {} /\ abandoned = {}

IdsOf(s) == {s[i].id : i \in DOMAIN s}

-----------------------------------------------------------------------------
(* Requests and answers *)

\* A request reaches a free thread of the pool.
Request(t, o, l) ==
  /\ op[t] = "idle"
  /\ op' = [op EXCEPT ![t] = o]
  /\ asked' = [asked EXCEPT ![t] = l]
  /\ at' = [at EXCEPT ![t] = 1]
  /\ res' = [res EXCEPT ![t] = <<>>]

\* The thread is free again, with nothing left over.
Respond(t) ==
  /\ op' = [op EXCEPT ![t] = "idle"]
  /\ asked' = [asked EXCEPT ![t] = AnyLog]
  /\ at' = [at EXCEPT ![t] = 1]
  /\ res' = [res EXCEPT ![t] = <<>>]

\* If the thread works for behave, behave has its answer.
Answer(t, answer) ==
  /\ logs' = IF t = waits THEN answer ELSE logs
  /\ waits' = IF t = waits THEN NoThread ELSE waits

-----------------------------------------------------------------------------
(* The handlers of the mock *)

\* Mutant: the newest log comes first.
PublishFirst(t) ==
  /\ op[t] = "publish"
  /\ log_storage' = <<asked[t]>> \o log_storage
  /\ Respond(t)
  /\ acked' = IF t = posting THEN acked \cup {asked[t].id} ELSE acked
  /\ posting' = IF t = posting THEN NoThread ELSE posting
  /\ UNCHANGED <<issued, steps, abandoned>>

\* Mutant: the log is stored as it was received, without add_additional_fields.
PublishReceived(t) ==
  /\ op[t] = "publish"
  /\ log_storage' = Append(log_storage, [cluster_uuid |-> asked[t].cluster_uuid,
                                         cluster_id   |-> asked[t].cluster_id])
  /\ Respond(t)
  /\ acked' = IF t = posting THEN acked \cup {asked[t].id} ELSE acked
  /\ posting' = IF t = posting THEN NoThread ELSE posting
  /\ UNCHANGED <<issued, steps, abandoned>>

publish_log(t) ==
  /\ op[t] = "publish"
  /\ log_storage' = Append(log_storage, asked[t])
  /\ Respond(t)
  /\ acked' = IF t = posting THEN acked \cup {asked[t].id} ELSE acked
  /\ posting' = IF t = posting THEN NoThread ELSE posting
  /\ UNCHANGED <<issued, steps, abandoned>>

\* The filter of get_logs_for_cluster, and the one of get_logs, for which a log
\* without cluster_id matches a query without cluster_id.
Matches(o, l, a) ==
  \/ l.cluster_uuid = a.cluster_uuid
  \/ o = "query" /\ l.cluster_id = a.cluster_id

\* Mutant: the index moves on with the matching logs only.
CollectStuck(t) ==
  /\ op[t] \in {"list", "query"}
  /\ at[t] <= Len(log_storage)
  /\ Matches(op[t], log_storage[at[t]], asked[t])
  /\ at' = [at EXCEPT ![t] = @ + 1]
  /\ res' = [res EXCEPT ![t] = Append(@, log_storage[at[t]])]
  /\ UNCHANGED <<log_storage, op, asked, issued, steps, posting, ghosts>>

\* One turn of `for log in log_storage` of get_logs and get_logs_for_cluster.
Collect(t) ==
  /\ op[t] \in {"list", "query"}
  /\ at[t] <= Len(log_storage)
  /\ at' = [at EXCEPT ![t] = @ + 1]
  /\ res' = [res EXCEPT ![t] =
               IF Matches(op[t], log_storage[at[t]], asked[t])
                 THEN Append(@, log_storage[at[t]]) ELSE @]
  /\ UNCHANGED <<log_storage, op, asked, issued, steps, posting, ghosts>>

\* Mutant: the loop misses the last log.
CollectedButLast(t) ==
  /\ op[t] \in {"list", "query"}
  /\ at[t] >= Len(log_storage)
  /\ Answer(t, res[t])
  /\ Respond(t)
  /\ UNCHANGED <<log_storage, issued, pc, cluster, posting, ghosts>>

Collected(t) ==
  /\ op[t] \in {"list", "query"}
  /\ at[t] > Len(log_storage)
  /\ Answer(t, res[t])
  /\ Respond(t)
  /\ UNCHANGED <<log_storage, issued, pc, cluster, posting, ghosts>>

\* One turn of the loop of delete_logs. Only behave deletes logs, and only those
\* it has just been given: the loop finds the log before the list ends.
Find(t) ==
  /\ op[t] = "find"
  /\ at[t] <= Len(log_storage)
  /\ IF log_storage[at[t]].id = asked[t].id
       THEN op' = [op EXCEPT ![t] = "pop"] /\ UNCHANGED at
       ELSE at' = [at EXCEPT ![t] = @ + 1] /\ UNCHANGED op
  /\ UNCHANGED <<log_storage, asked, res, issued, steps, posting, ghosts>>

\* log_storage.pop(i), with the index found before.
Pop(t) ==
  /\ op[t] = "pop"
  /\ log_storage' = SubSeq(log_storage, 1, at[t] - 1)
                      \o SubSeq(log_storage, at[t] + 1, Len(log_storage))
  /\ Answer(t, Tail(logs))
  /\ Respond(t)
  /\ UNCHANGED <<issued, pc, cluster, posting, ghosts>>

-----------------------------------------------------------------------------
(* The steps of a scenario *)

\* "service-log service has no records for cluster {cluster_id}" lists the logs
\* of the cluster ...
BeginScenario(t, c) ==
  /\ pc = "idle"
  /\ Request(t, "list", About(c))
  /\ waits' = t /\ cluster' = c /\ pc' = "listing"
  /\ acked' = {}
  /\ UNCHANGED <<log_storage, issued, logs, posting, abandoned>>

PurgeBegins ==
  /\ pc = "listing" /\ waits = NoThread
  /\ pc' = "purging"
  /\ UNCHANGED <<log_storage, handlers, issued, cluster, waits, logs, posting, ghosts>>

\* ... and deletes one after the other. `logs` holds those still to be deleted.
PurgeNext(t) ==
  /\ pc = "purging" /\ waits = NoThread
  /\ logs # <<>>
  /\ Request(t, "find", logs[1])
  /\ waits' = t
  /\ UNCHANGED <<log_storage, issued, pc, cluster, logs, posting, ghosts>>

\* Mutant: the step deletes a single log.
PurgeEndsAtOnce ==
  /\ pc = "purging" /\ waits = NoThread
  /\ pc' = "running"
  /\ UNCHANGED <<log_storage, handlers, issued, cluster, waits, logs, posting, ghosts>>

\* "I start the CCX Notification Service with the {flag} command line flag".
PurgeEnds ==
  /\ pc = "purging" /\ waits = NoThread
  /\ logs = <<>>
  /\ pc' = "running"
  /\ UNCHANGED <<log_storage, handlers, issued, cluster, waits, logs, posting, ghosts>>

\* "it should have sent {num_event} notification events to Service Log for
\* cluster {cluster_id}", when the notification service has exited. It may have
\* left a request behind.
ServiceExits(t) ==
  /\ pc = "running"
  /\ Request(t, "list", About(cluster))
  /\ waits' = t /\ pc' = "counting"
  /\ posting' = NoThread
  /\ abandoned' = IF posting = NoThread THEN abandoned
                  ELSE abandoned \cup {asked[posting].id}
  /\ UNCHANGED <<log_storage, issued, cluster, logs, acked>>

Count ==
  /\ pc = "counting" /\ waits = NoThread
  /\ pc' = "counted"
  /\ UNCHANGED <<log_storage, handlers, issued, cluster, waits, logs, posting, ghosts>>

EndScenario ==
  /\ pc = "counted"
  /\ pc' = "idle" /\ logs' = <<>>
  /\ UNCHANGED <<log_storage, handlers, issued, cluster, waits, posting, ghosts>>

-----------------------------------------------------------------------------
(* The notification service and other clients (external) *)

\* The notification service publishes one log after the other, like the example
\* of the mock with a cluster_uuid and no cluster_id, ...
NewLog == [id           |-> CHOOSE i \in Ids : i \notin issued,
           cluster_uuid |-> cluster,
           cluster_id   |-> None]

Post(t) ==
  /\ pc = "running" /\ posting = NoThread
  /\ issued # Ids
  /\ Request(t, "publish", NewLog)
  /\ issued' = issued \cup {NewLog.id}
  /\ posting' = t
  /\ UNCHANGED <<log_storage, steps, ghosts>>

\* ... and may give up waiting for an answer.
GiveUp ==
  /\ posting # NoThread
  /\ abandoned' = abandoned \cup {asked[posting].id}
  /\ posting' = NoThread
  /\ UNCHANGED <<log_storage, handlers, issued, steps, acked>>

\* Anyone asks for the logs of a cluster by cluster_uuid alone.
Query(t, c) ==
  /\ \A u \in Threads : op[u] # "query"
  /\ Request(t, "query", About(c))
  /\ UNCHANGED <<log_storage, issued, steps, posting, ghosts>>

-----------------------------------------------------------------------------

Handler(t) ==
  \/ publish_log(t)
  \/ Collect(t)
  \/ Collected(t)
  \/ Find(t)
  \/ Pop(t)

\* What behave does once a scenario has begun.
Proceed ==
  \/ PurgeBegins
  \/ \E t \in Threads : PurgeNext(t) \/ ServiceExits(t)
  \/ PurgeEnds
  \/ Count
  \/ EndScenario

Next ==
  \/ \E t \in Threads, c \in Clusters : BeginScenario(t, c) \/ Query(t, c)
  \/ Proceed
  \/ GiveUp
  \/ \E t \in Threads : Post(t) \/ Handler(t)

Spec == Init /\ [][Next]_vars

\* Every thread runs, and behave goes on as soon as it can: a request of it is
\* not passed over for ever by the other clients of the pool.
Fairness ==
  /\ \A t \in Threads : WF_vars(Handler(t))
  /\ SF_vars(Proceed)

FairSpec == Spec /\ Fairness

-----------------------------------------------------------------------------
(* Properties *)

Elements(s) == {s[i] : i \in DOMAIN s}

Store == INSTANCE LogStore WITH
  store  <- Elements(log_storage),
  answer <- Elements(logs)

\* delete_logs pops the log it was asked to delete, although other threads append
\* to the list between the comparison and the pop (service_log.py:257-260).
PopHitsItsLog ==
  \A t \in Threads : op[t] = "pop" =>
    at[t] <= Len(log_storage) /\ log_storage[at[t]].id = asked[t].id

\* The count of a scenario has each log the mock acknowledged to the notification
\* service in that scenario, and no other but one whose answer the service did not
\* wait for: none of an earlier scenario (notification_service.py:620-641).
CountIsExact ==
  pc = "counted" =>
    /\ acked \subseteq IdsOf(logs)
    /\ IdsOf(logs) \subseteq acked \cup abandoned
    /\ \A i, j \in DOMAIN logs : logs[i].id = logs[j].id => i = j

\* Although the handlers run in threads, loop over a shared list and pop what
\* they found before, the steps cannot tell them from handlers that take effect
\* at once (service_log.py:186-265).
ImplementsLogStore == Store!Spec

\* A scenario that has begun ends, whatever the other clients ask meanwhile.
ScenarioEnds == pc = "listing" ~> pc = "idle"

=============================================================================
