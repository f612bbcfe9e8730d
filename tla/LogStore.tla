------------------------------ MODULE LogStore ------------------------------
(***************************************************************************)
(* What the service log mock promises to the steps that use it, however    *)
(* many threads serve how many clients: a set of logs, and handlers that   *)
(* take effect at once (mocks/service-log/service_log.py:186-265). A log   *)
(* is stored once; a list answers with exactly the logs of a cluster that  *)
(* are stored when it answers; a delete removes the log it was asked for   *)
(* and no other. ServiceLog implements this.                               *)
(***************************************************************************)
CONSTANTS Log, Clusters

VARIABLES
  store,  \* the logs that are stored
  answer  \* the logs the steps were given and have not deleted

vars == <<store, answer>>

Init == store = {} /\ answer = {}

Publish(l) ==
  /\ \A other \in store : other.id # l.id
  /\ store' = store \cup {l}
  /\ UNCHANGED answer

List(c) ==
  /\ answer' = {l \in store : l.cluster_uuid = c}
  /\ UNCHANGED store

Delete(l) ==
  /\ l \in answer /\ l \in store
  /\ store' = store \ {l}
  /\ answer' = answer \ {l}

\* The scenario ends, and what it was given goes with its context.
Forget == answer' = {} /\ UNCHANGED store

Next ==
  \/ \E l \in Log : Publish(l) \/ Delete(l)
  \/ \E c \in Clusters : List(c)
  \/ Forget

Spec == Init /\ [][Next]_vars
=============================================================================
