----------------------------- MODULE KafkaTopic -----------------------------
(***************************************************************************)
(* One Kafka topic as the steps see it: features/src/kafka_util.py, the    *)
(* deletion the broker completes in its own time, and kcat reading the     *)
(* topic. The module has no behaviour of its own: the features that empty  *)
(* a topic, fill it and read it are in the modules that extend this one.   *)
(***************************************************************************)
EXTENDS Naturals, Sequences

CONSTANT Partitions

VARIABLES
  topic,    \* "absent", "present", or "doomed": its deletion was accepted
  records   \* what each partition holds

kafka == <<topic, records>>

NoRecords == [p \in Partitions |-> <<>>]

\* delete_topic raises nothing once it is connected: an unknown topic is
\* passed over and any other error is printed. An accepted deletion may still
\* be under way when it returns.
DeleteTopic ==
  \/ topic = "present" /\ topic' = "doomed" /\ UNCHANGED records
  \/ topic = "present" /\ topic' = "absent" /\ records' = NoRecords
  \/ UNCHANGED kafka

\* create_topic prints that the topic exists, and leaves it as it is.
CreateTopic ==
  \/ topic = "absent" /\ topic' = "present" /\ UNCHANGED records
  \/ topic # "absent" /\ UNCHANGED kafka

\* The steps delete and create one after the other, and nothing waits for the
\* deletion in between.
RecreateTopic ==
  \/ topic = "present" /\ topic' = "present" /\ records' = NoRecords
  \/ topic = "present" /\ topic' = "doomed" /\ UNCHANGED records
  \/ CreateTopic

\* The broker removes the topic it has marked.
DeletionCompletes == topic = "doomed" /\ topic' = "absent" /\ records' = NoRecords

\* send_event returns when the broker has acknowledged the message. A missing
\* topic is created by the broker on the way.
Produce(p, messages) ==
  /\ topic' = IF messages # <<>> /\ topic = "absent" THEN "present" ELSE topic
  /\ records' = [records EXCEPT ![p] = @ \o messages]

\* What kcat -C -c n -o -n -e asks for: the last n messages, and all of them for
\* n = 0.
Asked(p, n) ==
  LET length == Len(records[p])
  IN  IF n = 0 \/ n > length THEN records[p]
                             ELSE SubSeq(records[p], length - n + 1, length)

\* What is found of them. Nobody looks at the exit code of kcat, and what it
\* writes about an error is no message: when it fails, early or late, the
\* messages it has read so far are found, and none in an unknown topic.
GetEvents(p, n) == {SubSeq(Asked(p, n), 1, k) : k \in 0..Len(Asked(p, n))}
=============================================================================
