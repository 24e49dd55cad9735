---------------------------- MODULE KafkaTransport ----------------------------
(***************************************************************************)
(* Stages sent over Kafka: the broker's producer, the topic, and the       *)
(* sidecar that reads it and posts each stage to its worker in a task of   *)
(* its own, a few at a time.                                               *)
(*                                                                         *)
(* The broker takes a stage for sent when it is in a topic.  The sidecar   *)
(* reads the topics of three pipeline types; the client library commits    *)
(* what was read, by a timer of its own, whatever the tasks have posted.   *)
(***************************************************************************)
EXTENDS Naturals, SequencesExt

CONSTANTS
  Messages,       \* stages the broker sends, each with the URL of its worker
  Subscribed,     \* those of a type in EXPERIMENT_TOPICS
  NoCommit,       \* no position
  MaxConcurrent,  \* size of the sidecar's semaphore
  MaxCrashes      \* bound: crashes of the sidecar

ASSUME KafkaAssumption ==
  /\ Subscribed \subseteq Messages
  /\ NoCommit \notin Nat
  /\ MaxConcurrent \in Nat \ {0}
  /\ MaxCrashes \in Nat

VARIABLES
  sent,       \* messages the broker has produced
  topic,      \* the topics the sidecar reads, as one sequence
  consuming,  \* the sidecar has joined its group
  position,   \* how far it has read
  committed,  \* the group's position; NoCommit before the first commit
  waiting,    \* waiting[m]: tasks for m that wait for the semaphore
  posting,    \* posting[m]: tasks for m whose request is under way
  delivered,  \* delivered[m]: how often the worker got m
  excused,    \* messages whose loss has a known cause
  crashes     \* crashes of the sidecar so far

taskVars == <<waiting, posting, delivered, excused>>
kafkaVars == <<sent, topic, consuming, position, committed, taskVars, crashes>>

Nobody == [m \in Messages |-> 0]

KafkaInit ==
  /\ sent = {}
  /\ topic = <<>>
  /\ consuming = FALSE
  /\ position = 0
  /\ committed = NoCommit
  /\ waiting = Nobody
  /\ posting = Nobody
  /\ delivered = Nobody
  /\ excused = {}
  /\ crashes = 0

-----------------------------------------------------------------------------
\* _send_to_worker: send_and_wait returns when the topic has the message.
Produce(m) ==
  /\ m \in Messages \ sent
  /\ sent' = sent \cup {m}
  /\ topic' = IF m \in Subscribed THEN Append(topic, m) ELSE topic
  /\ UNCHANGED <<consuming, position, committed, taskVars, crashes>>

\* consumer.start: the group's position, or the end of the topic when it has
\* none; the first form always goes to the end.
Start_AtEnd ==
  /\ ~consuming
  /\ consuming' = TRUE
  /\ position' = Len(topic)
  /\ excused' = IF committed = NoCommit THEN excused \cup ToSet(topic) ELSE excused
  /\ UNCHANGED <<sent, topic, committed, waiting, posting, delivered, crashes>>

Start ==
  /\ ~consuming
  /\ consuming' = TRUE
  /\ IF committed = NoCommit
     THEN position' = Len(topic) /\ excused' = excused \cup ToSet(topic)
     ELSE position' = committed /\ UNCHANGED excused
  /\ UNCHANGED <<sent, topic, committed, waiting, posting, delivered, crashes>>

\* async for msg in consumer: a task for each message.
Read ==
  /\ consuming
  /\ position < Len(topic)
  /\ position' = position + 1
  /\ waiting' = [waiting EXCEPT ![topic[position + 1]] = @ + 1]
  /\ UNCHANGED <<sent, topic, consuming, committed, posting, delivered, excused, crashes>>

Commit ==
  /\ consuming
  /\ committed # position
  /\ committed' = position
  /\ UNCHANGED <<sent, topic, consuming, position, taskVars, crashes>>

\* dispatch_message: a task gets the semaphore and posts.
Acquire(m) ==
  /\ waiting[m] > 0
  /\ SumFunction(posting) < MaxConcurrent
  /\ waiting' = [waiting EXCEPT ![m] = @ - 1]
  /\ posting' = [posting EXCEPT ![m] = @ + 1]
  /\ UNCHANGED <<sent, topic, consuming, position, committed, delivered, excused, crashes>>

TaskSucceeds(m) ==
  /\ posting[m] > 0
  /\ posting' = [posting EXCEPT ![m] = @ - 1]
  /\ delivered' = [delivered EXCEPT ![m] = @ + 1]
  /\ UNCHANGED <<sent, topic, consuming, position, committed, waiting, excused, crashes>>

\* The request fails, or its answer does not come within 30 s: an error is
\* logged and nobody is told.
TaskFails(m) ==
  /\ posting[m] > 0
  /\ posting' = [posting EXCEPT ![m] = @ - 1]
  /\ delivered' \in {delivered, [delivered EXCEPT ![m] = @ + 1]}
  /\ excused' = excused \cup {m}
  /\ UNCHANGED <<sent, topic, consuming, position, committed, waiting, crashes>>

\* Everything the sidecar has not posted is gone; what it has not committed
\* will be read again.
SidecarCrashes ==
  /\ consuming
  /\ crashes < MaxCrashes
  /\ crashes' = crashes + 1
  /\ consuming' = FALSE
  /\ excused' = excused \cup {m \in Messages : waiting[m] + posting[m] > 0}
  /\ waiting' = Nobody
  /\ posting' = Nobody
  /\ UNCHANGED <<sent, topic, position, committed, delivered>>

-----------------------------------------------------------------------------
KafkaNext ==
  \/ Start \/ Read \/ Commit \/ SidecarCrashes
  \/ \E m \in Messages : Produce(m) \/ Acquire(m) \/ TaskSucceeds(m) \/ TaskFails(m)

KafkaSpec == KafkaInit /\ [][KafkaNext]_kafkaVars

\* The sidecar's loop gets to the tasks, and every post has a time-out.
KafkaFairness ==
  /\ WF_kafkaVars(\E m \in Messages : Acquire(m))
  /\ \A m \in Messages : WF_kafkaVars(TaskSucceeds(m) \/ TaskFails(m))

\* A stage the sidecar has passed over is delivered, unless its post failed, a
\* crash took its task or the sidecar joined after it: a restart skips nothing
\* and repeats a stage at most once.  (run_consumer, dispatch_message)
LossHasCause ==
  /\ \A i \in 1..(IF consuming THEN position ELSE 0) :
       LET m == topic[i]
       IN  waiting[m] + posting[m] + delivered[m] > 0 \/ m \in excused
  /\ \A m \in Messages : delivered[m] <= 1 + crashes

\* Every stage that was read is posted in the end, whatever becomes of the posts
\* before it.  (dispatch_message)
ReadIsPosted == \A m \in Messages : waiting[m] > 0 ~> waiting[m] = 0
=============================================================================
