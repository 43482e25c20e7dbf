--------------------------- MODULE CommandOutput ---------------------------
(***************************************************************************)
(* How messages leave the worker: lib/com/comswitch chooses the producer   *)
(* by the topic, lib/com/kafka/producer.go sends to Kafka, lib/com/kafka/  *)
(* util.go creates missing topics, lib/com/httpcommand/producer.go posts.  *)
(* Every message is sent by a goroutine of its own, which is the worst     *)
(* case.  The client of Kafka (sarama) is external; the process around     *)
(* the producers is WorkerProcess.                                         *)
(***************************************************************************)
EXTENDS Lifecycle, FiniteSets

CONSTANTS
  Commands,        \* messages to be sent
  TopicOf,         \* [Commands -> topics]
  HttpTopics,      \* topics that begin with http:// or https://
  HostOf           \* [Commands -> Hosts], the goroutine that sends it

\* ExecuteTask in a batch, which Loop waits for; ExecuteTask called by the handler of a
\* response; Camunda.Error called by the handler of a response, where nothing recovers a panic
Hosts == {"task", "response", "incident"}

ASSUME OutputAssumption == HostOf \in [Commands -> Hosts] /\ DOMAIN TopicOf = Commands

Topics == {TopicOf[c] : c \in Commands} \ HttpTopics

VARIABLES
  sync, initTopics,   \* Sync and InitTopics, settings
  topics,             \* the topics of Kafka
  producer,           \* "none", "open", "closing" (Close is called), "closed" (its input is closed)
  usedTopics,
  buffer,             \* accepted by the async producer
  failed,             \* errors of the async producer that nobody has read
  sender,             \* [Commands -> where its goroutine is]
  \* history
  delivered,
  dropped             \* accepted, and then given up

outputVars == <<sync, initTopics, topics, producer, usedTopics, buffer, failed, sender, delivered, dropped>>

Sending(c) == sender[c] \in {"lookup", "create", "mark", "send", "post"}
Goes(c, label) == sender' = [sender EXCEPT ![c] = label]

OutputInit ==
  /\ sync \in BOOLEAN /\ initTopics \in BOOLEAN
  /\ topics \in SUBSET Topics
  /\ producer = "none" /\ usedTopics = {} /\ buffer = {} /\ failed = {}
  /\ sender \in [Commands -> {"idle", "ok"}]
  /\ delivered = {c \in Commands : sender[c] = "ok"} /\ dropped = {}

-----------------------------------------------------------------------------
(* ProduceWithKey                                                          *)

\* getChildProducer
Produce(c) ==
  /\ sender[c] = "idle" /\ producer # "none"
  /\ Goes(c, CASE TopicOf[c] \in HttpTopics -> "post"
               [] TopicOf[c] \notin HttpTopics /\ initTopics -> "lookup"
               [] OTHER -> "send")
  /\ UNCHANGED <<phase, faults, sync, initTopics, topics, producer, usedTopics, buffer, failed, delivered, dropped>>

\* EnsureTopic: the map is read ...
LookupTopic(c) ==
  /\ sender[c] = "lookup"
  /\ Goes(c, IF TopicOf[c] \in usedTopics THEN "send" ELSE "create")
  /\ UNCHANGED <<phase, faults, sync, initTopics, topics, producer, usedTopics, buffer, failed, delivered, dropped>>

\* mutant: the topic counts as known also when it could not be created
CreateTopicMarksAlways(c) ==
  /\ sender[c] = "create"
  /\ \/ topics' = topics \cup {TopicOf[c]} /\ UNCHANGED faults
     \/ Fault /\ UNCHANGED topics
  /\ Goes(c, "mark")
  /\ UNCHANGED <<phase, sync, initTopics, producer, usedTopics, buffer, failed, delivered, dropped>>

\* ... InitTopicWithConfig, an existing topic is no error; its error is only logged ...
CreateTopic(c) ==
  /\ sender[c] = "create"
  /\ \/ topics' = topics \cup {TopicOf[c]} /\ Goes(c, "mark") /\ UNCHANGED faults
     \/ Fault /\ topics' \in {topics, topics \cup {TopicOf[c]}} /\ Goes(c, "send")
  /\ UNCHANGED <<phase, sync, initTopics, producer, usedTopics, buffer, failed, delivered, dropped>>

\* ... and the map is written, without a lock
MarkTopic(c) ==
  /\ sender[c] = "mark"
  /\ usedTopics' = usedTopics \cup {TopicOf[c]}
  /\ Goes(c, "send")
  /\ UNCHANGED <<phase, faults, sync, initTopics, topics, producer, buffer, failed, delivered, dropped>>

\* a broker may create a missing topic, or refuse the message
Missing(c) == TopicOf[c] \notin topics
Deliver(c) == delivered' = delivered \cup {c} /\ topics' = topics \cup {TopicOf[c]}

\* mutant: an error of the broker is only logged
SendSyncUnchecked(c) ==
  /\ sender[c] = "send" /\ sync /\ producer \in {"open", "closing"}
  /\ Goes(c, "ok")
  /\ \/ Deliver(c) /\ UNCHANGED faults
     \/ Fault /\ UNCHANGED <<delivered, topics>>
  /\ UNCHANGED <<phase, sync, initTopics, producer, usedTopics, buffer, failed, dropped>>

\* SendMessage waits for the broker; when Close is called it may answer ErrShuttingDown
SendSync(c) ==
  /\ sender[c] = "send" /\ sync /\ producer \in {"open", "closing"}
  /\ \/ Goes(c, "ok") /\ Deliver(c) /\ UNCHANGED faults
     \/ Goes(c, "error") /\ Fault /\ (Deliver(c) \/ UNCHANGED <<delivered, topics>>)
     \/ /\ Goes(c, "error") /\ (producer = "closing" \/ Missing(c))
        /\ UNCHANGED <<faults, delivered, topics>>
  /\ UNCHANGED <<phase, sync, initTopics, producer, usedTopics, buffer, failed, dropped>>

\* producer.Input() <- message: the message is only accepted
SendAsync(c) ==
  /\ sender[c] = "send" /\ ~sync /\ producer \in {"open", "closing"}
  /\ Goes(c, "ok")
  /\ \/ buffer' = buffer \cup {c} /\ UNCHANGED failed
     \/ producer = "closing" /\ failed' = failed \cup {c} /\ UNCHANGED buffer
  /\ UNCHANGED <<phase, faults, sync, initTopics, topics, producer, usedTopics, delivered, dropped>>

\* a send on the closed input of sarama
InputClosed(c) == sender[c] = "send" /\ producer = "closed"

\* mutant: the recovered message is produced again
ProduceAgain(c) ==
  /\ InputClosed(c) /\ HostOf[c] # "incident"
  /\ Goes(c, IF initTopics THEN "lookup" ELSE "send")
  /\ UNCHANGED <<phase, faults, sync, initTopics, topics, producer, usedTopics, buffer, failed, delivered, dropped>>

\* the panic ends ExecuteTask, which recovers it
SendPanics(c) ==
  /\ InputClosed(c) /\ HostOf[c] # "incident"
  /\ Goes(c, "panic")
  /\ UNCHANGED <<phase, faults, sync, initTopics, topics, producer, usedTopics, buffer, failed, delivered, dropped>>

\* http.Post, whose client has no timeout; every status but 200 is an error
Post(c) ==
  /\ sender[c] = "post"
  /\ \/ Goes(c, "ok") /\ delivered' = delivered \cup {c} /\ UNCHANGED faults
     \/ Goes(c, "error") /\ Fault /\ delivered' \in {delivered, delivered \cup {c}}
     \/ Goes(c, "hung") /\ Fault /\ delivered' \in {delivered, delivered \cup {c}}
  /\ UNCHANGED <<phase, sync, initTopics, topics, producer, usedTopics, buffer, failed, dropped>>

-----------------------------------------------------------------------------
(* External: the async producer of sarama                                  *)

Flush(c) ==
  /\ c \in buffer
  /\ buffer' = buffer \ {c}
  /\ Deliver(c)
  /\ UNCHANGED <<phase, faults, sync, initTopics, producer, usedTopics, failed, sender, dropped>>

FlushFails(c) ==
  /\ c \in buffer
  /\ \/ Fault
     \/ Missing(c) /\ UNCHANGED faults
  /\ buffer' = buffer \ {c} /\ failed' = failed \cup {c}
  /\ UNCHANGED <<phase, sync, initTopics, topics, producer, usedTopics, sender, delivered, dropped>>

-----------------------------------------------------------------------------
(* The goroutines of PrepareProducerWithConfig                             *)

\* mutant: the errors are only logged
LogErrors(c) ==
  /\ c \in failed /\ producer \in {"open", "closing"}
  /\ failed' = failed \ {c} /\ dropped' = dropped \cup {c}
  /\ UNCHANGED <<phase, faults, sync, initTopics, topics, producer, usedTopics, buffer, sender, delivered>>

\* Close reads the errors as well
CloseReadsError(c) ==
  /\ c \in failed /\ producer = "closing"
  /\ failed' = failed \ {c} /\ dropped' = dropped \cup {c}
  /\ UNCHANGED <<phase, faults, sync, initTopics, topics, producer, usedTopics, buffer, sender, delivered>>

\* <-ctx.Done(): Loop may still work on its batches
CloseProducer ==
  /\ producer = "open" /\ phase = "stopping"
  /\ producer' = "closing"
  /\ UNCHANGED <<phase, faults, sync, initTopics, topics, usedTopics, buffer, failed, sender, delivered, dropped>>

CloseInput ==
  /\ producer = "closing" /\ buffer = {} /\ failed = {}
  /\ producer' = "closed"
  /\ UNCHANGED <<phase, faults, sync, initTopics, topics, usedTopics, buffer, failed, sender, delivered, dropped>>

-----------------------------------------------------------------------------
(* Steps of the whole process                                              *)

\* NewProducer
StartOutput ==
  /\ producer' = "open"
  /\ UNCHANGED <<sync, initTopics, topics, usedTopics, buffer, failed, sender, delivered, dropped>>

StopOutput ==
  /\ producer' = "none" /\ usedTopics' = {} /\ buffer' = {} /\ failed' = {}
  /\ dropped' = dropped \cup buffer \cup failed
  /\ sender' = [c \in Commands |-> IF Sending(c) \/ sender[c] = "hung" THEN "gone" ELSE sender[c]]
  /\ UNCHANGED <<sync, initTopics, topics, delivered>>

\* Go ends a process that writes a map while it is read or written
MapFatal == \E c, d \in Commands : c # d /\ sender[c] = "mark" /\ sender[d] \in {"lookup", "mark"}

\* log.Fatal with the first error of the async producer
ProducerFatal == failed # {}

\* the handler of a response reports an incident to the closed producer
IncidentPanics == \E c \in Commands : InputClosed(c) /\ HostOf[c] = "incident"

Send(c) ==
  \/ Produce(c) \/ LookupTopic(c) \/ CreateTopic(c) \/ MarkTopic(c)
  \/ SendSync(c) \/ SendAsync(c) \/ SendPanics(c) \/ Post(c)
Broker(c) == Flush(c) \/ FlushFails(c) \/ CloseReadsError(c)

OutputNext == CloseProducer \/ CloseInput \/ \E c \in Commands : Send(c) \/ Broker(c)
=============================================================================
