--------------------------- MODULE ResponseIntake ---------------------------
(***************************************************************************)
(* How responses reach the worker: the consumer goroutine of               *)
(* lib/com/kafka/consumer.go, and the queue with its workers that          *)
(* CmdWorker.GetQueuedResponseHandler puts behind it.  One partition of    *)
(* the response topic; a message is its offset.  The process around it     *)
(* (start, shutdown, crash) is WorkerProcess.                              *)
(***************************************************************************)
EXTENDS Lifecycle, Integers, Sequences, FiniteSets

CONSTANTS
  Last,        \* bound: the responses in Kafka are the offsets 1..Last
  Posts,       \* bound: the responses posted over HTTP, after them (HttpIntake)
  Workers      \* goroutines of the queue, if a process has one

ASSUME IntakeAssumption == Last \in Nat /\ Posts \in Nat /\ IsFiniteSet(Workers)

Offsets == 1..Last
Requests == (Last + 1)..(Last + Posts)
QueueSize == Cardinality(Workers)

VARIABLES
  queued,      \* ResponseWorkerCount > 1, read at the start of the process
  \* the consumer group in Kafka, the reader and the goroutine of the consumer
  committed, position, consumer,
  current,     \* the message that the consumer has fetched last
  \* GetQueuedResponseHandler
  queue, closed, hand,
  stuck,       \* workers whose listener hangs
  \* history
  finished,    \* responses that were handled, with or without success, or dropped for their age;
               \* a listener that fails or hangs may have done all of its work before
  refused,     \* responses whose listener returned an error
  lost         \* responses that were committed or queued and ended with a process

intakeVars == <<queued, committed, position, consumer, current, queue, closed, hand, stuck, finished, refused, lost>>
history == <<finished, refused, lost>>

InQueue == {queue[i] : i \in DOMAIN queue}
InHand == {hand[w] : w \in Workers} \ {0}

\* the process starts when some responses are done
IntakeInit ==
  /\ queued = FALSE /\ committed \in 0..Last /\ position = committed /\ current = 0
  /\ consumer \in {"stopped", "disabled"}
  /\ queue = <<>> /\ closed = FALSE /\ hand = [w \in Workers |-> 0] /\ stuck = {}
  /\ finished = 1..committed /\ refused = {} /\ lost = {}

\* an error of the listener, or none at all, does not tell how far it came: setSubResult,
\* clearTaskData and CompleteTask may have taken effect
PerhapsFinished(m) == finished' \in {finished, finished \cup {m}}

\* the end of the loop body: select returns when ctx is done
Again == consumer' = IF phase = "stopping" THEN "stopped" ELSE "fetch"

-----------------------------------------------------------------------------
(* The consumer goroutine                                                  *)

FetchMessage ==
  /\ consumer = "fetch" /\ position < Last
  /\ position' = position + 1 /\ current' = position + 1
  /\ consumer' = "listen"
  /\ UNCHANGED <<phase, faults, queued, committed, queue, closed, hand, stuck, history>>

\* context.Canceled
ReaderClosed ==
  /\ consumer = "fetch" /\ phase = "stopping"
  /\ consumer' = "stopped"
  /\ UNCHANGED <<phase, faults, queued, committed, position, current, queue, closed, hand, stuck, history>>

\* the floodgate: a message older than an hour is committed unseen
DropOldMessage ==
  /\ consumer = "listen"
  /\ finished' = finished \cup {current}
  /\ consumer' = "commit"
  /\ UNCHANGED <<phase, faults, queued, committed, position, current, queue, closed, hand, stuck, refused, lost>>

\* HandleTaskResponse, called by the consumer itself
Handle ==
  /\ consumer = "listen" /\ ~queued
  /\ finished' = finished \cup {current}
  /\ consumer' = "commit"
  /\ UNCHANGED <<phase, faults, queued, committed, position, current, queue, closed, hand, stuck, refused, lost>>

\* "unable to handle message (no commit)"
HandleFails ==
  /\ consumer = "listen" /\ ~queued
  /\ refused' = refused \cup {current} /\ PerhapsFinished(current)
  /\ Again
  /\ UNCHANGED <<phase, faults, queued, committed, position, current, queue, closed, hand, stuck, lost>>

\* the listener may execute the next task of the group, and neither http.Post nor the login at
\* keycloak has a timeout
HandleHangs ==
  /\ consumer = "listen" /\ ~queued /\ Fault
  /\ PerhapsFinished(current)
  /\ consumer' = "hung"
  /\ UNCHANGED <<phase, queued, committed, position, current, queue, closed, hand, stuck, refused, lost>>

\* mutant: the queue takes any number of messages
EnqueueUnbounded ==
  /\ consumer = "listen" /\ queued /\ ~closed
  /\ queue' = Append(queue, current)
  /\ consumer' = "commit"
  /\ UNCHANGED <<phase, faults, queued, committed, position, current, closed, hand, stuck, history>>

\* queue <- msg
Enqueue ==
  /\ consumer = "listen" /\ queued /\ ~closed /\ Len(queue) < QueueSize
  /\ queue' = Append(queue, current)
  /\ consumer' = "commit"
  /\ UNCHANGED <<phase, faults, queued, committed, position, current, closed, hand, stuck, history>>

\* mutant: the panic is recovered, but err is not set
EnqueueClosedUnnoticed ==
  /\ consumer = "listen" /\ queued /\ closed
  /\ consumer' = "commit"
  /\ UNCHANGED <<phase, faults, queued, committed, position, current, queue, closed, hand, stuck, history>>

\* a send on the closed queue panics, which becomes err
EnqueueClosed ==
  /\ consumer = "listen" /\ queued /\ closed
  /\ refused' = refused \cup {current}
  /\ Again
  /\ UNCHANGED <<phase, faults, queued, committed, position, current, queue, closed, hand, stuck, finished, lost>>

\* mutant: the next message is committed with this one
CommitNext ==
  /\ consumer = "commit"
  /\ committed' = current + 1
  /\ Again
  /\ UNCHANGED <<phase, faults, queued, position, current, queue, closed, hand, stuck, history>>

\* synchronous commit of one message: with it every earlier one is committed.  After a rebalance
\* it may be refused, which is log.Fatal (Crash), or be taken although the reader is behind it
Commit ==
  /\ consumer = "commit"
  /\ committed' = current
  /\ Again
  /\ UNCHANGED <<phase, faults, queued, position, current, queue, closed, hand, stuck, history>>

\* the commit is cancelled with ctx
CommitCancelled ==
  /\ consumer = "commit" /\ phase = "stopping"
  /\ consumer' = "stopped"
  /\ UNCHANGED <<phase, faults, queued, committed, position, current, queue, closed, hand, stuck, history>>

\* the partition is assigned again, also while the listener runs or before its message is
\* committed: the reader starts after the last commit
Rebalance ==
  /\ consumer \notin {"disabled", "stopped"} /\ Fault
  /\ position' = committed
  /\ UNCHANGED <<phase, queued, committed, consumer, current, queue, closed, hand, stuck, history>>

-----------------------------------------------------------------------------
(* The goroutines of GetQueuedResponseHandler                              *)

Take(w) ==
  /\ hand[w] = 0 /\ queue # <<>>
  /\ hand' = [hand EXCEPT ![w] = Head(queue)]
  /\ queue' = Tail(queue)
  /\ UNCHANGED <<phase, faults, queued, committed, position, consumer, current, closed, stuck, history>>

\* mutant: a worker ends with its first response
FinishOnce(w) ==
  /\ hand[w] # 0 /\ w \notin stuck
  /\ finished' = finished \cup {hand[w]}
  /\ UNCHANGED <<phase, faults, queued, committed, position, consumer, current, queue, closed, hand, stuck, refused, lost>>

\* HandleTaskResponse; its error is only logged
Finish(w) ==
  /\ hand[w] # 0 /\ w \notin stuck
  /\ finished' = finished \cup {hand[w]}
  /\ hand' = [hand EXCEPT ![w] = 0]
  /\ UNCHANGED <<phase, faults, queued, committed, position, consumer, current, queue, closed, stuck, refused, lost>>

\* as HandleHangs: this worker takes nothing more
HangWorker(w) ==
  /\ hand[w] # 0 /\ w \notin stuck /\ Fault
  /\ PerhapsFinished(hand[w])
  /\ stuck' = stuck \cup {w}
  /\ UNCHANGED <<phase, queued, committed, position, consumer, current, queue, closed, hand, refused, lost>>

CloseQueue ==
  /\ phase = "stopping" /\ queued /\ ~closed
  /\ closed' = TRUE
  /\ UNCHANGED <<phase, faults, queued, committed, position, consumer, current, queue, hand, stuck, history>>

-----------------------------------------------------------------------------
(* Steps of the whole process                                              *)

\* NewConsumer, before deviceGroupsHandler is set; nothing with DisableKafkaConsumer
StartIntake ==
  /\ queued' \in {FALSE, Cardinality(Workers) > 1}
  /\ position' = committed /\ closed' = FALSE
  /\ consumer' = IF consumer = "disabled" THEN consumer ELSE "fetch"
  /\ UNCHANGED <<committed, current, queue, hand, stuck, history>>

\* what the process holds in memory is gone
StopIntake ==
  /\ consumer' = IF consumer = "disabled" THEN consumer ELSE "stopped"
  /\ current' = 0 /\ queue' = <<>> /\ hand' = [w \in Workers |-> 0] /\ stuck' = {}
  /\ lost' = lost \cup {m \in (InQueue \cup InHand) \ finished : m <= committed \/ m \in Requests}
  /\ UNCHANGED <<queued, committed, position, closed, finished, refused>>

\* a response that comes to handleTaskResponse, where deviceGroupsHandler is not set yet
NilHandler ==
  /\ phase = "starting"
  /\ \/ consumer = "listen" /\ ~queued
     \/ \E w \in Workers \ stuck : hand[w] # 0

Consumer ==
  \/ FetchMessage \/ ReaderClosed \/ DropOldMessage \/ Handle \/ HandleFails
  \/ Enqueue \/ EnqueueClosed \/ Commit \/ CommitCancelled
QueueWorker(w) == Take(w) \/ Finish(w)

IntakeNext ==
  \/ Consumer \/ HandleHangs \/ Rebalance \/ CloseQueue
  \/ \E w \in Workers : QueueWorker(w) \/ HangWorker(w)
=============================================================================
