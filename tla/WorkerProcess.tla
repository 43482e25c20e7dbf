--------------------------- MODULE WorkerProcess ---------------------------
(***************************************************************************)
(* One process from its start to its end: New starts the consumers of the  *)
(* responses (ResponseIntake, HttpIntake) and sets the parts they call     *)
(* afterwards, Loop runs the tasks (TaskPipeline) until a signal ends ctx, *)
(* which also closes the producer (CommandOutput), and main returns when   *)
(* Loop does.  The process may crash at any time and is started again.     *)
(***************************************************************************)
EXTENDS HttpIntake, TaskPipeline, CommandOutput

vars == <<phase, faults, intakeVars, httpVars, pipelineVars, outputVars>>

\* the consumers are both disabled with the optimistic strategy
Init ==
  /\ phase = "down" /\ faults = 0
  /\ IntakeInit /\ HttpInit /\ PipelineInit /\ OutputInit

\* New, up to the start of the consumers
Start ==
  /\ phase = "down"
  /\ phase' = "starting"
  /\ StartIntake /\ StartHttp
  /\ UNCHANGED <<faults, pipelineVars, outputVars>>

\* the rest of New, then Loop
Ready ==
  /\ phase = "starting"
  /\ phase' = "running"
  /\ StartPipeline /\ StartOutput
  /\ UNCHANGED <<faults, intakeVars, httpVars>>

Shutdown ==
  /\ phase = "running" /\ Fault
  /\ phase' = "stopping"
  /\ UNCHANGED <<intakeVars, httpVars, pipelineVars, outputVars>>

\* the process is down, and what it held in memory is gone
Ends == phase' = "down" /\ StopIntake /\ StopHttp /\ StopPipeline /\ StopOutput

\* main returns: nothing waits for the consumers, the workers of the queue and the producers
Exit == phase = "stopping" /\ returned /\ Ends /\ UNCHANGED faults

\* the process is killed, or ends itself with log.Fatal
Crash == phase # "down" /\ Fault /\ Ends

\* a response is handled before New has set deviceGroupsHandler
NilPanic == (NilHandler \/ PostEndsProcess) /\ Fault /\ Ends

\* the process ends itself while it sends
EndsByMap == MapFatal /\ Ends /\ UNCHANGED faults
EndsByProducer == ProducerFatal /\ Ends /\ UNCHANGED faults
EndsByIncident == IncidentPanics /\ Ends /\ UNCHANGED faults

\* a goroutine that sends the command of a task belongs to a batch, and Loop waits for its batches
BatchSends == \E c \in Commands : HostOf[c] = "task" /\ (Sending(c) \/ sender[c] = "hung")
Joined == ~(returned /\ BatchSends)

Intake(A) == A /\ UNCHANGED <<httpVars, pipelineVars, outputVars>>
Http(A) == A /\ UNCHANGED <<pipelineVars, outputVars>>
Pipeline(A) == A /\ UNCHANGED <<intakeVars, httpVars, outputVars>> /\ Joined'
Output(A) == A /\ UNCHANGED <<intakeVars, httpVars, pipelineVars>> /\ Joined'

Next ==
  \/ Start \/ Ready \/ Shutdown \/ Exit \/ Crash \/ NilPanic
  \/ EndsByMap \/ EndsByProducer \/ EndsByIncident
  \/ Intake(IntakeNext) \/ Http(HttpNext) \/ Pipeline(PipelineNext) \/ Output(OutputNext)

Safety == Init /\ [][Next]_vars

(* Every goroutine runs, unless its task, its response or its post hangs:  *)
(* http.Post and the login at keycloak have no timeout, and HangTask,      *)
(* HandleHangs, HangWorker, HandlePostHangs and Post are where they do not *)
(* return, to which no fairness applies.  Every other request ends with an *)
(* answer or an error; the goroutines blocked by a full channel are served *)
(* in their order; the engine offers a task again once its lock has        *)
(* expired.                                                                *)
Fairness ==
  /\ WF_vars(Start) /\ WF_vars(Ready) /\ WF_vars(Exit) /\ WF_vars(EndsByProducer)
  /\ WF_vars(Intake(Consumer))
  /\ \A w \in Workers : WF_vars(Intake(QueueWorker(w)))
  /\ \A r \in Requests : WF_vars(Http(HandleRequest(r))) /\ WF_vars(Http(Answer(r)))
  /\ \A s \in Shards : WF_vars(Pipeline(Provide(s))) /\ SF_vars(Pipeline(SendBatch(s)))
  /\ WF_vars(Pipeline(CloseChannels \/ LogError \/ LoopReturns))
  /\ \A b \in BatchWorkers : WF_vars(Pipeline(Run(b)))
  /\ \A t \in Tasks :
       /\ SF_vars(Pipeline(FetchTasks(ShardOf[t]) /\ t \in locked' \ locked))
       /\ WF_vars(Pipeline(LockExpires(t)))
  /\ WF_vars(Output(CloseProducer \/ CloseInput))
  /\ \A c \in Commands : WF_vars(Output(Send(c))) /\ WF_vars(Output(Broker(c)))

Spec == Safety /\ Fairness

-----------------------------------------------------------------------------
(* Types of the state. *)
TypeOK ==
  /\ phase \in {"down", "starting", "running", "stopping"} /\ faults \in 0..MaxFaults
  /\ queued \in BOOLEAN /\ committed \in 0..Last /\ position \in 0..Last /\ current \in 0..Last
  /\ consumer \in {"disabled", "stopped", "fetch", "listen", "commit", "hung"}
  /\ queue \in Seq(1..(Last + Posts)) /\ closed \in BOOLEAN /\ hand \in [Workers -> 0..(Last + Posts)]
  /\ stuck \subseteq Workers
  /\ finished \cup refused \cup lost \subseteq Offsets \cup Requests
  /\ server \in {"disabled", "stopped", "up", "closing"} /\ httpSync \in BOOLEAN
  /\ handler \in [Requests -> {"none", "running", "hung", "nil", "err", "gone"}]
  /\ status \in [Requests -> {"none", "ok", "bad", "broken"}]
  /\ open \subseteq Tasks /\ locked \subseteq Tasks
  /\ fetcher \in [Shards -> [pc : {"stopped", "fetch", "report", "send"}, attempt : Nat, batch : SUBSET Tasks]]
  /\ channel \in Seq(SUBSET Tasks) /\ errors \in 0..ChannelSize /\ tasksClosed \in BOOLEAN
  /\ loop \in [BatchWorkers -> SUBSET Tasks] /\ stalled \in [BatchWorkers -> SUBSET Tasks]
  /\ returned \in BOOLEAN
  /\ received \subseteq Tasks /\ executed \subseteq Tasks
  /\ sync \in BOOLEAN /\ initTopics \in BOOLEAN /\ producer \in {"none", "open", "closing", "closed"}
  /\ topics \cup usedTopics \subseteq Topics
  /\ sender \in [Commands -> {"idle", "lookup", "create", "mark", "send", "post",
                              "ok", "error", "panic", "hung", "gone"}]
  /\ buffer \cup failed \cup delivered \cup dropped \subseteq Commands

(* A committed response is handled, or in the hands of the queue, or ended  *)
(* with a process, or its listener returned an error: none is forgotten by  *)
(* a shutdown, a rebalance or a panic on the closed queue.                  *)
ResponsesAreAccounted ==
  \A m \in 1..committed : m \in finished \cup refused \cup lost \cup InQueue \cup InHand

(* The end of a process, also by a crash, loses at most the responses in    *)
(* the queue and one per worker, and none when there is no queue.           *)
LossIsBounded ==
  [][Cardinality(lost' \ lost) <= IF queued THEN QueueSize + Cardinality(Workers) ELSE 0]_vars

(* A connector whose post is answered with 200 need not send it again: with *)
(* HttpCommandConsumerSync the response is handled or with the queue or its *)
(* process is gone, otherwise its goroutine may also still run or hang, or  *)
(* have ended in an error or with the process, and then nobody knows of it. *)
AcceptedPostIsHeld ==
  \A r \in Requests : status[r] = "ok" =>
    \/ r \in finished \cup lost \cup InQueue \cup InHand
    \/ ~httpSync /\ handler[r] \in {"running", "hung", "err", "gone"}

(* A connector whose post is answered with 400 may send it again without    *)
(* having it handled twice at a time: no goroutine works on it any more, no *)
(* queue or hand still holds it, and no process has ended with it.  What    *)
(* the failed handler did before its error may have taken effect.           *)
RejectedPostIsFree ==
  \A r \in Requests : status[r] = "bad" =>
    r \notin lost \cup InQueue \cup InHand /\ handler[r] \notin {"running", "hung"}

(* main returns only when every task that was received has been executed,   *)
(* however batches, channel and goroutines were interrupted by the signal.  *)
DrainedOnExit == returned => received \subseteq executed

(* No goroutine of a shard can send on the channels after they are closed.  *)
NoSendAfterClose == tasksClosed => \A s \in Shards : At(s, "stopped")

(* A command whose Produce call returned nil has reached its topic, unless  *)
(* the async producer still holds it or has given it up.                    *)
AcceptedCommandsExist ==
  \A c \in Commands : sender[c] = "ok" =>
    \/ c \in delivered
    \/ ~sync /\ TopicOf[c] \notin HttpTopics /\ c \in buffer \cup failed \cup dropped

(* A process that runs gives up no command it has accepted: that takes a    *)
(* signal or the end of the process (lib/com/kafka/producer.go:138-147).    *)
NoSilentLoss == [][dropped' # dropped => phase = "stopping" \/ phase' = "down"]_vars

(* EnsureTopic skips a topic only if it exists in Kafka.                    *)
KnownTopicsExist == usedTopics \subseteq topics

(* The goroutines that send commands come to an end, also when the producer *)
(* is closed under them; only a post may hang.                              *)
SendsEnd == []<>(\A c \in Commands : ~Sending(c))

(* A signal ends the process, whatever is in the channels, unless a task    *)
(* hangs that Loop waits for.                                               *)
ShutdownEnds ==
  phase = "stopping" ~>
    \/ phase = "down"
    \/ \E b \in BatchWorkers : stalled[b] # {}
    \/ \E c \in Commands : HostOf[c] = "task" /\ sender[c] = "hung"

\* no batch worker is left, or a shutdown waits for one that hangs
LoopHangs ==
  \/ \A b \in BatchWorkers : stalled[b] # {}
  \/ phase = "stopping" /\ \E b \in BatchWorkers : stalled[b] # {}

(* Every task is executed or done, whatever batches, shards, requests and   *)
(* hanging tasks are in its way, once the process is no longer stopped: the *)
(* lock of a task that hangs expires, and another batch worker runs it.     *)
(* Only when every batch worker has a task that hangs, or a shutdown waits  *)
(* for one, Loop stands still for good.                                     *)
EveryTaskIsRun ==
  \/ \A t \in Tasks : []<>(t \in executed \/ t \notin open)
  \/ <>[]LoopHangs

\* the listener of the consumer hangs, or nobody is left to take from the queue
IntakeHangs == consumer = "hung" \/ (queued /\ stuck = Workers)

(* Every response in Kafka is handled, refused by its listener, lost with a *)
(* process or in the hand of a worker that hangs, unless its consumer is    *)
(* disabled.  Only a consumer that hangs itself, or a queue all of whose    *)
(* workers hang, keeps the responses behind it from being handled.          *)
EveryResponseEnds ==
  consumer # "disabled" =>
    \/ <>(Offsets \subseteq finished \cup refused \cup lost \cup {hand[w] : w \in stuck})
    \/ <>[]IntakeHangs

=============================================================================
