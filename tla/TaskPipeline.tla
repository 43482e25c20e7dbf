---------------------------- MODULE TaskPipeline ----------------------------
(***************************************************************************)
(* How tasks reach the worker: Camunda.ProvideTasks fetches batches from   *)
(* every shard, CmdWorker.Loop takes them out of a channel with a fixed    *)
(* number of goroutines, ExecuteTaskBatch runs one goroutine per task and  *)
(* waits for all of them.  ExecuteTask is one step here (TaskExecution     *)
(* models it); the process around it is WorkerProcess.                     *)
(***************************************************************************)
EXTENDS Lifecycle, Integers, Sequences, FiniteSets

CONSTANTS Tasks, Shards,
          ShardOf,         \* [Tasks -> Shards]
          BatchWorkers,    \* goroutines of Loop (10 in the code)
          ChannelSize,     \* of tasks and of errChan (100 in the code)
          MaxTasks,        \* CamundaWorkerTasks
          FetchRetries

ASSUME PipelineAssumption ==
  /\ ShardOf \in [Tasks -> Shards]
  /\ IsFiniteSet(Shards) /\ IsFiniteSet(BatchWorkers)
  /\ ChannelSize \in Nat /\ MaxTasks \in Nat /\ FetchRetries \in Nat

VARIABLES
  \* the engine
  open, locked,
  \* ProvideTasks: a goroutine per shard, the channels tasks and errChan
  fetcher, channel, errors, tasksClosed,
  \* Loop
  loop,            \* [BatchWorkers -> the tasks of its batch that have not returned]
  stalled,         \* [BatchWorkers -> those of them whose goroutine hangs]
  returned,        \* Loop has returned
  \* history
  received,        \* tasks in the answer of a fetch request of this process
  executed         \* tasks executed by this process

pipelineVars == <<open, locked, fetcher, channel, errors, tasksClosed, loop, stalled, returned, received, executed>>

Stopped == [pc |-> "stopped", attempt |-> 0, batch |-> {}]
Fetching == [pc |-> "fetch", attempt |-> 0, batch |-> {}]
Attempts == IF FetchRetries = 0 THEN 1 ELSE FetchRetries

PipelineInit ==
  /\ open \in SUBSET Tasks /\ locked = {}
  /\ fetcher = [s \in Shards |-> Stopped]
  /\ channel = <<>> /\ errors = 0 /\ tasksClosed = FALSE
  /\ loop = [b \in BatchWorkers |-> {}] /\ stalled = [b \in BatchWorkers |-> {}] /\ returned = FALSE
  /\ received = {} /\ executed = {}

At(s, label) == fetcher[s].pc = label

\* select: the goroutine of a shard returns when ctx is done
Select(s) ==
  fetcher' = [fetcher EXCEPT ![s] = IF phase = "stopping" THEN Stopped ELSE Fetching]

Free(s) == {t \in open \ locked : ShardOf[t] = s}

-----------------------------------------------------------------------------
(* ProvideTasks                                                            *)

\* fetchAndLock: up to MaxTasks tasks, none when the long poll ends
FetchTasks(s) ==
  /\ At(s, "fetch")
  /\ \E B \in SUBSET Free(s) :
       /\ Cardinality(B) <= MaxTasks
       /\ locked' = locked \cup B
       /\ received' = received \cup B
       /\ fetcher' = [fetcher EXCEPT ![s] = [pc |-> "send", attempt |-> 0, batch |-> B]]
  /\ UNCHANGED <<phase, faults, open, channel, errors, tasksClosed, loop, stalled, returned, executed>>

\* the request fails, or is cancelled with ctx; tasks may be locked all the same
FetchFails(s) ==
  /\ At(s, "fetch")
  /\ \/ phase = "stopping" /\ UNCHANGED faults
     \/ Fault
  /\ \E B \in SUBSET Free(s) : Cardinality(B) <= MaxTasks /\ locked' = locked \cup B
  /\ fetcher' = [fetcher EXCEPT ![s] =
       IF @.attempt + 1 < Attempts THEN [pc |-> "fetch", attempt |-> @.attempt + 1, batch |-> {}]
       ELSE [pc |-> "report", attempt |-> 0, batch |-> {}]]
  /\ UNCHANGED <<phase, open, channel, errors, tasksClosed, loop, stalled, returned, received, executed>>

\* errChan <- err
SendError(s) ==
  /\ At(s, "report") /\ errors < ChannelSize
  /\ errors' = errors + 1
  /\ Select(s)
  /\ UNCHANGED <<phase, faults, open, locked, channel, tasksClosed, loop, stalled, returned, received, executed>>

\* mutant: a batch is dropped when ctx is done
SendBatchUnlessDone(s) ==
  /\ At(s, "send") /\ Len(channel) < ChannelSize
  /\ channel' = IF phase = "stopping" THEN channel ELSE Append(channel, fetcher[s].batch)
  /\ Select(s)
  /\ UNCHANGED <<phase, faults, open, locked, errors, tasksClosed, loop, stalled, returned, received, executed>>

\* tasks <- temp
SendBatch(s) ==
  /\ At(s, "send") /\ Len(channel) < ChannelSize
  /\ channel' = Append(channel, fetcher[s].batch)
  /\ Select(s)
  /\ UNCHANGED <<phase, faults, open, locked, errors, tasksClosed, loop, stalled, returned, received, executed>>

\* wg.Wait() of the goroutines of all shards
CloseChannels ==
  /\ phase = "stopping" /\ ~tasksClosed
  /\ \A s \in Shards : At(s, "stopped")
  /\ tasksClosed' = TRUE
  /\ UNCHANGED <<phase, faults, open, locked, fetcher, channel, errors, loop, stalled, returned, received, executed>>

-----------------------------------------------------------------------------
(* Loop and ExecuteTaskBatch                                               *)

\* mutant: errors are not read any more when ctx is done
LogErrorUnlessDone ==
  /\ errors > 0 /\ phase # "stopping"
  /\ errors' = errors - 1
  /\ UNCHANGED <<phase, faults, open, locked, fetcher, channel, tasksClosed, loop, stalled, returned, received, executed>>

LogError ==
  /\ errors > 0
  /\ errors' = errors - 1
  /\ UNCHANGED <<phase, faults, open, locked, fetcher, channel, tasksClosed, loop, stalled, returned, received, executed>>

\* mutant: batches are taken one after the other, so that one that hangs stops all
TakeBatchAfterAll(b) ==
  /\ (\A k \in BatchWorkers : loop[k] = {}) /\ channel # <<>> /\ ~returned
  /\ loop' = [loop EXCEPT ![b] = Head(channel)]
  /\ channel' = Tail(channel)
  /\ UNCHANGED <<phase, faults, open, locked, fetcher, errors, tasksClosed, stalled, returned, received, executed>>

\* for batch := range tasks, once every goroutine of the last batch has returned
TakeBatch(b) ==
  /\ loop[b] = {} /\ channel # <<>> /\ ~returned
  /\ loop' = [loop EXCEPT ![b] = Head(channel)]
  /\ channel' = Tail(channel)
  /\ UNCHANGED <<phase, faults, open, locked, fetcher, errors, tasksClosed, stalled, returned, received, executed>>

\* ExecuteTask in its own goroutine, after the sleep of a duplicate; it may complete the task
RunTask(b, t) ==
  /\ t \in loop[b] \ stalled[b]
  /\ loop' = [loop EXCEPT ![b] = @ \ {t}]
  /\ executed' = executed \cup {t}
  /\ open' \in {open, open \ {t}}
  /\ UNCHANGED <<phase, faults, locked, fetcher, channel, errors, tasksClosed, stalled, returned, received>>

\* neither http.Post nor the login at keycloak has a timeout: the goroutine does not return, and
\* its batch worker takes no other batch
HangTask(b, t) ==
  /\ t \in loop[b] \ stalled[b] /\ Fault
  /\ stalled' = [stalled EXCEPT ![b] = @ \cup {t}]
  /\ open' \in {open, open \ {t}}
  /\ UNCHANGED <<phase, locked, fetcher, channel, errors, tasksClosed, loop, returned, received, executed>>

\* the channel is closed and empty, and every goroutine has left its loop
LoopReturns ==
  /\ ~returned /\ tasksClosed /\ channel = <<>>
  /\ \A b \in BatchWorkers : loop[b] = {}
  /\ returned' = TRUE
  /\ UNCHANGED <<phase, faults, open, locked, fetcher, channel, errors, tasksClosed, loop, stalled, received, executed>>

-----------------------------------------------------------------------------
(* External: the engine                                                    *)

LockExpires(t) ==
  /\ t \in locked /\ locked' = locked \ {t}
  /\ UNCHANGED <<phase, faults, open, fetcher, channel, errors, tasksClosed, loop, stalled, returned, received, executed>>

-----------------------------------------------------------------------------
(* Steps of the whole process                                              *)

\* Loop: ProvideTasks starts a goroutine per shard
StartPipeline ==
  /\ fetcher' = [s \in Shards |-> Fetching]
  /\ received' = {} /\ executed' = {}
  /\ UNCHANGED <<open, locked, channel, errors, tasksClosed, loop, stalled, returned>>

StopPipeline ==
  /\ fetcher' = [s \in Shards |-> Stopped]
  /\ channel' = <<>> /\ errors' = 0 /\ tasksClosed' = FALSE
  /\ loop' = [b \in BatchWorkers |-> {}] /\ stalled' = [b \in BatchWorkers |-> {}] /\ returned' = FALSE
  /\ UNCHANGED <<open, locked, received, executed>>

Provide(s) == FetchTasks(s) \/ FetchFails(s) \/ SendError(s) \/ SendBatch(s)
Run(b) == TakeBatch(b) \/ \E t \in Tasks : RunTask(b, t)

PipelineNext ==
  \/ \E s \in Shards : Provide(s)
  \/ CloseChannels \/ LogError \/ LoopReturns
  \/ \E b \in BatchWorkers : Run(b) \/ \E t \in Tasks : HangTask(b, t)
  \/ \E t \in Tasks : LockExpires(t)
=============================================================================
