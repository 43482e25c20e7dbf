# Verification of external-task-worker

The worker fetches external tasks from the Camunda engine, turns each into commands for one device
or a group of devices, publishes the commands, collects the responses and completes the task with
them. This directory holds TLA+ models of that program, TLC configurations that check them on small
instances, and proofs checked by TLAPS. Source paths are relative to the repository.

## The system

| Part | State it keeps | Operations | Interacts with |
| --- | --- | --- | --- |
| Task provisioning, `lib/camunda/camunda.go:80-154`, `lib/worker.go:139-200` | channel of batches (100), channel of errors (100) | one fetching goroutine per shard, ten batch workers, one goroutine per task | engine (`fetchAndLock`), worker |
| Worker, `lib/worker.go:202-429` | none of its own; time of the last success for the health check | `ExecuteTask`, `ExecuteCommand`, `HandleTaskResponse`, `GetQueuedResponseHandler` | everything below |
| Device group scheduler, `lib/devicegroups` | in the store: metadata of a group and of each sub task, results, tries (`ststate`), time of the last call | `ProcessCommand`, `ProcessResponse`; sequential, round robin, parallel | store, Camunda client (`SetRetry`), device repository |
| Store, `lib/devicegroups/storage.go`, `localdb.go` | key/value with expiry; in memory or memcached | get, set (ten tries), delete | |
| Camunda client, `lib/camunda/camunda.go:156-337` | completion cache, topic mutex, worker id | `CompleteTask`, `SetRetry`, `UnlockTask`, `Error` (incident message) | engine, shards, Kafka |
| Topic mutex, `lib/camunda/topicmutex.go` | map of mutexes and of their users, global mutex | `Lock`, `Unlock` | |
| Shards, `lib/camunda/shards` | database of users and shards, cache of one minute | `GetShards`, `GetShardForUser`, `EnsureShardForUser`, ... | SQL database |
| Response intake, `lib/com/kafka/consumer.go`, `lib/com/httpcommand/rest.go`, `lib/com/comswitch` | committed offset, queue of responses | consume, commit, hand over to the workers | Kafka or HTTP |
| Command output, `lib/com/kafka/producer.go`, `util.go`, `lib/com/httpcommand/producer.go` | map of known topics, buffer of the async producer | `ProduceWithKey`, `EnsureTopic`, close with `ctx` | Kafka, HTTP receivers |
| Connector errors, `lib/errorhandler.go` | none | unlock the task of a failed command | Camunda client |
| Commands, protocol messages, events, `lib/command.go`, `protocol.go`, `event.go` | none | build and parse messages, ask timescale for an event value | device repository, marshaller, timescale |
| Repository client, `lib/devicerepository`, `lib/cacheinvalidator.go` | cache of definitions and tokens | reads, invalidation by signal | HTTP |
| Health check, metrics, configuration, start | counters | | |

What is hard: a task is delivered again whenever its lock expires, while the responses to its first
delivery are still under way; several goroutines of one process schedule the same group from a store
without transactions; clearing a group, completing its task and remembering the completion are three
separate steps; the answer of the engine to a complete request can be lost; the process can restart
and, without memcached, forget every group; the queue of responses stands between the commit of a
response and its handling; a shutdown meets batches in channels, in blocked senders and half
executed, and closes the producer under them; a post may hang, or be answered before it is handled;
several processes write the shards of a user behind caches that do not know of each other; what a
task knows of its device comes out of two caches filled from each other. `PROJECT.json` lists these
hazards at their lines.

What makes each part correct: the mutex is exclusive per topic, never leaks and never deadlocks. A
task is completed only with the answers of its own devices and leaves one out only when its tries
are used up; it is given up only then; it ends. Devices are asked in the order of the scheduler.
Optimistic tasks send commands only for a completed task, and do send them. A committed response is
handled or was held by a queue when its process ended, and only so many can be. A shutdown ends,
executes what was received from the engine and never sends on a closed channel. Every task is run.
A connector that posts a response is not told that it was taken, or not, when the opposite is true. A
command that was accepted is in its topic, or the process has ended or is ending. Calls that assign a
shard agree, and a cached shard, service or token is wrong only for a reason and a time that can be
named.

## Modules

| Module | Models | Kind |
| --- | --- | --- |
| `TopicLock` | what `CompleteTask` relies on: one lock per topic | abstract specification |
| `TopicMutex` | `topicmutex.go`, each access of shared memory a step | component, implements `TopicLock` |
| `TopicMutexProofs` | theorems about `TopicMutex` | proofs |
| `TaskExecution` | worker, device group scheduler, store, Camunda client, and their environment | component, implements `TaskPromise` |
| `TaskPromise` | what the engine, the devices and the platform may expect of the worker | abstract specification |
| `MCTaskExecution` | groups and payloads for TLC | instances |
| `TaskExecutionProofs` | theorems about `TaskExecution`: types, completion, giving up | proofs |
| `TaskOrderProofs` | theorems about `TaskExecution`: the order of the devices, optimistic commands, refinement of `TaskPromise` | proofs |
| `TaskSeparateProofs` | theorems about `TaskExecution` with goroutines that never work on one task at the same time: retries, leftovers, one outcome | proofs |
| `CommandInput` | input variables of a task, `setVarOnPath` | operators |
| `EventValue` | columns, answer and message of an event value | operators |
| `TaskMessage` | what becomes of one command: rejected, sent, or answered with an event value | component |
| `MCTaskMessage` | inputs, variables and outputs for TLC | instances |
| `UserShards` | `lib/camunda/shards`: the table of users, its transactions and caches | component |
| `UserShardsProofs` | theorems about `UserShards` | proofs |
| `RepositoryCache` | `lib/devicerepository`: tokens, device types, services and their caches | component |
| `RepositoryCacheProofs` | theorems about `RepositoryCache` | proofs |
| `MCTaskData` | `TaskMessage`, `UserShards` and `RepositoryCache` side by side | instances |
| `Lifecycle` | the phases of a process and the bound on its failures | shared state |
| `ResponseIntake` | Kafka consumer, queue and workers of responses | component |
| `HttpIntake` | responses posted over HTTP; extends `ResponseIntake`, whose queue they share | component |
| `TaskPipeline` | fetching goroutines, channels, batch workers | component |
| `CommandOutput` | sync, async and HTTP producer, `EnsureTopic` | component |
| `WorkerProcess` | one process from start to end, with the four before in it | composition |
| `MCWorkerProcess` | tasks, shards and commands for TLC | instances |
| `WorkerProcessProofs` | theorems about `WorkerProcess`: responses, shutdown, topics | proofs |
| `WorkerPostProofs` | theorems about `WorkerProcess`: types, posts, commands that are given up | proofs |

### TopicMutex

`count` and `mux` are the two Go maps, `owner` the state of each mutex object, `mine` the pointer a
goroutine holds, `global` the goroutine inside the global mutex. `CallLock`, `LockGlobal`, `JoinMux`,
`WaitMux`, `CreateMux` and `OwnMux` are the steps of `Lock`; `UnlockGlobal` and `Unlock` those of
`Unlock`, which runs to its end inside the global mutex. The refinement mapping to `TopicLock` is at
the end of the module.

### TaskExecution

A handler is a goroutine. It is idle, or it runs one of two call chains:

* `Fetch` - `ExecuteTask` - `ExecuteCommand` - `ProcessCommand` (`role = "camunda"`);
* `TakeResponse` - `handleTaskResponse` - `ProcessResponse`, which may end in `ExecuteTask` again
  (`role = "result"`, then `"response"`). An event is answered inside the send loop of
  `ExecuteCommand`, which goes on afterwards; `rest` is what that loop has still to send.

Every operation on the store, the engine or a channel is one step, and any other handler may move in
between. The local variables of the code are fields of the handler: `seen` the retries the task had
when it was fetched, `missing` and `got` what `getTaskResults` found, `tries` and `fresh` the
annotation of the sub tasks, `next` what follows on `clearTaskData`.

The store is `meta`, `results`, `tries`, `running` and `called`. A timestamp is abstracted to the
question the code asks about it: `running` holds the sub tasks whose last try is younger than
`currentlyRunningTimeout`, `called` the tasks whose last call came from a response and is younger
than that. `TryTimesOut` and `CallTimesOut` may happen at any time, so every relation of the timeouts
to each other and to the lock duration is covered. `result.<id>` and `lastcall.<id>` are deleted in one
step because no handler reads both.

`CompleteTask` of one task is serialised by the topic mutex, so a complete request is one step with
five outcomes: found in the cache, accepted, refused, not reached, accepted with a lost answer. The
engine refuses a task that is not open and, as a failure, one that is locked for another worker id
(that of an earlier process). A request whose client has given up may also take effect later: `late`
holds it until `LateComplete`, and it completes the task if that is still open, whatever the worker
has done with the task since. Incidents are messages to the incident handler of the platform, which stops the process.

External, from how the code uses it: the engine (locks, retries, complete), the incident handler, the
devices and the channels. A device may answer late or never, a message may be lost, and an answer may
be delivered twice.

`CheckCamundaDuration` is false, its default, so responses are not dropped for their age; a response
that cannot be unmarshalled is a lost one.

`TaskPromise` has only what is visible from outside: which sub tasks were asked, sent and answered,
what the engine knows, and which incidents were reported. Its actions are `Ask` (one device, or all
that are missing), `Send`, `TakeResult`, `Complete`, `Blame` and `Stop`; the guard of each names the
earlier visible event that justifies it. `Promise` in `TaskExecution` is the instance with the same
variables; store, goroutines, deliveries, time and failures are hidden, so their steps stutter.

What the variables of a task hold is the constant `Payload`: the set of what reading them may give, a
command, an incident or an invalid task. It is a set because Go visits the variables in any order and
the last one decides (see `TaskMessage`).

### TaskMessage

One command from its task variables to its message. `SetPayloadParameter` applies one variable, in any
order; `refused` is the error that `setPayloadParameter` carries from the last one. `RejectTask` is
the incident that follows from it. Otherwise the input is marshalled (`CreateProtocolMessage`), or a
measuring function of an event asks for its last value (`CreateEventRequest`, `WrapperAnswers`,
`GetLastEventValue`).

`CommandInput` has decoded JSON values as pairs of a kind and a content, and `setVarOnPath` with all
its conversions: a failed parse that returns zero with its error, a container that cannot be set (a
panic, recovered with nil), an element that is missing on the path. Go decodes JSON numbers to
float64, so the `int` cases do not occur; numbers are whole in the model. The reference is
`Overridden`, which walks the input once and replaces every scalar that a variable addresses and fits.

`EventValue` has the content variables of a service as trees, a column as its sequence of names. The
reference is `LastValue`, which reads the value of a variable off its tree. Names do not contain a dot
(a column is joined and split at dots). The marshaller and the serialization of a segment are
external: a message is the input, or the parts of the segments, and `UnmarshalV2` may refuse any event
(`unusable`).

### WorkerProcess

`phase` says how far `main` is: `New` has started the consumer but is not done (`starting`), `Loop`
runs (`running`), a signal has cancelled `ctx` (`stopping`), or there is no process (`down`). `Start`
splits `New` where the consumer begins, because `deviceGroupsHandler` is set afterwards: a response
that needs it before `Ready` ends the process (`NilPanic`), one that ends earlier (optimistic, not
readable) is finished. `Exit` is the return of `main`; like `Crash` it takes with it whatever the
process holds. `log.Fatal` of a consumer is a `Crash`. Signals before `Loop` runs are not modelled.

In `ResponseIntake` a message is its offset in one partition. `position` is the last message the
reader has returned, `committed` the position of the group in Kafka; `consumer` is where the goroutine
of `NewConsumer` is. `queued` is read from the configuration at each start. `queue` is the Go channel,
whose capacity is the number of workers, `hand` what a worker is handling. `finished`, `refused` and
`lost` are histories. `HandleTaskResponse` is one step here; `TaskExecution` has its steps. An error does not tell how far it
came (`PerhapsFinished`): the result may be stored, the group cleared and the task completed before
`handleTaskResponse` returns one (`worker.go:394-431`). It may also not return at all, since it ends in
`ExecuteTask` with a post or a login that has no timeout: `HandleHangs`, `HangWorker` (its worker is
then in `stuck`) and, for posted responses, `HandlePostHangs`. `Rebalance` may happen wherever the
consumer is; `current` is the message it has fetched, which the commit is for.

In `TaskPipeline` `fetcher` holds each shard's goroutine with its attempt of `retry` and the batch it
is to send, `channel` and `errors` are the two Go channels, `loop` the tasks of its batch that each
goroutine of `Loop` waits for. `ExecuteTask` is one step that may complete the task, or it hangs (`HangTask`, for the
same two requests): then its batch never ends, and its worker takes no other (`stalled`).

The parts share little: `phase` and `faults`, the queue between the two intakes, and `Joined`. That is
why each behaviour of a run has work for one of them, and the work of the others is done before.

In `HttpIntake` a response is a number behind the offsets. `handler` is where the listener of a
request is, `status` what its connector has been told: with `HttpCommandConsumerSync` the answer waits
for the listener, and the write timeout breaks the connection while the listener goes on; without it
the listener is a goroutine that nobody waits for. `StartHttp` and `StartIntake` leave out a consumer
that the configuration disables (`comswitch`).

In `CommandOutput` every message is sent by a goroutine of its own, which is the worst case of what a
batch does. `sender` is where that goroutine is: it looks the topic up in the map of known topics,
creates it, writes the map, and sends. `HostOf` says who waits for it and who recovers its panic.
`buffer` and `failed` are what the async producer has accepted and the errors nobody has read yet.
`CloseProducer` is the goroutine behind `<-ctx.Done()`; `CloseInput` is the end of sarama's `Close`,
after which a send panics. The process ends itself with the first error of the async producer
(`EndsByProducer`), with two goroutines in the map at once (`EndsByMap`: Go detects it, or does not,
then the step is not taken), and when a handler of a response reports an incident to the closed
producer (`EndsByIncident`), because nothing recovers it there. `Joined` couples the parts: a goroutine
that sends the command of a task belongs to a batch, and `Loop` does not return before it.

### UserShards

A call is a goroutine with its transaction; every statement, the commit, and each access of the cache
is a step. The database reads what is committed (the default of Postgres); `locked` is the user whose
key a transaction has written and not committed, for which others wait; an existing key or an unknown
shard is an error. `Select` and `Count` are `selectShard`, any of the shards with the fewest users,
since Go visits its map in any order. A failed commit may have been one, and a failed removal from the
cache (`RemoveFails`) is an error of a call that has committed. `writers` (who committed each
version of a row), `overlapped` and `skew` are histories that the properties use to tell a stale entry
with a reason from one without. The worker itself calls only `GetShards` and `GetShardForUser`; the
other calls are those of the programs that share the table.

### RepositoryCache

A task asks for a token, its device and the service, in this order. `left` is how many ticks an entry,
or a request, may still live; `Tick` waits for every reader that is not waiting itself, so a program
without a delay of its own takes no time. The version of a definition is its number of changes. The
entry of a service is copied out of that of its device type, which may be at the end of its life. The
clock stops at `Longest`, after which nothing distinguishes ages. The validity of a token's entry is
`expires_in` less ten seconds, which the code does not check; what a cache does with a validity that is
not positive is up to the library, so both are modelled: the entry is dropped, or kept without a limit
(`stays`).

## Runs

Bounds: `MaxFaults` is the number of failures (restart, failed call, duplicated answer, expired
entry, lost incident) in one behaviour, `MaxFetches` how often the engine delivers a task (0: without
bound), `Handlers` the goroutines. A group of two sub tasks is the smallest with an order, a partial
result and a remaining request; two goroutines are the smallest with a race; two or three deliveries
pass through "first try", "retry" and "given up" for `Retries` of 0 or 1.

| Run | Instance | Shows |
| --- | --- | --- |
| `TopicMutex` | 3 goroutines, 2 topics, 2 mutex objects | exclusion, no unlock of a free mutex, no leak, no wait inside the global mutex, every `Lock` is granted, refinement of `TopicLock` |
| `RoundRobinConcurrent` | 2 goroutines, group of 2, 1 retry, 2 deliveries | no second try before every sibling had its first |
| `OptimisticFailures` | 2 goroutines, 1 failure, a group and a task that asks for an incident | no command before the task is completed |
| `MixedFailures` | 1 goroutine, memcached, 1 failure, a group with an event and a single device with a misfit variable, 2 and 1 deliveries | completion and giving up only with reason, also when a complete request takes effect after its client gave up; no try that neither the retries nor a failure explain; refinement of `TaskPromise` |
| `SequentialLive` | 1 goroutine, unbounded deliveries, no failure | nothing left behind, given up and completed exclude each other, devices are asked in order, every task ends |
| `ParallelLive` | 1 goroutine, unbounded deliveries, 1 failure, LocalDb | types, every task ends |
| `FalseIncident` | 2 goroutines, no retry | counterexample: a task is reported as "unable to get any results" and completed with one |
| `OptimisticLostAnswer` | 1 goroutine, 1 failure | counterexample: a completed optimistic task whose commands are never sent |
| `ResponseIntake` | 5 responses from Kafka, or 2 posts, or 3 commands; queue of 2 workers or none, 1 failure or shutdown | no committed response is forgotten, the end of a process loses no more than queue and workers hold, every response ends; a connector is not told the opposite of what happened; an accepted command exists, or its process ends or has ended; every send ends |
| `TaskPipeline` | 1 task, 2 shards, 2 batch workers, channels of 1, 2 failures, hanging tasks or shutdowns | shutdown executes what was received and ends, unless it waits for a task that hangs; every task is run, one that hangs again by the other worker, unless both hang |
| `TaskMessage` | 4 inputs with up to 2 of 49 variables, 144 pairs of outputs, every row, every cut of an answer; 3 calls of 2 processes on 2 users and 2 shards, 1 database error; 2 readers of a service, tokens that live for longer or less than the margin | the message carries the variables that fit and no trace of the others, an event holds the last values at their places, a complete answer is used; assignments agree and are even, a stale entry has a reason; how old a service may be, what an invalidation makes readers forget, when a token has expired |
| `IgnoredParameter` | an input of 2 numbers, one variable that fits and one that does not | counterexample: the misfit is applied last, and the task is rejected |

Five responses are one more than a queue of two and two workers hold, so the consumer also waits for
the queue. Two posts can meet in the queue and at its close. Of the three commands two go to
one topic, so that both may be in the map, one of them from a handler of a response, and the third is
a post. A channel of one with two shards has a blocked sender, for tasks as for errors. One task is
enough for two batches of it, since a task whose execution hangs is delivered again when its lock
expires, and two workers are enough for one that goes on while the other hangs; batches of several
tasks, half executed when the signal comes, are part of `DrainedOnExit`'s theorem.

Two variables are the smallest set with an order, and their paths address a scalar, a container, an
element below another's, one that does not exist and the whole input; their values are one of each
kind, with texts that parse and texts that do not. Two outputs are the smallest set with neighbouring
columns; their variables have lists and empty names at the root and below, and columns whose order in
the request is not their sorted order. `HandleMissingLastValueTimeAsError` is its default, FALSE.

Three calls on the shards are two that race and one that makes the third version or removes an entry
under them; two of the three have the same user and different processes. The clock of
`RepositoryCache` has a cache timeout of two ticks, so an entry can be copied in the middle of its
life; a request of one tick; and tokens that live for three ticks, of which the margin takes two, or for
one, so that the validity of their entry is negative (the device type does not change while there is
such a token, which has no bearing on the other). These three modules stop with
their work done; they share nothing, so each initial state has work for one of them.

`CHECK_DEADLOCK FALSE` is set for all but `TopicMutex`: the system is done when no task is open, every
response is handled, or the one command has its message.

`CompletionIsComplete` and `GivesUpAfterRetries` are checked in one run and proved for every instance;
races of several goroutines on a sequential or a parallel group have no passing run of their own: the
theorems of `TaskExecutionProofs` and `TaskOrderProofs` cover them for any number of goroutines.
`RetriesAreRespected`, `NoLeftovers` and `OutcomesAgree` hold as long as no two goroutines work on the
same task (`FalseIncident` shows the race that breaks the last one). The code does not ensure that:
two of them meet when the lock of a task is shorter than the work on it, or two of its responses come at
once. `SequentialLive` and `MixedFailures` have one
goroutine, and `TaskSeparateProofs` has the theorems for any number of them. The type invariant of `TopicMutex` has a theorem and no run.

Some properties name what the code does not do as their exception, and so record a hazard rather than
exclude it: a response whose listener failed counts as refused, although it is never delivered again
(`ResponsesAreAccounted`); a post that was answered with 200 without `HttpCommandConsumerSync` may have
failed unseen (`AcceptedPostIsHeld`), and `LossIsBounded` counts only the responses of Kafka and of the
queue; a producer that is closing may drop commands (`NoSilentLoss`). An empty group has no sub task
for `GivesUpAfterRetries` to speak of.

### Fairness

`TopicMutex`: weak fairness of a goroutine that is past its request, strong fairness for taking a
mutex. Go's mutexes hand over to a waiter after one millisecond, so a waiter is not overtaken for
ever; whoever holds a topic releases it by `defer`.

`TaskExecution`: weak fairness of each goroutine (Go schedules every runnable goroutine, and the
calls have timeouts; the two that have none, a post of a command and the login at the identity
provider, are taken to return), of the expiry of a lock, of a try and of a call (time passes), and of the
incident handler; strong fairness of fetching a task, since each shard is polled in an endless loop
and the engine offers a task whenever it is open and not locked. Nothing is assumed of devices,
responses or failures.

`WorkerProcess`: weak fairness of every goroutine, of the flushes of the async producer, of the start
of a process, and of the expiry of a lock; strong fairness of a send on `tasks`, because Go serves blocked senders in their order; strong
fairness of fetching a given task, because a fetch request returns the tasks that are free. No
fairness of signals, crashes, rebalances, connectors or failures. A post of a command and the login
have no timeout (`http.Post` and `http.PostForm` use the default client): they may hang for ever, and
with them a task, the listener of a response or a post, to which no fairness applies from then on.
`ShutdownEnds` and `SendsEnd` except what hangs by name; `EveryTaskIsRun` and `EveryResponseEnds` say
when it stops the others: only if every batch worker (ten in the code) has a task that hangs or a
shutdown waits for one, and only if the consumer itself or every worker of its queue hangs.

### Findings

* `FalseIncident`: `ProcessCommand` reads results and tries at different times. A redelivery that read
  the results before an answer and the tries after it reports that no results exist.
* `OptimisticLostAnswer`: the retry of a complete request whose answer was lost is refused; the task is
  completed, but `ExecuteCommand` returns before it sends the commands.
* `IgnoredParameter`: `setPayloadParameter` logs "ignore param" for a variable that cannot be set, but
  returns the error of the last variable it visits, in the random order of a Go map. The run has one
  variable that fits and one that does not: with the misfit last the task is rejected with an incident,
  in the other order it is executed.

Not findings of a run, but worth knowing: a refused response is passed over by the commit of the next
one although the log says "no commit" (`consumer.go:97`); a variable for the whole input replaces it
even when it does not fit (`command.go:112`), so that text which is no number makes a number zero,
and the task goes on unless that variable was the last; the guards against a short answer of the
timescale wrapper (`timescale.go:152`, `161`) are two too wide, so that such an answer panics.

## Proofs

`TopicMutexProofs`, for any finite set of goroutines and any topics and mutex objects: the invariant
relates each goroutine's program counter to the counters and to the mutex it points to; the count of
a topic is the number of goroutines between the two critical sections. From it follow the types, the
exclusion, the safety of `Unlock`, the absence of leaks, that the creator of a mutex never waits, and
that each step is a step or a stutter of `TopicLock`. Assumed: the goroutines are finitely many, and
the three "none" values are not goroutines, topics or mutexes.

`TaskExecutionProofs`, for any tasks, groups, retries, goroutines and number of failures, for every
scheduler: types, `CompletionIsComplete` and `GivesUpAfterRetries`. Neither property is inductive:
what a goroutine is about to complete or give up was read many steps ago, from a store that others
have changed since. The inductive invariant `IInv` says that knowledge, once true, stays true: the
histories `answered` and `attempted` only grow, so what justifies a goroutine's decision when it
reads the store (`Grounded`, `Scanned`) still justifies it when it acts (`Ending`). Its parts are
`Good` (the local variables hold sub tasks of the goroutine's own task), `Placed` (program counter,
role and set of what is to do agree), `Scanned` (every child of the task is to do, got or missing),
`Grounded` (a result got is an answer; a sub task with `n` annotated tries was attempted `n` times),
`Ending` (a goroutine that is about to complete or give up has the reason), `Stored` (the same
for the store and for the retries of the engine), and `LateIsComplete` (a complete request that takes
effect late still carries what the goroutine had reason to send). Assumed: `GroupAssumption`, `ConfigAssumption` and
`OptimisticAssumption` of `TaskExecution`, which TLC evaluates with every run.

`WorkerProcessProofs`, for any responses, workers, tasks, shards, channel sizes, retries and failures:
`ResponsesAreAccounted`, `LossIsBounded`, `DrainedOnExit`, `NoSendAfterClose`, `KnownTopicsExist` and
`AcceptedCommandsExist`. `IntakeInv` extends
the first from the committed messages to all that the reader has passed, except the one its listener
works on, which is why a commit adds nothing new. `LossInv` bounds what a process holds (the channel,
one message per worker, nothing without a queue), and the bound on the loss follows by counting.
`PipelineInv` says where a received task is until it is executed (with a fetching goroutine, in the
channel, with a goroutine of `Loop`), that closed channels have no sender, and that `Loop` returns
with everything empty. For the commands `OutputInv` says that every topic of the map exists and that
each goroutine between `EnsureTopic`'s creation and its write of the map has a topic that exists;
`KnownTopicsExist` and `AcceptedCommandsExist` follow. Assumed: `IntakeAssumption`,
`PipelineAssumption`, `OutputAssumption` and `FaultsAssumption`.

`TaskOrderProofs`, from the same assumptions: `GroupOrder`, `RoundRobinCoverage` and
`CommandsFollowCompletion`. Its invariant
`OInv` says that whatever the store, the channels and the goroutines know of a sub task with an answer
or a recent try lies in `Asked`, the sub tasks that were tried, which only grows. A scheduler passes
over a sub task when it has a result, no retry left or a recent try; each shows that it is in `Asked`,
so whichever sub task is taken next respects the order. For the optimistic strategy a second invariant
says that what a goroutine has left to send, and what was sent, belongs to a completed task, that the
completion cache holds completed tasks only, and that a completed task stays completed.

The same module has the refinement `KeepsPromise`, in full since `TaskPromise` has no fairness: for any
constants every behaviour of `TaskExecution` is one of `TaskPromise`. The justification of a visible
step is a visible event of the past, while the code acts on what it finds in the store; `PInv` connects
the two and is used together with `IInv`. `Causes` is about what is in flight: whatever was sent or
answered was asked, commands and answers under way were sent and never for an event, whoever is in the
topic of the incident handler has an incident (`Blamed`), a late request carries results the engine may
accept (`LateIsAcceptable`). `Aware` is about a goroutine: what it has left to send was asked, a result
it is about to store comes from an event or from a command that was sent, the sub tasks it misses are
children of its task, and when it completes a task every child it leaves out was asked. `PromiseNext`
goes through the actions: each is one action of `TaskPromise` or leaves its variables unchanged.

`TaskSeparateProofs`, for any number of goroutines, any groups, payloads, schedulers, retries and
deliveries, any order of timeouts, and answers that are late or lost, as long as no two goroutines work
on the same task at the same time (`Separate`). A goroutine has a task in hand from its fetch, or from
the moment it has read the metadata of a response, until it has completed it, given it up or decided
what to send; storing a result and sending are not excluded from overlapping (`Working`). The hypothesis
is the usual case: the lock of a task outlasts the work on it, and its responses come one by one. Without it the properties are
false: the counters of the store are written from an old reading, and a group is cleared under a
delivery that goes on with it. Failures are allowed as far as the properties survive them:

* `Respected` (`RetriesAreRespected`) with any failures. A restart, an expired entry or a failed request
  to set the retries loses a count, so the bound has one more `Limit + 1` per failure. `CountInv` says
  how far a count of the store, of the engine or of a goroutine may lag behind the tries (`Slack`,
  `Counting`).
* `Tidy` (`NoLeftovers`) with any failures but three, which leave metadata behind for good and are
  named by `Forgets`: the engine completes a task whose client has given up, `clearTaskData` cannot
  read the group or delete its metadata, the metadata of a task expires. `MetaInv`: a completed task has
  no metadata, and there is none of a sub task without that of its parent, because the parent is
  written first and deleted last; so after a restart in the middle of either, whoever clears the group
  finds it, and what a clear under way has still to delete is in its list (`Clearing`). The hypothesis
  is `[][~Forgets]_vars`.
* `OneOutcome` (`OutcomesAgree`) with any failures but those, the ones that take back a count
  (`Uncounts`: a reported task would have new tries) and the ones that end the work on a task between
  its incident and the clearing of its group (`Interrupts`). Restarts on memcached while it works on other
  tasks, store errors, refused or lost complete requests, lost incidents and answers delivered twice
  are all allowed. `OutcomeInv`: after the incident "no results" every counter of the group is above the
  limit, the group is cleared unless a delivery of it is under way, and that delivery has no results and
  can only end in the same incident (`GaveUp`, `Repeats`, `Hopeless`).

What one goroutine does to the counters and the metadata concerns the family of its own task, and
`FamilyAssumption` keeps families apart (`CountingApart`, `ClearingApart`, `OutcomeStays`).

Assumed in addition: `FamilyAssumption`, that the sub task of a single device is its task, and that the
children of a group are in a strict order with their parent last. `GetSubTasks`
(`devicegroups.go:292-361`) makes the ids from indices, the lists it stores are in that order, and
`clearTaskData` appends the parent to it (`devicegroups.go:431`).

`WorkerPostProofs`, from the assumptions of `WorkerProcessProofs`: the type invariant of
`WorkerProcess`, `AcceptedPostIsHeld`, `RejectedPostIsFree` and `NoSilentLoss`. `PostInvariance` says
that a posted response whose handler returned nil is handled, queued, in the hand of a worker or lost,
and that one in the queue or a hand has such a handler; it needs that the consumer of Kafka and the posts never bring the same response
(`KafkaLeavesPosts`). The types rest on the bounds of the channels: no more errors wait than
`ChannelSize`, and a topic of Kafka is never the address of an HTTP receiver.

`UserShardsProofs`, for any finite sets of users, shards and calls and any processes:
`AssignmentsAgree`, `StaleShardHasReason` and `Balanced`. `RowInv` is about the row of a user: the
call that is about to commit holds its lock, and an assignment holds it only while there is no shard.
`AgreeInv` follows the value of the first commit into caches and calls. `StaleInv` gives the reason of
every old entry, also for the entry a call is about to store, and counts versions by `writers`.
`ClaimInv` compares the users of one shard with those that have or are about to have another: each
selection takes a shard with the fewest, so the difference is bounded by the calls that selected at
the same time (`skew`). Assumed: `ShardsAssumption`; the finite sets are needed to count.

`RepositoryCacheProofs`, for any finite set of readers, any services, timeouts, validities and
changes: `ServiceStaleness`, `InvalidatedIsForgotten` and `TokenIsValid`. `CacheInv` bounds, for each
entry and each answer on its way, its age plus the life it has left: by a request for an answer, by
`CacheTimeout` more for the entry of a device type, by another one for a service. For tokens it is the
sum of what is left in the cache, what the identity provider granted and what its answers took.
Assumed: `CacheAssumption`, which says nothing of how `expires_in` compares with the margin.

The last two are theorems about `ShardsSpec` and `CacheSpec`, the components by themselves; `MCTaskData`
takes steps of the same `ShardsNext` and `CacheNext`.

Every safety invariant that a passing run checks has a theorem, except those of `TaskMessage`
(`CommandCarriesInput`, `EventIsLastValue`, `CompleteAnswerIsUsed`, and the types of its state), which
speak of recursive operators over data. Liveness (`EveryTaskEnds`, `LockIsGranted`,
`EveryResponseEnds`, `SendsEnd`, `ShutdownEnds`, `EveryTaskIsRun`, the fairness part of
`ImplementsTopicLock`) is model-checked only; the prover does not reach it.

## Not modelled

Which sub tasks a group has (`GetSubTasks`, `getFilteredServices`: constants of `TaskExecution`);
metadata, configurables and traces of messages; the marshaller (stateless calls, their failure is a
fault of the model); protocols, device groups and the contents of devices in the caches of
`devicerepository`, which are read and invalidated as device types are; the connections that unclosed
bodies keep (`keycloak.go:55`); metrics, health check, configuration, the documentation generator and
the tests. The set of shards is read once at the start of `Loop`, so it is a constant. Reasons are
given per component in `PROJECT.json`.

## Plan

1. `CompleteTask` in steps (two requests, their timeout, the cache of half the lock duration), shown
   to implement the atomic completion of `TaskExecution`.
2. A bound on the damage of two goroutines on one task: which counts and results they can lose.
3. The other pure parts: the duplicate index of sub tasks, sub task ids, `getFilteredServices`, each
   against a reference definition.
