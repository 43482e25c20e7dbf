---------------------------- MODULE TaskExecution ----------------------------
(***************************************************************************)
(* A worker that executes Camunda tasks for groups of devices: CmdWorker   *)
(* (lib/worker.go), DeviceGroups (lib/devicegroups) and the store of sub   *)
(* results they share, together with the engine, the devices and the       *)
(* channels between them.                                                  *)
(*                                                                         *)
(* A handler is one goroutine.  It runs ExecuteTask for a fetched task, or *)
(* handleTaskResponse for the answer of a device, one operation on the     *)
(* store, the engine or a channel per step; every other handler may move   *)
(* in between.  The timeouts of the code (lock duration, time since the    *)
(* last try or the last call, expiry of the completion cache) are actions  *)
(* that may happen at any moment.                                          *)
(***************************************************************************)
EXTENDS Integers, FiniteSets

CONSTANTS
  Tasks,          \* external tasks of the engine
  SubTasks,       \* sub tasks, one per device and service
  Parent,         \* [SubTasks -> Tasks]; the sub task of a single device has the id of its task
  Pos,            \* [Tasks \cup SubTasks -> Nat], the order of the children, parents last
  Events,         \* sub tasks that are answered from the last event value
  Payload,        \* [Tasks -> SUBSET {"command", "incident", "invalid"}], what may be read from
                  \* the task variables; the order in which Go visits them decides
  Scheduler,      \* GroupScheduler: "sequential", "round_robin" or "parallel"
  Optimistic,     \* CompletionStrategy = "optimistic"
  Retries,        \* command.Retries
  Memcached,      \* the store survives a restart and may fail; otherwise it is the LocalDb
  Handlers,       \* goroutines
  None,
  MaxFaults,      \* bound: restarts, failed calls, duplicated answers and expired entries
  MaxFetches      \* bound: [Tasks -> Nat], deliveries of a task by the engine, 0 for no bound

Ids == Tasks \cup SubTasks

ASSUME GroupAssumption ==
  /\ Parent \in [SubTasks -> Tasks]
  /\ Pos \in [Ids -> Nat]
  /\ Events \subseteq SubTasks
  /\ None \notin Ids
\* GetSubTasks: the sub task of a single device has the id of its task, the others have one of their own,
\* and the metadata lists them in their order, the parent last
ASSUME FamilyAssumption ==
  /\ \A c \in SubTasks \cap Tasks : Parent[c] = c
  /\ \A c \in SubTasks : c # Parent[c] => Pos[c] < Pos[Parent[c]]
  /\ \A t \in Tasks : \A x, y \in {t} \cup {c \in SubTasks : Parent[c] = t} : Pos[x] = Pos[y] => x = y
ASSUME ConfigAssumption ==
  /\ Payload \in [Tasks -> SUBSET {"command", "incident", "invalid"}]
  /\ Scheduler \in {"sequential", "round_robin", "parallel"}
  /\ Optimistic \in BOOLEAN /\ Memcached \in BOOLEAN
  /\ Retries \in Nat \cup {-1}
  /\ MaxFaults \in Nat /\ MaxFetches \in [Tasks -> Nat]
\* LoadConfig: the optimistic strategy forces the parallel scheduler
ASSUME OptimisticAssumption == Optimistic => Scheduler = "parallel"

Children(t) == {c \in SubTasks : Parent[c] = t}
IsFirst(x, S) == x \in S /\ \A y \in S : Pos[x] <= Pos[y]

\* ExecuteCommand replaces the retries of the command
Limit == IF Optimistic THEN -1 ELSE Retries

VARIABLES
  \* the store: keys meta.<id>, result.<id>, ststate.<id>, lastcall.<id>
  meta, results, tries,
  running,        \* sub tasks whose LastTry is younger than currentlyRunningTimeout
  called,         \* tasks last called by a response, not longer than currentlyRunningTimeout ago
  \* the engine
  engine, output, locked, retries,
  late,           \* <<task, results>>: completions it works on after their client gave up
  fetches,        \* deliveries of a task, if they are bounded
  \* in flight
  commands, answers, reported,
  \* the worker
  h, cache,
  \* history
  attempted,      \* how often a handler committed to try a sub task
  sent,           \* sub tasks with a produced command
  answered,       \* sub tasks with an answer that reached a handler
  incidents,      \* reasons reported for a task
  faults

store == <<meta, results, tries, running, called>>
camunda == <<engine, output, locked, retries, late, fetches>>
channels == <<commands, answers, reported>>
history == <<attempted, sent, answered, incidents>>
vars == <<store, camunda, channels, h, cache, history, faults>>

Idle == [pc |-> "idle", role |-> "none", task |-> None, sub |-> None, seen |-> 0,
         todo |-> {}, got |-> {}, missing |-> {}, rest |-> {},
         tries |-> [c \in SubTasks |-> 0], fresh |-> {}, next |-> "none"]

Init ==
  /\ meta = {} /\ results = {} /\ tries = [c \in SubTasks |-> 0]
  /\ running = {} /\ called = {}
  /\ engine = [t \in Tasks |-> "open"] /\ output = [t \in Tasks |-> {}]
  /\ locked = {} /\ retries = [t \in Tasks |-> 0] /\ late = {}
  /\ commands = {} /\ answers = {} /\ reported = {}
  /\ h = [g \in Handlers |-> Idle] /\ cache = {}
  /\ attempted = [c \in SubTasks |-> 0] /\ sent = {} /\ answered = {} /\ incidents = {}
  /\ fetches = [t \in Tasks |-> 0] /\ faults = 0

Fault == faults < MaxFaults /\ faults' = faults + 1

At(g, label) == h[g].pc = label
Become(g, state) == h' = [h EXCEPT ![g] = state]

\* a step that reads the shared state and changes nothing but its goroutine
Local(g, state) ==
  /\ Become(g, state)
  /\ UNCHANGED <<store, camunda, channels, cache, history, faults>>

\* in the loop of ExecuteCommand over the messages it has still to send
Sending(S) == IF S = {} THEN Idle ELSE [Idle EXCEPT !.pc = "send", !.rest = S]

\* a response to an event is handled inside that loop, which goes on after it
Resume(g) == Sending(h[g].rest)

\* Camunda.Error: the incident is a message to the incident handler of the platform
Report(t, reason) ==
  /\ incidents' = incidents \cup {<<t, reason>>}
  /\ reported' = reported \cup {t}

-----------------------------------------------------------------------------
(* ExecuteTask and ExecuteCommand                                          *)

\* one task of a batch of fetchAndLock
Fetch(g, t) ==
  /\ At(g, "idle")
  /\ engine[t] = "open" /\ t \notin locked
  /\ \/ MaxFetches[t] = 0 /\ UNCHANGED fetches
     \/ fetches[t] < MaxFetches[t] /\ fetches' = [fetches EXCEPT ![t] = @ + 1]
  /\ locked' = locked \cup {t}
  /\ Become(g, [Idle EXCEPT !.pc = "execute", !.role = "camunda", !.task = t, !.seen = retries[t]])
  /\ UNCHANGED <<store, engine, output, retries, late, channels, cache, history, faults>>

\* GetIncident, GetCommandRequest: what the variables of the task hold
Reading(g) == Payload[h[g].task]

RejectTask(g) ==
  /\ At(g, "execute")
  /\ \E r \in Reading(g) \ {"command"} : Report(h[g].task, r)
  /\ Become(g, Resume(g))
  /\ UNCHANGED <<store, camunda, commands, answers, cache, attempted, sent, answered, faults>>

ShouldIgnoreTask(g) ==
  IF Scheduler = "parallel" THEN h[g].role = "response"
  ELSE h[g].role = "camunda" /\ h[g].task \in called

IgnoreTask(g) ==
  /\ At(g, "execute") /\ "command" \in Reading(g)
  /\ ShouldIgnoreTask(g)
  /\ Local(g, Resume(g))

AcceptTask(g) ==
  /\ At(g, "execute") /\ "command" \in Reading(g)
  /\ ~ShouldIgnoreTask(g)
  /\ Local(g, [h[g] EXCEPT !.pc = IF Scheduler = "parallel" THEN "getMeta" ELSE "save"])

SaveCallInfo(g) ==
  LET t == h[g].task IN
  /\ At(g, "save")
  /\ called' = IF h[g].role = "response" THEN called \cup {t} ELSE called \ {t}
  /\ Become(g, [h[g] EXCEPT !.pc = "getMeta"])
  /\ UNCHANGED <<meta, results, tries, running, camunda, channels, cache, history, faults>>

-----------------------------------------------------------------------------
(* getNextRequests and getTaskResults                                      *)

\* the id whose metadata is asked for
Key(g) == IF h[g].role = "result" THEN h[g].sub ELSE h[g].task

FoundMeta(g) ==
  /\ At(g, "getMeta") /\ Key(g) \in meta
  /\ LET t == IF h[g].role = "result" THEN Parent[h[g].sub] ELSE h[g].task IN
     Local(g, [h[g] EXCEPT !.pc = "getResults", !.task = t, !.todo = Children(t),
                            !.got = {}, !.missing = {}])

\* ErrNotFound: the first call for this task, or its data is cleared; GetSubTasks
SplitTask(g) ==
  LET t == h[g].task IN
  /\ At(g, "getMeta") /\ h[g].role # "result" /\ t \notin meta
  /\ Local(g, [h[g] EXCEPT !.pc = "saveMeta", !.got = {}, !.missing = Children(t)])

SaveParentMeta(g) ==
  /\ At(g, "saveMeta")
  /\ meta' = meta \cup {h[g].task}
  /\ Become(g, [h[g] EXCEPT !.pc = "saveChildren", !.todo = Children(h[g].task)])
  /\ UNCHANGED <<results, tries, running, called, camunda, channels, cache, history, faults>>

SaveChildMeta(g) ==
  /\ At(g, "saveChildren")
  /\ \E c \in h[g].todo :
       /\ IsFirst(c, h[g].todo)
       /\ meta' = meta \cup {c}
       /\ Become(g, [h[g] EXCEPT !.todo = @ \ {c}])
  /\ UNCHANGED <<results, tries, running, called, camunda, channels, cache, history, faults>>

\* with a result the child is finished, without one it is missing
GetResult(g) ==
  /\ At(g, "getResults")
  /\ \E c \in h[g].todo :
       /\ IsFirst(c, h[g].todo)
       /\ IF c \in results
          THEN Local(g, [h[g] EXCEPT !.todo = @ \ {c}, !.got = @ \cup {c}])
          ELSE Local(g, [h[g] EXCEPT !.todo = @ \ {c}, !.missing = @ \cup {c}])

\* the protocol messages of the missing sub tasks are built, then the scheduler decides
RequestsBuilt(g) == /\ At(g, "getResults") \/ At(g, "saveChildren")
                    /\ h[g].role # "result" /\ h[g].todo = {}

\* GetSubTasks: the repository does not give the devices and services of the group
SplitFails(g) == At(g, "getMeta") /\ h[g].role # "result" /\ h[g].task \notin meta /\ Fault

\* CreateProtocolMessage: token, device, service, protocol or marshaller fails for a sub task
MessageFails(g) == RequestsBuilt(g) /\ h[g].missing # {} /\ Fault

\* err of ProcessCommand
BuildFails(g) ==
  /\ SplitFails(g) \/ MessageFails(g)
  /\ Report(h[g].task, "request")
  /\ Become(g, Resume(g))
  /\ UNCHANGED <<store, camunda, commands, answers, cache, attempted, sent, answered>>

-----------------------------------------------------------------------------
(* ProcessCommand: the sequential and the round robin scheduler            *)

StartAnnotate(g) ==
  /\ RequestsBuilt(g) /\ Scheduler # "parallel"
  /\ Local(g, [h[g] EXCEPT !.pc = "annotate", !.todo = h[g].missing])

AnnotateSubTaskState(g) ==
  /\ At(g, "annotate")
  /\ \E c \in h[g].todo :
       /\ IsFirst(c, h[g].todo)
       /\ Local(g, [h[g] EXCEPT !.todo = @ \ {c}, !.tries[c] = tries[c],
                                 !.fresh = IF c \in running THEN @ \cup {c} ELSE @])

\* mutants of filterRetries: one try too few, one try too many
MayTryLess(g, c) == Limit = -1 \/ h[g].tries[c] < Limit
MayTryMore(g, c) == Limit = -1 \/ h[g].tries[c] <= Limit + 1

MayTry(g, c) == Limit = -1 \/ h[g].tries[c] <= Limit

FilterRetries(g) == {c \in h[g].missing : MayTry(g, c)}
FilterCurrentlyRunning(g) == FilterRetries(g) \ h[g].fresh

\* mutants: any request that is not running; never sorted by the tries
NextRequestAny(g, c) == c \in FilterCurrentlyRunning(g)
NextRequestUnsorted(g, c) == IsFirst(c, FilterCurrentlyRunning(g))

\* nextRequests[:1]; sort.Slice orders by TryCount and is not stable
NextRequest(g, c) ==
  IF Scheduler = "sequential" THEN IsFirst(c, FilterCurrentlyRunning(g))
  ELSE /\ c \in FilterCurrentlyRunning(g)
       /\ \A d \in FilterCurrentlyRunning(g) : h[g].tries[c] <= h[g].tries[d]

\* no sub task may be tried again: clear, then complete with what there is
Exhausted(g) ==
  /\ At(g, "annotate") /\ h[g].todo = {}
  /\ FilterRetries(g) = {}
  /\ Local(g, [h[g] EXCEPT !.pc = "clear",
                            !.next = IF h[g].got = {} THEN "noResults" ELSE "complete"])

\* every sub task that may be tried is running
NothingToSend(g) ==
  /\ At(g, "annotate") /\ h[g].todo = {}
  /\ FilterRetries(g) # {} /\ FilterCurrentlyRunning(g) = {}
  /\ Local(g, Resume(g))

\* mutant: the try is not counted
UpdateSubTaskStateUncounted(g) ==
  /\ At(g, "annotate") /\ h[g].todo = {}
  /\ \E c \in SubTasks :
       /\ NextRequest(g, c)
       /\ running' = running \cup {c}
       /\ Become(g, Sending({c}))
  /\ UNCHANGED <<meta, results, tries, called, camunda, channels, cache, history, faults>>

\* updateSubTaskState writes the annotated count plus one
UpdateSubTaskState(g) ==
  /\ At(g, "annotate") /\ h[g].todo = {}
  /\ \E c \in SubTasks :
       /\ NextRequest(g, c)
       /\ tries' = [tries EXCEPT ![c] = h[g].tries[c] + 1]
       /\ running' = running \cup {c}
       /\ attempted' = [attempted EXCEPT ![c] = @ + 1]
       /\ Become(g, Sending({c}))
  /\ UNCHANGED <<meta, results, called, camunda, channels, cache, sent, answered, incidents, faults>>

-----------------------------------------------------------------------------
(* ProcessCommand: the parallel scheduler                                  *)

NoMoreRetries(g) == Limit # -1 /\ Limit < h[g].seen

ScheduleParallel(g) ==
  /\ RequestsBuilt(g) /\ Scheduler = "parallel"
  /\ Local(g, [h[g] EXCEPT
       !.pc = IF h[g].missing = {} \/ NoMoreRetries(g) THEN "clear" ELSE "setRetry",
       !.next = CASE ~NoMoreRetries(g) -> "setRetry"
                  [] NoMoreRetries(g) /\ h[g].got = {} -> "noResults"
                  [] OTHER -> "complete"])

\* mutants: the retries are counted down; set to the value that was fetched
SetRetryTo(g, n) ==
  /\ At(g, "setRetry")
  /\ retries' = [retries EXCEPT ![h[g].task] = n]
  /\ attempted' = [c \in SubTasks |-> IF c \in h[g].missing THEN attempted[c] + 1 ELSE attempted[c]]
  /\ Become(g, IF h[g].missing = {} THEN [h[g] EXCEPT !.pc = "complete"] ELSE Sending(h[g].missing))
  /\ UNCHANGED <<store, engine, output, locked, late, fetches, channels, cache, sent, answered, incidents, faults>>
SetRetryDown(g) == SetRetryTo(g, h[g].seen - 1)
SetRetryUnchanged(g) ==
  /\ At(g, "setRetry")
  /\ Local(g, IF h[g].missing = {} THEN [h[g] EXCEPT !.pc = "complete"] ELSE Sending(h[g].missing))

\* the retries of the engine are set to the fetched value plus one; errors are only logged
SetRetry(g) ==
  LET t == h[g].task IN
  /\ At(g, "setRetry")
  /\ \/ /\ engine[t] = "open"
        /\ retries' = [retries EXCEPT ![t] = h[g].seen + 1]
        /\ UNCHANGED faults
     \/ engine[t] # "open" /\ UNCHANGED <<retries, faults>>
     \/ Fault /\ UNCHANGED retries
  /\ attempted' = [c \in SubTasks |-> IF c \in h[g].missing THEN attempted[c] + 1 ELSE attempted[c]]
  /\ Become(g, IF Optimistic \/ h[g].missing = {} THEN [h[g] EXCEPT !.pc = "complete"]
               ELSE Sending(h[g].missing))
  /\ UNCHANGED <<store, engine, output, locked, late, fetches, channels, cache, sent, answered, incidents>>

-----------------------------------------------------------------------------
(* clearTaskData                                                           *)

\* mutants: only the data of the children, or of the parent, is cleared
ClearOnly(g, S) ==
  /\ At(g, "clear")
  /\ Local(g, IF h[g].task \in meta /\ S # {} THEN [h[g] EXCEPT !.pc = "deleteMeta", !.todo = S]
               ELSE [h[g] EXCEPT !.pc = h[g].next])
ClearChildren(g) == ClearOnly(g, Children(h[g].task))
ClearParent(g) == ClearOnly(g, {h[g].task})

\* the children in their order, then the parent; ststate.<id> is not deleted
ClearTaskData(g) ==
  LET t == h[g].task IN
  /\ At(g, "clear")
  /\ Local(g, IF t \in meta THEN [h[g] EXCEPT !.pc = "deleteMeta", !.todo = Children(t) \cup {t}]
               ELSE [h[g] EXCEPT !.pc = h[g].next])

DeleteMeta(g) ==
  /\ At(g, "deleteMeta")
  /\ \E x \in h[g].todo :
       /\ IsFirst(x, h[g].todo)
       /\ meta' = meta \ {x}
  /\ Become(g, [h[g] EXCEPT !.pc = "deleteResult"])
  /\ UNCHANGED <<results, tries, running, called, camunda, channels, cache, history, faults>>

\* result.<id> and lastcall.<id>: no handler reads both, so one step stands for the two
DeleteResult(g) ==
  /\ At(g, "deleteResult")
  /\ \E x \in h[g].todo :
       /\ IsFirst(x, h[g].todo)
       /\ results' = results \ {x}
       /\ called' = called \ {x}
       /\ Become(g, [h[g] EXCEPT !.todo = @ \ {x},
                                 !.pc = IF h[g].todo = {x} THEN h[g].next ELSE "deleteMeta"])
  /\ UNCHANGED <<meta, tries, running, camunda, channels, cache, history, faults>>

-----------------------------------------------------------------------------
(* Camunda.CompleteTask and the end of a task                              *)

\* "unable to get any results for device-group"
ReportNoResults(g) ==
  /\ At(g, "noResults")
  /\ Report(h[g].task, "no results")
  /\ Become(g, Resume(g))
  /\ UNCHANGED <<store, camunda, commands, answers, cache, attempted, sent, answered, faults>>

\* a completed task is done with, except that the optimistic strategy sends its commands now
AfterComplete(g) == IF Optimistic /\ h[g].role # "result" THEN Sending(h[g].missing) ELSE Resume(g)

CompleteCached(g) ==
  /\ At(g, "complete") /\ h[g].task \in cache
  /\ Local(g, AfterComplete(g))

CompleteAccepted(g) ==
  LET t == h[g].task IN
  /\ At(g, "complete") /\ t \notin cache /\ engine[t] = "open"
  /\ engine' = [engine EXCEPT ![t] = "completed"]
  /\ output' = [output EXCEPT ![t] = h[g].got]
  /\ cache' = cache \cup {t}
  /\ Become(g, AfterComplete(g))
  /\ UNCHANGED <<store, locked, retries, late, fetches, channels, history, faults>>

\* the engine refuses both requests: UnableToCompleteErrResp, an incident, and err.  An open
\* task is refused when it is locked for another worker id: of a second instance, or of this
\* one before a restart
CompleteRejected(g) ==
  /\ At(g, "complete") /\ h[g].task \notin cache
  /\ \/ engine[h[g].task] # "open" /\ UNCHANGED faults
     \/ engine[h[g].task] = "open" /\ Fault
  /\ Report(h[g].task, "complete")
  /\ Become(g, Resume(g))
  /\ UNCHANGED <<store, camunda, commands, answers, cache, attempted, sent, answered>>

\* mutant: the commands are sent although the task could not be completed
CompleteUnreachableSends(g) ==
  /\ At(g, "complete") /\ h[g].task \notin cache
  /\ Fault
  /\ Become(g, AfterComplete(g))
  /\ UNCHANGED <<store, camunda, channels, cache, history>>

\* no shard, or no request reaches the engine: err without an incident
CompleteUnreachable(g) ==
  /\ At(g, "complete") /\ h[g].task \notin cache
  /\ Fault
  /\ Become(g, Resume(g))
  /\ UNCHANGED <<store, camunda, channels, cache, history>>

\* the engine takes the first request, at once or when its client has given up, but its answer
\* is lost: it refuses the second one, or the second answer is lost as well
CompleteAnswerLost(g) ==
  LET t == h[g].task IN
  /\ At(g, "complete") /\ t \notin cache /\ engine[t] = "open"
  /\ Fault
  /\ \/ /\ engine' = [engine EXCEPT ![t] = "completed"]
        /\ output' = [output EXCEPT ![t] = h[g].got]
        /\ UNCHANGED late
     \/ late' = late \cup {<<t, h[g].got>>} /\ UNCHANGED <<engine, output>>
  /\ \/ Report(t, "complete")
     \/ UNCHANGED <<incidents, reported>>
  /\ Become(g, Resume(g))
  /\ UNCHANGED <<store, locked, retries, fetches, commands, answers, cache, attempted, sent, answered>>

-----------------------------------------------------------------------------
(* The messages of ExecuteCommand, and handleTaskResponse                  *)

\* mutant: an event is sent to its device like a command
ProduceCommandToEvent(g) ==
  /\ At(g, "send")
  /\ \E c \in h[g].rest :
       /\ IsFirst(c, h[g].rest)
       /\ commands' = commands \cup {c}
       /\ sent' = sent \cup {c}
       /\ Become(g, Sending(h[g].rest \ {c}))
  /\ UNCHANGED <<store, camunda, answers, reported, cache, attempted, answered, incidents, faults>>

\* an error of the producer is only logged
ProduceCommand(g) ==
  /\ At(g, "send")
  /\ \E c \in h[g].rest \ Events :
       /\ IsFirst(c, h[g].rest)
       /\ \/ /\ commands' = commands \cup {c}
             /\ sent' = sent \cup {c}
             /\ UNCHANGED faults
          \/ Fault /\ UNCHANGED <<commands, sent>>
       /\ Become(g, Sending(h[g].rest \ {c}))
  /\ UNCHANGED <<store, camunda, answers, reported, cache, attempted, answered, incidents>>

\* GetLastEventValue: a value is handled as a response, an error is only logged; the panic over
\* a short answer (CastColumn of EventValue) ends ExecuteTask and with it the loop
AskLastValue(g) ==
  /\ At(g, "send")
  /\ \E c \in h[g].rest \cap Events :
       /\ IsFirst(c, h[g].rest)
       /\ \/ Local(g, [Idle EXCEPT !.pc = "setResult", !.role = "result", !.sub = c,
                                    !.rest = h[g].rest \ {c}])
          \/ Local(g, Sending(h[g].rest \ {c}))
          \/ Local(g, Idle)

\* HandleTaskResponse: answers of the optimistic strategy are dropped
TakeResponse(g, c) ==
  /\ At(g, "idle") /\ c \in answers
  /\ Become(g, IF Optimistic THEN Idle
               ELSE [Idle EXCEPT !.pc = "setResult", !.role = "result", !.sub = c])
  /\ \/ answers' = answers \ {c} /\ UNCHANGED faults
     \/ Fault /\ UNCHANGED answers      \* delivered again
  /\ UNCHANGED <<store, camunda, commands, reported, cache, history>>

SetSubResult(g) ==
  /\ At(g, "setResult")
  /\ results' = results \cup {h[g].sub}
  /\ answered' = answered \cup {h[g].sub}
  /\ Become(g, [h[g] EXCEPT !.pc = "getMeta"])
  /\ UNCHANGED <<meta, tries, running, called, camunda, channels, cache, attempted, sent,
                 incidents, faults>>

\* "no parent task found": the group is cleared, nothing is done
OrphanResponse(g) ==
  /\ At(g, "getMeta") /\ h[g].role = "result" /\ h[g].sub \notin meta
  /\ Local(g, Resume(g))

\* mutant: the group is finished with its first result
FinishGroupEarly(g) ==
  /\ At(g, "getResults") /\ h[g].role = "result" /\ h[g].todo = {} /\ h[g].got # {}
  /\ Local(g, [h[g] EXCEPT !.pc = "clear", !.next = "complete"])

\* the last child has answered: clear, then complete
FinishGroup(g) ==
  /\ At(g, "getResults") /\ h[g].role = "result" /\ h[g].todo = {} /\ h[g].missing = {}
  /\ Local(g, [h[g] EXCEPT !.pc = "clear", !.next = "complete"])

\* otherwise the sequential schedulers execute the task of the parent again
ContinueGroup(g) ==
  /\ At(g, "getResults") /\ h[g].role = "result" /\ h[g].todo = {} /\ h[g].missing # {}
  /\ Local(g, IF Scheduler = "parallel" THEN Resume(g)
               ELSE [Idle EXCEPT !.pc = "execute", !.role = "response", !.task = h[g].task,
                                 !.rest = h[g].rest])

-----------------------------------------------------------------------------
(* Failures of the store and the end of the process                        *)

\* dbGet and dbSet give up after ten tries
StoreFails(g) ==
  /\ Memcached /\ Fault
  /\ \/ \* getLastCallInfo: the call is ignored; setSubResult, isFinished: err, only logged
        /\ \/ At(g, "execute") /\ Scheduler # "parallel" /\ h[g].role = "camunda"
           \/ At(g, "setResult")
           \/ At(g, "getMeta") /\ h[g].role = "result"
           \/ At(g, "getResults") /\ h[g].role = "result" /\ h[g].todo # {}
        /\ Become(g, Resume(g))
        /\ UNCHANGED <<incidents, reported>>
     \/ \* saveCallInfo: only logged
        /\ At(g, "save")
        /\ Become(g, [h[g] EXCEPT !.pc = "getMeta"])
        /\ UNCHANGED <<incidents, reported>>
     \/ \* getNextRequests, annotateSubTaskStates, updateSubTaskState: err of ProcessCommand
        /\ \/ (At(g, "getMeta") \/ At(g, "saveMeta")) /\ h[g].role # "result"
           \/ (At(g, "getResults") \/ At(g, "saveChildren")) /\ h[g].role # "result" /\ h[g].todo # {}
           \/ At(g, "annotate") /\ (h[g].todo # {} \/ FilterCurrentlyRunning(g) # {})
        /\ Report(h[g].task, "store")
        /\ Become(g, Resume(g))
     \/ \* clearTaskData gives up; a failed Delete leaves its key
        /\ \/ At(g, "clear") /\ Become(g, [h[g] EXCEPT !.pc = h[g].next])
           \/ At(g, "deleteMeta") /\ Become(g, [h[g] EXCEPT !.pc = "deleteResult"])
           \/ /\ At(g, "deleteResult")
              /\ \E x \in h[g].todo :
                   /\ IsFirst(x, h[g].todo)
                   /\ Become(g, [h[g] EXCEPT !.todo = @ \ {x},
                        !.pc = IF h[g].todo = {x} THEN h[g].next ELSE "deleteMeta"])
        /\ UNCHANGED <<incidents, reported>>
  /\ UNCHANGED <<store, camunda, commands, answers, cache, attempted, sent, answered>>

\* every goroutine and the completion cache are gone, with the LocalDb the store as well
Restart ==
  /\ Fault
  /\ h' = [g \in Handlers |-> Idle]
  /\ cache' = {}
  /\ IF Memcached THEN UNCHANGED store
     ELSE /\ meta' = {} /\ results' = {} /\ tries' = [c \in SubTasks |-> 0]
          /\ running' = {} /\ called' = {}
  /\ UNCHANGED <<camunda, channels, history>>

\* SubResultExpirationInSeconds
EntryExpires ==
  /\ Fault
  /\ \E x \in Ids :
       \/ meta' = meta \ {x} /\ UNCHANGED <<results, tries>>
       \/ results' = results \ {x} /\ UNCHANGED <<meta, tries>>
       \/ x \in SubTasks /\ tries' = [tries EXCEPT ![x] = 0] /\ UNCHANGED <<meta, results>>
  /\ UNCHANGED <<running, called, camunda, channels, h, cache, history>>

-----------------------------------------------------------------------------
(* Time                                                                    *)

TryTimesOut(c) ==
  /\ c \in running /\ running' = running \ {c}
  /\ UNCHANGED <<meta, results, tries, called, camunda, channels, h, cache, history, faults>>

CallTimesOut(t) ==
  /\ t \in called /\ called' = called \ {t}
  /\ UNCHANGED <<meta, results, tries, running, camunda, channels, h, cache, history, faults>>

CacheExpires(t) ==
  /\ t \in cache /\ cache' = cache \ {t}
  /\ UNCHANGED <<store, camunda, channels, h, history, faults>>

-----------------------------------------------------------------------------
(* External: the engine, the incident handler, the devices and the channels *)

LockExpires(t) ==
  /\ t \in locked /\ locked' = locked \ {t}
  /\ UNCHANGED <<store, engine, output, retries, late, fetches, channels, h, cache, history, faults>>

\* a request whose client has given up
LateComplete(t) ==
  /\ \E r \in late :
       /\ r[1] = t /\ late' = late \ {r}
       /\ IF engine[t] = "open"
          THEN engine' = [engine EXCEPT ![t] = "completed"] /\ output' = [output EXCEPT ![t] = r[2]]
          ELSE UNCHANGED <<engine, output>>
  /\ UNCHANGED <<store, locked, retries, fetches, channels, h, cache, history, faults>>

\* the process instance of an open task is stopped
HandleIncident(t) ==
  /\ t \in reported /\ reported' = reported \ {t}
  /\ engine' = IF engine[t] = "open" THEN [engine EXCEPT ![t] = "failed"] ELSE engine
  /\ UNCHANGED <<store, output, locked, retries, late, fetches, commands, answers, h, cache,
                 history, faults>>

LoseIncident(t) ==
  /\ t \in reported /\ Fault /\ reported' = reported \ {t}
  /\ UNCHANGED <<store, camunda, commands, answers, h, cache, history>>

DeviceAnswers(c) ==
  /\ c \in commands
  /\ commands' = commands \ {c} /\ answers' = answers \cup {c}
  /\ UNCHANGED <<store, camunda, reported, h, cache, history, faults>>

\* a refused unlock is only logged
UnlockTask(x) == locked' = locked \ {x}

\* the connector reports an error: ErrorMessageHandler unlocks the task with the id of the
\* sub task, which the engine knows only if it is the id of a task
DeviceFails(c) ==
  /\ c \in commands /\ commands' = commands \ {c}
  /\ UnlockTask(c)
  /\ UNCHANGED <<store, engine, output, retries, late, fetches, answers, reported, h, cache,
                 history, faults>>

\* also an answer that cannot be unmarshalled
LoseMessage(c) ==
  /\ \/ c \in commands /\ commands' = commands \ {c} /\ UNCHANGED answers
     \/ c \in answers /\ answers' = answers \ {c} /\ UNCHANGED commands
  /\ UNCHANGED <<store, camunda, reported, h, cache, history, faults>>

-----------------------------------------------------------------------------
Command(g) ==
  \/ RejectTask(g) \/ IgnoreTask(g) \/ AcceptTask(g) \/ SaveCallInfo(g)
  \/ FoundMeta(g) \/ SplitTask(g) \/ SaveParentMeta(g) \/ SaveChildMeta(g) \/ GetResult(g)
  \/ StartAnnotate(g) \/ AnnotateSubTaskState(g) \/ Exhausted(g) \/ NothingToSend(g) \/ UpdateSubTaskState(g)
  \/ ScheduleParallel(g) \/ SetRetry(g)
  \/ ClearTaskData(g) \/ DeleteMeta(g) \/ DeleteResult(g) \/ ReportNoResults(g)
  \/ CompleteCached(g) \/ CompleteAccepted(g) \/ CompleteRejected(g)
  \/ ProduceCommand(g) \/ AskLastValue(g)

Response(g) == SetSubResult(g) \/ OrphanResponse(g) \/ FinishGroup(g) \/ ContinueGroup(g)

Failure(g) == BuildFails(g) \/ CompleteUnreachable(g) \/ CompleteAnswerLost(g) \/ StoreFails(g)

Step(g) == Command(g) \/ Response(g)

Next ==
  \/ \E g \in Handlers : \/ \E t \in Tasks : Fetch(g, t)
                         \/ \E c \in SubTasks : TakeResponse(g, c)
                         \/ Step(g)
                         \/ Failure(g)
  \/ Restart \/ EntryExpires
  \/ \E t \in Tasks : \/ CallTimesOut(t) \/ CacheExpires(t) \/ LockExpires(t)
                      \/ LateComplete(t) \/ HandleIncident(t) \/ LoseIncident(t)
  \/ \E c \in SubTasks : TryTimesOut(c) \/ DeviceAnswers(c) \/ DeviceFails(c) \/ LoseMessage(c)

Safety == Init /\ [][Next]_vars

(* Goroutines run, deadlines pass, the engine offers a task whose lock has *)
(* expired again and again, and the incident handler reads its topic.      *)
(* Nothing is assumed of devices: a response may be late or never come.    *)
Spec ==
  /\ Safety
  /\ \A g \in Handlers : WF_vars(Step(g))
  /\ \A t \in Tasks : /\ SF_vars(\E g \in Handlers : Fetch(g, t))
                      /\ WF_vars(LockExpires(t)) /\ WF_vars(CallTimesOut(t))
                      /\ WF_vars(HandleIncident(t))
  /\ \A c \in SubTasks : WF_vars(TryTimesOut(c))

-----------------------------------------------------------------------------
PCs == {"idle", "execute", "save", "getMeta", "saveMeta", "saveChildren", "getResults", "annotate",
        "setRetry", "clear", "deleteMeta", "deleteResult", "noResults", "complete",
        "send", "setResult"}

HandlerState ==
  [pc : PCs, role : {"none", "camunda", "response", "result"},
   task : Tasks \cup {None}, sub : SubTasks \cup {None}, seen : Nat,
   todo : SUBSET Ids, got : SUBSET SubTasks, missing : SUBSET SubTasks, rest : SUBSET SubTasks,
   tries : [SubTasks -> Nat], fresh : SUBSET SubTasks,
   next : {"none", "setRetry", "noResults", "complete"}]

\* what an incident is reported for
Reasons == {"incident", "invalid", "request", "store", "no results", "complete"}

(* Types of the state. *)
TypeOK ==
  /\ meta \subseteq Ids /\ results \subseteq Ids /\ tries \in [SubTasks -> Nat]
  /\ running \subseteq SubTasks /\ called \subseteq Tasks
  /\ engine \in [Tasks -> {"open", "completed", "failed"}] /\ output \in [Tasks -> SUBSET SubTasks]
  /\ locked \subseteq Tasks /\ retries \in [Tasks -> Nat] /\ fetches \in [Tasks -> Nat]
  /\ late \subseteq Tasks \X SUBSET SubTasks
  /\ \A t \in Tasks : fetches[t] <= MaxFetches[t]
  /\ commands \subseteq SubTasks /\ answers \subseteq SubTasks /\ reported \subseteq Tasks
  /\ h \in [Handlers -> HandlerState] /\ cache \subseteq Tasks
  /\ attempted \in [SubTasks -> Nat] /\ sent \subseteq SubTasks /\ answered \subseteq SubTasks
  /\ incidents \subseteq Tasks \X Reasons
  /\ faults \in 0..MaxFaults

\* the worker may do without the result of a sub task that was tried Retries + 1 times; the
\* result of one that has answered may be lost with a restart or a clear
Spent(c) == c \in answered \/ (Limit # -1 /\ attempted[c] > Limit)

(* A pessimistic task is completed with results the devices gave, and one   *)
(* is left out only after every retry of its sub task.  Redeliveries,       *)
(* concurrent responses, restarts and partly cleared groups all complete    *)
(* tasks from what they find in the store.                                  *)
CompletionIsComplete ==
  ~Optimistic => \A t \in Tasks : engine[t] = "completed" =>
    /\ output[t] \subseteq answered \cap Children(t)
    /\ \A c \in Children(t) \ output[t] : Spent(c)

(* The worker gives up on a group only after all retries of all its sub     *)
(* tasks: no incident for a device that was never asked often enough.       *)
GivesUpAfterRetries ==
  \A t \in Tasks : <<t, "no results">> \in incidents => \A c \in Children(t) : Spent(c)

(* Sequential scheduling asks the devices of a group in their order, also   *)
(* when redelivered tasks and responses schedule the group concurrently.    *)
GroupOrder ==
  Scheduler = "sequential" =>
    \A c, d \in SubTasks : Parent[c] = Parent[d] /\ Pos[c] < Pos[d] /\ attempted[d] > 0
                             => attempted[c] > 0

(* Round robin retries a sub task only after every sibling had its turn.    *)
RoundRobinCoverage ==
  Scheduler = "round_robin" =>
    \A c, d \in SubTasks : Parent[c] = Parent[d] /\ tries[c] > 1 => attempted[d] > 0

(* The optimistic strategy never sends a command for a task the engine has  *)
(* not accepted as completed.                                               *)
CommandsFollowCompletion ==
  Optimistic => \A c \in sent : engine[Parent[c]] = "completed"

\* the goroutine has a task in hand; it has none while it stores a result or sends messages
Working(s) == s.pc \notin {"idle", "send", "setResult"} /\ ~(s.pc = "getMeta" /\ s.role = "result")

\* goroutines work side by side, but no two of them on the same task: its lock outlasts the work
\* on it, and its responses come one after the other.  The code does not ensure it
Separate ==
  \A g, k \in Handlers : g # k /\ Working(h[g]) /\ Working(h[k]) => h[g].task # h[k].task

Family(t) == Children(t) \cup {t}
Reported == {t \in Tasks : <<t, "no results">> \in incidents}

\* the failures that leave metadata behind: the engine completes a task whose client has given up,
\* clearTaskData cannot read the group or delete its metadata, the metadata of a task expires
Forgets ==
  \/ \E t \in Tasks : LateComplete(t)
  \/ \E g \in Handlers : (At(g, "clear") \/ At(g, "deleteMeta")) /\ StoreFails(g)
  \/ EntryExpires /\ \E t \in Tasks : t \in meta \ meta'

\* the failures that lose a count of tries
Uncounts == \E c \in SubTasks : tries'[c] < tries[c]

\* the failures that end the work on a task after its incident
Interrupts ==
  \/ \E g \in Handlers : Working(h[g]) /\ h[g].task \in Reported /\ Failure(g)
  \/ Restart /\ \E g \in Handlers : Working(h[g]) /\ h[g].task \in Reported

(* While no two goroutines work on the same task no sub task is tried more  *)
(* often than its command allows, whatever the order of redeliveries,       *)
(* timeouts and lost or late answers, and each failure lets its count begin *)
(* again at most once.                                                      *)
RetriesAreRespected ==
  Limit # -1 => \A c \in SubTasks : attempted[c] <= (faults + 1) * (Limit + 1)

(* While no two goroutines work on the same task, and unless a failure has  *)
(* kept it, a completed pessimistic task leaves no group metadata behind    *)
(* that a late response could act on.                                       *)
NoLeftovers ==
  ~Optimistic /\ (\A g \in Handlers : At(g, "idle"))
    => \A t \in Tasks : engine[t] = "completed" => meta \cap (Children(t) \cup {t}) = {}

(* Every task ends: it is completed or its process is stopped by an         *)
(* incident, although any answer may be lost, as long as the posts of       *)
(* commands and the logins return (what hangs is in WorkerProcess).         *)
EveryTaskEnds == \A t \in Tasks : <>(engine[t] # "open")

-----------------------------------------------------------------------------
(* Seen from the engine, the devices and the platform, with the store, the  *)
(* goroutines, the deliveries and the failures hidden, the worker takes     *)
(* only steps of its promise: nothing is sent to a device that was not      *)
(* asked, no result comes from a device without a command, a task is        *)
(* completed once and by what devices gave, and never after it was stopped. *)
Promise == INSTANCE TaskPromise WITH Ordered <- Scheduler = "sequential"

ImplementsTaskPromise == Promise!Spec

-----------------------------------------------------------------------------
(* Claims of the repository that the code does not always keep.             *)

(* "unable to get any results for device-group" (lib/devicegroups/          *)
(* devicegroups.go:122): a task reported with this reason has no results;   *)
(* it is not also completed with the results of its devices.                *)
OutcomesAgree == \A t \in Tasks : <<t, "no results">> \in incidents => output[t] = {}

(* "if optimistic: we have still to send the commands" (lib/worker.go:255): *)
(* the goroutine whose request completes the task in the engine goes on to  *)
(* send the commands of the task.                                           *)
OptimisticStillSends ==
  [][\A t \in Tasks : engine[t] = "open" /\ engine'[t] = "completed" =>
       \E g \in Handlers : h[g].task = t /\ h'[g] = Sending(h[g].missing)]_vars
=============================================================================
