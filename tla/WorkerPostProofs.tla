-------------------------- MODULE WorkerPostProofs --------------------------
(***************************************************************************)
(* WorkerProcess for any responses, posts, workers, shards, tasks and      *)
(* failures: the types of the state, what a connector may conclude from    *)
(* the answer to its post, and that a producer gives up nothing while its  *)
(* process runs.                                                           *)
(*                                                                         *)
(* The argument for the posts: what comes from Kafka are other responses   *)
(* than those that are posted (KafkaLeavesPosts).  A posted response is in *)
(* the queue, in a hand or lost only if its handler returned nil, and then *)
(* it is there or handled, whatever has become of its connection.  What an *)
(* error says is less: the handler may have done all of its work.          *)
(***************************************************************************)
EXTENDS WorkerProcessProofs

Kept(r) == r \in lost \cup InQueue \cup InHand
Taken(r) == r \in finished \/ Kept(r)

HttpTypes ==
  /\ server \in {"disabled", "stopped", "up", "closing"} /\ httpSync \in BOOLEAN
  /\ handler \in [Requests -> {"none", "running", "hung", "nil", "err", "gone"}]
  /\ status \in [Requests -> {"none", "ok", "bad", "broken"}]

PostInvariant ==
  /\ HttpTypes
  /\ \A r \in Requests :
       /\ handler[r] = "nil" => Taken(r)
       /\ Kept(r) => handler[r] = "nil"
       /\ status[r] = "ok" => handler[r] # "none" /\ (httpSync => handler[r] = "nil")
       /\ status[r] = "bad" => handler[r] \in {"none", "err"}

-----------------------------------------------------------------------------
(* What the queue and the hands hold after a step.                         *)

LEMMA HeldAfterEnqueue ==
  ASSUME IntakeInv, NEW m \in Responses, queue' = Append(queue, m), hand' = hand
  PROVE  InQueue' = InQueue \cup {m} /\ InHand' = InHand
<1>1. queue \in Seq(Responses)
  BY DEF IntakeInv
<1> QED BY <1>1, AppendElements DEF InQueue, InHand

LEMMA HeldAfterTake ==
  ASSUME IntakeInv, NEW w \in Workers, Take(w)
  PROVE  InQueue' \cup InHand' = InQueue \cup InHand
<1>1. /\ queue \in Seq(Responses) /\ hand \in [Workers -> 0..(Last + Posts)] /\ hand[w] = 0
      /\ queue # <<>> /\ hand' = [hand EXCEPT ![w] = Head(queue)] /\ queue' = Tail(queue)
  BY DEF IntakeInv, Take
<1>2. Head(queue) \in Responses
  BY <1>1, HeadTailProperties
<1>3. InQueue = {Head(queue)} \cup InQueue'
  <2>1. InQueue' = {Tail(queue)[i] : i \in DOMAIN Tail(queue)}
    BY <1>1 DEF InQueue
  <2> QED BY <1>1, <2>1, TailElements DEF InQueue
<1>4. InHand' = InHand \cup {Head(queue)}
  BY <1>1, <1>2, IntakeAssumption DEF InHand, Responses
<1> QED BY <1>3, <1>4

LEMMA HeldAfterFinish ==
  ASSUME IntakeInv, NEW w \in Workers, Finish(w)
  PROVE  /\ InQueue' = InQueue /\ InHand' \subseteq InHand
         /\ hand[w] \in InHand /\ InHand \subseteq InHand' \cup {hand[w]}
BY DEF IntakeInv, Finish, InQueue, InHand

-----------------------------------------------------------------------------
(* Posts.                                                                  *)

\* the steps of the consumer and of the queue neither keep another post nor let one go
LEMMA KafkaLeavesPosts ==
  ASSUME IntakeInv, IntakeNext, NEW r \in Requests
  PROVE  (Taken(r) => Taken(r)') /\ (Kept(r)' => Kept(r))
<1>1. /\ Last \in Nat /\ Posts \in Nat /\ r \in Int /\ r > Last
      /\ (consumer = "listen" => current \in Responses /\ current # r)
  BY IntakeAssumption DEF IntakeInv, Requests, Responses
<1>2. CASE \/ FetchMessage \/ ReaderClosed \/ HandleFails \/ EnqueueClosed \/ Commit \/ CommitCancelled
           \/ HandleHangs \/ Rebalance \/ CloseQueue \/ DropOldMessage \/ Handle
           \/ \E w \in Workers : HangWorker(w)
  <2>1. UNCHANGED <<lost, queue, hand>> /\ finished \subseteq finished'
    BY <1>2 DEF FetchMessage, ReaderClosed, HandleFails, EnqueueClosed, Commit, CommitCancelled, HandleHangs,
      HangWorker, PerhapsFinished, DropOldMessage, Handle, Rebalance, CloseQueue, history
  <2> QED BY <2>1 DEF Taken, Kept, InQueue, InHand
<1>3. CASE Enqueue
  <2>1. /\ UNCHANGED <<finished, lost>> /\ consumer = "listen"
        /\ queue' = Append(queue, current) /\ hand' = hand
    BY <1>3 DEF Enqueue, history
  <2> QED BY <1>1, <2>1, HeldAfterEnqueue DEF Taken, Kept
<1>4. ASSUME NEW w \in Workers, Take(w) PROVE (Taken(r) => Taken(r)') /\ (Kept(r)' => Kept(r))
  BY <1>4, HeldAfterTake DEF Taken, Kept, Take, history
<1>5. ASSUME NEW w \in Workers, Finish(w) PROVE (Taken(r) => Taken(r)') /\ (Kept(r)' => Kept(r))
  BY <1>5, HeldAfterFinish DEF Taken, Kept, Finish
<1> QED BY <1>2, <1>3, <1>4, <1>5 DEF IntakeNext, Consumer, QueueWorker

\* a step after which every post is where it was
LEMMA PostsStay ==
  ASSUME PostInvariant, UNCHANGED <<httpSync, handler, status>>, HttpTypes',
         \A r \in Requests : (Taken(r) => Taken(r)') /\ (Kept(r)' => Kept(r))
  PROVE  PostInvariant'
BY DEF PostInvariant

LEMMA HttpPosts ==
  ASSUME IntakeInv, PostInvariant, HttpNext
  PROVE  PostInvariant'
<1>1. Last \in Nat /\ Posts \in Nat /\ Requests \subseteq Responses
  BY IntakeAssumption DEF Requests, Responses
<1>2. CASE ShutdownServer
  <2>1. UNCHANGED <<finished, lost, queue, hand, httpSync, handler, status>> /\ HttpTypes'
    BY <1>2 DEF ShutdownServer, intakeVars, history, PostInvariant, HttpTypes
  <2> QED BY <2>1, PostsStay DEF Taken, Kept, InQueue, InHand
<1>3. ASSUME NEW r \in Requests, PostResponse(r) \/ RejectPost(r) \/ Answer(r) \/ WriteTimeout(r) \/ PostPanics(r)
      PROVE  PostInvariant'
  <2>1. \A q \in Requests : (Taken(q)' <=> Taken(q)) /\ (Kept(q)' <=> Kept(q))
    BY <1>3 DEF PostResponse, RejectPost, Answer, WriteTimeout, PostPanics, intakeVars, history,
      Taken, Kept, InQueue, InHand
  <2>2. HttpTypes'
    BY <1>3 DEF PostResponse, RejectPost, Answer, WriteTimeout, PostPanics, Returns, PostInvariant, HttpTypes
  <2>3. CASE PostResponse(r)
    BY <2>1, <2>2, <2>3 DEF PostResponse, PostInvariant, HttpTypes
  <2>4. CASE RejectPost(r)
    BY <2>1, <2>2, <2>4 DEF RejectPost, PostInvariant, HttpTypes
  <2>5. CASE Answer(r)
    BY <2>1, <2>2, <2>5 DEF Answer, PostInvariant, HttpTypes
  <2>6. CASE WriteTimeout(r)
    BY <2>1, <2>2, <2>6 DEF WriteTimeout, PostInvariant, HttpTypes
  <2>7. CASE PostPanics(r)
    BY <2>1, <2>2, <2>7 DEF PostPanics, NilHandlerPost, Returns, PostInvariant, HttpTypes
  <2> QED BY <1>3, <2>3, <2>4, <2>5, <2>6, <2>7
<1>4. ASSUME NEW r \in Requests, HandleRequest(r) \/ HandlePostHangs(r)
      PROVE  PostInvariant'
  <2>1. /\ UNCHANGED <<httpSync, status>> /\ HttpTypes' /\ handler[r] = "running"
        /\ \A q \in Requests \ {r} : handler'[q] = handler[q]
    BY <1>4 DEF HandleRequest, HandlePost, HandlePostHangs, EnqueuePost, EnqueuePostClosed, Returns,
      PostInvariant, HttpTypes
  <2>2. ~Kept(r)
    BY <2>1 DEF PostInvariant
  <2>3. /\ \A q \in Requests \ {r} : (Taken(q) => Taken(q)') /\ (Kept(q)' => Kept(q))
        /\ handler'[r] = "nil" => Taken(r)'
        /\ Kept(r)' => handler'[r] = "nil"
    <3>1. CASE HandlePost(r)
      <4>1. /\ finished \subseteq finished' /\ UNCHANGED <<lost, queue, hand>>
            /\ handler'[r] = "nil" => r \in finished'
        BY <3>1 DEF HandlePost, PerhapsFinished, Returns, PostInvariant, HttpTypes
      <4> QED BY <2>2, <4>1 DEF Taken, Kept, InQueue, InHand
    <3>2. CASE HandlePostHangs(r) \/ EnqueuePostClosed(r)
      <4>1. /\ finished \subseteq finished' /\ UNCHANGED <<lost, queue, hand>> /\ handler'[r] # "nil"
        BY <3>2 DEF HandlePostHangs, EnqueuePostClosed, PerhapsFinished, Returns, PostInvariant, HttpTypes
      <4> QED BY <2>2, <4>1 DEF Taken, Kept, InQueue, InHand
    <3>3. CASE EnqueuePost(r)
      <4>1. /\ UNCHANGED <<finished, lost>> /\ handler'[r] = "nil"
            /\ queue' = Append(queue, r) /\ hand' = hand
        BY <3>3 DEF EnqueuePost, history, Returns, PostInvariant, HttpTypes
      <4> QED BY <1>1, <4>1, HeldAfterEnqueue DEF Taken, Kept
    <3> QED BY <1>4, <3>1, <3>2, <3>3 DEF HandleRequest
  <2>4. handler'[r] # "none" /\ (status[r] = "ok" => ~httpSync) /\ status[r] # "bad"
    BY <1>4, <2>1 DEF HandleRequest, HandlePost, HandlePostHangs, EnqueuePost, EnqueuePostClosed, Returns,
      PostInvariant, HttpTypes
  <2> QED BY <2>1, <2>3, <2>4 DEF PostInvariant
<1> QED BY <1>2, <1>3, <1>4 DEF HttpNext

\* the end of the process: what it held is lost, and no handler is left
LEMMA EndPosts ==
  ASSUME PostInvariant, StopIntake, StopHttp
  PROVE  PostInvariant'
<1>1. /\ finished' = finished /\ queue' = <<>> /\ hand' = [w \in Workers |-> 0]
      /\ lost' = lost \cup {m \in (InQueue \cup InHand) \ finished : m <= committed \/ m \in Requests}
  BY DEF StopIntake
<1>2. InQueue' = {} /\ InHand' = {}
  BY <1>1 DEF InQueue, InHand
<1>3. \A r \in Requests : (Taken(r) => Taken(r)') /\ (Kept(r)' => Kept(r))
  BY <1>1, <1>2 DEF Taken, Kept
<1>4. HttpTypes'
  BY DEF StopHttp, PostInvariant, HttpTypes
<1> QED BY <1>3, <1>4 DEF StopHttp, PostInvariant, HttpTypes

LEMMA PostStep == ASSUME IntakeInv, PostInvariant, [Next]_vars PROVE PostInvariant'
<1>1. CASE IntakeNext /\ UNCHANGED httpVars
  BY <1>1, KafkaLeavesPosts, PostsStay DEF httpVars, PostInvariant, HttpTypes
<1>2. CASE HttpNext
  BY <1>2, HttpPosts
<1>3. CASE StartIntake /\ StartHttp
  <2>1. UNCHANGED <<finished, lost, queue, hand, httpSync, handler, status>> /\ HttpTypes'
    BY <1>3 DEF StartIntake, StartHttp, history, PostInvariant, HttpTypes
  <2> QED BY <2>1, PostsStay DEF Taken, Kept, InQueue, InHand
<1>4. CASE StopIntake /\ StopHttp
  BY <1>4, EndPosts
<1>5. CASE UNCHANGED <<intakeVars, httpVars>>
  <2>1. UNCHANGED <<finished, lost, queue, hand, httpSync, handler, status>> /\ HttpTypes'
    BY <1>5 DEF intakeVars, httpVars, history, PostInvariant, HttpTypes
  <2> QED BY <2>1, PostsStay DEF Taken, Kept, InQueue, InHand
<1> QED BY <1>1, <1>2, <1>3, <1>4, <1>5
  DEF Next, Start, Ready, Shutdown, Exit, Crash, NilPanic, EndsByMap, EndsByProducer, EndsByIncident,
      Ends, Intake, Http, Pipeline, Output, vars

LEMMA PostInit == Init => PostInvariant
<1> SUFFICES ASSUME Init PROVE PostInvariant
  OBVIOUS
<1>1. InQueue = {} /\ InHand = {} /\ finished = 1..committed /\ lost = {} /\ committed \in 0..Last
  BY DEF Init, IntakeInit, InQueue, InHand
<1>2. \A r \in Requests : ~Taken(r)
  BY <1>1, IntakeAssumption DEF Taken, Kept, Requests
<1> QED BY <1>2 DEF Init, Taken, HttpInit, PostInvariant, HttpTypes

(* Posts are where the invariant says in every state that is reached. *)
LEMMA PostInvariance == Safety => []PostInvariant
<1>1. Init => IntakeInv /\ PostInvariant
  BY IntakeInit1, PostInit
<1>2. IntakeInv /\ PostInvariant /\ [Next]_vars => (IntakeInv /\ PostInvariant)'
  BY IntakeStep, PostStep
<1> QED BY <1>1, <1>2, PTL DEF Safety

(* A post that is answered with 200 (lib/com/httpcommand/rest.go:53-70) is handled, held by *)
(* the queue or lost with its process; without HttpCommandConsumerSync it may also still run  *)
(* or hang, or have ended without a connector that waits for it.                              *)
THEOREM AcceptedPosts == Safety => []AcceptedPostIsHeld
<1>1. PostInvariant => AcceptedPostIsHeld
  BY DEF PostInvariant, HttpTypes, AcceptedPostIsHeld, Taken, Kept
<1> QED BY <1>1, PostInvariance, PTL

(* A post that is answered with 400 may be sent again without being handled twice at a time:  *)
(* its response is not queued, not in a hand and not lost with a process, and no goroutine    *)
(* works on it any more (lib/com/httpcommand/rest.go:53-70, lib/worker.go:307-332).  What the *)
(* handler has done before its error may have taken effect (lib/worker.go:394-431).           *)
THEOREM RejectedPosts == Safety => []RejectedPostIsFree
<1>1. PostInvariant => RejectedPostIsFree
  BY DEF PostInvariant, HttpTypes, RejectedPostIsFree, Kept
<1> QED BY <1>1, PostInvariance, PTL

-----------------------------------------------------------------------------
(* Types.                                                                  *)

PhaseTypes ==
  phase \in {"down", "starting", "running", "stopping"} /\ faults \in 0..MaxFaults

IntakeTypes ==
  /\ queued \in BOOLEAN /\ closed \in BOOLEAN
  /\ consumer \in {"disabled", "stopped", "fetch", "listen", "commit", "hung"} /\ stuck \subseteq Workers
  /\ finished \cup refused \cup lost \subseteq Responses

ChannelTypes ==
  /\ locked \subseteq Tasks /\ errors \in 0..ChannelSize /\ tasksClosed \in BOOLEAN
  /\ returned \in BOOLEAN /\ received \subseteq Tasks /\ executed \subseteq Tasks
  /\ stalled \in [BatchWorkers -> SUBSET Tasks]

OutputTypes ==
  /\ sync \in BOOLEAN /\ initTopics \in BOOLEAN /\ producer \in {"none", "open", "closing", "closed"}
  /\ topics \subseteq Topics
  /\ buffer \cup failed \cup delivered \cup dropped \subseteq Commands
  /\ \A c \in buffer : TopicOf[c] \notin HttpTopics

\* with what the invariants of the parts say of their types
LEMMA AllTypes ==
  ASSUME PhaseTypes, IntakeTypes, IntakeInv, HttpTypes, ChannelTypes, PipelineTypes, OutputTypes, OutputInv
  PROVE  TypeOK
<1>1. /\ Last \in Nat /\ Posts \in Nat /\ Responses = 1..(Last + Posts)
      /\ committed \in 0..Last /\ position \in 0..Last /\ current \in 0..Last
  BY IntakeAssumption DEF IntakeInv, Responses
<1>2. Offsets \cup Requests = Responses
  BY <1>1 DEF Offsets, Requests
<1>3. usedTopics \subseteq Topics
  BY DEF OutputTypes, OutputInv, KnownTopicsExist
<1> QED BY <1>1, <1>2, <1>3
  DEF TypeOK, PhaseTypes, IntakeTypes, IntakeInv, HttpTypes, ChannelTypes, PipelineTypes, OutputTypes, OutputInv

\* a step is a failure of its own, or none
LEMMA FaultOfAStep == ASSUME [Next]_vars PROVE faults' = faults \/ Fault
<1>1. IntakeNext => faults' = faults \/ Fault
  BY DEF IntakeNext, Consumer, QueueWorker, FetchMessage, ReaderClosed, DropOldMessage, Handle, HandleFails,
    Enqueue, EnqueueClosed, Commit, CommitCancelled, Rebalance, CloseQueue, Take, Finish, HandleHangs, HangWorker
<1>2. HttpNext => faults' = faults \/ Fault
  BY DEF HttpNext, HandleRequest, ShutdownServer, PostResponse, RejectPost, PostPanics, Answer, WriteTimeout,
    HandlePost, HandlePostHangs, EnqueuePost, EnqueuePostClosed
<1>3. PipelineNext => faults' = faults \/ Fault
  BY DEF PipelineNext, Provide, Run, FetchTasks, FetchFails, SendError, SendBatch, CloseChannels, LogError,
    LoopReturns, TakeBatch, RunTask, HangTask, LockExpires
<1>4. OutputNext => faults' = faults \/ Fault
  BY DEF OutputNext, Send, Broker, CloseProducer, CloseInput, Produce, LookupTopic, CreateTopic, MarkTopic,
    SendSync, SendAsync, SendPanics, Post, Flush, FlushFails, CloseReadsError
<1> QED BY <1>1, <1>2, <1>3, <1>4
  DEF Next, Start, Ready, Shutdown, Exit, Crash, NilPanic, EndsByMap, EndsByProducer, EndsByIncident,
      Intake, Http, Pipeline, Output, vars

LEMMA PhaseStep == ASSUME PhaseTypes, [Next]_vars PROVE PhaseTypes'
<1>1. faults' \in 0..MaxFaults
  BY FaultOfAStep, FaultsAssumption DEF PhaseTypes, Fault
<1>2. phase' \in {"down", "starting", "running", "stopping"}
  <2>1. (IntakeNext \/ HttpNext \/ OutputNext \/ PipelineNext \/ UNCHANGED vars) => phase' = phase
    BY PhaseOfAStep DEF vars
  <2>2. Start \/ Ready \/ Shutdown \/ Ends \/ IntakeNext \/ HttpNext \/ OutputNext \/ PipelineNext
        \/ UNCHANGED vars
    BY StepParts
  <2> QED BY <2>1, <2>2 DEF PhaseTypes, Start, Ready, Shutdown, Ends
<1> QED BY <1>1, <1>2 DEF PhaseTypes

LEMMA IntakeTypesStep == ASSUME IntakeInv, IntakeTypes, [Next]_vars PROVE IntakeTypes'
<1>1. /\ Last \in Nat /\ Posts \in Nat /\ Requests \subseteq Responses
      /\ (consumer = "listen" => current \in Responses)
  BY IntakeAssumption DEF IntakeInv, Requests, Responses
<1>2. /\ InQueue \subseteq Responses /\ \A w \in Workers : hand[w] # 0 => hand[w] \in Responses
      /\ InHand \subseteq Responses
  <2>1. queue \in Seq(Responses) /\ hand \in [Workers -> 0..(Last + Posts)]
    BY DEF IntakeInv
  <2> QED BY <1>1, <2>1 DEF InQueue, InHand, Responses
<1>3. CASE IntakeNext
  BY <1>1, <1>2, <1>3
  DEF IntakeTypes, IntakeNext, Consumer, QueueWorker, FetchMessage, ReaderClosed, DropOldMessage, Handle,
      HandleFails, Enqueue, EnqueueClosed, Commit, CommitCancelled, Rebalance, CloseQueue, Take, Finish,
      HandleHangs, HangWorker, PerhapsFinished, Again, history
<1>4. CASE HttpNext
  BY <1>1, <1>4
  DEF IntakeTypes, HttpNext, HandleRequest, ShutdownServer, PostResponse, RejectPost, PostPanics, Answer,
      WriteTimeout, HandlePost, HandlePostHangs, EnqueuePost, EnqueuePostClosed, PerhapsFinished, intakeVars,
      history
<1>5. CASE StartIntake \/ StopIntake \/ UNCHANGED intakeVars
  <2>1. queued' \in BOOLEAN /\ closed' \in BOOLEAN
    <3>1. (Cardinality(Workers) > 1) \in BOOLEAN
      BY SMT
    <3> QED BY <1>5, <3>1, Zenon DEF IntakeTypes, StartIntake, StopIntake, intakeVars
  <2>2. consumer' \in {"disabled", "stopped", "fetch", "listen", "commit", "hung"} /\ stuck' \subseteq Workers
    BY <1>5 DEF IntakeTypes, StartIntake, StopIntake, intakeVars
  <2>3. finished' \cup refused' \cup lost' \subseteq Responses
    BY <1>2, <1>5 DEF IntakeTypes, StartIntake, StopIntake, intakeVars, history
  <2> QED BY <2>1, <2>2, <2>3 DEF IntakeTypes
<1> QED BY <1>3, <1>4, <1>5, StepParts

LEMMA ChannelTypesStep == ASSUME PipelineInv, ChannelTypes, [Next]_vars PROVE ChannelTypes'
<1>1. \A s \in Shards : Free(s) \subseteq Tasks
  BY DEF PipelineInv, PipelineTypes, Free
<1>2. ChannelSize \in Nat
  BY PipelineAssumption
<1>3. ASSUME NEW s \in Shards, FetchTasks(s) \/ FetchFails(s)
      PROVE  ChannelTypes'
  <2>1. /\ UNCHANGED <<errors, tasksClosed, returned, executed, stalled>>
        /\ \E B \in SUBSET Free(s) : locked' = locked \cup B /\ received' \in {received, received \cup B}
    BY <1>3 DEF FetchTasks, FetchFails
  <2> QED BY <1>1, <2>1 DEF ChannelTypes
<1>4. ASSUME NEW s \in Shards, SendError(s) \/ SendBatch(s)
      PROVE  ChannelTypes'
  <2>1. /\ UNCHANGED <<locked, tasksClosed, returned, received, executed, stalled>>
        /\ errors' = errors \/ (errors < ChannelSize /\ errors' = errors + 1)
    BY <1>4 DEF SendError, SendBatch
  <2> QED BY <1>2, <2>1 DEF ChannelTypes
<1>5. ASSUME NEW b \in BatchWorkers, Run(b) \/ \E t \in Tasks : HangTask(b, t)
      PROVE  ChannelTypes'
  BY <1>5 DEF ChannelTypes, Run, TakeBatch, RunTask, HangTask
<1>6. CASE CloseChannels \/ LogError \/ LoopReturns \/ \E t \in Tasks : LockExpires(t)
  <2>1. tasksClosed' \in BOOLEAN /\ returned' \in BOOLEAN
    BY <1>6 DEF ChannelTypes, CloseChannels, LogError, LoopReturns, LockExpires
  <2>2. UNCHANGED <<received, executed, stalled>> /\ errors' \in 0..ChannelSize /\ locked' \subseteq Tasks
    BY <1>2, <1>6 DEF ChannelTypes, CloseChannels, LogError, LoopReturns, LockExpires
  <2> QED BY <2>1, <2>2 DEF ChannelTypes
<1>7. CASE UNCHANGED pipelineVars
  BY <1>7 DEF ChannelTypes, pipelineVars
<1>8. CASE StartPipeline \/ StopPipeline
  <2>1. tasksClosed' \in BOOLEAN /\ returned' \in BOOLEAN
    BY <1>8 DEF ChannelTypes, StartPipeline, StopPipeline
  <2>2. errors' \in 0..ChannelSize /\ locked' = locked /\ received' \subseteq Tasks /\ executed' \subseteq Tasks
        /\ stalled' \in [BatchWorkers -> SUBSET Tasks]
    BY <1>2, <1>8 DEF ChannelTypes, StartPipeline, StopPipeline
  <2> QED BY <2>1, <2>2 DEF ChannelTypes
<1>9. PipelineNext \/ StartPipeline \/ StopPipeline \/ UNCHANGED pipelineVars
  BY DEF Next, Start, Ready, Shutdown, Exit, Crash, NilPanic, EndsByMap, EndsByProducer, EndsByIncident,
      Ends, Intake, Http, Pipeline, Output, vars
<1> QED BY <1>3, <1>4, <1>5, <1>6, <1>7, <1>8, <1>9 DEF PipelineNext, Provide

LEMMA OutputTypesStep == ASSUME OutputInv, OutputTypes, [Next]_vars PROVE OutputTypes'
<1>1. \A c \in Commands : TopicOf[c] \notin HttpTopics => TopicOf[c] \in Topics
  BY DEF Topics
<1>2. ASSUME NEW c \in Commands, Send(c)
      PROVE  OutputTypes'
  <2>1. CASE Produce(c) \/ LookupTopic(c) \/ SendPanics(c)
    BY <2>1 DEF OutputTypes, Produce, LookupTopic, SendPanics
  <2>2. CASE CreateTopic(c) \/ MarkTopic(c) \/ SendSync(c)
    <3>1. /\ sender[c] \in {"lookup", "create", "mark", "send"}
          /\ topics' \in {topics, topics \cup {TopicOf[c]}} /\ delivered' \in {delivered, delivered \cup {c}}
          /\ UNCHANGED <<sync, initTopics, producer, buffer, failed, dropped>>
      BY <2>2 DEF CreateTopic, MarkTopic, SendSync, Deliver
    <3>2. TopicOf[c] \in Topics
      BY <1>1, <3>1 DEF OutputInv
    <3> QED BY <3>1, <3>2 DEF OutputTypes
  <2>3. CASE SendAsync(c)
    <3>1. TopicOf[c] \notin HttpTopics
      BY <2>3 DEF SendAsync, OutputInv
    <3> QED BY <2>3, <3>1 DEF OutputTypes, SendAsync
  <2>4. CASE Post(c)
    BY <2>4 DEF OutputTypes, Post
  <2> QED BY <1>2, <2>1, <2>2, <2>3, <2>4 DEF Send
<1>3. ASSUME NEW c \in Commands, Broker(c)
      PROVE  OutputTypes'
  BY <1>1, <1>3 DEF OutputTypes, Broker, Flush, FlushFails, CloseReadsError, Deliver
<1>4. CASE CloseProducer \/ CloseInput
  BY <1>4 DEF OutputTypes, CloseProducer, CloseInput
<1>5. CASE StartOutput \/ StopOutput
  BY <1>5 DEF OutputTypes, StartOutput, StopOutput
<1>6. CASE UNCHANGED outputVars
  BY <1>6 DEF OutputTypes, outputVars
<1>7. OutputNext \/ StartOutput \/ StopOutput \/ UNCHANGED outputVars
  BY DEF Next, Start, Ready, Shutdown, Exit, Crash, NilPanic, EndsByMap, EndsByProducer, EndsByIncident,
      Ends, Intake, Http, Pipeline, Output, vars
<1> QED BY <1>2, <1>3, <1>4, <1>5, <1>6, <1>7 DEF OutputNext

LEMMA TypesInit == Init => PhaseTypes /\ IntakeTypes /\ ChannelTypes /\ OutputTypes
<1> SUFFICES ASSUME Init PROVE PhaseTypes /\ IntakeTypes /\ ChannelTypes /\ OutputTypes
  OBVIOUS
<1>1. PhaseTypes
  BY FaultsAssumption DEF Init, PhaseTypes
<1>2. IntakeTypes
  <2>1. queued \in BOOLEAN /\ closed \in BOOLEAN
    BY DEF Init, IntakeInit
  <2>2. finished \cup refused \cup lost \subseteq Responses
    BY IntakeAssumption DEF Init, IntakeInit, Responses
  <2> QED BY <2>1, <2>2 DEF Init, IntakeInit, IntakeTypes
<1>3. ChannelTypes
  <2>1. tasksClosed \in BOOLEAN /\ returned \in BOOLEAN
    BY DEF Init, PipelineInit
  <2>2. errors \in 0..ChannelSize
    BY PipelineAssumption DEF Init, PipelineInit
  <2> QED BY <2>1, <2>2 DEF Init, PipelineInit, ChannelTypes
<1>4. OutputTypes
  BY DEF Init, OutputInit, OutputTypes, Topics
<1> QED BY <1>1, <1>2, <1>3, <1>4

(* The state of a process has its types: the queue holds only responses,    *)
(* errChan no more than ChannelSize errors, and a topic of Kafka is never   *)
(* the address of a HTTP producer (lib/com/comswitch).                      *)
THEOREM ProcessTypes == Safety => []TypeOK
<1> DEFINE Types == /\ PhaseTypes /\ IntakeTypes /\ IntakeInv /\ PostInvariant
                    /\ ChannelTypes /\ PipelineInv /\ OutputTypes /\ OutputInv
<1>1. Init => Types
  BY TypesInit, IntakeInit1, PostInit, PipelineInit1, OutputInit1
<1>2. Types /\ [Next]_vars => Types'
  BY PhaseStep, IntakeTypesStep, IntakeStep, PostStep, ChannelTypesStep, PipelineStep, OutputTypesStep,
     OutputStep
<1>3. Types => TypeOK
  BY AllTypes DEF PostInvariant, PipelineInv
<1> HIDE DEF Types
<1> QED BY <1>1, <1>2, <1>3, PTL DEF Safety

-----------------------------------------------------------------------------
(* What a producer gives up.                                               *)

\* Close is only called once ctx is done
ClosesWithContext == producer \in {"closing", "closed"} => phase = "stopping"

LEMMA CloseStep == ASSUME ClosesWithContext, [Next]_vars PROVE ClosesWithContext'
<1>1. CASE (IntakeNext \/ HttpNext \/ PipelineNext) /\ UNCHANGED outputVars
  BY <1>1, PhaseOfAStep DEF ClosesWithContext, outputVars
<1>2. CASE OutputNext
  <2>1. ASSUME NEW c \in Commands, Send(c) \/ Broker(c)
        PROVE  producer' = producer
    BY <2>1 DEF Send, Broker, Produce, LookupTopic, CreateTopic, MarkTopic, SendSync, SendAsync, SendPanics,
      Post, Flush, FlushFails, CloseReadsError
  <2> QED BY <1>2, <2>1, PhaseOfAStep DEF OutputNext, ClosesWithContext, CloseProducer, CloseInput
<1>3. CASE Start \/ Shutdown
  BY <1>3 DEF ClosesWithContext, Start, Shutdown, outputVars
<1>4. CASE StartOutput \/ StopOutput
  BY <1>4 DEF ClosesWithContext, StartOutput, StopOutput
<1>5. CASE UNCHANGED vars
  BY <1>5 DEF ClosesWithContext, vars, outputVars
<1> QED BY <1>1, <1>2, <1>3, <1>4, <1>5
  DEF Next, Ready, Exit, Crash, NilPanic, EndsByMap, EndsByProducer, EndsByIncident,
      Ends, Intake, Http, Pipeline, Output

LEMMA DropsOfAStep ==
  ASSUME ClosesWithContext, [Next]_vars
  PROVE  dropped' # dropped => phase = "stopping" \/ phase' = "down"
<1>1. CASE OutputNext
  BY <1>1 DEF ClosesWithContext, OutputNext, CloseProducer, CloseInput, Send, Broker, Produce, LookupTopic,
    CreateTopic, MarkTopic, SendSync, SendAsync, SendPanics, Post, Flush, FlushFails, CloseReadsError
<1>2. OutputNext \/ phase' = "down" \/ StartOutput \/ UNCHANGED outputVars
  BY DEF Next, Start, Ready, Shutdown, Exit, Crash, NilPanic, EndsByMap, EndsByProducer, EndsByIncident,
    Ends, Intake, Http, Pipeline, Output, vars
<1> QED BY <1>1, <1>2 DEF StartOutput, outputVars

(* Only a signal or the end of the process makes a producer give up a       *)
(* command that ProduceWithKey has accepted: while the process runs, the    *)
(* goroutine that reads the errors of the async producer                    *)
(* (lib/com/kafka/producer.go:132-147) does not drop one silently.          *)
THEOREM NothingIsLostSilently == Safety => NoSilentLoss
<1>1. Init => ClosesWithContext
  BY DEF Init, OutputInit, ClosesWithContext
<1>2. Safety => []ClosesWithContext
  BY <1>1, CloseStep, PTL DEF Safety
<1>3. ClosesWithContext /\ [Next]_vars => [dropped' # dropped => phase = "stopping" \/ phase' = "down"]_vars
  BY DropsOfAStep
<1> QED BY <1>2, <1>3, PTL DEF Safety, NoSilentLoss
=============================================================================
