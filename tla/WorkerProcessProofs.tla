------------------------ MODULE WorkerProcessProofs ------------------------
(***************************************************************************)
(* WorkerProcess for any responses, workers, shards, tasks and failures:   *)
(* a committed response is never forgotten, the end of a process loses no  *)
(* more than its queue and workers hold, Loop returns only when every      *)
(* received task is executed, no goroutine can send on a closed channel,   *)
(* and an accepted command exists or is accounted for.  The parts share    *)
(* little, so each has an invariant of its own that the steps of the       *)
(* others leave alone.                                                     *)
(***************************************************************************)
EXTENDS WorkerProcess, SequenceTheorems, FiniteSetTheorems, TLAPS

Accounted(m) == m \in finished \cup refused \cup lost \cup InQueue \cup InHand

\* responses from Kafka and posted ones
Responses == 1..(Last + Posts)

\* the reader never forgets a message it has passed, except the one its listener works on;
\* after a rebalance it may be behind the message that is still to be committed
IntakeInv ==
  /\ committed \in 0..Last /\ position \in 0..Last /\ current \in 0..Last
  /\ queue \in Seq(Responses) /\ hand \in [Workers -> 0..(Last + Posts)]
  /\ ResponsesAreAccounted
  /\ consumer \in {"listen", "commit", "hung"} =>
       current > 0 /\ \A m \in 1..current : Accounted(m) \/ (consumer # "commit" /\ m = current)
  /\ consumer \notin {"stopped", "disabled"} =>
       \A m \in 1..position : Accounted(m) \/ (consumer \in {"listen", "hung"} /\ m = current)

\* what a process holds of the responses: nothing without a queue or when it is down
LossInv ==
  /\ Len(queue) <= QueueSize
  /\ ~queued => queue = <<>> /\ InHand = {}
  /\ phase = "down" =>
       /\ queue = <<>> /\ InHand = {} /\ consumer \in {"stopped", "disabled"}
       /\ server \in {"stopped", "disabled"} /\ \A r \in Requests : handler[r] # "running"

\* where a received task is until it is executed
InChannel == UNION {channel[i] : i \in DOMAIN channel}
Held(t) ==
  \/ t \in executed \/ t \in InChannel
  \/ \E s \in Shards : At(s, "send") /\ t \in fetcher[s].batch
  \/ \E b \in BatchWorkers : t \in loop[b]

PipelineTypes ==
  /\ open \subseteq Tasks
  /\ channel \in Seq(SUBSET Tasks) /\ loop \in [BatchWorkers -> SUBSET Tasks]
  /\ fetcher \in [Shards -> [pc : {"stopped", "fetch", "report", "send"}, attempt : Nat,
                             batch : SUBSET Tasks]]

PipelineInv ==
  /\ PipelineTypes
  /\ phase \in {"running", "stopping"} => \A t \in received : Held(t)
  /\ tasksClosed => phase = "stopping"
  /\ NoSendAfterClose
  /\ returned => tasksClosed /\ channel = <<>> /\ \A b \in BatchWorkers : loop[b] = {}

-----------------------------------------------------------------------------
(* The elements of a sequence, without its head and with a new last one. *)
LEMMA TailElements ==
  ASSUME NEW S, NEW q \in Seq(S), q # <<>>
  PROVE  {q[i] : i \in DOMAIN q} = {Head(q)} \cup {Tail(q)[i] : i \in DOMAIN Tail(q)}
<1>1. /\ Tail(q) \in Seq(S) /\ Len(q) \in Nat /\ Len(q) > 0 /\ Len(Tail(q)) = Len(q) - 1
      /\ DOMAIN q = 1..Len(q) /\ DOMAIN Tail(q) = 1..(Len(q) - 1)
      /\ \A i \in 1..(Len(q) - 1) : Tail(q)[i] = q[i + 1]
      /\ Head(q) = q[1]
  BY HeadTailProperties
<1>2. \A i \in DOMAIN q : i = 1 \/ (i - 1 \in DOMAIN Tail(q) /\ q[i] = Tail(q)[i - 1])
  BY <1>1
<1>3. \A i \in DOMAIN Tail(q) : i + 1 \in DOMAIN q /\ q[i + 1] = Tail(q)[i]
  BY <1>1
<1>4. 1 \in DOMAIN q
  BY <1>1
<1> QED BY <1>1, <1>2, <1>3, <1>4

LEMMA AppendElements ==
  ASSUME NEW S, NEW q \in Seq(S), NEW e \in S
  PROVE  {Append(q, e)[i] : i \in DOMAIN Append(q, e)} = {q[i] : i \in DOMAIN q} \cup {e}
<1>1. /\ Len(q) \in Nat /\ DOMAIN q = 1..Len(q) /\ DOMAIN Append(q, e) = 1..(Len(q) + 1)
      /\ \A i \in 1..Len(q) : Append(q, e)[i] = q[i]
      /\ Append(q, e)[Len(q) + 1] = e
  BY AppendProperties
<1>2. \A i \in DOMAIN Append(q, e) : i \in DOMAIN q \/ i = Len(q) + 1
  BY <1>1
<1>3. \A i \in DOMAIN q : i \in DOMAIN Append(q, e)
  BY <1>1
<1>4. Len(q) + 1 \in DOMAIN Append(q, e)
  BY <1>1
<1> QED BY <1>1, <1>2, <1>3, <1>4

-----------------------------------------------------------------------------
(* Responses.                                                              *)

\* a step of the consumer that forgets nothing
LEMMA NothingForgotten ==
  ASSUME IntakeInv, UNCHANGED <<committed, position, current>>,
         queue' \in Seq(Responses), hand' \in [Workers -> 0..(Last + Posts)],
         \A m : Accounted(m) => Accounted(m)',
         \/ consumer \in {"fetch", "listen", "commit"} /\ consumer' \in {"stopped", "fetch"}
              /\ (consumer = "listen" => Accounted(current)')
         \/ consumer = "listen" /\ consumer' = "commit" /\ Accounted(current)'
         \/ consumer = "listen" /\ consumer' = "hung"
  PROVE  IntakeInv'
<1>1. ResponsesAreAccounted'
  BY DEF IntakeInv, ResponsesAreAccounted, Accounted
<1>2. CASE consumer = "listen"
  BY <1>1, <1>2 DEF IntakeInv
<1>3. CASE consumer \in {"fetch", "commit"}
  BY <1>1, <1>3 DEF IntakeInv
<1> QED BY <1>2, <1>3

LEMMA ConsumerInv ==
  ASSUME IntakeInv, Consumer \/ HandleHangs
  PROVE  IntakeInv'
<1>0. Last \in Nat /\ Posts \in Nat /\ queue \in Seq(Responses) /\ hand \in [Workers -> 0..(Last + Posts)]
  BY IntakeAssumption DEF IntakeInv
<1>1. CASE FetchMessage
  <2>1. UNCHANGED <<committed, queue, hand, finished, refused, lost>> /\ position' = position + 1
        /\ current' = position + 1 /\ consumer' = "listen" /\ consumer = "fetch" /\ position < Last
    BY <1>1 DEF FetchMessage, history
  <2>2. \A m : Accounted(m)' <=> Accounted(m)
    BY <2>1 DEF Accounted, InQueue, InHand
  <2>3. \A m \in 1..position' : Accounted(m)' \/ m = current'
    BY <2>1, <2>2, <1>0 DEF IntakeInv
  <2> QED BY <2>1, <2>2, <2>3, <1>0 DEF IntakeInv, ResponsesAreAccounted, Accounted
<1>2. CASE ReaderClosed \/ CommitCancelled
  <2>1. /\ UNCHANGED <<committed, position, current, queue, hand, finished, refused, lost>>
        /\ consumer' = "stopped" /\ consumer \in {"fetch", "commit"}
    BY <1>2 DEF ReaderClosed, CommitCancelled, history
  <2>2. \A m : Accounted(m) => Accounted(m)'
    BY <2>1 DEF Accounted, InQueue, InHand
  <2> QED BY <1>0, <2>1, <2>2, NothingForgotten
<1>3. CASE DropOldMessage \/ Handle \/ HandleFails \/ EnqueueClosed
  <2>1. /\ UNCHANGED <<committed, position, current, queue, hand, lost>> /\ consumer = "listen"
        /\ consumer' \in {"commit", "stopped", "fetch"}
        /\ finished \subseteq finished' /\ refused \subseteq refused'
        /\ current \in finished' \cup refused'
    BY <1>3 DEF DropOldMessage, Handle, HandleFails, EnqueueClosed, Again, PerhapsFinished
  <2>2. (\A m : Accounted(m) => Accounted(m)') /\ Accounted(current)'
    BY <2>1 DEF Accounted, InQueue, InHand
  <2> QED BY <1>0, <2>1, <2>2, NothingForgotten
<1>4. CASE HandleHangs
  <2>1. /\ UNCHANGED <<committed, position, current, queue, hand, refused, lost>> /\ consumer = "listen"
        /\ consumer' = "hung" /\ finished \subseteq finished'
    BY <1>4 DEF HandleHangs, PerhapsFinished
  <2>2. \A m : Accounted(m) => Accounted(m)'
    BY <2>1 DEF Accounted, InQueue, InHand
  <2> QED BY <1>0, <2>1, <2>2, NothingForgotten
<1>5. CASE Enqueue
  <2>1. /\ UNCHANGED <<committed, position, current, hand, finished, refused, lost>>
        /\ consumer = "listen" /\ consumer' = "commit" /\ queue' = Append(queue, current)
    BY <1>5 DEF Enqueue, history
  <2>2. current \in Responses
    BY <2>1, <1>0 DEF IntakeInv, Responses
  <2>3. InQueue' = InQueue \cup {current} /\ InHand' = InHand /\ queue' \in Seq(Responses)
    BY <1>0, <2>1, <2>2, AppendElements, AppendProperties DEF InQueue, InHand
  <2>4. (\A m : Accounted(m) => Accounted(m)') /\ Accounted(current)'
    BY <2>1, <2>3 DEF Accounted
  <2> QED BY <1>0, <2>1, <2>3, <2>4, NothingForgotten
<1>6. CASE Commit
  <2>1. /\ UNCHANGED <<position, current, queue, hand, finished, refused, lost>> /\ consumer = "commit"
        /\ committed' = current /\ consumer' \in {"stopped", "fetch"}
    BY <1>6 DEF Commit, history, Again
  <2>2. \A m : Accounted(m)' <=> Accounted(m)
    BY <2>1 DEF Accounted, InQueue, InHand
  <2> QED BY <1>0, <2>1, <2>2 DEF IntakeInv, ResponsesAreAccounted, Accounted
<1> QED BY <1>1, <1>2, <1>3, <1>4, <1>5, <1>6 DEF Consumer

\* a step of others that forgets nothing
LEMMA NothingForgottenHere ==
  ASSUME IntakeInv, UNCHANGED <<committed, position, current, consumer>>,
         queue' \in Seq(Responses), hand' \in [Workers -> 0..(Last + Posts)],
         \A m : Accounted(m) => Accounted(m)'
  PROVE  IntakeInv'
<1>1. ResponsesAreAccounted'
  BY DEF IntakeInv, ResponsesAreAccounted, Accounted
<1> QED BY <1>1 DEF IntakeInv

LEMMA QueueWorkerInv ==
  ASSUME IntakeInv, NEW w \in Workers, QueueWorker(w) \/ HangWorker(w)
  PROVE  IntakeInv'
<1>0. /\ Last \in Nat /\ Posts \in Nat /\ Responses = 1..(Last + Posts)
      /\ queue \in Seq(Responses) /\ hand \in [Workers -> 0..(Last + Posts)]
  BY IntakeAssumption DEF IntakeInv, Responses
<1>1. CASE Take(w)
  <2>1. /\ UNCHANGED <<committed, position, current, consumer, finished, refused, lost>>
        /\ hand[w] = 0 /\ queue # <<>>
        /\ hand' = [hand EXCEPT ![w] = Head(queue)] /\ queue' = Tail(queue)
    BY <1>1 DEF Take, history
  <2>2. Head(queue) \in Responses /\ queue' \in Seq(Responses)
    BY <1>0, <2>1, HeadTailProperties
  <2>3. InQueue = {Head(queue)} \cup InQueue'
    <3>1. InQueue = {queue[i] : i \in DOMAIN queue}
      BY DEF InQueue
    <3>2. InQueue' = {Tail(queue)[i] : i \in DOMAIN Tail(queue)}
      BY <2>1 DEF InQueue
    <3> QED BY <1>0, <2>1, <3>1, <3>2, TailElements
  <2>4. InHand' = InHand \cup {Head(queue)}
    BY <1>0, <2>1, <2>2 DEF InHand
  <2>5. hand' \in [Workers -> 0..(Last + Posts)]
    BY <1>0, <2>1, <2>2
  <2>6. \A m : Accounted(m) => Accounted(m)'
    BY <2>1, <2>3, <2>4 DEF Accounted
  <2> QED BY <2>1, <2>2, <2>5, <2>6, NothingForgottenHere
<1>2. CASE Finish(w)
  <2>1. /\ UNCHANGED <<committed, position, current, consumer, queue, refused, lost>>
        /\ finished' = finished \cup {hand[w]} /\ hand' = [hand EXCEPT ![w] = 0]
    BY <1>2 DEF Finish
  <2>2. InQueue' = InQueue /\ InHand \subseteq InHand' \cup {hand[w]}
    BY <2>1 DEF InQueue, InHand
  <2>3. hand' \in [Workers -> 0..(Last + Posts)]
    BY <1>0, <2>1
  <2>4. \A m : Accounted(m) => Accounted(m)'
    BY <2>1, <2>2 DEF Accounted
  <2> QED BY <1>0, <2>1, <2>3, <2>4, NothingForgottenHere
<1>3. CASE HangWorker(w)
  <2>1. /\ UNCHANGED <<committed, position, current, consumer, queue, hand, refused, lost>>
        /\ finished \subseteq finished'
    BY <1>3 DEF HangWorker, PerhapsFinished
  <2>2. \A m : Accounted(m) => Accounted(m)'
    BY <2>1 DEF Accounted, InQueue, InHand
  <2> QED BY <1>0, <2>1, <2>2, NothingForgottenHere
<1> QED BY <1>1, <1>2, <1>3 DEF QueueWorker

(* A post only adds to what is handled, refused or queued. *)
LEMMA PostInv ==
  ASSUME IntakeInv, HttpNext
  PROVE  IntakeInv'
<1>0. queue \in Seq(Responses) /\ hand \in [Workers -> 0..(Last + Posts)]
  BY DEF IntakeInv
<1>1. ASSUME NEW r \in Requests, EnqueuePost(r)
      PROVE  IntakeInv'
  <2>1. /\ UNCHANGED <<committed, position, current, consumer, hand, finished, refused, lost>>
        /\ queue' = Append(queue, r)
    BY <1>1 DEF EnqueuePost, history
  <2>2. r \in Responses
    BY IntakeAssumption DEF Responses, Requests
  <2>3. InQueue' = InQueue \cup {r} /\ InHand' = InHand /\ queue' \in Seq(Responses)
    BY <1>0, <2>1, <2>2, AppendElements, AppendProperties DEF InQueue, InHand
  <2>4. \A m : Accounted(m) => Accounted(m)'
    BY <2>1, <2>3 DEF Accounted
  <2> QED BY <1>0, <2>1, <2>3, <2>4, NothingForgottenHere
<1>2. ASSUME NEW r \in Requests, HandlePost(r) \/ HandlePostHangs(r) \/ EnqueuePostClosed(r)
      PROVE  IntakeInv'
  <2>1. /\ UNCHANGED <<committed, position, current, consumer, queue, hand, lost>>
        /\ finished \subseteq finished' /\ refused \subseteq refused'
    BY <1>2 DEF HandlePost, HandlePostHangs, EnqueuePostClosed, PerhapsFinished
  <2>2. \A m : Accounted(m) => Accounted(m)'
    BY <2>1 DEF Accounted, InQueue, InHand
  <2> QED BY <1>0, <2>1, <2>2, NothingForgottenHere
<1>3. ASSUME UNCHANGED intakeVars
      PROVE  IntakeInv'
  <2>1. UNCHANGED <<committed, position, current, consumer, queue, hand, finished, refused, lost>>
    BY <1>3 DEF intakeVars, history
  <2>2. \A m : Accounted(m) => Accounted(m)'
    BY <2>1 DEF Accounted, InQueue, InHand
  <2> QED BY <1>0, <2>1, <2>2, NothingForgottenHere
<1>4. \/ \E r \in Requests : EnqueuePost(r) \/ HandlePost(r) \/ HandlePostHangs(r) \/ EnqueuePostClosed(r)
      \/ UNCHANGED intakeVars
  BY DEF HttpNext, HandleRequest, ShutdownServer, PostResponse, RejectPost, PostPanics, Answer, WriteTimeout
<1> QED BY <1>1, <1>2, <1>3, <1>4

(* The steps of the process, with what they do to the responses. *)
LEMMA ProcessIntakeInv ==
  ASSUME IntakeInv, StartIntake \/ StopIntake \/ UNCHANGED intakeVars \/ CloseQueue \/ Rebalance
  PROVE  IntakeInv'
<1>0. queue \in Seq(Responses) /\ hand \in [Workers -> 0..(Last + Posts)] /\ 0 \in 0..Last
      /\ 0 \in 0..(Last + Posts)
  BY IntakeAssumption DEF IntakeInv
<1>1. CASE StartIntake \/ Rebalance
  <2>1. /\ UNCHANGED <<committed, current, queue, hand, finished, refused, lost>>
        /\ position' = committed /\ consumer' \in {"fetch", "disabled", consumer}
        /\ (consumer' = consumer => consumer \notin {"stopped"})
    BY <1>1 DEF StartIntake, Rebalance, history
  <2>2. \A m : Accounted(m)' <=> Accounted(m)
    BY <2>1 DEF Accounted, InQueue, InHand
  <2>3. \A m \in 1..committed : Accounted(m)
    BY DEF IntakeInv, ResponsesAreAccounted, Accounted
  <2>4. ResponsesAreAccounted'
    BY <2>1, <2>2, <2>3 DEF ResponsesAreAccounted, Accounted
  <2> QED BY <1>0, <2>1, <2>2, <2>3, <2>4 DEF IntakeInv
<1>2. CASE StopIntake
  <2>1. /\ UNCHANGED <<committed, position, finished, refused>> /\ current' = 0
        /\ queue' = <<>> /\ hand' = [k \in Workers |-> 0] /\ consumer' \in {"stopped", "disabled"}
        /\ lost' = lost \cup {m \in (InQueue \cup InHand) \ finished : m <= committed \/ m \in Requests}
    BY <1>2 DEF StopIntake
  <2>2. \A m \in 1..committed : Accounted(m) => Accounted(m)'
    BY <2>1 DEF Accounted
  <2>3. hand' \in [Workers -> 0..(Last + Posts)] /\ queue' \in Seq(Responses)
    BY <1>0, <2>1
  <2>4. ResponsesAreAccounted'
    BY <2>1, <2>2 DEF IntakeInv, ResponsesAreAccounted, Accounted
  <2> QED BY <1>0, <2>1, <2>3, <2>4 DEF IntakeInv
<1>3. CASE UNCHANGED intakeVars \/ CloseQueue
  <2>1. UNCHANGED <<committed, position, current, consumer, queue, hand, finished, refused, lost>>
    BY <1>3 DEF intakeVars, CloseQueue, history
  <2>2. \A m : Accounted(m) => Accounted(m)'
    BY <2>1 DEF Accounted, InQueue, InHand
  <2> QED BY <1>0, <2>1, <2>2, NothingForgottenHere
<1> QED BY <1>1, <1>2, <1>3

(* What a step is for the responses, and for the tasks. *)
LEMMA StepParts ==
  ASSUME [Next]_vars
  PROVE  /\ IntakeNext \/ HttpNext \/ StartIntake \/ StopIntake \/ UNCHANGED intakeVars
         /\ \/ Start \/ Ready \/ Shutdown \/ (phase' = "down" /\ Ends)
            \/ (IntakeNext \/ HttpNext \/ OutputNext) /\ UNCHANGED pipelineVars
            \/ PipelineNext /\ UNCHANGED intakeVars /\ UNCHANGED httpVars
            \/ UNCHANGED vars
BY DEF Next, Start, Ready, Shutdown, Exit, Crash, NilPanic, EndsByMap, EndsByProducer, EndsByIncident,
  Ends, Intake, Http, Pipeline, Output, vars

LEMMA IntakeStep == ASSUME IntakeInv, [Next]_vars PROVE IntakeInv'
<1>1. CASE IntakeNext
  BY <1>1, ConsumerInv, QueueWorkerInv, ProcessIntakeInv DEF IntakeNext
<1>2. CASE StartIntake \/ StopIntake \/ UNCHANGED intakeVars
  BY <1>2, ProcessIntakeInv
<1>3. CASE HttpNext
  BY <1>3, PostInv
<1>4. IntakeNext \/ HttpNext \/ StartIntake \/ StopIntake \/ UNCHANGED intakeVars
  BY StepParts
<1> QED BY <1>1, <1>2, <1>3, <1>4

LEMMA IntakeInit1 == Init => IntakeInv
BY IntakeAssumption DEF Init, IntakeInit, IntakeInv, ResponsesAreAccounted

(* A response that is committed (lib/com/kafka/consumer.go:88, 99) has been *)
(* handled or is held by the queue of lib/worker.go:307-332 or was lost     *)
(* with a process or refused by its listener.                               *)
THEOREM ResponsesAccounted == Safety => []ResponsesAreAccounted
<1>1. Safety => []IntakeInv
  BY IntakeInit1, IntakeStep, PTL DEF Safety
<1>2. IntakeInv => ResponsesAreAccounted
  BY DEF IntakeInv
<1> QED BY <1>1, <1>2, PTL

(* The bound of the queue and the workers. *)
LEMMA QueueSizeNat == QueueSize \in Nat
BY FS_CardinalityType, IntakeAssumption DEF QueueSize

LEMMA HeldResponses ==
  ASSUME IntakeInv, LossInv
  PROVE  /\ IsFiniteSet(InQueue \cup InHand)
         /\ Cardinality(InQueue \cup InHand) <= IF queued THEN QueueSize + Cardinality(Workers) ELSE 0
<1>1. /\ queue \in Seq(Responses) /\ Len(queue) \in Nat /\ DOMAIN queue = 1..Len(queue)
      /\ hand \in [Workers -> 0..(Last + Posts)] /\ IsFiniteSet(Workers) /\ Cardinality(Workers) \in Nat
  BY LenProperties, FS_CardinalityType, IntakeAssumption DEF IntakeInv
<1>2. IsFiniteSet(InQueue) /\ Cardinality(InQueue) <= Len(queue)
  <2> DEFINE f == [i \in 1..Len(queue) |-> queue[i]]
  <2>1. f \in Surjection(1..Len(queue), InQueue)
    BY <1>1 DEF Surjection, InQueue
  <2>2. IsFiniteSet(1..Len(queue)) /\ Cardinality(1..Len(queue)) = Len(queue)
    <3>1. 1 \in Int /\ Len(queue) \in Int
      BY <1>1
    <3>2. /\ IsFiniteSet(1..Len(queue))
          /\ Cardinality(1..Len(queue)) = IF 1 > Len(queue) THEN 0 ELSE Len(queue) - 1 + 1
      BY <3>1, FS_Interval
    <3> QED BY <1>1, <3>2
  <2> HIDE DEF f
  <2> QED BY <2>1, <2>2, FS_Surjection
<1>3. IsFiniteSet(InHand) /\ Cardinality(InHand) <= Cardinality(Workers)
  <2> DEFINE V == {hand[w] : w \in Workers}
             g == [w \in Workers |-> hand[w]]
  <2>1. g \in Surjection(Workers, V)
    BY DEF Surjection
  <2>2. InHand \in SUBSET V
    BY DEF InHand
  <2> HIDE DEF V, g
  <2>3. IsFiniteSet(V) /\ Cardinality(V) <= Cardinality(Workers)
    BY <1>1, <2>1, FS_Surjection
  <2>4. IsFiniteSet(InHand) /\ Cardinality(InHand) <= Cardinality(V)
    BY <2>2, <2>3, FS_Subset
  <2>5. Cardinality(V) \in Nat /\ Cardinality(InHand) \in Nat
    BY <2>3, <2>4, FS_CardinalityType
  <2> QED BY <1>1, <2>3, <2>4, <2>5
<1>4. /\ IsFiniteSet(InQueue \cup InHand)
      /\ Cardinality(InQueue \cup InHand)
           = Cardinality(InQueue) + Cardinality(InHand) - Cardinality(InQueue \cap InHand)
  BY <1>2, <1>3, FS_Union
<1>5. IsFiniteSet(InQueue \cap InHand)
  <2>1. (InQueue \cap InHand) \in SUBSET InQueue
    OBVIOUS
  <2> QED BY <1>2, <2>1, FS_Subset
<1>6. /\ Cardinality(InQueue) \in Nat /\ Cardinality(InHand) \in Nat
      /\ Cardinality(InQueue \cap InHand) \in Nat
  BY <1>2, <1>3, <1>5, FS_CardinalityType
<1>7. CASE queued
  BY <1>1, <1>2, <1>3, <1>4, <1>6, <1>7, QueueSizeNat DEF LossInv
<1>8. CASE ~queued
  <2>1. InQueue \cup InHand = {}
    <3>1. queue = <<>> /\ InHand = {}
      BY <1>8 DEF LossInv
    <3>2. InQueue = {}
      BY <3>1 DEF InQueue
    <3> QED BY <3>1, <3>2
  <2> QED BY <1>4, <1>8, <2>1, FS_EmptySet
<1> QED BY <1>7, <1>8

LEMMA PhaseOfAStep ==
  ASSUME IntakeNext \/ HttpNext \/ PipelineNext \/ OutputNext
  PROVE  phase' = phase
<1>1. CASE IntakeNext
  BY <1>1 DEF IntakeNext, Consumer, QueueWorker, Rebalance, CloseQueue, Take, Finish,
    FetchMessage, ReaderClosed, DropOldMessage, Handle, HandleFails, Enqueue, EnqueueClosed,
    Commit, CommitCancelled, HandleHangs, HangWorker
<1>2. CASE HttpNext
  BY <1>2 DEF HttpNext, HandleRequest, ShutdownServer, PostResponse, RejectPost, PostPanics, Answer, WriteTimeout,
    HandlePost, HandlePostHangs, EnqueuePost, EnqueuePostClosed
<1>3. CASE PipelineNext
  BY <1>3 DEF PipelineNext, Provide, Run, FetchTasks, FetchFails, SendError, SendBatch,
    CloseChannels, LogError, LoopReturns, TakeBatch, RunTask, HangTask, LockExpires
<1>4. CASE OutputNext
  BY <1>4 DEF OutputNext, CloseProducer, CloseInput, Send, Broker, Produce, LookupTopic, CreateTopic,
    MarkTopic, SendSync, SendAsync, SendPanics, Post, Flush, FlushFails, CloseReadsError
<1> QED BY <1>1, <1>2, <1>3, <1>4

LEMMA AppendLength ==
  ASSUME NEW S, NEW q \in Seq(S), NEW e \in S
  PROVE  Len(Append(q, e)) = Len(q) + 1 /\ Len(q) \in Nat
BY LenProperties, AppendProperties

(* Enqueue and EnqueuePost wait for a place in the queue. *)
LEMMA EnqueueLoss ==
  ASSUME LossInv, IntakeInv, NEW m \in Responses, queued, phase # "down", Len(queue) < QueueSize,
         queue' = Append(queue, m), UNCHANGED <<phase, queued, hand>>
  PROVE  LossInv'
<1>1. queue \in Seq(Responses)
  BY DEF IntakeInv
<1>2. Len(queue') = Len(queue) + 1 /\ Len(queue) \in Nat
  BY <1>1, AppendLength
<1> QED BY <1>2, QueueSizeNat DEF LossInv

(* The steps that neither change the queue nor the phase. *)
LEMMA OtherLoss ==
  ASSUME LossInv, UNCHANGED <<phase, queued, queue, hand>>,
         consumer' = consumer \/ consumer \notin {"stopped", "disabled"},
         UNCHANGED <<server, handler>> \/ server \notin {"stopped", "disabled"}
           \/ \E r \in Requests : handler[r] = "running"
  PROVE  LossInv'
<1>1. InHand' = InHand
  BY DEF InHand
<1> QED BY <1>1 DEF LossInv

LEMMA LossStep == ASSUME IntakeInv, LossInv, [Next]_vars PROVE LossInv'
<1>0. /\ queue \in Seq(Responses) /\ Len(queue) \in Nat
      /\ (consumer = "listen" => current \in Responses)
      /\ Requests \subseteq Responses
  BY LenProperties, IntakeAssumption DEF IntakeInv, Responses, Requests
<1>1. CASE Intake(IntakeNext)
  <2>1. CASE Enqueue
    <3>1. /\ UNCHANGED <<phase, queued, hand>> /\ queued /\ consumer = "listen"
          /\ Len(queue) < QueueSize /\ queue' = Append(queue, current)
      BY <2>1 DEF Enqueue
    <3>2. phase # "down"
      BY <3>1 DEF LossInv
    <3> QED BY <1>0, <3>1, <3>2, EnqueueLoss
  <2>2. ASSUME NEW w \in Workers, Take(w) PROVE LossInv'
    <3>1. UNCHANGED <<phase, queued, consumer, server, handler>> /\ queue # <<>> /\ queue' = Tail(queue)
      BY <1>1, <2>2 DEF Take, Intake, httpVars
    <3>2. Len(queue') = Len(queue) - 1
      BY <1>0, <3>1, HeadTailProperties
    <3> QED BY <1>0, <3>1, <3>2, QueueSizeNat DEF LossInv
  <2>3. ASSUME NEW w \in Workers, Finish(w) PROVE LossInv'
    <3>1. UNCHANGED <<phase, queued, consumer, queue, server, handler>> /\ hand[w] \in InHand
      BY <1>1, <2>3 DEF Finish, InHand, Intake, httpVars
    <3> QED BY <3>1 DEF LossInv
  <2>4. CASE \/ FetchMessage \/ ReaderClosed \/ DropOldMessage \/ Handle \/ HandleFails \/ EnqueueClosed
             \/ Commit \/ CommitCancelled \/ HandleHangs \/ Rebalance \/ CloseQueue
             \/ \E w \in Workers : HangWorker(w)
    <3>1. UNCHANGED <<phase, queued, queue, hand, server, handler>>
          /\ (consumer' = consumer \/ consumer \in {"fetch", "listen", "commit"})
      BY <1>1, <2>4 DEF FetchMessage, ReaderClosed, DropOldMessage, Handle, HandleFails, EnqueueClosed,
        Commit, CommitCancelled, HandleHangs, HangWorker, Rebalance, CloseQueue, Intake, httpVars, history
    <3> QED BY <3>1, OtherLoss
  <2> QED BY <1>1, <2>1, <2>2, <2>3, <2>4 DEF Intake, IntakeNext, Consumer, QueueWorker
<1>2. CASE Http(HttpNext)
  <2>1. ASSUME NEW r \in Requests, EnqueuePost(r) PROVE LossInv'
    <3>1. /\ UNCHANGED <<phase, queued, hand>> /\ queued /\ handler[r] = "running"
          /\ Len(queue) < QueueSize /\ queue' = Append(queue, r)
      BY <2>1 DEF EnqueuePost
    <3>2. phase # "down"
      BY <3>1 DEF LossInv
    <3> QED BY <1>0, <3>1, <3>2, EnqueueLoss
  <2>2. ASSUME NEW r \in Requests,
               \/ HandlePost(r) \/ HandlePostHangs(r) \/ EnqueuePostClosed(r)
               \/ PostResponse(r) \/ PostPanics(r)
        PROVE  LossInv'
    <3>1. /\ UNCHANGED <<phase, queued, queue, hand, consumer>>
          /\ handler[r] = "running" \/ server = "up"
      BY <2>2 DEF HandlePost, HandlePostHangs, EnqueuePostClosed, PostResponse, PostPanics, NilHandlerPost,
        intakeVars
    <3> QED BY <3>1, OtherLoss
  <2>3. ASSUME NEW r \in Requests, Answer(r) \/ WriteTimeout(r) \/ RejectPost(r) PROVE LossInv'
    <3>1. UNCHANGED <<phase, queued, queue, hand, consumer, server, handler>>
      BY <2>3 DEF Answer, WriteTimeout, RejectPost, intakeVars
    <3> QED BY <3>1, OtherLoss
  <2>4. CASE ShutdownServer
    <3>1. UNCHANGED <<phase, queued, queue, hand, consumer>> /\ server = "up"
      BY <2>4 DEF ShutdownServer, intakeVars
    <3> QED BY <3>1, OtherLoss
  <2> QED BY <1>2, <2>1, <2>2, <2>3, <2>4 DEF Http, HttpNext, HandleRequest
<1>3. CASE Start
  <2>1. UNCHANGED <<queue, hand>> /\ phase = "down" /\ phase' = "starting"
    BY <1>3 DEF Start, StartIntake, history
  <2>2. InHand' = InHand
    BY <2>1 DEF InHand
  <2> QED BY <2>1, <2>2 DEF LossInv
<1>4. CASE Exit \/ Crash \/ NilPanic \/ EndsByMap \/ EndsByProducer \/ EndsByIncident
  <2>1. /\ queue' = <<>> /\ hand' = [w \in Workers |-> 0]
        /\ consumer' \in {"stopped", "disabled"} /\ server' \in {"stopped", "disabled"}
        /\ \A r \in Requests : handler'[r] # "running"
    BY <1>4 DEF Exit, Crash, NilPanic, EndsByMap, EndsByProducer, EndsByIncident, Ends,
      StopIntake, StopHttp
  <2>2. InHand' = {}
    BY <2>1 DEF InHand
  <2>3. Len(queue') = 0
    BY <2>1
  <2> QED BY <2>1, <2>2, <2>3, QueueSizeNat DEF LossInv
<1>5. CASE (Pipeline(PipelineNext) \/ Output(OutputNext) \/ UNCHANGED vars)
  <2>1. UNCHANGED <<phase, queued, queue, hand, consumer, server, handler>>
    BY <1>5, PhaseOfAStep DEF Pipeline, Output, vars, intakeVars, httpVars
  <2> QED BY <2>1, OtherLoss
<1>6. CASE Ready \/ Shutdown
  <2>1. UNCHANGED <<queued, queue, hand>> /\ phase' # "down"
    BY <1>6 DEF Ready, Shutdown, intakeVars
  <2>2. InHand' = InHand
    BY <2>1 DEF InHand
  <2> QED BY <2>1, <2>2 DEF LossInv
<1> QED BY <1>1, <1>2, <1>3, <1>4, <1>5, <1>6 DEF Next

LEMMA LossInit == Init => LossInv
<1>1. Init => /\ queue = <<>> /\ hand = [w \in Workers |-> 0]
              /\ consumer \in {"stopped", "disabled"} /\ server \in {"stopped", "disabled"}
              /\ handler = [r \in Requests |-> "none"]
  BY DEF Init, IntakeInit, HttpInit
<1>2. Init => InHand = {} /\ Len(queue) = 0
  BY <1>1 DEF InHand
<1> QED BY <1>1, <1>2, QueueSizeNat DEF LossInv

LEMMA LossOfAStep ==
  ASSUME IntakeInv, LossInv, [Next]_vars
  PROVE  Cardinality(lost' \ lost) <= IF queued THEN QueueSize + Cardinality(Workers) ELSE 0
<1>1. lost' = lost \/ StopIntake
  <2>1. (Consumer \/ HandleHangs \/ Rebalance \/ CloseQueue) => lost' = lost
    BY DEF Consumer, HandleHangs, Rebalance, CloseQueue, FetchMessage, ReaderClosed, DropOldMessage, Handle,
      HandleFails, Enqueue, EnqueueClosed, Commit, CommitCancelled, history
  <2>2. \A w \in Workers : QueueWorker(w) \/ HangWorker(w) => lost' = lost
    BY DEF QueueWorker, HangWorker, Take, Finish, history
  <2>3. HttpNext => lost' = lost
    BY DEF HttpNext, HandleRequest, ShutdownServer, PostResponse, RejectPost, PostPanics, Answer, WriteTimeout,
      HandlePost, HandlePostHangs, EnqueuePost, EnqueuePostClosed, intakeVars, history
  <2>4. (StartIntake \/ UNCHANGED intakeVars) => lost' = lost
    BY DEF StartIntake, history, intakeVars
  <2> QED BY <2>1, <2>2, <2>3, <2>4, StepParts DEF IntakeNext
<1>2. (lost' \ lost) \in SUBSET (InQueue \cup InHand)
  BY <1>1 DEF StopIntake
<1>3. /\ IsFiniteSet(lost' \ lost) /\ IsFiniteSet(InQueue \cup InHand)
      /\ Cardinality(lost' \ lost) <= Cardinality(InQueue \cup InHand)
      /\ Cardinality(InQueue \cup InHand) <= IF queued THEN QueueSize + Cardinality(Workers) ELSE 0
  BY <1>2, HeldResponses, FS_Subset
<1>4. Cardinality(lost' \ lost) \in Nat /\ Cardinality(InQueue \cup InHand) \in Nat
      /\ Cardinality(Workers) \in Nat
  BY <1>3, FS_CardinalityType, IntakeAssumption
<1> QED BY <1>3, <1>4, QueueSizeNat

(* However a process ends, at most the responses in its queue and one per   *)
(* worker are lost (lib/worker.go:307-332), and none without the queue.     *)
THEOREM BoundedLoss == Safety => LossIsBounded
<1>1. Safety => [](IntakeInv /\ LossInv)
  <2>1. Init => IntakeInv /\ LossInv
    BY IntakeInit1, LossInit
  <2>2. IntakeInv /\ LossInv /\ [Next]_vars => (IntakeInv /\ LossInv)'
    BY IntakeStep, LossStep
  <2> QED BY <2>1, <2>2, PTL DEF Safety
<1>2. IntakeInv /\ LossInv /\ [Next]_vars
        => [Cardinality(lost' \ lost) <= IF queued THEN QueueSize + Cardinality(Workers) ELSE 0]_vars
  BY LossOfAStep
<1> QED BY <1>1, <1>2, PTL DEF Safety, LossIsBounded

-----------------------------------------------------------------------------
(* Tasks.                                                                  *)

(* Where the tasks of the channel are when a batch is sent or taken. *)
LEMMA ChannelAfterSend ==
  ASSUME PipelineTypes, NEW B \in SUBSET Tasks, channel' = Append(channel, B)
  PROVE  channel' \in Seq(SUBSET Tasks) /\ InChannel' = InChannel \cup B
<1>1. {Append(channel, B)[i] : i \in DOMAIN Append(channel, B)}
         = {channel[i] : i \in DOMAIN channel} \cup {B}
  <2> DEFINE S == SUBSET Tasks
  <2>1. channel \in Seq(S) /\ B \in S
    BY DEF PipelineTypes
  <2> HIDE DEF S
  <2> QED BY <2>1, AppendElements
<1>2. InChannel' = UNION ({channel[i] : i \in DOMAIN channel} \cup {B})
  BY <1>1 DEF InChannel
<1>3. channel' \in Seq(SUBSET Tasks)
  BY AppendProperties DEF PipelineTypes
<1>4. UNION ({channel[i] : i \in DOMAIN channel} \cup {B}) = InChannel \cup B
  BY DEF InChannel
<1> QED BY <1>2, <1>3, <1>4

LEMMA ChannelAfterTake ==
  ASSUME PipelineTypes, channel # <<>>, channel' = Tail(channel)
  PROVE  /\ channel' \in Seq(SUBSET Tasks) /\ Head(channel) \in SUBSET Tasks
         /\ InChannel = InChannel' \cup Head(channel)
<1>1. {channel[i] : i \in DOMAIN channel}
         = {Head(channel)} \cup {Tail(channel)[i] : i \in DOMAIN Tail(channel)}
  <2> DEFINE S == SUBSET Tasks
  <2>1. channel \in Seq(S)
    BY DEF PipelineTypes
  <2> HIDE DEF S
  <2> QED BY <2>1, TailElements
<1>2. InChannel = UNION ({Head(channel)} \cup {Tail(channel)[i] : i \in DOMAIN Tail(channel)})
  BY <1>1 DEF InChannel
<1>3. InChannel' = UNION {Tail(channel)[i] : i \in DOMAIN Tail(channel)}
  BY DEF InChannel
<1> QED BY <1>2, <1>3, HeadTailProperties DEF PipelineTypes

(* A goroutine of a shard only runs while the channels are open, so it can *)
(* only disturb the types and the place of the tasks it has fetched.       *)
LEMMA ProvideInv ==
  ASSUME PipelineInv, NEW s \in Shards, Provide(s)
  PROVE  PipelineInv'
<1> USE DEF PipelineInv, PipelineTypes
<1>0. ~tasksClosed /\ ~returned
  <2>1. ~At(s, "stopped")
    BY DEF Provide, FetchTasks, FetchFails, SendError, SendBatch, At
  <2> QED BY <2>1 DEF NoSendAfterClose
<1>1. UNCHANGED <<phase, tasksClosed, loop, returned, executed>>
  BY DEF Provide, FetchTasks, FetchFails, SendError, SendBatch
<1> SUFFICES
      /\ channel' \in Seq(SUBSET Tasks)
      /\ fetcher' \in [Shards -> [pc : {"stopped", "fetch", "report", "send"}, attempt : Nat,
                                  batch : SUBSET Tasks]]
      /\ \A t \in received' : Held(t)' \/ (t \in received /\ ~Held(t))
  <2>1. open' = open
    BY DEF Provide, FetchTasks, FetchFails, SendError, SendBatch
  <2> QED BY <1>0, <1>1, <2>1 DEF NoSendAfterClose
<1>2. CASE FetchTasks(s)
  <2>1. PICK B \in SUBSET Free(s) :
          /\ received' = received \cup B
          /\ fetcher' = [fetcher EXCEPT ![s] = [pc |-> "send", attempt |-> 0, batch |-> B]]
    BY <1>2 DEF FetchTasks
  <2>2. At(s, "fetch") /\ channel' = channel /\ InChannel' = InChannel
    BY <1>2 DEF FetchTasks, InChannel
  <2>3. CASE B \subseteq Tasks
    <3>1. fetcher' \in [Shards -> [pc : {"stopped", "fetch", "report", "send"}, attempt : Nat,
                                   batch : SUBSET Tasks]]
      BY <2>1, <2>3
    <3>2. At(s, "send")' /\ fetcher'[s].batch = B
      BY <2>1 DEF At
    <3>3. \A r \in Shards : At(r, "send") => At(r, "send")' /\ fetcher'[r].batch = fetcher[r].batch
      BY <2>1, <2>2 DEF At
    <3>4. \A t \in received' : Held(t)' \/ (t \in received /\ ~Held(t))
      BY <1>1, <2>1, <2>2, <3>2, <3>3 DEF Held
    <3> QED BY <2>2, <3>1, <3>4
  <2>4. B \subseteq Tasks
    BY <2>1 DEF Free
  <2> QED BY <2>3, <2>4
<1>3. CASE FetchFails(s) \/ SendError(s)
  <2>1. /\ channel' = channel /\ received' = received /\ InChannel' = InChannel
        /\ ~At(s, "send")
    BY <1>3 DEF FetchFails, SendError, InChannel, At
  <2>2. /\ fetcher' \in [Shards -> [pc : {"stopped", "fetch", "report", "send"}, attempt : Nat,
                                    batch : SUBSET Tasks]]
        /\ \A r \in Shards : r # s => fetcher'[r] = fetcher[r]
    <3>1. CASE FetchFails(s)
      BY <3>1 DEF FetchFails
    <3>2. CASE SendError(s)
      BY <3>2 DEF SendError, Select, Stopped, Fetching
    <3> QED BY <1>3, <3>1, <3>2
  <2>3. \A r \in Shards : At(r, "send") => At(r, "send")' /\ fetcher'[r].batch = fetcher[r].batch
    BY <2>1, <2>2 DEF At
  <2> QED BY <1>1, <2>1, <2>2, <2>3 DEF Held
<1>4. CASE SendBatch(s)
  <2>1. /\ channel' = Append(channel, fetcher[s].batch) /\ received' = received
        /\ fetcher[s].batch \in SUBSET Tasks
    BY <1>4 DEF SendBatch
  <2>2. channel' \in Seq(SUBSET Tasks) /\ InChannel' = InChannel \cup fetcher[s].batch
    BY <2>1, ChannelAfterSend DEF PipelineTypes
  <2>3. /\ fetcher' \in [Shards -> [pc : {"stopped", "fetch", "report", "send"}, attempt : Nat,
                                    batch : SUBSET Tasks]]
        /\ \A r \in Shards : r # s => fetcher'[r] = fetcher[r]
    BY <1>4 DEF SendBatch, Select, Stopped, Fetching
  <2>4. \A r \in Shards : r # s /\ At(r, "send") => At(r, "send")' /\ fetcher'[r].batch = fetcher[r].batch
    BY <2>3 DEF At
  <2> QED BY <1>1, <2>1, <2>2, <2>3, <2>4 DEF Held
<1> QED BY <1>2, <1>3, <1>4 DEF Provide

LEMMA RunInv ==
  ASSUME PipelineInv, NEW b \in BatchWorkers, Run(b) \/ \E t \in Tasks : HangTask(b, t)
  PROVE  PipelineInv'
<1> USE DEF PipelineInv, PipelineTypes
<1>1. CASE TakeBatch(b)
  <2>1. /\ UNCHANGED <<phase, open, fetcher, tasksClosed, returned, received, executed>>
        /\ loop[b] = {} /\ channel # <<>> /\ ~returned
        /\ loop' = [loop EXCEPT ![b] = Head(channel)] /\ channel' = Tail(channel)
    BY <1>1 DEF TakeBatch
  <2>2. /\ channel' \in Seq(SUBSET Tasks) /\ Head(channel) \in SUBSET Tasks
        /\ InChannel = InChannel' \cup Head(channel)
    BY <2>1, ChannelAfterTake DEF PipelineTypes
  <2>3. loop' \in [BatchWorkers -> SUBSET Tasks]
    BY <2>1, <2>2
  <2>4. \A t \in Tasks : t \in Head(channel) => t \in loop'[b]
    BY <2>1
  <2>5. \A k \in BatchWorkers : loop[k] \subseteq loop'[k]
    BY <2>1
  <2>6. \A t : Held(t) => Held(t)'
    BY <2>1, <2>2, <2>4, <2>5 DEF Held, At
  <2> QED BY <2>1, <2>2, <2>3, <2>6 DEF NoSendAfterClose, At
<1>2. ASSUME NEW u \in Tasks, RunTask(b, u) PROVE PipelineInv'
  <2>1. /\ UNCHANGED <<phase, channel, fetcher, tasksClosed, returned, received>>
        /\ u \in loop[b] /\ loop' = [loop EXCEPT ![b] = loop[b] \ {u}]
        /\ executed' = executed \cup {u} /\ open' \subseteq open
    BY <1>2 DEF RunTask
  <2>2. /\ loop' \in [BatchWorkers -> SUBSET Tasks] /\ InChannel' = InChannel
        /\ \A k \in BatchWorkers : loop[k] \subseteq loop'[k] \cup {u}
    BY <2>1 DEF InChannel
  <2>3. \A t : Held(t) => Held(t)'
    BY <2>1, <2>2 DEF Held, At
  <2>4. ~returned
    BY <2>1
  <2> QED BY <2>1, <2>2, <2>3, <2>4 DEF NoSendAfterClose, At
<1>3. ASSUME NEW u \in Tasks, HangTask(b, u) PROVE PipelineInv'
  <2>1. /\ UNCHANGED <<phase, channel, fetcher, tasksClosed, loop, returned, received, executed>>
        /\ open' \subseteq open
    BY <1>3 DEF HangTask
  <2>2. \A t : Held(t) => Held(t)'
    BY <2>1 DEF Held, At, InChannel
  <2> QED BY <2>1, <2>2 DEF NoSendAfterClose, At
<1> QED BY <1>1, <1>2, <1>3 DEF Run

(* The steps that close the channels, read an error, return, or are not of *)
(* the pipeline at all, leave every task where it is.                      *)
LEMMA IdleInv ==
  ASSUME PipelineInv,
         CloseChannels \/ LogError \/ LoopReturns \/ (\E t \in Tasks : LockExpires(t))
           \/ (UNCHANGED <<phase, pipelineVars>>)
  PROVE  PipelineInv'
<1> USE DEF PipelineInv, PipelineTypes
<1>1. /\ UNCHANGED <<phase, open, fetcher, channel, loop, received, executed>>
      /\ InChannel' = InChannel
  BY DEF CloseChannels, LogError, LoopReturns, LockExpires, pipelineVars, InChannel
<1>2. \A t : Held(t) => Held(t)'
  BY <1>1 DEF Held, At
<1>3. (tasksClosed => phase = "stopping")'
  BY <1>1 DEF CloseChannels, LogError, LoopReturns, LockExpires, pipelineVars
<1>4. NoSendAfterClose'
  BY <1>1 DEF CloseChannels, LogError, LoopReturns, LockExpires, pipelineVars, NoSendAfterClose, At
<1>5. (returned => tasksClosed /\ channel = <<>> /\ \A b \in BatchWorkers : loop[b] = {})'
  BY <1>1 DEF CloseChannels, LogError, LoopReturns, LockExpires, pipelineVars
<1> QED BY <1>1, <1>2, <1>3, <1>4, <1>5

(* The steps of the process, with what they do to the tasks. *)
LEMMA ProcessPipelineInv ==
  ASSUME PipelineInv, Start \/ Ready \/ Shutdown \/ (phase' = "down" /\ Ends)
  PROVE  PipelineInv'
<1> USE DEF PipelineInv, PipelineTypes
<1>1. CASE Start
  <2>1. UNCHANGED pipelineVars /\ phase' = "starting" /\ phase = "down"
    BY <1>1 DEF Start
  <2> QED BY <2>1 DEF pipelineVars, NoSendAfterClose
<1>2. CASE Shutdown
  <2>1. UNCHANGED pipelineVars /\ phase' = "stopping" /\ phase = "running"
    BY <1>2 DEF Shutdown
  <2>2. \A t : Held(t) => Held(t)'
    BY <2>1 DEF pipelineVars, Held, At, InChannel
  <2> QED BY <2>1, <2>2 DEF pipelineVars, NoSendAfterClose
<1>3. CASE Ready
  <2>1. /\ UNCHANGED <<open, channel, tasksClosed, loop, returned>> /\ phase = "starting"
        /\ received' = {} /\ fetcher' = [s \in Shards |-> Fetching]
    BY <1>3 DEF Ready, StartPipeline
  <2> QED BY <2>1 DEF NoSendAfterClose, Fetching
<1>4. CASE phase' = "down" /\ Ends
  <2>1. /\ phase' = "down" /\ open' = open /\ fetcher' = [s \in Shards |-> Stopped]
        /\ channel' = <<>> /\ loop' = [b \in BatchWorkers |-> {}]
        /\ ~tasksClosed' /\ ~returned'
    BY <1>4 DEF Ends, StopPipeline
  <2> QED BY <2>1 DEF NoSendAfterClose, Stopped
<1> QED BY <1>1, <1>2, <1>3, <1>4

LEMMA PipelineStep == ASSUME PipelineInv, [Next]_vars PROVE PipelineInv'
<1>1. CASE (IntakeNext \/ HttpNext \/ OutputNext) /\ UNCHANGED pipelineVars
  BY <1>1, PhaseOfAStep, IdleInv
<1>2. CASE PipelineNext
  BY <1>2, ProvideInv, RunInv, IdleInv DEF PipelineNext
<1>3. CASE UNCHANGED vars
  BY <1>3, IdleInv DEF vars
<1>4. CASE Start \/ Ready \/ Shutdown \/ (phase' = "down" /\ Ends)
  BY <1>4, ProcessPipelineInv
<1> QED BY <1>1, <1>2, <1>3, <1>4, StepParts

LEMMA PipelineInit1 == Init => PipelineInv
BY DEF Init, PipelineInit, PipelineInv, PipelineTypes, NoSendAfterClose, Stopped

(* main returns (main.go:42-76) only when every task that a fetch request   *)
(* of this process received has been executed (lib/com/camunda.go:80-154,   *)
(* lib/worker.go:139-200).                                                  *)
THEOREM Drained == Safety => []DrainedOnExit
<1>1. Safety => []PipelineInv
  BY PipelineInit1, PipelineStep, PTL DEF Safety
<1>2. ASSUME PipelineInv, returned PROVE received \subseteq executed
  <2>1. tasksClosed /\ phase = "stopping" /\ channel = <<>> /\ \A b \in BatchWorkers : loop[b] = {}
    BY <1>2 DEF PipelineInv
  <2>2. \A s \in Shards : ~At(s, "send")
    BY <2>1, <1>2 DEF PipelineInv, NoSendAfterClose, At
  <2>3. InChannel = {}
    BY <2>1 DEF InChannel
  <2> QED BY <1>2, <2>1, <2>2, <2>3 DEF PipelineInv, Held
<1>3. PipelineInv => DrainedOnExit
  BY <1>2 DEF DrainedOnExit
<1> QED BY <1>1, <1>3, PTL

(* ProvideTasks closes its channels (lib/com/camunda.go:80-112) only when   *)
(* no goroutine of a shard can send on them any more: no panic ends Loop.   *)
THEOREM ClosedChannels == Safety => []NoSendAfterClose
<1>1. Safety => []PipelineInv
  BY PipelineInit1, PipelineStep, PTL DEF Safety
<1>2. PipelineInv => NoSendAfterClose
  BY DEF PipelineInv
<1> QED BY <1>1, <1>2, PTL

-----------------------------------------------------------------------------
(* Commands.                                                               *)

\* a topic is marked after it exists, and only a command for Kafka is given to its producer
OutputInv ==
  /\ sender \in [Commands -> {"idle", "lookup", "create", "mark", "send", "post",
                              "ok", "error", "panic", "hung", "gone"}]
  /\ KnownTopicsExist
  /\ \A c \in Commands : sender[c] = "mark" => TopicOf[c] \in topics
  /\ \A c \in Commands :
       sender[c] \in {"lookup", "create", "mark", "send"} => TopicOf[c] \notin HttpTopics
  /\ AcceptedCommandsExist

LEMMA SendInv ==
  ASSUME OutputInv, NEW c \in Commands, Send(c)
  PROVE  OutputInv'
<1> USE DEF OutputInv, KnownTopicsExist, AcceptedCommandsExist, Goes
<1>1. CASE Produce(c)
  BY <1>1 DEF Produce
<1>2. CASE LookupTopic(c)
  BY <1>2 DEF LookupTopic
<1>3. CASE CreateTopic(c)
  BY <1>3 DEF CreateTopic
<1>4. CASE MarkTopic(c)
  BY <1>4 DEF MarkTopic
<1>5. CASE SendSync(c)
  BY <1>5 DEF SendSync, Deliver
<1>6. CASE SendAsync(c)
  BY <1>6 DEF SendAsync
<1>7. CASE SendPanics(c)
  BY <1>7 DEF SendPanics
<1>8. CASE Post(c)
  BY <1>8 DEF Post
<1> QED BY <1>1, <1>2, <1>3, <1>4, <1>5, <1>6, <1>7, <1>8 DEF Send

(* What the broker does with the messages of the async producer, and the    *)
(* steps that close it. *)
LEMMA BrokerInv ==
  ASSUME OutputInv, CloseProducer \/ CloseInput \/ \E c \in Commands : Broker(c)
  PROVE  OutputInv'
<1> USE DEF OutputInv, KnownTopicsExist, AcceptedCommandsExist
<1>1. /\ UNCHANGED <<sync, usedTopics, sender>>
      /\ topics \subseteq topics' /\ delivered \subseteq delivered'
      /\ delivered \cup buffer \cup failed \cup dropped
           \subseteq delivered' \cup buffer' \cup failed' \cup dropped'
  BY DEF CloseProducer, CloseInput, Broker, Flush, FlushFails, CloseReadsError, Deliver
<1> QED BY <1>1

LEMMA OutputStep == ASSUME OutputInv, [Next]_vars PROVE OutputInv'
<1>1. CASE OutputNext
  BY <1>1, SendInv, BrokerInv DEF OutputNext
<1>2. CASE UNCHANGED outputVars
  BY <1>2 DEF outputVars, OutputInv, KnownTopicsExist, AcceptedCommandsExist
<1>3. CASE StartOutput
  BY <1>3 DEF StartOutput, OutputInv, KnownTopicsExist, AcceptedCommandsExist
<1>4. CASE StopOutput
  <2>1. /\ usedTopics' = {} /\ dropped' = dropped \cup buffer \cup failed
        /\ UNCHANGED <<sync, topics, delivered>>
        /\ sender' = [c \in Commands |-> IF Sending(c) \/ sender[c] = "hung" THEN "gone" ELSE sender[c]]
    BY <1>4 DEF StopOutput
  <2>2. \A c \in Commands : sender'[c] = "gone" \/ (sender'[c] = sender[c] /\ ~Sending(c))
    BY <2>1
  <2> QED BY <2>1, <2>2 DEF OutputInv, KnownTopicsExist, AcceptedCommandsExist, Sending
<1>5. OutputNext \/ UNCHANGED outputVars \/ StartOutput \/ StopOutput
  BY DEF Next, Start, Ready, Shutdown, Exit, Crash, NilPanic, EndsByMap, EndsByProducer, EndsByIncident,
    Ends, Intake, Http, Pipeline, Output, vars
<1> QED BY <1>1, <1>2, <1>3, <1>4, <1>5

LEMMA OutputInit1 == Init => OutputInv
BY DEF Init, OutputInit, OutputInv, KnownTopicsExist, AcceptedCommandsExist

(* EnsureTopic (lib/com/kafka/util.go:28-40) never skips a topic that does  *)
(* not exist, whatever goroutines create topics at the same time.           *)
THEOREM KnownTopics == Safety => []KnownTopicsExist
<1>1. Safety => []OutputInv
  BY OutputInit1, OutputStep, PTL DEF Safety
<1>2. OutputInv => KnownTopicsExist
  BY DEF OutputInv
<1> QED BY <1>1, <1>2, PTL

(* A message for which ProduceWithKey returned nil is where it should be or *)
(* with the async producer, or that producer has given it up.               *)
THEOREM AcceptedCommands == Safety => []AcceptedCommandsExist
<1>1. Safety => []OutputInv
  BY OutputInit1, OutputStep, PTL DEF Safety
<1>2. OutputInv => AcceptedCommandsExist
  BY DEF OutputInv
<1> QED BY <1>1, <1>2, PTL
=============================================================================
