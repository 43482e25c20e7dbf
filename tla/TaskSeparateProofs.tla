--------------------------- MODULE TaskSeparateProofs --------------------------
(***************************************************************************)
(* Goroutines that work side by side, but never two of them on the same    *)
(* task (Separate): for any groups, goroutines, retries, redeliveries and  *)
(* lost or late answers, and with any failures, the retries of a command   *)
(* are respected, but for one more count per failure.  A completed task    *)
(* leaves no metadata behind unless a failure has kept it (Forgets).  A    *)
(* task that was reported to have no results is not completed with results *)
(* unless a failure keeps metadata, takes back a count (Uncounts) or ends  *)
(* the work on the task after its report (Interrupts).                     *)
(*                                                                         *)
(* The argument has three parts.  What a goroutine has read of the         *)
(* counters is not less than what they are (Counting).  A task on which    *)
(* one works is not completed, and a group has no metadata without its     *)
(* parent, so whoever clears it finds it (Clearing).  After an incident    *)
(* the counters leave every later delivery of the task without a choice    *)
(* (Hopeless).  What another goroutine does concerns another task          *)
(* (CountingApart, ClearingApart, OutcomeStays).                           *)
(***************************************************************************)
EXTENDS TaskExecutionProofs

(* A goroutine takes its new state, the others keep theirs. *)
LEMMA Others ==
  ASSUME IInv, NEW g \in Handlers, NEW s, Become(g, s)
  PROVE  h'[g] = s /\ \A k \in Handlers : k # g => h'[k] = h[k]
BY DEF IInv, TypeOK, Become

(* A goroutine that works has a task of the engine. *)
LEMMA WorkingTask ==
  ASSUME IInv, NEW g \in Handlers, Working(h[g])
  PROVE  h[g].task \in Tasks
BY DEF IInv, Good, Placed, Working

(* Groups share no ids. *)
LEMMA FamiliesApart ==
  ASSUME NEW t \in Tasks, NEW u \in Tasks, NEW x \in Family(t), x \in Family(u)
  PROVE  t = u
BY FamilyAssumption DEF Family, Children

-----------------------------------------------------------------------------
(* The counters.                                                           *)

\* tries that failures may have added to those the store has counted
Slack == faults * (Limit + 1)

Counting(s) ==
  /\ s.missing \subseteq Children(s.task)
  /\ s.role = "none" <=> s.pc \in {"idle", "send"}
  /\ s.role = "response" => Scheduler # "parallel"
  /\ s.pc = "annotate" =>
       /\ Scheduler # "parallel"
       /\ \A c \in s.missing \ s.todo : tries[c] <= s.tries[c]
  /\ s.pc = "setRetry" \/ s.next = "setRetry" =>
       Scheduler = "parallel" /\ s.role = "camunda" /\ (Limit # -1 => s.seen <= Limit)
  /\ s.role = "camunda" =>
       /\ s.task \in Tasks /\ s.seen \in 0..retries[s.task]
       /\ Scheduler = "parallel" /\ Limit # -1 =>
            \A c \in Children(s.task) : attempted[c] <= s.seen + faults

CountInv ==
  /\ Scheduler # "parallel" /\ Limit # -1 =>
       \A c \in SubTasks : tries[c] <= Limit + 1 /\ attempted[c] <= tries[c] + Slack
  /\ Scheduler = "parallel" /\ Limit # -1 =>
       \A c \in SubTasks :
         /\ attempted[c] <= Limit + 1 + faults
         /\ engine[Parent[c]] = "open" => attempted[c] <= retries[Parent[c]] + faults
  /\ \A g \in Handlers : Counting(h[g])

(* What is counted, and by how much a step may change it. *)
LEMMA Counters ==
  ASSUME IInv
  PROVE  /\ faults \in Nat /\ Limit \in Int /\ (Limit # -1 => Limit \in Nat)
         /\ tries \in [SubTasks -> Nat] /\ attempted \in [SubTasks -> Nat] /\ retries \in [Tasks -> Nat]
         /\ \A c \in SubTasks : Parent[c] \in Tasks
<1>1. faults \in 0..MaxFaults /\ MaxFaults \in Nat
  BY ConfigAssumption DEF IInv, TypeOK
<1>2. Limit \in Nat \cup {-1}
  BY ConfigAssumption DEF Limit
<1>3. \A c \in SubTasks : Parent[c] \in Tasks
  BY GroupAssumption
<1> QED BY <1>1, <1>2, <1>3 DEF IInv, TypeOK

LEMMA SlackGrows ==
  ASSUME IInv, Limit # -1, faults' \in {faults, faults + 1}
  PROVE  /\ Slack \in Int /\ Slack' \in Int
         /\ Slack' = IF faults' = faults THEN Slack ELSE Slack + Limit + 1
<1>1. faults \in Nat /\ Limit \in Nat
  BY Counters
<1>2. Slack \in Int /\ Slack' = faults' * (Limit + 1)
  BY <1>1 DEF Slack, Limit
<1>3. (faults + 1) * (Limit + 1) = faults * (Limit + 1) + Limit + 1
  BY <1>1
<1>4. CASE faults' = faults
  BY <1>2, <1>4 DEF Slack
<1>5. CASE faults' = faults + 1
  <2>1. Slack' = Slack + Limit + 1
    BY <1>2, <1>3, <1>5 DEF Slack
  <2> QED BY <1>1, <1>2, <1>5, <2>1
<1> QED BY <1>4, <1>5

LEMMA CountingSending ==
  ASSUME NEW S
  PROVE  Counting(Idle) /\ Counting(Sending(S))
<1>1. Counting(Idle)
  BY DEF Idle, Counting
<1>2. Counting([Idle EXCEPT !.pc = "send", !.rest = S])
  BY DEF Idle, Counting
<1> QED BY <1>1, <1>2 DEF Sending

(* What a goroutine knows of the counters holds on while nothing is counted. *)
LEMMA CountingStays ==
  ASSUME IInv, NEW s, Counting(s), UNCHANGED <<tries, attempted, retries>>, faults' \in {faults, faults + 1}
  PROVE  Counting(s)'
<1>1. ASSUME s.role = "camunda", Scheduler = "parallel", Limit # -1, NEW c \in Children(s.task)
      PROVE  attempted'[c] <= s.seen + faults'
  <2>1. s.task \in Tasks /\ s.seen \in 0..retries[s.task] /\ attempted[c] <= s.seen + faults
    BY <1>1 DEF Counting
  <2>2. s.seen \in Nat /\ attempted[c] \in Nat /\ faults \in Nat
    BY <1>1, <2>1, Counters DEF Children
  <2> QED BY <2>1, <2>2
<1> QED BY <1>1 DEF Counting

(* What a goroutine knows of the counters holds on while another one counts for another task. *)
LEMMA CountingApart ==
  ASSUME IInv, Separate, NEW g \in Handlers, NEW k \in Handlers, k # g, Working(h[g]),
         NEW s, s = h[k], Counting(s),
         \A c \in SubTasks \ Children(h[g].task) : tries'[c] = tries[c] /\ attempted'[c] = attempted[c],
         \A t \in Tasks \ {h[g].task} : retries'[t] = retries[t],
         faults' \in {faults, faults + 1}
  PROVE  Counting(s)'
<1>1. s \in HandlerState /\ Good(s, answered, attempted) /\ Counting(s) /\ faults \in Nat
  BY Counters DEF IInv, Good
<1>2. ASSUME Working(s)
      PROVE  /\ s.task \in Tasks \ {h[g].task} /\ retries'[s.task] = retries[s.task]
             /\ \A c \in Children(s.task) : tries'[c] = tries[c] /\ attempted'[c] = attempted[c]
  <2>1. s.task \in Tasks \ {h[g].task}
    BY <1>2, WorkingTask DEF Separate
  <2>2. \A c \in Children(s.task) : c \in SubTasks \ Children(h[g].task)
    BY <2>1 DEF Children
  <2> QED BY <2>1, <2>2
<1>3. s.pc = "annotate" => Working(s)
  BY DEF Working
<1>4. s.role = "camunda" => Working(s)
  BY <1>1 DEF Counting, Good, Placed, Working
<1>5. ASSUME s.pc = "annotate", NEW c \in s.missing \ s.todo PROVE tries'[c] <= s.tries[c]
  BY <1>1, <1>2, <1>3, <1>5 DEF Counting
<1>6. ASSUME s.role = "camunda" PROVE s.task \in Tasks /\ s.seen \in 0..retries'[s.task]
  BY <1>1, <1>2, <1>4, <1>6 DEF Counting
<1>7. ASSUME s.role = "camunda", Scheduler = "parallel", Limit # -1, NEW c \in Children(s.task)
      PROVE  attempted'[c] <= s.seen + faults'
  <2>1. attempted'[c] = attempted[c] /\ attempted[c] <= s.seen + faults
    BY <1>1, <1>2, <1>4, <1>7 DEF Counting
  <2>2. attempted[c] \in Nat /\ s.seen \in Nat
    BY <1>1, <1>7, Counters DEF HandlerState, Children
  <2> QED BY <1>1, <2>1, <2>2
<1> QED BY <1>1, <1>5, <1>6, <1>7 DEF Counting

LEMMA CountingSettles ==
  ASSUME IInv, Separate, CountInv, NEW g \in Handlers, NEW s, Become(g, s), Counting(s)', Working(h[g]),
         \A c \in SubTasks \ Children(h[g].task) : tries'[c] = tries[c] /\ attempted'[c] = attempted[c],
         \A t \in Tasks \ {h[g].task} : retries'[t] = retries[t],
         faults' \in {faults, faults + 1}
  PROVE  (\A k \in Handlers : Counting(h[k]))'
<1> SUFFICES ASSUME NEW k \in Handlers PROVE Counting(h[k])'
  BY DEF Counting
<1>1. h'[g] = s /\ (k # g => h'[k] = h[k])
  BY Others
<1> PICK r : r = h'[k]
  OBVIOUS
<1>2. CASE k = g
  BY <1>1, <1>2 DEF Counting
<1>3. CASE k # g
  <2>1. r = h[k] /\ Counting(r)
    BY <1>1, <1>3 DEF CountInv
  <2>2. Counting(r)'
    BY <1>3, <2>1, CountingApart
  <2> QED BY <2>2 DEF Counting
<1> QED BY <1>2, <1>3

LEMMA CountsStay ==
  ASSUME IInv, CountInv, UNCHANGED <<tries, attempted, retries>>, faults' \in {faults, faults + 1},
         \A t \in Tasks : engine'[t] = "open" => engine[t] = "open"
  PROVE  /\ Scheduler # "parallel" /\ Limit # -1 =>
              \A c \in SubTasks : tries'[c] <= Limit + 1 /\ attempted'[c] <= tries'[c] + Slack'
         /\ Scheduler = "parallel" /\ Limit # -1 =>
              \A c \in SubTasks :
                /\ attempted'[c] <= Limit + 1 + faults'
                /\ engine'[Parent[c]] = "open" => attempted'[c] <= retries'[Parent[c]] + faults'
<1>1. /\ faults \in Nat /\ Limit \in Int /\ (Limit # -1 => Limit \in Nat)
      /\ tries \in [SubTasks -> Nat] /\ attempted \in [SubTasks -> Nat] /\ retries \in [Tasks -> Nat]
      /\ \A c \in SubTasks : Parent[c] \in Tasks
  BY Counters
<1>2. ASSUME Scheduler # "parallel", Limit # -1, NEW c \in SubTasks
      PROVE  tries'[c] <= Limit + 1 /\ attempted'[c] <= tries'[c] + Slack'
  <2>1. tries[c] <= Limit + 1 /\ attempted[c] <= tries[c] + Slack
    BY <1>2 DEF CountInv
  <2>2. Slack \in Int /\ Slack' \in Int /\ Slack <= Slack'
    BY <1>1, <1>2, SlackGrows
  <2> QED BY <1>1, <2>1, <2>2
<1>3. ASSUME Scheduler = "parallel", Limit # -1, NEW c \in SubTasks
      PROVE  /\ attempted'[c] <= Limit + 1 + faults'
             /\ engine'[Parent[c]] = "open" => attempted'[c] <= retries'[Parent[c]] + faults'
  BY <1>1, <1>3 DEF CountInv
<1> QED BY <1>2, <1>3

LEMMA CountTurn ==
  ASSUME IInv, CountInv, NEW g \in Handlers, NEW s, Become(g, s), Counting(s),
         UNCHANGED <<tries, attempted, retries>>, faults' \in {faults, faults + 1},
         \A t \in Tasks : engine'[t] = "open" => engine[t] = "open"
  PROVE  CountInv'
<1>1. \A k \in Handlers : h'[k] = s \/ h'[k] = h[k]
  BY Others
<1>2. ASSUME NEW k \in Handlers PROVE Counting(h[k])'
  <2> PICK r : r = h'[k]
    OBVIOUS
  <2>1. Counting(r)
    BY <1>1 DEF CountInv
  <2>2. Counting(r)'
    BY <2>1, CountingStays
  <2> QED BY <2>2 DEF Counting
<1> QED BY <1>2, CountsStay DEF CountInv

(* The steps that end a task or a response. *)
LEMMA EndCount ==
  ASSUME IInv, CountInv, NEW g \in Handlers,
         \/ RejectTask(g) \/ IgnoreTask(g) \/ NothingToSend(g) \/ ReportNoResults(g)
         \/ CompleteCached(g) \/ CompleteAccepted(g) \/ CompleteRejected(g) \/ OrphanResponse(g)
         \/ ProduceCommand(g) \/ BuildFails(g) \/ CompleteUnreachable(g) \/ CompleteAnswerLost(g)
  PROVE  CountInv'
<1>1. PICK s : Become(g, s) /\ (s = Idle \/ \E S : s = Sending(S))
  BY DEF RejectTask, IgnoreTask, NothingToSend, ReportNoResults, CompleteCached, CompleteAccepted,
         CompleteRejected, OrphanResponse, ProduceCommand, BuildFails, CompleteUnreachable,
         CompleteAnswerLost, Local, Resume, AfterComplete
<1>2. /\ UNCHANGED <<tries, attempted, retries>> /\ faults' \in {faults, faults + 1}
      /\ \A t \in Tasks : engine'[t] = "open" => engine[t] = "open"
  <2>1. engine \in [Tasks -> {"open", "completed", "failed"}]
    BY DEF IInv, TypeOK
  <2>2. CASE \/ RejectTask(g) \/ IgnoreTask(g) \/ NothingToSend(g) \/ ReportNoResults(g)
             \/ CompleteCached(g) \/ CompleteRejected(g) \/ OrphanResponse(g)
             \/ ProduceCommand(g) \/ CompleteUnreachable(g)
    BY <2>2 DEF RejectTask, IgnoreTask, NothingToSend, ReportNoResults, CompleteCached,
         CompleteRejected, OrphanResponse, ProduceCommand, CompleteUnreachable, Fault,
         Local, Report, store, camunda, history
  <2>3. CASE BuildFails(g)
    BY <2>3 DEF BuildFails, SplitFails, MessageFails, Fault, Report, store, camunda
  <2>4. CASE CompleteAccepted(g) \/ CompleteAnswerLost(g)
    BY <2>1, <2>4 DEF CompleteAccepted, CompleteAnswerLost, Fault, store, history
  <2> QED BY <2>2, <2>3, <2>4
<1> QED BY <1>1, <1>2, CountingSending, CountTurn

(* The steps that go on with a task. *)
LEMMA MoveCount ==
  ASSUME IInv, CountInv, NEW g \in Handlers,
         \/ AcceptTask(g) \/ SaveCallInfo(g) \/ FoundMeta(g) \/ SplitTask(g)
         \/ SaveParentMeta(g) \/ SaveChildMeta(g) \/ GetResult(g) \/ StartAnnotate(g)
         \/ AnnotateSubTaskState(g) \/ Exhausted(g) \/ ScheduleParallel(g)
         \/ ClearTaskData(g) \/ DeleteMeta(g) \/ DeleteResult(g) \/ FinishGroup(g)
  PROVE  CountInv'
<1>1. h[g] \in HandlerState /\ Good(h[g], answered, attempted) /\ Counting(h[g])
  BY DEF IInv, Good, CountInv
<1>2. UNCHANGED <<tries, attempted, retries, engine, faults>>
  BY DEF AcceptTask, SaveCallInfo, FoundMeta, SplitTask, SaveParentMeta, SaveChildMeta, GetResult,
         StartAnnotate, AnnotateSubTaskState, Exhausted, ScheduleParallel, ClearTaskData, DeleteMeta,
         DeleteResult, FinishGroup, Local, store, camunda, history
<1>3. ASSUME NEW s, Become(g, s), Counting(s) PROVE CountInv'
  BY <1>2, <1>3, CountTurn
<1>4. CASE AcceptTask(g)
  BY <1>1, <1>3, <1>4 DEF AcceptTask, At, Local, HandlerState, Counting
<1>5. CASE SaveCallInfo(g)
  BY <1>1, <1>3, <1>5 DEF SaveCallInfo, At, HandlerState, Counting
<1>6. CASE FoundMeta(g)
  BY <1>1, <1>3, <1>6 DEF FoundMeta, At, Local, HandlerState, Counting
<1>7. CASE SplitTask(g)
  BY <1>1, <1>3, <1>7 DEF SplitTask, At, Local, HandlerState, Counting
<1>8. CASE SaveParentMeta(g) \/ SaveChildMeta(g)
  BY <1>1, <1>3, <1>8 DEF SaveParentMeta, SaveChildMeta, At, HandlerState, Counting
<1>9. CASE GetResult(g)
  <2>1. h[g].pc = "getResults" /\ h[g].todo \subseteq Children(h[g].task)
    BY <1>1, <1>9 DEF GetResult, At, Good, Scanned
  <2>2. PICK c \in h[g].todo :
          \/ Become(g, [h[g] EXCEPT !.todo = @ \ {c}, !.got = @ \cup {c}])
          \/ Become(g, [h[g] EXCEPT !.todo = @ \ {c}, !.missing = @ \cup {c}])
    BY <1>9 DEF GetResult, Local
  <2>3. /\ Counting([h[g] EXCEPT !.todo = @ \ {c}, !.got = @ \cup {c}])
        /\ Counting([h[g] EXCEPT !.todo = @ \ {c}, !.missing = @ \cup {c}])
    BY <1>1, <2>1 DEF HandlerState, Counting
  <2> QED BY <1>3, <2>2, <2>3
<1>10. CASE StartAnnotate(g)
  BY <1>1, <1>3, <1>10 DEF StartAnnotate, RequestsBuilt, At, Local, HandlerState, Counting
<1>11. CASE AnnotateSubTaskState(g)
  <2>1. h[g].pc = "annotate"
    BY <1>11 DEF AnnotateSubTaskState, At
  <2>2. PICK c \in h[g].todo :
          Become(g, [h[g] EXCEPT !.todo = @ \ {c}, !.tries[c] = tries[c],
                                 !.fresh = IF c \in running THEN @ \cup {c} ELSE @])
    BY <1>11 DEF AnnotateSubTaskState, Local
  <2> PICK s : s = [h[g] EXCEPT !.todo = @ \ {c}, !.tries[c] = tries[c],
                                !.fresh = IF c \in running THEN @ \cup {c} ELSE @]
    OBVIOUS
  <2>3. /\ s.pc = "annotate" /\ s.missing = h[g].missing /\ s.todo = h[g].todo \ {c}
        /\ s.role = h[g].role /\ s.task = h[g].task /\ s.seen = h[g].seen /\ s.next = h[g].next
        /\ s.tries = [h[g].tries EXCEPT ![c] = tries[c]]
    BY <1>1, <2>1 DEF HandlerState
  <2>4. ASSUME NEW d \in s.missing \ s.todo
        PROVE  tries[d] <= s.tries[d]
    <3>1. d \in SubTasks /\ tries[d] \in Nat /\ h[g].tries \in [SubTasks -> Nat]
      BY <1>1, <2>3, <2>4, Counters DEF HandlerState
    <3>2. CASE d = c
      BY <2>3, <3>1, <3>2
    <3>3. CASE d # c
      BY <1>1, <2>1, <2>3, <2>4, <3>1, <3>3 DEF Counting
    <3> QED BY <3>2, <3>3
  <2>5. Counting(s)
    BY <1>1, <2>1, <2>3, <2>4 DEF Counting
  <2> QED BY <1>3, <2>2, <2>5
<1>12. CASE Exhausted(g)
  BY <1>1, <1>3, <1>12 DEF Exhausted, At, Local, HandlerState, Counting
<1>13. CASE ScheduleParallel(g)
  <2> PICK s : s = [h[g] EXCEPT
         !.pc = IF h[g].missing = {} \/ NoMoreRetries(g) THEN "clear" ELSE "setRetry",
         !.next = CASE ~NoMoreRetries(g) -> "setRetry"
                    [] NoMoreRetries(g) /\ h[g].got = {} -> "noResults"
                    [] OTHER -> "complete"]
    OBVIOUS
  <2>1. Become(g, s) /\ Scheduler = "parallel" /\ h[g].role # "result" /\ h[g].pc \in {"getResults", "saveChildren"}
    BY <1>13 DEF ScheduleParallel, RequestsBuilt, At, Local
  <2>2. /\ s.pc \in {"clear", "setRetry"} /\ s.missing = h[g].missing /\ s.role = h[g].role
        /\ s.task = h[g].task /\ s.seen = h[g].seen
        /\ s.pc = "setRetry" \/ s.next = "setRetry" => ~NoMoreRetries(g)
    BY <1>1 DEF HandlerState
  <2>3. h[g].role = "camunda" /\ h[g].seen \in Nat /\ Limit \in Int
    BY <1>1, <2>1, LimitType DEF HandlerState, Counting
  <2>4. Counting(s)
    BY <1>1, <2>1, <2>2, <2>3 DEF Counting, NoMoreRetries
  <2> QED BY <1>3, <2>1, <2>4
<1>14. ASSUME h[g].pc \in {"clear", "deleteMeta", "deleteResult"}
       PROVE  h[g].next \in {"setRetry", "noResults", "complete"} /\ h[g].role # "none"
  BY <1>1, <1>14 DEF Good, Placed, HandlerState, Counting
<1>15. CASE ClearTaskData(g)
  BY <1>1, <1>3, <1>14, <1>15 DEF ClearTaskData, At, Local, HandlerState, Counting
<1>16. CASE DeleteMeta(g)
  BY <1>1, <1>3, <1>14, <1>16 DEF DeleteMeta, At, HandlerState, Counting
<1>17. CASE DeleteResult(g)
  BY <1>1, <1>3, <1>14, <1>17 DEF DeleteResult, At, HandlerState, Counting
<1>18. CASE FinishGroup(g)
  BY <1>1, <1>3, <1>18 DEF FinishGroup, At, Local, HandlerState, Counting
<1> QED BY <1>4, <1>5, <1>6, <1>7, <1>8, <1>9, <1>10, <1>11, <1>12, <1>13, <1>15, <1>16, <1>17, <1>18

(* The steps that begin with a task or a response. *)
LEMMA BeginCount ==
  ASSUME IInv, CountInv, NEW g \in Handlers,
         \/ \E t \in Tasks : Fetch(g, t)
         \/ \E c \in SubTasks : TakeResponse(g, c)
         \/ AskLastValue(g) \/ SetSubResult(g) \/ ContinueGroup(g)
  PROVE  CountInv'
<1>1. h[g] \in HandlerState /\ Good(h[g], answered, attempted) /\ Counting(h[g])
  BY DEF IInv, Good, CountInv
<1>2. UNCHANGED <<tries, attempted, retries, engine>> /\ faults' \in {faults, faults + 1}
  BY DEF Fetch, TakeResponse, AskLastValue, SetSubResult, ContinueGroup, Fault, Local, store, camunda, history
<1>3. ASSUME NEW s, Become(g, s), Counting(s) PROVE CountInv'
  BY <1>2, <1>3, CountTurn
<1>4. ASSUME NEW t \in Tasks, Fetch(g, t) PROVE CountInv'
  <2> PICK s : s = [Idle EXCEPT !.pc = "execute", !.role = "camunda", !.task = t, !.seen = retries[t]]
    OBVIOUS
  <2>1. Become(g, s) /\ engine[t] = "open"
    BY <1>4 DEF Fetch
  <2>2. \A c \in Children(t) : Scheduler = "parallel" /\ Limit # -1 => attempted[c] <= retries[t] + faults
    BY <2>1 DEF CountInv, Children
  <2>3. retries[t] \in 0..retries[t]
    <3>1. retries \in [Tasks -> Nat]
      BY DEF IInv, TypeOK
    <3> QED BY <3>1
  <2>4. Counting(s)
    BY <2>2, <2>3 DEF Idle, Counting
  <2> QED BY <1>3, <2>1, <2>4
<1>5. ASSUME NEW c, NEW S
      PROVE  Counting([Idle EXCEPT !.pc = "setResult", !.role = "result", !.sub = c, !.rest = S])
  BY DEF Idle, Counting
<1>6. ASSUME NEW c \in SubTasks, TakeResponse(g, c) PROVE CountInv'
  <2>1. \/ Become(g, Idle)
        \/ Become(g, [Idle EXCEPT !.pc = "setResult", !.role = "result", !.sub = c])
    BY <1>6 DEF TakeResponse
  <2>2. Counting([Idle EXCEPT !.pc = "setResult", !.role = "result", !.sub = c])
    BY DEF Idle, Counting
  <2> QED BY <1>3, <2>1, <2>2, CountingSending
<1>7. CASE AskLastValue(g)
  <2>1. PICK c \in h[g].rest :
          \/ Become(g, [Idle EXCEPT !.pc = "setResult", !.role = "result", !.sub = c,
                                    !.rest = h[g].rest \ {c}])
          \/ Become(g, Sending(h[g].rest \ {c})) \/ Become(g, Idle)
    BY <1>7 DEF AskLastValue, Local
  <2> QED BY <1>3, <1>5, <2>1, CountingSending
<1>8. CASE SetSubResult(g)
  BY <1>1, <1>3, <1>8 DEF SetSubResult, At, Good, Placed, HandlerState, Counting
<1>9. CASE ContinueGroup(g)
  <2>1. CASE Scheduler = "parallel"
    BY <1>3, <1>9, <2>1, CountingSending DEF ContinueGroup, Local, Resume
  <2>2. CASE Scheduler # "parallel"
    <3> PICK s : s = [Idle EXCEPT !.pc = "execute", !.role = "response", !.task = h[g].task,
                                  !.rest = h[g].rest]
      OBVIOUS
    <3>1. Counting(s)
      BY <2>2 DEF Idle, Counting
    <3>2. Become(g, s)
      BY <1>9, <2>2 DEF ContinueGroup, Local
    <3> QED BY <1>3, <3>1, <3>2
  <2> QED BY <2>1, <2>2
<1> QED BY <1>4, <1>6, <1>7, <1>8, <1>9

(* A try: the count that was read is still the one of the store, unless that was lost. *)
LEMMA UpdateSubTaskStateCount ==
  ASSUME IInv, Separate, CountInv, NEW g \in Handlers, UpdateSubTaskState(g)
  PROVE  CountInv'
<1>1. PICK c \in SubTasks :
        /\ At(g, "annotate") /\ h[g].todo = {} /\ NextRequest(g, c)
        /\ tries' = [tries EXCEPT ![c] = h[g].tries[c] + 1]
        /\ attempted' = [attempted EXCEPT ![c] = @ + 1]
        /\ Become(g, Sending({c}))
  BY DEF UpdateSubTaskState
<1>2. /\ tries \in [SubTasks -> Nat] /\ attempted \in [SubTasks -> Nat] /\ Limit \in Int
      /\ h[g] \in HandlerState /\ Counting(h[g]) /\ UNCHANGED <<retries, engine, faults>>
  BY Counters DEF IInv, Good, CountInv, UpdateSubTaskState, camunda
<1>3. c \in h[g].missing /\ MayTry(g, c) /\ Scheduler # "parallel" /\ tries[c] <= h[g].tries[c]
  BY <1>1, <1>2 DEF NextRequest, IsFirst, FilterCurrentlyRunning, FilterRetries, Counting, At
<1>4. h[g].tries[c] \in Nat
  BY <1>2 DEF HandlerState
<1>5. ASSUME Limit # -1, NEW d \in SubTasks
      PROVE  tries'[d] <= Limit + 1 /\ attempted'[d] <= tries'[d] + Slack'
  <2>1. Slack' = Slack /\ Slack \in Int
    BY <1>2, <1>5, SlackGrows
  <2>2. tries[d] <= Limit + 1 /\ attempted[d] <= tries[d] + Slack
    BY <1>3, <1>5 DEF CountInv
  <2>3. h[g].tries[c] <= Limit
    BY <1>3, <1>5 DEF MayTry
  <2> QED BY <1>1, <1>2, <1>3, <1>4, <2>1, <2>2, <2>3
<1>6. (\A k \in Handlers : Counting(h[k]))'
  <2> PICK s : s = Sending({c})
    OBVIOUS
  <2>1. Counting(s)'
    BY DEF Sending, Idle, Counting
  <2>2. Working(h[g]) /\ c \in Children(h[g].task)
    BY <1>1, <1>2, <1>3 DEF Working, At, Counting
  <2>3. \A d \in SubTasks \ Children(h[g].task) : tries'[d] = tries[d] /\ attempted'[d] = attempted[d]
    BY <1>1, <1>2, <2>2
  <2>4. \A t \in Tasks \ {h[g].task} : retries'[t] = retries[t]
    BY <1>2
  <2> QED BY <1>1, <1>2, <2>1, <2>2, <2>3, <2>4, CountingSettles
<1> QED BY <1>3, <1>5, <1>6 DEF CountInv

(* A try of the parallel scheduler: the engine counts with it, unless the request fails. *)
LEMMA SetRetryCount ==
  ASSUME IInv, Separate, CountInv, NEW g \in Handlers, SetRetry(g)
  PROVE  CountInv'
<1> PICK t : t = h[g].task
  OBVIOUS
<1>1. h[g] \in HandlerState /\ Counting(h[g]) /\ h[g].pc = "setRetry"
  BY DEF IInv, Good, CountInv, SetRetry, At
<1>2. /\ Scheduler = "parallel" /\ h[g].role = "camunda" /\ (Limit # -1 => h[g].seen <= Limit)
      /\ t \in Tasks /\ h[g].seen \in Nat /\ h[g].seen \in 0..retries[t] /\ h[g].missing \subseteq Children(t)
      /\ Limit # -1 => \A c \in Children(t) : attempted[c] <= h[g].seen + faults
  BY <1>1 DEF Counting, HandlerState
<1>3. /\ attempted \in [SubTasks -> Nat] /\ retries \in [Tasks -> Nat] /\ Limit \in Int /\ faults \in Nat
      /\ UNCHANGED <<tries, engine>>
      /\ attempted' = [c \in SubTasks |-> IF c \in h[g].missing THEN attempted[c] + 1 ELSE attempted[c]]
  BY Counters DEF SetRetry, store
<1>4. \/ engine[t] = "open" /\ retries' = [retries EXCEPT ![t] = h[g].seen + 1] /\ faults' = faults
      \/ engine[t] # "open" /\ retries' = retries /\ faults' = faults
      \/ retries' = retries /\ faults' = faults + 1
  BY DEF SetRetry, Fault
<1>5. ASSUME Limit # -1, NEW c \in SubTasks PROVE attempted'[c] <= Limit + 1 + faults'
  <2>1. attempted[c] <= Limit + 1 + faults
    BY <1>2, <1>5 DEF CountInv
  <2>2. c \in h[g].missing => attempted[c] <= Limit + faults
    BY <1>2, <1>3, <1>5
  <2> QED BY <1>3, <1>4, <2>1, <2>2
<1>6. ASSUME Limit # -1, NEW c \in SubTasks, engine'[Parent[c]] = "open"
      PROVE  attempted'[c] <= retries'[Parent[c]] + faults'
  <2>1. Parent[c] \in Tasks /\ attempted[c] <= retries[Parent[c]] + faults
    BY <1>2, <1>3, <1>6, GroupAssumption DEF CountInv
  <2>2. CASE Parent[c] = t
    <3>1. /\ attempted[c] <= h[g].seen + faults
          /\ attempted'[c] <= attempted[c] + 1 /\ attempted[c] \in Nat /\ attempted'[c] \in Nat
      BY <1>2, <1>3, <1>6, <2>2 DEF Children
    <3>2. \/ retries'[t] = h[g].seen + 1 /\ faults' = faults
          \/ retries'[t] = retries[t] /\ faults' = faults + 1
      BY <1>2, <1>3, <1>4, <1>6, <2>2
    <3>3. h[g].seen <= retries[t] /\ retries[t] \in Nat
      BY <1>2, <1>3
    <3> QED BY <1>2, <1>3, <2>2, <3>1, <3>2, <3>3
  <2>3. CASE Parent[c] # t
    <3>1. c \notin h[g].missing /\ retries'[Parent[c]] = retries[Parent[c]]
      BY <1>2, <1>3, <1>4, <2>1, <2>3 DEF Children
    <3> QED BY <1>3, <1>4, <2>1, <3>1
  <2> QED BY <2>2, <2>3
<1>7. (\A k \in Handlers : Counting(h[k]))'
  <2>3. Working(h[g])
    BY <1>1 DEF Working
  <2>4. \A c \in SubTasks \ Children(t) : tries'[c] = tries[c] /\ attempted'[c] = attempted[c]
    BY <1>2, <1>3
  <2>5. (\A u \in Tasks \ {t} : retries'[u] = retries[u]) /\ faults' \in {faults, faults + 1}
    BY <1>2, <1>3, <1>4
  <2>1. CASE h[g].missing # {} /\ ~Optimistic
    <3> PICK s : s = Sending(h[g].missing)
      OBVIOUS
    <3>1. Become(g, s)
      BY <2>1 DEF SetRetry
    <3>2. Counting(s)'
      BY DEF Sending, Idle, Counting
    <3> QED BY <2>3, <2>4, <2>5, <3>1, <3>2, CountingSettles
  <2>2. CASE h[g].missing = {} \/ Optimistic
    <3> PICK s : s = [h[g] EXCEPT !.pc = "complete"]
      OBVIOUS
    <3>1. Become(g, s)
      BY <2>2 DEF SetRetry
    <3>2. h[g].seen \in 0..retries'[t]
      <4>1. retries'[t] = h[g].seen + 1 \/ retries'[t] = retries[t]
        BY <1>2, <1>3, <1>4
      <4> QED BY <1>2, <4>1
    <3>3. ASSUME Limit # -1, NEW c \in Children(t) PROVE attempted'[c] <= h[g].seen + faults'
      <4>1. h[g].missing = {} /\ c \in SubTasks
        BY <2>2, <3>3 DEF Limit, Children
      <4>2. attempted'[c] = attempted[c] /\ attempted[c] \in Nat /\ attempted[c] <= h[g].seen + faults
        BY <1>2, <1>3, <3>3, <4>1
      <4> QED BY <1>2, <1>3, <1>4, <4>2
    <3>4. /\ s.pc = "complete" /\ s.missing = h[g].missing /\ s.role = "camunda" /\ s.task = t
          /\ s.seen = h[g].seen /\ s.next = h[g].next
      BY <1>1, <1>2 DEF HandlerState
    <3>5. Counting(s)'
      BY <1>1, <1>2, <3>2, <3>3, <3>4 DEF Counting
    <3> QED BY <2>3, <2>4, <2>5, <3>1, <3>5, CountingSettles
  <2> QED BY <2>1, <2>2
<1> QED BY <1>2, <1>5, <1>6, <1>7 DEF CountInv

(* A failed operation of the store counts nothing. *)
LEMMA StoreFailsCount ==
  ASSUME IInv, CountInv, NEW g \in Handlers, StoreFails(g)
  PROVE  CountInv'
<1>1. h[g] \in HandlerState /\ Good(h[g], answered, attempted) /\ Counting(h[g])
  BY DEF IInv, Good, CountInv
<1>2. UNCHANGED <<tries, attempted, retries, engine>> /\ faults' \in {faults, faults + 1}
  BY DEF StoreFails, Fault, store, camunda
<1>3. ASSUME NEW s, Become(g, s), Counting(s) PROVE CountInv'
  BY <1>2, <1>3, CountTurn
<1>4. \/ Become(g, Resume(g))
      \/ At(g, "save") /\ Become(g, [h[g] EXCEPT !.pc = "getMeta"])
      \/ At(g, "clear") /\ Become(g, [h[g] EXCEPT !.pc = h[g].next])
      \/ At(g, "deleteMeta") /\ Become(g, [h[g] EXCEPT !.pc = "deleteResult"])
      \/ /\ At(g, "deleteResult")
         /\ \E x \in h[g].todo :
              Become(g, [h[g] EXCEPT !.todo = @ \ {x},
                                     !.pc = IF h[g].todo = {x} THEN h[g].next ELSE "deleteMeta"])
  BY DEF StoreFails
<1>5. ASSUME h[g].pc \in {"clear", "deleteMeta", "deleteResult"}
      PROVE  h[g].next \in {"setRetry", "noResults", "complete"} /\ h[g].role # "none"
  BY <1>1, <1>5 DEF Good, Placed, HandlerState, Counting
<1>6. CASE Become(g, Resume(g))
  BY <1>3, <1>6, CountingSending DEF Resume
<1>7. CASE At(g, "save") /\ Become(g, [h[g] EXCEPT !.pc = "getMeta"])
  BY <1>1, <1>3, <1>7 DEF At, HandlerState, Counting
<1>8. CASE At(g, "clear") /\ Become(g, [h[g] EXCEPT !.pc = h[g].next])
  BY <1>1, <1>3, <1>5, <1>8 DEF At, HandlerState, Counting
<1>9. CASE At(g, "deleteMeta") /\ Become(g, [h[g] EXCEPT !.pc = "deleteResult"])
  BY <1>1, <1>3, <1>5, <1>9 DEF At, HandlerState, Counting
<1>10. CASE /\ At(g, "deleteResult")
            /\ \E x \in h[g].todo :
                 Become(g, [h[g] EXCEPT !.todo = @ \ {x},
                                        !.pc = IF h[g].todo = {x} THEN h[g].next ELSE "deleteMeta"])
  BY <1>1, <1>3, <1>5, <1>10 DEF At, HandlerState, Counting
<1> QED BY <1>4, <1>6, <1>7, <1>8, <1>9, <1>10

(* A restart and an expired entry lose the counts of the store; the slack makes up for them. *)
LEMMA LossCount ==
  ASSUME IInv, CountInv, Restart \/ EntryExpires
  PROVE  CountInv'
<1>1. /\ faults \in Nat /\ Limit \in Int /\ (Limit # -1 => Limit \in Nat)
      /\ tries \in [SubTasks -> Nat] /\ attempted \in [SubTasks -> Nat] /\ retries \in [Tasks -> Nat]
      /\ \A c \in SubTasks : Parent[c] \in Tasks
  BY Counters
<1>2. UNCHANGED <<attempted, retries, engine>> /\ faults' = faults + 1
  BY <1>1 DEF Restart, EntryExpires, Fault, camunda, history
<1>3. \A c \in SubTasks : tries'[c] = tries[c] \/ tries'[c] = 0
  BY <1>1 DEF Restart, EntryExpires, store
<1>4. ASSUME Scheduler # "parallel", Limit # -1, NEW c \in SubTasks
      PROVE  tries'[c] <= Limit + 1 /\ attempted'[c] <= tries'[c] + Slack'
  <2>1. tries[c] <= Limit + 1 /\ attempted[c] <= tries[c] + Slack
    BY <1>4 DEF CountInv
  <2>2. Slack \in Int /\ Slack' = Slack + Limit + 1
    BY <1>1, <1>2, <1>4, SlackGrows
  <2> QED BY <1>1, <1>2, <1>3, <2>1, <2>2
<1>5. ASSUME Scheduler = "parallel", Limit # -1, NEW c \in SubTasks
      PROVE  /\ attempted'[c] <= Limit + 1 + faults'
             /\ engine'[Parent[c]] = "open" => attempted'[c] <= retries'[Parent[c]] + faults'
  BY <1>1, <1>2, <1>5 DEF CountInv
<1>6. ASSUME NEW g \in Handlers PROVE Counting(h[g])'
  <2>1. h'[g] = Idle \/ h'[g] = h[g]
    BY DEF Restart, EntryExpires
  <2>2. CASE h'[g] = Idle
    BY <2>2 DEF Counting, Idle
  <2>3. CASE h'[g] = h[g]
    <3> PICK s : s = h[g]
      OBVIOUS
    <3>1. s \in HandlerState /\ Counting(s)
      BY DEF IInv, Good, CountInv
    <3>2. ASSUME s.pc = "annotate", NEW c \in s.missing \ s.todo PROVE tries'[c] <= s.tries[c]
      <4>1. c \in SubTasks /\ tries[c] <= s.tries[c] /\ s.tries[c] \in Nat
        BY <3>1, <3>2 DEF Counting, HandlerState
      <4> QED BY <1>1, <1>3, <4>1
    <3>3. ASSUME s.role = "camunda", Scheduler = "parallel", Limit # -1, NEW c \in Children(s.task)
          PROVE  attempted'[c] <= s.seen + faults'
      <4>1. c \in SubTasks /\ attempted[c] <= s.seen + faults /\ s.seen \in Nat
        BY <3>1, <3>3 DEF Counting, HandlerState, Children
      <4> QED BY <1>1, <1>2, <4>1
    <3> QED BY <1>2, <2>3, <3>1, <3>2, <3>3 DEF Counting
  <2> QED BY <2>1, <2>2, <2>3
<1> QED BY <1>4, <1>5, <1>6 DEF CountInv

(* Time, the engine and the devices count nothing. *)
LEMMA OutsideCount ==
  ASSUME IInv, CountInv,
         \/ \E t \in Tasks : \/ CallTimesOut(t) \/ CacheExpires(t) \/ LockExpires(t)
                             \/ LateComplete(t) \/ HandleIncident(t) \/ LoseIncident(t)
         \/ \E c \in SubTasks : \/ TryTimesOut(c) \/ DeviceAnswers(c) \/ DeviceFails(c) \/ LoseMessage(c)
         \/ UNCHANGED vars
  PROVE  CountInv'
<1>1. UNCHANGED <<tries, attempted, retries, h>> /\ faults' \in {faults, faults + 1}
  BY DEF CallTimesOut, CacheExpires, LockExpires, LateComplete, HandleIncident, LoseIncident,
         TryTimesOut, DeviceAnswers, DeviceFails, LoseMessage, Fault, vars, store, camunda, channels, history
<1>2. \A t \in Tasks : engine'[t] = "open" => engine[t] = "open"
  BY DEF CallTimesOut, CacheExpires, LockExpires, LateComplete, HandleIncident, LoseIncident,
         TryTimesOut, DeviceAnswers, DeviceFails, LoseMessage, vars, store, camunda, channels, history,
         IInv, TypeOK
<1>3. ASSUME NEW g \in Handlers PROVE Counting(h[g])'
  <2> PICK s : s = h[g]
    OBVIOUS
  <2>1. Counting(s) /\ h'[g] = s
    BY <1>1 DEF CountInv
  <2>2. Counting(s)'
    BY <1>1, <2>1, CountingStays
  <2> QED BY <2>1, <2>2 DEF Counting
<1> QED BY <1>1, <1>2, <1>3, CountsStay DEF CountInv

LEMMA CountNext == ASSUME IInv, Separate, CountInv, [Next]_vars PROVE CountInv'
<1>1. ASSUME NEW g \in Handlers, Step(g) PROVE CountInv'
  BY <1>1, EndCount, MoveCount, BeginCount, UpdateSubTaskStateCount, SetRetryCount DEF Step, Command, Response
<1>2. ASSUME NEW g \in Handlers, Failure(g) PROVE CountInv'
  BY <1>2, EndCount, StoreFailsCount DEF Failure
<1> QED BY <1>1, <1>2, BeginCount, LossCount, OutsideCount DEF Next

LEMMA CountInit == Init => CountInv
<1> SUFFICES ASSUME Init PROVE CountInv
  OBVIOUS
<1>1. \A g \in Handlers : Counting(h[g])
  BY CountingSending DEF Init
<1>2. Limit \in Nat \cup {-1} /\ Parent \in [SubTasks -> Tasks]
  BY ConfigAssumption, GroupAssumption DEF Limit
<1>3. Limit # -1 => Slack = 0
  BY <1>2 DEF Init, Slack
<1> QED BY <1>1, <1>2, <1>3 DEF Init, CountInv

LEMMA CountBounds == ASSUME IInv, CountInv PROVE RetriesAreRespected
<1> SUFFICES ASSUME Limit # -1, NEW c \in SubTasks PROVE attempted[c] <= (faults + 1) * (Limit + 1)
  BY DEF RetriesAreRespected
<1>1. /\ faults \in Nat /\ Limit \in Nat /\ tries[c] \in Nat /\ attempted[c] \in Nat
  BY Counters
<1>2. (faults + 1) * (Limit + 1) = faults * (Limit + 1) + Limit + 1
  BY <1>1
<1>3. CASE Scheduler # "parallel"
  <2>1. tries[c] <= Limit + 1 /\ attempted[c] <= tries[c] + faults * (Limit + 1)
    BY <1>3 DEF CountInv, Slack
  <2>2. faults * (Limit + 1) \in Nat
    BY <1>1
  <2> QED BY <1>1, <1>2, <2>1, <2>2
<1>4. CASE Scheduler = "parallel"
  <2>1. attempted[c] <= Limit + 1 + faults
    BY <1>4 DEF CountInv
  <2>2. faults * (Limit + 1) = faults * Limit + faults /\ faults * Limit \in Nat
    BY <1>1
  <2> QED BY <1>1, <1>2, <2>1, <2>2
<1> QED BY <1>3, <1>4

(* The counts of the store (lib/devicegroups: ststate.<id>) and of the engine are the numbers of  *)
(* tries, but for those that failures have lost: a command is tried at most once more than it has *)
(* retries, and a failure lets the count of a sub task begin again at most once.                  *)
THEOREM Respected == Safety /\ []Separate => []RetriesAreRespected
<1>1. Init => CountInv
  BY CountInit
<1>2. IInv /\ Separate /\ CountInv /\ [Next]_vars => CountInv'
  BY CountNext
<1>3. IInv /\ CountInv => RetriesAreRespected
  BY CountBounds
<1> QED BY <1>1, <1>2, <1>3, Invariance, PTL DEF Safety

-----------------------------------------------------------------------------
(* The metadata of a group.                                                *)

Kept(t) == meta \cap Family(t)

Deleting(s) == s.pc \in {"deleteMeta", "deleteResult"}

Clearing(s) ==
  /\ Working(s) => engine[s.task] # "completed"
  /\ s.pc = "saveChildren" => s.task \in meta /\ s.todo \subseteq Children(s.task)
  /\ Deleting(s) => s.todo # {} /\ s.todo \subseteq Family(s.task)
  /\ s.pc = "deleteMeta" => Kept(s.task) \subseteq s.todo
  /\ s.pc = "deleteResult" =>
       \A x \in s.todo : IsFirst(x, s.todo) => Kept(s.task) \subseteq s.todo \ {x}
  /\ s.pc \in {"noResults", "complete"} \/ (s.pc = "setRetry" /\ s.missing = {}) => Kept(s.task) = {}

MetaInv ==
  ~Optimistic =>
    /\ \A t \in Tasks : engine[t] = "completed" => Kept(t) = {}
    /\ \A c \in meta \cap SubTasks : Parent[c] \in meta
    /\ \A g \in Handlers : Clearing(h[g])

(* There is one first id of a group. *)
LEMMA OneFirst ==
  ASSUME NEW t \in Tasks, NEW S \in SUBSET Family(t), NEW x, NEW y, IsFirst(x, S), IsFirst(y, S)
  PROVE  x = y
<1>1. x \in Family(t) /\ y \in Family(t) /\ Pos[x] <= Pos[y] /\ Pos[y] <= Pos[x]
  BY DEF IsFirst
<1>2. Pos[x] \in Nat /\ Pos[y] \in Nat
  BY <1>1, GroupAssumption DEF Family, Children, Ids
<1>3. Pos[x] = Pos[y]
  BY <1>1, <1>2
<1> QED BY <1>1, <1>3, FamilyAssumption DEF Family, Children

(* A step on one task leaves the groups of the others as they are. *)
ApartFrom(t) ==
  \A u \in Tasks \ {t} : /\ Kept(u)' \subseteq Kept(u) /\ engine'[u] = engine[u]
                         /\ u \in meta => u \in meta'

(* What a goroutine knows of its group holds on while another one works on another task. *)
LEMMA ClearingApart ==
  ASSUME IInv, Separate, NEW g \in Handlers, NEW k \in Handlers, k # g, Working(h[g]),
         NEW s, s = h[k], Clearing(s), ApartFrom(h[g].task)
  PROVE  Clearing(s)'
<1>1. ASSUME Working(s)
      PROVE  /\ Kept(s.task)' \subseteq Kept(s.task) /\ engine'[s.task] = engine[s.task]
             /\ s.task \in meta => s.task \in meta'
  <2>1. s.task \in Tasks \ {h[g].task}
    BY <1>1, WorkingTask DEF Separate
  <2> QED BY <2>1 DEF ApartFrom
<1>2. s.pc \in {"saveChildren", "deleteMeta", "deleteResult", "noResults", "complete", "setRetry"} => Working(s)
  BY DEF Working
<1>3. CASE Working(s)
  BY <1>1, <1>3 DEF Clearing, Working, Deleting, IsFirst
<1>4. CASE ~Working(s)
  BY <1>2, <1>4 DEF Clearing, Working, Deleting
<1> QED BY <1>3, <1>4

LEMMA MetaTurn ==
  ASSUME IInv, Separate, MetaInv, ~Optimistic, NEW g \in Handlers, NEW s, Become(g, s), Clearing(s)',
         Working(h[g]), ApartFrom(h[g].task),
         \A t \in Tasks : engine'[t] = "completed" => Kept(t)' = {},
         \A c \in meta' \cap SubTasks : Parent[c] \in meta'
  PROVE  MetaInv'
<1>1. ASSUME NEW k \in Handlers PROVE Clearing(h[k])'
  <2>1. h'[g] = s /\ (k # g => h'[k] = h[k])
    BY Others
  <2> PICK r : r = h'[k]
    OBVIOUS
  <2>2. CASE k = g
    BY <2>1, <2>2 DEF Clearing, Working, Deleting, Kept
  <2>3. CASE k # g
    <3>1. r = h[k] /\ Clearing(r)
      BY <2>1, <2>3 DEF MetaInv
    <3>2. Clearing(r)'
      BY <2>3, <3>1, ClearingApart
    <3> QED BY <3>2 DEF Clearing, Working, Deleting, Kept
  <2> QED BY <2>2, <2>3
<1> QED BY <1>1 DEF MetaInv

LEMMA QuietMeta ==
  ASSUME IInv, MetaInv, ~Optimistic, NEW g \in Handlers, NEW s, Become(g, s), Clearing(s),
         UNCHANGED <<meta, engine>>
  PROVE  MetaInv'
<1>1. ASSUME NEW k \in Handlers PROVE Clearing(h[k])'
  <2> PICK r : r = h'[k]
    OBVIOUS
  <2>1. r = s \/ r = h[k]
    BY Others
  <2>2. Clearing(r)
    BY <2>1 DEF MetaInv
  <2> QED BY <2>2 DEF Clearing, Working, Deleting, Kept
<1>2. \A t \in Tasks : engine'[t] = "completed" => Kept(t)' = {}
  BY DEF MetaInv, Kept
<1>3. \A c \in meta' \cap SubTasks : Parent[c] \in meta'
  BY DEF MetaInv
<1> QED BY <1>1, <1>2, <1>3 DEF MetaInv

LEMMA ClearingSending ==
  ASSUME NEW S
  PROVE  Clearing(Idle) /\ Clearing(Sending(S))
<1>1. Clearing(Idle)
  BY DEF Idle, Clearing, Working, Deleting
<1>2. Clearing([Idle EXCEPT !.pc = "send", !.rest = S])
  BY DEF Idle, Clearing, Working, Deleting
<1> QED BY <1>1, <1>2 DEF Sending

(* The steps that end a task or a response. *)
LEMMA EndMeta ==
  ASSUME IInv, MetaInv, ~Optimistic, NEW g \in Handlers,
         \/ RejectTask(g) \/ IgnoreTask(g) \/ NothingToSend(g) \/ ReportNoResults(g)
         \/ CompleteCached(g) \/ CompleteRejected(g) \/ OrphanResponse(g)
         \/ ProduceCommand(g) \/ UpdateSubTaskState(g) \/ BuildFails(g) \/ CompleteUnreachable(g)
  PROVE  MetaInv'
<1>1. PICK s : Become(g, s) /\ (s = Idle \/ \E S : s = Sending(S))
  BY DEF RejectTask, IgnoreTask, NothingToSend, ReportNoResults, CompleteCached, CompleteRejected,
         OrphanResponse, ProduceCommand, UpdateSubTaskState, BuildFails, CompleteUnreachable,
         Local, Resume, AfterComplete
<1>2. UNCHANGED <<meta, engine>>
  BY DEF RejectTask, IgnoreTask, NothingToSend, ReportNoResults, CompleteCached, CompleteRejected,
         OrphanResponse, ProduceCommand, UpdateSubTaskState, BuildFails, CompleteUnreachable,
         Local, store, camunda
<1> QED BY <1>1, <1>2, ClearingSending, QuietMeta

(* The completion, whether its answer arrives or not: the group was cleared before. *)
LEMMA CompleteMeta ==
  ASSUME IInv, Separate, MetaInv, ~Optimistic, NEW g \in Handlers, CompleteAccepted(g) \/ CompleteAnswerLost(g)
  PROVE  MetaInv'
<1> PICK s : s = Sending(h[g].rest)
  OBVIOUS
<1>1. /\ h[g].pc = "complete" /\ Become(g, s) /\ meta' = meta
      /\ engine' = engine \/ engine' = [engine EXCEPT ![h[g].task] = "completed"]
  BY DEF CompleteAccepted, CompleteAnswerLost, AfterComplete, Resume, At, store
<1>2. Kept(h[g].task) = {}
  BY <1>1 DEF MetaInv, Clearing
<1>3. engine \in [Tasks -> {"open", "completed", "failed"}]
  BY DEF IInv, TypeOK
<1>4. \A t \in Tasks : engine'[t] = "completed" => Kept(t)' = {}
  BY <1>1, <1>2, <1>3 DEF MetaInv, Kept
<1>5. Clearing(s)'
  <2>1. CASE s = Idle
    BY <2>1 DEF Idle, Clearing, Working, Deleting
  <2>2. CASE s = [Idle EXCEPT !.pc = "send", !.rest = h[g].rest]
    BY <2>2 DEF Idle, Clearing, Working, Deleting
  <2> QED BY <2>1, <2>2 DEF Sending
<1>6. \A c \in meta' \cap SubTasks : Parent[c] \in meta'
  BY <1>1 DEF MetaInv
<1>7. Working(h[g]) /\ ApartFrom(h[g].task)
  BY <1>1, <1>3 DEF Working, ApartFrom, Kept
<1> QED BY <1>1, <1>4, <1>5, <1>6, <1>7, MetaTurn

(* The steps that go on with a task and write no metadata. *)
LEMMA MoveMeta ==
  ASSUME IInv, MetaInv, ~Optimistic, NEW g \in Handlers,
         \/ AcceptTask(g) \/ SaveCallInfo(g) \/ FoundMeta(g) \/ SplitTask(g)
         \/ GetResult(g) \/ StartAnnotate(g) \/ AnnotateSubTaskState(g) \/ Exhausted(g)
         \/ ScheduleParallel(g) \/ SetRetry(g) \/ FinishGroup(g) \/ ContinueGroup(g)
  PROVE  MetaInv'
<1>1. h[g] \in HandlerState /\ Good(h[g], answered, attempted) /\ Clearing(h[g])
  BY DEF IInv, Good, MetaInv
<1>2. UNCHANGED <<meta, engine>>
  BY DEF AcceptTask, SaveCallInfo, FoundMeta, SplitTask, GetResult, StartAnnotate,
         AnnotateSubTaskState, Exhausted, ScheduleParallel, SetRetry, FinishGroup, ContinueGroup,
         Local, store, camunda
<1>3. ASSUME NEW s, Become(g, s), Clearing(s) PROVE MetaInv'
  BY <1>2, <1>3, QuietMeta
<1>4. ASSUME NEW s, Become(g, s), Working(h[g]), s.task = h[g].task,
             s.pc \in {"getMeta", "execute", "save", "saveMeta", "getResults", "annotate", "clear"}
      PROVE  MetaInv'
  BY <1>1, <1>3, <1>4 DEF Clearing, Deleting
<1>5. CASE AcceptTask(g)
  BY <1>1, <1>4, <1>5 DEF AcceptTask, At, Local, HandlerState, Working
<1>6. CASE SaveCallInfo(g)
  BY <1>1, <1>4, <1>6 DEF SaveCallInfo, At, HandlerState, Working
<1>7. CASE FoundMeta(g)
  <2> PICK s : s = [h[g] EXCEPT !.pc = "getResults",
                      !.task = IF h[g].role = "result" THEN Parent[h[g].sub] ELSE h[g].task,
                      !.todo = Children(IF h[g].role = "result" THEN Parent[h[g].sub] ELSE h[g].task),
                      !.got = {}, !.missing = {}]
    OBVIOUS
  <2>1. Become(g, s) /\ h[g].pc = "getMeta" /\ Key(g) \in meta
    BY <1>7 DEF FoundMeta, At, Local
  <2>2. CASE h[g].role = "result"
    <3>1. h[g].sub \in SubTasks /\ h[g].sub \in meta /\ Parent[h[g].sub] \in Tasks
      BY <1>1, <2>1, <2>2, GroupAssumption DEF Good, Placed, Key
    <3>2. h[g].sub \in Kept(Parent[h[g].sub])
      BY <3>1 DEF Kept, Family, Children
    <3>3. engine[Parent[h[g].sub]] # "completed"
      BY <3>1, <3>2 DEF MetaInv
    <3>4. Clearing(s)
      BY <1>1, <2>2, <3>3 DEF Clearing, Deleting, HandlerState
    <3> QED BY <1>3, <2>1, <3>4
  <2>3. CASE h[g].role # "result"
    <3>1. Working(h[g]) /\ s.task = h[g].task /\ s.pc = "getResults"
      BY <1>1, <2>1, <2>3 DEF Working, HandlerState
    <3> QED BY <1>4, <2>1, <3>1
  <2> QED BY <2>2, <2>3
<1>8. CASE SplitTask(g)
  BY <1>1, <1>4, <1>8 DEF SplitTask, At, Local, HandlerState, Working
<1>9. CASE GetResult(g)
  <2>1. PICK c \in h[g].todo :
          \/ Become(g, [h[g] EXCEPT !.todo = @ \ {c}, !.got = @ \cup {c}])
          \/ Become(g, [h[g] EXCEPT !.todo = @ \ {c}, !.missing = @ \cup {c}])
    BY <1>9 DEF GetResult, Local
  <2>2. h[g].pc = "getResults"
    BY <1>9 DEF GetResult, At
  <2> QED BY <1>1, <1>4, <2>1, <2>2 DEF HandlerState, Working
<1>10. CASE StartAnnotate(g)
  BY <1>1, <1>4, <1>10 DEF StartAnnotate, RequestsBuilt, At, Local, HandlerState, Working
<1>11. CASE AnnotateSubTaskState(g)
  <2>1. h[g].pc = "annotate"
    BY <1>11 DEF AnnotateSubTaskState, At
  <2>2. PICK c \in h[g].todo :
          Become(g, [h[g] EXCEPT !.todo = @ \ {c}, !.tries[c] = tries[c],
                                 !.fresh = IF c \in running THEN @ \cup {c} ELSE @])
    BY <1>11 DEF AnnotateSubTaskState, Local
  <2> PICK s : s = [h[g] EXCEPT !.todo = @ \ {c}, !.tries[c] = tries[c],
                                !.fresh = IF c \in running THEN @ \cup {c} ELSE @]
    OBVIOUS
  <2>3. s.task = h[g].task /\ s.pc = "annotate" /\ Working(h[g])
    BY <1>1, <2>1 DEF HandlerState, Working
  <2> QED BY <1>4, <2>2, <2>3
<1>12. CASE Exhausted(g)
  BY <1>1, <1>4, <1>12 DEF Exhausted, At, Local, HandlerState, Working
<1>13. CASE ScheduleParallel(g)
  <2> PICK s : s = [h[g] EXCEPT
         !.pc = IF h[g].missing = {} \/ NoMoreRetries(g) THEN "clear" ELSE "setRetry",
         !.next = CASE ~NoMoreRetries(g) -> "setRetry"
                    [] NoMoreRetries(g) /\ h[g].got = {} -> "noResults"
                    [] OTHER -> "complete"]
    OBVIOUS
  <2>1. Become(g, s) /\ Working(h[g])
    BY <1>13 DEF ScheduleParallel, RequestsBuilt, At, Local, Working
  <2>2. s.task = h[g].task /\ (s.pc = "clear" \/ (s.pc = "setRetry" /\ s.missing # {}))
    BY <1>1 DEF HandlerState
  <2>3. Clearing(s)
    BY <1>1, <2>1, <2>2 DEF Clearing, Deleting
  <2> QED BY <1>3, <2>1, <2>3
<1>14. CASE SetRetry(g)
  <2>1. CASE h[g].missing # {}
    BY <1>3, <1>14, <2>1, ClearingSending DEF SetRetry
  <2>2. CASE h[g].missing = {}
    <3> PICK s : s = [h[g] EXCEPT !.pc = "complete"]
      OBVIOUS
    <3>1. Become(g, s) /\ h[g].pc = "setRetry"
      BY <1>14, <2>2 DEF SetRetry, At
    <3>2. Clearing(s)
      BY <1>1, <2>2, <3>1 DEF Clearing, Deleting, Working, HandlerState
    <3> QED BY <1>3, <3>1, <3>2
  <2> QED BY <2>1, <2>2
<1>15. CASE FinishGroup(g)
  BY <1>1, <1>4, <1>15 DEF FinishGroup, At, Local, HandlerState, Working
<1>16. CASE ContinueGroup(g)
  <2>1. CASE Scheduler = "parallel"
    BY <1>3, <1>16, <2>1, ClearingSending DEF ContinueGroup, Local, Resume
  <2>2. CASE Scheduler # "parallel"
    <3> PICK s : s = [Idle EXCEPT !.pc = "execute", !.role = "response", !.task = h[g].task,
                                  !.rest = h[g].rest]
      OBVIOUS
    <3>1. Become(g, s) /\ Working(h[g])
      BY <1>16, <2>2 DEF ContinueGroup, Local, At, Working
    <3>2. s.task = h[g].task /\ s.pc = "execute"
      BY DEF Idle
    <3> QED BY <1>4, <3>1, <3>2
  <2> QED BY <2>1, <2>2
<1> QED BY <1>5, <1>6, <1>7, <1>8, <1>9, <1>10, <1>11, <1>12, <1>13, <1>14, <1>15, <1>16

(* The steps that write metadata: of one group, on whose task the goroutine works. *)
LEMMA SaveMeta ==
  ASSUME IInv, Separate, MetaInv, ~Optimistic, NEW g \in Handlers, SaveParentMeta(g) \/ SaveChildMeta(g)
  PROVE  MetaInv'
<1> PICK t : t = h[g].task
  OBVIOUS
<1>1. /\ h[g] \in HandlerState /\ Clearing(h[g]) /\ Working(h[g]) /\ ~Deleting(h[g]) /\ t \in Tasks
      /\ engine[t] # "completed" /\ engine' = engine
  <2>1. Working(h[g]) /\ ~Deleting(h[g]) /\ engine' = engine
    BY DEF SaveParentMeta, SaveChildMeta, At, Working, Deleting, camunda
  <2>2. h[g] \in HandlerState /\ Clearing(h[g])
    BY DEF IInv, Good, MetaInv
  <2> QED BY <2>1, <2>2, WorkingTask DEF Clearing
<1>2. PICK x, s :
        /\ x \in Family(t) /\ meta' = meta \cup {x} /\ Become(g, s)
        /\ s.pc = "saveChildren" /\ s.task = t /\ s.todo \subseteq Children(t)
        /\ t \in meta'
  <2>1. CASE SaveParentMeta(g)
    <3> PICK s : s = [h[g] EXCEPT !.pc = "saveChildren", !.todo = Children(t)]
      OBVIOUS
    <3>1. meta' = meta \cup {t} /\ Become(g, s)
      BY <2>1 DEF SaveParentMeta
    <3>2. s.pc = "saveChildren" /\ s.task = t /\ s.todo = Children(t)
      BY <1>1 DEF HandlerState
    <3> QED BY <3>1, <3>2 DEF Family
  <2>2. CASE SaveChildMeta(g)
    <3>1. h[g].pc = "saveChildren" /\ t \in meta /\ h[g].todo \subseteq Children(t)
      BY <1>1, <2>2 DEF SaveChildMeta, At, Clearing
    <3>2. PICK c \in h[g].todo : meta' = meta \cup {c} /\ Become(g, [h[g] EXCEPT !.todo = @ \ {c}])
      BY <2>2 DEF SaveChildMeta
    <3> PICK s : s = [h[g] EXCEPT !.todo = @ \ {c}]
      OBVIOUS
    <3>3. s.pc = "saveChildren" /\ s.task = t /\ s.todo \subseteq Children(t)
      BY <1>1, <3>1 DEF HandlerState
    <3> QED BY <3>1, <3>2, <3>3 DEF Family
  <2> QED BY <2>1, <2>2
<1>3. Clearing(s)'
  BY <1>1, <1>2 DEF Clearing, Working, Deleting
<1>4. ASSUME NEW u \in Tasks, engine'[u] = "completed" PROVE Kept(u)' = {}
  <2>1. u # t /\ Kept(u) = {}
    BY <1>1, <1>4 DEF MetaInv
  <2>2. x \notin Family(u)
    BY <1>1, <1>2, <2>1, FamiliesApart
  <2> QED BY <1>2, <2>1, <2>2 DEF Kept
<1>5. ASSUME NEW c \in meta' \cap SubTasks PROVE Parent[c] \in meta'
  <2>1. CASE c \in meta
    BY <1>2, <2>1 DEF MetaInv
  <2>2. CASE c = x
    <3>1. Parent[c] = t
      BY <1>1, <1>2, <1>5, <2>2, FamilyAssumption DEF Family, Children
    <3> QED BY <1>2, <3>1
  <2> QED BY <1>2, <1>5, <2>1, <2>2
<1>6. ApartFrom(t)
  <2> SUFFICES ASSUME NEW u \in Tasks, u # t PROVE Kept(u)' \subseteq Kept(u)
    BY <1>1, <1>2 DEF ApartFrom
  <2>1. x \notin Family(u)
    BY <1>1, <1>2, FamiliesApart
  <2> QED BY <1>2, <2>1 DEF Kept
<1> QED BY <1>1, <1>2, <1>3, <1>4, <1>5, <1>6, MetaTurn

(* Without the metadata of the task there is none of its children: nothing is to be cleared. *)
LEMMA ClearTaskDataMeta ==
  ASSUME IInv, MetaInv, ~Optimistic, NEW g \in Handlers, ClearTaskData(g)
  PROVE  MetaInv'
<1> PICK t : t = h[g].task
  OBVIOUS
<1>1. /\ h[g] \in HandlerState /\ Good(h[g], answered, attempted) /\ Clearing(h[g])
      /\ h[g].pc = "clear" /\ Working(h[g]) /\ UNCHANGED <<meta, engine>>
  BY DEF IInv, Good, MetaInv, ClearTaskData, At, Working, Local, store, camunda
<1>2. engine[t] # "completed" /\ t \in Tasks
  BY <1>1, WorkingTask DEF Clearing
<1>3. CASE t \in meta
  <2> PICK s : s = [h[g] EXCEPT !.pc = "deleteMeta", !.todo = Children(t) \cup {t}]
    OBVIOUS
  <2>1. Become(g, s)
    BY <1>3 DEF ClearTaskData, Local
  <2>2. s.pc = "deleteMeta" /\ s.task = t /\ s.todo = Family(t)
    BY <1>1 DEF HandlerState, Family
  <2>3. Clearing(s)
    BY <1>2, <2>2 DEF Clearing, Deleting, Kept, Family
  <2> QED BY <1>1, <2>1, <2>3, QuietMeta
<1>4. CASE t \notin meta
  <2> PICK s : s = [h[g] EXCEPT !.pc = h[g].next]
    OBVIOUS
  <2>1. Become(g, s)
    BY <1>4 DEF ClearTaskData, Local
  <2>2. s.pc \in {"setRetry", "noResults", "complete"} /\ s.task = t
    BY <1>1 DEF HandlerState, Good, Placed
  <2>3. Kept(t) = {}
    <3>1. \A c \in Children(t) : c \notin meta
      BY <1>4 DEF MetaInv, Children
    <3> QED BY <1>4, <3>1 DEF Kept, Family
  <2>4. Clearing(s)
    BY <1>2, <2>2, <2>3 DEF Clearing, Deleting
  <2> QED BY <1>1, <2>1, <2>4, QuietMeta
<1> QED BY <1>3, <1>4

LEMMA DeleteMetaMeta ==
  ASSUME IInv, Separate, MetaInv, ~Optimistic, NEW g \in Handlers, DeleteMeta(g)
  PROVE  MetaInv'
<1> PICK t : t = h[g].task
  OBVIOUS
<1> PICK s : s = [h[g] EXCEPT !.pc = "deleteResult"]
  OBVIOUS
<1>1. PICK x \in h[g].todo : IsFirst(x, h[g].todo) /\ meta' = meta \ {x} /\ Become(g, s)
  BY DEF DeleteMeta
<1>2. /\ h[g] \in HandlerState /\ Clearing(h[g]) /\ h[g].pc = "deleteMeta" /\ engine' = engine /\ Working(h[g])
  BY DEF IInv, Good, MetaInv, DeleteMeta, At, Working, camunda
<1>3. /\ engine[t] # "completed" /\ t \in Tasks
      /\ h[g].todo # {} /\ h[g].todo \subseteq Family(t) /\ Kept(t) \subseteq h[g].todo
  BY <1>2, WorkingTask DEF Clearing, Deleting
<1>4. s.pc = "deleteResult" /\ s.task = t /\ s.todo = h[g].todo
  BY <1>2 DEF HandlerState
<1>5. Kept(t)' \subseteq h[g].todo \ {x}
  BY <1>1, <1>3 DEF Kept
<1>6. ASSUME NEW y, IsFirst(y, h[g].todo) PROVE y = x
  BY <1>1, <1>3, <1>6, OneFirst
<1>7. Clearing(s)'
  <2>1. \A y \in s.todo : IsFirst(y, s.todo) => Kept(t)' \subseteq s.todo \ {y}
    BY <1>4, <1>5, <1>6
  <2> QED BY <1>2, <1>3, <1>4, <2>1 DEF Clearing, Working, Deleting, IsFirst
<1>8. \A u \in Tasks : engine'[u] = "completed" => Kept(u)' = {}
  BY <1>1, <1>2 DEF MetaInv, Kept
\* the parent is deleted last
<1>9. ASSUME NEW c \in meta' \cap SubTasks PROVE Parent[c] \in meta'
  <2>1. c \in meta /\ c # x /\ Parent[c] \in meta /\ Parent[c] \in Tasks
    BY <1>1, <1>9, GroupAssumption DEF MetaInv
  <2>2. ASSUME Parent[c] = x PROVE FALSE
    <3>1. x \in Family(t) /\ x \in Family(x)
      BY <1>1, <1>3 DEF Family
    <3>2. x = t
      BY <1>3, <2>1, <2>2, <3>1, FamiliesApart
    <3>3. c \in h[g].todo
      BY <1>3, <1>9, <2>1, <2>2, <3>2 DEF Kept, Family, Children
    <3>4. Pos[x] <= Pos[c] /\ Pos[c] < Pos[x]
      BY <1>1, <1>9, <2>1, <2>2, <3>3, FamilyAssumption DEF IsFirst
    <3>5. Pos[x] \in Nat /\ Pos[c] \in Nat
      BY <1>9, <2>1, <2>2, GroupAssumption DEF Ids
    <3> QED BY <3>4, <3>5
  <2> QED BY <1>1, <2>1, <2>2
<1>10. ApartFrom(t)
  <2> SUFFICES ASSUME NEW u \in Tasks, u # t, u \in meta PROVE u # x
    BY <1>1, <1>2 DEF ApartFrom, Kept
  <2>1. x \in Family(t) /\ u \in Family(u)
    BY <1>1, <1>3 DEF Family
  <2> QED BY <1>3, <2>1, FamiliesApart
<1> QED BY <1>1, <1>2, <1>7, <1>8, <1>9, <1>10, MetaTurn

(* A result that cannot be deleted stays; the metadata is deleted all the same. *)
LEMMA DeleteResultMeta ==
  ASSUME IInv, MetaInv, ~Optimistic, NEW g \in Handlers, At(g, "deleteResult"),
         DeleteResult(g) \/ StoreFails(g)
  PROVE  MetaInv'
<1> PICK t : t = h[g].task
  OBVIOUS
<1>1. PICK x \in h[g].todo :
        /\ IsFirst(x, h[g].todo)
        /\ Become(g, [h[g] EXCEPT !.todo = @ \ {x},
                                  !.pc = IF h[g].todo = {x} THEN h[g].next ELSE "deleteMeta"])
  BY DEF DeleteResult, StoreFails, At
<1> PICK s : s = [h[g] EXCEPT !.todo = @ \ {x},
                              !.pc = IF h[g].todo = {x} THEN h[g].next ELSE "deleteMeta"]
  OBVIOUS
<1>2. /\ h[g] \in HandlerState /\ Good(h[g], answered, attempted) /\ Clearing(h[g])
      /\ h[g].pc = "deleteResult" /\ Working(h[g]) /\ UNCHANGED <<meta, engine>>
  BY DEF IInv, Good, MetaInv, DeleteResult, StoreFails, At, Working, store, camunda
<1>3. /\ engine[t] # "completed" /\ t \in Tasks
      /\ h[g].todo \subseteq Family(t) /\ Kept(t) \subseteq h[g].todo \ {x}
  BY <1>1, <1>2, WorkingTask DEF Clearing, Deleting
<1>4. s.todo = h[g].todo \ {x} /\ s.task = t
  BY <1>2 DEF HandlerState
<1>5. \/ s.pc = "deleteMeta" /\ s.todo # {}
      \/ s.pc \in {"setRetry", "noResults", "complete"} /\ Kept(t) = {}
  <2>1. CASE h[g].todo = {x}
    BY <1>2, <1>3, <2>1 DEF HandlerState, Good, Placed
  <2>2. CASE h[g].todo # {x}
    BY <1>1, <1>2, <1>4, <2>2 DEF HandlerState
  <2> QED BY <2>1, <2>2
<1>6. Clearing(s)
  BY <1>2, <1>3, <1>4, <1>5 DEF Clearing, Working, Deleting, Kept
<1> QED BY <1>1, <1>2, <1>6, QuietMeta

(* The steps that begin with a task or a response. *)
LEMMA BeginMeta ==
  ASSUME IInv, MetaInv, ~Optimistic, NEW g \in Handlers,
         \/ \E t \in Tasks : Fetch(g, t)
         \/ \E c \in SubTasks : TakeResponse(g, c)
         \/ AskLastValue(g) \/ SetSubResult(g)
  PROVE  MetaInv'
<1>1. h[g] \in HandlerState /\ Good(h[g], answered, attempted)
  BY DEF IInv, Good
<1>2. UNCHANGED <<meta, engine>>
  BY DEF Fetch, TakeResponse, AskLastValue, SetSubResult, Local, store, camunda
<1>3. ASSUME NEW s, Become(g, s), Clearing(s) PROVE MetaInv'
  BY <1>2, <1>3, QuietMeta
<1>4. ASSUME NEW t \in Tasks, Fetch(g, t) PROVE MetaInv'
  <2> PICK s : s = [Idle EXCEPT !.pc = "execute", !.role = "camunda", !.task = t, !.seen = retries[t]]
    OBVIOUS
  <2>1. Become(g, s) /\ engine[t] = "open"
    BY <1>4 DEF Fetch
  <2>2. s.pc = "execute" /\ s.task = t
    BY DEF Idle
  <2>3. Clearing(s)
    BY <2>1, <2>2 DEF Clearing, Deleting
  <2> QED BY <1>3, <2>1, <2>3
<1>5. ASSUME NEW s, s.pc = "setResult" \/ (s.pc = "getMeta" /\ s.role = "result") PROVE Clearing(s)
  BY <1>5 DEF Clearing, Working, Deleting
<1>6. ASSUME NEW c \in SubTasks, TakeResponse(g, c) PROVE MetaInv'
  <2>1. \/ Become(g, Idle)
        \/ Become(g, [Idle EXCEPT !.pc = "setResult", !.role = "result", !.sub = c])
    BY <1>6 DEF TakeResponse
  <2>2. Clearing([Idle EXCEPT !.pc = "setResult", !.role = "result", !.sub = c])
    BY <1>5 DEF Idle
  <2> QED BY <1>3, <2>1, <2>2, ClearingSending
<1>7. CASE AskLastValue(g)
  <2>1. PICK c \in h[g].rest :
          \/ Become(g, [Idle EXCEPT !.pc = "setResult", !.role = "result", !.sub = c,
                                    !.rest = h[g].rest \ {c}])
          \/ Become(g, Sending(h[g].rest \ {c})) \/ Become(g, Idle)
    BY <1>7 DEF AskLastValue, Local
  <2>2. Clearing([Idle EXCEPT !.pc = "setResult", !.role = "result", !.sub = c,
                              !.rest = h[g].rest \ {c}])
    BY <1>5 DEF Idle
  <2> QED BY <1>3, <2>1, <2>2, ClearingSending
<1>8. CASE SetSubResult(g)
  <2> PICK s : s = [h[g] EXCEPT !.pc = "getMeta"]
    OBVIOUS
  <2>1. Become(g, s) /\ s.pc = "getMeta" /\ s.role = "result"
    BY <1>1, <1>8 DEF SetSubResult, At, Good, Placed, HandlerState
  <2> QED BY <1>3, <1>5, <2>1
<1> QED BY <1>4, <1>6, <1>7, <1>8

(* Any other failed operation of the store ends the work on a task or goes on without it. *)
LEMMA StoreFailsMeta ==
  ASSUME IInv, MetaInv, ~Optimistic, NEW g \in Handlers, StoreFails(g), ~Forgets
  PROVE  MetaInv'
<1>1. h[g] \in HandlerState /\ Clearing(h[g]) /\ UNCHANGED <<meta, engine>>
  BY DEF IInv, Good, MetaInv, StoreFails, store, camunda
<1>2. h[g].pc \notin {"clear", "deleteMeta"}
  BY DEF Forgets, At
<1>3. \/ Become(g, Resume(g))
      \/ At(g, "save") /\ Become(g, [h[g] EXCEPT !.pc = "getMeta"])
      \/ At(g, "deleteResult")
  BY <1>2 DEF StoreFails, At
<1>4. CASE Become(g, Resume(g))
  BY <1>1, <1>4, ClearingSending, QuietMeta DEF Resume
<1>5. CASE At(g, "save") /\ Become(g, [h[g] EXCEPT !.pc = "getMeta"])
  <2> PICK s : s = [h[g] EXCEPT !.pc = "getMeta"]
    OBVIOUS
  <2>1. Become(g, s) /\ Working(h[g]) /\ s.task = h[g].task /\ s.pc = "getMeta"
    BY <1>1, <1>5 DEF At, Working, HandlerState
  <2>2. Clearing(s)
    BY <1>1, <2>1 DEF Clearing, Deleting
  <2> QED BY <1>1, <2>1, <2>2, QuietMeta
<1>6. CASE At(g, "deleteResult")
  BY <1>6, DeleteResultMeta
<1> QED BY <1>3, <1>4, <1>5, <1>6

(* A restart finds a group whole, half written or half deleted, but always with its parent. *)
LEMMA RestartMeta ==
  ASSUME IInv, MetaInv, ~Optimistic, Restart
  PROVE  MetaInv'
<1>1. engine' = engine /\ (meta' = meta \/ meta' = {})
  BY DEF Restart, store, camunda
<1>2. \A t \in Tasks : engine'[t] = "completed" => Kept(t)' = {}
  BY <1>1 DEF MetaInv, Kept
<1>3. \A c \in meta' \cap SubTasks : Parent[c] \in meta'
  BY <1>1 DEF MetaInv
<1>4. ASSUME NEW g \in Handlers PROVE Clearing(h[g])'
  <2>1. h'[g] = Idle
    BY DEF Restart
  <2> QED BY <2>1 DEF Clearing, Idle, Working, Deleting
<1> QED BY <1>2, <1>3, <1>4 DEF MetaInv

(* The metadata of a sub task may expire at any time. *)
LEMMA EntryExpiresMeta ==
  ASSUME IInv, MetaInv, ~Optimistic, EntryExpires, ~Forgets
  PROVE  MetaInv'
<1>1. UNCHANGED <<engine, h>> /\ meta' \subseteq meta /\ \A t \in Tasks : t \in meta => t \in meta'
  BY DEF EntryExpires, Forgets, camunda
<1>2. \A t \in Tasks : Kept(t)' \subseteq Kept(t)
  BY <1>1 DEF Kept
<1>3. \A t \in Tasks : engine'[t] = "completed" => Kept(t)' = {}
  BY <1>1, <1>2 DEF MetaInv
<1>4. \A c \in meta' \cap SubTasks : Parent[c] \in meta'
  BY <1>1, GroupAssumption DEF MetaInv
<1>5. ASSUME NEW g \in Handlers PROVE Clearing(h[g])'
  <2>1. Clearing(h[g]) /\ h'[g] = h[g] /\ engine' = engine
    BY <1>1 DEF MetaInv
  <2>2. Kept(h[g].task)' \subseteq Kept(h[g].task)
    BY <1>1 DEF Kept
  <2>3. h[g].pc = "saveChildren" => h[g].task \in meta'
    <3>1. h[g].pc = "saveChildren" => h[g].task \in Tasks
      BY WorkingTask DEF Working
    <3> QED BY <1>1, <2>1, <3>1 DEF Clearing
  <2> QED BY <2>1, <2>2, <2>3 DEF Clearing, Working, Deleting, IsFirst
<1> QED BY <1>3, <1>4, <1>5 DEF MetaInv

LEMMA OutsideMeta ==
  ASSUME IInv, MetaInv, ~Forgets,
         \/ \E t \in Tasks : \/ CallTimesOut(t) \/ CacheExpires(t) \/ LockExpires(t)
                             \/ LateComplete(t) \/ HandleIncident(t) \/ LoseIncident(t)
         \/ \E c \in SubTasks : \/ TryTimesOut(c) \/ DeviceAnswers(c) \/ DeviceFails(c) \/ LoseMessage(c)
         \/ UNCHANGED vars
  PROVE  MetaInv'
<1>1. UNCHANGED <<meta, h>>
  BY DEF CallTimesOut, CacheExpires, LockExpires, LateComplete, HandleIncident, LoseIncident,
         TryTimesOut, DeviceAnswers, DeviceFails, LoseMessage, vars, store, camunda, channels, history
<1>2. \A t \in Tasks : engine'[t] = "completed" => engine[t] = "completed"
  BY DEF Forgets, CallTimesOut, CacheExpires, LockExpires, HandleIncident, LoseIncident,
         TryTimesOut, DeviceAnswers, DeviceFails, LoseMessage, vars, store, camunda, channels, history,
         IInv, TypeOK
<1>3. \A g \in Handlers : Working(h[g]) => h[g].task \in Tasks
  BY WorkingTask
<1> QED BY <1>1, <1>2, <1>3 DEF MetaInv, Clearing, Working, Deleting, Kept

LEMMA MetaNext == ASSUME IInv, Separate, MetaInv, [Next]_vars, ~Forgets PROVE MetaInv'
<1> SUFFICES ASSUME ~Optimistic PROVE MetaInv'
  BY DEF MetaInv
<1>1. ASSUME NEW g \in Handlers, Step(g) PROVE MetaInv'
  BY <1>1, EndMeta, CompleteMeta, MoveMeta, SaveMeta, ClearTaskDataMeta, DeleteMetaMeta,
     DeleteResultMeta, BeginMeta DEF Step, Command, Response, DeleteResult
<1>2. ASSUME NEW g \in Handlers, Failure(g) PROVE MetaInv'
  BY <1>2, EndMeta, CompleteMeta, StoreFailsMeta DEF Failure
<1> QED BY <1>1, <1>2, BeginMeta, RestartMeta, EntryExpiresMeta, OutsideMeta DEF Next

LEMMA MetaInit == Init => MetaInv
BY ClearingSending DEF Init, MetaInv, Kept

(* A pessimistic task is cleared (clearTaskData) before it is completed, and neither a late       *)
(* response nor a redelivery nor a restart finds or makes metadata of a completed task, unless a  *)
(* failure has kept metadata from being deleted with its group.                                   *)
THEOREM Tidy == Safety /\ []Separate /\ [][~Forgets]_vars => []NoLeftovers
<1>1. Init => MetaInv
  BY MetaInit
<1>2. IInv /\ Separate /\ MetaInv /\ [Next]_vars /\ [~Forgets]_vars => MetaInv'
  <2>1. CASE UNCHANGED vars
    BY <2>1 DEF vars, store, camunda, MetaInv, Kept, Clearing, Working, Deleting
  <2> QED BY <2>1, MetaNext
<1>3. MetaInv => NoLeftovers
  BY DEF MetaInv, NoLeftovers, Kept, Family
<1> QED BY <1>1, <1>2, <1>3, Invariance, PTL DEF Safety

-----------------------------------------------------------------------------
(* The incident "no results".                                              *)

Tired(t) == \A c \in Children(t) : Limit # -1 /\ tries[c] > Limit

\* no request of the task is left to be sent
Hopeless(s) ==
  /\ Scheduler # "parallel" => Tired(s.task)
  /\ Scheduler = "parallel" => Limit # -1 /\ s.seen > Limit

\* the counts the goroutine decides by are not more than what was counted, and when it has decided
\* to report the task there is nothing left to be done
GaveUp(s) ==
  /\ s.pc = "annotate" => \A c \in s.missing \ s.todo : s.tries[c] <= tries[c]
  /\ s.pc = "noResults" \/ s.next = "noResults" =>
       /\ s.pc \in {"clear", "deleteMeta", "deleteResult", "noResults"}
       /\ s.got = {} /\ Hopeless(s)

\* the goroutine works on a task that was reported: it can only report it again
Repeats(s) ==
  Working(s) /\ s.task \in Reported =>
    /\ s.pc \notin {"getResults", "setRetry", "complete"}
    /\ s.next \in {"none", "noResults"} /\ s.got = {} /\ Hopeless(s)
    /\ s.pc \in {"execute", "save", "getMeta"} => Kept(s.task) = {}

GivenUp(t) ==
  /\ ~Optimistic /\ output[t] = {}
  /\ Scheduler # "parallel" => Tired(t)
  /\ Scheduler = "parallel" => Limit # -1 /\ (engine[t] = "open" => retries[t] > Limit)

OutcomeInv ==
  /\ \A t \in Tasks : output[t] # {} => engine[t] = "completed"
  /\ \A t \in Reported :
       GivenUp(t) /\ (Kept(t) = {} \/ \E g \in Handlers : Working(h[g]) /\ h[g].task = t)
  /\ \A g \in Handlers : GaveUp(h[g]) /\ Repeats(h[g])

LEMMA HopelessIsPessimistic == ASSUME NEW s, Hopeless(s) PROVE ~Optimistic
BY OptimisticAssumption DEF Hopeless, Limit

(* No count of a sub task is lost. *)
Grows == \A c \in SubTasks : tries[c] \in Nat /\ tries'[c] \in Nat /\ tries[c] <= tries'[c]

LEMMA CountsGrow == ASSUME IInv, IInv', ~Uncounts PROVE Grows
<1>1. tries \in [SubTasks -> Nat] /\ tries' \in [SubTasks -> Nat]
  BY DEF IInv, TypeOK
<1> QED BY <1>1 DEF Uncounts, Grows

\* another goroutine works on the task
Elsewhere(g, t) == \E k \in Handlers : k # g /\ Working(h[k]) /\ h[k].task = t

LEMMA ApartNow == ASSUME Separate, NEW g \in Handlers, Working(h[g]) PROVE ~Elsewhere(g, h[g].task)
BY DEF Separate, Elsewhere

LEMMA ApartThen ==
  ASSUME IInv, Separate', NEW g \in Handlers, NEW s, Become(g, s), Working(s)
  PROVE  ~Elsewhere(g, s.task)
<1>1. h'[g] = s /\ \A k \in Handlers : k # g => h'[k] = h[k]
  BY Others
<1>2. \A k \in Handlers : k # g /\ Working(h'[g]) /\ Working(h'[k]) => h'[g].task # h'[k].task
  BY DEF Separate, Working
<1> QED BY <1>1, <1>2 DEF Elsewhere

(* What a goroutine knows of a reported task holds on while its group is not written. *)
LEMMA OutcomeStays ==
  ASSUME Grows, NEW s \in HandlerState, GaveUp(s), Repeats(s),
         Working(s) /\ s.task \in Reported' => s.task \in Reported /\ Kept(s.task)' \subseteq Kept(s.task)
  PROVE  GaveUp(s)' /\ Repeats(s)'
<1>1. Hopeless(s) => Hopeless(s)'
  <2>1. ASSUME NEW c \in Children(s.task), Limit # -1, tries[c] > Limit PROVE tries'[c] > Limit
    BY <2>1, LimitType DEF Grows, Children
  <2> QED BY <2>1 DEF Hopeless, Tired
<1>2. ASSUME s.pc = "annotate", NEW c \in s.missing \ s.todo PROVE s.tries[c] <= tries'[c]
  <2>1. s.tries[c] <= tries[c] /\ s.tries[c] \in Nat /\ c \in SubTasks
    BY <1>2 DEF GaveUp, HandlerState
  <2> QED BY <2>1 DEF Grows
<1>3. GaveUp(s)'
  BY <1>1, <1>2 DEF GaveUp
<1>4. Repeats(s)'
  BY <1>1 DEF Repeats, Working
<1> QED BY <1>3, <1>4

\* what a step of a goroutine on its task leaves alone of the other reported tasks
OutcomeFrame(g) ==
  \/ UNCHANGED <<meta, Reported>>
  \/ Working(h[g]) /\ \A u \in Reported' : u # h[g].task => u \in Reported /\ Kept(u)' \subseteq Kept(u)

LEMMA OutcomeTurn ==
  ASSUME IInv, Separate, Grows, OutcomeInv, NEW g \in Handlers, NEW s, Become(g, s), GaveUp(s)', Repeats(s)',
         OutcomeFrame(g),
         \A t \in Tasks : output'[t] # {} => engine'[t] = "completed",
         \A t \in Reported' :
           GivenUp(t)' /\ (Kept(t)' = {} \/ (Working(s) /\ s.task = t) \/ Elsewhere(g, t))
  PROVE  OutcomeInv'
<1>1. h'[g] = s /\ \A k \in Handlers : k # g => h'[k] = h[k]
  BY Others
<1>2. ASSUME NEW k \in Handlers PROVE (GaveUp(h[k]) /\ Repeats(h[k]))'
  <2> PICK r : r = h'[k]
    OBVIOUS
  <2>1. CASE k = g
    BY <1>1, <2>1 DEF GaveUp, Repeats, Working, Hopeless, Tired, Kept, Reported
  <2>2. CASE k # g
    <3>1. r = h[k] /\ r \in HandlerState /\ GaveUp(r) /\ Repeats(r)
      BY <1>1, <2>2 DEF OutcomeInv, IInv, Good
    <3>2. ASSUME Working(r), r.task \in Reported'
          PROVE  r.task \in Reported /\ Kept(r.task)' \subseteq Kept(r.task)
      <4>1. CASE UNCHANGED <<meta, Reported>>
        BY <3>2, <4>1 DEF Kept
      <4>2. CASE Working(h[g])
        <5>1. r.task # h[g].task
          BY <2>2, <3>1, <3>2, <4>2 DEF Separate
        <5> QED BY <3>2, <4>1, <5>1 DEF OutcomeFrame
      <4> QED BY <4>1, <4>2 DEF OutcomeFrame
    <3>3. GaveUp(r)' /\ Repeats(r)'
      BY <3>1, <3>2, OutcomeStays
    <3> QED BY <3>3 DEF GaveUp, Repeats, Working, Hopeless, Tired, Kept, Reported
  <2> QED BY <2>1, <2>2
<1>3. ASSUME NEW t \in Reported'
      PROVE  Kept(t)' = {} \/ \E k \in Handlers : Working(h'[k]) /\ h'[k].task = t
  BY <1>1, <1>3 DEF Elsewhere
<1>4. (\A t \in Reported : Kept(t) = {} \/ \E k \in Handlers : Working(h[k]) /\ h[k].task = t)'
  BY <1>3 DEF Working
<1> QED BY <1>2, <1>4 DEF OutcomeInv

(* The metadata of a reported task is in the hands of a goroutine that works on it. *)
LEMMA InHand ==
  ASSUME OutcomeInv, NEW g \in Handlers, NEW t \in Reported
  PROVE  Kept(t) = {} \/ (Working(h[g]) /\ h[g].task = t) \/ Elsewhere(g, t)
BY DEF OutcomeInv, Elsewhere

LEMMA QuietOutcome ==
  ASSUME IInv, Separate, Grows, OutcomeInv, NEW g \in Handlers, NEW s, Become(g, s), GaveUp(s), Repeats(s),
         UNCHANGED <<meta, tries, engine, output, retries, Reported>>,
         \/ Working(s) /\ s.task = h[g].task
         \/ Working(h[g]) /\ h[g].task \in Reported => Kept(h[g].task) = {}
  PROVE  OutcomeInv'
<1>1. GaveUp(s)' /\ Repeats(s)'
  BY DEF GaveUp, Repeats, Working, Hopeless, Tired, Kept
<1>2. \A t \in Tasks : output'[t] # {} => engine'[t] = "completed"
  BY DEF OutcomeInv
<1>3. ASSUME NEW t \in Reported
      PROVE  GivenUp(t)' /\ (Kept(t)' = {} \/ (Working(s) /\ s.task = t) \/ Elsewhere(g, t))
  <2>1. GivenUp(t)'
    BY <1>3 DEF OutcomeInv, GivenUp, Tired
  <2>2. Kept(t) = {} \/ (Working(s) /\ s.task = t) \/ Elsewhere(g, t)
    BY <1>3, InHand
  <2> QED BY <2>1, <2>2 DEF Kept
<1>4. OutcomeFrame(g)
  BY DEF OutcomeFrame
<1> QED BY <1>1, <1>2, <1>3, <1>4, OutcomeTurn

LEMMA SendingOutcome ==
  ASSUME NEW S
  PROVE  /\ ~Working(Idle) /\ GaveUp(Idle) /\ Repeats(Idle)
         /\ ~Working(Sending(S)) /\ GaveUp(Sending(S)) /\ Repeats(Sending(S))
<1>1. ~Working(Idle) /\ GaveUp(Idle)
  BY DEF Idle, Working, GaveUp
<1>2. ~Working([Idle EXCEPT !.pc = "send", !.rest = S]) /\ GaveUp([Idle EXCEPT !.pc = "send", !.rest = S])
  BY DEF Idle, Working, GaveUp
<1> QED BY <1>1, <1>2 DEF Sending, Repeats

(* The steps that end a task or a response. *)
LEMMA EndOutcome ==
  ASSUME IInv, Separate, Grows, CountInv, OutcomeInv, NEW g \in Handlers,
         \/ RejectTask(g) \/ IgnoreTask(g) \/ NothingToSend(g)
         \/ CompleteCached(g) \/ CompleteRejected(g) \/ OrphanResponse(g) \/ ProduceCommand(g)
  PROVE  OutcomeInv'
<1>1. PICK s : Become(g, s) /\ (s = Idle \/ \E S : s = Sending(S))
  BY DEF RejectTask, IgnoreTask, NothingToSend, CompleteCached,
         CompleteRejected, OrphanResponse, ProduceCommand, Local, Resume, AfterComplete
<1>2. GaveUp(s) /\ Repeats(s)
  BY <1>1, SendingOutcome
<1>3. UNCHANGED <<meta, tries, engine, output, retries>>
  BY DEF RejectTask, IgnoreTask, NothingToSend, CompleteCached,
         CompleteRejected, OrphanResponse, ProduceCommand, Local, store, camunda
<1>4. Reported' = Reported
  <2>1. CASE RejectTask(g)
    <3>1. h[g].task \in Tasks
      BY <2>1 DEF IInv, Good, Placed, RejectTask, At
    <3>2. Payload[h[g].task] \subseteq {"command", "incident", "invalid"}
      BY <3>1, ConfigAssumption
    <3>3. PICK r \in {"incident", "invalid"} : incidents' = incidents \cup {<<h[g].task, r>>}
      BY <2>1, <3>2 DEF RejectTask, Reading, Report
    <3> QED BY <3>3 DEF Reported
  <2>2. CASE CompleteRejected(g)
    BY <2>2 DEF CompleteRejected, Report, Reported
  <2>3. CASE ~RejectTask(g) /\ ~CompleteRejected(g)
    BY <2>3 DEF IgnoreTask, NothingToSend, CompleteCached, OrphanResponse, ProduceCommand, Local,
                history, Reported
  <2> QED BY <2>1, <2>2, <2>3
<1>5. ASSUME Working(h[g]), h[g].task \in Reported PROVE Kept(h[g].task) = {}
  <2>1. Repeats(h[g]) /\ Counting(h[g])
    BY DEF OutcomeInv, CountInv
  <2>2. h[g].pc = "execute" => Kept(h[g].task) = {}
    BY <1>5, <2>1 DEF Repeats
  <2>3. ~CompleteCached(g) /\ ~CompleteRejected(g)
    BY <1>5, <2>1 DEF Repeats, CompleteCached, CompleteRejected, At
  <2>4. ~OrphanResponse(g) /\ ~ProduceCommand(g)
    BY <1>5 DEF OrphanResponse, ProduceCommand, At, Working
  <2>5. ~NothingToSend(g)
    <3> SUFFICES ASSUME NothingToSend(g) PROVE FALSE
      OBVIOUS
    <3>1. h[g].pc = "annotate" /\ h[g].todo = {} /\ FilterRetries(g) # {}
      BY DEF NothingToSend, At
    <3>2. \A c \in Children(h[g].task) : Limit # -1 /\ tries[c] > Limit
      BY <1>5, <2>1, <3>1 DEF Repeats, Hopeless, Tired, Counting
    <3>3. \A c \in h[g].missing : c \in Children(h[g].task) /\ tries[c] <= h[g].tries[c]
      BY <2>1, <3>1 DEF Counting
    <3>5. \A c \in h[g].missing : h[g].tries[c] \in Nat /\ tries[c] \in Nat
      BY Counters DEF IInv, Good, HandlerState
    <3>4. \A c \in h[g].missing : Limit # -1 /\ h[g].tries[c] > Limit
      BY <3>2, <3>3, <3>5, LimitType
    <3> QED BY <3>1, <3>4, <3>5, LimitType DEF FilterRetries, MayTry
  <2> QED BY <2>2, <2>3, <2>4, <2>5 DEF RejectTask, IgnoreTask, At
<1> QED BY <1>1, <1>2, <1>3, <1>4, <1>5, QuietOutcome

(* The incident: the goroutine has no results and no tries left. *)
LEMMA ReportOutcome ==
  ASSUME IInv, Separate, Grows, CountInv, MetaInv, OutcomeInv, NEW g \in Handlers, ReportNoResults(g)
  PROVE  OutcomeInv'
<1> PICK t : t = h[g].task
  OBVIOUS
<1> PICK s : s = Resume(g)
  OBVIOUS
<1>1. /\ h[g].pc = "noResults" /\ Become(g, s) /\ incidents' = incidents \cup {<<t, "no results">>}
      /\ UNCHANGED <<meta, tries, engine, output, retries>>
  BY DEF ReportNoResults, At, Report, store, camunda
<1>2. ~Working(s) /\ GaveUp(s)' /\ Repeats(s)'
  <2>1. ~Working(s) /\ GaveUp(s)
    BY SendingOutcome DEF Resume
  <2> QED BY <1>1, <2>1 DEF GaveUp, Repeats, Working, Hopeless, Tired
<1>3. Working(h[g]) /\ t \in Tasks
  BY <1>1, WorkingTask DEF Working
<1>4. Hopeless(h[g]) /\ ~Optimistic
  BY <1>1, HopelessIsPessimistic DEF OutcomeInv, GaveUp
<1>5. Clearing(h[g])
  BY <1>4 DEF MetaInv
<1>6. Kept(t) = {} /\ output[t] = {}
  BY <1>1, <1>3, <1>5 DEF Clearing, OutcomeInv
<1>7. Scheduler = "parallel" => retries[t] > Limit
  <2> SUFFICES ASSUME Scheduler = "parallel" PROVE retries[t] > Limit
    OBVIOUS
  <2>1. Counting(h[g]) /\ h[g] \in HandlerState /\ (h[g].role = "result" => h[g].seen = 0)
    BY DEF CountInv, IInv, Good, Placed
  <2>2. Limit # -1 /\ h[g].seen > Limit /\ Limit \in Nat
    BY <1>4, ConfigAssumption DEF Hopeless, Limit
  <2>3. h[g].role = "camunda"
    <3>1. h[g].role \in {"none", "camunda", "response", "result"}
      BY <2>1 DEF HandlerState
    <3>2. h[g].role # "none" /\ h[g].role # "response"
      BY <1>1, <2>1 DEF Counting
    <3>3. h[g].role # "result"
      BY <2>1, <2>2
    <3> QED BY <3>1, <3>2, <3>3
  <2>4. h[g].seen <= retries[t] /\ h[g].seen \in Nat
    BY <2>1, <2>3 DEF Counting, HandlerState
  <2>5. retries[t] \in Nat
    BY <1>3 DEF IInv, TypeOK
  <2> QED BY <2>2, <2>4, <2>5
<1>8. GivenUp(t)
  BY <1>4, <1>6, <1>7 DEF GivenUp, Hopeless
<1>9. ASSUME NEW u \in Reported' PROVE GivenUp(u)' /\ (Kept(u)' = {} \/ Elsewhere(g, u))
  <2>1. u \in Reported \/ u = t
    BY <1>1, <1>9 DEF Reported
  <2>2. GivenUp(u)
    BY <1>8, <2>1 DEF OutcomeInv
  <2>3. Kept(u) = {} \/ Elsewhere(g, u)
    BY <1>6, <2>1, InHand
  <2> QED BY <1>1, <2>2, <2>3 DEF GivenUp, Tired, Kept
<1>10. \A u \in Tasks : output'[u] # {} => engine'[u] = "completed"
  BY <1>1 DEF OutcomeInv
<1>11. OutcomeFrame(g)
  BY <1>1, <1>3 DEF OutcomeFrame, Reported, Kept
<1> QED BY <1>1, <1>2, <1>9, <1>10, <1>11, OutcomeTurn

(* A reported task is not completed any more, whether the answer of the engine arrives or not. *)
LEMMA CompleteOutcome ==
  ASSUME IInv, Separate, Grows, OutcomeInv, NEW g \in Handlers, CompleteAccepted(g) \/ CompleteAnswerLost(g)
  PROVE  OutcomeInv'
<1> PICK t : t = h[g].task
  OBVIOUS
<1>1. PICK s : /\ h[g].pc = "complete" /\ Become(g, s) /\ (s = Idle \/ \E S : s = Sending(S))
               /\ \/ engine' = [engine EXCEPT ![t] = "completed"] /\ output' = [output EXCEPT ![t] = h[g].got]
                  \/ UNCHANGED <<engine, output>>
               /\ UNCHANGED <<meta, tries, retries>>
  BY DEF CompleteAccepted, CompleteAnswerLost, AfterComplete, Resume, At, store
<1>2. Reported' = Reported
  BY DEF CompleteAccepted, CompleteAnswerLost, Report, history, Reported
<1>3. ~Working(s) /\ GaveUp(s)' /\ Repeats(s)'
  <2>1. ~Working(s) /\ GaveUp(s)
    BY <1>1, SendingOutcome
  <2> QED BY <1>1, <2>1 DEF GaveUp, Repeats, Working, Hopeless, Tired
<1>4. Working(h[g]) /\ t \in Tasks /\ t \notin Reported
  <2>1. Working(h[g]) /\ t \in Tasks
    BY <1>1, WorkingTask DEF Working
  <2> QED BY <1>1, <2>1 DEF OutcomeInv, Repeats
<1>5. engine \in [Tasks -> {"open", "completed", "failed"}] /\ output \in [Tasks -> SUBSET SubTasks]
  BY DEF IInv, TypeOK
<1>6. \A u \in Tasks : output'[u] # {} => engine'[u] = "completed"
  BY <1>1, <1>5 DEF OutcomeInv
<1>7. ASSUME NEW u \in Reported' PROVE GivenUp(u)' /\ (Kept(u)' = {} \/ Elsewhere(g, u))
  <2>1. u \in Reported /\ u # t /\ u \in Tasks
    BY <1>2, <1>4, <1>7 DEF Reported
  <2>2. GivenUp(u) /\ (Kept(u) = {} \/ Elsewhere(g, u))
    BY <2>1, InHand DEF OutcomeInv
  <2>3. engine'[u] = engine[u] /\ output'[u] = output[u]
    BY <1>1, <1>5, <2>1
  <2> QED BY <1>1, <2>2, <2>3 DEF GivenUp, Tired, Kept
<1>8. OutcomeFrame(g)
  BY <1>1, <1>2 DEF OutcomeFrame
<1> QED BY <1>1, <1>3, <1>6, <1>7, <1>8, OutcomeTurn

(* A task whose tries are counted was not reported, and the count only grows. *)
LEMMA TryOutcome ==
  ASSUME IInv, Separate, Grows, CountInv, OutcomeInv, NEW g \in Handlers, UpdateSubTaskState(g) \/ SetRetry(g)
  PROVE  OutcomeInv'
<1> PICK t : t = h[g].task
  OBVIOUS
<1>1. UNCHANGED <<meta, engine, output, Reported>>
  BY DEF UpdateSubTaskState, SetRetry, store, camunda, Reported
<1>2. /\ h[g] \in HandlerState /\ Counting(h[g]) /\ Repeats(h[g]) /\ GaveUp(h[g])
      /\ tries \in [SubTasks -> Nat] /\ retries \in [Tasks -> Nat]
  BY DEF IInv, TypeOK, Good, CountInv, OutcomeInv
<1>3. Working(h[g]) /\ t \in Tasks
  BY WorkingTask DEF UpdateSubTaskState, SetRetry, At, Working
<1>4. t \notin Reported
  <2>1. CASE UpdateSubTaskState(g)
    <3> SUFFICES ASSUME t \in Reported PROVE FALSE
      OBVIOUS
    <3>1. PICK c \in SubTasks : NextRequest(g, c)
      BY <2>1 DEF UpdateSubTaskState
    <3>2. h[g].pc = "annotate" /\ h[g].todo = {}
      BY <2>1 DEF UpdateSubTaskState, At
    <3>3. c \in h[g].missing /\ MayTry(g, c)
      BY <3>1 DEF NextRequest, IsFirst, FilterCurrentlyRunning, FilterRetries
    <3>4. Limit # -1 /\ tries[c] > Limit
      BY <1>2, <1>3, <3>2, <3>3 DEF Repeats, Hopeless, Tired, Counting
    <3>5. tries[c] <= h[g].tries[c] /\ tries[c] \in Nat /\ h[g].tries[c] \in Nat
      BY <1>2, <3>2, <3>3 DEF Counting, HandlerState
    <3> QED BY <3>3, <3>4, <3>5, LimitType DEF MayTry
  <2>2. CASE SetRetry(g)
    BY <1>2, <1>3, <2>2 DEF SetRetry, At, Repeats
  <2> QED BY <2>1, <2>2
<1>5. ASSUME NEW u \in Reported PROVE \A c \in Children(u) : tries'[c] = tries[c]
  <2>1. CASE UpdateSubTaskState(g)
    <3>1. PICK c \in SubTasks : NextRequest(g, c) /\ tries' = [tries EXCEPT ![c] = h[g].tries[c] + 1]
      BY <2>1 DEF UpdateSubTaskState
    <3>2. c \in Children(t)
      BY <1>2, <3>1 DEF NextRequest, IsFirst, FilterCurrentlyRunning, FilterRetries, Counting
    <3> QED BY <1>2, <1>4, <1>5, <3>1, <3>2 DEF Children
  <2>2. CASE SetRetry(g)
    BY <2>2 DEF SetRetry, store
  <2> QED BY <2>1, <2>2
<1>6. ASSUME NEW u \in Reported PROVE retries'[u] = retries[u]
  <2>1. CASE UpdateSubTaskState(g)
    BY <2>1 DEF UpdateSubTaskState, camunda
  <2>2. CASE SetRetry(g)
    BY <1>2, <1>4, <1>6, <2>2 DEF SetRetry, Reported
  <2> QED BY <2>1, <2>2
<1>7. PICK s : /\ Become(g, s) /\ ~(s.pc = "noResults" \/ s.next = "noResults") /\ s.pc # "annotate"
               /\ ~Working(s) \/ s.task = t
  <2>1. CASE UpdateSubTaskState(g)
    <3>1. PICK c : Become(g, Sending({c}))
      BY <2>1 DEF UpdateSubTaskState
    <3>2. PICK s : s = Sending({c})
      OBVIOUS
    <3>3. ~Working(s) /\ ~(s.pc = "noResults" \/ s.next = "noResults") /\ s.pc # "annotate"
      BY <3>2, SendingOutcome DEF Sending, Idle
    <3> QED BY <3>1, <3>2, <3>3
  <2>2. CASE SetRetry(g) /\ (Optimistic \/ h[g].missing = {})
    <3> PICK s : s = [h[g] EXCEPT !.pc = "complete"]
      OBVIOUS
    <3>1. Become(g, s) /\ h[g].pc = "setRetry"
      BY <2>2 DEF SetRetry, At
    <3>2. s.pc = "complete" /\ s.task = t /\ s.next # "noResults"
      BY <1>2, <3>1 DEF HandlerState, GaveUp
    <3> QED BY <3>1, <3>2
  <2>3. CASE SetRetry(g) /\ ~(Optimistic \/ h[g].missing = {})
    <3>1. PICK s : s = Sending(h[g].missing)
      OBVIOUS
    <3>2. Become(g, s)
      BY <2>3, <3>1 DEF SetRetry
    <3>3. ~Working(s) /\ ~(s.pc = "noResults" \/ s.next = "noResults") /\ s.pc # "annotate"
      BY <3>1, SendingOutcome DEF Sending, Idle
    <3> QED BY <3>2, <3>3
  <2> QED BY <2>1, <2>2, <2>3
<1>8. GaveUp(s)' /\ Repeats(s)'
  BY <1>1, <1>4, <1>7 DEF GaveUp, Repeats, Working
<1>9. \A u \in Tasks : output'[u] # {} => engine'[u] = "completed"
  BY <1>1 DEF OutcomeInv
<1>10. ASSUME NEW u \in Reported' PROVE GivenUp(u)' /\ (Kept(u)' = {} \/ Elsewhere(g, u))
  <2>1. u \in Reported /\ u # t
    BY <1>1, <1>4, <1>10
  <2>2. GivenUp(u) /\ (Kept(u) = {} \/ Elsewhere(g, u))
    BY <2>1, InHand DEF OutcomeInv
  <2>3. \A c \in Children(u) : tries'[c] = tries[c]
    BY <1>5, <2>1
  <2>4. retries'[u] = retries[u]
    BY <1>6, <2>1
  <2> QED BY <1>1, <2>2, <2>3, <2>4 DEF GivenUp, Tired, Kept
<1>11. OutcomeFrame(g)
  BY <1>1 DEF OutcomeFrame
<1> QED BY <1>7, <1>8, <1>9, <1>10, <1>11, OutcomeTurn

(* The steps that go on with a task and write neither metadata nor counters. *)
LEMMA MoveOutcome ==
  ASSUME IInv, Separate, Separate', Grows, CountInv, OutcomeInv, NEW g \in Handlers,
         \/ AcceptTask(g) \/ SaveCallInfo(g) \/ FoundMeta(g) \/ SplitTask(g)
         \/ GetResult(g) \/ StartAnnotate(g) \/ AnnotateSubTaskState(g) \/ Exhausted(g)
         \/ ScheduleParallel(g) \/ ClearTaskData(g) \/ DeleteResult(g)
         \/ FinishGroup(g) \/ ContinueGroup(g)
  PROVE  OutcomeInv'
<1> PICK t : t = h[g].task
  OBVIOUS
<1>1. /\ h[g] \in HandlerState /\ Good(h[g], answered, attempted)
      /\ GaveUp(h[g]) /\ Repeats(h[g]) /\ Counting(h[g])
  BY DEF IInv, Good, OutcomeInv, CountInv
<1>2. UNCHANGED <<meta, tries, engine, output, retries, Reported>>
  BY DEF AcceptTask, SaveCallInfo, FoundMeta, SplitTask, GetResult, StartAnnotate, RequestsBuilt,
         AnnotateSubTaskState, Exhausted, ScheduleParallel, ClearTaskData, DeleteResult, FinishGroup,
         ContinueGroup, Local, store, camunda, history, Reported
<1>3. ASSUME NEW s, Become(g, s), s.task = t, Working(s), GaveUp(s), Repeats(s) PROVE OutcomeInv'
  BY <1>2, <1>3, QuietOutcome
\* most steps go on with what the goroutine knows
<1>4. ASSUME NEW s, Become(g, s), Working(h[g]), s.task = t, s.seen = h[g].seen, s.next = h[g].next,
             s.got = h[g].got \/ s.got = {},
             h[g].pc \notin {"clear", "deleteMeta", "deleteResult", "noResults"},
             \/ s.pc \in {"saveMeta", "annotate"}
             \/ s.pc = "save" /\ h[g].pc = "execute"
             \/ s.pc = "getMeta" /\ h[g].pc \in {"execute", "save"} /\ s.role = h[g].role /\ s.role # "result",
             s.pc = "annotate" => \A c \in s.missing \ s.todo : s.tries[c] <= tries[c]
      PROVE  OutcomeInv'
  <2>1. h[g].next # "noResults"
    BY <1>1, <1>4 DEF GaveUp
  <2>2. Working(s) /\ GaveUp(s)
    BY <1>4, <2>1 DEF Working, GaveUp
  <2>3. Repeats(s)
    BY <1>1, <1>4, <2>1 DEF Repeats, Hopeless
  <2> QED BY <1>3, <1>4, <2>2, <2>3
<1>5. CASE AcceptTask(g)
  <2> PICK s : s = [h[g] EXCEPT !.pc = IF Scheduler = "parallel" THEN "getMeta" ELSE "save"]
    OBVIOUS
  <2>1. Become(g, s) /\ h[g].pc = "execute" /\ h[g].role # "result" /\ Working(h[g])
    BY <1>1, <1>5 DEF AcceptTask, Local, At, Good, Placed, Working
  <2>2. /\ s.task = t /\ s.seen = h[g].seen /\ s.next = h[g].next /\ s.got = h[g].got /\ s.role = h[g].role
        /\ s.pc \in {"save", "getMeta"}
    BY <1>1 DEF HandlerState
  <2> QED BY <1>4, <2>1, <2>2
<1>6. CASE SaveCallInfo(g)
  <2> PICK s : s = [h[g] EXCEPT !.pc = "getMeta"]
    OBVIOUS
  <2>1. Become(g, s) /\ h[g].pc = "save" /\ h[g].role # "result" /\ Working(h[g])
    BY <1>1, <1>6 DEF SaveCallInfo, At, Good, Placed, Working
  <2>2. /\ s.task = t /\ s.seen = h[g].seen /\ s.next = h[g].next /\ s.got = h[g].got /\ s.role = h[g].role
        /\ s.pc = "getMeta"
    BY <1>1 DEF HandlerState
  <2> QED BY <1>4, <2>1, <2>2
<1>7. CASE FoundMeta(g)
  <2> PICK u : u = IF h[g].role = "result" THEN Parent[h[g].sub] ELSE t
    OBVIOUS
  <2> PICK s : s = [h[g] EXCEPT !.pc = "getResults", !.task = u, !.todo = Children(u),
                                !.got = {}, !.missing = {}]
    OBVIOUS
  <2>1. Become(g, s) /\ h[g].pc = "getMeta" /\ Key(g) \in meta
    BY <1>7 DEF FoundMeta, At, Local
  <2>2. s.task = u /\ s.pc = "getResults" /\ s.next # "noResults"
    BY <1>1, <2>1 DEF HandlerState, GaveUp
  <2>3. Kept(u) # {}
    <3>1. CASE h[g].role = "result"
      BY <1>1, <2>1, <3>1 DEF Good, Placed, Key, Kept, Family, Children
    <3>2. CASE h[g].role # "result"
      BY <2>1, <3>2 DEF Key, Kept, Family
    <3> QED BY <3>1, <3>2
  <2>4. u \notin Reported
    <3>1. CASE h[g].role = "result"
      <4>1. ~Elsewhere(g, u)
        BY <2>1, <2>2, ApartThen DEF Working
      <4> QED BY <2>1, <2>3, <3>1, <4>1, InHand DEF Working
    <3>2. CASE h[g].role # "result"
      BY <1>1, <2>1, <2>3, <3>2 DEF Repeats, Working
    <3> QED BY <3>1, <3>2
  <2>5. Working(h[g]) => h[g].task = u
    BY <2>1 DEF Working
  <2>6. GaveUp(s) /\ Repeats(s)
    BY <2>2, <2>4 DEF GaveUp, Repeats
  <2> QED BY <1>2, <2>1, <2>4, <2>5, <2>6, QuietOutcome
<1>8. CASE SplitTask(g)
  <2> PICK s : s = [h[g] EXCEPT !.pc = "saveMeta", !.got = {}, !.missing = Children(t)]
    OBVIOUS
  <2>1. Become(g, s) /\ h[g].pc = "getMeta" /\ Working(h[g])
    BY <1>8 DEF SplitTask, At, Local, Working
  <2>2. /\ s.task = t /\ s.seen = h[g].seen /\ s.next = h[g].next /\ s.got = {} /\ s.pc = "saveMeta"
    BY <1>1 DEF HandlerState
  <2> QED BY <1>4, <2>1, <2>2
<1>9. CASE GetResult(g)
  <2>1. h[g].pc = "getResults" /\ Working(h[g])
    BY <1>9 DEF GetResult, At, Working
  <2>2. t \notin Reported /\ h[g].next # "noResults"
    BY <1>1, <2>1 DEF Repeats, GaveUp
  <2>3. PICK c, s :
          /\ Become(g, s)
          /\ \/ s = [h[g] EXCEPT !.todo = @ \ {c}, !.got = @ \cup {c}]
             \/ s = [h[g] EXCEPT !.todo = @ \ {c}, !.missing = @ \cup {c}]
    BY <1>9 DEF GetResult, Local
  <2>4. s.pc = "getResults" /\ s.task = t /\ s.next # "noResults"
    BY <1>1, <2>1, <2>2, <2>3 DEF HandlerState
  <2>5. Working(s) /\ GaveUp(s) /\ Repeats(s)
    BY <2>2, <2>4 DEF Working, GaveUp, Repeats
  <2> QED BY <1>3, <2>3, <2>4, <2>5
<1>10. CASE StartAnnotate(g)
  <2> PICK s : s = [h[g] EXCEPT !.pc = "annotate", !.todo = h[g].missing]
    OBVIOUS
  <2>1. Become(g, s) /\ h[g].pc \in {"getResults", "saveChildren"} /\ Working(h[g])
    BY <1>10 DEF StartAnnotate, RequestsBuilt, At, Local, Working
  <2>2. /\ s.task = t /\ s.seen = h[g].seen /\ s.next = h[g].next /\ s.got = h[g].got /\ s.pc = "annotate"
        /\ s.missing \ s.todo = {}
    BY <1>1 DEF HandlerState
  <2> QED BY <1>4, <2>1, <2>2
<1>11. CASE AnnotateSubTaskState(g)
  <2>1. h[g].pc = "annotate" /\ Working(h[g])
    BY <1>11 DEF AnnotateSubTaskState, At, Working
  <2>2. PICK c \in h[g].todo :
          Become(g, [h[g] EXCEPT !.todo = @ \ {c}, !.tries[c] = tries[c],
                                 !.fresh = IF c \in running THEN @ \cup {c} ELSE @])
    BY <1>11 DEF AnnotateSubTaskState, Local
  <2> PICK s : s = [h[g] EXCEPT !.todo = @ \ {c}, !.tries[c] = tries[c],
                                !.fresh = IF c \in running THEN @ \cup {c} ELSE @]
    OBVIOUS
  <2>3. /\ s.task = t /\ s.seen = h[g].seen /\ s.next = h[g].next /\ s.got = h[g].got /\ s.pc = "annotate"
        /\ s.missing = h[g].missing /\ s.todo = h[g].todo \ {c}
        /\ s.tries = [h[g].tries EXCEPT ![c] = tries[c]]
    BY <1>1, <2>1 DEF HandlerState
  <2>4. ASSUME NEW d \in s.missing \ s.todo PROVE s.tries[d] <= tries[d]
    <3>1. d \in SubTasks /\ tries[d] \in Nat /\ h[g].tries \in [SubTasks -> Nat]
      BY <1>1, <2>3, <2>4, Counters DEF HandlerState
    <3>2. CASE d = c
      BY <2>3, <3>1, <3>2
    <3>3. CASE d # c
      BY <1>1, <2>1, <2>3, <2>4, <3>1, <3>3 DEF GaveUp
    <3> QED BY <3>2, <3>3
  <2> QED BY <1>4, <2>1, <2>2, <2>3, <2>4
<1>12. CASE Exhausted(g)
  <2> PICK s : s = [h[g] EXCEPT !.pc = "clear", !.next = IF h[g].got = {} THEN "noResults" ELSE "complete"]
    OBVIOUS
  <2>1. Become(g, s) /\ h[g].pc = "annotate" /\ h[g].todo = {} /\ FilterRetries(g) = {} /\ Working(h[g])
    BY <1>12 DEF Exhausted, At, Local, Working
  <2>2. /\ s.task = t /\ s.seen = h[g].seen /\ s.got = h[g].got /\ s.pc = "clear"
        /\ s.next = IF s.got = {} THEN "noResults" ELSE "complete"
    BY <1>1 DEF HandlerState
  <2>3. s.got = {} => Hopeless(s)
    <3> SUFFICES ASSUME s.got = {}, NEW c \in Children(t) PROVE Limit # -1 /\ tries[c] > Limit
      BY <1>1, <2>1, <2>2 DEF Hopeless, Tired, Counting
    <3>1. c \in h[g].missing
      BY <1>1, <2>1, <2>2 DEF Good, Scanned
    <3>2. h[g].tries[c] <= tries[c] /\ h[g].tries[c] \in Nat /\ tries[c] \in Nat
      BY <1>1, <2>1, <3>1, Counters DEF GaveUp, HandlerState
    <3>3. ~MayTry(g, c)
      BY <2>1, <3>1 DEF FilterRetries
    <3> QED BY <3>2, <3>3, LimitType DEF MayTry
  <2>4. Working(s) /\ GaveUp(s)
    BY <2>2, <2>3 DEF Working, GaveUp
  <2>5. Repeats(s)
    BY <1>1, <2>1, <2>2, <2>3 DEF Repeats
  <2> QED BY <1>3, <2>1, <2>2, <2>4, <2>5
<1>13. CASE ScheduleParallel(g)
  <2> PICK s : s = [h[g] EXCEPT
         !.pc = IF h[g].missing = {} \/ NoMoreRetries(g) THEN "clear" ELSE "setRetry",
         !.next = CASE ~NoMoreRetries(g) -> "setRetry"
                    [] NoMoreRetries(g) /\ h[g].got = {} -> "noResults"
                    [] OTHER -> "complete"]
    OBVIOUS
  <2>1. /\ Become(g, s) /\ Scheduler = "parallel" /\ Working(h[g])
        /\ h[g].pc \in {"getResults", "saveChildren"}
    BY <1>13 DEF ScheduleParallel, RequestsBuilt, At, Local, Working
  <2>2. /\ s.task = t /\ s.seen = h[g].seen /\ s.got = h[g].got /\ s.pc \in {"clear", "setRetry"}
        /\ NoMoreRetries(g) => s.pc = "clear"
        /\ s.next = "noResults" => NoMoreRetries(g) /\ s.got = {}
        /\ NoMoreRetries(g) /\ s.got = {} => s.next = "noResults"
    BY <1>1 DEF HandlerState
  <2>3. NoMoreRetries(g) => Hopeless(s)
    <3>1. h[g].seen \in Nat
      BY <1>1 DEF HandlerState
    <3> QED BY <2>1, <2>2, <3>1, LimitType DEF NoMoreRetries, Hopeless
  <2>4. Working(s) /\ GaveUp(s)
    BY <2>2, <2>3 DEF Working, GaveUp
  <2>5. t \in Reported => NoMoreRetries(g) /\ s.got = {}
    <3>1. h[g].seen \in Nat
      BY <1>1 DEF HandlerState
    <3> QED BY <1>1, <2>1, <2>2, <3>1, LimitType DEF NoMoreRetries, Hopeless, Repeats
  <2>6. Repeats(s)
    BY <2>2, <2>3, <2>5 DEF Repeats
  <2> QED BY <1>3, <2>1, <2>2, <2>4, <2>6
\* the clearing hands on what was decided
<1>14. ASSUME NEW s, Become(g, s), s.task = t, s.seen = h[g].seen, s.got = h[g].got, s.next = h[g].next,
              h[g].pc \in {"clear", "deleteResult"}, s.pc = "deleteMeta" \/ s.pc = h[g].next
       PROVE  OutcomeInv'
  <2>1. Working(h[g]) /\ h[g].next \in {"setRetry", "noResults", "complete"}
    BY <1>1, <1>14 DEF Working, Good, Placed, HandlerState
  <2>2. Working(s) /\ GaveUp(s)
    BY <1>1, <1>14, <2>1 DEF Working, GaveUp, Hopeless
  <2>3. Repeats(s)
    BY <1>1, <1>14, <2>1 DEF Repeats, Hopeless
  <2> QED BY <1>3, <1>14, <2>2, <2>3
<1>15. CASE ClearTaskData(g)
  <2>1. PICK s : /\ Become(g, s)
                 /\ \/ s = [h[g] EXCEPT !.pc = "deleteMeta", !.todo = Children(t) \cup {t}]
                    \/ s = [h[g] EXCEPT !.pc = h[g].next]
    BY <1>15 DEF ClearTaskData, Local
  <2>2. /\ s.task = t /\ s.seen = h[g].seen /\ s.got = h[g].got /\ s.next = h[g].next
        /\ s.pc = "deleteMeta" \/ s.pc = h[g].next
    BY <1>1, <2>1 DEF HandlerState
  <2> QED BY <1>14, <1>15, <2>1, <2>2 DEF ClearTaskData, At
<1>16. CASE DeleteResult(g)
  <2>1. PICK x, s : /\ Become(g, s)
                    /\ s = [h[g] EXCEPT !.todo = @ \ {x},
                              !.pc = IF h[g].todo = {x} THEN h[g].next ELSE "deleteMeta"]
    BY <1>16 DEF DeleteResult
  <2>2. /\ s.task = t /\ s.seen = h[g].seen /\ s.got = h[g].got /\ s.next = h[g].next
        /\ s.pc = "deleteMeta" \/ s.pc = h[g].next
    BY <1>1, <2>1 DEF HandlerState
  <2> QED BY <1>14, <1>16, <2>1, <2>2 DEF DeleteResult, At
<1>17. CASE FinishGroup(g)
  <2> PICK s : s = [h[g] EXCEPT !.pc = "clear", !.next = "complete"]
    OBVIOUS
  <2>1. Become(g, s) /\ h[g].pc = "getResults" /\ t \notin Reported
    BY <1>1, <1>17 DEF FinishGroup, At, Local, Repeats, Working
  <2>2. s.task = t /\ s.pc = "clear" /\ s.next = "complete"
    BY <1>1 DEF HandlerState
  <2>3. Working(s) /\ GaveUp(s) /\ Repeats(s)
    BY <2>1, <2>2 DEF Working, GaveUp, Repeats
  <2> QED BY <1>3, <2>1, <2>2, <2>3
<1>18. CASE ContinueGroup(g)
  <2>1. h[g].pc = "getResults" /\ t \notin Reported
    BY <1>1, <1>18 DEF ContinueGroup, At, Repeats, Working
  <2>2. CASE Scheduler = "parallel"
    <3>1. Become(g, Sending(h[g].rest))
      BY <1>18, <2>2 DEF ContinueGroup, Local, Resume
    <3> QED BY <1>2, <2>1, <3>1, SendingOutcome, QuietOutcome
  <2>3. CASE Scheduler # "parallel"
    <3> PICK s : s = [Idle EXCEPT !.pc = "execute", !.role = "response", !.task = t, !.rest = h[g].rest]
      OBVIOUS
    <3>1. Become(g, s)
      BY <1>18, <2>3 DEF ContinueGroup, Local
    <3>2. s.task = t /\ s.pc = "execute" /\ s.next = "none"
      BY DEF Idle
    <3>3. Working(s) /\ GaveUp(s) /\ Repeats(s)
      BY <2>1, <3>2 DEF Working, GaveUp, Repeats
    <3> QED BY <1>3, <3>1, <3>2, <3>3
  <2> QED BY <2>2, <2>3
<1> QED BY <1>5, <1>6, <1>7, <1>8, <1>9, <1>10, <1>11, <1>12, <1>13, <1>15, <1>16, <1>17, <1>18

(* Metadata that is written belongs to the group the goroutine works on. *)
LEMMA WriteOutcome ==
  ASSUME IInv, Separate, Grows, MetaInv, OutcomeInv, NEW g \in Handlers,
         SaveParentMeta(g) \/ SaveChildMeta(g) \/ DeleteMeta(g)
  PROVE  OutcomeInv'
<1> PICK t : t = h[g].task
  OBVIOUS
<1>1. /\ h[g] \in HandlerState /\ Good(h[g], answered, attempted) /\ GaveUp(h[g]) /\ Repeats(h[g])
      /\ UNCHANGED <<tries, engine, output, retries, incidents>>
  BY DEF IInv, Good, OutcomeInv, SaveParentMeta, SaveChildMeta, DeleteMeta, camunda, history
<1>2. h[g].pc \in {"saveMeta", "saveChildren", "deleteMeta"} /\ Working(h[g]) /\ t \in Tasks
  BY WorkingTask DEF SaveParentMeta, SaveChildMeta, DeleteMeta, At, Working
<1>3. PICK s : /\ Become(g, s)
               /\ s.task = t /\ s.seen = h[g].seen /\ s.got = h[g].got /\ s.next = h[g].next
               /\ \/ h[g].pc \in {"saveMeta", "saveChildren"} /\ s.pc = "saveChildren"
                  \/ h[g].pc = "deleteMeta" /\ s.pc = "deleteResult"
  <2>1. CASE SaveParentMeta(g)
    <3> PICK s : s = [h[g] EXCEPT !.pc = "saveChildren", !.todo = Children(t)]
      OBVIOUS
    <3>1. Become(g, s) /\ h[g].pc = "saveMeta"
      BY <2>1 DEF SaveParentMeta, At
    <3>2. s.task = t /\ s.seen = h[g].seen /\ s.got = h[g].got /\ s.next = h[g].next /\ s.pc = "saveChildren"
      BY <1>1 DEF HandlerState
    <3> QED BY <3>1, <3>2
  <2>2. CASE SaveChildMeta(g)
    <3>1. h[g].pc = "saveChildren"
      BY <2>2 DEF SaveChildMeta, At
    <3>2. PICK c, s : Become(g, s) /\ s = [h[g] EXCEPT !.todo = @ \ {c}]
      BY <2>2 DEF SaveChildMeta
    <3>3. s.task = t /\ s.seen = h[g].seen /\ s.got = h[g].got /\ s.next = h[g].next /\ s.pc = "saveChildren"
      BY <1>1, <3>1, <3>2 DEF HandlerState
    <3> QED BY <3>1, <3>2, <3>3
  <2>3. CASE DeleteMeta(g)
    <3> PICK s : s = [h[g] EXCEPT !.pc = "deleteResult"]
      OBVIOUS
    <3>1. Become(g, s) /\ h[g].pc = "deleteMeta"
      BY <2>3 DEF DeleteMeta, At
    <3>2. s.task = t /\ s.seen = h[g].seen /\ s.got = h[g].got /\ s.next = h[g].next /\ s.pc = "deleteResult"
      BY <1>1 DEF HandlerState
    <3> QED BY <3>1, <3>2
  <2> QED BY <2>1, <2>2, <2>3
<1>4. GaveUp(s)' /\ Repeats(s)'
  <2>1. GaveUp(s)
    BY <1>1, <1>3 DEF GaveUp, Hopeless
  <2>2. ~(s.pc \in {"execute", "save", "getMeta"}) /\ s.pc \notin {"getResults", "setRetry", "complete"}
    BY <1>3
  <2>3. Reported' = Reported
    BY <1>1 DEF Reported
  <2>4. s.task \in Reported => s.next \in {"none", "noResults"} /\ s.got = {} /\ Hopeless(s)
    BY <1>1, <1>2, <1>3 DEF Repeats, Hopeless
  <2> QED BY <1>1, <2>1, <2>2, <2>3, <2>4 DEF GaveUp, Repeats, Hopeless, Tired
<1>5. \A u \in Tasks : output'[u] # {} => engine'[u] = "completed"
  BY <1>1 DEF OutcomeInv
<1>6. Working(s)
  BY <1>3 DEF Working
<1>7. ASSUME NEW u \in Reported, u \in Tasks, u # t PROVE Kept(u)' \subseteq Kept(u)
  <2>1. CASE SaveParentMeta(g)
    <3>1. meta' = meta \cup {t} /\ t \in Family(t)
      BY <2>1 DEF SaveParentMeta, Family
    <3>2. t \notin Family(u)
      BY <1>2, <1>7, <3>1, FamiliesApart
    <3> QED BY <1>7, <3>1, <3>2 DEF Kept
  <2>2. CASE SaveChildMeta(g)
    <3>1. PICK c \in h[g].todo : meta' = meta \cup {c}
      BY <2>2 DEF SaveChildMeta
    <3>2. CASE c \in Family(u)
      <4>1. c \in Children(t)
        <5>1. ~Optimistic
          BY <1>7 DEF OutcomeInv, GivenUp
        <5> QED BY <2>2, <3>1, <5>1 DEF MetaInv, Clearing, SaveChildMeta, At
      <4> QED BY <1>2, <1>7, <3>2, <4>1, FamiliesApart DEF Family
    <3> QED BY <1>7, <3>1, <3>2 DEF Kept
  <2>3. CASE DeleteMeta(g)
    BY <1>7, <2>3 DEF DeleteMeta, Kept
  <2> QED BY <2>1, <2>2, <2>3
<1>8. ASSUME NEW u \in Reported'
      PROVE  GivenUp(u)' /\ (Kept(u)' = {} \/ (Working(s) /\ s.task = u) \/ Elsewhere(g, u))
  <2>1. u \in Reported /\ u \in Tasks
    BY <1>1, <1>8 DEF Reported
  <2>2. GivenUp(u)'
    BY <1>1, <2>1 DEF OutcomeInv, GivenUp, Tired
  <2>3. Kept(u) = {} \/ u = t \/ Elsewhere(g, u)
    BY <2>1, InHand
  <2> QED BY <1>3, <1>6, <1>7, <2>1, <2>2, <2>3
<1>9. OutcomeFrame(g)
  BY <1>1, <1>2, <1>7 DEF OutcomeFrame, Reported
<1> QED BY <1>3, <1>4, <1>5, <1>8, <1>9, OutcomeTurn

(* The steps that begin with a task or a response. *)
LEMMA BeginOutcome ==
  ASSUME IInv, Separate, Separate', Grows, OutcomeInv, NEW g \in Handlers,
         \/ \E t \in Tasks : Fetch(g, t)
         \/ \E c \in SubTasks : TakeResponse(g, c)
         \/ AskLastValue(g) \/ SetSubResult(g)
  PROVE  OutcomeInv'
<1>1. h[g] \in HandlerState /\ Good(h[g], answered, attempted) /\ GaveUp(h[g])
  BY DEF IInv, Good, OutcomeInv
<1>2. UNCHANGED <<meta, tries, engine, output, retries, Reported>> /\ ~Working(h[g])
  BY DEF Fetch, TakeResponse, AskLastValue, SetSubResult, Local, store, camunda, history, At, Reported, Working
<1>3. ASSUME NEW s, Become(g, s), GaveUp(s), Repeats(s) PROVE OutcomeInv'
  BY <1>2, <1>3, QuietOutcome
<1>4. ASSUME NEW t \in Tasks, Fetch(g, t) PROVE OutcomeInv'
  <2> PICK s : s = [Idle EXCEPT !.pc = "execute", !.role = "camunda", !.task = t, !.seen = retries[t]]
    OBVIOUS
  <2>1. Become(g, s) /\ engine[t] = "open"
    BY <1>4 DEF Fetch
  <2>2. s.pc = "execute" /\ s.task = t /\ s.seen = retries[t] /\ s.next = "none" /\ s.got = {}
    BY DEF Idle
  <2>3. ASSUME t \in Reported PROVE Hopeless(s) /\ Kept(t) = {}
    <3>1. ~Elsewhere(g, t)
      BY <2>1, <2>2, ApartThen DEF Working
    <3> QED BY <1>2, <2>1, <2>2, <2>3, <3>1, InHand DEF OutcomeInv, GivenUp, Hopeless
  <2>4. GaveUp(s) /\ Repeats(s)
    BY <2>2, <2>3 DEF GaveUp, Repeats
  <2> QED BY <1>3, <2>1, <2>4
<1>5. ASSUME NEW s, s.pc = "setResult" \/ (s.pc = "getMeta" /\ s.role = "result"), s.next # "noResults"
      PROVE  GaveUp(s) /\ Repeats(s)
  BY <1>5 DEF GaveUp, Repeats, Working
<1>6. ASSUME NEW c \in SubTasks, TakeResponse(g, c) PROVE OutcomeInv'
  <2> PICK s : s = [Idle EXCEPT !.pc = "setResult", !.role = "result", !.sub = c]
    OBVIOUS
  <2>1. Become(g, Idle) \/ Become(g, s)
    BY <1>6 DEF TakeResponse
  <2>2. GaveUp(s) /\ Repeats(s)
    BY <1>5 DEF Idle
  <2> QED BY <1>3, <2>1, <2>2, SendingOutcome
<1>7. CASE AskLastValue(g)
  <2>1. PICK c \in h[g].rest :
          \/ Become(g, [Idle EXCEPT !.pc = "setResult", !.role = "result", !.sub = c,
                                    !.rest = h[g].rest \ {c}])
          \/ Become(g, Sending(h[g].rest \ {c})) \/ Become(g, Idle)
    BY <1>7 DEF AskLastValue, Local
  <2> PICK s : s = [Idle EXCEPT !.pc = "setResult", !.role = "result", !.sub = c,
                                !.rest = h[g].rest \ {c}]
    OBVIOUS
  <2>2. GaveUp(s) /\ Repeats(s)
    BY <1>5 DEF Idle
  <2> QED BY <1>3, <2>1, <2>2, SendingOutcome
<1>8. CASE SetSubResult(g)
  <2> PICK s : s = [h[g] EXCEPT !.pc = "getMeta"]
    OBVIOUS
  <2>1. Become(g, s) /\ h[g].pc = "setResult" /\ h[g].next # "noResults"
    BY <1>1, <1>8 DEF SetSubResult, At, GaveUp
  <2>2. s.pc = "getMeta" /\ s.role = "result" /\ s.next # "noResults"
    BY <1>1, <2>1 DEF Good, Placed, HandlerState
  <2> QED BY <1>3, <1>5, <2>1, <2>2
<1> QED BY <1>4, <1>6, <1>7, <1>8

(* The failures of a goroutine that works on a task without an incident. *)
LEMMA FailOutcome ==
  ASSUME IInv, Separate, Grows, OutcomeInv, NEW g \in Handlers, Failure(g), ~Forgets, ~Interrupts
  PROVE  OutcomeInv'
<1>1. h[g] \in HandlerState /\ Good(h[g], answered, attempted) /\ GaveUp(h[g])
  BY DEF IInv, Good, OutcomeInv
<1>2. ~(Working(h[g]) /\ h[g].task \in Reported)
  BY DEF Interrupts
<1>3. ASSUME NEW s, Become(g, s), s = Idle \/ \E S : s = Sending(S),
             UNCHANGED <<meta, tries, engine, output, retries, Reported>>
      PROVE  OutcomeInv'
  BY <1>2, <1>3, SendingOutcome, QuietOutcome
<1>4. CASE BuildFails(g) \/ CompleteUnreachable(g)
  <2>1. UNCHANGED <<meta, tries, engine, output, retries, Reported>>
    BY <1>4 DEF BuildFails, CompleteUnreachable, Report, store, camunda, history, Reported
  <2>2. Become(g, Resume(g))
    BY <1>4 DEF BuildFails, CompleteUnreachable
  <2> QED BY <1>3, <2>1, <2>2 DEF Resume
<1>5. CASE StoreFails(g)
  <2>1. UNCHANGED <<meta, tries, engine, output, retries, Reported>>
    BY <1>5 DEF StoreFails, Report, store, camunda, Reported
  <2>2. h[g].pc \notin {"clear", "deleteMeta"}
    BY <1>5 DEF Forgets, At
  <2>3. \/ Become(g, Resume(g))
        \/ h[g].pc = "save" /\ Become(g, [h[g] EXCEPT !.pc = "getMeta"])
        \/ /\ h[g].pc = "deleteResult"
           /\ \E x : Become(g, [h[g] EXCEPT !.todo = @ \ {x},
                                !.pc = IF h[g].todo = {x} THEN h[g].next ELSE "deleteMeta"])
    BY <1>5, <2>2 DEF StoreFails, At
  <2>4. CASE Become(g, Resume(g))
    BY <1>3, <2>1, <2>4 DEF Resume
  <2>5. ASSUME NEW s, Become(g, s), Working(h[g]), s.task = h[g].task, s.seen = h[g].seen, s.got = h[g].got,
               s.next = h[g].next,
               \/ h[g].pc = "save" /\ s.pc = "getMeta"
               \/ h[g].pc = "deleteResult" /\ (s.pc = "deleteMeta" \/ s.pc = h[g].next)
        PROVE  OutcomeInv'
    <3>1. h[g].pc = "deleteResult" => h[g].next \in {"setRetry", "noResults", "complete"}
      BY <1>1 DEF Good, Placed, HandlerState
    <3>2. GaveUp(s)
      BY <1>1, <2>5, <3>1 DEF GaveUp, Hopeless
    <3>3. Repeats(s)
      BY <1>2, <2>5 DEF Repeats
    <3> QED BY <1>2, <2>1, <2>5, <3>2, <3>3, QuietOutcome
  <2>6. CASE h[g].pc = "save" /\ Become(g, [h[g] EXCEPT !.pc = "getMeta"])
    <3> PICK s : s = [h[g] EXCEPT !.pc = "getMeta"]
      OBVIOUS
    <3>1. /\ s.task = h[g].task /\ s.seen = h[g].seen /\ s.got = h[g].got /\ s.next = h[g].next
          /\ s.pc = "getMeta" /\ Working(h[g])
      BY <1>1, <2>6 DEF HandlerState, Working
    <3> QED BY <2>5, <2>6, <3>1
  <2>7. CASE /\ h[g].pc = "deleteResult"
             /\ \E x : Become(g, [h[g] EXCEPT !.todo = @ \ {x},
                                  !.pc = IF h[g].todo = {x} THEN h[g].next ELSE "deleteMeta"])
    <3>1. PICK x, s : /\ Become(g, s)
                      /\ s = [h[g] EXCEPT !.todo = @ \ {x},
                                !.pc = IF h[g].todo = {x} THEN h[g].next ELSE "deleteMeta"]
      BY <2>7
    <3>2. /\ s.task = h[g].task /\ s.seen = h[g].seen /\ s.got = h[g].got /\ s.next = h[g].next
          /\ s.pc = "deleteMeta" \/ s.pc = h[g].next
      BY <1>1, <3>1 DEF HandlerState
    <3>3. Working(h[g])
      BY <2>7 DEF Working
    <3> QED BY <2>5, <2>7, <3>1, <3>2, <3>3
  <2> QED BY <2>3, <2>4, <2>6, <2>7
<1>6. CASE CompleteAnswerLost(g)
  BY <1>6, CompleteOutcome
<1> QED BY <1>4, <1>5, <1>6 DEF Failure

(* Nothing else writes the group of a reported task: it may only shrink. *)
LEMMA OutsideOutcome ==
  ASSUME IInv, Grows, OutcomeInv, ~Forgets, ~Interrupts,
         \/ Restart \/ EntryExpires
         \/ \E t \in Tasks : \/ CallTimesOut(t) \/ CacheExpires(t) \/ LockExpires(t)
                             \/ LateComplete(t) \/ HandleIncident(t) \/ LoseIncident(t)
         \/ \E c \in SubTasks : \/ TryTimesOut(c) \/ DeviceAnswers(c) \/ DeviceFails(c) \/ LoseMessage(c)
         \/ UNCHANGED vars
  PROVE  OutcomeInv'
<1>1. /\ UNCHANGED <<output, retries, incidents>> /\ meta' \subseteq meta
      /\ h' = h \/ Restart
  BY DEF Forgets, Restart, EntryExpires, CallTimesOut, CacheExpires, LockExpires,
         HandleIncident, LoseIncident, TryTimesOut, DeviceAnswers, DeviceFails, LoseMessage,
         vars, store, camunda, channels, history
<1>2. \A t \in Tasks : /\ engine'[t] = "open" => engine[t] = "open"
                       /\ engine[t] = "completed" => engine'[t] = "completed"
  BY DEF Forgets, Restart, EntryExpires, CallTimesOut, CacheExpires, LockExpires,
         HandleIncident, LoseIncident, TryTimesOut, DeviceAnswers, DeviceFails, LoseMessage,
         vars, store, camunda, channels, history, IInv, TypeOK
<1>3. Reported' = Reported /\ \A t \in Tasks : Kept(t)' \subseteq Kept(t)
  BY <1>1 DEF Reported, Kept
<1>4. \A t \in Tasks : output'[t] # {} => engine'[t] = "completed"
  BY <1>1, <1>2 DEF OutcomeInv
<1>5. ASSUME NEW g \in Handlers PROVE (GaveUp(h[g]) /\ Repeats(h[g]))'
  <2> PICK s : s = h'[g]
    OBVIOUS
  <2>1. CASE s = Idle
    BY <2>1 DEF Idle, GaveUp, Repeats, Working
  <2>2. CASE s = h[g]
    <3>1. s \in HandlerState /\ GaveUp(s) /\ Repeats(s)
      BY <2>2 DEF IInv, Good, OutcomeInv
    <3>2. s.task \in Reported' => s.task \in Reported /\ Kept(s.task)' \subseteq Kept(s.task)
      BY <1>3 DEF Reported
    <3>3. GaveUp(s)' /\ Repeats(s)'
      BY <3>1, <3>2, OutcomeStays
    <3> QED BY <3>3 DEF GaveUp, Repeats, Working, Hopeless, Tired, Kept, Reported
  <2> QED BY <1>1, <2>1, <2>2 DEF Restart
<1>6. ASSUME NEW t \in Reported'
      PROVE  (GivenUp(t) /\ (Kept(t) = {} \/ \E g \in Handlers : Working(h[g]) /\ h[g].task = t))'
  <2>1. t \in Reported /\ t \in Tasks /\ GivenUp(t)
    BY <1>3, <1>6 DEF Reported, OutcomeInv
  <2>2. Tired(t) => Tired(t)'
    BY LimitType DEF Tired, Grows, Children
  <2>3. GivenUp(t)'
    BY <1>1, <1>2, <2>1, <2>2 DEF GivenUp
  <2>4. Kept(t)' = {} \/ \E g \in Handlers : Working(h'[g]) /\ h'[g].task = t
    <3>1. CASE Kept(t) = {}
      BY <1>3, <2>1, <3>1
    <3>2. CASE Kept(t) # {}
      <4>1. PICK g \in Handlers : Working(h[g]) /\ h[g].task = t
        BY <2>1, <3>2 DEF OutcomeInv
      <4>2. h' = h
        BY <1>1, <2>1, <4>1 DEF Interrupts
      <4> QED BY <4>1, <4>2
    <3> QED BY <3>1, <3>2
  <2> QED BY <2>3, <2>4 DEF Working
<1> QED BY <1>4, <1>5, <1>6 DEF OutcomeInv

LEMMA OutcomeNext ==
  ASSUME IInv, IInv', Separate, Separate', CountInv, MetaInv, OutcomeInv, [Next]_vars,
         ~Forgets, ~Uncounts, ~Interrupts
  PROVE  OutcomeInv'
<1>1. Grows
  BY CountsGrow
<1>2. ASSUME NEW g \in Handlers, Step(g) PROVE OutcomeInv'
  BY <1>1, <1>2, EndOutcome, ReportOutcome, CompleteOutcome, TryOutcome, MoveOutcome, WriteOutcome,
     BeginOutcome DEF Step, Command, Response
<1>3. ASSUME NEW g \in Handlers, Failure(g) PROVE OutcomeInv'
  BY <1>1, <1>3, FailOutcome
<1> QED BY <1>1, <1>2, <1>3, BeginOutcome, OutsideOutcome DEF Next

LEMMA OutcomeInit == Init => OutcomeInv
BY SendingOutcome DEF Init, OutcomeInv, Reported

(* A task that was reported with "unable to get any results for device-group" is not completed   *)
(* with results, as long as no failure keeps its metadata, takes back a count or ends the work on *)
(* it after the report: a redelivery finds every counter above the limit and the group cleared,   *)
(* and late responses find no metadata, so the task can only be reported again.                   *)
THEOREM OneOutcome ==
  Safety /\ []Separate /\ [][~Forgets /\ ~Uncounts /\ ~Interrupts]_vars => []OutcomesAgree
<1>1. Init => CountInv /\ MetaInv /\ OutcomeInv
  BY CountInit, MetaInit, OutcomeInit
<1>2. IInv /\ IInv' /\ Separate /\ Separate' /\ CountInv /\ MetaInv /\ OutcomeInv /\ [Next]_vars
      /\ [~Forgets /\ ~Uncounts /\ ~Interrupts]_vars
        => CountInv' /\ MetaInv' /\ OutcomeInv'
  <2> SUFFICES ASSUME IInv, IInv', Separate, Separate', CountInv, MetaInv, OutcomeInv, [Next]_vars,
                      [~Forgets /\ ~Uncounts /\ ~Interrupts]_vars
               PROVE  CountInv' /\ MetaInv' /\ OutcomeInv'
    OBVIOUS
  <2>1. CASE UNCHANGED vars
    <3>2. CountInv'
      BY CountNext
    <3>3. MetaInv'
      BY <2>1 DEF vars, store, camunda, MetaInv, Kept, Clearing, Working, Deleting
    <3>4. OutcomeInv'
      BY <2>1 DEF vars, store, camunda, history, OutcomeInv, GivenUp, GaveUp, Repeats, Hopeless, Tired, Kept,
                  Reported, Working
    <3> QED BY <3>2, <3>3, <3>4
  <2>2. CASE ~Forgets /\ ~Uncounts /\ ~Interrupts
    BY <2>2, CountNext, MetaNext, OutcomeNext
  <2> QED BY <2>1, <2>2
<1>3. OutcomeInv => OutcomesAgree
  BY DEF OutcomeInv, OutcomesAgree, Reported, GivenUp
<1> QED BY <1>1, <1>2, <1>3, Invariance, PTL DEF Safety
=============================================================================
