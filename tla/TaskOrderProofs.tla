--------------------------- MODULE TaskOrderProofs ---------------------------
(***************************************************************************)
(* The order in which the sequential and the round robin scheduler try the *)
(* sub tasks of a group, and the order of completion and commands in the   *)
(* optimistic strategy, for any groups and goroutines; and that every step *)
(* is one of TaskPromise, for any failures.                                *)
(*                                                                         *)
(* The argument: a scheduler passes over a sub task when it has a result,  *)
(* when it has no retry left, or when its last try is recent.  Each shows  *)
(* that the sub task was tried.  Asked is the set of these; whatever the   *)
(* store, the channels and the goroutines know of a sub task with an       *)
(* answer or a recent try lies in it, and it only grows.  An optimistic    *)
(* goroutine has messages left to send only of a completed task, and a     *)
(* completed task stays one.  For the promise, what a goroutine, a message *)
(* or a late request carries was asked, sent or found acceptable before.   *)
(***************************************************************************)
EXTENDS TaskExecutionProofs

Asked == {c \in SubTasks : attempted[c] > 0}

\* a goroutine outside of the parallel scheduler knows of tried sub tasks only
Knows(s, asked) ==
  /\ s.rest \subseteq asked /\ s.fresh \subseteq asked
  /\ s.pc = "setResult" => s.sub \in asked
  /\ s.pc # "setRetry" /\ s.next # "setRetry"
  /\ s.pc \in {"saveMeta", "saveChildren", "getResults", "annotate"}
       => s.missing \subseteq Children(s.task)

Traces ==
  /\ answered \subseteq Asked /\ running \subseteq Asked
  /\ commands \subseteq Asked /\ answers \subseteq Asked

OInv ==
  Scheduler # "parallel" =>
    /\ Traces
    /\ \A g \in Handlers : Knows(h[g], Asked)
    /\ GroupOrder
    /\ RoundRobinCoverage

-----------------------------------------------------------------------------
(* A goroutine without a task knows of nothing but the messages it has left to send. *)
LEMMA KnowsSending ==
  ASSUME NEW asked, NEW S \in SUBSET asked
  PROVE  Knows(Idle, asked) /\ Knows(Sending(S), asked)
<1>1. Knows(Idle, asked)
  BY DEF Idle, Knows
<1>2. Knows([Idle EXCEPT !.pc = "send", !.rest = S], asked)
  BY DEF Idle, Knows
<1> QED BY <1>1, <1>2 DEF Sending

(* What is left of a goroutine that has finished a task or a response. *)
LEMMA KnowsResume ==
  ASSUME OInv, Scheduler # "parallel", NEW g \in Handlers
  PROVE  Knows(Resume(g), Asked) /\ Knows(AfterComplete(g), Asked)
<1>1. h[g].rest \subseteq Asked
  BY DEF OInv, Knows
<1>2. ~Optimistic
  BY OptimisticAssumption
<1> QED BY <1>1, <1>2, KnowsSending DEF Resume, AfterComplete

(* A goroutine that goes on with its task, and may learn of recent tries. *)
LEMMA KnowsNext ==
  ASSUME OInv, Scheduler # "parallel", NEW g \in Handlers, NEW s,
         s.rest = h[g].rest, s.fresh \subseteq h[g].fresh \cup running,
         s.pc \notin {"setResult", "setRetry"}, s.next # "setRetry",
         s.pc \in {"saveMeta", "saveChildren", "getResults", "annotate"}
           => s.missing \subseteq Children(s.task)
  PROVE  Knows(s, Asked)
BY DEF OInv, Traces, Knows

(* A step that tries no sub task keeps the order when it learns of tried ones only. *)
LEMMA QuietStep ==
  ASSUME IInv, OInv, Scheduler # "parallel", attempted' = attempted,
         \A c \in SubTasks : tries'[c] = tries[c] \/ tries'[c] = 0,
         answered' \subseteq Asked, running' \subseteq Asked,
         commands' \subseteq Asked, answers' \subseteq Asked,
         \A g \in Handlers : Knows(h'[g], Asked)
  PROVE  OInv'
<1>1. Asked' = Asked
  BY DEF Asked
<1>2. Traces' /\ \A g \in Handlers : Knows(h'[g], Asked')
  BY <1>1 DEF Traces
<1>3. GroupOrder'
  BY DEF OInv, GroupOrder
<1>4. RoundRobinCoverage'
  BY DEF OInv, RoundRobinCoverage
<1> QED BY <1>2, <1>3, <1>4 DEF OInv

(* A quiet step of a goroutine. *)
LEMMA QuietMove ==
  ASSUME IInv, OInv, Scheduler # "parallel", NEW g \in Handlers, NEW s,
         Become(g, s), Knows(s, Asked), attempted' = attempted, tries' = tries,
         running' = running, answered' \subseteq Asked, commands' \subseteq Asked,
         answers' \subseteq Asked
  PROVE  OInv'
<1>1. \A k \in Handlers : Knows(h'[k], Asked)
  BY DEF Become, IInv, TypeOK, OInv
<1>2. running' \subseteq Asked
  BY DEF OInv, Traces
<1> QED BY <1>1, <1>2, QuietStep

(* A quiet step of a goroutine that leaves the channels alone. *)
LEMMA QuietTurn ==
  ASSUME IInv, OInv, Scheduler # "parallel", NEW g \in Handlers, NEW s,
         Become(g, s), Knows(s, Asked), attempted' = attempted, tries' = tries,
         running' = running, answered' = answered, commands' = commands, answers' = answers
  PROVE  OInv'
BY QuietMove DEF OInv, Traces

(* The initial states satisfy the invariant. *)
LEMMA OrderInit == Init => OInv
<1> SUFFICES ASSUME Init, Scheduler # "parallel" PROVE OInv
  BY DEF OInv
<1>1. \A g \in Handlers : Knows(h[g], Asked)
  BY KnowsSending DEF Init
<1> QED BY <1>1 DEF Init, OInv, Traces, GroupOrder, RoundRobinCoverage

-----------------------------------------------------------------------------
(* The steps of a goroutine that end a task or a response. *)
LEMMA EndOrder ==
  ASSUME IInv, OInv, Scheduler # "parallel", NEW g \in Handlers,
         \/ RejectTask(g) \/ IgnoreTask(g) \/ NothingToSend(g) \/ ReportNoResults(g)
         \/ CompleteCached(g) \/ CompleteAccepted(g) \/ CompleteRejected(g)
         \/ CompleteUnreachable(g) \/ CompleteAnswerLost(g)
         \/ BuildFails(g) \/ OrphanResponse(g)
  PROVE  OInv'
<1>1. Become(g, Resume(g)) \/ Become(g, AfterComplete(g))
  BY DEF RejectTask, IgnoreTask, NothingToSend, ReportNoResults, CompleteCached, CompleteAccepted,
         CompleteRejected, CompleteUnreachable, CompleteAnswerLost, BuildFails, OrphanResponse, Local
<1>2. /\ attempted' = attempted /\ tries' = tries /\ running' = running /\ answered' = answered
      /\ commands' = commands /\ answers' = answers
  BY DEF RejectTask, IgnoreTask, NothingToSend, ReportNoResults, CompleteCached, CompleteAccepted,
         CompleteRejected, CompleteUnreachable, CompleteAnswerLost, BuildFails, OrphanResponse, Local,
         store, channels, history
<1> QED BY <1>1, <1>2, KnowsResume, QuietTurn

(* The steps of a goroutine that go on with its task. *)
LEMMA MoveOrder ==
  ASSUME IInv, OInv, Scheduler # "parallel", NEW g \in Handlers,
         \/ AcceptTask(g) \/ SaveCallInfo(g) \/ FoundMeta(g) \/ SplitTask(g)
         \/ SaveParentMeta(g) \/ SaveChildMeta(g) \/ StartAnnotate(g) \/ Exhausted(g)
         \/ ClearTaskData(g) \/ DeleteMeta(g) \/ DeleteResult(g) \/ FinishGroup(g)
  PROVE  OInv'
<1>1. h[g] \in HandlerState /\ Good(h[g], answered, attempted) /\ Knows(h[g], Asked)
  BY DEF IInv, Good, OInv
<1>2. /\ attempted' = attempted /\ tries' = tries /\ running' = running /\ answered' = answered
      /\ commands' = commands /\ answers' = answers
  BY DEF AcceptTask, SaveCallInfo, FoundMeta, SplitTask, SaveParentMeta, SaveChildMeta,
         StartAnnotate, Exhausted, ClearTaskData, DeleteMeta, DeleteResult, FinishGroup,
         Local, store, channels, history
<1>3. ASSUME NEW s, Become(g, s), Knows(s, Asked) PROVE OInv'
  BY <1>2, <1>3, QuietTurn
<1>4. CASE AcceptTask(g)
  BY <1>1, <1>3, <1>4, KnowsNext DEF AcceptTask, Local, HandlerState, Knows
<1>5. CASE SaveCallInfo(g)
  BY <1>1, <1>3, <1>5, KnowsNext DEF SaveCallInfo, HandlerState, Knows
<1>6. CASE FoundMeta(g)
  BY <1>1, <1>3, <1>6, KnowsNext DEF FoundMeta, Local, HandlerState, Knows
<1>7. CASE SplitTask(g)
  BY <1>1, <1>3, <1>7, KnowsNext DEF SplitTask, Local, HandlerState, Knows
<1>8. CASE SaveParentMeta(g) \/ SaveChildMeta(g)
  BY <1>1, <1>3, <1>8, KnowsNext DEF SaveParentMeta, SaveChildMeta, At, HandlerState, Knows
<1>9. CASE StartAnnotate(g)
  BY <1>1, <1>3, <1>9, KnowsNext DEF StartAnnotate, RequestsBuilt, At, Local, HandlerState, Knows
<1>10. CASE Exhausted(g)
  BY <1>1, <1>3, <1>10, KnowsNext DEF Exhausted, Local, HandlerState, Knows
<1>11. CASE ClearTaskData(g)
  <2>1. h[g].next \in {"noResults", "complete"}
    BY <1>1, <1>11 DEF ClearTaskData, At, Good, Placed, HandlerState, Knows
  <2> QED BY <1>1, <1>3, <1>11, <2>1, KnowsNext DEF ClearTaskData, Local, HandlerState, Knows
<1>12. CASE DeleteMeta(g)
  BY <1>1, <1>3, <1>12, KnowsNext DEF DeleteMeta, HandlerState, Knows
<1>13. CASE DeleteResult(g)
  <2>1. h[g].next \in {"noResults", "complete"}
    BY <1>1, <1>13 DEF DeleteResult, At, Good, Placed, HandlerState, Knows
  <2> QED BY <1>1, <1>3, <1>13, <2>1, KnowsNext DEF DeleteResult, HandlerState, Knows
<1>14. CASE FinishGroup(g)
  BY <1>1, <1>3, <1>14, KnowsNext DEF FinishGroup, Local, HandlerState, Knows
<1> QED BY <1>4, <1>5, <1>6, <1>7, <1>8, <1>9, <1>10, <1>11, <1>12, <1>13, <1>14

LEMMA GetResultOrder ==
  ASSUME IInv, OInv, Scheduler # "parallel", NEW g \in Handlers, GetResult(g)
  PROVE  OInv'
<1>1. h[g] \in HandlerState /\ Good(h[g], answered, attempted) /\ Knows(h[g], Asked)
  BY DEF IInv, Good, OInv
<1>2. h[g].pc = "getResults" /\ h[g].todo \subseteq Children(h[g].task)
  BY <1>1 DEF GetResult, At, Good, Scanned
<1>3. /\ attempted' = attempted /\ tries' = tries /\ running' = running /\ answered' = answered
      /\ commands' = commands /\ answers' = answers
  BY DEF GetResult, Local, store, channels, history
<1>4. PICK c \in h[g].todo :
        \/ Become(g, [h[g] EXCEPT !.todo = @ \ {c}, !.got = @ \cup {c}])
        \/ Become(g, [h[g] EXCEPT !.todo = @ \ {c}, !.missing = @ \cup {c}])
  BY DEF GetResult, Local
<1>5. Knows([h[g] EXCEPT !.todo = @ \ {c}, !.got = @ \cup {c}], Asked)
  BY <1>1, <1>2 DEF HandlerState, Knows
<1>6. Knows([h[g] EXCEPT !.todo = @ \ {c}, !.missing = @ \cup {c}], Asked)
  BY <1>1, <1>2 DEF HandlerState, Knows
<1> QED BY <1>3, <1>4, <1>5, <1>6, QuietTurn

\* a sub task whose last try is recent was tried
LEMMA AnnotateOrder ==
  ASSUME IInv, OInv, Scheduler # "parallel", NEW g \in Handlers, AnnotateSubTaskState(g)
  PROVE  OInv'
<1>1. h[g] \in HandlerState /\ Knows(h[g], Asked) /\ running \subseteq Asked
  BY DEF IInv, Good, OInv, Traces
<1>2. /\ attempted' = attempted /\ tries' = tries /\ running' = running /\ answered' = answered
      /\ commands' = commands /\ answers' = answers
  BY DEF AnnotateSubTaskState, Local, store, channels, history
<1>3. PICK c \in h[g].todo :
        Become(g, [h[g] EXCEPT !.todo = @ \ {c}, !.tries[c] = tries[c],
                               !.fresh = IF c \in running THEN @ \cup {c} ELSE @])
  BY DEF AnnotateSubTaskState, Local
<1>4. Knows([h[g] EXCEPT !.todo = @ \ {c}, !.tries[c] = tries[c],
                         !.fresh = IF c \in running THEN @ \cup {c} ELSE @], Asked)
  BY <1>1 DEF HandlerState, Knows
<1> QED BY <1>2, <1>3, <1>4, QuietTurn

\* the parallel scheduler is another one
LEMMA NoParallel ==
  ASSUME OInv, Scheduler # "parallel", NEW g \in Handlers
  PROVE  ~ScheduleParallel(g) /\ ~SetRetry(g)
BY DEF OInv, Knows, ScheduleParallel, SetRetry, At

LEMMA ContinueGroupOrder ==
  ASSUME IInv, OInv, Scheduler # "parallel", NEW g \in Handlers, ContinueGroup(g)
  PROVE  OInv'
<1> PICK s : s = [Idle EXCEPT !.pc = "execute", !.role = "response", !.task = h[g].task,
                              !.rest = h[g].rest]
  OBVIOUS
<1>1. Knows(s, Asked)
  BY DEF Idle, Knows, OInv
<1>2. /\ attempted' = attempted /\ tries' = tries /\ running' = running /\ answered' = answered
      /\ commands' = commands /\ answers' = answers /\ Become(g, s)
  BY DEF ContinueGroup, Local, store, channels, history
<1> QED BY <1>1, <1>2, QuietTurn

\* a task of the engine comes without knowledge
LEMMA FetchOrder ==
  ASSUME IInv, OInv, Scheduler # "parallel", NEW g \in Handlers, NEW t \in Tasks, Fetch(g, t)
  PROVE  OInv'
<1> PICK s : s = [Idle EXCEPT !.pc = "execute", !.role = "camunda", !.task = t, !.seen = retries[t]]
  OBVIOUS
<1>1. Knows(s, Asked)
  BY DEF Idle, Knows
<1>2. /\ attempted' = attempted /\ tries' = tries /\ running' = running /\ answered' = answered
      /\ commands' = commands /\ answers' = answers /\ Become(g, s)
  BY DEF Fetch, store, channels, history
<1> QED BY <1>1, <1>2, QuietTurn

-----------------------------------------------------------------------------
(* Commands and answers: only for sub tasks that were tried. *)

LEMMA ProduceCommandOrder ==
  ASSUME IInv, OInv, Scheduler # "parallel", NEW g \in Handlers, ProduceCommand(g)
  PROVE  OInv'
<1>1. PICK c \in h[g].rest : /\ commands' \subseteq commands \cup {c}
                             /\ Become(g, Sending(h[g].rest \ {c}))
  BY DEF ProduceCommand
<1>2. h[g].rest \subseteq Asked /\ Traces
  BY DEF OInv, Knows
<1>3. Knows(Sending(h[g].rest \ {c}), Asked)
  BY <1>2, KnowsSending
<1>4. /\ attempted' = attempted /\ tries' = tries /\ running' = running
      /\ answered' = answered /\ answers' = answers
  BY DEF ProduceCommand, store
<1> QED BY <1>1, <1>2, <1>3, <1>4, QuietMove DEF Traces

LEMMA AskLastValueOrder ==
  ASSUME IInv, OInv, Scheduler # "parallel", NEW g \in Handlers, AskLastValue(g)
  PROVE  OInv'
<1>1. PICK c \in h[g].rest :
        \/ Become(g, [Idle EXCEPT !.pc = "setResult", !.role = "result", !.sub = c,
                                  !.rest = h[g].rest \ {c}])
        \/ Become(g, Sending(h[g].rest \ {c})) \/ Become(g, Idle)
  BY DEF AskLastValue, Local
<1>2. h[g].rest \subseteq Asked
  BY DEF OInv, Knows
<1>3. Knows(Sending(h[g].rest \ {c}), Asked) /\ Knows(Idle, Asked)
  BY <1>2, KnowsSending
<1>4. Knows([Idle EXCEPT !.pc = "setResult", !.role = "result", !.sub = c,
                         !.rest = h[g].rest \ {c}], Asked)
  BY <1>2 DEF Idle, Knows
<1>5. /\ attempted' = attempted /\ tries' = tries /\ running' = running /\ answered' = answered
      /\ commands' = commands /\ answers' = answers
  BY DEF AskLastValue, Local, store, channels, history
<1> QED BY <1>1, <1>3, <1>4, <1>5, QuietTurn

LEMMA TakeResponseOrder ==
  ASSUME IInv, OInv, Scheduler # "parallel", NEW g \in Handlers, NEW c \in SubTasks,
         TakeResponse(g, c)
  PROVE  OInv'
<1>1. \/ Become(g, Idle)
      \/ Become(g, [Idle EXCEPT !.pc = "setResult", !.role = "result", !.sub = c])
  BY DEF TakeResponse
<1>2. Traces /\ c \in Asked /\ answers' \subseteq answers
  BY DEF OInv, Traces, TakeResponse
<1>3. Knows(Idle, Asked)
  BY KnowsSending
<1>4. Knows([Idle EXCEPT !.pc = "setResult", !.role = "result", !.sub = c], Asked)
  BY <1>2 DEF Idle, Knows
<1>5. /\ attempted' = attempted /\ tries' = tries /\ running' = running /\ answered' = answered
      /\ commands' = commands
  BY DEF TakeResponse, store, history
<1> QED BY <1>1, <1>2, <1>3, <1>4, <1>5, QuietMove DEF Traces

LEMMA SetSubResultOrder ==
  ASSUME IInv, OInv, Scheduler # "parallel", NEW g \in Handlers, SetSubResult(g)
  PROVE  OInv'
<1>1. h[g] \in HandlerState /\ Knows(h[g], Asked) /\ Traces
  BY DEF IInv, Good, OInv
<1>2. h[g].sub \in Asked
  BY <1>1 DEF SetSubResult, At, Knows
<1>3. Knows([h[g] EXCEPT !.pc = "getMeta"], Asked)
  BY <1>1 DEF HandlerState, Knows
<1>4. /\ attempted' = attempted /\ tries' = tries /\ running' = running
      /\ answered' = answered \cup {h[g].sub} /\ commands' = commands /\ answers' = answers
      /\ Become(g, [h[g] EXCEPT !.pc = "getMeta"])
  BY DEF SetSubResult, channels
<1>5. answered' \subseteq Asked /\ commands' \subseteq Asked /\ answers' \subseteq Asked
  BY <1>1, <1>2, <1>4 DEF Traces
<1> QED BY <1>3, <1>4, <1>5, QuietMove

LEMMA StoreFailsOrder ==
  ASSUME IInv, OInv, Scheduler # "parallel", NEW g \in Handlers, StoreFails(g)
  PROVE  OInv'
<1>1. h[g] \in HandlerState /\ Good(h[g], answered, attempted) /\ Knows(h[g], Asked)
  BY DEF IInv, Good, OInv
<1>2. /\ attempted' = attempted /\ tries' = tries /\ running' = running /\ answered' = answered
      /\ commands' = commands /\ answers' = answers
  BY DEF StoreFails, store
<1>3. ASSUME NEW s, Become(g, s), Knows(s, Asked) PROVE OInv'
  BY <1>2, <1>3, QuietTurn
<1>4. CASE Become(g, Resume(g))
  BY <1>3, <1>4, KnowsResume
<1>5. CASE At(g, "save") /\ Become(g, [h[g] EXCEPT !.pc = "getMeta"])
  BY <1>1, <1>3, <1>5, KnowsNext DEF HandlerState, Knows
<1>6. ASSUME h[g].pc \in {"clear", "deleteMeta", "deleteResult"}
      PROVE  h[g].next \in {"noResults", "complete"}
  BY <1>1, <1>6 DEF Good, Placed, HandlerState, Knows
<1>7. CASE At(g, "clear") /\ Become(g, [h[g] EXCEPT !.pc = h[g].next])
  BY <1>1, <1>3, <1>6, <1>7, KnowsNext DEF At, HandlerState, Knows
<1>8. CASE At(g, "deleteMeta") /\ Become(g, [h[g] EXCEPT !.pc = "deleteResult"])
  BY <1>1, <1>3, <1>8, KnowsNext DEF HandlerState, Knows
<1>9. ASSUME NEW x \in h[g].todo, At(g, "deleteResult"),
             Become(g, [h[g] EXCEPT !.todo = @ \ {x},
                          !.pc = IF h[g].todo = {x} THEN h[g].next ELSE "deleteMeta"])
      PROVE  OInv'
  BY <1>1, <1>3, <1>6, <1>9, KnowsNext DEF At, HandlerState, Knows
<1> QED BY <1>4, <1>5, <1>7, <1>8, <1>9 DEF StoreFails

-----------------------------------------------------------------------------
(* The decisive step: the scheduler picks the sub task that is tried next. *)

\* a sub task of the group that the scheduler may not pick was tried before
LEMMA PassedOverWasAsked ==
  ASSUME IInv, OInv, Scheduler # "parallel", NEW g \in Handlers,
         At(g, "annotate"), NEW c \in Children(h[g].task), c \notin FilterCurrentlyRunning(g)
  PROVE  c \in Asked
<1>1. /\ h[g] \in HandlerState /\ Good(h[g], answered, attempted) /\ Knows(h[g], Asked)
      /\ answered \subseteq Asked /\ attempted \in [SubTasks -> Nat]
  BY DEF IInv, TypeOK, Good, OInv, Traces
<1>2. c \in SubTasks /\ (c \in h[g].got \/ c \in h[g].missing)
  BY <1>1 DEF At, Good, Scanned, Children
<1>3. CASE c \in h[g].got
  BY <1>1, <1>3 DEF Good, Grounded
<1>4. CASE c \in h[g].missing /\ c \in h[g].fresh
  BY <1>1, <1>4 DEF Knows
<1>5. CASE c \in h[g].missing /\ c \notin h[g].fresh
  \* no retry is left, so it was tried more often than there are retries
  <2>1. ~MayTry(g, c)
    BY <1>5 DEF FilterCurrentlyRunning, FilterRetries
  <2>2. h[g].tries[c] \in Nat /\ h[g].tries[c] <= attempted[c] /\ attempted[c] \in Nat
    BY <1>1, <1>2 DEF Good, Grounded, HandlerState
  <2>3. Limit \in Nat \cup {-1}
    BY ConfigAssumption DEF Limit
  <2> QED BY <1>2, <2>1, <2>2, <2>3 DEF MayTry, Asked
<1> QED BY <1>2, <1>3, <1>4, <1>5

LEMMA UpdateSubTaskStateOrder ==
  ASSUME IInv, OInv, Scheduler # "parallel", NEW g \in Handlers, UpdateSubTaskState(g)
  PROVE  OInv'
<1> PICK t : t = h[g].task
  OBVIOUS
<1>1. PICK c \in SubTasks :
        /\ At(g, "annotate") /\ NextRequest(g, c)
        /\ tries' = [tries EXCEPT ![c] = h[g].tries[c] + 1]
        /\ running' = running \cup {c}
        /\ attempted' = [attempted EXCEPT ![c] = @ + 1]
        /\ Become(g, Sending({c}))
  BY DEF UpdateSubTaskState
<1>2. /\ h[g] \in HandlerState /\ Good(h[g], answered, attempted) /\ Knows(h[g], Asked)
      /\ attempted \in [SubTasks -> Nat] /\ tries \in [SubTasks -> Nat] /\ h \in [Handlers -> HandlerState]
      /\ Traces /\ GroupOrder /\ RoundRobinCoverage
  BY DEF IInv, TypeOK, Good, OInv
<1>3. c \in FilterCurrentlyRunning(g) /\ c \in Children(t)
  <2>1. c \in FilterCurrentlyRunning(g)
    BY <1>1 DEF NextRequest, IsFirst
  <2> QED BY <1>1, <1>2, <2>1 DEF FilterCurrentlyRunning, FilterRetries, Knows, At
<1>4. /\ \A d \in SubTasks : attempted'[d] \in Nat /\ (attempted[d] > 0 => attempted'[d] > 0)
      /\ attempted'[c] > 0 /\ \A d \in SubTasks \ {c} : attempted'[d] = attempted[d]
      /\ attempted' \in [SubTasks -> Nat]
  BY <1>1, <1>2
<1>5. Asked \cup {c} \subseteq Asked'
  BY <1>4 DEF Asked
<1>6. \A k \in Handlers : Knows(h'[k], Asked')
  <2>1. Knows(Sending({c}), Asked')
    BY <1>5, KnowsSending
  <2>2. \A k \in Handlers : Knows(h[k], Asked')
    BY <1>5 DEF OInv, Knows
  <2> QED BY <1>1, <1>2, <2>1, <2>2 DEF Become
<1>7. Traces'
  BY <1>1, <1>2, <1>5 DEF Traces, UpdateSubTaskState, channels
<1>8. Parent[c] = t
  BY <1>3 DEF Children
<1>9. GroupOrder'
  <2> SUFFICES ASSUME Scheduler = "sequential", NEW a \in SubTasks, NEW d \in SubTasks,
                      Parent[a] = Parent[d], Pos[a] < Pos[d], attempted'[d] > 0
               PROVE  attempted'[a] > 0
    BY DEF GroupOrder
  <2>1. CASE d # c
    <3>1. attempted[a] > 0
      BY <1>2, <1>4, <2>1 DEF GroupOrder
    <3> QED BY <1>4, <3>1
  <2>2. CASE d = c
    <3>1. a \in Children(t)
      BY <1>8, <2>2 DEF Children
    <3>2. a \notin FilterCurrentlyRunning(g)
      <4>1. IsFirst(c, FilterCurrentlyRunning(g))
        BY <1>1 DEF NextRequest
      <4>2. Pos[a] \in Nat /\ Pos[c] \in Nat
        BY GroupAssumption DEF Ids
      <4> QED BY <2>2, <4>1, <4>2 DEF IsFirst
    <3>3. a \in Asked
      BY <1>1, <3>1, <3>2, PassedOverWasAsked
    <3> QED BY <1>5, <3>3 DEF Asked
  <2> QED BY <2>1, <2>2
<1>10. RoundRobinCoverage'
  <2> SUFFICES ASSUME Scheduler = "round_robin", NEW a \in SubTasks, NEW d \in SubTasks,
                      Parent[a] = Parent[d], tries'[a] > 1
               PROVE  attempted'[d] > 0
    BY DEF RoundRobinCoverage
  <2>1. CASE a # c
    <3>1. tries[a] > 1
      BY <1>1, <1>2, <2>1
    <3>2. attempted[d] > 0
      BY <1>2, <3>1 DEF RoundRobinCoverage
    <3> QED BY <1>4, <3>2
  <2>2. CASE a = c
    <3>1. d \in Children(t) /\ h[g].tries[c] \in Nat /\ h[g].tries[c] > 0
      BY <1>1, <1>2, <1>8, <2>2 DEF Children, HandlerState
    <3>2. CASE d \notin FilterCurrentlyRunning(g)
      <4>1. d \in Asked
        BY <1>1, <3>1, <3>2, PassedOverWasAsked
      <4> QED BY <1>5, <4>1 DEF Asked
    <3>3. CASE d \in FilterCurrentlyRunning(g)
      \* it was tried as often as the one that is picked
      <4>1. h[g].tries[c] <= h[g].tries[d]
        BY <1>1, <3>3 DEF NextRequest
      <4>2. h[g].tries[d] \in Nat /\ h[g].tries[d] <= attempted[d] /\ attempted[d] \in Nat
        BY <1>2 DEF Good, Grounded, HandlerState
      <4>3. attempted[d] > 0
        BY <3>1, <4>1, <4>2
      <4> QED BY <1>4, <4>3
    <3> QED BY <3>2, <3>3
  <2> QED BY <2>1, <2>2
<1> QED BY <1>6, <1>7, <1>9, <1>10 DEF OInv

-----------------------------------------------------------------------------
(* Time, the engine, the devices and the process as a whole: nothing is tried. *)

LEMMA OutsideOrder ==
  ASSUME IInv, OInv, Scheduler # "parallel",
         \/ Restart \/ EntryExpires
         \/ \E t \in Tasks : \/ CallTimesOut(t) \/ CacheExpires(t) \/ LockExpires(t)
                             \/ LateComplete(t) \/ HandleIncident(t) \/ LoseIncident(t)
         \/ \E c \in SubTasks : \/ TryTimesOut(c) \/ DeviceAnswers(c) \/ DeviceFails(c) \/ LoseMessage(c)
         \/ UNCHANGED vars
  PROVE  OInv'
<1>1. Traces /\ \A g \in Handlers : Knows(h[g], Asked) /\ Knows(Idle, Asked)
  BY KnowsSending DEF OInv
<1>2. tries \in [SubTasks -> Nat]
  BY DEF IInv, TypeOK
<1>3. CASE Restart
  <2>1. \A c \in SubTasks : tries'[c] = tries[c] \/ tries'[c] = 0
    BY <1>3 DEF Restart, store
  <2>2. running' \subseteq running
    BY <1>3 DEF Restart, store
  <2> QED BY <1>1, <1>3, <2>1, <2>2, QuietStep DEF Restart, channels, history, Traces
<1>4. CASE EntryExpires
  <2>1. \A c \in SubTasks : tries'[c] = tries[c] \/ tries'[c] = 0
    BY <1>2, <1>4 DEF EntryExpires
  <2> QED BY <1>1, <1>4, <2>1, QuietStep DEF EntryExpires, channels, history, Traces
<1>5. ASSUME NEW t \in Tasks,
             \/ CallTimesOut(t) \/ CacheExpires(t) \/ LockExpires(t)
             \/ LateComplete(t) \/ HandleIncident(t) \/ LoseIncident(t)
      PROVE  OInv'
  BY <1>1, <1>5, QuietStep DEF CallTimesOut, CacheExpires, LockExpires, LateComplete, HandleIncident,
                               LoseIncident, store, channels, history, Traces
<1>6. ASSUME NEW c \in SubTasks,
             TryTimesOut(c) \/ DeviceAnswers(c) \/ DeviceFails(c) \/ LoseMessage(c)
      PROVE  OInv'
  BY <1>1, <1>6, QuietStep DEF TryTimesOut, DeviceAnswers, DeviceFails, UnlockTask, LoseMessage,
                               store, channels, history, Traces
<1>7. CASE UNCHANGED vars
  BY <1>1, <1>7, QuietStep DEF vars, store, channels, history, Traces
<1> QED BY <1>3, <1>4, <1>5, <1>6, <1>7

(* Every step keeps the order. *)
LEMMA OrderNext == ASSUME IInv, OInv, [Next]_vars PROVE OInv'
<1> SUFFICES ASSUME Scheduler # "parallel" PROVE OInv'
  BY DEF OInv
<1>1. ASSUME NEW g \in Handlers, Command(g) PROVE OInv'
  <2>1. CASE \/ RejectTask(g) \/ IgnoreTask(g) \/ NothingToSend(g) \/ ReportNoResults(g)
             \/ CompleteCached(g) \/ CompleteAccepted(g) \/ CompleteRejected(g)
    BY <2>1, EndOrder
  <2>2. CASE \/ AcceptTask(g) \/ SaveCallInfo(g) \/ FoundMeta(g) \/ SplitTask(g)
             \/ SaveParentMeta(g) \/ SaveChildMeta(g) \/ StartAnnotate(g) \/ Exhausted(g)
             \/ ClearTaskData(g) \/ DeleteMeta(g) \/ DeleteResult(g)
    BY <2>2, MoveOrder
  <2>3. CASE GetResult(g) \/ AnnotateSubTaskState(g) \/ UpdateSubTaskState(g)
    BY <2>3, GetResultOrder, AnnotateOrder, UpdateSubTaskStateOrder
  <2>4. CASE ScheduleParallel(g) \/ SetRetry(g) \/ ProduceCommand(g) \/ AskLastValue(g)
    BY <2>4, NoParallel, ProduceCommandOrder, AskLastValueOrder
  <2> QED BY <1>1, <2>1, <2>2, <2>3, <2>4 DEF Command
<1>2. ASSUME NEW g \in Handlers, Response(g) PROVE OInv'
  BY <1>2, SetSubResultOrder, EndOrder, MoveOrder, ContinueGroupOrder DEF Response
<1>3. ASSUME NEW g \in Handlers, Failure(g) PROVE OInv'
  BY <1>3, EndOrder, StoreFailsOrder DEF Failure
<1>4. ASSUME NEW g \in Handlers, NEW t \in Tasks, Fetch(g, t) PROVE OInv'
  BY <1>4, FetchOrder
<1>5. ASSUME NEW g \in Handlers, NEW c \in SubTasks, TakeResponse(g, c) PROVE OInv'
  BY <1>5, TakeResponseOrder
<1> QED BY <1>1, <1>2, <1>3, <1>4, <1>5, OutsideOrder DEF Next, Step

(* The order is kept in every state that is reached. *)
THEOREM OrderInvariance == Safety => []OInv
<1>1. Init => OInv
  BY OrderInit
<1>2. IInv /\ OInv /\ [Next]_vars => OInv'
  BY OrderNext
<1> QED BY <1>1, <1>2, Invariance, PTL DEF Safety

(* The sequential scheduler (lib/devicegroups/devicegroups.go:126-131) tries a device only after *)
(* every device before it, also when redeliveries and responses schedule a group concurrently.   *)
THEOREM Sequence == Safety => []GroupOrder
<1>1. OInv => GroupOrder
  BY DEF OInv, GroupOrder
<1> QED BY <1>1, OrderInvariance, PTL

(* The round robin scheduler (lib/devicegroups/devicegroups.go:132-151) tries no device a second *)
(* time before every device of the group had its first try.                                      *)
THEOREM RoundRobin == Safety => []RoundRobinCoverage
<1>1. OInv => RoundRobinCoverage
  BY DEF OInv, RoundRobinCoverage
<1> QED BY <1>1, OrderInvariance, PTL

-----------------------------------------------------------------------------
(* The optimistic strategy: a goroutine has messages to send only for a    *)
(* task that the engine has accepted, and an accepted task stays accepted. *)

Accepted == {c \in SubTasks : engine[Parent[c]] = "completed"}

\* what is missing belongs to the task of the goroutine, what is left to send to accepted ones
Released(s, accepted) ==
  /\ s.pc # "annotate"
  /\ s.missing \subseteq Children(s.task)
  /\ s.rest \subseteq accepted

AInv ==
  Optimistic =>
    /\ sent \subseteq Accepted
    /\ \A t \in cache : engine[t] = "completed"
    /\ \A g \in Handlers : Released(h[g], Accepted)

(* A goroutine without a task has nothing but the messages that are left to send. *)
LEMMA ReleasedSending ==
  ASSUME NEW accepted, NEW S \in SUBSET accepted
  PROVE  Released(Idle, accepted) /\ Released(Sending(S), accepted)
<1>1. Released(Idle, accepted)
  BY DEF Idle, Released
<1>2. Released([Idle EXCEPT !.pc = "send", !.rest = S], accepted)
  BY DEF Idle, Released
<1> QED BY <1>1, <1>2 DEF Sending

(* A step of one goroutine that leaves accepted tasks accepted. *)
LEMMA ReleasedStep ==
  ASSUME IInv, AInv, Optimistic, NEW g \in Handlers, NEW s,
         Become(g, s), Released(s, Accepted'), Accepted \subseteq Accepted',
         sent' \subseteq Accepted', \A t \in cache' : engine'[t] = "completed"
  PROVE  AInv'
<1>1. \A k \in Handlers : Released(h[k], Accepted')
  BY DEF AInv, Released
<1>2. \A k \in Handlers : Released(h'[k], Accepted')
  BY <1>1 DEF IInv, TypeOK, Become
<1> QED BY <1>2 DEF AInv

(* A step of one goroutine that the engine does not notice. *)
LEMMA ReleasedTurn ==
  ASSUME IInv, AInv, Optimistic, NEW g \in Handlers, NEW s,
         Become(g, s), Released(s, Accepted), engine' = engine, cache' = cache, sent' = sent
  PROVE  AInv'
<1>1. Accepted' = Accepted
  BY DEF Accepted
<1> QED BY <1>1, ReleasedStep DEF AInv

(* The initial states satisfy the invariant. *)
LEMMA AcceptedInit == Init => AInv
BY ReleasedSending DEF Init, AInv

\* the steps that end a task or a response without its completion
LEMMA EndAccepted ==
  ASSUME IInv, AInv, Optimistic, NEW g \in Handlers,
         \/ RejectTask(g) \/ IgnoreTask(g) \/ NothingToSend(g) \/ ReportNoResults(g)
         \/ CompleteRejected(g) \/ CompleteUnreachable(g)
         \/ BuildFails(g) \/ OrphanResponse(g) \/ ContinueGroup(g)
  PROVE  AInv'
<1>1. Become(g, Resume(g)) /\ engine' = engine /\ cache' = cache /\ sent' = sent
  BY OptimisticAssumption
  DEF RejectTask, IgnoreTask, NothingToSend, ReportNoResults, CompleteRejected, CompleteUnreachable,
      BuildFails, OrphanResponse, ContinueGroup, Local, camunda, history
<1>2. Released(Resume(g), Accepted)
  BY ReleasedSending DEF AInv, Released, Resume
<1> QED BY <1>1, <1>2, ReleasedTurn

\* the completion, after which the commands of the task are sent
LEMMA CompleteAccepts ==
  ASSUME IInv, AInv, Optimistic, NEW g \in Handlers,
         CompleteCached(g) \/ CompleteAccepted(g) \/ CompleteAnswerLost(g)
  PROVE  AInv'
<1>1. /\ h[g] \in HandlerState /\ Released(h[g], Accepted) /\ h[g].task \in Tasks
      /\ engine \in [Tasks -> {"open", "completed", "failed"}] /\ cache \subseteq Tasks
  BY DEF IInv, TypeOK, Good, Placed, AInv, CompleteCached, CompleteAccepted, CompleteAnswerLost, At
<1>2. \A t \in Tasks : engine[t] = "completed" => engine'[t] = "completed"
  BY <1>1 DEF CompleteCached, CompleteAccepted, CompleteAnswerLost, Local, camunda
<1>3. Accepted \subseteq Accepted'
  BY <1>2, GroupAssumption DEF Accepted
<1>4. sent' \subseteq Accepted'
  BY <1>3 DEF AInv, CompleteCached, CompleteAccepted, CompleteAnswerLost, Local, history
<1>5. \A t \in cache' : engine'[t] = "completed"
  BY <1>1, <1>2 DEF AInv, CompleteCached, CompleteAccepted, CompleteAnswerLost, Local
<1>6. Released(Resume(g), Accepted')
  BY <1>1, <1>3, ReleasedSending DEF Released, Resume
<1>7. CASE CompleteCached(g) \/ CompleteAccepted(g)
  <2>1. engine'[h[g].task] = "completed"
    BY <1>1, <1>2, <1>7 DEF AInv, CompleteCached, CompleteAccepted
  <2>2. h[g].missing \subseteq Accepted'
    BY <1>1, <2>1 DEF Released, Children, Accepted
  <2>3. Released(AfterComplete(g), Accepted')
    BY <1>6, <2>2, ReleasedSending DEF AfterComplete
  <2> QED BY <1>3, <1>4, <1>5, <1>7, <2>3, ReleasedStep DEF CompleteCached, CompleteAccepted, Local
<1>8. CASE CompleteAnswerLost(g)
  BY <1>3, <1>4, <1>5, <1>6, <1>8, ReleasedStep DEF CompleteAnswerLost
<1> QED BY <1>7, <1>8

\* the steps of a goroutine that goes on with its task
LEMMA MoveAccepted ==
  ASSUME IInv, AInv, Optimistic, NEW g \in Handlers,
         \/ AcceptTask(g) \/ SaveCallInfo(g) \/ FoundMeta(g) \/ SplitTask(g)
         \/ SaveParentMeta(g) \/ SaveChildMeta(g) \/ ScheduleParallel(g) \/ SetRetry(g)
         \/ ClearTaskData(g) \/ DeleteMeta(g) \/ DeleteResult(g) \/ SetSubResult(g) \/ FinishGroup(g)
  PROVE  AInv'
<1>1. h[g] \in HandlerState /\ Released(h[g], Accepted) /\ Scheduler = "parallel"
  BY OptimisticAssumption DEF IInv, Good, AInv
<1>2. engine' = engine /\ cache' = cache /\ sent' = sent
  BY DEF AcceptTask, SaveCallInfo, FoundMeta, SplitTask, SaveParentMeta, SaveChildMeta,
         ScheduleParallel, SetRetry, ClearTaskData, DeleteMeta, DeleteResult, SetSubResult,
         FinishGroup, Local, camunda, history
<1>3. ASSUME NEW s, Become(g, s), Released(s, Accepted) PROVE AInv'
  BY <1>2, <1>3, ReleasedTurn
<1>4. h[g].next # "annotate"
  BY <1>1 DEF HandlerState
<1>5. CASE AcceptTask(g) \/ SaveCallInfo(g) \/ SetSubResult(g) \/ FinishGroup(g)
  BY <1>1, <1>3, <1>5 DEF AcceptTask, SaveCallInfo, SetSubResult, FinishGroup, Local, HandlerState, Released
<1>6. CASE FoundMeta(g) \/ SplitTask(g)
  BY <1>1, <1>3, <1>6 DEF FoundMeta, SplitTask, Local, HandlerState, Released
<1>7. CASE SaveParentMeta(g) \/ SaveChildMeta(g)
  BY <1>1, <1>3, <1>7 DEF SaveParentMeta, SaveChildMeta, HandlerState, Released
<1>8. CASE ScheduleParallel(g)
  BY <1>1, <1>3, <1>8 DEF ScheduleParallel, Local, HandlerState, Released
<1>9. CASE SetRetry(g)
  <2>1. Become(g, [h[g] EXCEPT !.pc = "complete"])
    BY <1>9 DEF SetRetry
  <2> QED BY <1>1, <1>3, <2>1 DEF HandlerState, Released
<1>10. CASE ClearTaskData(g) \/ DeleteMeta(g) \/ DeleteResult(g)
  BY <1>1, <1>3, <1>4, <1>10 DEF ClearTaskData, DeleteMeta, DeleteResult, Local, HandlerState, Released
<1> QED BY <1>5, <1>6, <1>7, <1>8, <1>9, <1>10

LEMMA GetResultAccepted ==
  ASSUME IInv, AInv, Optimistic, NEW g \in Handlers, GetResult(g)
  PROVE  AInv'
<1>1. h[g] \in HandlerState /\ Released(h[g], Accepted) /\ h[g].todo \subseteq Children(h[g].task)
  BY DEF IInv, Good, Scanned, AInv, GetResult, At
<1>2. PICK c \in h[g].todo :
        \/ Become(g, [h[g] EXCEPT !.todo = @ \ {c}, !.got = @ \cup {c}])
        \/ Become(g, [h[g] EXCEPT !.todo = @ \ {c}, !.missing = @ \cup {c}])
  BY DEF GetResult, Local
<1>3. engine' = engine /\ cache' = cache /\ sent' = sent
  BY DEF GetResult, Local, camunda, history
<1>4. Released([h[g] EXCEPT !.todo = @ \ {c}, !.got = @ \cup {c}], Accepted)
  BY <1>1 DEF HandlerState, Released
<1>5. Released([h[g] EXCEPT !.todo = @ \ {c}, !.missing = @ \cup {c}], Accepted)
  BY <1>1 DEF HandlerState, Released
<1> QED BY <1>2, <1>3, <1>4, <1>5, ReleasedTurn

\* the other schedulers are not the one of the strategy
LEMMA NoAnnotation ==
  ASSUME AInv, Optimistic, NEW g \in Handlers
  PROVE  ~StartAnnotate(g) /\ ~AnnotateSubTaskState(g) /\ ~Exhausted(g) /\ ~UpdateSubTaskState(g)
BY OptimisticAssumption
DEF AInv, Released, StartAnnotate, AnnotateSubTaskState, Exhausted, UpdateSubTaskState, At

\* a message leaves the loop of ExecuteCommand, a task or a response comes in
LEMMA ChannelAccepted ==
  ASSUME IInv, AInv, Optimistic, NEW g \in Handlers,
         \/ ProduceCommand(g) \/ AskLastValue(g)
         \/ \E t \in Tasks : Fetch(g, t)
         \/ \E c \in SubTasks : TakeResponse(g, c)
  PROVE  AInv'
<1>1. h[g].rest \subseteq Accepted /\ sent \subseteq Accepted /\ Released(Idle, Accepted)
  BY ReleasedSending DEF AInv, Released
<1>2. \A c \in h[g].rest : Released(Sending(h[g].rest \ {c}), Accepted)
  BY <1>1, ReleasedSending
<1>3. CASE ProduceCommand(g)
  <2>1. PICK c \in h[g].rest : sent' \subseteq sent \cup {c} /\ Become(g, Sending(h[g].rest \ {c}))
    BY <1>3 DEF ProduceCommand
  <2>2. engine' = engine /\ cache' = cache
    BY <1>3 DEF ProduceCommand, camunda
  <2>3. Accepted' = Accepted
    BY <2>2 DEF Accepted
  <2> QED BY <1>1, <1>2, <2>1, <2>2, <2>3, ReleasedStep DEF AInv
<1>4. CASE AskLastValue(g)
  <2>1. PICK c \in h[g].rest :
          \/ Become(g, [Idle EXCEPT !.pc = "setResult", !.role = "result", !.sub = c,
                                    !.rest = h[g].rest \ {c}])
          \/ Become(g, Sending(h[g].rest \ {c})) \/ Become(g, Idle)
    BY <1>4 DEF AskLastValue, Local
  <2>2. Released([Idle EXCEPT !.pc = "setResult", !.role = "result", !.sub = c,
                              !.rest = h[g].rest \ {c}], Accepted)
    BY <1>1 DEF Idle, Released
  <2>3. engine' = engine /\ cache' = cache /\ sent' = sent
    BY <1>4 DEF AskLastValue, Local, camunda, history
  <2> QED BY <1>1, <1>2, <2>1, <2>2, <2>3, ReleasedTurn
<1>5. ASSUME NEW t \in Tasks, Fetch(g, t) PROVE AInv'
  <2>1. Released([Idle EXCEPT !.pc = "execute", !.role = "camunda", !.task = t,
                              !.seen = retries[t]], Accepted)
    BY DEF Idle, Released
  <2> QED BY <1>5, <2>1, ReleasedTurn DEF Fetch, history
<1>6. ASSUME NEW c \in SubTasks, TakeResponse(g, c) PROVE AInv'
  BY <1>1, <1>6, ReleasedTurn DEF TakeResponse, camunda, history
<1> QED BY <1>3, <1>4, <1>5, <1>6

LEMMA StoreFailsAccepted ==
  ASSUME IInv, AInv, Optimistic, NEW g \in Handlers, StoreFails(g)
  PROVE  AInv'
<1>1. h[g] \in HandlerState /\ Released(h[g], Accepted)
  BY DEF IInv, Good, AInv
<1>2. h[g].next # "annotate" /\ Released(Resume(g), Accepted)
  BY <1>1, ReleasedSending DEF HandlerState, Released, Resume
<1>3. engine' = engine /\ cache' = cache /\ sent' = sent
  BY DEF StoreFails, camunda
<1>4. ASSUME NEW s, Become(g, s), Released(s, Accepted) PROVE AInv'
  BY <1>3, <1>4, ReleasedTurn
<1>5. \/ Become(g, Resume(g))
      \/ Become(g, [h[g] EXCEPT !.pc = "getMeta"])
      \/ Become(g, [h[g] EXCEPT !.pc = h[g].next])
      \/ Become(g, [h[g] EXCEPT !.pc = "deleteResult"])
      \/ \E x \in h[g].todo : Become(g, [h[g] EXCEPT !.todo = @ \ {x},
           !.pc = IF h[g].todo = {x} THEN h[g].next ELSE "deleteMeta"])
  BY DEF StoreFails
<1> QED BY <1>1, <1>2, <1>4, <1>5 DEF HandlerState, Released

\* time, the engine, the devices and the process as a whole
LEMMA OutsideAccepted ==
  ASSUME IInv, AInv, Optimistic,
         \/ Restart \/ EntryExpires
         \/ \E t \in Tasks : \/ CallTimesOut(t) \/ CacheExpires(t) \/ LockExpires(t)
                             \/ LateComplete(t) \/ HandleIncident(t) \/ LoseIncident(t)
         \/ \E c \in SubTasks : \/ TryTimesOut(c) \/ DeviceAnswers(c) \/ DeviceFails(c) \/ LoseMessage(c)
         \/ UNCHANGED vars
  PROVE  AInv'
<1>1. engine \in [Tasks -> {"open", "completed", "failed"}] /\ cache \subseteq Tasks
  BY DEF IInv, TypeOK
<1>2. \A t \in Tasks : engine[t] = "completed" => engine'[t] = "completed"
  BY <1>1 DEF Restart, EntryExpires, CallTimesOut, CacheExpires, LockExpires, LateComplete,
              HandleIncident, LoseIncident, TryTimesOut, DeviceAnswers, DeviceFails, LoseMessage,
              camunda, vars
<1>3. cache' \subseteq cache /\ sent' = sent
  BY DEF Restart, EntryExpires, CallTimesOut, CacheExpires, LockExpires, LateComplete,
         HandleIncident, LoseIncident, TryTimesOut, DeviceAnswers, DeviceFails, LoseMessage,
         history, vars
<1>4. h' = h \/ h' = [g \in Handlers |-> Idle]
  BY DEF Restart, EntryExpires, CallTimesOut, CacheExpires, LockExpires, LateComplete,
         HandleIncident, LoseIncident, TryTimesOut, DeviceAnswers, DeviceFails, LoseMessage, vars
<1>5. Accepted \subseteq Accepted'
  BY <1>2, GroupAssumption DEF Accepted
<1>6. Released(Idle, Accepted')
  BY ReleasedSending
<1>7. \A g \in Handlers : Released(h'[g], Accepted')
  BY <1>4, <1>5, <1>6 DEF AInv, Released
<1> QED BY <1>1, <1>2, <1>3, <1>5, <1>7 DEF AInv

(* Every step keeps the invariant. *)
LEMMA AcceptedNext == ASSUME IInv, AInv, [Next]_vars PROVE AInv'
<1> SUFFICES ASSUME Optimistic PROVE AInv'
  BY DEF AInv
<1>1. ASSUME NEW g \in Handlers, Command(g) PROVE AInv'
  BY <1>1, EndAccepted, CompleteAccepts, MoveAccepted, GetResultAccepted, NoAnnotation, ChannelAccepted
  DEF Command
<1>2. ASSUME NEW g \in Handlers, Response(g) \/ Failure(g) PROVE AInv'
  BY <1>2, EndAccepted, CompleteAccepts, MoveAccepted, StoreFailsAccepted DEF Response, Failure
<1> QED BY <1>1, <1>2, ChannelAccepted, OutsideAccepted DEF Next, Step

(* The optimistic strategy (lib/worker.go:247-259) sends a command only for a task that the      *)
(* engine has accepted as completed, whatever is lost, fails or is handled concurrently.         *)
THEOREM CommandsFollow == Safety => []CommandsFollowCompletion
<1>1. IInv /\ AInv /\ [Next]_vars => AInv'
  BY AcceptedNext
<1>2. AInv => CommandsFollowCompletion
  BY DEF AInv, Accepted, CommandsFollowCompletion
<1> QED BY <1>1, <1>2, AcceptedInit, Invariance, PTL DEF Safety
-----------------------------------------------------------------------------
(* The refinement: every behaviour of the worker is one of TaskPromise.    *)
(* What is in flight has its cause in the histories: a command was asked   *)
(* for, an answer was sent for, an incident was reported, and a completion *)
(* the engine may still accept is one of the promise.                      *)

Blamed == {t \in Tasks : \E r \in Reasons : <<t, r>> \in incidents}

LateIsAcceptable ==
  \A t \in Tasks, o \in SUBSET SubTasks : <<t, o>> \in late => Promise!Acceptable(t, o)

Causes ==
  /\ sent \cup answered \subseteq Asked
  /\ commands \cup answers \subseteq sent /\ sent \cap Events = {}
  /\ reported \subseteq Blamed
  /\ LateIsAcceptable

\* what a goroutine of any scheduler has left to do has its cause as well
Aware(s, asked, commanded) ==
  /\ s.rest \subseteq asked
  /\ s.missing \subseteq Children(s.task)
  /\ s.pc = "setResult" => s.sub \in asked /\ (s.sub \in Events \/ s.sub \in commanded)
  /\ s.pc = "complete" => Children(s.task) \ s.got \subseteq asked

PInv == Causes /\ \A g \in Handlers : Aware(h[g], Asked, sent)

-----------------------------------------------------------------------------
(* The children and the spent sub tasks are the same in both specifications. *)
LEMMA SameNotions ==
  /\ \A t : Promise!Children(t) = Children(t)
  /\ \A c : Promise!Spent(c) <=> Spent(c)
  /\ \A c \in SubTasks : Promise!Asked(c) <=> c \in Asked
BY DEF Promise!Children, Children, Promise!Spent, Spent, Promise!Asked, Asked

(* The histories of a state grow: nothing is taken back. *)
Grows ==
  /\ answered \subseteq answered' /\ attempted' \in [SubTasks -> Nat]
  /\ \A c \in SubTasks : attempted[c] <= attempted'[c]

(* A spent sub task has been asked, and what was asked stays asked. *)
LEMMA SpentIsAsked ==
  ASSUME IInv, answered \subseteq Asked, NEW c \in SubTasks, SpentIn(c, answered, attempted)
  PROVE  c \in Asked
<1>1. attempted[c] \in Nat /\ Limit \in Nat \cup {-1}
  BY ConfigAssumption DEF IInv, TypeOK, Limit
<1> QED BY <1>1 DEF SpentIn, Asked

LEMMA AskedStays == ASSUME IInv, Grows PROVE Asked \subseteq Asked'
<1>1. attempted \in [SubTasks -> Nat]
  BY DEF IInv, TypeOK
<1> QED BY <1>1 DEF Grows, Asked

LEMMA SameHistory ==
  ASSUME IInv, attempted' = attempted, answered' = answered
  PROVE  Grows /\ Asked' = Asked
BY DEF IInv, TypeOK, Grows, Asked

(* Results that were acceptable stay acceptable. *)
LEMMA AcceptableStays ==
  ASSUME IInv, Grows, NEW t \in Tasks, NEW o \in SUBSET SubTasks, Promise!Acceptable(t, o)
  PROVE  Promise!Acceptable(t, o)'
<1>1. attempted \in [SubTasks -> Nat] /\ Limit \in Int
  BY LimitType DEF IInv, TypeOK
<1>2. o \subseteq answered \cap Children(t)
  BY SameNotions DEF Promise!Acceptable
<1>3. ASSUME NEW c \in Children(t) \ o
      PROVE  IF Optimistic THEN attempted'[c] > 0
             ELSE c \in answered' \/ (Limit # -1 /\ attempted'[c] > Limit)
  <2>1. c \in SubTasks
    BY <1>3 DEF Children
  <2>2. IF Optimistic THEN attempted[c] > 0
        ELSE c \in answered \/ (Limit # -1 /\ attempted[c] > Limit)
    BY <1>3, SameNotions DEF Promise!Acceptable, Promise!Asked, Promise!Spent
  <2>3. attempted[c] \in Nat /\ attempted'[c] \in Nat /\ attempted[c] <= attempted'[c]
    BY <1>1, <2>1 DEF Grows
  <2> QED BY <1>1, <2>2, <2>3 DEF Grows
<1> QED BY <1>2, <1>3
    DEF Promise!Acceptable, Promise!Children, Children, Promise!Asked, Promise!Spent, Grows

LEMMA LateStays ==
  ASSUME IInv, Causes, Grows, late' \subseteq late
  PROVE  LateIsAcceptable'
BY AcceptableStays DEF Causes, LateIsAcceptable

(* A goroutine that was aware stays aware. *)
LEMMA AwareMonotone ==
  ASSUME NEW s, NEW a, NEW b, NEW c, NEW d, Aware(s, a, c), a \subseteq b, c \subseteq d
  PROVE  Aware(s, b, d)
BY DEF Aware

(* A goroutine without a task. *)
LEMMA AwareSending ==
  ASSUME NEW a, NEW b, NEW S \in SUBSET a
  PROVE  Aware(Idle, a, b) /\ Aware(Sending(S), a, b)
<1>1. Aware(Idle, a, b)
  BY DEF Idle, Aware
<1>2. Aware([Idle EXCEPT !.pc = "send", !.rest = S], a, b)
  BY DEF Idle, Aware
<1> QED BY <1>1, <1>2 DEF Sending

(* At the end of a task all its sub tasks have been asked. *)
LEMMA AwareResume ==
  ASSUME IInv, PInv, NEW g \in Handlers
  PROVE  /\ Aware(Resume(g), Asked, sent)
         /\ At(g, "complete") => Aware(AfterComplete(g), Asked, sent)
<1>1. Aware(h[g], Asked, sent) /\ Good(h[g], answered, attempted) /\ answered \subseteq Asked
  BY DEF PInv, Causes, IInv
<1>2. Aware(Resume(g), Asked, sent)
  <2>1. h[g].rest \in SUBSET Asked
    BY <1>1 DEF Aware
  <2> QED BY <2>1, AwareSending DEF Resume
<1>3. ASSUME At(g, "complete") PROVE h[g].missing \in SUBSET Asked
  BY <1>1, <1>3 DEF Aware, At, Good, Grounded
<1> QED BY <1>2, <1>3, AwareSending DEF AfterComplete

(* A step of one goroutine that leaves every cause in place. *)
LEMMA AwareStep ==
  ASSUME IInv, PInv, NEW g \in Handlers, NEW s, Become(g, s), Grows, sent \subseteq sent',
         Aware(s, Asked', sent'), Causes'
  PROVE  PInv'
<1>1. Asked \subseteq Asked'
  BY AskedStays
<1>2. \A k \in Handlers : Aware(h[k], Asked', sent')
  BY <1>1, AwareMonotone DEF PInv
<1>3. \A k \in Handlers : Aware(h'[k], Asked', sent')
  BY <1>2 DEF IInv, TypeOK, Become
<1> QED BY <1>3 DEF PInv

(* A step that changes nothing but its goroutine and the store. *)
Quiet ==
  UNCHANGED <<attempted, sent, answered, incidents, commands, answers, reported, late>>

LEMMA QuietCauses ==
  ASSUME IInv, Causes, Quiet
  PROVE  Grows /\ Asked' = Asked /\ sent' = sent /\ Causes'
<1>1. Grows
  BY DEF Quiet, Grows, IInv, TypeOK
<1>2. Asked' = Asked /\ Blamed' = Blamed
  BY DEF Quiet, Asked, Blamed
<1>3. LateIsAcceptable'
  BY <1>1, LateStays DEF Quiet
<1> QED BY <1>1, <1>2, <1>3 DEF Quiet, Causes

LEMMA AwareTurn ==
  ASSUME IInv, PInv, NEW g \in Handlers, NEW s, Become(g, s), Quiet, Aware(s, Asked, sent)
  PROVE  PInv'
BY QuietCauses, AwareStep DEF PInv

-----------------------------------------------------------------------------
(* The initial states satisfy the invariant. *)
LEMMA PromiseInit == Init => PInv /\ Promise!Init
<1> SUFFICES ASSUME Init PROVE PInv /\ Promise!Init
  OBVIOUS
<1>1. \A g \in Handlers : Aware(h[g], Asked, sent)
  BY AwareSending DEF Init
<1>2. Causes
  BY DEF Init, Causes, LateIsAcceptable
<1> QED BY <1>1, <1>2 DEF PInv, Init, Promise!Init

\* the quiet steps that end a task, a response or a message
LEMMA EndAware ==
  ASSUME IInv, PInv, NEW g \in Handlers,
         \/ IgnoreTask(g) \/ NothingToSend(g) \/ CompleteCached(g) \/ CompleteUnreachable(g)
         \/ OrphanResponse(g)
  PROVE  PInv' /\ Quiet
<1>1. Become(g, Resume(g)) \/ (At(g, "complete") /\ Become(g, AfterComplete(g)))
  BY DEF IgnoreTask, NothingToSend, CompleteCached, CompleteUnreachable, OrphanResponse, Local
<1>2. Quiet
  BY DEF IgnoreTask, NothingToSend, CompleteCached, CompleteUnreachable, OrphanResponse, Local,
         store, camunda, channels, history, Quiet
<1> QED BY <1>1, <1>2, AwareResume, AwareTurn

\* the quiet steps of a goroutine that goes on with its task
LEMMA MoveAware ==
  ASSUME IInv, PInv, NEW g \in Handlers,
         \/ AcceptTask(g) \/ SaveCallInfo(g) \/ FoundMeta(g) \/ SplitTask(g)
         \/ SaveParentMeta(g) \/ SaveChildMeta(g) \/ StartAnnotate(g) \/ AnnotateSubTaskState(g)
         \/ Exhausted(g) \/ ScheduleParallel(g) \/ FinishGroup(g)
  PROVE  PInv' /\ Quiet
<1>1. h[g] \in HandlerState /\ Aware(h[g], Asked, sent)
  BY DEF IInv, Good, PInv
<1>2. Quiet
  BY DEF AcceptTask, SaveCallInfo, FoundMeta, SplitTask, SaveParentMeta, SaveChildMeta, StartAnnotate,
         AnnotateSubTaskState, Exhausted, ScheduleParallel, FinishGroup, Local,
         store, camunda, channels, history, Quiet
<1>3. ASSUME NEW s, Become(g, s), s.rest = h[g].rest, s.pc \notin {"setResult", "complete"},
             s.missing \subseteq Children(s.task)
      PROVE  PInv'
  BY <1>1, <1>2, <1>3, AwareTurn DEF Aware
<1>4. CASE AcceptTask(g) \/ SaveCallInfo(g) \/ StartAnnotate(g) \/ FinishGroup(g)
  BY <1>1, <1>2, <1>3, <1>4 DEF AcceptTask, SaveCallInfo, StartAnnotate, FinishGroup, Local, HandlerState, Aware
<1>5. CASE FoundMeta(g) \/ SplitTask(g)
  BY <1>1, <1>2, <1>3, <1>5 DEF FoundMeta, SplitTask, Local, HandlerState, Aware
<1>6. CASE SaveParentMeta(g) \/ SaveChildMeta(g)
  BY <1>1, <1>2, <1>3, <1>6 DEF SaveParentMeta, SaveChildMeta, At, HandlerState, Aware
<1>7. CASE AnnotateSubTaskState(g)
  <2>1. PICK c \in h[g].todo :
          /\ h[g].pc = "annotate"
          /\ Become(g, [h[g] EXCEPT !.todo = @ \ {c}, !.tries[c] = tries[c],
                                    !.fresh = IF c \in running THEN @ \cup {c} ELSE @])
    BY <1>7 DEF AnnotateSubTaskState, Local, At
  <2> QED BY <1>1, <1>2, <1>3, <2>1 DEF HandlerState, Aware
<1>8. CASE Exhausted(g) \/ ScheduleParallel(g)
  BY <1>1, <1>2, <1>3, <1>8 DEF Exhausted, ScheduleParallel, Local, HandlerState, Aware
<1> QED BY <1>2, <1>4, <1>5, <1>6, <1>7, <1>8

\* a cleared task goes on to its end: nothing that was not asked is left out
LEMMA ClearAware ==
  ASSUME IInv, PInv, NEW g \in Handlers, ClearTaskData(g) \/ DeleteMeta(g) \/ DeleteResult(g)
  PROVE  PInv' /\ Quiet
<1>1. /\ h[g] \in HandlerState /\ Aware(h[g], Asked, sent) /\ Good(h[g], answered, attempted)
      /\ answered \subseteq Asked
  BY DEF IInv, Good, PInv, Causes
<1>2. Quiet
  BY DEF ClearTaskData, DeleteMeta, DeleteResult, Local, store, camunda, channels, history, Quiet
<1>3. h[g].pc \in {"clear", "deleteMeta", "deleteResult"}
  BY DEF ClearTaskData, DeleteMeta, DeleteResult, At
<1>4. Children(h[g].task) \ h[g].got \subseteq Asked
  BY <1>1, <1>3, SpentIsAsked DEF Good, Ending, Children
<1>5. h[g].next \in {"none", "setRetry", "noResults", "complete"}
  BY <1>1 DEF HandlerState
<1>6. \/ Become(g, [h[g] EXCEPT !.pc = "deleteMeta", !.todo = Children(h[g].task) \cup {h[g].task}])
      \/ Become(g, [h[g] EXCEPT !.pc = h[g].next])
      \/ Become(g, [h[g] EXCEPT !.pc = "deleteResult"])
      \/ \E x \in h[g].todo : Become(g, [h[g] EXCEPT !.todo = @ \ {x},
           !.pc = IF h[g].todo = {x} THEN h[g].next ELSE "deleteMeta"])
  BY DEF ClearTaskData, DeleteMeta, DeleteResult, Local
<1>7. ASSUME NEW s, Become(g, s), s.pc # "setResult", s.rest = h[g].rest,
             s.missing = h[g].missing, s.task = h[g].task, s.got = h[g].got
      PROVE  PInv'
  BY <1>1, <1>2, <1>4, <1>7, AwareTurn DEF Aware
<1> QED BY <1>1, <1>2, <1>5, <1>6, <1>7 DEF HandlerState

LEMMA GetResultAware ==
  ASSUME IInv, PInv, NEW g \in Handlers, GetResult(g)
  PROVE  PInv' /\ Quiet
<1>1. /\ h[g] \in HandlerState /\ Aware(h[g], Asked, sent) /\ h[g].pc = "getResults"
      /\ h[g].todo \subseteq Children(h[g].task)
  BY DEF IInv, Good, Scanned, PInv, GetResult, At
<1>2. PICK c \in h[g].todo :
        \/ Become(g, [h[g] EXCEPT !.todo = @ \ {c}, !.got = @ \cup {c}])
        \/ Become(g, [h[g] EXCEPT !.todo = @ \ {c}, !.missing = @ \cup {c}])
  BY DEF GetResult, Local
<1>3. Quiet
  BY DEF GetResult, Local, store, camunda, channels, history, Quiet
<1>4. Aware([h[g] EXCEPT !.todo = @ \ {c}, !.got = @ \cup {c}], Asked, sent)
  BY <1>1 DEF HandlerState, Aware
<1>5. Aware([h[g] EXCEPT !.todo = @ \ {c}, !.missing = @ \cup {c}], Asked, sent)
  BY <1>1 DEF HandlerState, Aware
<1> QED BY <1>2, <1>3, <1>4, <1>5, AwareTurn

\* a task, a response or an event value comes in
LEMMA ArrivalAware ==
  ASSUME IInv, PInv, NEW g \in Handlers,
         \/ ContinueGroup(g) \/ AskLastValue(g)
         \/ \E t \in Tasks : Fetch(g, t)
  PROVE  PInv' /\ Quiet
<1>1. Quiet
  BY DEF ContinueGroup, AskLastValue, Fetch, Local, store, camunda, channels, history, Quiet
<1>2. h[g].rest \subseteq Asked
  BY DEF PInv, Aware
<1>3. ASSUME NEW s, Become(g, s), Aware(s, Asked, sent) PROVE PInv'
  BY <1>1, <1>3, AwareTurn
<1>4. CASE ContinueGroup(g)
  <2>1. Aware([Idle EXCEPT !.pc = "execute", !.role = "response", !.task = h[g].task,
                           !.rest = h[g].rest], Asked, sent)
    BY <1>2 DEF Idle, Aware
  <2>2. Aware(Resume(g), Asked, sent)
    BY AwareResume
  <2> QED BY <1>1, <1>4, <2>1, <2>2, AwareTurn DEF ContinueGroup, Local
<1>5. CASE AskLastValue(g)
  <2>1. PICK c \in h[g].rest \cap Events :
          \/ Become(g, [Idle EXCEPT !.pc = "setResult", !.role = "result", !.sub = c,
                                    !.rest = h[g].rest \ {c}])
          \/ Become(g, Sending(h[g].rest \ {c})) \/ Become(g, Idle)
    BY <1>5 DEF AskLastValue, Local
  <2>2. Aware([Idle EXCEPT !.pc = "setResult", !.role = "result", !.sub = c,
                           !.rest = h[g].rest \ {c}], Asked, sent)
    BY <1>2 DEF Idle, Aware
  <2>3. Aware(Sending(h[g].rest \ {c}), Asked, sent) /\ Aware(Idle, Asked, sent)
    BY <1>2, AwareSending
  <2> QED BY <1>1, <2>1, <2>2, <2>3, AwareTurn
<1>6. ASSUME NEW t \in Tasks, Fetch(g, t) PROVE PInv'
  <2>1. Aware([Idle EXCEPT !.pc = "execute", !.role = "camunda", !.task = t,
                           !.seen = retries[t]], Asked, sent)
    BY DEF Idle, Aware
  <2> QED BY <1>3, <1>6, <2>1 DEF Fetch
<1> QED BY <1>1, <1>4, <1>5, <1>6

-----------------------------------------------------------------------------
(* The steps that the engine, the devices or the platform see: each keeps  *)
(* the invariant and is a step of the promise.                             *)

LEMMA Visible ==
  ASSUME IInv, PInv, NEW g \in Handlers
  PROVE  /\ h[g] \in HandlerState /\ Good(h[g], answered, attempted) /\ Aware(h[g], Asked, sent)
         /\ h \in [Handlers -> HandlerState] /\ attempted \in [SubTasks -> Nat]
         /\ Causes /\ answered \subseteq Asked
BY DEF IInv, TypeOK, Good, PInv, Causes

\* an incident: the platform may stop the process of the task from now on
LEMMA ReportPromise ==
  ASSUME IInv, PInv, NEW g \in Handlers, NEW t \in Tasks, NEW r \in Reasons, Report(t, r),
         UNCHANGED <<engine, output, attempted, sent, answered, commands, answers, late>>,
         r = "no results" => \A c \in Children(t) : Spent(c),
         Become(g, Resume(g))
  PROVE  PInv' /\ Promise!Next
<1>1. Grows /\ Asked' = Asked
  BY SameHistory
<1>2. reported' \subseteq Blamed'
  BY DEF PInv, Causes, Report, Blamed
<1>3. Causes'
  BY <1>1, <1>2, LateStays DEF PInv, Causes
<1>4. Aware(Resume(g), Asked', sent')
  BY <1>1, AwareResume
<1>5. PInv'
  BY <1>1, <1>3, <1>4, AwareStep
<1>6. Promise!Blame(t, r)
  BY SameNotions DEF Report, Promise!Blame
<1> QED BY <1>5, <1>6 DEF Promise!Next

LEMMA BlamePromise ==
  ASSUME IInv, PInv, NEW g \in Handlers,
         RejectTask(g) \/ ReportNoResults(g) \/ CompleteRejected(g) \/ BuildFails(g)
  PROVE  PInv' /\ Promise!Next
<1>1. Good(h[g], answered, attempted)
  BY Visible
<1>2. /\ Become(g, Resume(g))
      /\ UNCHANGED <<engine, output, attempted, sent, answered, commands, answers, late>>
  BY DEF RejectTask, ReportNoResults, CompleteRejected, BuildFails, camunda
<1>3. h[g].task \in Tasks
  BY <1>1 DEF RejectTask, ReportNoResults, CompleteRejected, BuildFails, SplitFails, MessageFails,
              RequestsBuilt, At, Good, Placed
<1>4. CASE RejectTask(g) \/ CompleteRejected(g) \/ BuildFails(g)
  <2>1. PICK r \in Reasons \ {"no results"} : Report(h[g].task, r)
    BY <1>3, <1>4, ConfigAssumption DEF RejectTask, CompleteRejected, BuildFails, Reading, Reasons
  <2> QED BY <1>2, <1>3, <2>1, ReportPromise
<1>5. CASE ReportNoResults(g)
  <2>1. Report(h[g].task, "no results") /\ h[g].pc = "noResults"
    BY <1>5 DEF ReportNoResults, At
  <2>2. \A c \in Children(h[g].task) : Spent(c)
    <3>1. ASSUME NEW c \in Children(h[g].task) PROVE SpentIn(c, answered, attempted)
      BY <1>1, <2>1, <3>1 DEF Good, Grounded, Ending, SpentIn
    <3> QED BY <3>1 DEF SpentIn, Spent
  <2> QED BY <1>2, <1>3, <2>1, <2>2, ReportPromise DEF Reasons
<1> QED BY <1>4, <1>5

\* a failure of the store is an incident, or only a message in the log
LEMMA StoreFailsPromise ==
  ASSUME IInv, PInv, NEW g \in Handlers, StoreFails(g)
  PROVE  PInv' /\ (Promise!Next \/ Quiet)
<1>1. /\ h[g] \in HandlerState /\ Good(h[g], answered, attempted) /\ Aware(h[g], Asked, sent)
      /\ answered \subseteq Asked
  BY Visible
<1>2. UNCHANGED <<engine, output, attempted, sent, answered, commands, answers, late>>
  BY DEF StoreFails, camunda
<1>3. CASE Report(h[g].task, "store") /\ Become(g, Resume(g))
           /\ h[g].pc \in {"getMeta", "saveMeta", "getResults", "saveChildren", "annotate"}
           /\ (h[g].pc = "getMeta" => h[g].role # "result")
  <2>1. h[g].task \in Tasks
    BY <1>1, <1>3 DEF Good, Placed
  <2> QED BY <1>2, <1>3, <2>1, ReportPromise DEF Reasons
<1>4. CASE UNCHANGED <<incidents, reported>>
  <2>1. Quiet
    BY <1>2, <1>4 DEF Quiet
  <2>2. ASSUME NEW s, Become(g, s), s.pc # "setResult", s.rest = h[g].rest,
               s.missing = h[g].missing, s.task = h[g].task, s.got = h[g].got,
               s.pc # "complete" \/ h[g].pc \in {"clear", "deleteMeta", "deleteResult"}
        PROVE  PInv'
    <3>1. s.pc = "complete" => Children(s.task) \ s.got \subseteq Asked
      BY <1>1, <2>2, SpentIsAsked DEF Good, Ending, Children
    <3> QED BY <1>1, <2>1, <2>2, <3>1, AwareTurn DEF Aware
  <2>3. h[g].next \in {"none", "setRetry", "noResults", "complete"}
    BY <1>1 DEF HandlerState
  <2>4. \/ Become(g, Resume(g))
        \/ Become(g, [h[g] EXCEPT !.pc = "getMeta"])
        \/ At(g, "clear") /\ Become(g, [h[g] EXCEPT !.pc = h[g].next])
        \/ Become(g, [h[g] EXCEPT !.pc = "deleteResult"])
        \/ At(g, "deleteResult") /\ \E x \in h[g].todo : Become(g, [h[g] EXCEPT !.todo = @ \ {x},
             !.pc = IF h[g].todo = {x} THEN h[g].next ELSE "deleteMeta"])
    BY DEF StoreFails
  <2>5. CASE Become(g, Resume(g))
    BY <2>1, <2>5, AwareResume, AwareTurn
  <2>6. CASE ~Become(g, Resume(g))
    BY <1>1, <2>1, <2>2, <2>3, <2>4, <2>6 DEF At, HandlerState
  <2> QED BY <2>5, <2>6
<1> QED BY <1>3, <1>4 DEF StoreFails, At

-----------------------------------------------------------------------------
(* Sub tasks are asked, sent for and answered. *)

LEMMA UpdateSubTaskStatePromise ==
  ASSUME IInv, PInv, OInv, OInv', NEW g \in Handlers, UpdateSubTaskState(g)
  PROVE  PInv' /\ Promise!Next
<1> PICK t : t = h[g].task
  OBVIOUS
<1>1. PICK c \in SubTasks :
        /\ At(g, "annotate") /\ NextRequest(g, c)
        /\ attempted' = [attempted EXCEPT ![c] = @ + 1]
        /\ Become(g, Sending({c}))
  BY DEF UpdateSubTaskState
<1>2. /\ h[g] \in HandlerState /\ Good(h[g], answered, attempted) /\ Aware(h[g], Asked, sent)
      /\ attempted \in [SubTasks -> Nat] /\ Causes
  BY Visible
<1>3. t \in Tasks /\ c \in Children(t)
  <2>1. c \in h[g].missing
    BY <1>1 DEF NextRequest, IsFirst, FilterCurrentlyRunning, FilterRetries
  <2> QED BY <1>1, <1>2, <2>1 DEF At, Good, Placed, Aware
<1>4. /\ Grows /\ c \in Asked'
      /\ UNCHANGED <<engine, output, sent, answered, incidents, commands, answers, reported, late>>
  BY <1>1, <1>2 DEF Grows, Asked, UpdateSubTaskState, camunda, channels
<1>5. Asked \subseteq Asked' /\ LateIsAcceptable' /\ Blamed' = Blamed
  BY <1>2, <1>4, AskedStays, LateStays DEF Blamed
<1>6. Causes'
  BY <1>2, <1>4, <1>5 DEF Causes
<1>7. PInv'
  <2>1. Aware(Sending({c}), Asked', sent')
    BY <1>4, AwareSending
  <2> QED BY <1>1, <1>4, <1>6, <2>1, AwareStep
<1>8. Promise!Ask(t, {c})
  <2>1. Promise!Children(t) = Children(t) /\ {c} \subseteq Children(t)
    BY <1>3, SameNotions
  <2>2. ASSUME Scheduler = "sequential", NEW d \in Children(t) \ {c}, Pos[d] < Pos[c]
        PROVE  Promise!Asked(d)
    <3>1. d \in SubTasks /\ c \in SubTasks /\ Parent[d] = Parent[c]
      BY <1>3, <2>2 DEF Children
    <3>2. attempted'[c] > 0 /\ attempted'[d] = attempted[d]
      BY <1>1, <1>2, <2>2, <3>1
    <3>3. GroupOrder'
      BY <2>2 DEF OInv
    <3> QED BY <2>2, <3>1, <3>2, <3>3 DEF GroupOrder, Promise!Asked
  <2>3. attempted' = [d \in SubTasks |-> IF d \in {c} THEN attempted[d] + 1 ELSE attempted[d]]
    BY <1>1, <1>2
  <2> QED BY <1>4, <2>1, <2>2, <2>3 DEF Promise!Ask
<1> QED BY <1>3, <1>7, <1>8 DEF Promise!Next, Children

LEMMA SetRetryPromise ==
  ASSUME IInv, PInv, OInv, NEW g \in Handlers, SetRetry(g)
  PROVE  PInv' /\ Promise!Next
<1> PICK t, S : t = h[g].task /\ S = h[g].missing
  OBVIOUS
<1>1. /\ h[g] \in HandlerState /\ Good(h[g], answered, attempted) /\ Aware(h[g], Asked, sent)
      /\ attempted \in [SubTasks -> Nat] /\ Causes /\ answered \subseteq Asked
  BY Visible
<1>2. /\ h[g].pc = "setRetry" /\ t \in Tasks
      /\ S \subseteq Children(t) /\ Children(t) \ h[g].got \subseteq S
      /\ h[g].rest \subseteq Asked /\ S \subseteq SubTasks
  BY <1>1 DEF SetRetry, At, Good, Placed, Scanned, Aware, Children
<1>3. attempted' = [c \in SubTasks |-> IF c \in S THEN attempted[c] + 1 ELSE attempted[c]]
  BY DEF SetRetry
<1>4. /\ UNCHANGED <<engine, output, sent, answered, incidents, commands, answers, reported, late>>
      /\ \/ Become(g, [h[g] EXCEPT !.pc = "complete"])
         \/ Become(g, Sending(S))
  BY DEF SetRetry, channels
<1>5. Grows /\ S \subseteq Asked'
  BY <1>1, <1>2, <1>3, <1>4 DEF Grows, Asked
<1>6. Asked \subseteq Asked' /\ LateIsAcceptable' /\ Blamed' = Blamed
  BY <1>1, <1>4, <1>5, AskedStays, LateStays DEF Blamed
<1>7. Causes'
  BY <1>1, <1>4, <1>6 DEF Causes
<1>8. PInv'
  <2>1. Aware(Sending(S), Asked', sent')
    BY <1>5, AwareSending
  <2>2. Aware([h[g] EXCEPT !.pc = "complete"], Asked', sent')
    BY <1>1, <1>2, <1>5, <1>6 DEF HandlerState, Aware
  <2> QED BY <1>4, <1>5, <1>7, <2>1, <2>2, AwareStep
<1>9. Scheduler # "sequential"
  BY NoParallel
<1>10. Promise!Ask(t, S)
  BY <1>2, <1>3, <1>4, <1>9, SameNotions DEF Promise!Ask
<1> QED BY <1>2, <1>8, <1>10 DEF Promise!Next

LEMMA ProduceCommandPromise ==
  ASSUME IInv, PInv, AInv, NEW g \in Handlers, ProduceCommand(g)
  PROVE  PInv' /\ (Promise!Next \/ Quiet)
<1>1. PICK c \in h[g].rest \ Events :
        /\ Become(g, Sending(h[g].rest \ {c}))
        /\ \/ commands' = commands \cup {c} /\ sent' = sent \cup {c}
           \/ UNCHANGED <<commands, sent>>
  BY DEF ProduceCommand
<1>2. UNCHANGED <<engine, output, attempted, answered, incidents, answers, reported, late>>
  BY DEF ProduceCommand, camunda
<1>3. /\ h[g] \in HandlerState /\ Aware(h[g], Asked, sent) /\ Causes /\ answered \subseteq Asked
  BY Visible
<1>4. c \in Asked /\ c \in SubTasks /\ h[g].rest \ {c} \in SUBSET Asked
  BY <1>3 DEF Aware, Asked
<1>5. Grows /\ Asked' = Asked /\ Blamed' = Blamed
  BY <1>2 DEF Grows, Asked, Blamed, IInv, TypeOK
<1>6. Causes' /\ sent \subseteq sent'
  BY <1>1, <1>2, <1>3, <1>4, <1>5, LateStays DEF Causes
<1>7. PInv'
  <2>1. Aware(Sending(h[g].rest \ {c}), Asked', sent')
    BY <1>4, <1>5, AwareSending
  <2> QED BY <1>1, <1>5, <1>6, <2>1, AwareStep
<1>8. CASE UNCHANGED <<commands, sent>>
  BY <1>2, <1>7, <1>8 DEF Quiet
<1>9. CASE sent' = sent \cup {c}
  <2>1. Optimistic => engine[Parent[c]] = "completed"
    BY <1>1 DEF AInv, Released, Accepted
  <2>2. Promise!Send(c)
    BY <1>1, <1>2, <1>4, <1>9, <2>1, SameNotions DEF Promise!Send
  <2> QED BY <1>4, <1>7, <2>2 DEF Promise!Next
<1> QED BY <1>1, <1>8, <1>9

\* an answer of a device that got a command, or a value of an event
LEMMA SetSubResultPromise ==
  ASSUME IInv, PInv, NEW g \in Handlers, SetSubResult(g)
  PROVE  PInv' /\ Promise!Next
<1> PICK c : c = h[g].sub
  OBVIOUS
<1>1. /\ h[g] \in HandlerState /\ Good(h[g], answered, attempted) /\ Aware(h[g], Asked, sent)
      /\ attempted \in [SubTasks -> Nat] /\ Causes /\ answered \subseteq Asked
  BY Visible
<1>2. /\ Become(g, [h[g] EXCEPT !.pc = "getMeta"]) /\ answered' = answered \cup {c}
      /\ UNCHANGED <<engine, output, attempted, sent, incidents, commands, answers, reported, late>>
  BY DEF SetSubResult, camunda, channels
<1>3. c \in SubTasks /\ c \in Asked /\ (c \in Events \/ c \in sent)
  BY <1>1 DEF SetSubResult, At, Good, Placed, Aware, Asked
<1>4. Grows /\ Asked' = Asked /\ Blamed' = Blamed
  BY <1>1, <1>2 DEF Grows, Asked, Blamed
<1>5. Causes'
  BY <1>1, <1>2, <1>3, <1>4, LateStays DEF Causes
<1>6. Aware([h[g] EXCEPT !.pc = "getMeta"], Asked', sent')
  BY <1>1, <1>2, <1>4 DEF HandlerState, Aware
<1>7. PInv'
  BY <1>2, <1>4, <1>5, <1>6, AwareStep
<1>8. Promise!TakeResult(c)
  BY <1>2, <1>3, SameNotions DEF Promise!TakeResult
<1> QED BY <1>3, <1>7, <1>8 DEF Promise!Next

LEMMA TakeResponsePromise ==
  ASSUME IInv, PInv, NEW g \in Handlers, NEW c \in SubTasks, TakeResponse(g, c)
  PROVE  PInv' /\ (UNCHANGED <<engine, output, attempted, sent, answered, incidents>>)
<1> PICK s : s = [Idle EXCEPT !.pc = "setResult", !.role = "result", !.sub = c]
  OBVIOUS
<1>1. Causes /\ c \in sent /\ c \in Asked
  BY Visible DEF Causes, TakeResponse
<1>2. /\ Become(g, Idle) \/ Become(g, s)
      /\ UNCHANGED <<engine, output, attempted, sent, answered, incidents, commands, reported, late>>
      /\ answers' \subseteq answers
  BY DEF TakeResponse, camunda, history
<1>3. Grows /\ Asked' = Asked /\ Blamed' = Blamed
  <2>1. Causes /\ attempted \in [SubTasks -> Nat]
    BY Visible
  <2> QED BY <1>2, <2>1 DEF Grows, Asked, Blamed
<1>4. Causes'
  BY <1>1, <1>2, <1>3, LateStays DEF Causes
<1>5. Aware(Idle, Asked', sent')
  BY AwareSending
<1>6. Aware(s, Asked', sent')
  BY <1>1, <1>2, <1>3 DEF Idle, Aware
<1>7. PInv'
  BY <1>2, <1>3, <1>4, <1>5, <1>6, AwareStep
<1> QED BY <1>2, <1>7

-----------------------------------------------------------------------------
(* The engine completes a task. *)

\* what a goroutine completes a task with
LEMMA AcceptableAtEnd ==
  ASSUME IInv, PInv, NEW g \in Handlers, At(g, "complete")
  PROVE  /\ h[g].task \in Tasks /\ h[g].got \in SUBSET SubTasks
         /\ Promise!Acceptable(h[g].task, h[g].got)
<1>1. /\ h[g] \in HandlerState /\ Good(h[g], answered, attempted) /\ Aware(h[g], Asked, sent)
  BY Visible
<1>2. h[g].task \in Tasks /\ h[g].got \in SUBSET SubTasks
  BY <1>1 DEF At, Good, Placed, HandlerState
<1>3. h[g].got \subseteq answered \cap Children(h[g].task)
  BY <1>1 DEF Good, Grounded, Scanned
<1>4. ASSUME NEW c \in Children(h[g].task) \ h[g].got
      PROVE  IF Optimistic THEN Promise!Asked(c) ELSE Promise!Spent(c)
  <2>1. c \in SubTasks
    BY <1>4 DEF Children
  <2>2. CASE Optimistic
    <3>1. c \in Asked
      BY <1>1, <1>4 DEF At, Aware
    <3> QED BY <2>1, <2>2, <3>1, SameNotions
  <2>3. CASE ~Optimistic
    <3>1. SpentIn(c, answered, attempted)
      BY <1>1, <1>4, <2>3 DEF At, Good, Ending
    <3> QED BY <2>3, <3>1 DEF SpentIn, Promise!Spent
  <2> QED BY <2>2, <2>3
<1> QED BY <1>2, <1>3, <1>4, SameNotions DEF Promise!Acceptable

LEMMA CompleteAcceptedPromise ==
  ASSUME IInv, PInv, NEW g \in Handlers, CompleteAccepted(g)
  PROVE  PInv' /\ Promise!Next
<1>1. At(g, "complete") /\ Become(g, AfterComplete(g)) /\ Quiet
  BY DEF CompleteAccepted, channels, history, Quiet
<1>2. PInv'
  BY <1>1, AwareResume, AwareTurn
<1>3. Promise!Complete(h[g].task, h[g].got)
  BY <1>1, AcceptableAtEnd DEF CompleteAccepted, history, Promise!Complete
<1> QED BY <1>1, <1>2, <1>3, AcceptableAtEnd DEF Promise!Next

\* the answer is lost: the task is completed now or later, and may be reported
LEMMA CompleteAnswerLostPromise ==
  ASSUME IInv, PInv, NEW g \in Handlers, CompleteAnswerLost(g)
  PROVE  PInv' /\ (Promise!Next \/ UNCHANGED <<engine, output, attempted, sent, answered, incidents>>)
<1> PICK t, o : t = h[g].task /\ o = h[g].got
  OBVIOUS
<1>1. At(g, "complete") /\ t \in Tasks /\ o \in SUBSET SubTasks /\ Promise!Acceptable(t, o)
  BY AcceptableAtEnd DEF CompleteAnswerLost
<1>2. /\ engine[t] = "open" /\ Become(g, Resume(g))
      /\ UNCHANGED <<attempted, sent, answered, commands, answers>>
      /\ late' \subseteq late \cup {<<t, o>>}
      /\ \/ /\ engine' = [engine EXCEPT ![t] = "completed"]
            /\ output' = [output EXCEPT ![t] = o]
         \/ UNCHANGED <<engine, output>>
      /\ \/ Report(t, "complete")
         \/ UNCHANGED <<incidents, reported>>
  BY DEF CompleteAnswerLost
<1>3. Causes /\ Grows /\ Asked' = Asked
  <2>1. Causes /\ attempted \in [SubTasks -> Nat]
    BY Visible
  <2> QED BY <1>2, <2>1 DEF Grows, Asked
<1>4. reported' \subseteq Blamed'
  BY <1>1, <1>2, <1>3 DEF Causes, Report, Blamed, Reasons
<1>5. LateIsAcceptable'
  <2>1. Promise!Acceptable(t, o)'
    BY <1>1, <1>3, AcceptableStays
  <2>2. \A u \in Tasks, p \in SUBSET SubTasks : <<u, p>> \in late => Promise!Acceptable(u, p)'
    BY <1>3, AcceptableStays DEF Causes, LateIsAcceptable
  <2> QED BY <1>2, <2>1, <2>2 DEF LateIsAcceptable
<1>6. Causes'
  BY <1>2, <1>3, <1>4, <1>5 DEF Causes
<1>7. PInv'
  BY <1>2, <1>3, <1>6, AwareResume, AwareStep
<1>8. CASE UNCHANGED <<engine, output>> /\ Report(t, "complete")
  <2>1. Promise!Blame(t, "complete")
    BY <1>2, <1>8 DEF Report, Promise!Blame
  <2> QED BY <1>1, <1>7, <2>1 DEF Promise!Next, Reasons
<1>9. CASE engine' = [engine EXCEPT ![t] = "completed"] /\ output' = [output EXCEPT ![t] = o]
  <2>1. incidents' \in {incidents, incidents \cup {<<t, "complete">>}}
    BY <1>2 DEF Report
  <2>2. Promise!Complete(t, o)
    BY <1>1, <1>2, <1>9, <2>1 DEF Promise!Complete
  <2> QED BY <1>1, <1>7, <2>2 DEF Promise!Next
<1> QED BY <1>2, <1>7, <1>8, <1>9

\* a request whose client has given up is one the promise accepts
LEMMA LateCompletePromise ==
  ASSUME IInv, PInv, NEW t \in Tasks, LateComplete(t)
  PROVE  PInv' /\ (Promise!Next \/ UNCHANGED <<engine, output, attempted, sent, answered, incidents>>)
<1>1. PICK r \in late :
        /\ r[1] = t /\ late' = late \ {r}
        /\ IF engine[t] = "open"
           THEN engine' = [engine EXCEPT ![t] = "completed"] /\ output' = [output EXCEPT ![t] = r[2]]
           ELSE UNCHANGED <<engine, output>>
  BY DEF LateComplete
<1>2. late \subseteq Tasks \X SUBSET SubTasks /\ attempted \in [SubTasks -> Nat]
  BY DEF IInv, TypeOK
<1> PICK o : o = r[2]
  OBVIOUS
<1>3. o \in SUBSET SubTasks /\ r = <<t, o>>
  BY <1>1, <1>2
<1>4. Causes /\ Promise!Acceptable(t, o)
  BY <1>1, <1>3 DEF PInv, Causes, LateIsAcceptable
<1>5. UNCHANGED <<attempted, sent, answered, incidents, commands, answers, reported, h>>
  BY DEF LateComplete, channels, history
<1>6. Grows /\ Asked' = Asked /\ Blamed' = Blamed
  BY <1>2, <1>5 DEF Grows, Asked, Blamed
<1>7. Causes'
  BY <1>1, <1>4, <1>5, <1>6, LateStays DEF Causes
<1>8. PInv'
  BY <1>5, <1>6, <1>7 DEF PInv
<1>9. CASE engine[t] = "open"
  <2>1. Promise!Complete(t, o)
    BY <1>1, <1>4, <1>5, <1>9 DEF Promise!Complete
  <2> QED BY <1>3, <1>8, <2>1 DEF Promise!Next
<1>10. CASE engine[t] # "open"
  BY <1>1, <1>5, <1>8, <1>10
<1> QED BY <1>9, <1>10

-----------------------------------------------------------------------------
(* Time, the platform, the devices and the process as a whole. *)

LEMMA HandleIncidentPromise ==
  ASSUME IInv, PInv, NEW t \in Tasks, HandleIncident(t)
  PROVE  PInv' /\ (Promise!Next \/ UNCHANGED <<engine, output, attempted, sent, answered, incidents>>)
<1>1. /\ UNCHANGED <<output, attempted, sent, answered, incidents, commands, answers, late, h>>
      /\ t \in reported /\ reported' \subseteq reported
      /\ engine' = IF engine[t] = "open" THEN [engine EXCEPT ![t] = "failed"] ELSE engine
  BY DEF HandleIncident, history
<1>2. Causes /\ attempted \in [SubTasks -> Nat]
  BY DEF PInv, IInv, TypeOK
<1>3. Grows /\ Asked' = Asked /\ Blamed' = Blamed
  BY <1>1, <1>2 DEF Grows, Asked, Blamed
<1>4. Causes'
  BY <1>1, <1>2, <1>3, LateStays DEF Causes
<1>5. PInv'
  BY <1>1, <1>3, <1>4 DEF PInv
<1>6. CASE engine[t] = "open"
  <2>1. \E r \in Reasons : <<t, r>> \in incidents
    BY <1>1, <1>2 DEF Causes, Blamed
  <2>2. Promise!Stop(t)
    BY <1>1, <1>6, <2>1 DEF Promise!Stop
  <2> QED BY <1>5, <2>2 DEF Promise!Next
<1>7. CASE engine[t] # "open"
  BY <1>1, <1>5, <1>7
<1> QED BY <1>6, <1>7

\* no other step from outside is seen
LEMMA OutsidePromise ==
  ASSUME IInv, PInv,
         \/ Restart \/ EntryExpires
         \/ \E t \in Tasks : CallTimesOut(t) \/ CacheExpires(t) \/ LockExpires(t) \/ LoseIncident(t)
         \/ \E c \in SubTasks : \/ TryTimesOut(c) \/ DeviceAnswers(c) \/ DeviceFails(c) \/ LoseMessage(c)
         \/ UNCHANGED vars
  PROVE  PInv' /\ UNCHANGED <<engine, output, attempted, sent, answered, incidents>>
<1>1. /\ UNCHANGED <<engine, output, attempted, sent, answered, incidents, late>>
      /\ commands' \cup answers' \subseteq commands \cup answers /\ reported' \subseteq reported
      /\ h' = h \/ h' = [g \in Handlers |-> Idle]
  BY DEF Restart, EntryExpires, CallTimesOut, CacheExpires, LockExpires, LoseIncident, TryTimesOut,
         DeviceAnswers, DeviceFails, LoseMessage, camunda, channels, history, vars
<1>2. Causes /\ attempted \in [SubTasks -> Nat]
  BY DEF PInv, IInv, TypeOK
<1>3. Grows /\ Asked' = Asked /\ Blamed' = Blamed
  BY <1>1, <1>2 DEF Grows, Asked, Blamed
<1>4. Causes'
  BY <1>1, <1>2, <1>3, LateStays DEF Causes
<1>5. \A g \in Handlers : Aware(h'[g], Asked', sent')
  BY <1>1, <1>3, AwareSending DEF PInv
<1> QED BY <1>1, <1>4, <1>5 DEF PInv

(* Every step keeps the invariant and is a step of the promise, or one it does not see. *)
LEMMA PromiseNext ==
  ASSUME IInv, OInv, OInv', AInv, PInv, [Next]_vars
  PROVE  PInv' /\ [Promise!Next]_(Promise!vars)
<1>1. ASSUME Quiet, UNCHANGED <<engine, output>> PROVE UNCHANGED Promise!vars
  BY <1>1 DEF Quiet, Promise!vars
<1>2. ASSUME UNCHANGED <<engine, output, attempted, sent, answered, incidents>>
      PROVE  UNCHANGED Promise!vars
  BY <1>2 DEF Promise!vars
<1>3. ASSUME NEW g \in Handlers, Command(g) PROVE PInv' /\ [Promise!Next]_(Promise!vars)
  <2>1. CASE IgnoreTask(g) \/ NothingToSend(g) \/ CompleteCached(g)
    <3>1. UNCHANGED <<engine, output>>
      BY <2>1 DEF IgnoreTask, NothingToSend, CompleteCached, Local, camunda
    <3> QED BY <1>1, <2>1, <3>1, EndAware
  <2>2. CASE \/ AcceptTask(g) \/ SaveCallInfo(g) \/ FoundMeta(g) \/ SplitTask(g)
             \/ SaveParentMeta(g) \/ SaveChildMeta(g) \/ StartAnnotate(g) \/ AnnotateSubTaskState(g)
             \/ Exhausted(g) \/ ScheduleParallel(g)
    <3>1. UNCHANGED <<engine, output>>
      BY <2>2 DEF AcceptTask, SaveCallInfo, FoundMeta, SplitTask, SaveParentMeta, SaveChildMeta,
                  StartAnnotate, AnnotateSubTaskState, Exhausted, ScheduleParallel, Local, camunda
    <3> QED BY <1>1, <2>2, <3>1, MoveAware
  <2>3. CASE ClearTaskData(g) \/ DeleteMeta(g) \/ DeleteResult(g) \/ GetResult(g) \/ AskLastValue(g)
    <3>1. UNCHANGED <<engine, output>>
      BY <2>3 DEF ClearTaskData, DeleteMeta, DeleteResult, GetResult, AskLastValue, Local, camunda
    <3> QED BY <1>1, <2>3, <3>1, ClearAware, GetResultAware, ArrivalAware
  <2>4. CASE RejectTask(g) \/ ReportNoResults(g) \/ CompleteRejected(g)
    BY <2>4, BlamePromise
  <2>5. CASE UpdateSubTaskState(g) \/ SetRetry(g)
    BY <2>5, UpdateSubTaskStatePromise, SetRetryPromise
  <2>6. CASE CompleteAccepted(g)
    BY <2>6, CompleteAcceptedPromise
  <2>7. CASE ProduceCommand(g)
    <3>1. UNCHANGED <<engine, output>>
      BY <2>7 DEF ProduceCommand, camunda
    <3> QED BY <1>1, <2>7, <3>1, ProduceCommandPromise
  <2> QED BY <1>3, <2>1, <2>2, <2>3, <2>4, <2>5, <2>6, <2>7 DEF Command
<1>4. ASSUME NEW g \in Handlers, Response(g) PROVE PInv' /\ [Promise!Next]_(Promise!vars)
  <2>1. CASE OrphanResponse(g) \/ FinishGroup(g) \/ ContinueGroup(g)
    <3>1. UNCHANGED <<engine, output>>
      BY <2>1 DEF OrphanResponse, FinishGroup, ContinueGroup, Local, camunda
    <3> QED BY <1>1, <2>1, <3>1, EndAware, MoveAware, ArrivalAware
  <2>2. CASE SetSubResult(g)
    BY <2>2, SetSubResultPromise
  <2> QED BY <1>4, <2>1, <2>2 DEF Response
<1>5. ASSUME NEW g \in Handlers, Failure(g) PROVE PInv' /\ [Promise!Next]_(Promise!vars)
  <2>1. CASE CompleteUnreachable(g)
    <3>1. UNCHANGED <<engine, output>>
      BY <2>1 DEF CompleteUnreachable, camunda
    <3> QED BY <1>1, <2>1, <3>1, EndAware
  <2>2. CASE StoreFails(g)
    <3>1. UNCHANGED <<engine, output>>
      BY <2>2 DEF StoreFails, camunda
    <3> QED BY <1>1, <2>2, <3>1, StoreFailsPromise
  <2>3. CASE BuildFails(g) \/ CompleteAnswerLost(g)
    BY <1>2, <2>3, BlamePromise, CompleteAnswerLostPromise
  <2> QED BY <1>5, <2>1, <2>2, <2>3 DEF Failure
<1>6. ASSUME NEW g \in Handlers, NEW t \in Tasks, Fetch(g, t)
      PROVE  PInv' /\ [Promise!Next]_(Promise!vars)
  <2>1. UNCHANGED <<engine, output>>
    BY <1>6 DEF Fetch
  <2> QED BY <1>1, <1>6, <2>1, ArrivalAware
<1>7. ASSUME NEW g \in Handlers, NEW c \in SubTasks, TakeResponse(g, c)
      PROVE  PInv' /\ [Promise!Next]_(Promise!vars)
  BY <1>2, <1>7, TakeResponsePromise
<1>8. ASSUME NEW t \in Tasks, LateComplete(t) \/ HandleIncident(t)
      PROVE  PInv' /\ [Promise!Next]_(Promise!vars)
  BY <1>2, <1>8, LateCompletePromise, HandleIncidentPromise
<1>9. CASE \/ Restart \/ EntryExpires
           \/ \E t \in Tasks : CallTimesOut(t) \/ CacheExpires(t) \/ LockExpires(t) \/ LoseIncident(t)
           \/ \E c \in SubTasks : \/ TryTimesOut(c) \/ DeviceAnswers(c) \/ DeviceFails(c) \/ LoseMessage(c)
           \/ UNCHANGED vars
  BY <1>2, <1>9, OutsidePromise
<1> QED BY <1>3, <1>4, <1>5, <1>6, <1>7, <1>8, <1>9 DEF Next, Step

(* The worker (lib/worker.go, lib/devicegroups) keeps its promise to the engine, the devices and   *)
(* the platform, for any groups, schedulers, goroutines, redeliveries, restarts and failures.      *)
THEOREM KeepsPromise == Safety => ImplementsTaskPromise
<1>1. Init => PInv /\ Promise!Init
  BY PromiseInit
<1>2. IInv /\ OInv /\ OInv' /\ AInv /\ PInv /\ [Next]_vars => PInv' /\ [Promise!Next]_(Promise!vars)
  BY PromiseNext
<1>3. Safety => []AInv
  <2>1. IInv /\ AInv /\ [Next]_vars => AInv'
    BY AcceptedNext
  <2> QED BY <2>1, AcceptedInit, Invariance, PTL DEF Safety
<1> QED BY <1>1, <1>2, <1>3, Invariance, OrderInvariance, PTL
    DEF Safety, ImplementsTaskPromise, Promise!Spec
=============================================================================
