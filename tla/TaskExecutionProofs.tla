------------------------- MODULE TaskExecutionProofs -------------------------
(***************************************************************************)
(* TaskExecution for any groups, goroutines, retries and numbers of        *)
(* failures: the types of the state, that a pessimistic task is completed  *)
(* only with the answers of its devices, and that the worker gives up on a *)
(* sub task only after all its retries.                                    *)
(*                                                                         *)
(* The argument: what a goroutine remembers is bounded by two histories    *)
(* that only grow, the devices that answered and the number of tries a     *)
(* goroutine committed to.  Good says so of the local state of a goroutine *)
(* and survives every growth of the histories (GoodMonotone), so a step    *)
(* needs an argument only for the goroutine that takes it.                 *)
(***************************************************************************)
EXTENDS TaskExecution, TLAPS

\* Spent, as a function of the histories
SpentIn(c, ans, att) == c \in ans \/ (Limit # -1 /\ att[c] > Limit)

\* fields that the program counter promises
Placed(s) ==
  /\ s.pc \notin {"idle", "send", "setResult"} /\ ~(s.pc = "getMeta" /\ s.role = "result")
       => s.task \in Tasks
  /\ s.pc = "setResult" => s.role = "result"
  /\ s.pc \in {"execute", "save"} => s.role # "result"
  /\ s.pc \in {"setResult", "getMeta"} /\ s.role = "result" => s.sub \in SubTasks
  /\ s.pc \in {"clear", "deleteMeta", "deleteResult"} => s.next # "none"
  /\ s.pc \in {"getResults", "saveChildren", "annotate"} => s.todo \subseteq SubTasks
  /\ s.role = "result" => s.seen = 0

\* a child is a result, missing, or not looked at yet
Scanned(s) ==
  /\ s.got \subseteq Children(s.task)
  /\ s.pc = "getResults" => s.todo \subseteq Children(s.task)
  /\ s.pc = "getResults" => Children(s.task) \subseteq s.got \cup s.missing \cup s.todo
  /\ s.pc \in {"saveMeta", "saveChildren", "annotate", "setRetry"}
       => Children(s.task) \subseteq s.got \cup s.missing
  /\ s.pc \in {"clear", "deleteMeta", "deleteResult"} /\ s.next = "setRetry"
       => Children(s.task) \subseteq s.got

\* what a goroutine read is no more than what happened
Grounded(s, ans, att) ==
  /\ s.got \subseteq ans
  /\ \A c \in SubTasks : s.tries[c] <= att[c]
  /\ \A c \in Children(s.task) : c \in ans \/ s.seen <= att[c]

\* a goroutine that ends a task leaves out spent sub tasks only
Ending(s, ans, att) ==
  s.pc \in {"clear", "deleteMeta", "deleteResult", "noResults"} \/ (s.pc = "complete" /\ ~Optimistic)
    => \A c \in Children(s.task) \ s.got : SpentIn(c, ans, att)

Good(s, ans, att) ==
  s \in HandlerState /\ Placed(s) /\ Scanned(s) /\ Grounded(s, ans, att) /\ Ending(s, ans, att)

Stored ==
  /\ results \subseteq answered
  /\ \A c \in SubTasks : tries[c] <= attempted[c]
  /\ \A c \in SubTasks : c \in answered \/ retries[Parent[c]] <= attempted[c]

\* what the engine may still accept is as complete as what it has accepted
LateIsComplete ==
  ~Optimistic => \A t \in Tasks, o \in SUBSET SubTasks : <<t, o>> \in late =>
    /\ o \subseteq answered \cap Children(t)
    /\ \A c \in Children(t) \ o : Spent(c)

IInv ==
  /\ TypeOK
  /\ \A g \in Handlers : Good(h[g], answered, attempted)
  /\ Stored
  /\ CompletionIsComplete
  /\ LateIsComplete
  /\ GivesUpAfterRetries

-----------------------------------------------------------------------------
(* Retries are -1 or a natural number, whatever the strategy. *)
LEMMA LimitType == Limit \in Int
BY ConfigAssumption DEF Limit

(* A sub task that is spent stays spent. *)
LEMMA SpentStays ==
  ASSUME NEW c \in SubTasks, NEW ans, NEW ans2,
         NEW att \in [SubTasks -> Nat], NEW att2 \in [SubTasks -> Nat],
         SpentIn(c, ans, att), ans \subseteq ans2, \A d \in SubTasks : att[d] <= att2[d]
  PROVE  SpentIn(c, ans2, att2)
BY LimitType DEF SpentIn

(* A goroutine without a task has no children to account for. *)
LEMMA NoChildren == Children(None) = {}
BY GroupAssumption DEF Children, Ids

(* A goroutine that is idle or only has messages left to send is good. *)
LEMMA GoodSending ==
  ASSUME NEW S \in SUBSET SubTasks, NEW ans, NEW att \in [SubTasks -> Nat]
  PROVE  Good(Idle, ans, att) /\ Good(Sending(S), ans, att)
<1>1. Good(Idle, ans, att)
  BY NoChildren DEF Idle, Good, HandlerState, PCs, Placed, Scanned, Grounded, Ending
<1>2. Good([Idle EXCEPT !.pc = "send", !.rest = S], ans, att)
  <2> PICK s : s = [Idle EXCEPT !.pc = "send", !.rest = S]
    OBVIOUS
  <2>1. s \in HandlerState
    BY DEF Idle, HandlerState, PCs
  <2>2. Placed(s) /\ Scanned(s) /\ Grounded(s, ans, att) /\ Ending(s, ans, att)
    BY NoChildren DEF Idle, Placed, Scanned, Grounded, Ending
  <2> QED BY <2>1, <2>2 DEF Good
<1> QED BY <1>1, <1>2 DEF Sending

(* Growing histories keep a goroutine good. *)
LEMMA GoodMonotone ==
  ASSUME NEW s, NEW ans, NEW ans2,
         NEW att \in [SubTasks -> Nat], NEW att2 \in [SubTasks -> Nat],
         Good(s, ans, att), ans \subseteq ans2, \A c \in SubTasks : att[c] <= att2[c]
  PROVE  Good(s, ans2, att2)
<1>1. s \in HandlerState /\ Placed(s) /\ Scanned(s)
  BY DEF Good
<1>2. Grounded(s, ans2, att2)
  <2>1. s.tries \in [SubTasks -> Nat] /\ s.seen \in Nat
    BY <1>1 DEF HandlerState
  <2> QED BY <2>1 DEF Good, Grounded, Children
<1>3. Ending(s, ans2, att2)
  BY SpentStays DEF Good, Ending, Children
<1> QED BY <1>1, <1>2, <1>3 DEF Good

(* A step of one goroutine to a good state leaves all of them good. *)
LEMMA OthersStayGood ==
  ASSUME IInv, NEW g \in Handlers, NEW s,
         Good(s, answered', attempted'), h' = [h EXCEPT ![g] = s],
         answered \subseteq answered', attempted' \in [SubTasks -> Nat],
         \A c \in SubTasks : attempted[c] <= attempted'[c]
  PROVE  /\ h' \in [Handlers -> HandlerState]
         /\ \A k \in Handlers : Good(h'[k], answered', attempted')
<1>1. h \in [Handlers -> HandlerState] /\ attempted \in [SubTasks -> Nat]
  BY DEF IInv, TypeOK
<1>2. s \in HandlerState
  BY DEF Good
<1>3. \A k \in Handlers : Good(h[k], answered', attempted')
  BY <1>1, GoodMonotone DEF IInv
<1> QED BY <1>1, <1>2, <1>3

(* The same for a step that changes nothing but its goroutine. *)
LEMMA LocalStep ==
  ASSUME IInv, NEW g \in Handlers, NEW s, Good(s, answered, attempted), Local(g, s)
  PROVE  IInv'
<1>1. /\ h' = [h EXCEPT ![g] = s]
      /\ answered' = answered /\ attempted' = attempted
      /\ UNCHANGED <<store, camunda, channels, cache, history, faults>>
  BY DEF Local, Become, history
<1>2. attempted \in [SubTasks -> Nat]
  BY DEF IInv, TypeOK
<1>3. Good(s, answered', attempted') /\ \A c \in SubTasks : attempted[c] <= attempted'[c]
  BY <1>1, <1>2
<1>4. h' \in [Handlers -> HandlerState] /\ \A k \in Handlers : Good(h'[k], answered', attempted')
  BY <1>1, <1>2, <1>3, OthersStayGood
<1>5. TypeOK'
  BY <1>1, <1>4 DEF IInv, TypeOK, store, camunda, channels, history
<1>6. Stored' /\ CompletionIsComplete' /\ LateIsComplete' /\ GivesUpAfterRetries'
  BY <1>1 DEF IInv, Stored, CompletionIsComplete, LateIsComplete, GivesUpAfterRetries, Spent, store, camunda, history
<1> QED BY <1>4, <1>5, <1>6 DEF IInv

-----------------------------------------------------------------------------
(* What is left of a goroutine that has finished a task or a response. *)
LEMMA GoodResume ==
  ASSUME IInv, NEW g \in Handlers
  PROVE  /\ Good(Resume(g), answered, attempted)
         /\ Good(Idle, answered, attempted)
         /\ Good(AfterComplete(g), answered, attempted)
<1>1. h[g].rest \in SUBSET SubTasks /\ h[g].missing \in SUBSET SubTasks
  BY DEF IInv, TypeOK, HandlerState
<1>2. attempted \in [SubTasks -> Nat]
  BY DEF IInv, TypeOK
<1> QED BY <1>1, <1>2, GoodSending DEF Resume, AfterComplete

(* The initial states satisfy the invariant. *)
LEMMA InitInv == Init => IInv
<1> SUFFICES ASSUME Init PROVE IInv
  OBVIOUS
<1>1. attempted \in [SubTasks -> Nat] /\ \A g \in Handlers : Good(h[g], answered, attempted)
  BY GoodSending DEF Init
<1>2. h \in [Handlers -> HandlerState]
  BY <1>1 DEF Init, Good
<1>3. TypeOK
  BY <1>1, <1>2, ConfigAssumption DEF Init, TypeOK
<1>4. Stored /\ CompletionIsComplete /\ LateIsComplete /\ GivesUpAfterRetries
  BY GroupAssumption DEF Init, Stored, CompletionIsComplete, LateIsComplete, GivesUpAfterRetries
<1> QED BY <1>1, <1>3, <1>4 DEF IInv

-----------------------------------------------------------------------------
(* The steps that change nothing but their goroutine. *)

LEMMA RestInv ==
  ASSUME IInv, NEW g \in Handlers,
         \/ IgnoreTask(g) \/ NothingToSend(g) \/ CompleteCached(g) \/ OrphanResponse(g)
  PROVE  IInv'
<1>1. Local(g, Resume(g)) \/ Local(g, AfterComplete(g))
  BY DEF IgnoreTask, NothingToSend, CompleteCached, OrphanResponse
<1> QED BY <1>1, GoodResume, LocalStep

LEMMA AcceptTaskInv ==
  ASSUME IInv, NEW g \in Handlers, AcceptTask(g)
  PROVE  IInv'
<1> PICK s : s = [h[g] EXCEPT !.pc = IF Scheduler = "parallel" THEN "getMeta" ELSE "save"]
  OBVIOUS
<1>1. Good(h[g], answered, attempted)
  BY DEF IInv
<1>2. s \in HandlerState /\ Placed(s)
  BY <1>1 DEF AcceptTask, At, Good, HandlerState, PCs, Placed
<1> QED BY <1>1, <1>2, LocalStep DEF AcceptTask, Good, HandlerState, Scanned, Grounded, Ending

LEMMA FoundMetaInv ==
  ASSUME IInv, NEW g \in Handlers, FoundMeta(g)
  PROVE  IInv'
<1> PICK t : t = IF h[g].role = "result" THEN Parent[h[g].sub] ELSE h[g].task
  OBVIOUS
<1> PICK s : s = [h[g] EXCEPT !.pc = "getResults", !.task = t, !.todo = Children(t),
                              !.got = {}, !.missing = {}]
  OBVIOUS
<1>1. Good(h[g], answered, attempted) /\ attempted \in [SubTasks -> Nat]
  BY DEF IInv, TypeOK
<1>2. t \in Tasks /\ (h[g].role # "result" => t = h[g].task)
  BY <1>1, GroupAssumption DEF FoundMeta, At, Good, Placed
<1>3. Children(t) \subseteq SubTasks /\ Children(t) \subseteq Ids
  BY DEF Children, Ids
<1>4. s \in HandlerState
  BY <1>1, <1>2, <1>3 DEF Good, HandlerState, PCs
<1>5. Placed(s) /\ Scanned(s)
  BY <1>1, <1>2, <1>3 DEF Good, HandlerState, Placed, Scanned
<1>6. Grounded(s, answered, attempted) /\ Ending(s, answered, attempted)
  BY <1>1, <1>2, <1>3 DEF Good, HandlerState, Placed, Grounded, Ending
<1> QED BY <1>4, <1>5, <1>6, LocalStep DEF FoundMeta, Good

LEMMA SplitTaskInv ==
  ASSUME IInv, NEW g \in Handlers, SplitTask(g)
  PROVE  IInv'
<1> PICK t : t = h[g].task
  OBVIOUS
<1> PICK s : s = [h[g] EXCEPT !.pc = "saveMeta", !.got = {}, !.missing = Children(t)]
  OBVIOUS
<1>1. Good(h[g], answered, attempted)
  BY DEF IInv
<1>2. Children(t) \subseteq SubTasks
  BY DEF Children
<1>3. s \in HandlerState /\ Placed(s) /\ Scanned(s)
  BY <1>1, <1>2 DEF SplitTask, At, Good, HandlerState, PCs, Placed, Scanned
<1>4. Grounded(s, answered, attempted) /\ Ending(s, answered, attempted)
  BY <1>1 DEF Good, HandlerState, Grounded, Ending
<1> QED BY <1>3, <1>4, LocalStep DEF SplitTask, Good

LEMMA GetResultInv ==
  ASSUME IInv, NEW g \in Handlers, GetResult(g)
  PROVE  IInv'
<1> PICK c \in h[g].todo :
      IF c \in results
      THEN Local(g, [h[g] EXCEPT !.todo = @ \ {c}, !.got = @ \cup {c}])
      ELSE Local(g, [h[g] EXCEPT !.todo = @ \ {c}, !.missing = @ \cup {c}])
  BY DEF GetResult
<1>1. /\ Good(h[g], answered, attempted) /\ h[g].pc = "getResults"
      /\ results \subseteq answered
  BY DEF IInv, Stored, GetResult, At
<1>2. c \in SubTasks
  BY <1>1 DEF Good, Placed
<1>3. CASE c \in results /\ c \in Children(h[g].task)
  <2> PICK s : s = [h[g] EXCEPT !.todo = @ \ {c}, !.got = @ \cup {c}]
    OBVIOUS
  <2>1. s \in HandlerState /\ Placed(s)
    BY <1>1, <1>2 DEF Good, HandlerState, Placed
  <2>2. Scanned(s)
    BY <1>1, <1>2, <1>3 DEF Good, HandlerState, Scanned
  <2>3. Grounded(s, answered, attempted) /\ Ending(s, answered, attempted)
    BY <1>1, <1>3 DEF Good, HandlerState, Grounded, Ending
  <2> QED BY <2>1, <2>2, <2>3, <1>3, LocalStep DEF Good
<1>4. CASE c \notin results
  <2> PICK s : s = [h[g] EXCEPT !.todo = @ \ {c}, !.missing = @ \cup {c}]
    OBVIOUS
  <2>1. s \in HandlerState /\ Placed(s)
    BY <1>1, <1>2 DEF Good, HandlerState, Placed
  <2>2. Scanned(s)
    BY <1>1, <1>2 DEF Good, HandlerState, Scanned
  <2>3. Grounded(s, answered, attempted) /\ Ending(s, answered, attempted)
    BY <1>1 DEF Good, HandlerState, Grounded, Ending
  <2> QED BY <2>1, <2>2, <2>3, <1>4, LocalStep DEF Good
<1>5. c \in Children(h[g].task)
  BY <1>1 DEF Good, Placed, Scanned
<1> QED BY <1>3, <1>4, <1>5

LEMMA StartAnnotateInv ==
  ASSUME IInv, NEW g \in Handlers, StartAnnotate(g)
  PROVE  IInv'
<1> PICK s : s = [h[g] EXCEPT !.pc = "annotate", !.todo = h[g].missing]
  OBVIOUS
<1>1. Good(h[g], answered, attempted)
  BY DEF IInv
<1>2. /\ h[g].pc \in {"getResults", "saveChildren"} /\ h[g].todo = {}
      /\ h[g].missing \in SUBSET SubTasks
  BY <1>1 DEF StartAnnotate, RequestsBuilt, At, Good, HandlerState
<1>3. s \in HandlerState /\ Placed(s)
  BY <1>1, <1>2 DEF Good, HandlerState, PCs, Placed, Ids
<1>4. Scanned(s)
  BY <1>1, <1>2 DEF Good, HandlerState, Scanned
<1>5. Grounded(s, answered, attempted) /\ Ending(s, answered, attempted)
  BY <1>1 DEF Good, HandlerState, Grounded, Ending
<1> QED BY <1>3, <1>4, <1>5, LocalStep DEF StartAnnotate, Good

LEMMA AnnotateInv ==
  ASSUME IInv, NEW g \in Handlers, AnnotateSubTaskState(g)
  PROVE  IInv'
<1> PICK c \in h[g].todo :
      Local(g, [h[g] EXCEPT !.todo = @ \ {c}, !.tries[c] = tries[c],
                            !.fresh = IF c \in running THEN @ \cup {c} ELSE @])
  BY DEF AnnotateSubTaskState
<1> PICK s : s = [h[g] EXCEPT !.todo = @ \ {c}, !.tries[c] = tries[c],
                              !.fresh = IF c \in running THEN @ \cup {c} ELSE @]
  OBVIOUS
<1>1. /\ Good(h[g], answered, attempted) /\ h[g].pc = "annotate"
      /\ tries \in [SubTasks -> Nat] /\ attempted \in [SubTasks -> Nat]
      /\ \A d \in SubTasks : tries[d] <= attempted[d]
  BY DEF IInv, TypeOK, Stored, AnnotateSubTaskState, At
<1>2. c \in SubTasks
  BY <1>1 DEF Good, Placed
<1>3. s \in HandlerState /\ Placed(s) /\ Scanned(s)
  BY <1>1, <1>2 DEF Good, HandlerState, Placed, Scanned
<1>4. Grounded(s, answered, attempted) /\ Ending(s, answered, attempted)
  BY <1>1, <1>2 DEF Good, HandlerState, Grounded, Ending
<1> QED BY <1>3, <1>4, LocalStep DEF Good

LEMMA ExhaustedInv ==
  ASSUME IInv, NEW g \in Handlers, Exhausted(g)
  PROVE  IInv'
<1> PICK s : s = [h[g] EXCEPT !.pc = "clear",
                              !.next = IF h[g].got = {} THEN "noResults" ELSE "complete"]
  OBVIOUS
<1>1. Good(h[g], answered, attempted) /\ h[g].pc = "annotate" /\ attempted \in [SubTasks -> Nat]
  BY DEF IInv, TypeOK, Exhausted, At
<1>2. \A c \in h[g].missing : Limit # -1 /\ Limit < h[g].tries[c]
  <2> SUFFICES ASSUME NEW c \in h[g].missing PROVE Limit # -1 /\ Limit < h[g].tries[c]
    OBVIOUS
  <2>1. ~MayTry(g, c) /\ c \in SubTasks
    BY <1>1 DEF Exhausted, FilterRetries, Good, HandlerState
  <2>2. h[g].tries[c] \in Nat
    BY <1>1, <2>1 DEF Good, HandlerState
  <2> QED BY <2>1, <2>2, LimitType DEF MayTry
<1>3. s \in HandlerState /\ Placed(s) /\ Scanned(s)
  BY <1>1 DEF Good, HandlerState, PCs, Placed, Scanned
<1>4. Grounded(s, answered, attempted)
  BY <1>1 DEF Good, HandlerState, Grounded
<1>5. Ending(s, answered, attempted)
  \* the number of tries that was read is no more than the number of tries
  <2>1. \A c \in h[g].missing : SpentIn(c, answered, attempted)
    <3> SUFFICES ASSUME NEW c \in h[g].missing PROVE SpentIn(c, answered, attempted)
      OBVIOUS
    <3>1. c \in SubTasks /\ h[g].tries[c] \in Nat /\ h[g].tries[c] <= attempted[c]
      BY <1>1 DEF Good, HandlerState, Grounded
    <3> QED BY <1>1, <1>2, <3>1, LimitType DEF SpentIn
  <2>2. s.got = h[g].got /\ s.task = h[g].task
    BY <1>1 DEF Good, HandlerState
  <2> QED BY <1>1, <2>1, <2>2 DEF Good, Scanned, Ending
<1> QED BY <1>3, <1>4, <1>5, LocalStep DEF Exhausted, Good

LEMMA ScheduleParallelInv ==
  ASSUME IInv, NEW g \in Handlers, ScheduleParallel(g)
  PROVE  IInv'
<1> PICK p \in {"clear", "setRetry"} :
      p = IF h[g].missing = {} \/ NoMoreRetries(g) THEN "clear" ELSE "setRetry"
  OBVIOUS
<1> PICK n \in {"setRetry", "noResults", "complete"} :
      n = CASE ~NoMoreRetries(g) -> "setRetry"
            [] NoMoreRetries(g) /\ h[g].got = {} -> "noResults"
            [] OTHER -> "complete"
  OBVIOUS
<1> PICK s : s = [h[g] EXCEPT !.pc = p, !.next = n]
  OBVIOUS
<1>1. Good(h[g], answered, attempted) /\ attempted \in [SubTasks -> Nat]
  BY DEF IInv, TypeOK
<1>2. h[g].pc \in {"getResults", "saveChildren"} /\ h[g].todo = {}
  BY DEF ScheduleParallel, RequestsBuilt, At
<1>3. s \in HandlerState /\ Placed(s)
  BY <1>1, <1>2 DEF Good, HandlerState, PCs, Placed
<1>4. Scanned(s)
  <2>1. Children(h[g].task) \subseteq h[g].got \cup h[g].missing
    BY <1>1, <1>2 DEF Good, Scanned
  <2>2. p = "clear" /\ n = "setRetry" => h[g].missing = {}
    OBVIOUS
  <2> QED BY <1>1, <2>1, <2>2 DEF Good, HandlerState, Scanned
<1>5. Grounded(s, answered, attempted)
  BY <1>1 DEF Good, HandlerState, Grounded
<1>6. Ending(s, answered, attempted)
  <2>1. CASE NoMoreRetries(g)
    \* the engine counted more executions than retries, each of which tried what was missing
    <3>1. Limit # -1 /\ Limit < h[g].seen /\ h[g].seen \in Nat
      BY <1>1, <2>1 DEF NoMoreRetries, Good, HandlerState
    <3>2. \A c \in Children(h[g].task) : SpentIn(c, answered, attempted)
      BY <1>1, <3>1, LimitType DEF Good, Grounded, SpentIn, Children
    <3> QED BY <1>1, <3>2 DEF Good, HandlerState, Ending
  <2>2. CASE ~NoMoreRetries(g)
    <3>1. p = "clear" => Children(h[g].task) \subseteq h[g].got
      BY <1>1, <1>2, <2>2 DEF Good, Scanned
    <3> QED BY <1>1, <3>1 DEF Good, HandlerState, Ending
  <2> QED BY <2>1, <2>2
<1> QED BY <1>3, <1>4, <1>5, <1>6, LocalStep DEF ScheduleParallel, Good

LEMMA ClearTaskDataInv ==
  ASSUME IInv, NEW g \in Handlers, ClearTaskData(g)
  PROVE  IInv'
<1> PICK t : t = h[g].task
  OBVIOUS
<1>1. Good(h[g], answered, attempted) /\ h[g].pc = "clear"
  BY DEF IInv, ClearTaskData, At
<1>2. t \in Tasks /\ h[g].next \in {"setRetry", "noResults", "complete"}
  BY <1>1 DEF Good, HandlerState, Placed
<1>3. CASE t \in meta
  <2> PICK s : s = [h[g] EXCEPT !.pc = "deleteMeta", !.todo = Children(t) \cup {t}]
    OBVIOUS
  <2>1. Children(t) \cup {t} \subseteq Ids
    BY <1>2 DEF Children, Ids
  <2>2. s \in HandlerState /\ Placed(s) /\ Scanned(s)
    BY <1>1, <1>2, <2>1 DEF Good, HandlerState, PCs, Placed, Scanned
  <2>3. Grounded(s, answered, attempted) /\ Ending(s, answered, attempted)
    BY <1>1 DEF Good, HandlerState, Grounded, Ending
  <2> QED BY <1>3, <2>2, <2>3, LocalStep DEF ClearTaskData, Good
<1>4. CASE t \notin meta
  <2> PICK s : s = [h[g] EXCEPT !.pc = h[g].next]
    OBVIOUS
  <2>1. s \in HandlerState /\ Placed(s) /\ Scanned(s)
    BY <1>1, <1>2 DEF Good, HandlerState, PCs, Placed, Scanned
  <2>2. Grounded(s, answered, attempted) /\ Ending(s, answered, attempted)
    BY <1>1, <1>2 DEF Good, HandlerState, Grounded, Ending
  <2> QED BY <1>4, <2>1, <2>2, LocalStep DEF ClearTaskData, Good
<1> QED BY <1>3, <1>4

LEMMA AskLastValueInv ==
  ASSUME IInv, NEW g \in Handlers, AskLastValue(g)
  PROVE  IInv'
<1> PICK c \in SubTasks :
      \/ Local(g, [Idle EXCEPT !.pc = "setResult", !.role = "result", !.sub = c,
                               !.rest = h[g].rest \ {c}])
      \/ Local(g, Sending(h[g].rest \ {c})) \/ Local(g, Idle)
  BY DEF AskLastValue, IInv, TypeOK, HandlerState
<1> PICK R \in SUBSET SubTasks : R = h[g].rest \ {c}
  BY DEF IInv, TypeOK, HandlerState
<1> PICK s : s = [Idle EXCEPT !.pc = "setResult", !.role = "result", !.sub = c, !.rest = R]
  OBVIOUS
<1>1. attempted \in [SubTasks -> Nat]
  BY DEF IInv, TypeOK
<1>2. s \in HandlerState /\ Placed(s)
  BY DEF Idle, HandlerState, PCs, Placed
<1>3. Scanned(s) /\ Grounded(s, answered, attempted) /\ Ending(s, answered, attempted)
  BY <1>1, NoChildren DEF Idle, Scanned, Grounded, Ending
<1>4. Good(s, answered, attempted) /\ Good(Sending(R), answered, attempted)
  BY <1>1, <1>2, <1>3, GoodSending DEF Good
<1>5. Good(Idle, answered, attempted)
  BY <1>1, GoodSending
<1> QED BY <1>4, <1>5, LocalStep

LEMMA FinishGroupInv ==
  ASSUME IInv, NEW g \in Handlers, FinishGroup(g)
  PROVE  IInv'
<1> PICK s : s = [h[g] EXCEPT !.pc = "clear", !.next = "complete"]
  OBVIOUS
<1>1. /\ Good(h[g], answered, attempted)
      /\ h[g].pc = "getResults" /\ h[g].role = "result" /\ h[g].todo = {} /\ h[g].missing = {}
  BY DEF IInv, FinishGroup, At
<1>2. Children(h[g].task) \subseteq h[g].got
  BY <1>1 DEF Good, Scanned
<1>3. s \in HandlerState
  BY <1>1 DEF Good, HandlerState, PCs
<1>4. Placed(s) /\ Scanned(s)
  BY <1>1 DEF Good, HandlerState, Placed, Scanned
<1>5. Grounded(s, answered, attempted) /\ Ending(s, answered, attempted)
  BY <1>1, <1>2 DEF Good, HandlerState, Grounded, Ending
<1> QED BY <1>3, <1>4, <1>5, LocalStep DEF FinishGroup, Good

LEMMA ContinueGroupInv ==
  ASSUME IInv, NEW g \in Handlers, ContinueGroup(g)
  PROVE  IInv'
<1> PICK s : s = [Idle EXCEPT !.pc = "execute", !.role = "response", !.task = h[g].task,
                              !.rest = h[g].rest]
  OBVIOUS
<1>1. Good(h[g], answered, attempted) /\ h[g].pc = "getResults" /\ attempted \in [SubTasks -> Nat]
  BY DEF IInv, TypeOK, ContinueGroup, At
<1>2. h[g].task \in Tasks /\ h[g].rest \in SUBSET SubTasks
  BY <1>1 DEF Good, Placed, HandlerState
<1>3. s \in HandlerState
  BY <1>2 DEF Idle, HandlerState, PCs
<1>4. Placed(s) /\ Scanned(s)
  BY <1>2 DEF Idle, Placed, Scanned
<1>5. Grounded(s, answered, attempted) /\ Ending(s, answered, attempted)
  BY <1>1 DEF Idle, Grounded, Ending, Children
<1>6. Local(g, Resume(g)) \/ Local(g, s)
  BY DEF ContinueGroup
<1> QED BY <1>3, <1>4, <1>5, <1>6, GoodResume, LocalStep DEF Good

-----------------------------------------------------------------------------
(* What the other steps have in common. *)

(* A step that completes no task and gives up on none keeps the promises about both. *)
LEMMA PromisesStay ==
  ASSUME IInv, answered \subseteq answered', attempted' \in [SubTasks -> Nat],
         \A c \in SubTasks : attempted[c] <= attempted'[c],
         \A t \in Tasks : engine'[t] = "completed" => engine[t] = "completed",
         output' = output, late' \subseteq late,
         \A t \in Tasks : <<t, "no results">> \in incidents' => <<t, "no results">> \in incidents
  PROVE  CompletionIsComplete' /\ LateIsComplete' /\ GivesUpAfterRetries'
<1>1. attempted \in [SubTasks -> Nat]
  BY DEF IInv, TypeOK
<1>2. \A c \in SubTasks : Spent(c) => Spent(c)'
  <2> SUFFICES ASSUME NEW c \in SubTasks, Spent(c) PROVE Spent(c)'
    OBVIOUS
  <2>1. SpentIn(c, answered, attempted)
    BY DEF Spent, SpentIn
  <2>2. SpentIn(c, answered', attempted')
    BY <1>1, <2>1, SpentStays
  <2> QED BY <2>2 DEF Spent, SpentIn
<1>3. \A t \in Tasks : Children(t) \subseteq SubTasks
  BY DEF Children
<1>4. CompletionIsComplete'
  BY <1>2, <1>3 DEF IInv, CompletionIsComplete
<1>5. LateIsComplete'
  BY <1>2, <1>3 DEF IInv, LateIsComplete
<1>6. GivesUpAfterRetries'
  BY <1>2, <1>3 DEF IInv, GivesUpAfterRetries
<1> QED BY <1>4, <1>5, <1>6

(* A step of a goroutine on the store. *)
LEMMA StoreStep ==
  ASSUME IInv, NEW g \in Handlers, NEW s, Good(s, answered, attempted), Become(g, s),
         meta' \subseteq Ids, results' \subseteq results, tries' = tries,
         running' \subseteq SubTasks, called' \subseteq Tasks, faults' \in 0..MaxFaults,
         UNCHANGED <<camunda, channels, cache, history>>
  PROVE  IInv'
<1>1. /\ answered' = answered /\ attempted' = attempted /\ incidents' = incidents /\ sent' = sent
      /\ engine' = engine /\ output' = output /\ late' = late /\ retries' = retries
      /\ locked' = locked /\ fetches' = fetches /\ cache' = cache
      /\ commands' = commands /\ answers' = answers /\ reported' = reported
  BY DEF history, camunda, channels
<1>2. /\ attempted' \in [SubTasks -> Nat] /\ answered \subseteq answered'
      /\ \A c \in SubTasks : attempted[c] <= attempted'[c]
  <2>1. attempted \in [SubTasks -> Nat]
    BY DEF IInv, TypeOK
  <2>2. \A c \in SubTasks : attempted[c] <= attempted[c]
    BY <2>1
  <2> QED BY <1>1, <2>1, <2>2
<1>3. h' \in [Handlers -> HandlerState] /\ \A k \in Handlers : Good(h'[k], answered', attempted')
  BY <1>1, <1>2, OthersStayGood DEF Become
<1>4. TypeOK'
  BY <1>1, <1>3 DEF IInv, TypeOK
<1>5. Stored'
  BY <1>1 DEF IInv, Stored
<1>6. CompletionIsComplete' /\ LateIsComplete' /\ GivesUpAfterRetries'
  BY <1>1, <1>2, PromisesStay
<1> QED BY <1>3, <1>4, <1>5, <1>6 DEF IInv

(* A goroutine ends with an incident that is not about missing results. *)
LEMMA ReportStep ==
  ASSUME IInv, NEW g \in Handlers, h[g].task \in Tasks,
         NEW r \in {"incident", "invalid", "request", "store", "complete"},
         Report(h[g].task, r), Become(g, Resume(g)), faults' \in 0..MaxFaults,
         UNCHANGED <<store, camunda, commands, answers, cache, attempted, sent, answered>>
  PROVE  IInv'
<1>1. /\ answered' = answered /\ attempted' = attempted /\ sent' = sent
      /\ engine' = engine /\ output' = output /\ late' = late /\ retries' = retries
      /\ locked' = locked /\ fetches' = fetches /\ cache' = cache
      /\ commands' = commands /\ answers' = answers
      /\ meta' = meta /\ results' = results /\ tries' = tries /\ running' = running /\ called' = called
      /\ incidents' = incidents \cup {<<h[g].task, r>>} /\ reported' = reported \cup {h[g].task}
  BY DEF store, camunda, Report
<1>2. /\ attempted' \in [SubTasks -> Nat] /\ answered \subseteq answered'
      /\ \A c \in SubTasks : attempted[c] <= attempted'[c]
  <2>1. attempted \in [SubTasks -> Nat]
    BY DEF IInv, TypeOK
  <2>2. \A c \in SubTasks : attempted[c] <= attempted[c]
    BY <2>1
  <2> QED BY <1>1, <2>1, <2>2
<1>3. h' \in [Handlers -> HandlerState] /\ \A k \in Handlers : Good(h'[k], answered', attempted')
  BY <1>1, <1>2, GoodResume, OthersStayGood DEF Become
<1>4. TypeOK'
  <2> DEFINE Incidents == Tasks \X Reasons
  <2>1. <<h[g].task, r>> \in Incidents
    BY DEF Reasons
  <2>2. incidents \subseteq Incidents
    BY DEF IInv, TypeOK
  <2>3. incidents' \subseteq Incidents
    <3> HIDE DEF Incidents
    <3> QED BY <1>1, <2>1, <2>2
  <2> QED BY <1>1, <1>3, <2>3 DEF IInv, TypeOK
<1>5. Stored'
  BY <1>1 DEF IInv, Stored
<1>6. \A t \in Tasks : <<t, "no results">> \in incidents' => <<t, "no results">> \in incidents
  BY <1>1
<1>7. CompletionIsComplete' /\ LateIsComplete' /\ GivesUpAfterRetries'
  BY <1>1, <1>2, <1>6, PromisesStay
<1> QED BY <1>3, <1>4, <1>5, <1>7 DEF IInv

(* A step of the environment, which may take entries of the store and messages away. *)
LEMMA OutsideStep ==
  ASSUME IInv, h' = h \/ h' = [g \in Handlers |-> Idle],
         TypeOK', results' \subseteq results, \A c \in SubTasks : tries'[c] <= tries[c],
         retries' = retries, output' = output, late' \subseteq late,
         \A t \in Tasks : engine'[t] = "completed" => engine[t] = "completed",
         UNCHANGED history
  PROVE  IInv'
<1>1. answered' = answered /\ attempted' = attempted /\ incidents' = incidents
  BY DEF history
<1>2. /\ attempted' \in [SubTasks -> Nat] /\ answered \subseteq answered'
      /\ \A c \in SubTasks : attempted[c] <= attempted'[c]
  <2>1. attempted \in [SubTasks -> Nat]
    BY DEF IInv, TypeOK
  <2>2. \A c \in SubTasks : attempted[c] <= attempted[c]
    BY <2>1
  <2> QED BY <1>1, <2>1, <2>2
<1>3. \A k \in Handlers : Good(h'[k], answered', attempted')
  BY <1>1, <1>2, GoodSending DEF IInv
<1>4. Stored'
  <2>1. tries \in [SubTasks -> Nat] /\ tries' \in [SubTasks -> Nat] /\ attempted \in [SubTasks -> Nat]
    BY DEF IInv, TypeOK
  <2>2. \A c \in SubTasks : tries'[c] <= attempted[c]
    BY <2>1 DEF IInv, Stored
  <2> QED BY <1>1, <2>2 DEF IInv, Stored
<1>5. CompletionIsComplete' /\ LateIsComplete' /\ GivesUpAfterRetries'
  BY <1>1, <1>2, PromisesStay
<1> QED BY <1>3, <1>4, <1>5 DEF IInv

(* The bound of the failures. *)
LEMMA FaultType == ASSUME IInv, Fault \/ UNCHANGED faults PROVE faults' \in 0..MaxFaults
<1>1. faults \in 0..MaxFaults /\ MaxFaults \in Nat
  BY ConfigAssumption DEF IInv, TypeOK
<1> QED BY <1>1 DEF Fault

-----------------------------------------------------------------------------
(* The steps of a goroutine that write to the store. *)

LEMMA SaveCallInfoInv ==
  ASSUME IInv, NEW g \in Handlers, SaveCallInfo(g)
  PROVE  IInv'
<1> PICK s : s = [h[g] EXCEPT !.pc = "getMeta"]
  OBVIOUS
<1>1. Good(h[g], answered, attempted) /\ h[g].pc = "save"
  BY DEF IInv, SaveCallInfo, At
<1>2. h[g].task \in Tasks /\ h[g].role # "result"
  BY <1>1 DEF Good, Placed
<1>3. s \in HandlerState
  BY <1>1 DEF Good, HandlerState, PCs
<1>4. Placed(s) /\ Scanned(s)
  BY <1>1, <1>2 DEF Good, HandlerState, Placed, Scanned
<1>5. Grounded(s, answered, attempted) /\ Ending(s, answered, attempted)
  BY <1>1 DEF Good, HandlerState, Grounded, Ending
<1>6. called' \subseteq Tasks
  BY <1>2 DEF SaveCallInfo, IInv, TypeOK
<1> QED BY <1>3, <1>4, <1>5, <1>6, StoreStep, FaultType DEF SaveCallInfo, Good, IInv, TypeOK

LEMMA SaveParentMetaInv ==
  ASSUME IInv, NEW g \in Handlers, SaveParentMeta(g)
  PROVE  IInv'
<1> PICK t : t = h[g].task
  OBVIOUS
<1> PICK s : s = [h[g] EXCEPT !.pc = "saveChildren", !.todo = Children(t)]
  OBVIOUS
<1>1. Good(h[g], answered, attempted) /\ h[g].pc = "saveMeta"
  BY DEF IInv, SaveParentMeta, At
<1>2. t \in Tasks /\ Children(t) \subseteq SubTasks /\ Children(t) \subseteq Ids
  BY <1>1 DEF Good, Placed, Children, Ids
<1>3. s \in HandlerState
  BY <1>1, <1>2 DEF Good, HandlerState, PCs
<1>4. Placed(s) /\ Scanned(s)
  BY <1>1, <1>2 DEF Good, HandlerState, Placed, Scanned
<1>5. Grounded(s, answered, attempted) /\ Ending(s, answered, attempted)
  BY <1>1 DEF Good, HandlerState, Grounded, Ending
<1>6. meta' \subseteq Ids
  BY <1>2 DEF SaveParentMeta, Ids, IInv, TypeOK
<1> QED BY <1>3, <1>4, <1>5, <1>6, StoreStep, FaultType DEF SaveParentMeta, Good, IInv, TypeOK

LEMMA SaveChildMetaInv ==
  ASSUME IInv, NEW g \in Handlers, SaveChildMeta(g)
  PROVE  IInv'
<1> PICK c \in h[g].todo : meta' = meta \cup {c} /\ Become(g, [h[g] EXCEPT !.todo = @ \ {c}])
  BY DEF SaveChildMeta
<1> PICK s : s = [h[g] EXCEPT !.todo = @ \ {c}]
  OBVIOUS
<1>1. Good(h[g], answered, attempted) /\ h[g].pc = "saveChildren"
  BY DEF IInv, SaveChildMeta, At
<1>2. h[g].todo \subseteq SubTasks
  BY <1>1 DEF Good, Placed
<1>3. s \in HandlerState
  BY <1>1 DEF Good, HandlerState
<1>4. Placed(s) /\ Scanned(s)
  BY <1>1, <1>2 DEF Good, HandlerState, Placed, Scanned
<1>5. Grounded(s, answered, attempted) /\ Ending(s, answered, attempted)
  BY <1>1 DEF Good, HandlerState, Grounded, Ending
<1>6. meta' \subseteq Ids
  BY <1>2 DEF Ids, IInv, TypeOK
<1> QED BY <1>3, <1>4, <1>5, <1>6, StoreStep, FaultType DEF SaveChildMeta, Good, IInv, TypeOK

(* A goroutine that clears the data of its task and has the metadata of an entry behind it. *)
LEMMA GoodDeleteResult ==
  ASSUME IInv, NEW g \in Handlers, h[g].pc = "deleteMeta"
  PROVE  Good([h[g] EXCEPT !.pc = "deleteResult"], answered, attempted)
<1> PICK s : s = [h[g] EXCEPT !.pc = "deleteResult"]
  OBVIOUS
<1>1. Good(h[g], answered, attempted)
  BY DEF IInv
<1>2. s \in HandlerState
  BY <1>1 DEF Good, HandlerState, PCs
<1>3. Placed(s) /\ Scanned(s)
  BY <1>1 DEF Good, HandlerState, Placed, Scanned
<1>4. Grounded(s, answered, attempted) /\ Ending(s, answered, attempted)
  BY <1>1 DEF Good, HandlerState, Grounded, Ending
<1> QED BY <1>2, <1>3, <1>4 DEF Good

(* A goroutine that goes on to the next entry, or to what follows the clear. *)
LEMMA GoodNextEntry ==
  ASSUME IInv, NEW g \in Handlers, h[g].pc = "deleteResult", NEW x
  PROVE  Good([h[g] EXCEPT !.todo = @ \ {x},
                           !.pc = IF h[g].todo = {x} THEN h[g].next ELSE "deleteMeta"],
              answered, attempted)
<1>1. Good(h[g], answered, attempted)
  BY DEF IInv
<1>2. h[g].next \in {"setRetry", "noResults", "complete"} /\ h[g].task \in Tasks
  BY <1>1 DEF Good, HandlerState, Placed
<1> PICK p \in {"setRetry", "noResults", "complete", "deleteMeta"} :
      p = IF h[g].todo = {x} THEN h[g].next ELSE "deleteMeta"
  BY <1>2
<1> PICK s : s = [h[g] EXCEPT !.todo = @ \ {x}, !.pc = p]
  OBVIOUS
<1>3. s \in HandlerState
  BY <1>1 DEF Good, HandlerState, PCs
<1>4. Placed(s)
  BY <1>1, <1>2 DEF Good, HandlerState, Placed
<1>5. Scanned(s)
  BY <1>1, <1>2 DEF Good, HandlerState, Scanned
<1>6. Grounded(s, answered, attempted) /\ Ending(s, answered, attempted)
  BY <1>1 DEF Good, HandlerState, Grounded, Ending
<1> QED BY <1>3, <1>4, <1>5, <1>6 DEF Good

(* A goroutine that has found nothing to clear. *)
LEMMA GoodCleared ==
  ASSUME IInv, NEW g \in Handlers, h[g].pc = "clear"
  PROVE  Good([h[g] EXCEPT !.pc = h[g].next], answered, attempted)
<1>1. Good(h[g], answered, attempted)
  BY DEF IInv
<1> PICK n \in {"setRetry", "noResults", "complete"} : n = h[g].next
  BY <1>1 DEF Good, HandlerState, Placed
<1> PICK s : s = [h[g] EXCEPT !.pc = n]
  OBVIOUS
<1>2. s \in HandlerState
  BY <1>1 DEF Good, HandlerState, PCs
<1>3. Placed(s) /\ Scanned(s)
  BY <1>1 DEF Good, HandlerState, Placed, Scanned
<1>4. Grounded(s, answered, attempted) /\ Ending(s, answered, attempted)
  BY <1>1 DEF Good, HandlerState, Grounded, Ending
<1> QED BY <1>2, <1>3, <1>4 DEF Good

LEMMA DeleteMetaInv ==
  ASSUME IInv, NEW g \in Handlers, DeleteMeta(g)
  PROVE  IInv'
<1>1. Good([h[g] EXCEPT !.pc = "deleteResult"], answered, attempted)
  BY GoodDeleteResult DEF DeleteMeta, At
<1>2. meta' \subseteq Ids
  BY DEF DeleteMeta, IInv, TypeOK
<1> QED BY <1>1, <1>2, StoreStep, FaultType DEF DeleteMeta, IInv, TypeOK

LEMMA DeleteResultInv ==
  ASSUME IInv, NEW g \in Handlers, DeleteResult(g)
  PROVE  IInv'
<1> PICK x : /\ results' = results \ {x} /\ called' = called \ {x}
             /\ Become(g, [h[g] EXCEPT !.todo = @ \ {x},
                                       !.pc = IF h[g].todo = {x} THEN h[g].next ELSE "deleteMeta"])
  BY DEF DeleteResult
<1> PICK s : s = [h[g] EXCEPT !.todo = @ \ {x},
                              !.pc = IF h[g].todo = {x} THEN h[g].next ELSE "deleteMeta"]
  OBVIOUS
<1>1. Good(s, answered, attempted)
  BY GoodNextEntry DEF DeleteResult, At
<1>2. called' \subseteq Tasks
  BY DEF IInv, TypeOK
<1> QED BY <1>1, <1>2, StoreStep, FaultType DEF DeleteResult, IInv, TypeOK

LEMMA CompleteUnreachableInv ==
  ASSUME IInv, NEW g \in Handlers, CompleteUnreachable(g)
  PROVE  IInv'
BY GoodResume, StoreStep, FaultType DEF CompleteUnreachable, store, IInv, TypeOK

-----------------------------------------------------------------------------
(* The steps that end in an incident. *)

LEMMA RejectTaskInv ==
  ASSUME IInv, NEW g \in Handlers, RejectTask(g)
  PROVE  IInv'
<1>1. h[g].task \in Tasks
  BY DEF RejectTask, At, IInv, Good, Placed
<1> PICK r \in Payload[h[g].task] \ {"command"} : Report(h[g].task, r)
  BY DEF RejectTask, Reading
<1>2. r \in {"incident", "invalid"}
  BY <1>1, ConfigAssumption
<1> QED BY <1>1, <1>2, ReportStep, FaultType DEF RejectTask

LEMMA CompleteRejectedInv ==
  ASSUME IInv, NEW g \in Handlers, CompleteRejected(g)
  PROVE  IInv'
<1>1. h[g].task \in Tasks
  BY DEF CompleteRejected, At, IInv, Good, Placed
<1> QED BY <1>1, ReportStep, FaultType DEF CompleteRejected

LEMMA BuildFailsInv ==
  ASSUME IInv, NEW g \in Handlers, BuildFails(g)
  PROVE  IInv'
<1>1. h[g].task \in Tasks
  BY DEF BuildFails, SplitFails, MessageFails, RequestsBuilt, At, IInv, Good, Placed
<1> QED BY <1>1, ReportStep, FaultType DEF BuildFails, SplitFails, MessageFails

LEMMA StoreFailsInv ==
  ASSUME IInv, NEW g \in Handlers, StoreFails(g)
  PROVE  IInv'
<1>1. Good(h[g], answered, attempted) /\ faults' \in 0..MaxFaults
  BY FaultType DEF IInv, StoreFails
<1>2. CASE /\ At(g, "getMeta") \/ At(g, "saveMeta") \/ At(g, "getResults") \/ At(g, "saveChildren")
              \/ At(g, "annotate")
           /\ At(g, "getMeta") => h[g].role # "result"
           /\ Report(h[g].task, "store") /\ Become(g, Resume(g))
  <2>1. h[g].task \in Tasks
    BY <1>1, <1>2 DEF At, Good, Placed
  <2> QED BY <1>1, <1>2, <2>1, ReportStep DEF StoreFails
<1>3. CASE \E s : Good(s, answered, attempted) /\ Become(g, s) /\ UNCHANGED <<incidents, reported>>
  BY <1>1, <1>3, StoreStep DEF StoreFails, store, channels, history, IInv, TypeOK
<1>4. CASE Become(g, Resume(g)) /\ UNCHANGED <<incidents, reported>>
  BY <1>3, <1>4, GoodResume
<1>5. CASE /\ At(g, "save") /\ Become(g, [h[g] EXCEPT !.pc = "getMeta"])
           /\ UNCHANGED <<incidents, reported>>
  <2> PICK s : s = [h[g] EXCEPT !.pc = "getMeta"]
    OBVIOUS
  <2>1. s \in HandlerState /\ Placed(s) /\ Scanned(s)
    BY <1>1, <1>5 DEF At, Good, HandlerState, PCs, Placed, Scanned
  <2>2. Grounded(s, answered, attempted) /\ Ending(s, answered, attempted)
    BY <1>1 DEF Good, HandlerState, Grounded, Ending
  <2> QED BY <1>3, <1>5, <2>1, <2>2 DEF Good
<1>6. CASE /\ At(g, "clear") /\ Become(g, [h[g] EXCEPT !.pc = h[g].next])
           /\ UNCHANGED <<incidents, reported>>
  BY <1>3, <1>6, GoodCleared DEF At
<1>7. CASE /\ At(g, "deleteMeta") /\ Become(g, [h[g] EXCEPT !.pc = "deleteResult"])
           /\ UNCHANGED <<incidents, reported>>
  BY <1>3, <1>7, GoodDeleteResult DEF At
<1>8. CASE /\ At(g, "deleteResult") /\ UNCHANGED <<incidents, reported>>
           /\ \E x : Become(g, [h[g] EXCEPT !.todo = @ \ {x},
                        !.pc = IF h[g].todo = {x} THEN h[g].next ELSE "deleteMeta"])
  BY <1>3, <1>8, GoodNextEntry DEF At
<1> QED BY <1>2, <1>4, <1>5, <1>6, <1>7, <1>8 DEF StoreFails, At

-----------------------------------------------------------------------------
(* The other steps of a goroutine. *)

LEMMA FetchInv ==
  ASSUME IInv, NEW g \in Handlers, NEW t \in Tasks, Fetch(g, t)
  PROVE  IInv'
<1> PICK n \in Nat : n = retries[t]
  BY DEF IInv, TypeOK
<1> PICK s : s = [Idle EXCEPT !.pc = "execute", !.role = "camunda", !.task = t, !.seen = n]
  OBVIOUS
<1>1. attempted \in [SubTasks -> Nat] /\ n \in Nat
  BY DEF IInv, TypeOK
<1>2. s \in HandlerState
  BY <1>1 DEF Idle, HandlerState, PCs
<1>3. Placed(s) /\ Scanned(s)
  BY DEF Idle, Placed, Scanned
<1>4. Grounded(s, answered, attempted)
  \* the engine counts no more executions than there were tries of a sub task without answer
  BY <1>1 DEF Idle, Grounded, Children, IInv, Stored
<1>5. Good(s, answered, attempted)
  BY <1>2, <1>3, <1>4 DEF Good, Ending, Idle
<1>6. /\ meta' = meta /\ results' = results /\ tries' = tries /\ running' = running /\ called' = called
      /\ engine' = engine /\ output' = output /\ late' = late /\ retries' = retries /\ locked' = locked \cup {t}
      /\ commands' = commands /\ answers' = answers /\ reported' = reported /\ cache' = cache
      /\ attempted' = attempted /\ sent' = sent /\ answered' = answered /\ incidents' = incidents
      /\ faults' = faults /\ Become(g, s)
  BY DEF Fetch, store, channels, history
<1>7. fetches' \in [Tasks -> Nat] /\ \A u \in Tasks : fetches'[u] <= MaxFetches[u]
  <2>1. /\ fetches \in [Tasks -> Nat] /\ \A u \in Tasks : fetches[u] <= MaxFetches[u]
        /\ MaxFetches \in [Tasks -> Nat]
    BY ConfigAssumption DEF IInv, TypeOK
  <2> QED BY <2>1 DEF Fetch
<1>8. \A c \in SubTasks : attempted[c] <= attempted[c]
  BY <1>1
<1>9. h' \in [Handlers -> HandlerState] /\ \A k \in Handlers : Good(h'[k], answered', attempted')
  BY <1>1, <1>5, <1>6, <1>8, OthersStayGood DEF Become
<1>10. TypeOK' /\ Stored'
  BY <1>6, <1>7, <1>9 DEF IInv, TypeOK, Stored
<1>11. CompletionIsComplete' /\ LateIsComplete' /\ GivesUpAfterRetries'
  BY <1>1, <1>6, <1>8, PromisesStay
<1> QED BY <1>9, <1>10, <1>11 DEF IInv

LEMMA UpdateSubTaskStateInv ==
  ASSUME IInv, NEW g \in Handlers, UpdateSubTaskState(g)
  PROVE  IInv'
<1> PICK c \in SubTasks :
      /\ tries' = [tries EXCEPT ![c] = h[g].tries[c] + 1]
      /\ running' = running \cup {c}
      /\ attempted' = [attempted EXCEPT ![c] = @ + 1]
      /\ Become(g, Sending({c}))
  BY DEF UpdateSubTaskState
<1>1. /\ meta' = meta /\ results' = results /\ called' = called
      /\ engine' = engine /\ output' = output /\ late' = late /\ retries' = retries /\ locked' = locked
      /\ fetches' = fetches /\ commands' = commands /\ answers' = answers /\ reported' = reported
      /\ cache' = cache /\ sent' = sent /\ answered' = answered /\ incidents' = incidents
      /\ faults' = faults
  BY DEF UpdateSubTaskState, camunda, channels
<1>2. attempted \in [SubTasks -> Nat] /\ tries \in [SubTasks -> Nat] /\ retries \in [Tasks -> Nat]
  BY DEF IInv, TypeOK
<1>3. h[g].tries \in [SubTasks -> Nat] /\ h[g].tries[c] <= attempted[c]
  BY DEF IInv, Good, HandlerState, Grounded
<1>4. attempted' \in [SubTasks -> Nat] /\ \A d \in SubTasks : attempted[d] <= attempted'[d]
  BY <1>2
<1>5. tries' \in [SubTasks -> Nat]
  BY <1>2, <1>3
<1>6. Good(Sending({c}), answered', attempted')
  BY <1>4, GoodSending
<1>7. h' \in [Handlers -> HandlerState] /\ \A k \in Handlers : Good(h'[k], answered', attempted')
  BY <1>1, <1>4, <1>6, OthersStayGood DEF Become
<1>8. TypeOK'
  BY <1>1, <1>4, <1>5, <1>7 DEF IInv, TypeOK
<1>9. Stored'
  \* the count that is written was read before and may be overtaken, but never be too high
  <2>1. \A d \in SubTasks : tries'[d] <= attempted'[d]
    BY <1>2, <1>3 DEF IInv, Stored
  <2>2. \A d \in SubTasks : retries[Parent[d]] \in Nat
    BY <1>2, GroupAssumption
  <2>3. \A d \in SubTasks : d \in answered' \/ retries'[Parent[d]] <= attempted'[d]
    BY <1>1, <1>2, <1>4, <2>2 DEF IInv, Stored
  <2> QED BY <1>1, <2>1, <2>3 DEF IInv, Stored
<1>10. CompletionIsComplete' /\ LateIsComplete' /\ GivesUpAfterRetries'
  BY <1>1, <1>4, PromisesStay
<1> QED BY <1>7, <1>8, <1>9, <1>10 DEF IInv

LEMMA SetRetryInv ==
  ASSUME IInv, NEW g \in Handlers, SetRetry(g)
  PROVE  IInv'
<1> PICK t : t = h[g].task
  OBVIOUS
<1>1. Good(h[g], answered, attempted) /\ h[g].pc = "setRetry"
  BY DEF IInv, SetRetry, At
<1>2. /\ t \in Tasks /\ h[g].seen \in Nat /\ h[g].missing \in SUBSET SubTasks
      /\ Children(t) \subseteq h[g].got \cup h[g].missing /\ h[g].got \subseteq answered
  BY <1>1 DEF Good, HandlerState, Placed, Scanned, Grounded
<1>3. attempted \in [SubTasks -> Nat] /\ tries \in [SubTasks -> Nat] /\ retries \in [Tasks -> Nat]
  BY DEF IInv, TypeOK
<1>4. /\ meta' = meta /\ results' = results /\ tries' = tries /\ running' = running /\ called' = called
      /\ engine' = engine /\ output' = output /\ late' = late /\ locked' = locked
      /\ fetches' = fetches /\ commands' = commands /\ answers' = answers /\ reported' = reported
      /\ cache' = cache /\ sent' = sent /\ answered' = answered /\ incidents' = incidents
      /\ attempted' = [c \in SubTasks |-> IF c \in h[g].missing THEN attempted[c] + 1 ELSE attempted[c]]
      /\ retries' = [retries EXCEPT ![t] = h[g].seen + 1] \/ retries' = retries
      /\ faults' \in 0..MaxFaults
  BY FaultType DEF SetRetry, store, channels
<1>5. attempted' \in [SubTasks -> Nat] /\ \A d \in SubTasks : attempted[d] <= attempted'[d]
  BY <1>3, <1>4
<1>6. retries' \in [Tasks -> Nat]
  BY <1>2, <1>3, <1>4
<1> PICK s : s = IF Optimistic \/ h[g].missing = {} THEN [h[g] EXCEPT !.pc = "complete"]
                 ELSE Sending(h[g].missing)
  OBVIOUS
<1>7. Good(s, answered', attempted')
  <2>1. Good(Sending(h[g].missing), answered', attempted')
    BY <1>2, <1>5, GoodSending
  <2>2. CASE Optimistic \/ h[g].missing = {}
    <3>1. s = [h[g] EXCEPT !.pc = "complete"]
      BY <2>2
    <3>2. s \in HandlerState
      BY <1>1, <3>1 DEF Good, HandlerState, PCs
    <3>3. Placed(s) /\ Scanned(s)
      BY <1>1, <3>1 DEF Good, HandlerState, Placed, Scanned
    <3>4. Grounded(s, answered, attempted) /\ Ending(s, answered, attempted)
      BY <1>1, <1>2, <2>2, <3>1 DEF Good, HandlerState, Grounded, Ending
    <3> QED BY <1>3, <1>4, <1>5, <3>2, <3>3, <3>4, GoodMonotone DEF Good
  <2> QED BY <2>1, <2>2
<1>8. h' \in [Handlers -> HandlerState] /\ \A k \in Handlers : Good(h'[k], answered', attempted')
  BY <1>4, <1>5, <1>7, OthersStayGood DEF SetRetry, Become
<1>9. TypeOK'
  BY <1>4, <1>5, <1>6, <1>8 DEF IInv, TypeOK
<1>10. Stored'
  <2>1. \A d \in SubTasks : tries[d] <= attempted'[d]
    BY <1>3, <1>5 DEF IInv, Stored
  <2>2. ASSUME NEW d \in SubTasks PROVE d \in answered \/ retries'[Parent[d]] <= attempted'[d]
    <3>1. Parent[d] \in Tasks /\ (d \in answered \/ retries[Parent[d]] <= attempted[d])
      BY GroupAssumption DEF IInv, Stored
    <3>2. CASE retries'[Parent[d]] = retries[Parent[d]]
      BY <1>3, <1>5, <3>1, <3>2
    <3>3. CASE Parent[d] = t /\ retries'[Parent[d]] = h[g].seen + 1
      \* a sub task that has not answered is missing, and is tried now
      <4>1. d \in Children(t)
        BY <3>3 DEF Children
      <4>2. d \in answered \/ h[g].seen <= attempted[d]
        BY <1>1, <4>1 DEF Good, Grounded
      <4>3. d \in answered \/ attempted'[d] = attempted[d] + 1
        BY <1>2, <1>4, <4>1
      <4> QED BY <1>2, <1>3, <3>3, <4>2, <4>3
    <3> QED BY <1>3, <1>4, <3>1, <3>2, <3>3
  <2> QED BY <1>4, <2>1, <2>2 DEF IInv, Stored
<1>11. CompletionIsComplete' /\ LateIsComplete' /\ GivesUpAfterRetries'
  BY <1>4, <1>5, PromisesStay
<1> QED BY <1>8, <1>9, <1>10, <1>11 DEF IInv

LEMMA ReportNoResultsInv ==
  ASSUME IInv, NEW g \in Handlers, ReportNoResults(g)
  PROVE  IInv'
<1> PICK t : t = h[g].task
  OBVIOUS
<1>1. Good(h[g], answered, attempted) /\ h[g].pc = "noResults"
  BY DEF IInv, ReportNoResults, At
<1>2. t \in Tasks /\ \A c \in Children(t) \ h[g].got : SpentIn(c, answered, attempted)
  BY <1>1 DEF Good, Placed, Ending
<1>3. \A c \in Children(t) : Spent(c)
  BY <1>1, <1>2 DEF Good, Grounded, Spent, SpentIn
<1>4. attempted \in [SubTasks -> Nat]
  BY DEF IInv, TypeOK
<1>5. /\ meta' = meta /\ results' = results /\ tries' = tries /\ running' = running /\ called' = called
      /\ engine' = engine /\ output' = output /\ late' = late /\ retries' = retries /\ locked' = locked
      /\ fetches' = fetches /\ commands' = commands /\ answers' = answers
      /\ cache' = cache /\ sent' = sent /\ answered' = answered /\ attempted' = attempted
      /\ incidents' = incidents \cup {<<t, "no results">>} /\ reported' = reported \cup {t}
      /\ faults' = faults /\ Become(g, Resume(g))
  BY DEF ReportNoResults, Report, store, camunda
<1>6. \A c \in SubTasks : attempted[c] <= attempted[c]
  BY <1>4
<1>7. h' \in [Handlers -> HandlerState] /\ \A k \in Handlers : Good(h'[k], answered', attempted')
  BY <1>4, <1>5, <1>6, GoodResume, OthersStayGood DEF Become
<1>8. TypeOK'
  <2> DEFINE Incidents == Tasks \X Reasons
  <2>1. <<t, "no results">> \in Incidents
    BY <1>2 DEF Reasons
  <2>2. incidents \subseteq Incidents
    BY DEF IInv, TypeOK
  <2>3. incidents' \subseteq Incidents
    <3> HIDE DEF Incidents
    <3> QED BY <1>5, <2>1, <2>2
  <2> QED BY <1>2, <1>5, <1>7, <2>3 DEF IInv, TypeOK
<1>9. Stored' /\ CompletionIsComplete' /\ LateIsComplete'
  BY <1>5 DEF IInv, Stored, CompletionIsComplete, LateIsComplete, Spent
<1>10. GivesUpAfterRetries'
  BY <1>3, <1>5 DEF IInv, GivesUpAfterRetries, Spent
<1> QED BY <1>7, <1>8, <1>9, <1>10 DEF IInv

(* The engine completes a task with what the goroutine found. *)
LEMMA CompleteStep ==
  ASSUME IInv, NEW g \in Handlers, At(g, "complete"),
         engine' = [engine EXCEPT ![h[g].task] = "completed"],
         output' = [output EXCEPT ![h[g].task] = h[g].got],
         NEW s, Good(s, answered, attempted), Become(g, s),
         cache' \subseteq Tasks, reported' \subseteq Tasks, faults' \in 0..MaxFaults,
         incidents' = incidents \/ incidents' = incidents \cup {<<h[g].task, "complete">>},
         UNCHANGED <<store, locked, retries, late, fetches, commands, answers, attempted, sent, answered>>
  PROVE  IInv'
<1> PICK t : t = h[g].task
  OBVIOUS
<1>1. Good(h[g], answered, attempted) /\ h[g].pc = "complete"
  BY DEF IInv, At
<1>2. /\ t \in Tasks /\ h[g].got \in SUBSET SubTasks
      /\ h[g].got \subseteq Children(t) /\ h[g].got \subseteq answered
      /\ ~Optimistic => \A c \in Children(t) \ h[g].got : SpentIn(c, answered, attempted)
  BY <1>1 DEF Good, HandlerState, Placed, Scanned, Grounded, Ending
<1>3. attempted \in [SubTasks -> Nat]
  BY DEF IInv, TypeOK
<1>4. /\ meta' = meta /\ results' = results /\ tries' = tries /\ running' = running /\ called' = called
      /\ retries' = retries /\ locked' = locked /\ late' = late /\ fetches' = fetches
      /\ commands' = commands /\ answers' = answers
      /\ sent' = sent /\ answered' = answered /\ attempted' = attempted
      /\ engine' = [engine EXCEPT ![t] = "completed"] /\ output' = [output EXCEPT ![t] = h[g].got]
  BY DEF store
<1>5. \A c \in SubTasks : attempted[c] <= attempted[c]
  BY <1>3
<1>6. h' \in [Handlers -> HandlerState] /\ \A k \in Handlers : Good(h'[k], answered', attempted')
  <2>1. h' = [h EXCEPT ![g] = s]
    BY DEF Become
  <2>2. Good(s, answered', attempted')
    BY <1>4
  <2>3. answered \subseteq answered' /\ attempted' \in [SubTasks -> Nat]
    BY <1>3, <1>4
  <2>4. \A c \in SubTasks : attempted[c] <= attempted'[c]
    BY <1>4, <1>5
  <2> QED BY <2>1, <2>2, <2>3, <2>4, OthersStayGood
<1>7. TypeOK'
  <2> DEFINE Incidents == Tasks \X Reasons
  <2>1. <<h[g].task, "complete">> \in Incidents
    BY <1>2 DEF Reasons
  <2>2. incidents \subseteq Incidents
    BY DEF IInv, TypeOK
  <2>3. incidents' \subseteq Incidents
    <3> HIDE DEF Incidents
    <3> QED BY <2>1, <2>2
  <2>4. engine' \in [Tasks -> {"open", "completed", "failed"}] /\ output' \in [Tasks -> SUBSET SubTasks]
    BY <1>2, <1>4 DEF IInv, TypeOK
  <2> QED BY <1>4, <1>6, <2>3, <2>4 DEF IInv, TypeOK
<1>8. Stored'
  BY <1>4 DEF IInv, Stored
<1>9. CompletionIsComplete'
  <2> SUFFICES ASSUME ~Optimistic, NEW u \in Tasks, engine'[u] = "completed"
               PROVE  /\ output'[u] \subseteq answered \cap Children(u)
                      /\ \A c \in Children(u) \ output'[u] : Spent(c)
    BY <1>4 DEF CompletionIsComplete, Spent
  <2>1. engine \in [Tasks -> {"open", "completed", "failed"}] /\ output \in [Tasks -> SUBSET SubTasks]
    BY DEF IInv, TypeOK
  <2>2. CASE u = t
    BY <1>2, <1>4, <2>1, <2>2 DEF Spent, SpentIn
  <2>3. CASE u # t
    BY <1>4, <2>1, <2>3 DEF IInv, CompletionIsComplete
  <2> QED BY <2>2, <2>3
<1>10. LateIsComplete'
  BY <1>4 DEF IInv, LateIsComplete, Spent
<1>11. GivesUpAfterRetries'
  <2>1. \A u \in Tasks : <<u, "no results">> \in incidents' => <<u, "no results">> \in incidents
    <3> SUFFICES ASSUME NEW u \in Tasks, <<u, "no results">> \in incidents'
                 PROVE  <<u, "no results">> \in incidents
      OBVIOUS
    <3>1. <<u, "no results">> # <<h[g].task, "complete">>
      OBVIOUS
    <3> QED BY <3>1
  <2> QED BY <1>4, <2>1 DEF IInv, GivesUpAfterRetries, Spent
<1> QED BY <1>6, <1>7, <1>8, <1>9, <1>10, <1>11 DEF IInv

(* A goroutine gives up on a request that the engine may still accept. *)
LEMMA LateStep ==
  ASSUME IInv, NEW g \in Handlers, At(g, "complete"),
         late' = late \cup {<<h[g].task, h[g].got>>}, UNCHANGED <<engine, output>>,
         Become(g, Resume(g)), reported' \subseteq Tasks, faults' \in 0..MaxFaults,
         incidents' = incidents \/ incidents' = incidents \cup {<<h[g].task, "complete">>},
         UNCHANGED <<store, locked, retries, fetches, commands, answers, cache, attempted, sent, answered>>
  PROVE  IInv'
<1> PICK t : t = h[g].task
  OBVIOUS
<1>1. Good(h[g], answered, attempted) /\ h[g].pc = "complete"
  BY DEF IInv, At
<1>2. /\ t \in Tasks /\ h[g].got \in SUBSET SubTasks
      /\ h[g].got \subseteq Children(t) /\ h[g].got \subseteq answered
      /\ ~Optimistic => \A c \in Children(t) \ h[g].got : SpentIn(c, answered, attempted)
  BY <1>1 DEF Good, HandlerState, Placed, Scanned, Grounded, Ending
<1>3. attempted \in [SubTasks -> Nat]
  BY DEF IInv, TypeOK
<1>4. /\ meta' = meta /\ results' = results /\ tries' = tries /\ running' = running /\ called' = called
      /\ engine' = engine /\ output' = output /\ retries' = retries /\ locked' = locked
      /\ fetches' = fetches /\ commands' = commands /\ answers' = answers /\ cache' = cache
      /\ sent' = sent /\ answered' = answered /\ attempted' = attempted
  BY DEF store
<1>5. \A c \in SubTasks : attempted[c] <= attempted[c]
  BY <1>3
<1>6. h' \in [Handlers -> HandlerState] /\ \A k \in Handlers : Good(h'[k], answered', attempted')
  BY <1>3, <1>4, <1>5, GoodResume, OthersStayGood DEF Become
<1>7. \A u \in Tasks : <<u, "no results">> \in incidents' => <<u, "no results">> \in incidents
  <2> SUFFICES ASSUME NEW u \in Tasks, <<u, "no results">> \in incidents'
               PROVE  <<u, "no results">> \in incidents
    OBVIOUS
  <2>1. <<u, "no results">> # <<h[g].task, "complete">>
    OBVIOUS
  <2> QED BY <2>1
<1>8. TypeOK'
  <2> DEFINE Incidents == Tasks \X Reasons
  <2>1. <<h[g].task, "complete">> \in Incidents
    BY <1>2 DEF Reasons
  <2>2. incidents \subseteq Incidents
    BY DEF IInv, TypeOK
  <2>3. incidents' \subseteq Incidents
    <3> HIDE DEF Incidents
    <3> QED BY <2>1, <2>2
  <2>4. late' \subseteq Tasks \X SUBSET SubTasks
    <3>1. late \subseteq Tasks \X SUBSET SubTasks
      BY DEF IInv, TypeOK
    <3>2. <<h[g].task, h[g].got>> \in Tasks \X SUBSET SubTasks
      BY <1>2
    <3> QED BY <3>1, <3>2
  <2> HIDE DEF Incidents
  <2>5. reported' \subseteq Tasks /\ faults' \in 0..MaxFaults
    OBVIOUS
  <2> QED BY <1>4, <1>6, <2>3, <2>4, <2>5 DEF IInv, TypeOK, Incidents
<1>9. Stored' /\ CompletionIsComplete' /\ GivesUpAfterRetries'
  BY <1>4, <1>7 DEF IInv, Stored, CompletionIsComplete, GivesUpAfterRetries, Spent
<1>10. LateIsComplete'
  <2> SUFFICES ASSUME ~Optimistic, NEW u \in Tasks, NEW o \in SUBSET SubTasks, <<u, o>> \in late'
               PROVE  /\ o \subseteq answered \cap Children(u)
                      /\ \A c \in Children(u) \ o : Spent(c)
    BY <1>4 DEF LateIsComplete, Spent
  <2>1. CASE <<u, o>> \in late
    BY <2>1 DEF IInv, LateIsComplete
  <2>2. CASE u = t /\ o = h[g].got
    BY <1>2, <2>2 DEF Spent, SpentIn
  <2> QED BY <2>1, <2>2
<1> QED BY <1>6, <1>8, <1>9, <1>10 DEF IInv

LEMMA CompleteAcceptedInv ==
  ASSUME IInv, NEW g \in Handlers, CompleteAccepted(g)
  PROVE  IInv'
<1>1. h[g].task \in Tasks
  BY DEF CompleteAccepted, At, IInv, Good, Placed
<1>2. cache' \subseteq Tasks /\ reported' \subseteq Tasks
  BY <1>1 DEF CompleteAccepted, channels, IInv, TypeOK
<1> QED BY <1>2, GoodResume, CompleteStep, FaultType DEF CompleteAccepted, channels, history

LEMMA CompleteAnswerLostInv ==
  ASSUME IInv, NEW g \in Handlers, CompleteAnswerLost(g)
  PROVE  IInv'
<1>1. h[g].task \in Tasks
  BY DEF CompleteAnswerLost, At, IInv, Good, Placed
<1>2. cache' \subseteq Tasks /\ reported' \subseteq Tasks
  BY <1>1 DEF CompleteAnswerLost, Report, IInv, TypeOK
<1>3. incidents' = incidents \/ incidents' = incidents \cup {<<h[g].task, "complete">>}
  BY DEF CompleteAnswerLost, Report
<1>4. CASE /\ engine' = [engine EXCEPT ![h[g].task] = "completed"]
           /\ output' = [output EXCEPT ![h[g].task] = h[g].got]
           /\ UNCHANGED late
  BY <1>2, <1>3, <1>4, GoodResume, CompleteStep, FaultType DEF CompleteAnswerLost
<1>5. CASE late' = late \cup {<<h[g].task, h[g].got>>} /\ UNCHANGED <<engine, output>>
  BY <1>2, <1>3, <1>5, LateStep, FaultType DEF CompleteAnswerLost
<1> QED BY <1>4, <1>5 DEF CompleteAnswerLost

LEMMA ProduceCommandInv ==
  ASSUME IInv, NEW g \in Handlers, ProduceCommand(g)
  PROVE  IInv'
<1> PICK c \in h[g].rest :
      /\ commands' \subseteq commands \cup {c} /\ sent' \subseteq sent \cup {c}
      /\ Become(g, Sending(h[g].rest \ {c}))
  BY DEF ProduceCommand
<1>1. attempted \in [SubTasks -> Nat] /\ h[g].rest \in SUBSET SubTasks
  BY DEF IInv, TypeOK, HandlerState
<1>2. Good(Sending(h[g].rest \ {c}), answered, attempted)
  BY <1>1, GoodSending
<1>3. /\ meta' = meta /\ results' = results /\ tries' = tries /\ running' = running /\ called' = called
      /\ engine' = engine /\ output' = output /\ late' = late /\ retries' = retries /\ locked' = locked
      /\ fetches' = fetches /\ answers' = answers /\ reported' = reported
      /\ cache' = cache /\ answered' = answered /\ attempted' = attempted /\ incidents' = incidents
      /\ faults' \in 0..MaxFaults
  BY FaultType DEF ProduceCommand, store, camunda
<1>4. \A d \in SubTasks : attempted[d] <= attempted[d]
  BY <1>1
<1>5. h' \in [Handlers -> HandlerState] /\ \A k \in Handlers : Good(h'[k], answered', attempted')
  BY <1>1, <1>2, <1>3, <1>4, OthersStayGood DEF Become
<1>6. TypeOK' /\ Stored'
  BY <1>1, <1>3, <1>5 DEF IInv, TypeOK, Stored
<1>7. CompletionIsComplete' /\ LateIsComplete' /\ GivesUpAfterRetries'
  BY <1>1, <1>3, <1>4, PromisesStay
<1> QED BY <1>5, <1>6, <1>7 DEF IInv

LEMMA TakeResponseInv ==
  ASSUME IInv, NEW g \in Handlers, NEW c \in SubTasks, TakeResponse(g, c)
  PROVE  IInv'
<1> PICK s : s = [Idle EXCEPT !.pc = "setResult", !.role = "result", !.sub = c]
  OBVIOUS
<1>1. attempted \in [SubTasks -> Nat]
  BY DEF IInv, TypeOK
<1>2. s \in HandlerState /\ Placed(s)
  BY DEF Idle, HandlerState, PCs, Placed
<1>3. Scanned(s) /\ Grounded(s, answered, attempted) /\ Ending(s, answered, attempted)
  BY <1>1, NoChildren DEF Idle, Scanned, Grounded, Ending
<1> PICK r : r = IF Optimistic THEN Idle ELSE s
  OBVIOUS
<1>4. Good(r, answered, attempted)
  BY <1>1, <1>2, <1>3, GoodSending DEF Good
<1>5. /\ meta' = meta /\ results' = results /\ tries' = tries /\ running' = running /\ called' = called
      /\ engine' = engine /\ output' = output /\ late' = late /\ retries' = retries /\ locked' = locked
      /\ fetches' = fetches /\ commands' = commands /\ answers' \subseteq answers /\ reported' = reported
      /\ cache' = cache /\ answered' = answered /\ attempted' = attempted /\ incidents' = incidents
      /\ sent' = sent /\ faults' \in 0..MaxFaults /\ Become(g, r)
  BY FaultType DEF TakeResponse, store, camunda, history
<1>6. \A d \in SubTasks : attempted[d] <= attempted[d]
  BY <1>1
<1>7. h' \in [Handlers -> HandlerState] /\ \A k \in Handlers : Good(h'[k], answered', attempted')
  BY <1>1, <1>4, <1>5, <1>6, OthersStayGood DEF Become
<1>8. TypeOK' /\ Stored'
  BY <1>5, <1>7 DEF IInv, TypeOK, Stored
<1>9. CompletionIsComplete' /\ LateIsComplete' /\ GivesUpAfterRetries'
  BY <1>1, <1>5, <1>6, PromisesStay
<1> QED BY <1>7, <1>8, <1>9 DEF IInv

LEMMA SetSubResultInv ==
  ASSUME IInv, NEW g \in Handlers, SetSubResult(g)
  PROVE  IInv'
<1> PICK s : s = [h[g] EXCEPT !.pc = "getMeta"]
  OBVIOUS
<1> PICK c : c = h[g].sub
  OBVIOUS
<1>1. Good(h[g], answered, attempted) /\ h[g].pc = "setResult"
  BY DEF IInv, SetSubResult, At
<1>2. h[g].role = "result" /\ c \in SubTasks
  BY <1>1 DEF Good, Placed
<1>3. s \in HandlerState
  BY <1>1 DEF Good, HandlerState, PCs
<1>4. Placed(s) /\ Scanned(s)
  BY <1>1, <1>2 DEF Good, HandlerState, Placed, Scanned
<1>5. Grounded(s, answered, attempted) /\ Ending(s, answered, attempted)
  BY <1>1 DEF Good, HandlerState, Grounded, Ending
<1>6. /\ meta' = meta /\ tries' = tries /\ running' = running /\ called' = called
      /\ engine' = engine /\ output' = output /\ late' = late /\ retries' = retries /\ locked' = locked
      /\ fetches' = fetches /\ commands' = commands /\ answers' = answers /\ reported' = reported
      /\ cache' = cache /\ attempted' = attempted /\ incidents' = incidents /\ sent' = sent
      /\ faults' = faults /\ Become(g, s)
      /\ results' = results \cup {c} /\ answered' = answered \cup {c}
  BY DEF SetSubResult, camunda, channels
<1>7. attempted \in [SubTasks -> Nat]
  BY DEF IInv, TypeOK
<1>8. \A d \in SubTasks : attempted[d] <= attempted[d]
  BY <1>7
<1>9. Good(s, answered', attempted')
  BY <1>3, <1>4, <1>5, <1>6, <1>7, <1>8, GoodMonotone DEF Good
<1>10. h' \in [Handlers -> HandlerState] /\ \A k \in Handlers : Good(h'[k], answered', attempted')
  BY <1>6, <1>7, <1>8, <1>9, OthersStayGood DEF Become
<1>11. TypeOK' /\ Stored'
  BY <1>2, <1>6, <1>10 DEF IInv, TypeOK, Stored, Ids
<1>12. CompletionIsComplete' /\ LateIsComplete' /\ GivesUpAfterRetries'
  BY <1>6, <1>7, <1>8, PromisesStay
<1> QED BY <1>10, <1>11, <1>12 DEF IInv

-----------------------------------------------------------------------------
(* The steps of time, of the engine, the devices and the process as a whole. *)

LEMMA RestartInv ==
  ASSUME IInv, Restart
  PROVE  IInv'
<1>1. attempted \in [SubTasks -> Nat] /\ tries \in [SubTasks -> Nat]
  BY DEF IInv, TypeOK
<1>2. h' = [g \in Handlers |-> Idle] /\ cache' = {}
      /\ UNCHANGED <<camunda, channels, history>>
      /\ faults' \in 0..MaxFaults
  BY FaultType DEF Restart
<1>3. h' \in [Handlers -> HandlerState]
  BY <1>1, <1>2, GoodSending DEF Good
<1>4. /\ meta' \subseteq meta /\ results' \subseteq results /\ running' \subseteq running
      /\ called' \subseteq called
  BY DEF Restart, store
<1>5. tries' = tries \/ tries' = [c \in SubTasks |-> 0]
  BY DEF Restart, store
<1>6. tries' \in [SubTasks -> Nat] /\ \A c \in SubTasks : tries'[c] <= tries[c]
  BY <1>1, <1>5
<1>7. TypeOK'
  BY <1>2, <1>3, <1>4, <1>6 DEF IInv, TypeOK, camunda, channels, history
<1> QED BY <1>2, <1>4, <1>6, <1>7, OutsideStep DEF camunda

LEMMA EntryExpiresInv ==
  ASSUME IInv, EntryExpires
  PROVE  IInv'
<1>1. tries \in [SubTasks -> Nat]
  BY DEF IInv, TypeOK
<1>2. /\ meta' \subseteq meta /\ results' \subseteq results
      /\ tries' = tries \/ \E x \in SubTasks : tries' = [tries EXCEPT ![x] = 0]
      /\ h' = h /\ faults' \in 0..MaxFaults
      /\ UNCHANGED <<running, called, camunda, channels, cache, history>>
  BY FaultType DEF EntryExpires
<1>3. tries' \in [SubTasks -> Nat] /\ \A c \in SubTasks : tries'[c] <= tries[c]
  BY <1>1, <1>2
<1>4. TypeOK'
  BY <1>2, <1>3 DEF IInv, TypeOK, camunda, channels, history
<1> QED BY <1>2, <1>3, <1>4, OutsideStep DEF camunda

LEMMA LateCompleteInv ==
  ASSUME IInv, NEW t \in Tasks, LateComplete(t)
  PROVE  IInv'
<1> PICK r \in late :
      /\ r[1] = t /\ late' = late \ {r}
      /\ IF engine[t] = "open"
         THEN engine' = [engine EXCEPT ![t] = "completed"] /\ output' = [output EXCEPT ![t] = r[2]]
         ELSE UNCHANGED <<engine, output>>
  BY DEF LateComplete
<1> PICK o \in SUBSET SubTasks : r = <<t, o>>
  <2>1. late \subseteq Tasks \X SUBSET SubTasks
    BY DEF IInv, TypeOK
  <2>2. r \in Tasks \X SUBSET SubTasks
    BY <2>1
  <2> QED BY <2>2
<1>1. /\ engine \in [Tasks -> {"open", "completed", "failed"}] /\ output \in [Tasks -> SUBSET SubTasks]
      /\ late \subseteq Tasks \X SUBSET SubTasks
  BY DEF IInv, TypeOK
<1>2. /\ meta' = meta /\ results' = results /\ tries' = tries /\ running' = running /\ called' = called
      /\ retries' = retries /\ locked' = locked /\ fetches' = fetches
      /\ commands' = commands /\ answers' = answers /\ reported' = reported /\ cache' = cache
      /\ attempted' = attempted /\ sent' = sent /\ answered' = answered /\ incidents' = incidents
      /\ h' = h /\ faults' = faults
  BY DEF LateComplete, store, channels, history
<1>3. /\ engine' \in [Tasks -> {"open", "completed", "failed"}] /\ output' \in [Tasks -> SUBSET SubTasks]
      /\ late' \subseteq Tasks \X SUBSET SubTasks
  BY <1>1
<1>4. TypeOK' /\ \A k \in Handlers : Good(h'[k], answered', attempted')
  BY <1>2, <1>3 DEF IInv, TypeOK
<1>5. Stored' /\ LateIsComplete' /\ GivesUpAfterRetries'
  BY <1>2 DEF IInv, Stored, LateIsComplete, GivesUpAfterRetries, Spent
<1>6. CompletionIsComplete'
  <2> SUFFICES ASSUME ~Optimistic, NEW u \in Tasks, engine'[u] = "completed"
               PROVE  /\ output'[u] \subseteq answered \cap Children(u)
                      /\ \A c \in Children(u) \ output'[u] : Spent(c)
    BY <1>2 DEF CompletionIsComplete, Spent
  <2>1. CASE u = t /\ output'[u] = o
    BY <2>1 DEF IInv, LateIsComplete
  <2>2. CASE engine[u] = "completed" /\ output'[u] = output[u]
    BY <2>2 DEF IInv, CompletionIsComplete
  <2> QED BY <1>1, <2>1, <2>2
<1> QED BY <1>4, <1>5, <1>6 DEF IInv

LEMMA HandleIncidentInv ==
  ASSUME IInv, NEW t \in Tasks, HandleIncident(t)
  PROVE  IInv'
<1>1. tries \in [SubTasks -> Nat] /\ engine \in [Tasks -> {"open", "completed", "failed"}]
  BY DEF IInv, TypeOK
<1>2. engine' = engine \/ engine' = [engine EXCEPT ![t] = "failed"]
  BY DEF HandleIncident
<1>3. /\ engine' \in [Tasks -> {"open", "completed", "failed"}]
      /\ \A u \in Tasks : engine'[u] = "completed" => engine[u] = "completed"
  BY <1>1, <1>2
<1>4. /\ h' = h /\ reported' \subseteq reported /\ faults' = faults
      /\ UNCHANGED <<store, output, locked, retries, late, fetches, commands, answers, cache, history>>
  BY DEF HandleIncident
<1>5. TypeOK'
  BY <1>3, <1>4 DEF IInv, TypeOK, store, history
<1>6. \A c \in SubTasks : tries'[c] <= tries[c]
  BY <1>1, <1>4 DEF store
<1> QED BY <1>3, <1>4, <1>5, <1>6, OutsideStep DEF store

(* A step that takes from the sets of the state and leaves the rest alone. *)
LEMMA TakeAwayStep ==
  ASSUME IInv, running' \subseteq running, called' \subseteq called, cache' \subseteq cache,
         locked' \subseteq locked, reported' \subseteq reported,
         commands' \subseteq SubTasks, answers' \subseteq SubTasks, faults' \in 0..MaxFaults,
         UNCHANGED <<meta, results, tries, engine, output, retries, late, fetches, h, history>>
  PROVE  IInv'
<1>1. tries \in [SubTasks -> Nat]
  BY DEF IInv, TypeOK
<1>2. \A c \in SubTasks : tries'[c] <= tries[c]
  BY <1>1
<1>3. TypeOK'
  BY DEF IInv, TypeOK, history
<1> QED BY <1>2, <1>3, OutsideStep

LEMMA TimeInv ==
  ASSUME IInv,
         \/ \E t \in Tasks : CallTimesOut(t) \/ CacheExpires(t) \/ LockExpires(t)
         \/ \E c \in SubTasks : TryTimesOut(c)
  PROVE  IInv'
<1>1. /\ running' \subseteq running /\ called' \subseteq called /\ cache' \subseteq cache
      /\ locked' \subseteq locked /\ faults' = faults
      /\ UNCHANGED <<meta, results, tries, engine, output, retries, late, fetches, h, history, channels>>
  BY DEF CallTimesOut, CacheExpires, LockExpires, TryTimesOut, store, camunda
<1> QED BY <1>1, TakeAwayStep DEF channels, IInv, TypeOK

LEMMA MessageInv ==
  ASSUME IInv,
         \/ \E t \in Tasks : LoseIncident(t)
         \/ \E c \in SubTasks : DeviceAnswers(c) \/ DeviceFails(c) \/ LoseMessage(c)
  PROVE  IInv'
<1>1. CASE \E t \in Tasks : LoseIncident(t)
  BY <1>1, TakeAwayStep, FaultType DEF LoseIncident, store, camunda, IInv, TypeOK
<1>2. CASE \E c \in SubTasks : DeviceAnswers(c) \/ DeviceFails(c) \/ LoseMessage(c)
  BY <1>2, TakeAwayStep DEF DeviceAnswers, DeviceFails, UnlockTask, LoseMessage, store, camunda, IInv, TypeOK
<1> QED BY <1>1, <1>2

LEMMA StutterInv == ASSUME IInv, UNCHANGED vars PROVE IInv'
<1>1. attempted \in [SubTasks -> Nat]
  BY DEF IInv, TypeOK
<1>2. Stored' /\ TypeOK' /\ \A g \in Handlers : Good(h'[g], answered', attempted')
  BY DEF vars, store, camunda, channels, history, IInv, TypeOK, Stored
<1>3. CompletionIsComplete' /\ LateIsComplete' /\ GivesUpAfterRetries'
  BY DEF vars, camunda, history, IInv, CompletionIsComplete, LateIsComplete, GivesUpAfterRetries, Spent
<1> QED BY <1>2, <1>3 DEF IInv

-----------------------------------------------------------------------------
(* Every step keeps the invariant. *)
LEMMA NextInv == ASSUME IInv, [Next]_vars PROVE IInv'
<1>1. CASE UNCHANGED vars
  BY <1>1, StutterInv
<1>2. ASSUME NEW g \in Handlers, NEW t \in Tasks, Fetch(g, t) PROVE IInv'
  BY <1>2, FetchInv
<1>3. ASSUME NEW g \in Handlers, NEW c \in SubTasks, TakeResponse(g, c) PROVE IInv'
  BY <1>3, TakeResponseInv
<1>4. ASSUME NEW g \in Handlers, Command(g) PROVE IInv'
  <2>1. CASE RejectTask(g) \/ IgnoreTask(g) \/ AcceptTask(g) \/ SaveCallInfo(g)
    BY <2>1, RejectTaskInv, RestInv, AcceptTaskInv, SaveCallInfoInv
  <2>2. CASE FoundMeta(g) \/ SplitTask(g) \/ SaveParentMeta(g) \/ SaveChildMeta(g) \/ GetResult(g)
    BY <2>2, FoundMetaInv, SplitTaskInv, SaveParentMetaInv, SaveChildMetaInv, GetResultInv
  <2>3. CASE StartAnnotate(g) \/ AnnotateSubTaskState(g) \/ Exhausted(g) \/ NothingToSend(g)
    BY <2>3, StartAnnotateInv, AnnotateInv, ExhaustedInv, RestInv
  <2>4. CASE UpdateSubTaskState(g) \/ ScheduleParallel(g) \/ SetRetry(g)
    BY <2>4, UpdateSubTaskStateInv, ScheduleParallelInv, SetRetryInv
  <2>5. CASE ClearTaskData(g) \/ DeleteMeta(g) \/ DeleteResult(g) \/ ReportNoResults(g)
    BY <2>5, ClearTaskDataInv, DeleteMetaInv, DeleteResultInv, ReportNoResultsInv
  <2>6. CASE CompleteCached(g) \/ CompleteAccepted(g) \/ CompleteRejected(g)
    BY <2>6, RestInv, CompleteAcceptedInv, CompleteRejectedInv
  <2>7. CASE ProduceCommand(g) \/ AskLastValue(g)
    BY <2>7, ProduceCommandInv, AskLastValueInv
  <2> QED BY <1>4, <2>1, <2>2, <2>3, <2>4, <2>5, <2>6, <2>7 DEF Command
<1>5. ASSUME NEW g \in Handlers, Response(g) PROVE IInv'
  BY <1>5, SetSubResultInv, RestInv, FinishGroupInv, ContinueGroupInv DEF Response
<1>6. ASSUME NEW g \in Handlers, Failure(g) PROVE IInv'
  BY <1>6, BuildFailsInv, CompleteUnreachableInv, CompleteAnswerLostInv, StoreFailsInv DEF Failure
<1>7. CASE Restart \/ EntryExpires
  BY <1>7, RestartInv, EntryExpiresInv
<1>8. ASSUME NEW t \in Tasks,
             \/ CallTimesOut(t) \/ CacheExpires(t) \/ LockExpires(t)
             \/ LateComplete(t) \/ HandleIncident(t) \/ LoseIncident(t)
      PROVE  IInv'
  BY <1>8, TimeInv, LateCompleteInv, HandleIncidentInv, MessageInv
<1>9. ASSUME NEW c \in SubTasks,
             TryTimesOut(c) \/ DeviceAnswers(c) \/ DeviceFails(c) \/ LoseMessage(c)
      PROVE  IInv'
  BY <1>9, TimeInv, MessageInv
<1> QED BY <1>1, <1>2, <1>3, <1>4, <1>5, <1>6, <1>7, <1>8, <1>9 DEF Next, Step

(* The inductive invariant holds in every state that is reached. *)
THEOREM Invariance == Safety => []IInv
<1>1. Init => IInv
  BY InitInv
<1>2. IInv /\ [Next]_vars => IInv'
  BY NextInv
<1> QED BY <1>1, <1>2, PTL DEF Safety

(* The state keeps its types: whatever the goroutines, the engine, the devices and the      *)
(* failures do, lib/worker.go and lib/devicegroups work on states of the declared form.     *)
THEOREM TypeCorrect == Safety => []TypeOK
<1>1. IInv => TypeOK
  BY DEF IInv
<1> QED BY <1>1, Invariance, PTL

(* A pessimistic task is completed (lib/worker.go:238-259, 403-424) with answers of its own *)
(* devices only, and leaves one out only if the device answered or all retries were made.   *)
THEOREM Completeness == Safety => []CompletionIsComplete
<1>1. IInv => CompletionIsComplete
  BY DEF IInv
<1> QED BY <1>1, Invariance, PTL

(* "unable to get any results" (lib/devicegroups/devicegroups.go:122, 142, 164) is reported *)
(* only for a task each of whose sub tasks has answered or was tried Retries + 1 times.     *)
THEOREM GivesUp == Safety => []GivesUpAfterRetries
<1>1. IInv => GivesUpAfterRetries
  BY DEF IInv
<1> QED BY <1>1, Invariance, PTL
=============================================================================
