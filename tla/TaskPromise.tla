----------------------------- MODULE TaskPromise -----------------------------
(***************************************************************************)
(* What the worker promises to the process engine and to the platform,     *)
(* without its store, its goroutines, its deliveries and its failures.     *)
(* Devices are asked, in their order where the configuration wants one.  A *)
(* command is sent only for a sub task that is asked, a result is taken    *)
(* only from a device that got a command or from an event, and a task is   *)
(* completed once, with results that were taken and with an excuse for     *)
(* every sub task that is left out.  The worker gives up only when all sub *)
(* tasks are spent, and a process is stopped only for an incident.         *)
(* TaskExecution is the code that has to keep this promise.                *)
(***************************************************************************)
EXTENDS Integers

CONSTANTS
  Tasks, SubTasks,
  Parent,         \* [SubTasks -> Tasks]
  Pos,            \* the order of the sub tasks of a task
  Events,         \* sub tasks that are answered without a command
  Ordered,        \* the sub tasks of a task are asked in their order
  Limit,          \* number of retries, or -1
  Optimistic,     \* a task is completed before its commands are sent
  Reasons         \* of incidents

VARIABLES
  engine, output,   \* what the engine knows of a task
  attempted,        \* how often a sub task was asked
  sent, answered,   \* sub tasks with a command, and with a result
  incidents         \* <<task, reason>>

vars == <<engine, output, attempted, sent, answered, incidents>>

Children(t) == {c \in SubTasks : Parent[c] = t}
Asked(c) == attempted[c] > 0
Spent(c) == c \in answered \/ (Limit # -1 /\ attempted[c] > Limit)

\* the results a task may be completed with
Acceptable(t, results) ==
  /\ results \subseteq answered \cap Children(t)
  /\ \A c \in Children(t) \ results : IF Optimistic THEN Asked(c) ELSE Spent(c)

Init ==
  /\ engine = [t \in Tasks |-> "open"] /\ output = [t \in Tasks |-> {}]
  /\ attempted = [c \in SubTasks |-> 0] /\ sent = {} /\ answered = {} /\ incidents = {}

\* one device, or all that are missing at once
Ask(t, S) ==
  /\ S \subseteq Children(t)
  /\ Ordered => \A c \in S, d \in Children(t) \ S : Pos[d] < Pos[c] => Asked(d)
  /\ attempted' = [c \in SubTasks |-> IF c \in S THEN attempted[c] + 1 ELSE attempted[c]]
  /\ UNCHANGED <<engine, output, sent, answered, incidents>>

Send(c) ==
  /\ c \notin Events /\ Asked(c)
  /\ Optimistic => engine[Parent[c]] = "completed"
  /\ sent' = sent \cup {c}
  /\ UNCHANGED <<engine, output, attempted, answered, incidents>>

TakeResult(c) ==
  /\ IF c \in Events THEN Asked(c) ELSE c \in sent
  /\ answered' = answered \cup {c}
  /\ UNCHANGED <<engine, output, attempted, sent, incidents>>

\* an answer of the engine that is lost makes the completion of a task an incident as well
Complete(t, results) ==
  /\ engine[t] = "open" /\ Acceptable(t, results)
  /\ engine' = [engine EXCEPT ![t] = "completed"]
  /\ output' = [output EXCEPT ![t] = results]
  /\ incidents' \in {incidents, incidents \cup {<<t, "complete">>}}
  /\ UNCHANGED <<attempted, sent, answered>>

Blame(t, reason) ==
  /\ reason = "no results" => \A c \in Children(t) : Spent(c)
  /\ incidents' = incidents \cup {<<t, reason>>}
  /\ UNCHANGED <<engine, output, attempted, sent, answered>>

\* the platform stops the process of the task
Stop(t) ==
  /\ engine[t] = "open" /\ \E reason \in Reasons : <<t, reason>> \in incidents
  /\ engine' = [engine EXCEPT ![t] = "failed"]
  /\ UNCHANGED <<output, attempted, sent, answered, incidents>>

Next ==
  \/ \E t \in Tasks : \/ \E S \in SUBSET SubTasks : Ask(t, S) \/ Complete(t, S)
                      \/ \E reason \in Reasons : Blame(t, reason)
                      \/ Stop(t)
  \/ \E c \in SubTasks : Send(c) \/ TakeResult(c)

Spec == Init /\ [][Next]_vars
=============================================================================
