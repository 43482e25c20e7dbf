--------------------------- MODULE MCTaskExecution ---------------------------
(* Instances of TaskExecution for TLC.                                      *)
EXTENDS TaskExecution, TLC

CONSTANTS t1, t2, t3, c1, c2

Symmetry == Permutations(Handlers)

Unbounded == [t \in Tasks |-> 0]
Once == [t \in Tasks |-> 1]
Twice == [t \in Tasks |-> 2]

\* t1 is a group of two sub tasks
GroupParent == (c1 :> t1) @@ (c2 :> t1)
GroupPos == (c1 :> 1) @@ (c2 :> 2) @@ (t1 :> 3)
GroupPayload == (t1 :> {"command"})

\* t1 is a group of two, t2 a single device whose sub task has the id of
\* the task, with an input variable that does not fit
MixedParent == (c1 :> t1) @@ (c2 :> t1) @@ (t2 :> t2)
MixedPos == (c1 :> 1) @@ (c2 :> 2) @@ (t1 :> 3) @@ (t2 :> 1)
MixedFetches == (t1 :> 2) @@ (t2 :> 1)
MixedPayload == (t1 :> {"command"}) @@ (t2 :> {"command", "invalid"})

\* t1 is a group of two, t3 asks for an incident
OptimisticPos == GroupPos @@ (t3 :> 3)
OptimisticPayload == (t1 :> {"command"}) @@ (t3 :> {"incident"})
==============================================================================
