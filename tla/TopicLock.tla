------------------------------ MODULE TopicLock ------------------------------
(***************************************************************************)
(* What Camunda.CompleteTask relies on: one lock per topic, where a topic  *)
(* is "<tenant>+<task>".  A goroutine asks for a topic, waits until no     *)
(* other goroutine holds the same topic, holds it, and releases it.        *)
(* Goroutines with different topics never wait for each other.  TopicMutex *)
(* is the code that has to keep this promise.                              *)
(***************************************************************************)
CONSTANTS Threads,    \* the goroutines that complete tasks
          Topics,     \* the keys they lock
          NoTopic     \* the topic of a goroutine that asks for none

VARIABLES phase, topic

vars == <<phase, topic>>

Init ==
  /\ phase = [g \in Threads |-> "idle"]
  /\ topic = [g \in Threads |-> NoTopic]

Request(g, t) ==
  /\ phase[g] = "idle"
  /\ phase' = [phase EXCEPT ![g] = "waiting"]
  /\ topic' = [topic EXCEPT ![g] = t]

Free(t) == \A g \in Threads : ~(phase[g] = "holding" /\ topic[g] = t)

Acquire(g) ==
  /\ phase[g] = "waiting"
  /\ Free(topic[g])
  /\ phase' = [phase EXCEPT ![g] = "holding"]
  /\ UNCHANGED topic

Release(g) ==
  /\ phase[g] = "holding"
  /\ phase' = [phase EXCEPT ![g] = "idle"]
  /\ topic' = [topic EXCEPT ![g] = NoTopic]

Next == \E g \in Threads :
          \/ \E t \in Topics : Request(g, t)
          \/ Acquire(g)
          \/ Release(g)

Safety == Init /\ [][Next]_vars

Spec == Safety /\ \A g \in Threads : SF_vars(Acquire(g)) /\ WF_vars(Release(g))
=============================================================================
