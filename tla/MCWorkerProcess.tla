-------------------------- MODULE MCWorkerProcess --------------------------
(* Instances of WorkerProcess for TLC.  Its parts share little but the      *)
(* phase of the process, so each behavior has work for one of them; the     *)
(* work of the others is done before, and one of the consumers is disabled. *)
EXTENDS WorkerProcess, TLC

CONSTANTS t1, s1, s2, c1, c2, c3, kafka1, http1

\* the task is in one of the shards
OneTask == t1 :> s1

\* two messages for one topic and one that is posted
Destinations == (c1 :> kafka1) @@ (c2 :> kafka1) @@ (c3 :> http1)
Senders == (c1 :> "task") @@ (c2 :> "incident") @@ (c3 :> "task")

None == <<>>

KafkaOnly == consumer = "stopped" /\ server = "disabled"
HttpOnly == consumer = "disabled" /\ server = "stopped"
Neither == consumer = "disabled" /\ server = "disabled"

Settled == committed = Last /\ httpSync /\ \A r \in Requests : status[r] = "broken"
AllSent == sync /\ initTopics /\ topics = Topics /\ \A c \in Commands : sender[c] = "ok"

MCInit ==
  /\ Init
  /\ open = Tasks
  /\ \/ Offsets # {} /\ KafkaOnly /\ committed = 0 /\ httpSync
        /\ (\A r \in Requests : status[r] = "broken") /\ AllSent
     \/ Requests # {} /\ HttpOnly /\ committed = Last
        /\ (\A r \in Requests : status[r] = "none") /\ AllSent
     \/ Commands # {} /\ KafkaOnly /\ Settled /\ \A c \in Commands : sender[c] = "idle"
     \/ Tasks # {} /\ Neither /\ Settled /\ AllSent

MCSpec == MCInit /\ [][Next]_vars /\ Fairness
=============================================================================
