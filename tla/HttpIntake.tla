----------------------------- MODULE HttpIntake -----------------------------
(***************************************************************************)
(* Responses that connectors post to the worker (lib/com/httpcommand/      *)
(* rest.go).  They come to the same handler as those of Kafka, so with a   *)
(* queue they share it.  A setting decides whether the connector waits for *)
(* the handler.  Without HttpCommandConsumerPort there are no posts.       *)
(***************************************************************************)
EXTENDS ResponseIntake

VARIABLES
  httpSync,    \* HttpCommandConsumerSync, a setting
  server,      \* "disabled", "stopped", "up", "closing" (Shutdown is called)
  handler,     \* [Requests -> "none", "running", "hung", "nil" or "err" (it returned), "gone" (with its process)]
  status       \* [Requests -> "none", "ok", "bad", "broken" (no answer reaches the connector)]

httpVars == <<httpSync, server, handler, status>>

\* the process starts when some requests are done
HttpInit ==
  /\ httpSync \in BOOLEAN /\ server \in {"stopped", "disabled"}
  /\ handler = [r \in Requests |-> "none"]
  /\ status \in [Requests -> {"none", "broken"}]

Waiting(r) == handler[r] \in {"running", "hung"} /\ status[r] = "none"
Returns(r, result) == handler' = [handler EXCEPT ![r] = result]

\* POST /responses
PostResponse(r) ==
  /\ server = "up" /\ handler[r] = "none" /\ status[r] = "none"
  /\ handler' = [handler EXCEPT ![r] = "running"]
  /\ UNCHANGED <<phase, faults, intakeVars, httpSync, server, status>>

\* the body of the request cannot be read
RejectPost(r) ==
  /\ server = "up" /\ handler[r] = "none" /\ status[r] = "none" /\ Fault
  /\ status' = [status EXCEPT ![r] = "bad"]
  /\ UNCHANGED <<phase, intakeVars, httpSync, server, handler>>

\* mutant: the answer does not wait for the handler
AnswerAtOnce(r) ==
  /\ status[r] = "none" /\ handler[r] \in {"running", "nil", "err"}
  /\ status' = [status EXCEPT ![r] = "ok"]
  /\ UNCHANGED <<phase, faults, intakeVars, httpSync, server, handler>>

\* with httpSync after the handler, otherwise its goroutine has only been started
Answer(r) ==
  /\ status[r] = "none"
  /\ IF httpSync THEN handler[r] \in {"nil", "err"} ELSE handler[r] \in {"running", "hung", "nil", "err"}
  /\ status' = [status EXCEPT ![r] = IF httpSync /\ handler[r] = "err" THEN "bad" ELSE "ok"]
  /\ UNCHANGED <<phase, faults, intakeVars, httpSync, server, handler>>

\* mutant: a connector that has waited too long is told that the handler failed
WriteTimeoutBad(r) ==
  /\ Waiting(r) /\ httpSync
  /\ status' = [status EXCEPT ![r] = "bad"]
  /\ UNCHANGED <<phase, faults, intakeVars, httpSync, server, handler>>

\* WriteTimeout, 10 s: the handler goes on
WriteTimeout(r) ==
  /\ Waiting(r) /\ httpSync
  /\ status' = [status EXCEPT ![r] = "broken"]
  /\ UNCHANGED <<phase, faults, intakeVars, httpSync, server, handler>>

\* HandleTaskResponse: err does not mean that nothing was done
HandlePost(r) ==
  /\ handler[r] = "running" /\ ~queued
  /\ \/ finished' = finished \cup {r} /\ Returns(r, "nil") /\ UNCHANGED refused
     \/ PerhapsFinished(r) /\ Returns(r, "err") /\ refused' = refused \cup {r}
  /\ UNCHANGED <<phase, faults, queued, committed, position, consumer, current, queue, closed, hand, stuck,
                 lost, httpSync, server, status>>

\* as HandleHangs
HandlePostHangs(r) ==
  /\ handler[r] = "running" /\ ~queued /\ Fault
  /\ PerhapsFinished(r) /\ Returns(r, "hung")
  /\ UNCHANGED <<phase, queued, committed, position, consumer, current, queue, closed, hand, stuck,
                 refused, lost, httpSync, server, status>>

\* queue <- msg
EnqueuePost(r) ==
  /\ handler[r] = "running" /\ queued /\ ~closed /\ Len(queue) < QueueSize
  /\ queue' = Append(queue, r)
  /\ Returns(r, "nil")
  /\ UNCHANGED <<phase, faults, queued, committed, position, consumer, current, closed, hand, stuck, history,
                 httpSync, server, status>>

\* a send on the closed queue panics, which becomes err
EnqueuePostClosed(r) ==
  /\ handler[r] = "running" /\ queued /\ closed
  /\ refused' = refused \cup {r}
  /\ Returns(r, "err")
  /\ UNCHANGED <<phase, faults, queued, committed, position, consumer, current, queue, closed, hand, stuck,
                 finished, lost, httpSync, server, status>>

\* deviceGroupsHandler is not set yet: the panic ends the goroutine of the request ...
NilHandlerPost(r) == phase = "starting" /\ ~queued /\ handler[r] = "running"

\* ... which net/http recovers, without an answer
PostPanics(r) ==
  /\ NilHandlerPost(r) /\ httpSync /\ Fault
  /\ Returns(r, "gone")
  /\ status' = [status EXCEPT ![r] = "broken"]
  /\ UNCHANGED <<phase, intakeVars, httpSync, server>>

\* no new connections; the requests that run are finished, but main does not wait for them
ShutdownServer ==
  /\ phase = "stopping" /\ server = "up"
  /\ server' = "closing"
  /\ UNCHANGED <<phase, faults, intakeVars, httpSync, handler, status>>

-----------------------------------------------------------------------------
(* Steps of the whole process                                              *)

\* NewConsumer, before deviceGroupsHandler is set; nothing with DisableHttpConsumer
StartHttp ==
  /\ server' = IF server = "disabled" THEN server ELSE "up"
  /\ UNCHANGED <<httpSync, handler, status>>

StopHttp ==
  /\ server' = IF server = "disabled" THEN server ELSE "stopped"
  /\ handler' = [r \in Requests |-> IF handler[r] \in {"running", "hung"} THEN "gone" ELSE handler[r]]
  /\ status' = [r \in Requests |->
       IF status[r] = "none" /\ handler[r] # "none" THEN "broken" ELSE status[r]]
  /\ UNCHANGED httpSync

\* a goroutine that is not the one of the request has nothing that recovers it
PostEndsProcess == ~httpSync /\ \E r \in Requests : NilHandlerPost(r)

HandleRequest(r) == HandlePost(r) \/ EnqueuePost(r) \/ EnqueuePostClosed(r)

HttpNext ==
  \/ ShutdownServer
  \/ \E r \in Requests :
       \/ PostResponse(r) \/ RejectPost(r) \/ Answer(r) \/ WriteTimeout(r)
       \/ HandleRequest(r) \/ HandlePostHangs(r) \/ PostPanics(r)
=============================================================================
