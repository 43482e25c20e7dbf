----------------------------- MODULE TaskMessage -----------------------------
(***************************************************************************)
(* What becomes of one command: the variables of its task replace parts of *)
(* its input (CommandInput), then it is either marshalled into the message *)
(* to the device or answered with the last value of an event (EventValue). *)
(*                                                                         *)
(* Go iterates over the variables in any order, so each of them is a step. *)
(***************************************************************************)
EXTENDS CommandInput, EventValue

CONSTANTS
  Commands,      \* [controlling, interaction, preferEvent, version, concept, inputPaths,
                 \*  input, variables, outputs]
  HandleMissingLastValueTimeAsError

ASSUME MessageAssumption ==
  /\ HandleMissingLastValueTimeAsError \in BOOLEAN
  /\ \A c \in Commands : /\ c.controlling \in BOOLEAN /\ c.preferEvent \in BOOLEAN
                         /\ c.interaction \in {"request", "event", "event_and_request"}
                         /\ c.version \in Nat /\ c.concept \in BOOLEAN /\ c.inputPaths \in BOOLEAN

VARIABLES
  pc,
  command,       \* the command and its task, chosen at the start
  input,         \* command.Input
  todo,          \* paths of the variables that are still to be applied
  refused,       \* the last variable that was applied did not fit
  stored,        \* the last row of the service: a value for every column, or no row
  response,      \* the answer of the timescale wrapper
  message        \* the marshalled input, or the segments of the event

vars == <<pc, command, input, todo, refused, stored, response, message>>

parameters == [p \in DOMAIN command.variables |-> Parameter(command.variables[p])]
columns == Columns(command.outputs)

\* a row, with a null in any of its columns, or no row
Row(cs, nulls) == [i \in DOMAIN cs |-> IF i \in nulls THEN 0 ELSE i]
Rows(cs) == {<<Row(cs, nulls)>> : nulls \in SUBSET DOMAIN cs} \cup {<<>>}

Init ==
  /\ pc = "parameters"
  /\ command \in Commands
  /\ input = command.input /\ todo = DOMAIN command.variables /\ refused = FALSE
  /\ stored \in Rows(Columns(command.outputs))
  /\ response = <<>> /\ message = <<>>

\* setPayloadParameter: the next variable of the map; err is that of the last one
SetPayloadParameter ==
  /\ pc = "parameters"
  /\ \E p \in todo :
       /\ input' = SetParameter(input, p, parameters[p])
       /\ refused' = ~SetVarOnPath(input, p, parameters[p]).ok
       /\ todo' = todo \ {p}
  /\ UNCHANGED <<pc, command, stored, response, message>>

\* createMessageForProtocolHandler: a measuring function of an event asks for the last value
AsksForEvent(c) ==
  /\ ~c.controlling
  /\ \/ c.interaction = "event"
     \/ c.interaction = "event_and_request" /\ c.preferEvent

\* since version 3 the input is left out if there is nothing to set
Marshalled(c, in) ==
  IF c.version < 3 \/ ((c.concept \/ in # Null) /\ (c.inputPaths \/ c.controlling)) THEN in ELSE Null

\* GetCommandRequest returns the error, ExecuteTask reports it as an incident
RejectTask ==
  /\ pc = "parameters" /\ todo = {} /\ refused
  /\ pc' = "rejected"
  /\ UNCHANGED <<command, input, todo, refused, stored, response, message>>

CreateProtocolMessage ==
  /\ pc = "parameters" /\ todo = {} /\ ~refused /\ ~AsksForEvent(command)
  /\ message' = Marshalled(command, input)
  /\ pc' = "sent"
  /\ UNCHANGED <<command, input, todo, refused, stored, response>>

CreateEventRequest ==
  /\ pc = "parameters" /\ todo = {} /\ ~refused /\ AsksForEvent(command)
  /\ pc' = "query"
  /\ UNCHANGED <<command, input, todo, refused, stored, response, message>>

\* the wrapper answers a query with a table of at most one row, which starts with the time
Table == [i \in DOMAIN stored |-> <<99>> \o stored[i]]
Complete == IF Query(columns) = <<>> THEN <<>> ELSE <<Table>>

\* External: the answer of the wrapper; it may be short of the table or of columns
WrapperAnswers ==
  /\ pc = "query"
  /\ \/ response' = Complete
     \/ columns # <<>> /\ response' = <<>>
     \/ /\ columns # <<>> /\ stored # <<>>
        /\ \E n \in 0..Len(columns) : response' = <<<<SubSeq(Table[1], 1, n)>>>>
  /\ pc' = "answer"
  /\ UNCHANGED <<command, input, todo, refused, stored, message>>

\* External: the request fails
WrapperFails ==
  /\ pc = "query" /\ pc' = "failed"
  /\ UNCHANGED <<command, input, todo, refused, stored, response, message>>

\* lib/timescale gives no response a time, so that the check for it fails with every column
MissesTime == HandleMissingLastValueTimeAsError /\ columns # <<>>

\* GetLastEventValue: the value is handled as a response, a failure is only logged; UnmarshalV2
\* (External) may refuse what the event holds
GetLastEventValue ==
  LET tree == TimescaleValue(columns, Values(columns, response)) IN
  /\ pc = "answer"
  /\ \/ CastResponse(columns, response) # "ok"
        /\ pc' = (IF CastResponse(columns, response) = "panic" THEN "panic" ELSE "failed")
        /\ UNCHANGED message
     \/ /\ CastResponse(columns, response) = "ok"
        /\ MissesTime \/ ~Marshals(command.outputs, tree)
        /\ pc' = "failed" /\ UNCHANGED message
     \/ /\ CastResponse(columns, response) = "ok"
        /\ ~MissesTime /\ Marshals(command.outputs, tree)
        /\ \/ pc' = "answered" /\ message' = Message(command.outputs, tree)
           \/ pc' = "unusable" /\ UNCHANGED message
  /\ UNCHANGED <<command, input, todo, refused, stored, response>>

Next ==
  \/ SetPayloadParameter \/ RejectTask \/ CreateProtocolMessage \/ CreateEventRequest
  \/ WrapperAnswers \/ WrapperFails \/ GetLastEventValue

Spec == Init /\ [][Next]_vars

-----------------------------------------------------------------------------
(* A command to a device carries its input with every variable of the task  *)
(* in its place that fits there, in whatever order they were applied, and   *)
(* a variable that does not fit leaves no trace.  (A variable for the whole *)
(* input competes with the others: see IgnoredIsIgnored.)                   *)
CommandCarriesInput ==
  pc = "sent" /\ command.controlling /\ <<>> \notin DOMAIN parameters
    => message = Overridden(command.input, <<>>, parameters)

\* outputs whose variable has a last value
Shown(outputs, last) ==
  {i \in DOMAIN outputs : /\ outputs[i].segment # 0 /\ HasValue(outputs[i].variable)
                          /\ LastValue(<<>>, outputs[i].variable, last) # Leaf(0)}

Recorded == [c \in ToSet(columns) |-> IF stored = <<>> THEN 0 ELSE stored[1][Index(columns, c)]]

(* The answer of an event holds for every segment the last recorded values, *)
(* each at its place in the content variable: not those of a neighbouring   *)
(* column, not the time, and nothing of lists.  Without a row it is empty.  *)
EventIsLastValue ==
  pc = "answered" =>
    /\ DOMAIN message = {command.outputs[i].segment : i \in Shown(command.outputs, Recorded)}
    /\ \A i \in Shown(command.outputs, Recorded) :
         message[command.outputs[i].segment] = LastValue(<<>>, command.outputs[i].variable, Recorded)

(* A complete answer of the wrapper becomes an event, unless an output      *)
(* cannot be serialized: it neither fails nor panics.  (The unmarshalling   *)
(* of the event may still refuse it.)                                       *)
CompleteAnswerIsUsed ==
  pc \in {"failed", "panic"} /\ response = Complete /\ columns # <<>>
    => \E i \in DOMAIN command.outputs : ~command.outputs[i].known

-----------------------------------------------------------------------------
(* "setPayloadParameter() -> ignore param" (lib/command.go:117): a variable *)
(* that does not fit is ignored, it does not fail the task.                 *)
IgnoredIsIgnored == pc # "rejected"
=============================================================================
