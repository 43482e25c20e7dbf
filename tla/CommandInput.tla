---------------------------- MODULE CommandInput ----------------------------
(***************************************************************************)
(* The input of a command and the "inputs" variables of its task that      *)
(* replace parts of it (lib/command.go, setVarOnPath of lib/worker.go).    *)
(*                                                                         *)
(* A decoded JSON value is a pair of its kind and its content: a map or a  *)
(* list holds a function from keys to values (the keys of a list are its   *)
(* indexes), a string is either plain or the text of a JSON value.  A path *)
(* is a sequence of keys; a key that is no number, asked of a list, is one *)
(* that the list does not have.  Go decodes JSON numbers to float64 only,  *)
(* so the int cases of the code do not occur.                              *)
(***************************************************************************)
EXTENDS Integers, Sequences

Value(kind, of) == <<kind, of>>
Kind(v) == v[1]
Of(v) == v[2]

Null == Value("null", 0)
Text(v) == Value("string", <<"json", v>>)      \* the text of a JSON value
Plain(x) == Value("string", <<"plain", x>>)    \* a text that is none
IsContainer(v) == Kind(v) \in {"map", "list"}

\* the value that a text parses as; only for the text of a JSON value
Parsed(v) == Of(v)[2]
IsJson(v) == Kind(v) = "string" /\ Of(v)[1] = "json"

\* getPayloadParameter: a string that is JSON is replaced by what it holds
Parameter(variable) == IF IsJson(variable) THEN Parsed(variable) ELSE variable

\* strconv.ParseBool knows "true", "false", "1" and "0"; strconv.ParseFloat numbers
ParsesAs(kind, v) ==
  /\ IsJson(v)
  /\ \/ Kind(Parsed(v)) = kind
     \/ kind = "bool" /\ Parsed(v) \in {Value("number", 0), Value("number", 1)}

\* v as a value of the given kind
Cast(kind, v) ==
  CASE kind = Kind(v) -> v
    [] kind = "string" -> Text(v)
    [] kind = "bool" /\ Kind(v) = "number" -> Value("bool", Of(v) >= 1)
    [] kind = "number" /\ Kind(v) = "bool" -> Value("number", IF Of(v) THEN 1 ELSE 0)

Scalars == {"string", "bool", "number"}

\* setVarOnPath with an empty path: the element takes the value if a conversion is known
Convert(element, value) ==
  LET kind == Kind(element) IN
  CASE kind \in Scalars /\ Kind(value) \in Scalars /\ (Kind(value) = "string" => kind = "string") ->
         [ok |-> TRUE, result |-> Cast(kind, value)]
    [] kind \in {"bool", "number"} /\ ParsesAs(kind, value) ->
         [ok |-> TRUE, result |-> Cast(kind, Parsed(value))]
    \* a failed parse returns the zero value beside its error
    [] kind = "bool" /\ Kind(value) = "string" /\ ~ParsesAs(kind, value) ->
         [ok |-> FALSE, result |-> Value("bool", FALSE)]
    [] kind = "number" /\ Kind(value) = "string" /\ ~ParsesAs(kind, value) ->
         [ok |-> FALSE, result |-> Value("number", 0)]
    \* the reflected container cannot be set: a panic, recovered with a result of nil
    [] IsContainer(element) /\ IsJson(value) -> [ok |-> FALSE, result |-> Null]
    \* "unknown element type", "unknown value type": the value beside the error
    [] OTHER -> [ok |-> FALSE, result |-> value]

\* mutant: the error of the element is not looked at
RECURSIVE SetVarUnchecked(_, _, _)
SetVarUnchecked(element, path, value) ==
  IF path = <<>> THEN Convert(element, value)
  ELSE IF IsContainer(element) /\ Head(path) \in DOMAIN Of(element)
  THEN LET sub == SetVarUnchecked(Of(element)[Head(path)], Tail(path), value) IN
       [ok |-> sub.ok, result |-> Value(Kind(element), [Of(element) EXCEPT ![Head(path)] = sub.result])]
  ELSE [ok |-> FALSE, result |-> element]

\* setVarOnPath: an element on the path that is missing or no container is an error or a
\* recovered panic, as an error further down it leaves this element as it is
RECURSIVE SetVarOnPath(_, _, _)
SetVarOnPath(element, path, value) ==
  IF path = <<>> THEN Convert(element, value)
  ELSE IF IsContainer(element) /\ Head(path) \in DOMAIN Of(element)
  THEN LET sub == SetVarOnPath(Of(element)[Head(path)], Tail(path), value) IN
       IF sub.ok
       THEN [ok |-> TRUE, result |-> Value(Kind(element), [Of(element) EXCEPT ![Head(path)] = sub.result])]
       ELSE [ok |-> FALSE, result |-> element]
  ELSE [ok |-> FALSE, result |-> element]

\* setPayloadParameter, one parameter: a map or list is changed in place, the whole input is
\* assigned with or without an error
SetParameter(input, path, value) == SetVarOnPath(input, path, value).result

-----------------------------------------------------------------------------
\* reference: the input with every scalar replaced that a parameter addresses and fits
RECURSIVE Overridden(_, _, _)
Overridden(element, path, parameters) ==
  CASE IsContainer(element) ->
         Value(Kind(element), [k \in DOMAIN Of(element) |->
                                 Overridden(Of(element)[k], Append(path, k), parameters)])
    [] ~IsContainer(element) /\ path \in DOMAIN parameters /\ Convert(element, parameters[path]).ok ->
         Convert(element, parameters[path]).result
    [] OTHER -> element
=============================================================================
