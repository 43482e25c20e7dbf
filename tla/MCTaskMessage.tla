---------------------------- MODULE MCTaskMessage ----------------------------
(* Instances of TaskMessage for TLC.                                        *)
EXTENDS TaskMessage

Number(n) == Value("number", n)
Yes == Value("bool", TRUE)
MapOf(f) == Value("map", f)

Inputs ==
  {Null, Number(5),
   MapOf((1 :> Number(5)) @@ (2 :> MapOf((1 :> Yes) @@ (2 :> Plain("a"))))),
   MapOf(1 :> Value("list", (0 :> Number(5)) @@ (1 :> Yes)))}

\* a number, a bool, a text of a number, a text of a text of a number, a text that is no
\* JSON, a map and a text of a text of a map
Variables ==
  {Number(7), Value("bool", FALSE), Text(Number(1)), Text(Text(Number(1))), Plain("b"),
   MapOf(1 :> Number(7)), Text(Text(MapOf(1 :> Number(7))))}

Paths == {<<>>, <<1>>, <<1, 0>>, <<1, 1>>, <<2, 1>>, <<2, 2>>, <<3>>}

\* at most two variables
VariableSets == UNION {[P -> Variables] : P \in UNION {kSubset(n, Paths) : n \in 0..2}}

Base == [controlling |-> TRUE, interaction |-> "request", preferEvent |-> FALSE, version |-> 3,
         concept |-> FALSE, inputPaths |-> FALSE, input |-> Null, variables |-> <<>>, outputs |-> <<>>]

InputCommands ==
  {[Base EXCEPT !.input = i, !.variables = v] : i \in Inputs, v \in VariableSets}

Var(n, subs) == [name |-> n, list |-> FALSE, subs |-> subs]
ListOf(n, subs) == [name |-> n, list |-> TRUE, subs |-> subs]
Leaves == <<Var(2, <<>>), Var(1, <<>>)>>

\* structures, lists and empty names at the root and below
ContentVariables(n) ==
  {Var(n, <<>>), Var(n, Leaves), ListOf(n, Leaves), Var(0, Leaves),
   Var(n, <<Var(3, Leaves), ListOf(2, <<>>), Var(1, <<>>)>>),
   Var(n, <<Var(0, Leaves), ListOf(2, <<>>)>>)}

Outputs ==
  {<<[variable |-> v, segment |-> 1, known |-> TRUE], [variable |-> w, segment |-> s, known |-> k]>> :
     v \in ContentVariables(1), w \in ContentVariables(2), s \in {0, 2}, k \in BOOLEAN}

EventCommands ==
  {[Base EXCEPT !.controlling = FALSE, !.interaction = "event_and_request", !.preferEvent = p, !.outputs = o] :
     p \in BOOLEAN, o \in Outputs}
  \cup {[Base EXCEPT !.controlling = c, !.interaction = "event", !.version = 2, !.input = Number(5)] : c \in BOOLEAN}

\* one variable that fits and one that does not
MisfitCommands ==
  {[Base EXCEPT !.input = MapOf((1 :> Number(5)) @@ (2 :> Number(5))), !.variables = v] :
     v \in {(<<1>> :> Number(7)) @@ (<<2>> :> Plain("b"))}}

AllCommands == InputCommands \cup EventCommands
==============================================================================
