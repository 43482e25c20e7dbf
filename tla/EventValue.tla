----------------------------- MODULE EventValue -----------------------------
(***************************************************************************)
(* The last value of an event: the columns that are asked for, what is     *)
(* made of the answer of the timescale wrapper, and the message that is    *)
(* put together from it (lib/event.go, lib/timescale/timescale.go).        *)
(*                                                                         *)
(* An output of a service has a content variable, a tree [name, list,      *)
(* subs], the segment of the protocol it belongs to, 0 if the protocol has *)
(* none with this id, and says if its serialization is known.  Names are   *)
(* numbers, 0 for the empty name, and a column is the sequence of names    *)
(* that the code joins with dots.  A part of a message is a value, 0 for   *)
(* null, or a map from names to parts.                                     *)
(***************************************************************************)
EXTENDS Integers, SequencesExt

Leaf(value) == <<"value", value>>
Map(of) == <<"map", of>>

\* getContentPaths: nothing below an empty name or a list
RECURSIVE ContentPaths(_, _)
ContentPaths(current, variable) ==
  CASE variable.name = 0 \/ variable.list -> <<>>
    [] variable.name # 0 /\ ~variable.list /\ variable.subs = <<>> -> <<Append(current, variable.name)>>
    [] OTHER -> FlattenSeq([i \in DOMAIN variable.subs |->
                              ContentPaths(Append(current, variable.name), variable.subs[i])])

\* createTimescaleRequest, and CastRequest: the columns of the one device and service
Columns(outputs) == FlattenSeq([i \in DOMAIN outputs |-> ContentPaths(<<>>, outputs[i].variable)])

\* one query, none without columns
Query(columns) == IF columns = <<>> THEN <<>> ELSE <<columns>>

\* of equal columns the last one counts
Index(columns, c) == SelectLastInSeq(columns, LAMBDA x : x = c)

\* mutant: the timestamp is counted twice
ColumnIndexTooFar(columns, c) == Index(columns, c) + 2

\* getIndexes: the place of a column in a row, after the timestamp
ColumnIndex(columns, c) == Index(columns, c) + 1

\* castQueryResponse, one column: the answer holds a table for the query, the table one row.
\* The bounds that the code checks are too wide by two, so that a short answer panics
CastColumn(columns, response, c) ==
  CASE response = <<>> -> "panic"
    [] response # <<>> /\ Len(response[1]) # 1 -> "null"
    [] response # <<>> /\ Len(response[1]) = 1 ->
         LET row == response[1][1]
             j == ColumnIndex(columns, c)
         IN CASE Len(row) + 2 < j -> "error"
              [] Len(row) < j /\ j <= Len(row) + 2 -> "panic"
              [] OTHER -> "value"

Values(columns, response) ==
  [i \in DOMAIN columns |->
     IF CastColumn(columns, response, columns[i]) = "null" THEN 0
     ELSE response[1][1][ColumnIndex(columns, columns[i])]]

\* the columns are cast in their order, the first that fails ends it
CastResponse(columns, response) ==
  LET failed == {i \in DOMAIN columns : CastColumn(columns, response, columns[i]) \in {"panic", "error"}}
  IN IF failed = {} THEN "ok"
     ELSE CastColumn(columns, response, columns[CHOOSE i \in failed : \A k \in failed : i <= k])

\* mutant: a map that is there is replaced
RECURSIVE SetPathFresh(_, _, _)
SetPathFresh(orig, path, value) ==
  [n \in DOMAIN orig \cup {Head(path)} |->
     IF n # Head(path) THEN orig[n]
     ELSE IF Len(path) = 1 THEN Leaf(value)
     ELSE Map(SetPathFresh(<<>>, Tail(path), value))]

\* setPath: a part on the way that is no map keeps its value
RECURSIVE SetPath(_, _, _)
SetPath(orig, path, value) ==
  [n \in DOMAIN orig \cup {Head(path)} |->
     IF n # Head(path) THEN orig[n]
     ELSE IF Len(path) = 1 THEN Leaf(value)
     ELSE IF n \notin DOMAIN orig THEN Map(SetPath(<<>>, Tail(path), value))
     ELSE IF orig[n][1] # "map" THEN orig[n]
     ELSE Map(SetPath(orig[n][2], Tail(path), value))]

\* sort.Strings: a prefix comes first
RECURSIVE Before(_, _)
Before(p, q) ==
  \/ p = <<>> /\ q # <<>>
  \/ /\ p # <<>> /\ q # <<>>
     /\ Head(p) < Head(q) \/ (Head(p) = Head(q) /\ Before(Tail(p), Tail(q)))

\* getTimescaleValue: the values of the columns, put into a tree
TimescaleValue(columns, values) ==
  FoldLeft(LAMBDA tree, c : SetPath(tree, c, values[Index(columns, c)]), <<>>,
           SetToSortSeq({columns[i] : i \in DOMAIN columns}, Before))

\* an output that has a value and a segment to be put in
Present(outputs, tree, i) ==
  /\ outputs[i].segment # 0
  /\ outputs[i].variable.name \in DOMAIN tree
  /\ tree[outputs[i].variable.name] # Leaf(0)

\* createEventValueFromTimescaleValues, marshalSegmentValue
Marshals(outputs, tree) == \A i \in DOMAIN outputs : Present(outputs, tree, i) => outputs[i].known

Message(outputs, tree) ==
  LET filled == {i \in DOMAIN outputs : Present(outputs, tree, i)} IN
  [s \in {outputs[i].segment : i \in filled} |->
     \* of two outputs for a segment the last one counts
     LET last == Max({i \in filled : outputs[i].segment = s}) IN
     tree[outputs[last].variable.name]]

-----------------------------------------------------------------------------
\* reference: the last value of a variable, read off its tree; stored is a function of the paths
HasValue(variable) == ContentPaths(<<>>, variable) # <<>>

RECURSIVE LastValue(_, _, _)
LastValue(current, variable, stored) ==
  LET path == Append(current, variable.name) IN
  IF variable.subs = <<>> THEN Leaf(stored[path])
  ELSE LET subs == {i \in DOMAIN variable.subs : HasValue(variable.subs[i])} IN
       Map([n \in {variable.subs[i].name : i \in subs} |->
              LastValue(path, variable.subs[CHOOSE i \in subs : variable.subs[i].name = n], stored)])
=============================================================================
