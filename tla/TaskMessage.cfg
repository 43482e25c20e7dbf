\* inputs with up to two variables, and events with two outputs; three calls on two shards;
\* two tasks with devices of one type
CONSTANTS
  Commands <- AllCommands
  HandleMissingLastValueTimeAsError = FALSE
  caller1 = caller1  caller2 = caller2  caller3 = caller3
  process1 = process1  process2 = process2
  Users = {a1, a2}
  Shards = {b1, b2}
  Processes = {process1, process2}
  Callers = {caller1, caller2, caller3}
  ProcessOf <- TwoProcesses
  NoShard = NoShard
  MaxErrors = 1
  Readers = {a1, a2}
  Services = {service1}
  CacheTimeout = 2
  RequestTimeout = 1
  Lifetimes = {1, 3}
  Margin = 2
  MaxVersion = 1
SPECIFICATION MCSpec
SYMMETRY Symmetric
INVARIANTS CommandCarriesInput EventIsLastValue CompleteAnswerIsUsed
INVARIANTS StaleShardHasReason AssignmentsAgree Balanced
INVARIANTS ServiceStaleness InvalidatedIsForgotten TokenIsValid
\* each of them stops when its work is done
CHECK_DEADLOCK FALSE
