\* an input with two numbers, one variable that fits and one that does not
CONSTANTS
  Commands <- MisfitCommands
  HandleMissingLastValueTimeAsError = FALSE
SPECIFICATION Spec
INVARIANTS IgnoredIsIgnored
\* the system stops when the message is sent or the task rejected
CHECK_DEADLOCK FALSE
