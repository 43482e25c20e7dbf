\* a group with an event and a single device, on memcached, with a restart, a store error,
\* an expired entry or a failed call
CONSTANTS
  t1 = t1
  t2 = t2
  t3 = t3
  c1 = c1
  c2 = c2
  Tasks = {t1, t2}
  SubTasks = {c1, c2, t2}
  Parent <- MixedParent
  Pos <- MixedPos
  Payload <- MixedPayload
  Events = {c1}
  Scheduler = "sequential"
  Optimistic = FALSE
  Retries = 0
  Memcached = TRUE
  Handlers = {g1}
  None = None
  MaxFaults = 1
  MaxFetches <- MixedFetches
SPECIFICATION Safety
SYMMETRY Symmetry
INVARIANTS CompletionIsComplete GivesUpAfterRetries RetriesAreRespected
PROPERTY ImplementsTaskPromise
\* the system stops when no task is open
CHECK_DEADLOCK FALSE
