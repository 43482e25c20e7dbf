\* one goroutine, parallel: restarts of the LocalDb, failed calls, lost messages
CONSTANTS
  t1 = t1
  t2 = t2
  t3 = t3
  c1 = c1
  c2 = c2
  Tasks = {t1}
  SubTasks = {c1, c2}
  Parent <- GroupParent
  Pos <- GroupPos
  Payload <- GroupPayload
  Events = {}
  Scheduler = "parallel"
  Optimistic = FALSE
  Retries = 1
  Memcached = FALSE
  Handlers = {g1}
  None = None
  MaxFaults = 1
  MaxFetches <- Unbounded
SPECIFICATION Spec
INVARIANT TypeOK
PROPERTIES EveryTaskEnds
\* the system stops when no task is open
CHECK_DEADLOCK FALSE
