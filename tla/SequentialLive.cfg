\* one goroutine, sequential: any message may be lost, nothing fails
CONSTANTS
  t1 = t1
  t2 = t2
  t3 = t3
  c1 = c1
  c2 = c2
  Tasks = {t1}
  SubTasks = {c1, c2}
  Parent <- GroupParent
  Pos <- GroupPos
  Payload <- GroupPayload
  Events = {}
  Scheduler = "sequential"
  Optimistic = FALSE
  Retries = 1
  Memcached = FALSE
  Handlers = {g1}
  None = None
  MaxFaults = 0
  MaxFetches <- Unbounded
SPECIFICATION Spec
INVARIANTS NoLeftovers OutcomesAgree GroupOrder
PROPERTIES EveryTaskEnds
\* the system stops when no task is open
CHECK_DEADLOCK FALSE
