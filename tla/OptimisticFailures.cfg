\* the optimistic strategy with one failure: a group, and a task that asks for an incident
CONSTANTS
  t1 = t1
  t2 = t2
  t3 = t3
  c1 = c1
  c2 = c2
  Tasks = {t1, t3}
  SubTasks = {c1, c2}
  Parent <- GroupParent
  Pos <- OptimisticPos
  Payload <- OptimisticPayload
  Events = {}
  Scheduler = "parallel"
  Optimistic = TRUE
  Retries = 0
  Memcached = FALSE
  Handlers = {g1, g2}
  None = None
  MaxFaults = 1
  MaxFetches <- Twice
SPECIFICATION Safety
SYMMETRY Symmetry
INVARIANTS CommandsFollowCompletion
\* the system stops when no task is open
CHECK_DEADLOCK FALSE
