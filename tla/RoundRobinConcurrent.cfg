\* two goroutines on a round robin group with one retry
CONSTANTS
  t1 = t1
  t2 = t2
  t3 = t3
  c1 = c1
  c2 = c2
  Tasks = {t1}
  SubTasks = {c1, c2}
  Parent <- GroupParent
  Pos <- GroupPos
  Payload <- GroupPayload
  Events = {}
  Scheduler = "round_robin"
  Optimistic = FALSE
  Retries = 1
  Memcached = FALSE
  Handlers = {g1, g2}
  None = None
  MaxFaults = 0
  MaxFetches <- Twice
SPECIFICATION Safety
SYMMETRY Symmetry
INVARIANT RoundRobinCoverage
\* the system stops when no task is open
CHECK_DEADLOCK FALSE
