\* a redelivery between the clear and the complete of a finished group
CONSTANTS
  t1 = t1
  t2 = t2
  t3 = t3
  c1 = c1
  c2 = c2
  Tasks = {t1}
  SubTasks = {c1, c2}
  Parent <- GroupParent
  Pos <- GroupPos
  Payload <- GroupPayload
  Events = {}
  Scheduler = "sequential"
  Optimistic = FALSE
  Retries = 0
  Memcached = FALSE
  Handlers = {g1, g2}
  None = None
  MaxFaults = 0
  MaxFetches <- Twice
SPECIFICATION Safety
SYMMETRY Symmetry
INVARIANTS OutcomesAgree
\* the system stops when no task is open
CHECK_DEADLOCK FALSE
