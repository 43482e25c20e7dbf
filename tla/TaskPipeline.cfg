\* one task, two batch workers, two shards, channels of one, two hanging tasks, failures or shutdowns;
\* no responses
CONSTANTS
  t1 = t1
  s1 = s1
  s2 = s2
  c1 = c1
  c2 = c2
  c3 = c3
  kafka1 = kafka1
  http1 = http1
  Last = 0
  Posts = 0
  Workers = {w1}
  MaxFaults = 2
  Tasks = {t1}
  Shards = {s1, s2}
  ShardOf <- OneTask
  BatchWorkers = {b1, b2}
  ChannelSize = 1
  MaxTasks = 2
  FetchRetries = 1
  Commands = {}
  TopicOf <- None
  HostOf <- None
  HttpTopics = {http1}
SPECIFICATION MCSpec
INVARIANT DrainedOnExit
PROPERTIES ShutdownEnds EveryTaskIsRun
\* the system stops when every task is done
CHECK_DEADLOCK FALSE
