\* five responses from Kafka, or two posts, with two workers, or three messages to be sent;
\* one failure or shutdown; no shards
CONSTANTS
  t1 = t1
  s1 = s1
  s2 = s2
  c1 = c1
  c2 = c2
  c3 = c3
  kafka1 = kafka1
  http1 = http1
  Last = 5
  Posts = 2
  Workers = {w1, w2}
  MaxFaults = 1
  Tasks = {}
  Shards = {}
  ShardOf <- None
  BatchWorkers = {b1}
  ChannelSize = 1
  MaxTasks = 1
  FetchRetries = 0
  Commands = {c1, c2, c3}
  TopicOf <- Destinations
  HostOf <- Senders
  HttpTopics = {http1}
SPECIFICATION MCSpec
INVARIANTS TypeOK ResponsesAreAccounted AcceptedPostIsHeld RejectedPostIsFree AcceptedCommandsExist KnownTopicsExist
PROPERTIES LossIsBounded NoSilentLoss SendsEnd EveryResponseEnds
\* the system stops when everything is done
CHECK_DEADLOCK FALSE
