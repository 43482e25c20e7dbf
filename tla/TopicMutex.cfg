\* three goroutines on two topics: join, create, delete and re-create
CONSTANTS
  Threads = {g1, g2, g3}
  Topics = {t1, t2}
  Mutexes = {m1, m2}
  NoThread = NoThread
  NoTopic = NoTopic
  NoMutex = NoMutex
SPECIFICATION Spec
INVARIANTS MutualExclusion UnlockIsSafe EntriesMatchUsers CreatorNeverWaits
PROPERTIES LockIsGranted ImplementsTopicLock
