----------------------------- MODULE TopicMutex -----------------------------
(***************************************************************************)
(* lib/camunda/topicmutex.go.  A map from topics to mutexes, guarded by a  *)
(* global mutex, that creates the mutex of a topic with its first user and *)
(* deletes it with its last.  `count` and `mux` are the two Go maps (0 and *)
(* NoMutex stand for an absent key), `owner` the lock state of each        *)
(* *sync.Mutex object, `mine` the pointer a goroutine took out of the map, *)
(* `global` the goroutine inside the global mutex.                         *)
(***************************************************************************)
EXTENDS Integers, FiniteSets

CONSTANTS Threads, Topics, Mutexes, NoThread, NoTopic, NoMutex

ASSUME ThreadsAssumption == IsFiniteSet(Threads) /\ NoThread \notin Threads
ASSUME TopicsAssumption == NoTopic \notin Topics
ASSUME MutexesAssumption == NoMutex \notin Mutexes

VARIABLES global, count, mux, owner, pc, topic, mine,
          fatal    \* Go's "sync: unlock of unlocked mutex"

vars == <<global, count, mux, owner, pc, topic, mine, fatal>>

Init ==
  /\ global = NoThread
  /\ count = [t \in Topics |-> 0]
  /\ mux = [t \in Topics |-> NoMutex]
  /\ owner = [m \in Mutexes |-> NoThread]
  /\ pc = [g \in Threads |-> "idle"]
  /\ topic = [g \in Threads |-> NoTopic]
  /\ mine = [g \in Threads |-> NoMutex]
  /\ fatal = FALSE

-----------------------------------------------------------------------------
(* Lock(topic)                                                             *)

CallLock(g, t) ==
  /\ pc[g] = "idle"
  /\ pc' = [pc EXCEPT ![g] = "lock"]
  /\ topic' = [topic EXCEPT ![g] = t]
  /\ UNCHANGED <<global, count, mux, owner, mine, fatal>>

LockGlobal(g) ==
  /\ pc[g] = "lock"
  /\ global = NoThread
  /\ global' = g
  /\ pc' = [pc EXCEPT ![g] = "locking"]
  /\ UNCHANGED <<count, mux, owner, topic, mine, fatal>>

\* mutant: the waiting goroutine is not counted
JoinMuxUncounted(g) ==
  /\ pc[g] = "locking"
  /\ mux[topic[g]] # NoMutex
  /\ mine' = [mine EXCEPT ![g] = mux[topic[g]]]
  /\ global' = NoThread
  /\ pc' = [pc EXCEPT ![g] = "waiting"]
  /\ UNCHANGED <<count, mux, owner, topic, fatal>>

\* the topic has a mutex: take the pointer, leave the global mutex, then wait
JoinMux(g) ==
  /\ pc[g] = "locking"
  /\ mux[topic[g]] # NoMutex
  /\ count' = [count EXCEPT ![topic[g]] = @ + 1]
  /\ mine' = [mine EXCEPT ![g] = mux[topic[g]]]
  /\ global' = NoThread
  /\ pc' = [pc EXCEPT ![g] = "waiting"]
  /\ UNCHANGED <<mux, owner, topic, fatal>>

\* &sync.Mutex{}: an object no map entry and no goroutine refers to
Fresh(m) == /\ \A t \in Topics : mux[t] # m
            /\ \A g \in Threads : mine[g] # m

\* mutant: the global mutex is released before the new mutex is locked
CreateMuxUnguarded(g) ==
  /\ pc[g] = "locking"
  /\ mux[topic[g]] = NoMutex
  /\ \E m \in Mutexes :
       /\ Fresh(m)
       /\ mux' = [mux EXCEPT ![topic[g]] = m]
       /\ mine' = [mine EXCEPT ![g] = m]
       /\ owner' = [owner EXCEPT ![m] = NoThread]
  /\ count' = [count EXCEPT ![topic[g]] = @ + 1]
  /\ pc' = [pc EXCEPT ![g] = "owning"]
  /\ global' = NoThread
  /\ UNCHANGED <<topic, fatal>>

CreateMux(g) ==
  /\ pc[g] = "locking"
  /\ mux[topic[g]] = NoMutex
  /\ \E m \in Mutexes :
       /\ Fresh(m)
       /\ mux' = [mux EXCEPT ![topic[g]] = m]
       /\ mine' = [mine EXCEPT ![g] = m]
       /\ owner' = [owner EXCEPT ![m] = NoThread]
  /\ count' = [count EXCEPT ![topic[g]] = @ + 1]
  /\ pc' = [pc EXCEPT ![g] = "owning"]
  /\ UNCHANGED <<global, topic, fatal>>

\* mux.Lock() of the creator, which still holds the global mutex
OwnMux(g) ==
  /\ pc[g] = "owning"
  /\ owner[mine[g]] = NoThread
  /\ owner' = [owner EXCEPT ![mine[g]] = g]
  /\ global' = NoThread
  /\ pc' = [pc EXCEPT ![g] = "holding"]
  /\ UNCHANGED <<count, mux, topic, mine, fatal>>

\* mutant: the waiter takes the mutex without waiting
WaitMuxTwice(g) ==
  /\ pc[g] = "waiting"
  /\ owner' = [owner EXCEPT ![mine[g]] = g]
  /\ pc' = [pc EXCEPT ![g] = "holding"]
  /\ UNCHANGED <<global, count, mux, topic, mine, fatal>>

\* mux.Lock() of a goroutine that found the mutex in the map
WaitMux(g) ==
  /\ pc[g] = "waiting"
  /\ owner[mine[g]] = NoThread
  /\ owner' = [owner EXCEPT ![mine[g]] = g]
  /\ pc' = [pc EXCEPT ![g] = "holding"]
  /\ UNCHANGED <<global, count, mux, topic, mine, fatal>>

-----------------------------------------------------------------------------
(* Unlock(topic)                                                           *)

UnlockGlobal(g) ==
  /\ pc[g] = "holding"
  /\ global = NoThread
  /\ global' = g
  /\ pc' = [pc EXCEPT ![g] = "unlocking"]
  /\ UNCHANGED <<count, mux, owner, topic, mine, fatal>>

\* mutants: the entry is deleted while one goroutine still waits; never deleted
LastUserTooEarly(t) == count[t] - 1 < 2
LastUserNever(t) == count[t] - 1 < 0

LastUser(t) == count[t] - 1 < 1

\* mutant: the count is read again after its entry was deleted
UnlockDeletedCount(g) ==
  LET t == topic[g] IN
  /\ pc[g] = "unlocking"
  /\ count' = [count EXCEPT ![t] = IF LastUser(t) THEN -1 ELSE @ - 1]
  /\ mux' = [mux EXCEPT ![t] = IF LastUser(t) THEN NoMutex ELSE @]
  /\ owner' = [owner EXCEPT ![mux[t]] = NoThread]
  /\ global' = NoThread
  /\ pc' = [pc EXCEPT ![g] = "idle"]
  /\ topic' = [topic EXCEPT ![g] = NoTopic]
  /\ mine' = [mine EXCEPT ![g] = NoMutex]
  /\ UNCHANGED fatal

\* mutant: a goroutine leaves without unlocking the mutex of a topic still in use
UnlockForgotten(g) ==
  LET t == topic[g] IN
  /\ pc[g] = "unlocking"
  /\ count' = [count EXCEPT ![t] = IF LastUser(t) THEN 0 ELSE @ - 1]
  /\ mux' = [mux EXCEPT ![t] = IF LastUser(t) THEN NoMutex ELSE @]
  /\ global' = NoThread
  /\ pc' = [pc EXCEPT ![g] = "idle"]
  /\ topic' = [topic EXCEPT ![g] = NoTopic]
  /\ mine' = [mine EXCEPT ![g] = NoMutex]
  /\ UNCHANGED <<owner, fatal>>

\* one step: the global mutex guards all of it and nothing in it blocks
Unlock(g) ==
  LET t == topic[g] IN
  /\ pc[g] = "unlocking"
  /\ count' = [count EXCEPT ![t] = IF LastUser(t) THEN 0 ELSE @ - 1]
  /\ mux' = [mux EXCEPT ![t] = IF LastUser(t) THEN NoMutex ELSE @]
  /\ owner' = IF mux[t] = NoMutex THEN owner ELSE [owner EXCEPT ![mux[t]] = NoThread]
  /\ fatal' = (fatal \/ (mux[t] # NoMutex /\ owner[mux[t]] = NoThread))
  /\ global' = NoThread
  /\ pc' = [pc EXCEPT ![g] = "idle"]
  /\ topic' = [topic EXCEPT ![g] = NoTopic]
  /\ mine' = [mine EXCEPT ![g] = NoMutex]

-----------------------------------------------------------------------------
Next == \E g \in Threads :
          \/ \E t \in Topics : CallLock(g, t)
          \/ LockGlobal(g) \/ JoinMux(g) \/ CreateMux(g) \/ OwnMux(g) \/ WaitMux(g)
          \/ UnlockGlobal(g) \/ Unlock(g)

Safety == Init /\ [][Next]_vars

(* sync.Mutex hands a mutex to a waiter that has waited long enough (its   *)
(* starvation mode), hence SF for the steps that take one; the critical    *)
(* section of CompleteTask ends because its HTTP client has a timeout.     *)
Fairness(g) ==
  /\ SF_vars(LockGlobal(g)) /\ SF_vars(WaitMux(g)) /\ SF_vars(UnlockGlobal(g))
  /\ WF_vars(JoinMux(g)) /\ WF_vars(CreateMux(g)) /\ WF_vars(OwnMux(g))
  /\ WF_vars(Unlock(g))

Spec == Safety /\ \A g \in Threads : Fairness(g)

-----------------------------------------------------------------------------
PCs == {"idle", "lock", "locking", "owning", "waiting", "holding", "unlocking"}

(* Types of the state. *)
TypeOK ==
  /\ global \in Threads \cup {NoThread}
  /\ count \in [Topics -> Nat]
  /\ mux \in [Topics -> Mutexes \cup {NoMutex}]
  /\ owner \in [Mutexes -> Threads \cup {NoThread}]
  /\ pc \in [Threads -> PCs]
  /\ topic \in [Threads -> Topics \cup {NoTopic}]
  /\ mine \in [Threads -> Mutexes \cup {NoMutex}]
  /\ fatal \in BOOLEAN

Inside(g) == pc[g] \in {"holding", "unlocking"}
Users(t) == {g \in Threads : topic[g] = t /\ pc[g] \in {"owning", "waiting", "holding", "unlocking"}}

(* Two goroutines are never both inside the section of one topic, however  *)
(* often its mutex was deleted and created again in between.               *)
MutualExclusion ==
  \A g, h \in Threads : Inside(g) /\ Inside(h) /\ topic[g] = topic[h] => g = h

(* Unlock never unlocks a mutex nobody holds (Go would abort the program)  *)
(* and never misses the entry of its topic, which would leave the mutex    *)
(* locked for good: the last user and nobody earlier deletes the entry.    *)
UnlockIsSafe ==
  /\ ~fatal
  /\ \A g \in Threads : Inside(g) => mux[topic[g]] = mine[g] /\ owner[mine[g]] = g

(* The maps hold an entry for exactly the topics in use, with the number of *)
(* users: they neither leak entries nor forget a waiting goroutine.        *)
EntriesMatchUsers ==
  \A t \in Topics : /\ count[t] = Cardinality(Users(t))
                    /\ mux[t] = NoMutex <=> Users(t) = {}

(* The creator locks its mutex while it holds the global one; that never   *)
(* blocks, so no topic can hold up the others through the global mutex.    *)
CreatorNeverWaits == \A g \in Threads : pc[g] = "owning" => owner[mine[g]] = NoThread

(* Every goroutine that calls Lock gets the lock. *)
LockIsGranted == \A g \in Threads : pc[g] = "lock" ~> pc[g] = "holding"

(* The code keeps the promise of the per-topic lock, with its liveness.    *)
Phase(g) == CASE pc[g] = "idle" -> "idle"
              [] Inside(g) -> "holding"
              [] OTHER -> "waiting"
Abstract == INSTANCE TopicLock WITH phase <- [g \in Threads |-> Phase(g)]
ImplementsTopicLock == Abstract!Spec

=============================================================================
