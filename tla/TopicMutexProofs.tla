-------------------------- MODULE TopicMutexProofs --------------------------
(***************************************************************************)
(* TopicMutex for every number of goroutines, topics and mutex objects:    *)
(* the inductive invariant, mutual exclusion, the freedom from leaks, and  *)
(* that every step is a step of TopicLock or changes nothing it sees.      *)
(***************************************************************************)
EXTENDS TopicMutex, FiniteSetTheorems, TLAPS

Counted == {"owning", "waiting", "holding", "unlocking"}

\* a goroutine without a topic is idle; one that was counted has the pointer
\* the map holds for its topic
Pointers ==
  \A g \in Threads :
    /\ pc[g] = "idle" <=> topic[g] = NoTopic
    /\ pc[g] \in Counted => mine[g] = mux[topic[g]] /\ mine[g] # NoMutex
    /\ pc[g] \notin Counted => mine[g] = NoMutex

GlobalHeld ==
  \A g \in Threads : global = g <=> pc[g] \in {"locking", "owning", "unlocking"}

DistinctMutexes ==
  \A t, u \in Topics : mux[t] = mux[u] /\ mux[t] # NoMutex => t = u

Owners ==
  /\ \A g \in Threads : Inside(g) => owner[mine[g]] = g
  /\ \A m \in Mutexes, g \in Threads : owner[m] = g => Inside(g) /\ mine[g] = m

\* nobody can have joined while the creator holds the global mutex
CreatorIsAlone ==
  \A g, h \in Threads : pc[g] = "owning" /\ mine[h] = mine[g] => h = g

IInv == /\ TypeOK /\ Pointers /\ GlobalHeld /\ DistinctMutexes /\ Owners
        /\ CreatorIsAlone /\ EntriesMatchUsers /\ ~fatal

-----------------------------------------------------------------------------
(* The users of a topic are a finite set, counted by the length of count[t]. *)
LEMMA UsersFinite ==
  \A t \in Topics : IsFiniteSet(Users(t)) /\ Cardinality(Users(t)) \in Nat
<1> TAKE t \in Topics
<1>1. Users(t) \subseteq Threads
  BY DEF Users
<1>2. IsFiniteSet(Users(t))
  BY <1>1, FS_Subset, ThreadsAssumption
<1> QED BY <1>2, FS_CardinalityType

(* A finite set is the singleton of one of its elements iff it has one.      *)
LEMMA OneElement ==
  ASSUME NEW S, IsFiniteSet(S), NEW x \in S
  PROVE  /\ Cardinality(S) \in Nat /\ Cardinality(S) >= 1
         /\ Cardinality(S) = 1 <=> S = {x}
         /\ IsFiniteSet(S \ {x}) /\ Cardinality(S \ {x}) = Cardinality(S) - 1
<1>1. IsFiniteSet(S \ {x}) /\ Cardinality(S \ {x}) = Cardinality(S) - 1
  BY FS_RemoveElement
<1>2. Cardinality(S) \in Nat /\ Cardinality(S \ {x}) \in Nat
  BY <1>1, FS_CardinalityType
<1>3. Cardinality(S \ {x}) = 0 <=> S \ {x} = {}
  BY <1>1, FS_EmptySet
<1> QED BY <1>1, <1>2, <1>3

(* Unlock finds its goroutine counted, and the count is 1 exactly when no     *)
(* other goroutine waits for the topic.                                       *)
LEMMA LastUserIsAlone ==
  ASSUME IInv, NEW g \in Threads, pc[g] = "unlocking"
  PROVE  /\ topic[g] \in Topics
         /\ g \in Users(topic[g])
         /\ count[topic[g]] \in Nat /\ count[topic[g]] >= 1
         /\ LastUser(topic[g]) <=> Users(topic[g]) = {g}
<1>1. topic[g] \in Topics /\ g \in Users(topic[g])
  BY DEF IInv, TypeOK, Pointers, Users
<1>2. IsFiniteSet(Users(topic[g])) /\ count[topic[g]] = Cardinality(Users(topic[g]))
  BY <1>1, UsersFinite DEF IInv, EntriesMatchUsers
<1>3. /\ count[topic[g]] \in Nat /\ count[topic[g]] >= 1
      /\ count[topic[g]] = 1 <=> Users(topic[g]) = {g}
  BY <1>1, <1>2, OneElement
<1> QED BY <1>1, <1>3 DEF LastUser

-----------------------------------------------------------------------------
(* The initial states satisfy the invariant. *)
LEMMA InitInv == Init => IInv
<1> SUFFICES ASSUME Init PROVE IInv
  OBVIOUS
<1>1. TypeOK
  BY DEF Init, TypeOK, PCs
<1>2. \A t \in Topics : Users(t) = {}
  BY DEF Init, Users
<1>3. EntriesMatchUsers
  BY <1>2, FS_EmptySet DEF Init, EntriesMatchUsers
<1> QED
  BY <1>1, <1>3, ThreadsAssumption, MutexesAssumption
  DEF Init, IInv, Pointers, GlobalHeld, DistinctMutexes, Owners, CreatorIsAlone, Inside, Counted

(* Taking or leaving a user changes the count of its topic by one and no other. *)
LEMMA JoinCounts ==
  ASSUME IInv, NEW g \in Threads, pc[g] = "locking",
         topic[g] \in Topics, topic' = topic,
         count' = [count EXCEPT ![topic[g]] = @ + 1],
         NEW p \in {"waiting", "owning"}, pc' = [pc EXCEPT ![g] = p]
  PROVE  /\ \A t \in Topics : count'[t] = Cardinality(Users(t)')
         /\ \A t \in Topics : t # topic[g] => Users(t)' = Users(t)
         /\ g \in Users(topic[g])'
<1>1. g \notin Users(topic[g])
  BY DEF Users
<1>2. Users(topic[g])' = Users(topic[g]) \cup {g}
  BY DEF Users, IInv, TypeOK, PCs
<1>3. \A t \in Topics : t # topic[g] => Users(t)' = Users(t)
  BY DEF Users, IInv, TypeOK, PCs
<1>4. Cardinality(Users(topic[g]) \cup {g}) = Cardinality(Users(topic[g])) + 1
  BY <1>1, UsersFinite, FS_AddElement
<1>5. count'[topic[g]] = Cardinality(Users(topic[g])')
  BY <1>2, <1>4 DEF IInv, EntriesMatchUsers, TypeOK
<1>6. \A t \in Topics : t # topic[g] => count'[t] = Cardinality(Users(t)')
  BY <1>3 DEF IInv, EntriesMatchUsers, TypeOK
<1> QED BY <1>2, <1>3, <1>5, <1>6

LEMMA NextInv == IInv /\ [Next]_vars => IInv'
<1> SUFFICES ASSUME IInv, [Next]_vars PROVE IInv'
  OBVIOUS
<1> USE ThreadsAssumption, TopicsAssumption, MutexesAssumption DEF Counted, Inside, PCs
<1>1. ASSUME NEW g \in Threads, NEW t \in Topics, CallLock(g, t) PROVE IInv'
  <2>1. TypeOK' /\ Pointers' /\ GlobalHeld' /\ DistinctMutexes' /\ CreatorIsAlone' /\ ~fatal'
    BY <1>1 DEF IInv, CallLock, TypeOK, Pointers, GlobalHeld, DistinctMutexes, CreatorIsAlone
  <2>2. Owners'
    BY <1>1 DEF IInv, CallLock, TypeOK, Owners
  <2>3. \A u \in Topics : Users(u)' = Users(u)
    BY <1>1 DEF IInv, CallLock, TypeOK, Users
  <2> QED BY <1>1, <2>1, <2>2, <2>3 DEF IInv, CallLock, EntriesMatchUsers
<1>2. ASSUME NEW g \in Threads, LockGlobal(g) PROVE IInv'
  <2>1. TypeOK' /\ Pointers' /\ GlobalHeld' /\ DistinctMutexes' /\ CreatorIsAlone' /\ ~fatal'
    BY <1>2 DEF IInv, LockGlobal, TypeOK, Pointers, GlobalHeld, DistinctMutexes, CreatorIsAlone
  <2>2. Owners'
    BY <1>2 DEF IInv, LockGlobal, TypeOK, Owners
  <2>3. \A u \in Topics : Users(u)' = Users(u)
    BY <1>2 DEF IInv, LockGlobal, TypeOK, Users
  <2> QED BY <1>2, <2>1, <2>2, <2>3 DEF IInv, LockGlobal, EntriesMatchUsers
<1>3. ASSUME NEW g \in Threads, JoinMux(g) PROVE IInv'
  <2>0. topic[g] \in Topics
    BY <1>3 DEF IInv, JoinMux, TypeOK, Pointers
  <2>1. TypeOK' /\ Pointers' /\ GlobalHeld' /\ DistinctMutexes' /\ ~fatal'
    BY <1>3, <2>0 DEF IInv, JoinMux, TypeOK, Pointers, GlobalHeld, DistinctMutexes
  <2>2. Owners'
    BY <1>3, <2>0 DEF IInv, JoinMux, TypeOK, Owners, Pointers
  <2>3. CreatorIsAlone'
    \* a creator would hold the global mutex g holds
    BY <1>3, <2>0 DEF IInv, JoinMux, TypeOK, CreatorIsAlone, GlobalHeld
  <2>4. EntriesMatchUsers'
    BY <1>3, <2>0, JoinCounts DEF IInv, JoinMux, EntriesMatchUsers
  <2> QED BY <2>1, <2>2, <2>3, <2>4 DEF IInv
<1>4. ASSUME NEW g \in Threads, CreateMux(g) PROVE IInv'
  <2>0. topic[g] \in Topics
    BY <1>4 DEF IInv, CreateMux, TypeOK, Pointers
  <2> PICK m \in Mutexes : /\ Fresh(m)
                           /\ mux' = [mux EXCEPT ![topic[g]] = m]
                           /\ mine' = [mine EXCEPT ![g] = m]
                           /\ owner' = [owner EXCEPT ![m] = NoThread]
    BY <1>4 DEF CreateMux
  <2>1. TypeOK'
    BY <1>4, <2>0 DEF IInv, CreateMux, TypeOK
  <2>2. Users(topic[g]) = {}
    BY <1>4, <2>0 DEF IInv, CreateMux, EntriesMatchUsers
  <2>3. Pointers'
    BY <1>4, <2>0, <2>2 DEF IInv, CreateMux, TypeOK, Pointers, Users
  <2>4. GlobalHeld' /\ DistinctMutexes' /\ ~fatal'
    BY <1>4, <2>0 DEF IInv, CreateMux, TypeOK, GlobalHeld, DistinctMutexes, Fresh
  <2>5. Owners' /\ CreatorIsAlone'
    BY <1>4, <2>0 DEF IInv, CreateMux, TypeOK, Owners, CreatorIsAlone, Fresh, Pointers
  <2>6. EntriesMatchUsers'
    <3>1. /\ \A t \in Topics : count'[t] = Cardinality(Users(t)')
          /\ \A t \in Topics : t # topic[g] => Users(t)' = Users(t)
          /\ g \in Users(topic[g])'
      BY <1>4, <2>0, JoinCounts DEF CreateMux
    <3>2. \A t \in Topics : t # topic[g] => mux'[t] = mux[t]
      BY <2>0 DEF IInv, TypeOK
    <3>3. mux'[topic[g]] # NoMutex /\ topic' = topic
      BY <1>4, <2>0 DEF IInv, TypeOK, CreateMux
    <3>4. \A t \in Topics : mux'[t] = NoMutex <=> Users(t)' = {}
      BY <3>1, <3>2, <3>3 DEF IInv, EntriesMatchUsers
    <3> QED BY <3>1, <3>4 DEF EntriesMatchUsers
  <2> QED BY <2>1, <2>3, <2>4, <2>5, <2>6 DEF IInv
<1>5. ASSUME NEW g \in Threads, OwnMux(g) PROVE IInv'
  <2>1. TypeOK' /\ Pointers' /\ GlobalHeld' /\ DistinctMutexes' /\ CreatorIsAlone' /\ ~fatal'
    BY <1>5 DEF IInv, OwnMux, TypeOK, Pointers, GlobalHeld, DistinctMutexes, CreatorIsAlone
  <2>2. Owners'
    BY <1>5 DEF IInv, OwnMux, TypeOK, Owners, Pointers
  <2>3. \A u \in Topics : Users(u)' = Users(u)
    BY <1>5 DEF IInv, OwnMux, TypeOK, Users
  <2> QED BY <1>5, <2>1, <2>2, <2>3 DEF IInv, OwnMux, EntriesMatchUsers
<1>6. ASSUME NEW g \in Threads, WaitMux(g) PROVE IInv'
  <2>1. TypeOK' /\ Pointers' /\ GlobalHeld' /\ DistinctMutexes' /\ CreatorIsAlone' /\ ~fatal'
    BY <1>6 DEF IInv, WaitMux, TypeOK, Pointers, GlobalHeld, DistinctMutexes, CreatorIsAlone
  <2>2. Owners'
    BY <1>6 DEF IInv, WaitMux, TypeOK, Owners, Pointers
  <2>3. \A u \in Topics : Users(u)' = Users(u)
    BY <1>6 DEF IInv, WaitMux, TypeOK, Users
  <2> QED BY <1>6, <2>1, <2>2, <2>3 DEF IInv, WaitMux, EntriesMatchUsers
<1>7. ASSUME NEW g \in Threads, UnlockGlobal(g) PROVE IInv'
  <2>1. TypeOK' /\ Pointers' /\ GlobalHeld' /\ DistinctMutexes' /\ CreatorIsAlone' /\ ~fatal'
    BY <1>7 DEF IInv, UnlockGlobal, TypeOK, Pointers, GlobalHeld, DistinctMutexes, CreatorIsAlone
  <2>2. Owners'
    BY <1>7 DEF IInv, UnlockGlobal, TypeOK, Owners
  <2>3. \A u \in Topics : Users(u)' = Users(u)
    BY <1>7 DEF IInv, UnlockGlobal, TypeOK, Users
  <2> QED BY <1>7, <2>1, <2>2, <2>3 DEF IInv, UnlockGlobal, EntriesMatchUsers
<1>8. ASSUME NEW g \in Threads, Unlock(g) PROVE IInv'
  <2> PICK t \in Topics : t = topic[g]
    BY <1>8, LastUserIsAlone DEF Unlock
  <2>0. /\ g \in Users(t) /\ count[t] \in Nat /\ count[t] >= 1
        /\ LastUser(t) <=> Users(t) = {g}
        /\ pc[g] = "unlocking"
    BY <1>8, LastUserIsAlone DEF Unlock
  <2>1. mux[t] = mine[g] /\ mux[t] # NoMutex /\ mux[t] \in Mutexes /\ owner[mux[t]] = g
    BY <2>0 DEF IInv, Pointers, Owners, TypeOK
  <2>2. owner' = [owner EXCEPT ![mux[t]] = NoThread] /\ ~fatal'
    BY <1>8, <2>1 DEF Unlock, IInv
  <2>3. TypeOK'
    BY <1>8, <2>0, <2>1, <2>2 DEF IInv, Unlock, TypeOK
  <2>4. Pointers'
    BY <1>8, <2>0 DEF IInv, Unlock, TypeOK, Pointers, Users
  <2>5. GlobalHeld' /\ DistinctMutexes'
    BY <1>8, <2>0 DEF IInv, Unlock, TypeOK, GlobalHeld, DistinctMutexes
  <2>6. Owners'
    \* whoever else is inside owns another mutex than g's
    BY <1>8, <2>0, <2>1, <2>2 DEF IInv, Unlock, TypeOK, Owners
  <2>7. CreatorIsAlone'
    BY <1>8, <2>0 DEF IInv, Unlock, TypeOK, CreatorIsAlone, GlobalHeld
  <2>8. EntriesMatchUsers'
    <3>1. Users(t)' = Users(t) \ {g}
      BY <1>8, <2>0 DEF IInv, Unlock, TypeOK, Users
    <3>2. \A u \in Topics : u # t => Users(u)' = Users(u)
      BY <1>8, <2>0 DEF IInv, Unlock, TypeOK, Users
    <3>3. Cardinality(Users(t) \ {g}) = count[t] - 1
      BY <2>0, UsersFinite, OneElement DEF IInv, EntriesMatchUsers
    <3>4. count'[t] = Cardinality(Users(t)')
      BY <1>8, <2>0, <3>1, <3>3 DEF IInv, Unlock, TypeOK, LastUser
    <3>5. mux'[t] = NoMutex <=> Users(t)' = {}
      BY <1>8, <2>0, <2>1, <3>1 DEF IInv, Unlock, TypeOK
    <3>6. \A u \in Topics : u # t => count'[u] = count[u] /\ mux'[u] = mux[u]
      BY <1>8, <2>0 DEF IInv, Unlock, TypeOK
    <3> QED BY <3>2, <3>4, <3>5, <3>6 DEF IInv, EntriesMatchUsers
  <2> QED BY <2>2, <2>3, <2>4, <2>5, <2>6, <2>7, <2>8 DEF IInv
<1>9. CASE UNCHANGED vars
  BY <1>9 DEF vars, IInv, TypeOK, Pointers, GlobalHeld, DistinctMutexes, Owners,
              CreatorIsAlone, EntriesMatchUsers, Users
<1> QED BY <1>1, <1>2, <1>3, <1>4, <1>5, <1>6, <1>7, <1>8, <1>9 DEF Next

(* IInv holds in every state of every behaviour. *)
THEOREM Invariance == Safety => []IInv
<1> QED BY InitInv, NextInv, PTL DEF Safety

(* The types of the Go maps and program counters never break. *)
THEOREM TypeCorrect == Safety => []TypeOK
<1>1. IInv => TypeOK
  BY DEF IInv
<1> QED BY <1>1, Invariance, PTL

(* CompleteTask is entered by one goroutine per task: both would own the mutex *)
(* the map holds for the topic.                                              *)
THEOREM Exclusion == Safety => []MutualExclusion
<1>1. IInv => MutualExclusion
  <2> SUFFICES ASSUME IInv, NEW g \in Threads, NEW h \in Threads,
                      Inside(g), Inside(h), topic[g] = topic[h]
               PROVE  g = h
    BY DEF MutualExclusion
  <2>1. mine[g] = mine[h]
    BY DEF IInv, Pointers, Inside, Counted
  <2> QED BY <2>1 DEF IInv, Owners
<1> QED BY <1>1, Invariance, PTL

(* Unlock always finds the entry of its topic, locked by its caller. *)
THEOREM SafeUnlock == Safety => []UnlockIsSafe
<1>1. IInv => UnlockIsSafe
  BY DEF IInv, Pointers, Owners, UnlockIsSafe, Inside, Counted
<1> QED BY <1>1, Invariance, PTL

(* The maps count exactly the goroutines between Lock and Unlock. *)
THEOREM NoLeak == Safety => []EntriesMatchUsers
<1>1. IInv => EntriesMatchUsers
  BY DEF IInv
<1> QED BY <1>1, Invariance, PTL

(* A goroutine that holds the global mutex never waits for a topic. *)
THEOREM CreatorProceeds == Safety => []CreatorNeverWaits
<1>1. IInv => CreatorNeverWaits
  <2> SUFFICES ASSUME IInv, NEW g \in Threads, pc[g] = "owning", owner[mine[g]] # NoThread
               PROVE  FALSE
    BY DEF CreatorNeverWaits
  <2>1. mine[g] \in Mutexes /\ owner[mine[g]] \in Threads
    BY DEF IInv, Pointers, TypeOK, Counted
  <2>2. mine[owner[mine[g]]] = mine[g] /\ Inside(owner[mine[g]])
    BY <2>1 DEF IInv, Owners
  <2>3. owner[mine[g]] = g
    BY <2>1, <2>2 DEF IInv, CreatorIsAlone
  <2> QED BY <2>2, <2>3 DEF Inside
<1> QED BY <1>1, Invariance, PTL

-----------------------------------------------------------------------------
(* The safety part of the refinement: the map of mutexes is a lock per topic. *)

LEMMA AbstractInit == Init => Abstract!Init
BY DEF Init, Abstract!Init, Phase, Inside

LEMMA AbstractNext == IInv /\ IInv' /\ [Next]_vars => [Abstract!Next]_(Abstract!vars)
<1> SUFFICES ASSUME IInv, IInv', [Next]_vars PROVE [Abstract!Next]_(Abstract!vars)
  OBVIOUS
<1> DEFINE ph == [g \in Threads |-> Phase(g)]
<1> USE DEF Inside, PCs
<1>1. ASSUME NEW g \in Threads, NEW t \in Topics, CallLock(g, t)
      PROVE  Abstract!Request(g, t)
  BY <1>1 DEF CallLock, IInv, TypeOK, Phase, Abstract!Request
<1>2. ASSUME NEW g \in Threads,
             LockGlobal(g) \/ JoinMux(g) \/ CreateMux(g) \/ UnlockGlobal(g)
      PROVE  UNCHANGED Abstract!vars
  <2>1. topic' = topic /\ \A h \in Threads : Phase(h)' = Phase(h)
    BY <1>2 DEF LockGlobal, JoinMux, CreateMux, UnlockGlobal, IInv, TypeOK, Phase
  <2> QED BY <2>1 DEF Abstract!vars
<1>3. ASSUME NEW g \in Threads, OwnMux(g) \/ WaitMux(g)
      PROVE  Abstract!Acquire(g)
  <2>1. ph[g] = "waiting" /\ ph' = [ph EXCEPT ![g] = "holding"] /\ topic' = topic
    BY <1>3 DEF OwnMux, WaitMux, IInv, TypeOK, Phase
  <2>2. \A h \in Threads : Inside(h) => topic[h] # topic[g]
    <3> SUFFICES ASSUME NEW h \in Threads, Inside(h), topic[h] = topic[g] PROVE FALSE
      OBVIOUS
    <3>1. mine[h] = mine[g] /\ owner[mine[h]] = h
      BY <1>3 DEF OwnMux, WaitMux, IInv, Pointers, Owners, Counted
    <3> QED BY <1>3, <3>1, ThreadsAssumption DEF OwnMux, WaitMux
  <2>3. Abstract!Free(topic[g])
    BY <2>2 DEF Abstract!Free, Phase
  <2> QED BY <2>1, <2>3 DEF Abstract!Acquire
<1>4. ASSUME NEW g \in Threads, Unlock(g) PROVE Abstract!Release(g)
  BY <1>4 DEF Unlock, IInv, TypeOK, Phase, Abstract!Release
<1>5. CASE UNCHANGED vars
  BY <1>5 DEF vars, Abstract!vars, Phase
<1> QED BY <1>1, <1>2, <1>3, <1>4, <1>5 DEF Next, Abstract!Next

(* Whatever CompleteTask relies on in a lock per topic, TopicMutex provides. *)
THEOREM Refinement == Safety => Abstract!Safety
<1> QED BY Invariance, AbstractInit, AbstractNext, PTL DEF Safety, Abstract!Safety
=============================================================================
