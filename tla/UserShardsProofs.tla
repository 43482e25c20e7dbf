-------------------------- MODULE UserShardsProofs --------------------------
(***************************************************************************)
(* UserShards for any users, shards, processes and calls: which shard the  *)
(* calls of a race agree on, why an entry of a cache may be old, and how   *)
(* even the users are spread.                                              *)
(*                                                                         *)
(* The argument rests on the row of a user: whoever is about to commit     *)
(* holds its lock, an assignment commits only where there is no shard yet, *)
(* and a user who has a shard keeps one.  So nothing is cached of a user   *)
(* when the first shard is committed, and every later version was written  *)
(* by a call that sets a shard and then removes what its process caches.   *)
(* The shards stay even because a user is counted for a shard from the     *)
(* moment a call has selected it.                                          *)
(***************************************************************************)
EXTENDS UserShards, SequenceTheorems, FiniteSetTheorems, TLAPS

CallPcs == {"idle", "read", "store", "select", "delete", "insert", "commit", "invalidate", "ok", "error"}
CallType ==
  [pc : CallPcs, op : {"none", "get", "ensure", "set"}, user : Users, shard : Shards \cup {NoShard},
   version : Nat]
CacheType == [shard : Shards \cup {NoShard}, version : Nat, by : Callers \cup {"nobody"}]

ShardTypes ==
  /\ registered \subseteq Shards /\ row \in [Users -> Shards \cup {NoShard}]
  /\ locked \in [Users -> Callers \cup {"nobody"}]
  /\ cached \in [Processes \X Users -> CacheType] /\ call \in [Callers -> CallType]
  /\ writers \in [Users -> Seq(Callers)] /\ skew \in Nat

\* what a call does at each of its steps
GoodCall(x) ==
  /\ x.pc = "idle" => x.op = "none"
  /\ x.pc \in {"read", "store"} => x.op \in {"get", "ensure"}
  /\ x.pc = "select" => x.op = "ensure"
  /\ x.pc \in {"insert", "commit"} => x.op \in {"ensure", "set"}
  /\ x.pc \in {"delete", "invalidate"} => x.op = "set"
  /\ x.pc \in {"store", "delete", "insert", "commit"} => x.shard \in Shards

\* the lock of a row, and what is written under it
LockInv ==
  /\ \A u \in Users : locked[u] # "nobody" =>
       LET x == call[locked[u]] IN x.user = u /\ (x.pc = "commit" \/ (x.pc = "insert" /\ x.op = "set"))
  /\ \A c \in Callers : Doing(c, "commit") =>
       locked[call[c].user] = c /\ (call[c].op = "ensure" => row[call[c].user] = NoShard)

WritersInv == \A u \in Users : \A v \in 1..Version(u) : call[writers[u][v]].user = u

RowInv == ShardTypes /\ (\A c \in Callers : GoodCall(call[c])) /\ LockInv /\ WritersInv

-----------------------------------------------------------------------------
(* What the steps of a call do.                                            *)

LEMMA ShardsFacts ==
  /\ ProcessOf \in [Callers -> Processes] /\ "nobody" \notin Callers /\ NoShard \notin Shards
  /\ IsFiniteSet(Users) /\ IsFiniteSet(Callers)
BY ShardsAssumption

\* a step changes the record of its own call
OnlyCall(c) ==
  /\ call' \in [Callers -> CallType]
  /\ call'[c].user = call[c].user
  /\ \A d \in Callers \ {c} : call'[d] = call[d]

LEMMA CallChanges ==
  ASSUME RowInv, NEW c \in Callers, NEW x \in CallType, x.user = call[c].user,
         call' = [call EXCEPT ![c] = x]
  PROVE  OnlyCall(c) /\ call'[c] = x
BY DEF RowInv, ShardTypes, OnlyCall

LEMMA Moved ==
  ASSUME RowInv, NEW c \in Callers, NEW label \in CallPcs, Moves(c, label)
  PROVE  /\ OnlyCall(c) /\ call'[c].pc = label
         /\ call'[c].op = call[c].op /\ call'[c].shard = call[c].shard
<1> DEFINE x == [call[c] EXCEPT !.pc = label, !.version = 0]
<1>1. call[c] \in CallType /\ call \in [Callers -> CallType]
  BY DEF RowInv, ShardTypes
<1>2. /\ x \in CallType /\ x.user = call[c].user /\ x.pc = label
      /\ x.op = call[c].op /\ x.shard = call[c].shard
  BY <1>1 DEF CallType
<1>3. call' = [call EXCEPT ![c] = x]
  BY <1>1 DEF Moves
<1> HIDE DEF x
<1> QED BY <1>2, <1>3, CallChanges

LEMMA LookupEffect ==
  ASSUME RowInv, NEW c \in Callers, NEW op \in {"get", "ensure"}, Lookup(c, op)
  PROVE  /\ OnlyCall(c) /\ call[c].pc = "idle" /\ call'[c].op = op
         /\ UNCHANGED <<registered, row, locked, cached, dbErrors, writers, overlapped, skew>>
         /\ \/ call'[c].pc = "read"
            \/ /\ call'[c].pc = "ok" /\ cached[Entry(c)].shard # NoShard
               /\ call'[c].shard = cached[Entry(c)].shard
<1>0. /\ call[c] \in CallType /\ call \in [Callers -> CallType] /\ Entry(c) \in Processes \X Users
      /\ cached[Entry(c)].shard \in Shards \cup {NoShard}
      /\ call[c].pc = "idle"
      /\ UNCHANGED <<registered, row, locked, cached, dbErrors, writers, overlapped, skew>>
  <2>1. call[c] \in CallType /\ call \in [Callers -> CallType] /\ call[c].user \in Users
    BY DEF RowInv, ShardTypes, CallType
  <2>2. Entry(c) \in Processes \X Users
    BY <2>1, ShardsFacts DEF Entry
  <2>3. cached[Entry(c)].shard \in Shards \cup {NoShard}
    BY <2>2 DEF RowInv, ShardTypes, CacheType
  <2> QED BY <2>1, <2>2, <2>3 DEF Lookup, Doing
<1>1. CASE cached[Entry(c)].shard = NoShard
  <2> DEFINE x == [call[c] EXCEPT !.pc = "read", !.op = op]
  <2>1. x \in CallType /\ x.user = call[c].user /\ x.pc = "read" /\ x.op = op
    BY <1>0 DEF CallType, CallPcs
  <2>2. call' = [call EXCEPT ![c] = x]
    BY <1>0, <1>1 DEF Lookup
  <2> HIDE DEF x
  <2> QED BY <1>0, <2>1, <2>2, CallChanges
<1>2. CASE cached[Entry(c)].shard # NoShard
  <2> DEFINE x == [call[c] EXCEPT !.pc = "ok", !.op = op, !.shard = cached[Entry(c)].shard]
  <2>1. x \in CallType /\ x.user = call[c].user /\ x.pc = "ok" /\ x.op = op /\ x.shard = cached[Entry(c)].shard
    BY <1>0 DEF CallType, CallPcs
  <2>2. call' = [call EXCEPT ![c] = x]
    BY <1>0, <1>2 DEF Lookup
  <2> HIDE DEF x
  <2> QED BY <1>0, <1>2, <2>1, <2>2, CallChanges
<1> QED BY <1>1, <1>2

LEMMA ReadEffect ==
  ASSUME RowInv, NEW c \in Callers, Read(c)
  PROVE  /\ OnlyCall(c) /\ call[c].pc = "read" /\ call'[c].op = call[c].op
         /\ UNCHANGED <<registered, row, locked, cached, dbErrors, writers, overlapped, skew>>
         /\ \/ /\ call'[c].pc = "store" /\ row[call[c].user] # NoShard
               /\ call'[c].shard = row[call[c].user] /\ call'[c].version = Version(call[c].user)
            \/ call'[c].pc = "select" /\ call[c].op = "ensure"
            \/ call'[c].pc = "error"
<1> DEFINE u == call[c].user
<1>0. /\ call[c] \in CallType /\ call \in [Callers -> CallType] /\ u \in Users
      /\ row[u] \in Shards \cup {NoShard} /\ Version(u) \in Nat /\ call[c].pc = "read"
      /\ UNCHANGED <<registered, row, locked, cached, dbErrors, writers, overlapped, skew>>
  <2>1. call[c] \in CallType /\ call \in [Callers -> CallType] /\ u \in Users
    BY DEF RowInv, ShardTypes, CallType
  <2>2. writers[u] \in Seq(Callers) /\ row[u] \in Shards \cup {NoShard}
    BY <2>1 DEF RowInv, ShardTypes
  <2> QED BY <2>1, <2>2, LenProperties DEF Version, Read, Doing
<1>1. CASE row[u] # NoShard
  <2> DEFINE x == [call[c] EXCEPT !.pc = "store", !.shard = row[u], !.version = Version(u)]
  <2>1. /\ x \in CallType /\ x.user = u /\ x.pc = "store" /\ x.op = call[c].op /\ x.shard = row[u]
        /\ x.version = Version(u)
    BY <1>0 DEF CallType, CallPcs
  <2>2. call' = [call EXCEPT ![c] = x]
    BY <1>0, <1>1 DEF Read
  <2> HIDE DEF x
  <2> QED BY <1>0, <1>1, <2>1, <2>2, CallChanges
<1>2. CASE row[u] = NoShard
  <2> DEFINE l == IF call[c].op = "ensure" THEN "select" ELSE "error"
             x == [call[c] EXCEPT !.pc = l]
  <2>1. l \in CallPcs
    BY DEF CallPcs
  <2>2. call' = [call EXCEPT ![c] = x]
    BY <1>0, <1>2 DEF Read
  <2>3. x \in CallType /\ x.user = u /\ x.pc = l /\ x.op = call[c].op
    <3> HIDE DEF l
    <3> QED BY <1>0, <2>1 DEF CallType
  <2> HIDE DEF x
  <2> QED BY <1>0, <2>2, <2>3, CallChanges
<1> QED BY <1>1, <1>2

LEMMA SelectEffect ==
  ASSUME RowInv, NEW c \in Callers, NEW s \in Shards, Select(c, s)
  PROVE  OnlyCall(c) /\ call'[c].pc = "insert" /\ call'[c].op = call[c].op /\ call'[c].shard = s
<1> DEFINE x == [call[c] EXCEPT !.pc = "insert", !.shard = s]
<1>1. call[c] \in CallType /\ call \in [Callers -> CallType]
  BY DEF RowInv, ShardTypes
<1>2. /\ x \in CallType /\ x.user = call[c].user /\ x.pc = "insert" /\ x.op = call[c].op
      /\ x.shard = s
  BY <1>1 DEF CallType, CallPcs
<1>3. call' = [call EXCEPT ![c] = x]
  BY <1>1 DEF Select
<1> HIDE DEF x
<1> QED BY <1>2, <1>3, CallChanges

LEMMA SetEffect ==
  ASSUME RowInv, NEW c \in Callers, SetShard(c)
  PROVE  /\ OnlyCall(c) /\ call[c].pc = "idle" /\ call'[c].pc = "delete" /\ call'[c].op = "set"
         /\ call'[c].shard \in Shards
         /\ UNCHANGED <<registered, row, locked, cached, dbErrors, writers, overlapped, skew>>
<1>1. /\ call[c] \in CallType /\ call \in [Callers -> CallType] /\ call[c].pc = "idle"
      /\ UNCHANGED <<registered, row, locked, cached, dbErrors, writers, overlapped, skew>>
  BY DEF RowInv, ShardTypes, SetShard, Doing
<1>2. Version(call[c].user) \in Nat
  <2>1. writers[call[c].user] \in Seq(Callers)
    BY <1>1 DEF RowInv, ShardTypes, CallType
  <2> QED BY <2>1, LenProperties DEF Version
<1>3. PICK s \in Shards :
        call' = [call EXCEPT ![c].pc = "delete", ![c].op = "set", ![c].shard = s,
                             ![c].version = Version(call[c].user)]
  BY DEF SetShard
<1> DEFINE x == [call[c] EXCEPT !.pc = "delete", !.op = "set", !.shard = s,
                                !.version = Version(call[c].user)]
<1>4. /\ x \in CallType /\ x.user = call[c].user /\ x.pc = "delete" /\ x.op = "set" /\ x.shard = s
  BY <1>1, <1>2 DEF CallType, CallPcs
<1>5. call' = [call EXCEPT ![c] = x]
  BY <1>1, <1>3
<1> HIDE DEF x
<1> QED BY <1>1, <1>4, <1>5, CallChanges

-----------------------------------------------------------------------------
(* The row of a user.                                                      *)

\* the steps that neither take a lock nor write a row
LEMMA RowStays ==
  ASSUME RowInv, NEW c \in Callers, OnlyCall(c), GoodCall(call'[c]),
         call[c].pc \notin {"insert", "commit"}, call'[c].pc # "commit",
         UNCHANGED <<registered, row, locked, writers>>,
         cached' \in [Processes \X Users -> CacheType], skew' \in Nat
  PROVE  RowInv'
<1>1. ShardTypes'
  BY DEF RowInv, ShardTypes, OnlyCall
<1>2. \A d \in Callers : GoodCall(call'[d])
  BY DEF RowInv, OnlyCall
<1>3. LockInv'
  <2>1. \A u \in Users : locked[u] # "nobody" => locked[u] \in Callers \ {c}
    BY DEF RowInv, ShardTypes, LockInv
  <2>2. ASSUME NEW d \in Callers, Doing(d, "commit")' PROVE Doing(d, "commit") /\ call'[d] = call[d]
    BY <2>2 DEF Doing, OnlyCall
  <2> QED BY <2>1, <2>2 DEF RowInv, LockInv, OnlyCall
<1>4. WritersInv'
  <2>1. \A d \in Callers : call'[d].user = call[d].user
    BY DEF OnlyCall
  <2>2. \A u \in Users : \A v \in 1..Version(u) : writers[u][v] \in Callers
    <3> SUFFICES ASSUME NEW u \in Users, NEW v \in 1..Version(u) PROVE writers[u][v] \in Callers
      OBVIOUS
    <3>1. writers[u] \in Seq(Callers)
      BY DEF RowInv, ShardTypes
    <3> QED BY <3>1, LenProperties, ElementOfSeq DEF Version
  <2> QED BY <2>1, <2>2 DEF RowInv, WritersInv, Version
<1> QED BY <1>1, <1>2, <1>3, <1>4 DEF RowInv

\* a call whose transaction ends
LEMMA LockEnds ==
  ASSUME RowInv, NEW c \in Callers, OnlyCall(c), Unlock(c), call'[c].pc # "commit",
         \A u \in Users : row'[u] = row[u] \/ locked[u] = c
  PROVE  LockInv' /\ locked' \in [Users -> Callers \cup {"nobody"}]
<1>1. /\ locked \in [Users -> Callers \cup {"nobody"}] /\ call \in [Callers -> CallType]
      /\ locked' = [u \in Users |-> IF locked[u] = c THEN "nobody" ELSE locked[u]]
  BY DEF RowInv, ShardTypes, Unlock
<1>2. \A u \in Users : locked'[u] # "nobody" => locked'[u] = locked[u] /\ locked[u] \in Callers \ {c}
  BY <1>1
<1>3. ASSUME NEW u \in Users, locked'[u] # "nobody"
      PROVE  LET x == call'[locked'[u]] IN x.user = u /\ (x.pc = "commit" \/ (x.pc = "insert" /\ x.op = "set"))
  BY <1>2, <1>3 DEF RowInv, LockInv, OnlyCall
<1>4. ASSUME NEW d \in Callers, Doing(d, "commit")'
      PROVE  /\ locked'[call'[d].user] = d
             /\ call'[d].op = "ensure" => row'[call'[d].user] = NoShard
  <2>1. d # c /\ call'[d] = call[d] /\ Doing(d, "commit")
    BY <1>4 DEF OnlyCall, Doing
  <2>2. locked[call[d].user] = d /\ call[d].user \in Users
    BY <1>1, <2>1 DEF RowInv, LockInv, CallType
  <2>3. locked'[call[d].user] = d /\ row'[call[d].user] = row[call[d].user]
    BY <1>1, <2>1, <2>2
  <2> QED BY <2>1, <2>3 DEF RowInv, LockInv
<1> QED BY <1>1, <1>3, <1>4 DEF LockInv

LEMMA WritersStay ==
  ASSUME RowInv, NEW c \in Callers, OnlyCall(c), UNCHANGED writers
  PROVE  WritersInv'
<1>1. \A d \in Callers : call'[d].user = call[d].user
  BY DEF OnlyCall
<1>2. ASSUME NEW u \in Users, NEW v \in 1..Version(u) PROVE writers[u][v] \in Callers
  <2>1. writers[u] \in Seq(Callers)
    BY DEF RowInv, ShardTypes
  <2> QED BY <2>1, LenProperties, ElementOfSeq DEF Version
<1> QED BY <1>1, <1>2 DEF RowInv, WritersInv, Version

\* a commit that is written: the row, and who wrote it
LEMMA WrittenRow ==
  ASSUME RowInv, NEW c \in Callers, OnlyCall(c), Doing(c, "commit"), Written(c)
  PROVE  LET u == call[c].user IN
         /\ u \in Users /\ call[c].shard \in Shards /\ locked[u] = c
         /\ row' \in [Users -> Shards \cup {NoShard}] /\ writers' \in [Users -> Seq(Callers)]
         /\ row'[u] = call[c].shard /\ Version(u) \in Nat
         /\ Len(writers'[u]) = Version(u) + 1 /\ writers'[u][Version(u) + 1] = c
         /\ \A v \in 1..Version(u) : writers'[u][v] = writers[u][v]
         /\ \A w \in Users \ {u} : row'[w] = row[w] /\ writers'[w] = writers[w]
         /\ WritersInv'
<1> DEFINE u == call[c].user
<1>1. /\ u \in Users /\ call[c].shard \in Shards /\ locked[u] = c /\ call \in [Callers -> CallType]
      /\ row \in [Users -> Shards \cup {NoShard}] /\ writers \in [Users -> Seq(Callers)]
  BY DEF RowInv, ShardTypes, CallType, GoodCall, LockInv, Doing
<1>2. row' = [row EXCEPT ![u] = call[c].shard] /\ writers' = [writers EXCEPT ![u] = Append(writers[u], c)]
  BY DEF Written
<1> HIDE DEF u
<1>3. /\ row' \in [Users -> Shards \cup {NoShard}] /\ row'[u] = call[c].shard
      /\ writers'[u] = Append(writers[u], c)
      /\ \A w \in Users \ {u} : row'[w] = row[w] /\ writers'[w] = writers[w]
  BY <1>1, <1>2
<1>4. /\ Append(writers[u], c) \in Seq(Callers) /\ Len(Append(writers[u], c)) = Len(writers[u]) + 1
      /\ Append(writers[u], c)[Len(writers[u]) + 1] = c /\ Len(writers[u]) \in Nat
      /\ \A v \in 1..Len(writers[u]) : Append(writers[u], c)[v] = writers[u][v]
  BY <1>1, AppendProperties, LenProperties
<1>5. writers' \in [Users -> Seq(Callers)]
  BY <1>1, <1>2, <1>4
<1>6. /\ Len(writers'[u]) = Version(u) + 1 /\ writers'[u][Version(u) + 1] = c /\ Version(u) \in Nat
      /\ \A v \in 1..Version(u) : writers'[u][v] = writers[u][v]
  BY <1>3, <1>4 DEF Version
<1>7. WritersInv'
  <2>1. \A d \in Callers : call'[d].user = call[d].user
    BY DEF OnlyCall
  <2>2. ASSUME NEW w \in Users, NEW v \in 1..Len(writers'[w]) PROVE call'[writers'[w][v]].user = w
    <3>1. CASE w # u
      <4>1. writers'[w] = writers[w] /\ v \in 1..Version(w)
        BY <1>3, <2>2, <3>1 DEF Version
      <4>2. writers[w][v] \in Callers
        BY <1>1, <4>1, ElementOfSeq DEF Version
      <4> QED BY <2>1, <4>1, <4>2 DEF RowInv, WritersInv
    <3>2. CASE w = u /\ v = Len(writers[u]) + 1
      BY <1>3, <1>4, <2>1, <3>2 DEF u
    <3>3. CASE w = u /\ v # Len(writers[u]) + 1
      <4>1. v \in 1..Version(u) /\ writers'[u][v] = writers[u][v]
        BY <1>3, <1>4, <2>2, <3>3 DEF Version
      <4>2. writers[u][v] \in Callers
        BY <1>1, <4>1, ElementOfSeq DEF Version
      <4> QED BY <1>1, <2>1, <3>3, <4>1, <4>2 DEF RowInv, WritersInv
    <3> QED BY <3>1, <3>2, <3>3
  <2> QED BY <2>2 DEF WritersInv, Version
<1> QED BY <1>1, <1>3, <1>5, <1>6, <1>7 DEF u

LEMMA CommitStep ==
  ASSUME RowInv, NEW c \in Callers, Commit(c) \/ CommitFails(c)
  PROVE  /\ RowInv' /\ OnlyCall(c) /\ Doing(c, "commit") /\ call'[c].op = call[c].op
         /\ call'[c].shard = call[c].shard /\ UNCHANGED <<registered, cached, skew, overlapped>>
         /\ \/ Written(c)
            \/ UNCHANGED <<row, writers>> /\ call'[c].pc = "error"
         /\ \/ call'[c].pc = "error"
            \/ call'[c].pc = "invalidate" /\ call[c].op = "set"
            \/ call'[c].pc = "ok" /\ call[c].op = "ensure"
<1>1. PICK label \in {"invalidate", "ok", "error"} :
        /\ Moves(c, label)
        /\ label = "invalidate" => call[c].op = "set"
        /\ label = "ok" => call[c].op # "set"
        /\ Written(c) \/ (UNCHANGED <<row, writers>> /\ label = "error")
  BY DEF Commit, CommitFails
<1>2. Doing(c, "commit") /\ Unlock(c) /\ UNCHANGED <<registered, cached, skew, overlapped>>
  BY DEF Commit, CommitFails
<1>3. call[c].op \in {"ensure", "set"} /\ GoodCall(call[c])
  BY <1>2 DEF RowInv, GoodCall, Doing
<1>4. /\ OnlyCall(c) /\ call'[c].pc = label /\ call'[c].op = call[c].op
      /\ call'[c].shard = call[c].shard
  BY <1>1, Moved DEF CallPcs
<1>5. \A d \in Callers : GoodCall(call'[d])
  BY <1>1, <1>3, <1>4 DEF RowInv, GoodCall, OnlyCall
<1>6. CASE Written(c)
  <2>1. /\ row' \in [Users -> Shards \cup {NoShard}] /\ writers' \in [Users -> Seq(Callers)] /\ WritersInv'
        /\ \A u \in Users : row'[u] = row[u] \/ locked[u] = c
    BY <1>2, <1>4, <1>6, WrittenRow
  <2>2. LockInv' /\ locked' \in [Users -> Callers \cup {"nobody"}]
    BY <1>1, <1>2, <1>4, <2>1, LockEnds
  <2>3. ShardTypes'
    BY <1>2, <1>4, <2>1, <2>2 DEF RowInv, ShardTypes, OnlyCall
  <2> QED BY <1>1, <1>2, <1>3, <1>4, <1>5, <1>6, <2>1, <2>2, <2>3 DEF RowInv
<1>7. CASE UNCHANGED <<row, writers>> /\ label = "error"
  <2>1. LockInv' /\ locked' \in [Users -> Callers \cup {"nobody"}]
    BY <1>2, <1>4, <1>7, LockEnds
  <2>2. ShardTypes'
    BY <1>2, <1>4, <1>7, <2>1 DEF RowInv, ShardTypes, OnlyCall
  <2> QED BY <1>2, <1>4, <1>5, <1>7, <2>1, <2>2, WritersStay DEF RowInv
<1> QED BY <1>1, <1>6, <1>7

LEMMA DeleteStep ==
  ASSUME RowInv, NEW c \in Callers, DeleteRow(c)
  PROVE  /\ RowInv' /\ OnlyCall(c) /\ call[c].pc = "delete" /\ call'[c].pc = "insert"
         /\ call'[c].op = "set" /\ UNCHANGED <<registered, row, cached, writers, skew, overlapped>>
<1>1. /\ OnlyCall(c) /\ call[c].pc = "delete" /\ call'[c].pc = "insert" /\ call'[c].op = "set"
      /\ call'[c].shard \in Shards /\ UNCHANGED <<registered, row, cached, writers, skew, overlapped>>
  BY Moved DEF DeleteRow, Doing, RowInv, GoodCall, CallPcs
<1>2. /\ locked \in [Users -> Callers \cup {"nobody"}] /\ call[c].user \in Users
      /\ locked[call[c].user] = "nobody"
  BY DEF DeleteRow, RowInv, ShardTypes, CallType
<1>3. /\ locked' \in [Users -> Callers \cup {"nobody"}]
      /\ locked'[call[c].user] \in {c, "nobody"}
      /\ \A u \in Users \ {call[c].user} : locked'[u] = locked[u]
  BY <1>2 DEF DeleteRow
<1>4. \A u \in Users : locked'[u] = c \/ locked[u] = c => locked'[u] = c /\ u = call[c].user
  BY <1>1, <1>2, <1>3, ShardsFacts DEF RowInv, LockInv
<1>5. LockInv'
  <2>1. ASSUME NEW u \in Users, locked'[u] # "nobody"
        PROVE  LET x == call'[locked'[u]] IN x.user = u /\ (x.pc = "commit" \/ (x.pc = "insert" /\ x.op = "set"))
    <3>1. CASE locked'[u] = c
      BY <1>1, <1>4, <3>1 DEF OnlyCall
    <3>2. CASE locked'[u] # c
      <4>1. locked'[u] = locked[u] /\ locked[u] \in Callers \ {c}
        BY <1>2, <1>3, <2>1, <3>2
      <4> QED BY <1>1, <2>1, <4>1 DEF RowInv, LockInv, OnlyCall
    <3> QED BY <3>1, <3>2
  <2>2. ASSUME NEW d \in Callers, Doing(d, "commit")'
        PROVE  locked'[call'[d].user] = d /\ (call'[d].op = "ensure" => row'[call'[d].user] = NoShard)
    <3>1. d # c /\ call'[d] = call[d] /\ Doing(d, "commit")
      BY <1>1, <2>2 DEF OnlyCall, Doing
    <3>2. locked[call[d].user] = d /\ call[d].user \in Users
      BY <3>1 DEF RowInv, ShardTypes, LockInv, CallType
    <3>3. call[d].user # call[c].user
      BY <1>2, <3>2, ShardsFacts
    <3> QED BY <1>1, <1>3, <3>1, <3>2, <3>3 DEF RowInv, LockInv
  <2> QED BY <2>1, <2>2 DEF LockInv
<1>6. ShardTypes'
  BY <1>1, <1>3 DEF RowInv, ShardTypes, OnlyCall
<1>7. \A d \in Callers : GoodCall(call'[d])
  BY <1>1 DEF RowInv, GoodCall, OnlyCall
<1> QED BY <1>1, <1>5, <1>6, <1>7, WritersStay DEF RowInv

\* the key is free, or its transaction has deleted the row before
LEMMA InsertStep ==
  ASSUME RowInv, NEW c \in Callers, InsertRow(c)
  PROVE  /\ RowInv' /\ OnlyCall(c) /\ call[c].pc = "insert" /\ call'[c].op = call[c].op
         /\ call'[c].shard = call[c].shard
         /\ call'[c].pc \in {"error", "commit"}
         /\ UNCHANGED <<registered, row, cached, writers, skew, overlapped>>
<1> DEFINE u == call[c].user
<1>1. /\ call[c].pc = "insert" /\ u \in Users /\ locked \in [Users -> Callers \cup {"nobody"}]
      /\ locked[u] \in {c, "nobody"} /\ call[c].op \in {"ensure", "set"} /\ call[c].shard \in Shards
      /\ UNCHANGED <<registered, row, cached, writers, skew, overlapped>>
  BY DEF InsertRow, Doing, RowInv, ShardTypes, CallType, GoodCall
<1>2. CASE Moves(c, "error") /\ Unlock(c)
  <2>1. /\ OnlyCall(c) /\ call'[c].pc = "error" /\ call'[c].op = call[c].op
        /\ call'[c].shard = call[c].shard
    BY <1>2, Moved DEF CallPcs
  <2>2. LockInv' /\ locked' \in [Users -> Callers \cup {"nobody"}]
    BY <1>1, <1>2, <2>1, LockEnds
  <2>3. \A d \in Callers : GoodCall(call'[d])
    BY <2>1 DEF RowInv, GoodCall, OnlyCall
  <2>4. ShardTypes'
    BY <1>1, <2>1, <2>2 DEF RowInv, ShardTypes, OnlyCall
  <2> QED BY <1>1, <2>1, <2>2, <2>3, <2>4, WritersStay DEF RowInv
<1>3. CASE /\ ~(locked[u] = "nobody" /\ row[u] # NoShard)
           /\ Moves(c, "commit") /\ locked' = [locked EXCEPT ![u] = c]
  <2>1. /\ OnlyCall(c) /\ call'[c].pc = "commit" /\ call'[c].op = call[c].op
        /\ call'[c].shard = call[c].shard
    BY <1>3, Moved DEF CallPcs
  <2>2. /\ locked' \in [Users -> Callers \cup {"nobody"}] /\ locked'[u] = c
        /\ \A w \in Users \ {u} : locked'[w] = locked[w]
    BY <1>1, <1>3
  <2>3. call[c].op = "ensure" => row[u] = NoShard
    BY <1>1, <1>3, ShardsFacts DEF RowInv, LockInv
  <2>4. LockInv'
    <3>1. ASSUME NEW w \in Users, locked'[w] # "nobody"
          PROVE  LET x == call'[locked'[w]] IN x.user = w /\ (x.pc = "commit" \/ (x.pc = "insert" /\ x.op = "set"))
      <4>1. CASE locked'[w] = c
        <5>1. w = u
          BY <1>1, <2>2, <3>1, <4>1 DEF RowInv, LockInv
        <5> QED BY <2>1, <4>1, <5>1 DEF OnlyCall
      <4>2. CASE locked'[w] # c
        <5>1. locked'[w] = locked[w] /\ locked[w] \in Callers \ {c}
          BY <1>1, <2>2, <3>1, <4>2
        <5> QED BY <2>1, <3>1, <5>1 DEF RowInv, LockInv, OnlyCall
      <4> QED BY <4>1, <4>2
    <3>2. ASSUME NEW d \in Callers, Doing(d, "commit")'
          PROVE  locked'[call'[d].user] = d /\ (call'[d].op = "ensure" => row'[call'[d].user] = NoShard)
      <4>1. CASE d = c
        BY <1>1, <2>1, <2>2, <2>3, <4>1 DEF OnlyCall
      <4>2. CASE d # c
        <5>1. call'[d] = call[d] /\ Doing(d, "commit")
          BY <2>1, <3>2, <4>2 DEF OnlyCall, Doing
        <5>2. locked[call[d].user] = d /\ call[d].user \in Users
          BY <5>1 DEF RowInv, ShardTypes, LockInv, CallType
        <5>3. call[d].user # u
          BY <1>1, <4>2, <5>2, ShardsFacts
        <5> QED BY <1>1, <2>2, <5>1, <5>2, <5>3 DEF RowInv, LockInv
      <4> QED BY <4>1, <4>2
    <3> QED BY <3>1, <3>2 DEF LockInv
  <2>5. \A d \in Callers : GoodCall(call'[d])
    BY <1>1, <2>1 DEF RowInv, GoodCall, OnlyCall
  <2>6. ShardTypes'
    BY <1>1, <2>1, <2>2 DEF RowInv, ShardTypes, OnlyCall
  <2> QED BY <1>1, <2>1, <2>4, <2>5, <2>6, WritersStay DEF RowInv
<1> QED BY <1>2, <1>3 DEF InsertRow

LEMMA FailStep ==
  ASSUME RowInv, NEW c \in Callers, StatementFails(c)
  PROVE  /\ RowInv' /\ OnlyCall(c) /\ call[c].pc \in {"read", "select", "delete", "insert"}
         /\ call'[c].pc = "error" /\ call'[c].op = call[c].op
         /\ UNCHANGED <<registered, row, cached, writers, skew, overlapped>>
<1>1. /\ OnlyCall(c) /\ call[c].pc \in {"read", "select", "delete", "insert"} /\ call'[c].pc = "error"
      /\ call'[c].op = call[c].op /\ call'[c].shard = call[c].shard /\ Unlock(c)
      /\ UNCHANGED <<registered, row, cached, writers, skew, overlapped>>
  BY Moved DEF StatementFails, CallPcs
<1>2. LockInv' /\ locked' \in [Users -> Callers \cup {"nobody"}]
  BY <1>1, LockEnds
<1>3. \A d \in Callers : GoodCall(call'[d])
  BY <1>1 DEF RowInv, GoodCall, OnlyCall
<1>4. ShardTypes'
  BY <1>1, <1>2 DEF RowInv, ShardTypes, OnlyCall
<1> QED BY <1>1, <1>2, <1>3, <1>4, WritersStay DEF RowInv

\* the steps that read, and those that only work on the cache
LEMMA LookupStep ==
  ASSUME RowInv, NEW c \in Callers, NEW op \in {"get", "ensure"}, Lookup(c, op)
  PROVE  RowInv'
<1>1. GoodCall(call'[c])
  BY LookupEffect DEF GoodCall
<1> QED BY <1>1, LookupEffect, RowStays DEF RowInv, ShardTypes

LEMMA ReadStep ==
  ASSUME RowInv, NEW c \in Callers, Read(c)
  PROVE  RowInv'
<1>1. call[c].op \in {"get", "ensure"}
  BY ReadEffect DEF RowInv, GoodCall
<1>2. row[call[c].user] \in Shards \cup {NoShard}
  BY DEF RowInv, ShardTypes, CallType
<1>3. GoodCall(call'[c])
  BY <1>1, <1>2, ReadEffect DEF GoodCall
<1> QED BY <1>3, ReadEffect, RowStays DEF RowInv, ShardTypes

LEMMA SetStep ==
  ASSUME RowInv, NEW c \in Callers, SetShard(c)
  PROVE  RowInv'
<1>1. GoodCall(call'[c])
  BY SetEffect DEF GoodCall
<1> QED BY <1>1, SetEffect, RowStays DEF RowInv, ShardTypes

LEMMA SelectStep ==
  ASSUME RowInv, NEW c \in Callers, SelectShard(c)
  PROVE  /\ RowInv' /\ OnlyCall(c) /\ call[c].pc = "select" /\ call[c].op = "ensure"
         /\ call'[c].op = call[c].op
         /\ UNCHANGED <<registered, row, locked, cached, writers, overlapped>>
         /\ \/ \E s \in Fewest(registered) : Select(c, s) /\ call'[c].pc = "insert" /\ call'[c].shard = s
            \/ call'[c].pc = "error" /\ skew' = skew
<1>1. /\ call[c].pc = "select" /\ call[c].op = "ensure"
      /\ UNCHANGED <<registered, row, locked, cached, dbErrors, writers, overlapped>>
  BY DEF SelectShard, Doing, RowInv, GoodCall
<1>2. ASSUME NEW s \in Fewest(registered), Select(c, s)
      PROVE  /\ RowInv' /\ OnlyCall(c) /\ call'[c].op = call[c].op
             /\ call'[c].pc = "insert" /\ call'[c].shard = s
  <2>1. s \in Shards
    BY DEF Fewest, RowInv, ShardTypes
  <2>2. skew' \in Nat
    <3> DEFINE others == {d \in Callers \ {c} : call[d].op = "ensure" /\ call[d].pc \in {"insert", "commit"}}
    <3>1. Cardinality(others) \in Nat
      BY ShardsFacts, FS_Subset, FS_CardinalityType
    <3>2. skew' \in {skew, Cardinality(others) + 1}
      BY <1>2 DEF Select
    <3> HIDE DEF others
    <3> QED BY <3>1, <3>2 DEF RowInv, ShardTypes
  <2>3. OnlyCall(c) /\ call'[c].pc = "insert" /\ call'[c].op = call[c].op /\ call'[c].shard = s
    BY <1>2, <2>1, SelectEffect
  <2>4. GoodCall(call'[c])
    BY <1>1, <2>1, <2>3 DEF GoodCall
  <2> QED BY <1>1, <2>2, <2>3, <2>4, RowStays DEF RowInv, ShardTypes
<1>3. ASSUME Moves(c, "error"), skew' = skew
      PROVE  RowInv' /\ OnlyCall(c) /\ call'[c].op = call[c].op /\ call'[c].pc = "error"
  <2>1. OnlyCall(c) /\ call'[c].pc = "error" /\ call'[c].op = call[c].op
    BY <1>3, Moved DEF CallPcs
  <2>2. GoodCall(call'[c])
    BY <2>1 DEF GoodCall
  <2> QED BY <1>1, <1>3, <2>1, <2>2, RowStays DEF RowInv, ShardTypes
<1> QED BY <1>1, <1>2, <1>3 DEF SelectShard

LEMMA StoreStep ==
  ASSUME RowInv, NEW c \in Callers, Store(c)
  PROVE  /\ RowInv' /\ OnlyCall(c) /\ call[c].pc = "store" /\ call'[c].pc = "ok"
         /\ call'[c].op = call[c].op /\ call'[c].shard = call[c].shard
         /\ UNCHANGED <<registered, row, writers, overlapped, skew>>
         /\ Entry(c) \in Processes \X Users
         /\ cached'[Entry(c)].shard = call[c].shard /\ cached'[Entry(c)].version = call[c].version
         /\ cached'[Entry(c)].by = c
         /\ \A e \in (Processes \X Users) \ {Entry(c)} : cached'[e] = cached[e]
<1> DEFINE x == [shard |-> call[c].shard, version |-> call[c].version, by |-> c]
<1>1. /\ call[c] \in CallType /\ cached \in [Processes \X Users -> CacheType]
      /\ Entry(c) \in Processes \X Users /\ call[c].pc = "store" /\ call[c].op \in {"get", "ensure"}
      /\ UNCHANGED <<registered, row, locked, dbErrors, writers, overlapped, skew>>
  BY ShardsFacts DEF RowInv, ShardTypes, CallType, Entry, Store, Doing, GoodCall
<1>2. /\ OnlyCall(c) /\ call'[c].pc = "ok" /\ call'[c].op = call[c].op
      /\ call'[c].shard = call[c].shard
  BY Moved DEF Store, CallPcs
<1>3. x \in CacheType /\ x.shard = call[c].shard /\ x.version = call[c].version /\ x.by = c
  BY <1>1 DEF CallType, CacheType
<1>4. cached' = [cached EXCEPT ![Entry(c)] = x]
  BY DEF Store
<1> HIDE DEF x
<1>5. cached' \in [Processes \X Users -> CacheType] /\ GoodCall(call'[c])
  BY <1>1, <1>2, <1>3, <1>4 DEF GoodCall
<1>6. RowInv'
  BY <1>1, <1>2, <1>5, RowStays DEF RowInv, ShardTypes
<1> QED BY <1>1, <1>2, <1>3, <1>4, <1>6

LEMMA NoEntry == Nothing \in CacheType /\ Nothing.shard = NoShard
BY DEF Nothing, CacheType

LEMMA RemoveStep ==
  ASSUME RowInv, NEW c \in Callers, RemoveEntry(c)
  PROVE  /\ RowInv' /\ OnlyCall(c) /\ call[c].pc = "invalidate" /\ call'[c].pc = "ok"
         /\ call[c].op = "set" /\ call'[c].op = "set"
         /\ UNCHANGED <<registered, row, writers, skew>>
         /\ cached'[Entry(c)] = Nothing
         /\ \A e \in (Processes \X Users) \ {Entry(c)} : cached'[e] = cached[e]
         /\ overlapped' = overlapped \cup
              {<<c, d>> : d \in {d \in Callers : Doing(d, "store") /\ Entry(d) = Entry(c)}}
<1>1. /\ call[c] \in CallType /\ cached \in [Processes \X Users -> CacheType]
      /\ Entry(c) \in Processes \X Users /\ call[c].pc = "invalidate" /\ call[c].op = "set"
      /\ UNCHANGED <<registered, row, locked, dbErrors, writers, skew>>
  BY ShardsFacts DEF RowInv, ShardTypes, CallType, Entry, RemoveEntry, Doing, GoodCall
<1>2. OnlyCall(c) /\ call'[c].pc = "ok" /\ call'[c].op = call[c].op
  BY Moved DEF RemoveEntry, CallPcs
<1>3. cached' = [cached EXCEPT ![Entry(c)] = Nothing]
  BY DEF RemoveEntry
<1>4. cached' \in [Processes \X Users -> CacheType] /\ GoodCall(call'[c])
  BY <1>1, <1>2, <1>3, NoEntry DEF GoodCall
<1>5. RowInv'
  BY <1>1, <1>2, <1>4, RowStays DEF RowInv, ShardTypes
<1> QED BY <1>1, <1>2, <1>3, <1>5 DEF RemoveEntry

LEMMA RemoveFailsStep ==
  ASSUME RowInv, NEW c \in Callers, RemoveFails(c)
  PROVE  /\ RowInv' /\ OnlyCall(c) /\ call[c].pc = "invalidate" /\ call'[c].pc = "error"
         /\ call[c].op = "set" /\ call'[c].op = "set"
         /\ UNCHANGED <<registered, row, cached, writers, overlapped, skew>>
<1>1. /\ call[c].pc = "invalidate" /\ call[c].op = "set" /\ call[c] \in CallType
      /\ UNCHANGED <<registered, row, locked, cached, writers, overlapped, skew>>
  BY DEF RowInv, ShardTypes, RemoveFails, Doing, GoodCall
<1>2. OnlyCall(c) /\ call'[c].pc = "error" /\ call'[c].op = call[c].op
  BY Moved DEF RemoveFails, CallPcs
<1>3. GoodCall(call'[c])
  BY <1>1, <1>2 DEF GoodCall
<1>4. RowInv'
  BY <1>1, <1>2, <1>3, RowStays DEF RowInv, ShardTypes
<1> QED BY <1>1, <1>2, <1>4

\* steps that are not of a call
LEMMA CacheAndShards ==
  ASSUME RowInv, (\E s \in Shards : EnsureShard(s)) \/ (\E e \in Processes \X Users : Expire(e))
  PROVE  /\ RowInv' /\ UNCHANGED <<row, call, writers, overlapped>>
         /\ \A e \in Processes \X Users : cached'[e] = cached[e] \/ cached'[e] = Nothing
<1>1. /\ UNCHANGED <<row, locked, call, writers, overlapped>> /\ registered' \subseteq Shards
      /\ skew' \in Nat /\ cached' \in [Processes \X Users -> CacheType]
      /\ \A e \in Processes \X Users : cached'[e] = cached[e] \/ cached'[e] = Nothing
  <2>1. ASSUME NEW s \in Shards, EnsureShard(s)
        PROVE  /\ UNCHANGED <<row, locked, cached, call, writers, overlapped>>
               /\ registered' \subseteq Shards /\ skew' \in Nat
    BY <2>1, ShardsFacts, FS_CardinalityType DEF RowInv, ShardTypes, EnsureShard
  <2>2. ASSUME NEW f \in Processes \X Users, Expire(f)
        PROVE  /\ UNCHANGED <<registered, row, locked, call, writers, overlapped, skew>>
               /\ cached' \in [Processes \X Users -> CacheType]
               /\ \A e \in Processes \X Users : cached'[e] = cached[e] \/ cached'[e] = Nothing
    BY <2>2, NoEntry DEF RowInv, ShardTypes, Expire
  <2> QED BY <2>1, <2>2 DEF RowInv, ShardTypes
<1>2. ShardTypes' /\ LockInv' /\ WritersInv'
  BY <1>1 DEF RowInv, ShardTypes, LockInv, WritersInv, Version, Doing
<1> QED BY <1>1, <1>2 DEF RowInv

LEMMA RowStep == ASSUME RowInv, [ShardsNext]_shardVars PROVE RowInv'
<1>1. ASSUME NEW c \in Callers, ShardCall(c) PROVE RowInv'
  BY <1>1, LookupStep, SetStep, ReadStep, StoreStep, SelectStep, DeleteStep, InsertStep, CommitStep, FailStep,
     RemoveStep, RemoveFailsStep DEF ShardCall
<1>2. CASE UNCHANGED shardVars
  BY <1>2 DEF shardVars, RowInv, ShardTypes, LockInv, WritersInv, Version, Doing
<1> QED BY <1>1, <1>2, CacheAndShards DEF ShardsNext

LEMMA RowStart == ShardsInit => RowInv
<1> SUFFICES ASSUME ShardsInit PROVE RowInv
  OBVIOUS
<1>1. /\ call \in [Callers -> CallType]
      /\ \A c \in Callers : call[c].pc = "idle" /\ call[c].op = "none"
  BY DEF ShardsInit, CallType, CallPcs
<1>2. ShardTypes
  BY <1>1, NoEntry DEF ShardsInit, ShardTypes
<1>3. \A c \in Callers : GoodCall(call[c])
  BY <1>1 DEF GoodCall
<1>4. LockInv /\ WritersInv
  BY <1>1 DEF ShardsInit, LockInv, WritersInv, Version, Doing
<1> QED BY <1>2, <1>3, <1>4 DEF RowInv

-----------------------------------------------------------------------------
(* Which shard the calls agree on.                                         *)

\* without a set call, everybody who knows a shard of the user knows the one of the row
AgreeInv ==
  \A u \in Users : Sets(u) = {} =>
    /\ \A p \in Processes : cached[<<p, u>>].shard \in {NoShard, row[u]}
    /\ \A c \in Callers : call[c].user = u /\ call[c].pc \in {"store", "ok"} =>
         call[c].shard = row[u] /\ row[u] # NoShard

LEMMA SetsGrow ==
  ASSUME RowInv, NEW c \in Callers, OnlyCall(c), call'[c].op = call[c].op \/ call[c].op # "set",
         NEW u \in Users, Sets(u)' = {}
  PROVE  Sets(u) = {} /\ (call[c].user = u => call'[c].op # "set")
BY DEF Sets, OnlyCall

\* a call that learns no shard, or the one of the row
LEMMA AgreeStays ==
  ASSUME RowInv, AgreeInv, NEW c \in Callers, OnlyCall(c),
         call'[c].op = call[c].op \/ call[c].op # "set",
         row' = row, \A e \in Processes \X Users : cached'[e] = cached[e] \/ cached'[e] = Nothing,
         \/ call'[c].pc \notin {"store", "ok"}
         \/ call'[c].op = "set"
         \/ call'[c].shard = row[call[c].user] /\ row[call[c].user] # NoShard
  PROVE  AgreeInv'
<1> SUFFICES ASSUME NEW u \in Users, Sets(u)' = {}
             PROVE  /\ \A p \in Processes : cached'[<<p, u>>].shard \in {NoShard, row[u]}
                    /\ \A d \in Callers : call'[d].user = u /\ call'[d].pc \in {"store", "ok"} =>
                         call'[d].shard = row[u] /\ row[u] # NoShard
  BY DEF AgreeInv
<1>1. Sets(u) = {} /\ (call[c].user = u => call'[c].op # "set")
  BY SetsGrow
<1>2. \A p \in Processes : cached'[<<p, u>>].shard \in {NoShard, row[u]}
  <2> TAKE p \in Processes
  <2>1. <<p, u>> \in Processes \X Users
    OBVIOUS
  <2>2. cached'[<<p, u>>] = cached[<<p, u>>] \/ cached'[<<p, u>>] = Nothing
    BY <2>1
  <2> QED BY <1>1, <2>2, NoEntry DEF AgreeInv
<1>3. ASSUME NEW d \in Callers, call'[d].user = u, call'[d].pc \in {"store", "ok"}
      PROVE  call'[d].shard = row[u] /\ row[u] # NoShard
  BY <1>1, <1>3 DEF AgreeInv, OnlyCall
<1> QED BY <1>2, <1>3

LEMMA AgreeStep == ASSUME RowInv, AgreeInv, [ShardsNext]_shardVars PROVE AgreeInv'
<1>1. ASSUME NEW c \in Callers, NEW op \in {"get", "ensure"}, Lookup(c, op) PROVE AgreeInv'
  <2>1. /\ call[c].pc = "idle" /\ call[c].op = "none" /\ OnlyCall(c) /\ call'[c].op = op
        /\ UNCHANGED <<row, cached>> /\ call[c].user \in Users /\ ProcessOf[c] \in Processes
        /\ \/ call'[c].pc = "read"
           \/ /\ call'[c].pc = "ok" /\ cached[Entry(c)].shard # NoShard
              /\ call'[c].shard = cached[Entry(c)].shard
    BY <1>1, LookupEffect, ShardsFacts DEF RowInv, ShardTypes, CallType, GoodCall
  <2>2. CASE Sets(call[c].user) = {}
    <3>1. cached[Entry(c)].shard \in {NoShard, row[call[c].user]}
      BY <2>1, <2>2 DEF AgreeInv, Entry
    <3> QED BY <2>1, <3>1, AgreeStays
  <2>3. CASE Sets(call[c].user) # {}
    <3> SUFFICES ASSUME NEW u \in Users, Sets(u)' = {}
                 PROVE  /\ \A p \in Processes : cached[<<p, u>>].shard \in {NoShard, row[u]}
                        /\ \A d \in Callers : call'[d].user = u /\ call'[d].pc \in {"store", "ok"} =>
                             call'[d].shard = row[u] /\ row[u] # NoShard
      BY <2>1 DEF AgreeInv
    <3>1. Sets(u) = {} /\ u # call[c].user
      BY <2>1, <2>3, SetsGrow
    <3> QED BY <2>1, <3>1 DEF AgreeInv, OnlyCall
  <2> QED BY <2>2, <2>3
<1>2. ASSUME NEW c \in Callers, Read(c) PROVE AgreeInv'
  BY <1>2, ReadEffect, AgreeStays
<1>3. ASSUME NEW c \in Callers, SetShard(c) PROVE AgreeInv'
  BY <1>3, SetEffect, AgreeStays DEF RowInv, GoodCall
<1>4. ASSUME NEW c \in Callers, SelectShard(c) PROVE AgreeInv'
  BY <1>4, SelectStep, AgreeStays
<1>5. ASSUME NEW c \in Callers, DeleteRow(c) PROVE AgreeInv'
  BY <1>5, DeleteStep, AgreeStays DEF RowInv, GoodCall
<1>6. ASSUME NEW c \in Callers, InsertRow(c) PROVE AgreeInv'
  BY <1>6, InsertStep, AgreeStays
<1>7. ASSUME NEW c \in Callers, StatementFails(c) PROVE AgreeInv'
  BY <1>7, FailStep, AgreeStays
<1>8. ASSUME NEW c \in Callers, RemoveEntry(c) \/ RemoveFails(c) PROVE AgreeInv'
  BY <1>8, RemoveStep, RemoveFailsStep, AgreeStays
<1>9. ASSUME NEW c \in Callers, Store(c) PROVE AgreeInv'
  <2> SUFFICES ASSUME NEW u \in Users, Sets(u)' = {}
               PROVE  /\ \A p \in Processes : cached'[<<p, u>>].shard \in {NoShard, row'[u]}
                      /\ \A d \in Callers : call'[d].user = u /\ call'[d].pc \in {"store", "ok"} =>
                           call'[d].shard = row'[u] /\ row'[u] # NoShard
    BY DEF AgreeInv
  <2>1. Sets(u) = {}
    BY <1>9, StoreStep, SetsGrow
  <2>2. call[c].user = u => call[c].shard = row[u] /\ row[u] # NoShard
    BY <1>9, <2>1, StoreStep DEF AgreeInv
  <2>3. ASSUME NEW p \in Processes PROVE cached'[<<p, u>>].shard \in {NoShard, row'[u]}
    <3>1. CASE <<p, u>> = Entry(c)
      BY <1>9, <2>2, <3>1, StoreStep DEF Entry
    <3>2. CASE <<p, u>> # Entry(c)
      BY <1>9, <2>1, <3>2, StoreStep DEF AgreeInv
    <3> QED BY <3>1, <3>2
  <2>4. ASSUME NEW d \in Callers, call'[d].user = u, call'[d].pc \in {"store", "ok"}
        PROVE  call'[d].shard = row'[u] /\ row'[u] # NoShard
    BY <1>9, <2>1, <2>2, <2>4, StoreStep DEF AgreeInv, OnlyCall
  <2> QED BY <2>3, <2>4
<1>10. ASSUME NEW c \in Callers, Commit(c) \/ CommitFails(c) PROVE AgreeInv'
  <2>1. CASE UNCHANGED <<row, writers>> /\ call'[c].pc = "error"
    BY <1>10, <2>1, CommitStep, AgreeStays
  <2>2. CASE Written(c)
    <3> SUFFICES ASSUME NEW u \in Users, Sets(u)' = {}
                 PROVE  /\ \A p \in Processes : cached'[<<p, u>>].shard \in {NoShard, row'[u]}
                        /\ \A d \in Callers : call'[d].user = u /\ call'[d].pc \in {"store", "ok"} =>
                             call'[d].shard = row'[u] /\ row'[u] # NoShard
      BY DEF AgreeInv
    <3>1. /\ OnlyCall(c) /\ Doing(c, "commit") /\ call'[c].op = call[c].op /\ cached' = cached
          /\ call'[c].shard = call[c].shard /\ call'[c].pc \in {"error", "invalidate", "ok"}
      BY <1>10, CommitStep
    <3>2. Sets(u) = {} /\ (call[c].user = u => call[c].op # "set")
      BY <3>1, SetsGrow
    <3>3. /\ call[c].shard \in Shards /\ row'[call[c].user] = call[c].shard
          /\ \A w \in Users \ {call[c].user} : row'[w] = row[w]
      BY <2>2, <3>1, WrittenRow
    <3>4. CASE u # call[c].user
      BY <3>1, <3>2, <3>3, <3>4 DEF AgreeInv, OnlyCall
    <3>5. CASE u = call[c].user
      <4>1. row[u] = NoShard
        BY <3>1, <3>2, <3>5 DEF RowInv, GoodCall, LockInv, Doing
      <4>2. \A p \in Processes : cached[<<p, u>>].shard = NoShard
        BY <3>2, <4>1 DEF AgreeInv
      <4>3. \A d \in Callers \ {c} : ~(call'[d].user = u /\ call'[d].pc \in {"store", "ok"})
        BY <3>1, <3>2, <4>1 DEF AgreeInv, OnlyCall
      <4> QED BY <3>1, <3>3, <3>5, <4>2, <4>3, ShardsFacts
    <3> QED BY <3>4, <3>5
  <2> QED BY <1>10, <2>1, <2>2, CommitStep
<1>11. CASE (\E s \in Shards : EnsureShard(s)) \/ (\E e \in Processes \X Users : Expire(e))
  <2>1. /\ UNCHANGED <<row, call, writers, overlapped>>
        /\ \A e \in Processes \X Users : cached'[e] = cached[e] \/ cached'[e] = Nothing
    BY <1>11, CacheAndShards
  <2>2. \A p \in Processes, u \in Users :
          cached'[<<p, u>>] = cached[<<p, u>>] \/ cached'[<<p, u>>] = Nothing
    BY <2>1
  <2> QED BY <2>1, <2>2, NoEntry DEF AgreeInv, Sets
<1>12. CASE UNCHANGED shardVars
  BY <1>12 DEF shardVars, AgreeInv, Sets
<1> QED BY <1>1, <1>2, <1>3, <1>4, <1>5, <1>6, <1>7, <1>8, <1>9, <1>10, <1>11, <1>12 DEF ShardsNext, ShardCall

LEMMA AgreeStart == ShardsInit => AgreeInv
<1> SUFFICES ASSUME ShardsInit PROVE AgreeInv
  OBVIOUS
<1>1. \A c \in Callers : call[c].pc = "idle"
  BY DEF ShardsInit
<1>2. \A p \in Processes, u \in Users : cached[<<p, u>>] = Nothing
  BY DEF ShardsInit
<1> QED BY <1>1, <1>2, NoEntry DEF AgreeInv

(* Calls of EnsureShardForUser and GetShardForUser that race to assign a    *)
(* user (lib/camunda/shards) all return the shard that is in the table,     *)
(* also those whose insert met the key of another transaction and those     *)
(* that were answered by the cache of their process.                        *)
THEOREM CallsAgree == ShardsSpec => []AssignmentsAgree
<1>1. ShardsSpec => [](RowInv /\ AgreeInv)
  BY RowStart, RowStep, AgreeStart, AgreeStep, PTL DEF ShardsSpec
<1>2. RowInv /\ AgreeInv => AssignmentsAgree
  BY DEF RowInv, ShardTypes, CallType, AgreeInv, AssignmentsAgree, Doing
<1> QED BY <1>1, <1>2, PTL

-----------------------------------------------------------------------------
(* Why an entry of a cache may be old.                                     *)

Reason(w, p, by) ==
  \/ ProcessOf[w] # p \/ call[w].pc \in {"invalidate", "error"} \/ <<w, by>> \in overlapped

\* what process p knows of user u: no newer than the row, and every newer version has a reason
Explained(u, shard, version, p, by) ==
  /\ row[u] # NoShard /\ version <= Version(u)
  /\ version = Version(u) => shard = row[u]
  /\ \A v \in (version + 1)..Version(u) : Reason(writers[u][v], p, by)

StaleInv ==
  /\ \A p \in Processes, u \in Users :
       LET e == cached[<<p, u>>] IN e.shard # NoShard => Explained(u, e.shard, e.version, p, e.by)
  /\ \A c \in Callers : Doing(c, "store") =>
       Explained(call[c].user, call[c].shard, call[c].version, ProcessOf[c], c)

\* reasons that cannot be lost
ReasonsStay ==
  /\ overlapped \subseteq overlapped'
  /\ \A w \in Callers : call[w].pc \in {"invalidate", "error"} => call'[w].pc \in {"invalidate", "error"}

LEMMA WritersAreCalls ==
  ASSUME RowInv, NEW u \in Users
  PROVE  Version(u) \in Nat /\ \A v \in 1..Version(u) : writers[u][v] \in Callers
<1>1. writers[u] \in Seq(Callers)
  BY DEF RowInv, ShardTypes
<1> QED BY <1>1, LenProperties, ElementOfSeq DEF Version

LEMMA ReasonStays ==
  ASSUME ReasonsStay, NEW w \in Callers, NEW p, NEW by, Reason(w, p, by)
  PROVE  Reason(w, p, by)'
BY DEF ReasonsStay, Reason

\* what is known of a user whose row is not written
LEMMA ExplainedStays ==
  ASSUME RowInv, ReasonsStay, NEW u \in Users, row'[u] = row[u], writers'[u] = writers[u],
         NEW shard, NEW version \in Nat, NEW p, NEW by,
         Explained(u, shard, version, p, by)
  PROVE  Explained(u, shard, version, p, by)'
<1>1. Version(u)' = Version(u) /\ Version(u) \in Nat
  BY WritersAreCalls DEF Version
<1>2. ASSUME NEW v \in (version + 1)..Version(u), NEW w \in Callers, w = writers[u][v]
      PROVE  Reason(w, p, by)'
  <2>1. Reason(w, p, by)
    BY <1>2 DEF Explained
  <2> QED BY <2>1, ReasonStays
<1>3. \A v \in (version + 1)..Version(u) : writers[u][v] \in Callers
  BY <1>1, WritersAreCalls
<1> QED BY <1>1, <1>2, <1>3 DEF Explained, Reason

\* the new version has a reason, or nobody knew of the user
LEMMA ExplainedAfterWrite ==
  ASSUME RowInv, ReasonsStay, NEW c \in Callers, OnlyCall(c), Doing(c, "commit"), Written(c),
         call'[c].pc \in {"invalidate", "error"} \/ call[c].op = "ensure",
         NEW u \in Users, NEW shard, NEW version \in Nat, NEW p, NEW by,
         Explained(u, shard, version, p, by)
  PROVE  Explained(u, shard, version, p, by)'
<1>1. CASE u # call[c].user
  BY <1>1, WrittenRow, ExplainedStays
<1>2. CASE u = call[c].user
  <2>1. /\ row'[u] \in Shards /\ Len(writers'[u]) = Version(u) + 1 /\ writers'[u][Version(u) + 1] = c
        /\ Version(u) \in Nat
        /\ \A v \in 1..Version(u) : writers'[u][v] = writers[u][v]
    BY <1>2, WrittenRow
  <2>2. call[c].op # "ensure"
    BY <1>2 DEF Explained, RowInv, LockInv
  <2>3. Reason(c, p, by)'
    BY <2>2 DEF Reason
  <2>4. ASSUME NEW v \in (version + 1)..Version(u), NEW w \in Callers, w = writers[u][v]
        PROVE  Reason(w, p, by)'
    <3>1. Reason(w, p, by)
      BY <2>4 DEF Explained
    <3> QED BY <3>1, ReasonStays
  <2>5. ASSUME NEW v \in (version + 1)..(Version(u) + 1)
        PROVE  \E w \in Callers : w = writers'[u][v] /\ Reason(w, p, by)'
    <3>1. CASE v = Version(u) + 1
      BY <2>1, <2>3, <3>1
    <3>2. CASE v # Version(u) + 1
      <4>1. v \in 1..Version(u) /\ v \in (version + 1)..Version(u)
        BY <2>1, <3>2
      <4>2. writers[u][v] \in Callers /\ writers'[u][v] = writers[u][v]
        BY <2>1, <4>1, WritersAreCalls
      <4>3. PICK w \in Callers : w = writers[u][v]
        BY <4>2
      <4>4. Reason(w, p, by)'
        BY <2>4, <4>1, <4>3
      <4> QED BY <4>2, <4>3, <4>4
    <3> QED BY <3>1, <3>2
  <2>6. version <= Version(u) /\ row'[u] # NoShard
    BY <2>1, ShardsFacts DEF Explained
  <2>7. Version(u)' = Version(u) + 1
    BY <2>1 DEF Version
  <2>8. version <= Version(u)' /\ version # Version(u)'
    BY <2>1, <2>6, <2>7
  <2>9. ASSUME NEW v \in (version + 1)..(Version(u) + 1)
        PROVE  \/ ProcessOf[writers'[u][v]] # p
               \/ call'[writers'[u][v]].pc \in {"invalidate", "error"}
               \/ <<writers'[u][v], by>> \in overlapped'
    BY <2>5, <2>9 DEF Reason
  <2> QED BY <2>6, <2>7, <2>8, <2>9 DEF Explained, Reason
<1> QED BY <1>1, <1>2

\* every explanation stays one
KnownStays ==
  \A u \in Users, version \in Nat : \A shard, p, by :
    Explained(u, shard, version, p, by) => Explained(u, shard, version, p, by)'

LEMMA KnownWithoutWrite ==
  ASSUME RowInv, ReasonsStay, UNCHANGED <<row, writers>>
  PROVE  KnownStays
BY ExplainedStays DEF KnownStays

\* a call keeps the reasons unless it leaves "invalidate" or "error"
LEMMA CallKeepsReasons ==
  ASSUME NEW c \in Callers, OnlyCall(c), overlapped' = overlapped,
         call[c].pc \notin {"invalidate", "error"} \/ call'[c].pc = "error"
  PROVE  ReasonsStay
BY DEF ReasonsStay, OnlyCall

\* a step that caches nothing
LEMMA StaleStays ==
  ASSUME RowInv, StaleInv, KnownStays, NEW c \in Callers, OnlyCall(c),
         NEW y, y = call'[c],
         y.pc = "store" => Explained(y.user, y.shard, y.version, ProcessOf[c], c)',
         \A e \in Processes \X Users : cached'[e] = cached[e] \/ cached'[e] = Nothing
  PROVE  StaleInv'
<1>1. ASSUME NEW p \in Processes, NEW u \in Users, NEW e, e = cached'[<<p, u>>], e.shard # NoShard
      PROVE  Explained(u, e.shard, e.version, p, e.by)'
  <2>1. <<p, u>> \in Processes \X Users
    OBVIOUS
  <2>2. e = cached[<<p, u>>] /\ e \in CacheType
    BY <1>1, <2>1, NoEntry DEF RowInv, ShardTypes
  <2>3. Explained(u, e.shard, e.version, p, e.by) /\ e.version \in Nat
    BY <1>1, <2>2 DEF StaleInv, CacheType
  <2> QED BY <2>3 DEF KnownStays
<1>2. ASSUME NEW d \in Callers, NEW x, x = call'[d], x.pc = "store"
      PROVE  Explained(x.user, x.shard, x.version, ProcessOf[d], d)'
  <2>1. CASE d = c
    BY <1>2, <2>1
  <2>2. CASE d # c
    <3>1. x = call[d] /\ x.user \in Users /\ x.version \in Nat
      BY <1>2, <2>2 DEF OnlyCall, RowInv, ShardTypes, CallType
    <3>2. Explained(x.user, x.shard, x.version, ProcessOf[d], d)
      BY <1>2, <3>1 DEF StaleInv, Doing
    <3> QED BY <3>1, <3>2 DEF KnownStays
  <2> QED BY <2>1, <2>2
<1> QED BY <1>1, <1>2 DEF StaleInv, Doing, Explained, Version, Reason

\* the removal of an entry: its reason is no longer needed, or is remembered in overlapped
LEMMA ExplainedAfterRemove ==
  ASSUME RowInv, NEW c \in Callers, RemoveEntry(c),
         NEW u \in Users, NEW shard, NEW version \in Nat, NEW p, NEW by,
         Explained(u, shard, version, p, by),
         <<p, u>> = Entry(c) => <<c, by>> \in overlapped'
  PROVE  Explained(u, shard, version, p, by)'
<1>1. /\ UNCHANGED <<row, writers>> /\ overlapped \subseteq overlapped' /\ OnlyCall(c)
      /\ Version(u)' = Version(u) /\ Version(u) \in Nat
  BY RemoveStep, WritersAreCalls DEF Version
<1>2. ASSUME NEW v \in (version + 1)..Version(u), NEW w \in Callers, w = writers[u][v]
      PROVE  Reason(w, p, by)'
  <2>1. Reason(w, p, by)
    BY <1>2 DEF Explained
  <2>2. CASE w # c
    BY <1>1, <2>1, <2>2 DEF Reason, OnlyCall
  <2>3. CASE w = c
    <3>1. v \in 1..Version(u)
      BY <1>1, <1>2
    <3>2. call[c].user = u
      BY <1>2, <2>3, <3>1 DEF RowInv, WritersInv
    <3> QED BY <2>1, <2>3, <3>2, RemoveStep DEF Reason, Entry
  <2> QED BY <2>2, <2>3
<1>3. \A v \in (version + 1)..Version(u) : writers[u][v] \in Callers
  BY <1>1, WritersAreCalls
<1> QED BY <1>1, <1>2, <1>3 DEF Explained, Reason

LEMMA StaleAfterRemove ==
  ASSUME RowInv, StaleInv, NEW c \in Callers, RemoveEntry(c)
  PROVE  StaleInv'
<1>1. ASSUME NEW p \in Processes, NEW u \in Users, NEW e, e = cached'[<<p, u>>], e.shard # NoShard
      PROVE  Explained(u, e.shard, e.version, p, e.by)'
  <2>1. <<p, u>> \in Processes \X Users
    OBVIOUS
  <2>2. <<p, u>> # Entry(c)
    BY <1>1, NoEntry, RemoveStep
  <2>3. e = cached[<<p, u>>]
    BY <1>1, <2>1, <2>2, RemoveStep
  <2>4. e \in CacheType
    BY <2>1, <2>3 DEF RowInv, ShardTypes
  <2>5. Explained(u, e.shard, e.version, p, e.by) /\ e.version \in Nat
    BY <1>1, <2>3, <2>4 DEF StaleInv, CacheType
  <2> QED BY <2>2, <2>5, ExplainedAfterRemove
<1>2. ASSUME NEW d \in Callers, NEW x, x = call'[d], x.pc = "store"
      PROVE  Explained(x.user, x.shard, x.version, ProcessOf[d], d)'
  <2>1. d # c /\ x = call[d] /\ x.user \in Users /\ x.version \in Nat
    BY <1>2, RemoveStep DEF OnlyCall, RowInv, ShardTypes, CallType
  <2>2. Explained(x.user, x.shard, x.version, ProcessOf[d], d)
    BY <1>2, <2>1 DEF StaleInv, Doing
  <2>3. <<ProcessOf[d], x.user>> = Entry(c) => <<c, d>> \in overlapped'
    <3>1. Doing(d, "store") /\ Entry(d) = <<ProcessOf[d], x.user>>
      BY <1>2, <2>1 DEF Entry, Doing
    <3> HIDE DEF Entry, Doing
    <3> QED BY <3>1, RemoveStep
  <2> QED BY <2>1, <2>2, <2>3, ExplainedAfterRemove
<1> QED BY <1>1, <1>2 DEF StaleInv, Doing, Explained, Version, Reason

LEMMA StaleAfterStore ==
  ASSUME RowInv, StaleInv, NEW c \in Callers, Store(c)
  PROVE  StaleInv'
<1>1. /\ OnlyCall(c) /\ call[c].pc = "store" /\ call'[c].pc = "ok" /\ KnownStays
      /\ Entry(c) \in Processes \X Users
  BY StoreStep, CallKeepsReasons, KnownWithoutWrite
<1>2. ASSUME NEW p \in Processes, NEW u \in Users, NEW e, e = cached'[<<p, u>>], e.shard # NoShard
      PROVE  Explained(u, e.shard, e.version, p, e.by)'
  <2>1. <<p, u>> \in Processes \X Users
    OBVIOUS
  <2>2. CASE <<p, u>> = Entry(c)
    <3>1. /\ e.shard = call[c].shard /\ e.version = call[c].version /\ e.by = c
          /\ p = ProcessOf[c] /\ u = call[c].user
      BY <1>2, <2>2, StoreStep DEF Entry
    <3>2. Explained(u, e.shard, e.version, p, e.by) /\ e.version \in Nat
      BY <1>1, <3>1 DEF StaleInv, Doing, RowInv, ShardTypes, CallType
    <3> QED BY <1>1, <3>2 DEF KnownStays
  <2>3. CASE <<p, u>> # Entry(c)
    <3>1. e = cached[<<p, u>>] /\ e \in CacheType
      BY <1>2, <2>1, <2>3, StoreStep DEF RowInv, ShardTypes
    <3>2. Explained(u, e.shard, e.version, p, e.by) /\ e.version \in Nat
      BY <1>2, <3>1 DEF StaleInv, CacheType
    <3> QED BY <1>1, <3>2 DEF KnownStays
  <2> QED BY <2>2, <2>3
<1>3. ASSUME NEW d \in Callers, NEW x, x = call'[d], x.pc = "store"
      PROVE  Explained(x.user, x.shard, x.version, ProcessOf[d], d)'
  <2>1. d # c /\ x = call[d] /\ x.user \in Users /\ x.version \in Nat
    BY <1>1, <1>3 DEF OnlyCall, RowInv, ShardTypes, CallType
  <2>2. Explained(x.user, x.shard, x.version, ProcessOf[d], d)
    BY <1>3, <2>1 DEF StaleInv, Doing
  <2> QED BY <1>1, <2>1, <2>2 DEF KnownStays
<1> QED BY <1>2, <1>3 DEF StaleInv, Doing, Explained, Version, Reason

\* what is read is the newest version
LEMMA StaleAfterRead ==
  ASSUME RowInv, StaleInv, NEW c \in Callers, Read(c)
  PROVE  StaleInv'
<1> DEFINE y == call'[c]
           u == call[c].user
<1>1. /\ OnlyCall(c) /\ call[c].pc = "read" /\ KnownStays /\ y.user = u /\ u \in Users
      /\ UNCHANGED <<row, writers, cached>>
  BY ReadEffect, CallKeepsReasons, KnownWithoutWrite DEF OnlyCall, RowInv, ShardTypes, CallType
<1>2. y.pc = "store" => y.shard = row[u] /\ y.version = Version(u) /\ row[u] # NoShard
  BY ReadEffect
<1>3. Version(u) \in Nat /\ Version(u)' = Version(u)
  BY <1>1, WritersAreCalls DEF Version
<1>4. ASSUME NEW x, x = call'[c], x.pc = "store"
      PROVE  Explained(x.user, x.shard, x.version, ProcessOf[c], c)'
  <2>1. x.user = u /\ x.shard = row[u] /\ x.version = Version(u) /\ row[u] # NoShard
    BY <1>1, <1>2, <1>4
  <2>2. row' = row /\ Len(writers'[u]) = Version(u) /\ \A v \in (Version(u) + 1)..Version(u) : FALSE
    BY <1>1, <1>3 DEF Version
  <2> QED BY <1>3, <2>1, <2>2 DEF Explained, Version
<1> HIDE DEF y
<1>5. PICK x : x = call'[c]
  OBVIOUS
<1> QED BY <1>1, <1>4, <1>5, StaleStays

LEMMA StaleAfterCommit ==
  ASSUME RowInv, StaleInv, NEW c \in Callers, Commit(c) \/ CommitFails(c)
  PROVE  StaleInv'
<1>1. /\ OnlyCall(c) /\ Doing(c, "commit") /\ call'[c].pc # "store" /\ ReasonsStay
      /\ UNCHANGED <<cached, overlapped>>
      /\ call'[c].pc \in {"invalidate", "error"} \/ call[c].op = "ensure"
  <2>1. /\ OnlyCall(c) /\ Doing(c, "commit") /\ UNCHANGED <<cached, overlapped>>
        /\ \/ call'[c].pc = "error"
           \/ call'[c].pc = "invalidate" /\ call[c].op = "set"
           \/ call'[c].pc = "ok" /\ call[c].op = "ensure"
    BY CommitStep
  <2>2. ReasonsStay
    BY <2>1, CallKeepsReasons DEF Doing
  <2> QED BY <2>1, <2>2
<1>2. KnownStays
  <2>1. CASE Written(c)
    BY <1>1, <2>1, ExplainedAfterWrite DEF KnownStays
  <2>2. CASE UNCHANGED <<row, writers>>
    BY <1>1, <2>2, KnownWithoutWrite
  <2> QED BY <2>1, <2>2, CommitStep
<1>3. PICK x : x = call'[c]
  OBVIOUS
<1> QED BY <1>1, <1>2, <1>3, StaleStays

LEMMA StaleStep == ASSUME RowInv, StaleInv, [ShardsNext]_shardVars PROVE StaleInv'
<1>1. ASSUME NEW c \in Callers, OnlyCall(c), call'[c].pc # "store",
             call[c].pc \notin {"invalidate", "error"} \/ call'[c].pc = "error",
             UNCHANGED <<row, cached, writers, overlapped>>
      PROVE  StaleInv'
  <2>1. KnownStays
    BY <1>1, CallKeepsReasons, KnownWithoutWrite
  <2>2. PICK x : x = call'[c]
    OBVIOUS
  <2> QED BY <1>1, <2>1, <2>2, StaleStays
<1>2. ASSUME NEW c \in Callers, NEW op \in {"get", "ensure"}, Lookup(c, op) PROVE StaleInv'
  BY <1>1, <1>2, LookupEffect
<1>3. ASSUME NEW c \in Callers, SetShard(c) PROVE StaleInv'
  BY <1>1, <1>3, SetEffect
<1>4. ASSUME NEW c \in Callers, SelectShard(c) PROVE StaleInv'
  BY <1>1, <1>4, SelectStep
<1>5. ASSUME NEW c \in Callers, DeleteRow(c) PROVE StaleInv'
  BY <1>1, <1>5, DeleteStep
<1>6. ASSUME NEW c \in Callers, InsertRow(c) PROVE StaleInv'
  BY <1>1, <1>6, InsertStep
<1>7. ASSUME NEW c \in Callers, StatementFails(c) PROVE StaleInv'
  BY <1>1, <1>7, FailStep
<1>11. ASSUME NEW c \in Callers, RemoveFails(c) PROVE StaleInv'
  BY <1>1, <1>11, RemoveFailsStep
<1>8. ASSUME UNCHANGED <<row, call, writers, overlapped>>,
             \A e \in Processes \X Users : cached'[e] = cached[e] \/ cached'[e] = Nothing
      PROVE  StaleInv'
  <2>1. \A p \in Processes, u \in Users :
          cached'[<<p, u>>] = cached[<<p, u>>] \/ cached'[<<p, u>>] = Nothing
    BY <1>8
  <2> QED BY <1>8, <2>1, NoEntry DEF StaleInv, Explained, Reason, Version, Doing
<1>9. CASE (\E s \in Shards : EnsureShard(s)) \/ (\E e \in Processes \X Users : Expire(e))
  BY <1>8, <1>9, CacheAndShards
<1>10. CASE UNCHANGED shardVars
  BY <1>8, <1>10 DEF shardVars
<1> QED BY <1>2, <1>3, <1>4, <1>5, <1>6, <1>7, <1>9, <1>10, <1>11, StaleAfterRead, StaleAfterStore, StaleAfterCommit,
           StaleAfterRemove DEF ShardsNext, ShardCall

LEMMA StaleStart == ShardsInit => StaleInv
<1> SUFFICES ASSUME ShardsInit PROVE StaleInv
  OBVIOUS
<1>1. \A c \in Callers : call[c].pc = "idle"
  BY DEF ShardsInit
<1>2. \A p \in Processes, u \in Users : cached[<<p, u>>] = Nothing
  BY DEF ShardsInit
<1> QED BY <1>1, <1>2, NoEntry DEF StaleInv, Doing

(* An entry of a cache of lib/camunda/shards that is older than the row has *)
(* a reason for each version it misses: another process wrote it, its       *)
(* writer has still to remove the entry or returned an error, or the entry  *)
(* comes from a call that read the row before the removal.  So once a       *)
(* SetShardForUser has returned without an error, its own process answers   *)
(* with an older shard only if a call that was under way cached it again.   *)
THEOREM StaleHasReason == ShardsSpec => []StaleShardHasReason
<1>1. ShardsSpec => [](RowInv /\ StaleInv)
  BY RowStart, RowStep, StaleStart, StaleStep, PTL DEF ShardsSpec
<1>2. RowInv /\ StaleInv => StaleShardHasReason
  BY DEF StaleInv, StaleShardHasReason, Explained, Reason
<1> QED BY <1>1, <1>2, PTL

-----------------------------------------------------------------------------
(* How even the shards are.                                                *)

Selected(c) == call[c].op = "ensure" /\ call[c].pc \in {"insert", "commit"}
Having(x) == {u \in Users : row[u] = x}

\* the users of a shard and those who have none and get this one if a call succeeds
Claimed(x) ==
  Having(x) \cup {u \in Users : row[u] = NoShard /\
                     \E c \in Callers : Selected(c) /\ call[c].user = u /\ call[c].shard = x}

NobodySets == \A u \in Users : Sets(u) = {}
ClaimInv ==
  NobodySets => \A x, y \in registered : Cardinality(Claimed(x)) <= Count(y) + skew

LEMMA CountFacts ==
  ASSUME NEW x
  PROVE  /\ Count(x) = Cardinality(Having(x)) /\ Count(x) \in Nat /\ Cardinality(Claimed(x)) \in Nat
         /\ IsFiniteSet(Having(x)) /\ IsFiniteSet(Claimed(x))
         /\ Count(x) <= Cardinality(Claimed(x)) /\ Cardinality(Claimed(x)) <= Cardinality(Users)
<1>1. Having(x) \in SUBSET Users /\ Claimed(x) \in SUBSET Users /\ Having(x) \in SUBSET Claimed(x)
  BY DEF Having, Claimed
<1>2. IsFiniteSet(Having(x)) /\ IsFiniteSet(Claimed(x)) /\ Cardinality(Claimed(x)) <= Cardinality(Users)
  BY <1>1, ShardsFacts, FS_Subset
<1>3. Cardinality(Having(x)) <= Cardinality(Claimed(x))
  BY <1>1, <1>2, FS_Subset
<1>4. Count(x) = Cardinality(Having(x))
  BY DEF Count, Having
<1> QED BY <1>2, <1>3, <1>4, FS_CardinalityType

LEMMA NobodySetsBefore ==
  ASSUME RowInv, NEW c \in Callers, OnlyCall(c), call'[c].op = call[c].op \/ call[c].op # "set", NobodySets'
  PROVE  NobodySets /\ call[c].op # "set" /\ call'[c].op # "set"
<1>1. call[c].user \in Users /\ call'[c].user = call[c].user
  BY DEF RowInv, ShardTypes, CallType, OnlyCall
<1>2. NobodySets
  BY SetsGrow DEF NobodySets
<1> QED BY <1>1, <1>2 DEF NobodySets, Sets

\* a shard that claims no new user, beside one that loses none
LEMMA ClaimsShrink ==
  ASSUME RowInv, RowInv', ClaimInv, NobodySets, registered' = registered, skew' \in Nat, skew <= skew',
         NEW x \in registered, NEW y \in registered,
         Claimed(x)' \subseteq Claimed(x), Having(y) \subseteq Having(y)'
  PROVE  Cardinality(Claimed(x))' <= Count(y)' + skew'
<1>1. Cardinality(Claimed(x)) <= Count(y) + skew /\ skew \in Nat
  BY DEF ClaimInv, RowInv, ShardTypes
<1>2. /\ Cardinality(Claimed(x))' <= Cardinality(Claimed(x))
      /\ Cardinality(Claimed(x)) \in Nat /\ Cardinality(Claimed(x))' \in Nat
  <2>1. IsFiniteSet(Claimed(x)) /\ Cardinality(Claimed(x)) \in Nat
    BY CountFacts
  <2>2. Claimed(x)' \in SUBSET Claimed(x)
    OBVIOUS
  <2> QED BY <2>1, <2>2, FS_Subset, FS_CardinalityType
<1>3. Count(y) <= Count(y)' /\ Count(y) \in Nat /\ Count(y)' \in Nat
  <2>1. Having(y)' \in SUBSET Users /\ Having(y) \in SUBSET Having(y)'
    BY DEF Having
  <2>2. IsFiniteSet(Having(y)')
    BY <2>1, ShardsFacts, FS_Subset
  <2>3. Count(y) = Cardinality(Having(y)) /\ Count(y)' = Cardinality(Having(y)')
    BY DEF Count, Having
  <2> QED BY <2>1, <2>2, <2>3, CountFacts, FS_Subset, FS_CardinalityType
<1> QED BY <1>1, <1>2, <1>3

\* the steps that write no row and select no shard
LEMMA ClaimStays ==
  ASSUME RowInv, RowInv', ClaimInv, NEW c \in Callers, OnlyCall(c),
         call'[c].op = call[c].op \/ call[c].op # "set",
         UNCHANGED <<registered, row, skew>>,
         \/ call'[c].pc \notin {"insert", "commit"} \/ call'[c].op = "set"
         \/ Selected(c) /\ call'[c].shard = call[c].shard
  PROVE  ClaimInv'
<1> SUFFICES ASSUME NobodySets', NEW x \in registered, NEW y \in registered
             PROVE  Cardinality(Claimed(x))' <= Count(y)' + skew'
  BY DEF ClaimInv
<1>1. NobodySets /\ call'[c].op # "set"
  BY NobodySetsBefore
<1>2. \A d \in Callers : Selected(d)' => Selected(d) /\ call'[d].user = call[d].user /\ call'[d].shard = call[d].shard
  BY <1>1 DEF OnlyCall, Selected
<1>3. Claimed(x)' \subseteq Claimed(x) /\ Having(y) \subseteq Having(y)'
  BY <1>2 DEF Claimed, Having
<1>4. skew \in Nat
  BY DEF RowInv, ShardTypes
<1> QED BY <1>1, <1>3, <1>4, ClaimsShrink

\* the users of some calls
LEMMA UsersOfCalls ==
  ASSUME NEW D \in SUBSET Callers
  PROVE  LET T == {u \in Users : \E d \in D : call[d].user = u} IN
         /\ IsFiniteSet(D) /\ Cardinality(D) \in Nat
         /\ IsFiniteSet(T) /\ Cardinality(T) \in Nat /\ Cardinality(T) <= Cardinality(D)
<1> DEFINE S == {d \in D : call[d].user \in Users}
           T == {u \in Users : \E d \in D : call[d].user = u}
           f == [d \in S |-> call[d].user]
<1>1. IsFiniteSet(D) /\ Cardinality(D) \in Nat /\ IsFiniteSet(S) /\ Cardinality(S) \in Nat
      /\ Cardinality(S) <= Cardinality(D)
  <2>1. IsFiniteSet(D)
    BY ShardsFacts, FS_Subset
  <2>2. S \in SUBSET D
    OBVIOUS
  <2> QED BY <2>1, <2>2, FS_Subset, FS_CardinalityType
<1>2. f \in Surjection(S, T)
  BY DEF Surjection
<1>3. IsFiniteSet(T) /\ Cardinality(T) <= Cardinality(S)
  <2> HIDE DEF f, S, T
  <2> QED BY <1>1, <1>2, FS_Surjection
<1>4. Cardinality(T) \in Nat
  BY <1>3, FS_CardinalityType
<1> HIDE DEF S, T
<1>5. Cardinality(T) <= Cardinality(D)
  BY <1>1, <1>3, <1>4
<1> QED BY <1>1, <1>3, <1>4, <1>5 DEF T

\* a call selects a shard with the fewest users; beside it only calls that have selected and not
\* yet committed claim a user for that shard
LEMMA ClaimSelected ==
  ASSUME RowInv, RowInv', ClaimInv, NEW c \in Callers, OnlyCall(c), call[c].pc = "select",
         call'[c].op = call[c].op, UNCHANGED <<registered, row>>,
         NEW s \in Fewest(registered), Select(c, s), call'[c].shard = s
  PROVE  ClaimInv'
<1> SUFFICES ASSUME NobodySets', NEW x \in registered, NEW y \in registered
             PROVE  Cardinality(Claimed(x))' <= Count(y)' + skew'
  BY DEF ClaimInv
<1> DEFINE others == {d \in Callers \ {c} : Selected(d)}
           D == others \cup {c}
           T == {u \in Users : \E d \in D : call[d].user = u}
<1>1. NobodySets
  BY NobodySetsBefore
<1>2. /\ IsFiniteSet(others) /\ Cardinality(others) \in Nat
      /\ IsFiniteSet(D) /\ Cardinality(D) = Cardinality(others) + 1
      /\ IsFiniteSet(T) /\ Cardinality(T) \in Nat /\ Cardinality(T) <= Cardinality(D)
  <2>1. others \in SUBSET Callers /\ D \in SUBSET Callers /\ c \notin others
    OBVIOUS
  <2>2. IsFiniteSet(others) /\ Cardinality(others) \in Nat
    BY <2>1, ShardsFacts, FS_Subset, FS_CardinalityType
  <2>3. Cardinality(D) = Cardinality(others) + 1
    <3> HIDE DEF others
    <3> QED BY <2>1, <2>2, FS_AddElement
  <2>4. IsFiniteSet(D) /\ IsFiniteSet(T) /\ Cardinality(T) \in Nat /\ Cardinality(T) <= Cardinality(D)
    <3> HIDE DEF D
    <3> QED BY <2>1, UsersOfCalls
  <2> QED BY <2>2, <2>3, <2>4
<1>3. skew \in Nat /\ skew' \in Nat /\ skew <= skew' /\ Cardinality(others) + 1 <= skew'
  <2>1. skew \in Nat
    BY DEF RowInv, ShardTypes
  <2>2. skew' = IF skew > Cardinality(others) THEN skew ELSE Cardinality(others) + 1
    BY DEF Select, Selected
  <2> HIDE DEF others
  <2> QED BY <1>2, <2>1, <2>2
<1>4. \A d \in Callers \ {c} : Selected(d)' = Selected(d) /\ call'[d] = call[d]
  BY DEF OnlyCall, Selected
<1>5. Having(x)' = Having(x) /\ Having(y)' = Having(y) /\ Count(y)' = Count(y)
  BY DEF Having, Count
<1>6. CASE x # s
  <2>1. Claimed(x)' \subseteq Claimed(x)
    BY <1>4, <1>6 DEF Claimed, Having
  <2> QED BY <1>1, <1>3, <1>5, <2>1, ClaimsShrink
<1>7. CASE x = s
  <2>1. Claimed(x)' \in SUBSET (Having(x) \cup T)
    BY <1>4, <1>5 DEF Claimed, OnlyCall
  <2>2. /\ IsFiniteSet(Having(x)) /\ Cardinality(Having(x)) = Count(x) /\ Count(x) \in Nat
        /\ Count(y) \in Nat /\ Count(x) <= Count(y)
    BY <1>7, CountFacts DEF Fewest
  <2>3. /\ IsFiniteSet(Having(x) \cup T)
        /\ Cardinality(Having(x) \cup T) <= Count(x) + Cardinality(T)
        /\ Cardinality(Having(x) \cup T) \in Nat
    <3> HIDE DEF T
    <3>1. /\ IsFiniteSet(Having(x) \cup T)
          /\ Cardinality(Having(x) \cup T) =
               Cardinality(Having(x)) + Cardinality(T) - Cardinality(Having(x) \cap T)
      BY <1>2, <2>2, FS_Union
    <3>2. Having(x) \cap T \in SUBSET Having(x)
      OBVIOUS
    <3>3. Cardinality(Having(x) \cap T) \in Nat
      BY <2>2, <3>2, FS_Subset, FS_CardinalityType
    <3>4. Cardinality(Having(x) \cup T) \in Nat
      BY <3>1, FS_CardinalityType
    <3>5. Cardinality(T) \in Nat
      BY <1>2
    <3> QED BY <2>2, <3>1, <3>3, <3>4, <3>5
  <2>4. /\ Cardinality(Claimed(x)') \in Nat
        /\ Cardinality(Claimed(x)') <= Cardinality(Having(x) \cup T)
    <3> HIDE DEF T
    <3> QED BY <2>1, <2>3, FS_Subset, FS_CardinalityType
  <2> HIDE DEF T, D, others
  <2> QED BY <1>2, <1>3, <1>5, <2>2, <2>3, <2>4
<1> QED BY <1>6, <1>7

\* a commit makes a user of one who was claimed
LEMMA ClaimCommitted ==
  ASSUME RowInv, RowInv', ClaimInv, NEW c \in Callers, OnlyCall(c), Doing(c, "commit"), Written(c),
         call'[c].op = call[c].op, call'[c].pc # "commit", call'[c].pc # "insert",
         UNCHANGED <<registered, skew>>
  PROVE  ClaimInv'
<1> SUFFICES ASSUME NobodySets', NEW x \in registered, NEW y \in registered
             PROVE  Cardinality(Claimed(x))' <= Count(y)' + skew'
  BY DEF ClaimInv
<1> DEFINE u == call[c].user
<1>1. NobodySets /\ call[c].op # "set"
  BY NobodySetsBefore
<1>2. /\ u \in Users /\ row'[u] = call[c].shard /\ call[c].shard \in Shards
      /\ \A w \in Users \ {u} : row'[w] = row[w]
  BY WrittenRow
<1>3. call[c].op = "ensure" /\ row[u] = NoShard
  BY <1>1 DEF RowInv, GoodCall, LockInv, Doing
<1>4. \A d \in Callers : Selected(d)' => Selected(d) /\ call'[d] = call[d]
  BY DEF OnlyCall, Selected
<1>5. x # NoShard /\ y # NoShard /\ call[c].shard # NoShard /\ Selected(c)
  BY <1>2, <1>3, ShardsFacts DEF RowInv, ShardTypes, Selected, Doing
<1>6. Having(y) \subseteq Having(y)'
  BY <1>2, <1>3, <1>5 DEF Having
<1>7. Claimed(x)' \subseteq Claimed(x)
  <2> SUFFICES ASSUME NEW w \in Users, w \in Claimed(x)' PROVE w \in Claimed(x)
    BY DEF Claimed, Having
  <2>1. CASE w = u
    BY <1>2, <1>3, <1>5, <2>1 DEF Claimed, Having
  <2>2. CASE w # u
    BY <1>2, <1>4, <2>2 DEF Claimed, Having
  <2> QED BY <2>1, <2>2
<1>8. skew \in Nat
  BY DEF RowInv, ShardTypes
<1> QED BY <1>1, <1>6, <1>7, <1>8, ClaimsShrink

LEMMA ClaimStep == ASSUME RowInv, ClaimInv, [ShardsNext]_shardVars PROVE ClaimInv'
<1>0. RowInv'
  BY RowStep
<1>1. ASSUME NEW c \in Callers, NEW op \in {"get", "ensure"}, Lookup(c, op) PROVE ClaimInv'
  <2>1. call[c].op = "none" /\ UNCHANGED <<registered, row, skew>>
    BY <1>1, LookupEffect DEF RowInv, GoodCall
  <2> QED BY <1>0, <1>1, <2>1, LookupEffect, ClaimStays
<1>2. ASSUME NEW c \in Callers, Read(c) PROVE ClaimInv'
  BY <1>0, <1>2, ReadEffect, ClaimStays
<1>3. ASSUME NEW c \in Callers, SetShard(c) PROVE ClaimInv'
  BY <1>0, <1>3, SetEffect, ClaimStays DEF RowInv, GoodCall
<1>4. ASSUME NEW c \in Callers, SelectShard(c) PROVE ClaimInv'
  BY <1>0, <1>4, SelectStep, ClaimSelected, ClaimStays
<1>5. ASSUME NEW c \in Callers, DeleteRow(c) PROVE ClaimInv'
  BY <1>0, <1>5, DeleteStep, ClaimStays DEF RowInv, GoodCall
<1>6. ASSUME NEW c \in Callers, InsertRow(c) PROVE ClaimInv'
  <2>1. call[c].op = "set" \/ Selected(c)
    BY <1>6, InsertStep DEF RowInv, GoodCall, Selected
  <2> QED BY <1>0, <1>6, <2>1, InsertStep, ClaimStays
<1>7. ASSUME NEW c \in Callers, StatementFails(c) PROVE ClaimInv'
  BY <1>0, <1>7, FailStep, ClaimStays
<1>8. ASSUME NEW c \in Callers, RemoveEntry(c) \/ RemoveFails(c) PROVE ClaimInv'
  BY <1>0, <1>8, RemoveStep, RemoveFailsStep, ClaimStays
<1>9. ASSUME NEW c \in Callers, Store(c) PROVE ClaimInv'
  BY <1>0, <1>9, StoreStep, ClaimStays
<1>10. ASSUME NEW c \in Callers, Commit(c) \/ CommitFails(c) PROVE ClaimInv'
  <2>1. CASE Written(c)
    BY <1>0, <1>10, <2>1, CommitStep, ClaimCommitted
  <2>2. CASE UNCHANGED <<row, writers>> /\ call'[c].pc = "error"
    BY <1>0, <1>10, <2>2, CommitStep, ClaimStays
  <2> QED BY <1>10, <2>1, <2>2, CommitStep
<1>11. ASSUME NEW s \in Shards, EnsureShard(s) PROVE ClaimInv'
  <2> SUFFICES ASSUME NEW x \in registered', NEW y \in registered'
               PROVE  Cardinality(Claimed(x))' <= Count(y)' + skew'
    BY DEF ClaimInv
  <2>1. skew' = Cardinality(Users) /\ UNCHANGED <<row, call>>
    BY <1>11 DEF EnsureShard
  <2>2. Claimed(x)' = Claimed(x) /\ Count(y)' = Count(y)
    BY <2>1 DEF Claimed, Having, Selected, Count
  <2>3. Cardinality(Users) \in Nat
    BY ShardsFacts, FS_CardinalityType
  <2> QED BY <2>1, <2>2, <2>3, CountFacts
<1>12. ASSUME UNCHANGED <<registered, row, call, skew>> PROVE ClaimInv'
  BY <1>12 DEF ClaimInv, NobodySets, Sets, Claimed, Having, Selected, Count
<1>13. ASSUME NEW e \in Processes \X Users, Expire(e) PROVE ClaimInv'
  BY <1>12, <1>13 DEF Expire
<1>14. CASE UNCHANGED shardVars
  BY <1>12, <1>14 DEF shardVars
<1> QED BY <1>1, <1>2, <1>3, <1>4, <1>5, <1>6, <1>7, <1>8, <1>9, <1>10, <1>11, <1>13, <1>14
        DEF ShardsNext, ShardCall

LEMMA ClaimStart == ShardsInit => ClaimInv
<1> SUFFICES ASSUME ShardsInit, NEW x \in registered, NEW y \in registered
             PROVE  Cardinality(Claimed(x)) <= Count(y) + skew
  BY DEF ClaimInv
<1>1. \A c \in Callers : call[c].pc = "idle"
  BY DEF ShardsInit
<1>2. Claimed(x) = Having(x)
  BY <1>1 DEF Claimed, Having, Selected
<1>3. Count(x) <= Count(y) + 1 /\ skew = 1
  BY DEF ShardsInit, Even
<1> QED BY <1>2, <1>3, CountFacts

(* As long as nobody uses SetShardForUser, selectShard keeps the shards as  *)
(* even as it can: two of them differ by no more users than calls have      *)
(* counted the users at the same time, until a new shard is registered.     *)
THEOREM Spread == ShardsSpec => []Balanced
<1>1. ShardsSpec => [](RowInv /\ ClaimInv)
  BY RowStart, RowStep, ClaimStart, ClaimStep, PTL DEF ShardsSpec
<1>2. RowInv /\ ClaimInv => Balanced
  <2> SUFFICES ASSUME RowInv, ClaimInv, NobodySets, NEW x \in registered, NEW y \in registered
               PROVE  Count(x) <= Count(y) + skew
    BY DEF Balanced, Even, NobodySets
  <2>1. Cardinality(Claimed(x)) <= Count(y) + skew /\ skew \in Nat
    BY DEF ClaimInv, RowInv, ShardTypes
  <2> QED BY <2>1, CountFacts
<1> QED BY <1>1, <1>2, PTL
=============================================================================
