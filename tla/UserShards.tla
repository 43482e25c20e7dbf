----------------------------- MODULE UserShards -----------------------------
(***************************************************************************)
(* Which engine a user belongs to: lib/camunda/shards, a table in Postgres *)
(* that several processes write in transactions, each reading it through a *)
(* cache of its own.  The transactions read what is committed and wait for *)
(* each other at the row of a user; statements, commits and the cache are  *)
(* steps of their own.                                                     *)
(***************************************************************************)
EXTENDS Integers, Sequences, FiniteSets

CONSTANTS
  Users, Shards,   \* Shards are addresses of engines
  Processes,
  Callers,         \* goroutines, one call each
  ProcessOf,       \* [Callers -> Processes]
  NoShard,
  MaxErrors        \* bound: statements, commits and removals from a cache that fail or time out

ASSUME ShardsAssumption ==
  /\ ProcessOf \in [Callers -> Processes] /\ "nobody" \notin Callers
  /\ NoShard \notin Shards /\ MaxErrors \in Nat
  /\ IsFiniteSet(Users) /\ IsFiniteSet(Callers) /\ IsFiniteSet(Shards)

VARIABLES
  registered,      \* table Shard
  row,             \* table ShardsMapping: [Users -> Shards \cup {NoShard}]
  locked,          \* users whose row a transaction has written and not committed
  cached,          \* [Processes \X Users -> [shard, version, by]], without a shard if there is none
  call,            \* [Callers -> [pc, op, user, shard, version]]
  dbErrors,
  \* history
  writers,         \* [Users -> Seq(Callers)], who committed each version of the row
  overlapped,      \* <<c, d>>: d had read the row and not yet cached it when c removed the entry
  skew             \* how uneven the shards may be: 1 plus the calls that select at the same
                   \* time, and anything when a new shard is empty

shardVars == <<registered, row, locked, cached, call, dbErrors, writers, overlapped, skew>>

Nothing == [shard |-> NoShard, version |-> 0, by |-> "nobody"]
Version(u) == Len(writers[u])
Entry(c) == <<ProcessOf[c], call[c].user>>

Doing(c, label) == call[c].pc = label
Moves(c, label) == call' = [call EXCEPT ![c].pc = label, ![c].version = 0]
DbFault == dbErrors < MaxErrors /\ dbErrors' = dbErrors + 1

Count(s) == Cardinality({u \in Users : row[u] = s})
Even(bound) == \A x, y \in registered : Count(x) <= Count(y) + bound

\* users who have a shard are spread evenly over the shards
ShardsInit ==
  /\ registered \in SUBSET Shards
  /\ row \in [Users -> registered \cup {NoShard}] /\ Even(1)
  /\ locked = [u \in Users |-> "nobody"]
  /\ cached = [e \in Processes \X Users |-> Nothing]
  /\ call \in [Callers -> {[pc |-> "idle", op |-> "none", user |-> u, shard |-> NoShard, version |-> 0] :
                             u \in Users}]
  /\ dbErrors = 0 /\ writers = [u \in Users |-> <<>>] /\ overlapped = {} /\ skew = 1

-----------------------------------------------------------------------------
(* GetShardForUser and EnsureShardForUser                                  *)

\* cache.Use
Lookup(c, op) ==
  /\ Doing(c, "idle")
  /\ LET e == cached[Entry(c)] IN
     call' = [call EXCEPT ![c] = IF e.shard = NoShard THEN [@ EXCEPT !.pc = "read", !.op = op]
                                 ELSE [@ EXCEPT !.pc = "ok", !.op = op, !.shard = e.shard]]
  /\ UNCHANGED <<registered, row, locked, cached, dbErrors, writers, overlapped, skew>>

\* getShardForUser: ErrorNotFound ends a Get
Read(c) ==
  /\ Doing(c, "read")
  /\ LET u == call[c].user IN
     call' = [call EXCEPT ![c] =
       IF row[u] # NoShard THEN [@ EXCEPT !.pc = "store", !.shard = row[u], !.version = Version(u)]
       ELSE [@ EXCEPT !.pc = IF call[c].op = "ensure" THEN "select" ELSE "error"]]
  /\ UNCHANGED <<registered, row, locked, cached, dbErrors, writers, overlapped, skew>>

\* the entry is valid for a minute
Store(c) ==
  /\ Doing(c, "store")
  /\ cached' = [cached EXCEPT ![Entry(c)] =
       [shard |-> call[c].shard, version |-> call[c].version, by |-> c]]
  /\ Moves(c, "ok")
  /\ UNCHANGED <<registered, row, locked, dbErrors, writers, overlapped, skew>>

Fewest(S) == {s \in S : \A x \in S : Count(s) <= Count(x)}
Select(c, s) ==
  LET others == {d \in Callers \ {c} : call[d].op = "ensure" /\ call[d].pc \in {"insert", "commit"}} IN
  /\ call' = [call EXCEPT ![c].pc = "insert", ![c].shard = s]
  /\ skew' = IF skew > Cardinality(others) THEN skew ELSE Cardinality(others) + 1

\* mutant: the query joins without LEFT, so that it has no row for a shard without users
SelectUsedShard(c) ==
  /\ Doing(c, "select")
  /\ \/ \E s \in Fewest({x \in registered : Count(x) > 0}) : Select(c, s)
     \/ (\A x \in registered : Count(x) = 0) /\ Moves(c, "error") /\ UNCHANGED skew
  /\ UNCHANGED <<registered, row, locked, cached, dbErrors, writers, overlapped>>

\* selectShard: any of those with the fewest users, as Go orders its maps; "no shard found"
SelectShard(c) ==
  /\ Doing(c, "select")
  /\ \/ \E s \in Fewest(registered) : Select(c, s)
     \/ registered = {} /\ Moves(c, "error") /\ UNCHANGED skew
  /\ UNCHANGED <<registered, row, locked, cached, dbErrors, writers, overlapped>>

-----------------------------------------------------------------------------
(* SetShardForUser                                                         *)

\* removeShardForUser, which sees the rows of its start ...
SetShard(c) ==
  /\ Doing(c, "idle")
  /\ \E s \in Shards :
       call' = [call EXCEPT ![c].pc = "delete", ![c].op = "set", ![c].shard = s,
                            ![c].version = Version(call[c].user)]
  /\ UNCHANGED <<registered, row, locked, cached, dbErrors, writers, overlapped, skew>>

\* ... and waits for a transaction that has written the row; a new version is another row
DeleteRow(c) ==
  LET u == call[c].user IN
  /\ Doing(c, "delete") /\ locked[u] = "nobody"
  /\ locked' = [locked EXCEPT ![u] =
       IF row[u] # NoShard /\ Version(u) = call[c].version THEN c ELSE "nobody"]
  /\ Moves(c, "insert")
  /\ UNCHANGED <<registered, row, cached, dbErrors, writers, overlapped, skew>>

-----------------------------------------------------------------------------
(* The end of a transaction                                                *)

Unlock(c) == locked' = [u \in Users |-> IF locked[u] = c THEN "nobody" ELSE locked[u]]

\* mutant: INSERT ... ON CONFLICT DO NOTHING
InsertOrNothing(c) ==
  LET u == call[c].user IN
  /\ Doing(c, "insert") /\ locked[u] \in {c, "nobody"}
  /\ IF call[c].shard \notin registered
     THEN Moves(c, "error") /\ Unlock(c)
     ELSE IF locked[u] = "nobody" /\ row[u] # NoShard
     THEN Moves(c, IF call[c].op = "set" THEN "invalidate" ELSE "ok") /\ UNCHANGED locked
     ELSE Moves(c, "commit") /\ locked' = [locked EXCEPT ![u] = c]
  /\ UNCHANGED <<registered, row, cached, dbErrors, writers, overlapped, skew>>

\* addShardForUser waits for the same key of another transaction; a key that exists and a
\* shard that does not are errors, which roll back
InsertRow(c) ==
  LET u == call[c].user IN
  /\ Doing(c, "insert") /\ locked[u] \in {c, "nobody"}
  /\ IF call[c].shard \notin registered \/ (locked[u] = "nobody" /\ row[u] # NoShard)
     THEN Moves(c, "error") /\ Unlock(c)
     ELSE Moves(c, "commit") /\ locked' = [locked EXCEPT ![u] = c]
  /\ UNCHANGED <<registered, row, cached, dbErrors, writers, overlapped, skew>>

Written(c) ==
  /\ row' = [row EXCEPT ![call[c].user] = call[c].shard]
  /\ writers' = [writers EXCEPT ![call[c].user] = Append(@, c)]

Commit(c) ==
  /\ Doing(c, "commit")
  /\ Written(c) /\ Unlock(c)
  /\ Moves(c, IF call[c].op = "set" THEN "invalidate" ELSE "ok")
  /\ UNCHANGED <<registered, cached, dbErrors, overlapped, skew>>

\* the answer to the commit is lost, or it was not committed
CommitFails(c) ==
  /\ Doing(c, "commit") /\ DbFault
  /\ Written(c) \/ UNCHANGED <<row, writers>>
  /\ Unlock(c) /\ Moves(c, "error")
  /\ UNCHANGED <<registered, cached, overlapped, skew>>

\* a statement fails or the timeout of its context rolls back the transaction
StatementFails(c) ==
  /\ call[c].pc \in {"read", "select", "delete", "insert"} /\ DbFault
  /\ Unlock(c) /\ Moves(c, "error")
  /\ UNCHANGED <<registered, row, cached, writers, overlapped, skew>>

\* mutant: only entries of the old version are removed
RemoveOwnEntry(c) ==
  /\ Doing(c, "invalidate")
  /\ cached' = IF cached[Entry(c)].by = c THEN [cached EXCEPT ![Entry(c)] = Nothing] ELSE cached
  /\ overlapped' = overlapped \cup
       {<<c, d>> : d \in {d \in Callers : Doing(d, "store") /\ Entry(d) = Entry(c)}}
  /\ Moves(c, "ok")
  /\ UNCHANGED <<registered, row, locked, dbErrors, writers, skew>>

\* cache.Remove
RemoveEntry(c) ==
  /\ Doing(c, "invalidate")
  /\ cached' = [cached EXCEPT ![Entry(c)] = Nothing]
  /\ overlapped' = overlapped \cup
       {<<c, d>> : d \in {d \in Callers : Doing(d, "store") /\ Entry(d) = Entry(c)}}
  /\ Moves(c, "ok")
  /\ UNCHANGED <<registered, row, locked, dbErrors, writers, skew>>

\* its error is that of a call that has committed; an entry removed all the same is Expire
RemoveFails(c) ==
  /\ Doing(c, "invalidate") /\ DbFault
  /\ Moves(c, "error")
  /\ UNCHANGED <<registered, row, locked, cached, writers, overlapped, skew>>

-----------------------------------------------------------------------------
(* EnsureShard and the cache                                               *)

EnsureShard(s) ==
  /\ s \notin registered
  /\ registered' = registered \cup {s}
  /\ skew' = Cardinality(Users)
  /\ UNCHANGED <<row, locked, cached, call, dbErrors, writers, overlapped>>

\* a minute has passed, or all entries are invalidated by a signal
Expire(e) ==
  /\ cached[e] # Nothing
  /\ cached' = [cached EXCEPT ![e] = Nothing]
  /\ UNCHANGED <<registered, row, locked, call, dbErrors, writers, overlapped, skew>>

ShardCall(c) ==
  \/ Lookup(c, "get") \/ Lookup(c, "ensure") \/ SetShard(c)
  \/ Read(c) \/ Store(c) \/ SelectShard(c) \/ DeleteRow(c) \/ InsertRow(c)
  \/ Commit(c) \/ CommitFails(c) \/ StatementFails(c) \/ RemoveEntry(c) \/ RemoveFails(c)

ShardsNext ==
  \/ \E c \in Callers : ShardCall(c)
  \/ \E s \in Shards : EnsureShard(s)
  \/ \E e \in Processes \X Users : Expire(e)

ShardsSpec == ShardsInit /\ [][ShardsNext]_shardVars

-----------------------------------------------------------------------------
(* An entry of a cache is older than the row of its user only if the newer  *)
(* versions were committed by other processes, or by a call that has still  *)
(* to remove the entry or returned an error (of its commit or of the        *)
(* removal), or the entry was stored by a call that had read the row before *)
(* such a removal.                                                          *)
StaleShardHasReason ==
  \A p \in Processes, u \in Users :
    LET e == cached[<<p, u>>] IN
    /\ e.shard # NoShard /\ e.version = Version(u) => e.shard = row[u]
    /\ e.shard # NoShard =>
         \A v \in (e.version + 1)..Version(u) :
           LET w == writers[u][v] IN
           \/ ProcessOf[w] # p
           \/ call[w].pc \in {"invalidate", "error"}
           \/ <<w, e.by>> \in overlapped

Sets(u) == {c \in Callers : call[c].user = u /\ call[c].op = "set"}

(* Whatever calls race to assign a user, all that return a shard return the *)
(* one in the table, as long as nobody sets another one.                    *)
AssignmentsAgree ==
  \A c \in Callers :
    Doing(c, "ok") /\ Sets(call[c].user) = {} => call[c].shard = row[call[c].user]

(* EnsureShardForUser keeps the shards even, up to the calls that count the *)
(* users at the same time.                                                  *)
Balanced == (\A u \in Users : Sets(u) = {}) => Even(skew)
=============================================================================
