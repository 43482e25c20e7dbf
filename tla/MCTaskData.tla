----------------------------- MODULE MCTaskData -----------------------------
(* What a task is made of, for TLC: its message, the table that says which   *)
(* engine its user belongs to, and the cache of its device's service.  The   *)
(* three share nothing: one of them works and the others have stopped.       *)
EXTENDS MCTaskMessage, UserShards, RepositoryCache

CONSTANTS caller1, caller2, caller3, process1, process2

TwoProcesses == (caller1 :> process1) @@ (caller2 :> process1) @@ (caller3 :> process2)

\* readers have the names of users: the group stays small
Symmetric == Permutations(Users \cup Readers) \cup Permutations(Shards)

MessageStopped ==
  /\ pc = "stopped" /\ command = Base /\ input = Null /\ todo = {} /\ refused = FALSE
  /\ stored = <<>> /\ response = <<>> /\ message = <<>>

ShardsStopped ==
  /\ registered = Shards /\ row = [u \in Users |-> NoShard] /\ locked = [u \in Users |-> "nobody"]
  /\ cached = [e \in Processes \X Users |-> Nothing]
  /\ call = [c \in Callers |->
       [pc |-> "stopped", op |-> "none", user |-> "nobody", shard |-> NoShard, version |-> 0]]
  /\ dbErrors = 0 /\ writers = [u \in Users |-> <<>>] /\ overlapped = {} /\ skew = 1

CacheStopped ==
  /\ repo = [version |-> MaxVersion, age |-> [v \in 0..MaxVersion |-> 0]] /\ forgotten = MaxVersion
  /\ typeEntry = Absent /\ serviceEntry = [s \in Services |-> Absent] /\ tokenEntry = NoToken
  /\ reader = [r \in Readers |-> [AsReader(0) EXCEPT !.pc = "stopped"]]

\* bound: two callers of different processes have one user, the third this one or another
SharedUser == call[caller1].user = call[caller3].user

\* bound: the device type does not change while there is a token whose entry has no validity
NotBoth ==
  repo.version > 0 => \A life \in {tokenEntry.life} \cup {reader[r].life : r \in Readers} :
    life = 0 \/ life > Margin

MCInit ==
  \/ Init /\ ShardsStopped /\ CacheStopped
  \/ MessageStopped /\ ShardsInit /\ CacheStopped /\ SharedUser
  \/ MessageStopped /\ ShardsStopped /\ CacheInit

MCNext ==
  \/ Next /\ UNCHANGED <<shardVars, cacheVars>>
  \/ ShardsNext /\ UNCHANGED <<vars, cacheVars>>
  \/ CacheNext /\ NotBoth' /\ UNCHANGED <<vars, shardVars>>

MCSpec == MCInit /\ [][MCNext]_<<vars, shardVars, cacheVars>>
==============================================================================
