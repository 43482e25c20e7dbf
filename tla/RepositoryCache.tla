--------------------------- MODULE RepositoryCache ---------------------------
(***************************************************************************)
(* lib/devicerepository: what a task needs to know of its device is asked  *)
(* for in a chain, token, device, service, and every link is cached.  The  *)
(* entry of a service is made from the entry of its device type, and the   *)
(* signals of cacheinvalidator.go reach all entries or none of these.  A   *)
(* clock ticks only while every reader waits; what is left of a validity,  *)
(* and how long ago something was, are numbers of ticks.                   *)
(***************************************************************************)
EXTENDS Integers, FiniteSets

CONSTANTS
  Readers,         \* goroutines
  Services,        \* of one device type
  CacheTimeout,
  RequestTimeout,  \* ten seconds
  Lifetimes,       \* expires_in of tokens
  Margin,          \* ten seconds
  MaxVersion       \* bound: changes of the device type

ASSUME CacheAssumption ==
  /\ IsFiniteSet(Readers)
  /\ CacheTimeout \in Nat \ {0} /\ RequestTimeout \in Nat \ {0}
  /\ Margin \in Nat /\ Lifetimes \subseteq Nat /\ MaxVersion \in Nat

VARIABLES
  repo,            \* the repository's version of the device type, and [0..MaxVersion -> ticks
                   \* since the version was replaced]
  typeEntry,       \* [version, left]
  serviceEntry,    \* [Services -> [version, left]]
  tokenEntry,      \* [left, life, valid, waited, stays (it has no validity, and the cache keeps it)]
  reader,          \* [Readers -> [pc, service, version, left, life, valid, waited, kept (its token
                   \* is from an entry that stays), floor]]
  forgotten        \* history: the version of the last signal that met no answer under way

cacheVars == <<repo, typeEntry, serviceEntry, tokenEntry, reader, forgotten>>

Longest == 2 * CacheTimeout + RequestTimeout
Absent == [version |-> 0, left |-> 0]
NoToken == [left |-> 0, life |-> 0, valid |-> 0, waited |-> 0, stays |-> FALSE]
Cached(entry) == entry.left > 0
TokenCached == Cached(tokenEntry) \/ tokenEntry.stays
AsReader(floor) ==
  [pc |-> "idle", service |-> "none", version |-> 0, left |-> 0, life |-> 0, valid |-> 0, waited |-> 0,
   kept |-> FALSE, floor |-> floor]

CacheInit ==
  /\ repo = [version |-> 0, age |-> [v \in 0..MaxVersion |-> 0]]
  /\ typeEntry = Absent /\ serviceEntry = [s \in Services |-> Absent] /\ tokenEntry = NoToken
  /\ reader = [r \in Readers |-> AsReader(0)]
  /\ forgotten = 0

At(r, label) == reader[r].pc = label
Goes(r, label) == reader' = [reader EXCEPT ![r].pc = label]
Asks(r, label) == reader' = [reader EXCEPT ![r].pc = label, ![r].left = RequestTimeout]
Has(r, version) ==
  reader' = [reader EXCEPT ![r] =
    [AsReader(@.floor) EXCEPT !.pc = "save", !.service = reader[r].service, !.version = version]]
Returns(r, version) ==
  reader' = [reader EXCEPT ![r] =
    [AsReader(@.floor) EXCEPT !.pc = "done", !.version = version]]
Fails(r) == reader' = [reader EXCEPT ![r] = AsReader(0)]

-----------------------------------------------------------------------------
(* GetToken and the identity provider, whose client waits without a timeout *)

GetToken(r) ==
  /\ At(r, "idle")
  /\ reader' = [reader EXCEPT ![r] =
       IF TokenCached
       THEN [AsReader(forgotten) EXCEPT !.pc = "device", !.life = tokenEntry.life,
                                        !.valid = tokenEntry.valid, !.waited = tokenEntry.waited, !.kept = tokenEntry.stays]
       ELSE [AsReader(forgotten) EXCEPT !.pc = "login"]]
  /\ UNCHANGED <<repo, typeEntry, serviceEntry, tokenEntry, forgotten>>

IssueToken(r) ==
  /\ At(r, "login")
  /\ \E life \in Lifetimes :
       reader' = [reader EXCEPT ![r].pc = "issued", ![r].life = life, ![r].valid = life]
  /\ UNCHANGED <<repo, typeEntry, serviceEntry, tokenEntry, forgotten>>

\* mutant: the token is cached for as long as it is valid
ReceiveTokenWithoutMargin(r) ==
  /\ At(r, "issued")
  /\ tokenEntry' = [left |-> reader[r].life, life |-> reader[r].life, valid |-> reader[r].valid,
                     waited |-> reader[r].waited, stays |-> FALSE]
  /\ Goes(r, "device")
  /\ UNCHANGED <<repo, typeEntry, serviceEntry, forgotten>>

\* the validity is expires_in less ten seconds, which nobody checks: a cache may keep an entry
\* whose validity is not positive without a limit, or drop it (External)
ReceiveToken(r) ==
  /\ At(r, "issued")
  /\ \E stays \in IF reader[r].life > Margin THEN {FALSE} ELSE BOOLEAN :
       tokenEntry' = [left |-> IF reader[r].life > Margin THEN reader[r].life - Margin ELSE 0,
                      life |-> reader[r].life, valid |-> reader[r].valid, waited |-> reader[r].waited,
                      stays |-> stays]
  /\ Goes(r, "device")
  /\ UNCHANGED <<repo, typeEntry, serviceEntry, forgotten>>

LoginFails(r) ==
  /\ reader[r].pc \in {"login", "issued"} /\ Fails(r)
  /\ UNCHANGED <<repo, typeEntry, serviceEntry, tokenEntry, forgotten>>

-----------------------------------------------------------------------------
(* GetDevice, whose contents are left out                                  *)

GetDevice(r) ==
  /\ At(r, "device") /\ (Goes(r, "service") \/ Asks(r, "ask device"))
  /\ UNCHANGED <<repo, typeEntry, serviceEntry, tokenEntry, forgotten>>

\* GetJSON: status 401 is an error
DeviceAnswered(r) ==
  /\ At(r, "ask device") /\ reader[r].valid > 0
  /\ reader' = [reader EXCEPT ![r].pc = "service", ![r].left = 0]
  /\ UNCHANGED <<repo, typeEntry, serviceEntry, tokenEntry, forgotten>>

Asking == {"ask device", "ask type", "typed"}
RequestFails(r) ==
  /\ reader[r].pc \in Asking /\ Fails(r)
  /\ UNCHANGED <<repo, typeEntry, serviceEntry, tokenEntry, forgotten>>

-----------------------------------------------------------------------------
(* GetService                                                              *)

LoadsType(r, s) == reader' = [reader EXCEPT ![r].pc = "type", ![r].service = s]

\* mutant: the entry is renewed
ServiceHitRenews(r) ==
  /\ At(r, "service")
  /\ \E s \in Services :
       IF Cached(serviceEntry[s])
       THEN /\ Returns(r, serviceEntry[s].version)
            /\ serviceEntry' = [serviceEntry EXCEPT ![s].left = CacheTimeout]
       ELSE LoadsType(r, s) /\ UNCHANGED serviceEntry
  /\ UNCHANGED <<repo, typeEntry, tokenEntry, forgotten>>

GetServiceFromCache(r) ==
  /\ At(r, "service")
  /\ \E s \in Services :
       IF Cached(serviceEntry[s]) THEN Returns(r, serviceEntry[s].version) ELSE LoadsType(r, s)
  /\ UNCHANGED <<repo, typeEntry, serviceEntry, tokenEntry, forgotten>>

GetDeviceType(r) ==
  /\ At(r, "type")
  /\ IF Cached(typeEntry)
     THEN Has(r, typeEntry.version)
     ELSE Asks(r, "ask type")
  /\ UNCHANGED <<repo, typeEntry, serviceEntry, tokenEntry, forgotten>>

\* the repository answers with its version
ServeType(r) ==
  /\ At(r, "ask type") /\ reader[r].valid > 0
  /\ reader' = [reader EXCEPT ![r].pc = "typed", ![r].version = repo.version]
  /\ UNCHANGED <<repo, typeEntry, serviceEntry, tokenEntry, forgotten>>

ReceiveType(r) ==
  /\ At(r, "typed")
  /\ typeEntry' = [version |-> reader[r].version, left |-> CacheTimeout]
  /\ Has(r, reader[r].version)
  /\ UNCHANGED <<repo, serviceEntry, tokenEntry, forgotten>>

\* "service not found" if the device type has none of the id
SaveServiceToCache(r) ==
  /\ At(r, "save")
  /\ \/ /\ serviceEntry' = [serviceEntry EXCEPT ![reader[r].service] =
             [version |-> reader[r].version, left |-> CacheTimeout]]
        /\ Returns(r, reader[r].version)
     \/ Fails(r) /\ UNCHANGED serviceEntry
  /\ UNCHANGED <<repo, typeEntry, tokenEntry, forgotten>>

NextTask(r) ==
  /\ At(r, "done")
  /\ reader' = [reader EXCEPT ![r] = AsReader(0)]
  /\ UNCHANGED <<repo, typeEntry, serviceEntry, tokenEntry, forgotten>>

-----------------------------------------------------------------------------
(* The surroundings                                                        *)

ChangeType ==
  /\ repo.version < MaxVersion
  /\ repo' = [repo EXCEPT !.version = @ + 1]
  /\ UNCHANGED <<typeEntry, serviceEntry, tokenEntry, reader, forgotten>>

UnderWay == {r \in Readers : reader[r].pc \in {"typed", "save"}}

\* mutant: the entries of services are kept
InvalidateType ==
  /\ typeEntry' = Absent /\ tokenEntry' = NoToken
  /\ forgotten' = IF UnderWay = {} THEN repo.version ELSE forgotten
  /\ UNCHANGED <<repo, serviceEntry, reader>>

\* a message of CacheInvalidationAllKafkaTopics
InvalidateAll ==
  /\ typeEntry' = Absent /\ tokenEntry' = NoToken
  /\ serviceEntry' = [s \in Services |-> Absent]
  /\ forgotten' = IF UnderWay = {} THEN repo.version ELSE forgotten
  /\ UNCHANGED <<repo, reader>>

Down(n) == IF n > 0 THEN n - 1 ELSE 0
Up(n, bound) == IF n < bound THEN n + 1 ELSE bound
Aged(entry) == IF entry.left > 1 THEN [entry EXCEPT !.left = @ - 1] ELSE Absent
Waits(r) == \/ reader[r].pc \in {"idle", "login", "issued"}
            \/ reader[r].pc \in Asking /\ reader[r].left > 0

Tick ==
  /\ \A r \in Readers : Waits(r)
  /\ typeEntry' = Aged(typeEntry)
  /\ serviceEntry' = [s \in Services |-> Aged(serviceEntry[s])]
  /\ tokenEntry' = IF tokenEntry.left > 1 \/ tokenEntry.stays
                   THEN [tokenEntry EXCEPT !.left = Down(@), !.valid = Down(@)] ELSE NoToken
  /\ reader' = [r \in Readers |->
       IF reader[r].pc \in Asking \cup {"issued"}
       THEN [reader[r] EXCEPT !.left = Down(@), !.valid = Down(@), !.waited = Up(@, Margin)]
       ELSE reader[r]]
  /\ repo' = [repo EXCEPT !.age = [v \in 0..MaxVersion |->
       IF v < repo.version THEN Up(repo.age[v], Longest + 1) ELSE 0]]
  /\ UNCHANGED forgotten

CacheNext ==
  \/ \E r \in Readers :
       \/ GetToken(r) \/ IssueToken(r) \/ ReceiveToken(r) \/ LoginFails(r)
       \/ GetDevice(r) \/ DeviceAnswered(r) \/ RequestFails(r)
       \/ GetServiceFromCache(r) \/ GetDeviceType(r) \/ ServeType(r) \/ ReceiveType(r)
       \/ SaveServiceToCache(r) \/ NextTask(r)
  \/ ChangeType \/ InvalidateAll \/ Tick

CacheSpec == CacheInit /\ [][CacheNext]_cacheVars

-----------------------------------------------------------------------------
(* The service GetService returns is the repository's, or was replaced no   *)
(* longer ago than the entries of the device type and of the service live   *)
(* after each other, and a request takes.                                   *)
ServiceStaleness ==
  \A r \in Readers :
    At(r, "done") /\ reader[r].version < repo.version
      => repo.age[reader[r].version] <= Longest

(* A task that begins after all entries were invalidated does not see what  *)
(* was replaced before, unless an answer was under way at that moment.      *)
InvalidatedIsForgotten ==
  \A r \in Readers : At(r, "done") => reader[r].version >= reader[r].floor

(* A request carries a token that has expired only if the answer of the     *)
(* identity provider and the requests before it took ten seconds, or as     *)
(* long as the token lives if that is less, or if the token lives no longer *)
(* than ten seconds and the cache keeps its entry for good.                 *)
TokenIsValid ==
  \A r \in Readers :
    reader[r].pc \in Asking /\ reader[r].valid = 0 =>
      reader[r].waited >= Margin \/ reader[r].waited >= reader[r].life \/ reader[r].kept
==============================================================================
