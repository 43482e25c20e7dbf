------------------------ MODULE RepositoryCacheProofs ------------------------
(***************************************************************************)
(* RepositoryCache for any readers, services, validities and changes: how  *)
(* old an answer of the cache can be, what an invalidation makes it        *)
(* forget, and which tokens its requests carry.                            *)
(*                                                                         *)
(* The argument for the age: every link of the chain adds what its own     *)
(* validity has left.  An answer under way is no older than the time its   *)
(* request has used; the entry of the device type adds CacheTimeout to     *)
(* that, and the entry of a service another one.  The argument for the     *)
(* token: what it has left in the cache and the margin together never      *)
(* exceed what the identity provider grants and its answers have taken;   *)
(* the reader that has asked for a token itself has all of its life.       *)
(***************************************************************************)
EXTENDS RepositoryCache, TLAPS

Pcs == {"idle", "login", "issued", "device", "ask device", "service", "type", "ask type", "typed",
        "save", "done"}

ReaderType ==
  [pc : Pcs, service : Services \cup {"none"}, version : 0..MaxVersion, left : 0..RequestTimeout,
   life : Nat, valid : Nat, waited : 0..Margin, kept : BOOLEAN, floor : 0..MaxVersion]
EntryType == [version : 0..MaxVersion, left : 0..CacheTimeout]
TokenType == [left : Nat, life : Nat, valid : Nat, waited : 0..Margin, stays : BOOLEAN]

CacheTypes ==
  /\ repo \in [version : 0..MaxVersion, age : [0..MaxVersion -> Nat]]
  /\ typeEntry \in EntryType /\ serviceEntry \in [Services -> EntryType] /\ tokenEntry \in TokenType
  /\ reader \in [Readers -> ReaderType] /\ forgotten \in 0..repo.version

\* what was not replaced yet has no age
CurrentIsNew == \A v \in 0..MaxVersion : v >= repo.version => repo.age[v] = 0

\* an entry that is still used was current at the last signal, and is no older than its link allows
GoodEntry(entry, oldest) ==
  Cached(entry) => entry.version >= forgotten /\ repo.age[entry.version] + entry.left <= oldest

\* a token is valid for longer than it is cached, up to the time its answer took
GoodToken(token) ==
  Cached(token) => token.waited >= Margin \/ token.valid + token.waited >= token.left + Margin

HasToken == {"device", "ask device", "service", "type", "ask type", "typed"}
TokenSuffices(x, least) == x.waited >= Margin \/ x.valid + x.waited >= least
TokenIsGood(x) == TokenSuffices(x, Margin) \/ TokenSuffices(x, x.life) \/ x.kept

GoodReader(x) ==
  /\ x.floor <= forgotten
  /\ x.pc = "login" => x.waited = 0
  /\ x.pc = "issued" => TokenSuffices(x, x.life)
  /\ x.pc \in HasToken => TokenIsGood(x)
  /\ x.pc = "typed" => repo.age[x.version] + x.left <= RequestTimeout
  /\ x.pc = "save" => repo.age[x.version] <= RequestTimeout + CacheTimeout
  /\ x.pc = "done" => repo.age[x.version] <= Longest /\ x.version >= x.floor
  /\ x.pc \in {"typed", "save"} => x.version >= forgotten

CacheInv ==
  /\ CacheTypes /\ CurrentIsNew
  /\ GoodEntry(typeEntry, RequestTimeout + CacheTimeout)
  /\ \A s \in Services : GoodEntry(serviceEntry[s], Longest)
  /\ GoodToken(tokenEntry)
  /\ \A r \in Readers : GoodReader(reader[r])

-----------------------------------------------------------------------------
LEMMA CacheBounds ==
  /\ Lifetimes \subseteq Nat /\ Margin \in Nat /\ CacheTimeout \in Nat /\ RequestTimeout \in Nat
  /\ CacheTimeout > 0 /\ RequestTimeout > 0 /\ MaxVersion \in Nat
  /\ 0 \in 0..MaxVersion /\ 0 \in 0..RequestTimeout /\ 0 \in 0..Margin
  /\ 0 \in 0..CacheTimeout /\ RequestTimeout \in 0..RequestTimeout
  /\ CacheTimeout \in 0..CacheTimeout
BY CacheAssumption

LEMMA NewReader ==
  ASSUME NEW f \in 0..MaxVersion
  PROVE  /\ AsReader(f) \in ReaderType /\ AsReader(f).pc = "idle" /\ AsReader(f).floor = f
         /\ AsReader(f).waited = 0
BY CacheBounds DEF AsReader, ReaderType, Pcs

LEMMA NoEntries ==
  /\ Absent \in EntryType /\ ~Cached(Absent)
  /\ NoToken \in TokenType /\ ~Cached(NoToken) /\ ~NoToken.stays
BY CacheBounds DEF Absent, EntryType, NoToken, TokenType, Cached

\* readers that have nothing yet
LEMMA GoodAtStart ==
  ASSUME NEW x \in ReaderType, x.floor <= forgotten,
         \/ x.pc = "idle"
         \/ x.pc = "login" /\ x.waited = 0
         \/ x.pc = "issued" /\ x.valid = x.life
  PROVE  GoodReader(x)
<1>1. CASE x.pc = "idle"
  BY <1>1 DEF GoodReader, HasToken
<1>2. CASE x.pc = "login" /\ x.waited = 0
  BY <1>2 DEF GoodReader, HasToken
<1>3. CASE x.pc = "issued" /\ x.valid = x.life
  <2>1. TokenSuffices(x, x.life)
    BY <1>3, CacheBounds DEF TokenSuffices, ReaderType
  <2> QED BY <1>3, <2>1 DEF GoodReader, HasToken
<1> QED BY <1>1, <1>2, <1>3

LEMMA CacheStart == CacheInit => CacheInv
<1> SUFFICES ASSUME CacheInit PROVE CacheInv
  OBVIOUS
<1>1. AsReader(0) \in ReaderType /\ AsReader(0).pc = "idle" /\ AsReader(0).floor = 0
  BY CacheBounds, NewReader
<1>2. CacheTypes
  BY <1>1, CacheBounds, NoEntries DEF CacheInit, CacheTypes
<1>3. CurrentIsNew
  BY CacheBounds DEF CacheInit, CurrentIsNew
<1>4. \A r \in Readers : GoodReader(reader[r])
  <2>1. forgotten = 0 /\ \A r \in Readers : reader[r] = AsReader(0)
    BY DEF CacheInit
  <2>2. GoodReader(AsReader(0))
    BY <1>1, <2>1, GoodAtStart
  <2> QED BY <2>1, <2>2
<1> QED BY <1>2, <1>3, <1>4, NoEntries DEF CacheInv, CacheInit, GoodEntry, GoodToken

(* A step of one reader that leaves the entries alone, or puts a good one.  *)
LEMMA ReaderSteps ==
  ASSUME CacheInv, NEW r \in Readers, NEW x \in ReaderType, GoodReader(x),
         reader' = [reader EXCEPT ![r] = x],
         UNCHANGED <<repo, forgotten>>,
         typeEntry' \in EntryType, GoodEntry(typeEntry', RequestTimeout + CacheTimeout),
         serviceEntry' \in [Services -> EntryType],
         \A s \in Services : GoodEntry(serviceEntry'[s], Longest),
         tokenEntry' \in TokenType, GoodToken(tokenEntry')
  PROVE  CacheInv'
<1>1. CacheTypes'
  BY DEF CacheInv, CacheTypes
<1>2. CurrentIsNew'
  BY DEF CacheInv, CurrentIsNew
<1>3. \A q \in Readers : GoodReader(reader[q])'
  <2>1. \A q \in Readers : reader'[q] = x \/ reader'[q] = reader[q]
    BY DEF CacheInv, CacheTypes
  <2> QED BY <2>1 DEF CacheInv, GoodReader, TokenIsGood, TokenSuffices
<1> QED BY <1>1, <1>2, <1>3 DEF CacheInv, GoodEntry, GoodToken

LEMMA ReaderAlone ==
  ASSUME CacheInv, NEW r \in Readers, NEW x \in ReaderType, GoodReader(x),
         reader' = [reader EXCEPT ![r] = x],
         UNCHANGED <<repo, typeEntry, serviceEntry, tokenEntry, forgotten>>
  PROVE  CacheInv'
BY ReaderSteps DEF CacheInv, CacheTypes

LEMMA ReaderFacts ==
  ASSUME CacheInv, NEW r \in Readers
  PROVE  /\ reader[r] \in ReaderType /\ GoodReader(reader[r]) /\ reader \in [Readers -> ReaderType]
         /\ forgotten \in Nat /\ forgotten \in 0..MaxVersion
         /\ repo.version \in 0..MaxVersion /\ forgotten <= repo.version
         /\ repo.age \in [0..MaxVersion -> Nat]
BY CacheBounds DEF CacheInv, CacheTypes

-----------------------------------------------------------------------------
(* GetToken, and the answer of the identity provider.                      *)

LEMMA GetTokenStep ==
  ASSUME CacheInv, NEW r \in Readers, GetToken(r)
  PROVE  CacheInv'
<1>1. CASE TokenCached
  <2> DEFINE x == [AsReader(forgotten) EXCEPT !.pc = "device", !.life = tokenEntry.life,
                                              !.valid = tokenEntry.valid, !.waited = tokenEntry.waited, !.kept = tokenEntry.stays]
  <2>1. /\ tokenEntry.life \in Nat /\ tokenEntry.valid \in Nat /\ tokenEntry.waited \in 0..Margin
        /\ tokenEntry.stays \in BOOLEAN /\ tokenEntry.left \in Nat /\ GoodToken(tokenEntry)
    BY CacheBounds DEF CacheInv, CacheTypes, TokenType
  <2>2. /\ x \in ReaderType /\ x.pc = "device" /\ x.floor = forgotten /\ x.kept = tokenEntry.stays
        /\ x.valid = tokenEntry.valid /\ x.waited = tokenEntry.waited
    <3>1. AsReader(forgotten) \in ReaderType /\ AsReader(forgotten).floor = forgotten
      BY ReaderFacts, NewReader
    <3> QED BY <2>1, <3>1 DEF ReaderType, Pcs
  <2>3. reader' = [reader EXCEPT ![r] = x] /\ UNCHANGED <<repo, typeEntry, serviceEntry, tokenEntry, forgotten>>
    BY <1>1 DEF GetToken
  <2> HIDE DEF x
  <2>4. TokenIsGood(x)
    <3>1. CASE Cached(tokenEntry)
      BY <3>1, <2>1, <2>2, CacheBounds DEF GoodToken, TokenIsGood, TokenSuffices, Cached
    <3>2. CASE tokenEntry.stays
      BY <3>2, <2>2 DEF TokenIsGood
    <3> QED BY <1>1, <3>1, <3>2 DEF TokenCached
  <2>5. GoodReader(x)
    BY <2>2, <2>4, ReaderFacts DEF GoodReader
  <2> QED BY <2>2, <2>3, <2>5, ReaderAlone
<1>2. CASE ~TokenCached
  <2> DEFINE x == [AsReader(forgotten) EXCEPT !.pc = "login"]
  <2>1. x \in ReaderType /\ x.pc = "login" /\ x.floor = forgotten /\ x.waited = 0
    <3>1. /\ AsReader(forgotten) \in ReaderType /\ AsReader(forgotten).floor = forgotten
          /\ AsReader(forgotten).waited = 0
      BY ReaderFacts, NewReader
    <3> QED BY <3>1 DEF ReaderType, Pcs
  <2>2. reader' = [reader EXCEPT ![r] = x] /\ UNCHANGED <<repo, typeEntry, serviceEntry, tokenEntry, forgotten>>
    BY <1>2 DEF GetToken
  <2> HIDE DEF x
  <2>3. GoodReader(x)
    <3>1. forgotten \in Nat
      BY ReaderFacts
    <3> QED BY <2>1, <3>1, GoodAtStart
  <2> QED BY <2>1, <2>2, <2>3, ReaderAlone
<1> QED BY <1>1, <1>2

LEMMA IssueTokenStep ==
  ASSUME CacheInv, NEW r \in Readers, IssueToken(r)
  PROVE  CacheInv'
<1>0. PICK life \in Lifetimes :
        reader' = [reader EXCEPT ![r] = [reader[r] EXCEPT !.pc = "issued", !.life = life, !.valid = life]]
  BY ReaderFacts DEF IssueToken
<1> DEFINE x == [reader[r] EXCEPT !.pc = "issued", !.life = life, !.valid = life]
<1>1. /\ x \in ReaderType /\ x.pc = "issued" /\ x.valid = x.life
      /\ x.floor = reader[r].floor /\ x.waited = reader[r].waited
  BY ReaderFacts, CacheBounds DEF ReaderType, Pcs
<1>2. /\ reader' = [reader EXCEPT ![r] = x] /\ reader[r].pc = "login"
      /\ UNCHANGED <<repo, typeEntry, serviceEntry, tokenEntry, forgotten>>
  BY <1>0 DEF IssueToken, At
<1> HIDE DEF x
<1>3. GoodReader(x)
  <2>1. reader[r].floor <= forgotten
    BY ReaderFacts DEF GoodReader
  <2> QED BY <1>1, <2>1, GoodAtStart
<1> QED BY <1>1, <1>2, <1>3, ReaderAlone

LEMMA ReceiveTokenStep ==
  ASSUME CacheInv, NEW r \in Readers, ReceiveToken(r)
  PROVE  CacheInv'
<1> DEFINE x == [reader[r] EXCEPT !.pc = "device"]
           granted == reader[r].life
<1>a. PICK stays \in IF granted > Margin THEN {FALSE} ELSE BOOLEAN :
        tokenEntry' = [left |-> IF granted > Margin THEN granted - Margin ELSE 0, life |-> granted,
                       valid |-> reader[r].valid, waited |-> reader[r].waited, stays |-> stays]
  BY DEF ReceiveToken
<1>0. stays \in BOOLEAN
  <2>1. CASE granted > Margin
    BY <2>1, Zenon
  <2>2. CASE ~(granted > Margin)
    BY <2>2, Zenon
  <2> QED BY <2>1, <2>2, Zenon
<1> DEFINE t == [left |-> IF granted > Margin THEN granted - Margin ELSE 0, life |-> granted,
                 valid |-> reader[r].valid, waited |-> reader[r].waited, stays |-> stays]
<1>1. /\ x \in ReaderType /\ x.pc = "device" /\ x.floor = reader[r].floor
      /\ x.life = reader[r].life /\ x.valid = reader[r].valid /\ x.waited = reader[r].waited
  BY ReaderFacts DEF ReaderType, Pcs
<1>2. /\ t \in TokenType /\ t.left = (IF granted > Margin THEN granted - Margin ELSE 0)
      /\ t.valid = reader[r].valid /\ t.waited = reader[r].waited
  BY <1>0, ReaderFacts, CacheBounds DEF ReaderType, TokenType
<1>3. /\ reader' = [reader EXCEPT ![r] = x] /\ tokenEntry' = t /\ reader[r].pc = "issued"
      /\ UNCHANGED <<repo, typeEntry, serviceEntry, forgotten>>
  BY <1>a, ReaderFacts DEF ReceiveToken, Goes, At
<1> HIDE DEF x, t
<1>4. /\ reader[r].valid \in Nat /\ reader[r].waited \in Nat /\ reader[r].life \in Nat
      /\ TokenSuffices(reader[r], reader[r].life)
  BY <1>3, ReaderFacts, CacheBounds DEF GoodReader, ReaderType
<1>5. GoodReader(x)
  BY <1>1, <1>4, ReaderFacts, CacheBounds DEF GoodReader, TokenIsGood, TokenSuffices
<1>6. GoodToken(t)
  BY <1>2, <1>4, CacheBounds DEF GoodToken, TokenSuffices, Cached
<1> QED BY <1>1, <1>2, <1>3, <1>5, <1>6, ReaderSteps DEF CacheInv, CacheTypes

-----------------------------------------------------------------------------
(* The requests.                                                           *)

\* a reader that goes on with the token it has
LEMMA GoesOn ==
  ASSUME CacheInv, NEW r \in Readers, NEW x \in ReaderType,
         reader[r].pc \in HasToken, x.pc \in HasToken \ {"typed"},
         x.valid = reader[r].valid, x.waited = reader[r].waited, x.floor = reader[r].floor,
         x.kept = reader[r].kept, x.life = reader[r].life
  PROVE  GoodReader(x)
BY ReaderFacts DEF GoodReader, HasToken, TokenIsGood, TokenSuffices

LEMMA DeviceSteps ==
  ASSUME CacheInv, NEW r \in Readers, GetDevice(r) \/ DeviceAnswered(r)
  PROVE  CacheInv'
<1>0. UNCHANGED <<repo, typeEntry, serviceEntry, tokenEntry, forgotten>> /\ reader[r].pc \in HasToken
  BY DEF GetDevice, DeviceAnswered, At, HasToken
<1>1. PICK x \in {[reader[r] EXCEPT !.pc = "service"], [reader[r] EXCEPT !.pc = "service", !.left = 0],
                  [reader[r] EXCEPT !.pc = "ask device", !.left = RequestTimeout]} :
        reader' = [reader EXCEPT ![r] = x]
  BY ReaderFacts DEF GetDevice, DeviceAnswered, Goes, Asks
<1>2. /\ x \in ReaderType /\ x.pc \in HasToken \ {"typed"} /\ x.kept = reader[r].kept /\ x.life = reader[r].life
      /\ x.valid = reader[r].valid /\ x.waited = reader[r].waited /\ x.floor = reader[r].floor
  BY ReaderFacts, CacheBounds DEF ReaderType, Pcs, HasToken
<1> QED BY <1>0, <1>1, <1>2, GoesOn, ReaderAlone

LEMMA ReaderFails ==
  ASSUME CacheInv, NEW r \in Readers, LoginFails(r) \/ RequestFails(r) \/ NextTask(r)
  PROVE  CacheInv'
<1>1. /\ reader' = [reader EXCEPT ![r] = AsReader(0)]
      /\ UNCHANGED <<repo, typeEntry, serviceEntry, tokenEntry, forgotten>>
  BY DEF LoginFails, RequestFails, NextTask, Fails
<1>2. AsReader(0) \in ReaderType /\ GoodReader(AsReader(0))
  <2>1. AsReader(0) \in ReaderType /\ AsReader(0).pc = "idle" /\ AsReader(0).floor = 0 /\ 0 <= forgotten
    BY ReaderFacts, CacheBounds, NewReader
  <2> QED BY <2>1, GoodAtStart
<1> QED BY <1>1, <1>2, ReaderAlone

-----------------------------------------------------------------------------
(* GetService, and the answer of the repository.                           *)

LEMMA EntryFacts ==
  ASSUME NEW e \in EntryType
  PROVE  e.version \in 0..MaxVersion /\ e.left \in Nat
BY CacheBounds DEF EntryType

\* what a reader returns, and what it will save
LEMMA ReturnedReader ==
  ASSUME CacheInv, NEW r \in Readers, NEW v \in 0..MaxVersion,
         v >= reader[r].floor, repo.age[v] <= Longest
  PROVE  LET x == [AsReader(reader[r].floor) EXCEPT !.pc = "done", !.version = v]
         IN  x \in ReaderType /\ GoodReader(x)
<1> DEFINE x == [AsReader(reader[r].floor) EXCEPT !.pc = "done", !.version = v]
<1>1. reader[r].floor \in 0..MaxVersion /\ reader[r].floor <= forgotten
  BY ReaderFacts DEF ReaderType, GoodReader
<1>2. x \in ReaderType /\ x.pc = "done" /\ x.version = v /\ x.floor = reader[r].floor
  <2>1. AsReader(reader[r].floor) \in ReaderType /\ AsReader(reader[r].floor).floor = reader[r].floor
    BY <1>1, NewReader
  <2> QED BY <2>1 DEF ReaderType, Pcs
<1> HIDE DEF x
<1>3. GoodReader(x)
  BY <1>1, <1>2 DEF GoodReader, HasToken
<1> QED BY <1>2, <1>3 DEF x

LEMMA SavingReader ==
  ASSUME CacheInv, NEW r \in Readers, NEW v \in 0..MaxVersion,
         v >= forgotten, repo.age[v] <= RequestTimeout + CacheTimeout
  PROVE  LET x == [AsReader(reader[r].floor) EXCEPT !.pc = "save", !.service = reader[r].service,
                                                    !.version = v]
         IN  x \in ReaderType /\ GoodReader(x)
<1> DEFINE x == [AsReader(reader[r].floor) EXCEPT !.pc = "save", !.service = reader[r].service,
                                                  !.version = v]
<1>1. /\ reader[r].floor \in 0..MaxVersion /\ reader[r].floor <= forgotten
      /\ reader[r].service \in Services \cup {"none"}
  BY ReaderFacts DEF ReaderType, GoodReader
<1>2. x \in ReaderType /\ x.pc = "save" /\ x.version = v /\ x.floor = reader[r].floor
  <2>1. AsReader(reader[r].floor) \in ReaderType /\ AsReader(reader[r].floor).floor = reader[r].floor
    BY <1>1, NewReader
  <2> QED BY <1>1, <2>1 DEF ReaderType, Pcs
<1> HIDE DEF x
<1>3. GoodReader(x)
  BY <1>1, <1>2 DEF GoodReader, HasToken
<1> QED BY <1>2, <1>3 DEF x

LEMMA ServiceHit ==
  ASSUME CacheInv, NEW r \in Readers, GetServiceFromCache(r)
  PROVE  CacheInv'
<1>1. /\ UNCHANGED <<repo, typeEntry, serviceEntry, tokenEntry, forgotten>>
      /\ reader[r].pc = "service"
  BY DEF GetServiceFromCache, At
<1>2. PICK s \in Services :
        IF Cached(serviceEntry[s]) THEN Returns(r, serviceEntry[s].version) ELSE LoadsType(r, s)
  BY DEF GetServiceFromCache
<1>3. CASE Cached(serviceEntry[s])
  <2> DEFINE v == serviceEntry[s].version
             x == [AsReader(reader[r].floor) EXCEPT !.pc = "done", !.version = v]
  <2>1. /\ v \in 0..MaxVersion /\ serviceEntry[s].left \in Nat
        /\ v >= forgotten /\ repo.age[v] + serviceEntry[s].left <= Longest
    BY <1>3, EntryFacts DEF CacheInv, CacheTypes, GoodEntry
  <2>2. repo.age[v] <= Longest /\ v >= reader[r].floor
    <3>1. /\ reader[r].floor \in 0..MaxVersion /\ reader[r].floor <= forgotten
          /\ forgotten \in Nat /\ repo.age[v] \in Nat
      BY <2>1, ReaderFacts DEF GoodReader, ReaderType
    <3>2. Longest \in Nat
      BY CacheBounds DEF Longest
    <3> HIDE DEF v
    <3>3. v >= reader[r].floor
      BY <2>1, <3>1
    <3>4. repo.age[v] <= Longest
      BY <2>1, <3>1, <3>2
    <3> QED BY <3>3, <3>4
  <2>3. reader' = [reader EXCEPT ![r] = x]
    BY <1>2, <1>3 DEF Returns
  <2>4. x \in ReaderType /\ GoodReader(x)
    BY <2>1, <2>2, ReturnedReader
  <2> HIDE DEF x
  <2> QED BY <1>1, <2>3, <2>4, ReaderAlone
<1>4. CASE ~Cached(serviceEntry[s])
  <2> DEFINE x == [reader[r] EXCEPT !.pc = "type", !.service = s]
  <2>1. reader' = [reader EXCEPT ![r] = x]
    BY <1>2, <1>4, ReaderFacts DEF LoadsType
  <2>2. /\ x \in ReaderType /\ x.pc = "type" /\ x.floor = reader[r].floor /\ x.kept = reader[r].kept /\ x.life = reader[r].life
        /\ x.valid = reader[r].valid /\ x.waited = reader[r].waited
    BY ReaderFacts DEF ReaderType, Pcs
  <2> HIDE DEF x
  <2>3. GoodReader(x)
    BY <1>1, <2>2, GoesOn DEF HasToken
  <2> QED BY <1>1, <2>1, <2>2, <2>3, ReaderAlone
<1> QED BY <1>3, <1>4

LEMMA TypeHit ==
  ASSUME CacheInv, NEW r \in Readers, GetDeviceType(r)
  PROVE  CacheInv'
<1>1. /\ UNCHANGED <<repo, typeEntry, serviceEntry, tokenEntry, forgotten>>
      /\ reader[r].pc = "type"
  BY DEF GetDeviceType, At
<1>2. CASE Cached(typeEntry)
  <2> DEFINE v == typeEntry.version
             x == [AsReader(reader[r].floor) EXCEPT !.pc = "save", !.service = reader[r].service,
                                                    !.version = v]
  <2>1. /\ v \in 0..MaxVersion /\ typeEntry.left \in Nat /\ v >= forgotten
        /\ repo.age[v] + typeEntry.left <= RequestTimeout + CacheTimeout
    BY <1>2, EntryFacts DEF CacheInv, CacheTypes, GoodEntry
  <2>2. repo.age[v] <= RequestTimeout + CacheTimeout
    <3>1. repo.age[v] \in Nat
      BY <2>1, ReaderFacts
    <3> QED BY <2>1, <3>1, CacheBounds
  <2>3. reader' = [reader EXCEPT ![r] = x]
    BY <1>2 DEF GetDeviceType, Has
  <2>4. x \in ReaderType /\ GoodReader(x)
    BY <2>1, <2>2, SavingReader
  <2> HIDE DEF x
  <2> QED BY <1>1, <2>3, <2>4, ReaderAlone
<1>3. CASE ~Cached(typeEntry)
  <2> DEFINE x == [reader[r] EXCEPT !.pc = "ask type", !.left = RequestTimeout]
  <2>1. reader' = [reader EXCEPT ![r] = x]
    BY <1>3, ReaderFacts DEF GetDeviceType, Asks
  <2>2. /\ x \in ReaderType /\ x.pc = "ask type" /\ x.floor = reader[r].floor /\ x.kept = reader[r].kept /\ x.life = reader[r].life
        /\ x.valid = reader[r].valid /\ x.waited = reader[r].waited
    BY ReaderFacts, CacheBounds DEF ReaderType, Pcs
  <2> HIDE DEF x
  <2>3. GoodReader(x)
    BY <1>1, <2>2, GoesOn DEF HasToken
  <2> QED BY <1>1, <2>1, <2>2, <2>3, ReaderAlone
<1> QED BY <1>2, <1>3

LEMMA Served ==
  ASSUME CacheInv, NEW r \in Readers, ServeType(r)
  PROVE  CacheInv'
<1> DEFINE x == [reader[r] EXCEPT !.pc = "typed", !.version = repo.version]
<1>1. /\ UNCHANGED <<repo, typeEntry, serviceEntry, tokenEntry, forgotten>>
      /\ reader[r].pc = "ask type" /\ reader' = [reader EXCEPT ![r] = x]
  BY ReaderFacts DEF ServeType, At
<1>2. /\ x \in ReaderType /\ x.pc = "typed" /\ x.floor = reader[r].floor /\ x.left = reader[r].left
      /\ x.kept = reader[r].kept /\ x.life = reader[r].life
      /\ x.valid = reader[r].valid /\ x.waited = reader[r].waited /\ x.version = repo.version
  BY ReaderFacts DEF ReaderType, Pcs
<1> HIDE DEF x
<1>3. repo.age[repo.version] = 0 /\ repo.version >= forgotten
  BY ReaderFacts, CacheBounds DEF CacheInv, CurrentIsNew
<1>4. /\ reader[r].left \in 0..RequestTimeout /\ reader[r].floor <= forgotten
      /\ TokenIsGood(reader[r])
  BY <1>1, ReaderFacts DEF ReaderType, GoodReader, HasToken
<1>5. /\ repo.age[x.version] + x.left <= RequestTimeout
      /\ TokenIsGood(x)
  BY <1>2, <1>3, <1>4, CacheBounds DEF TokenIsGood, TokenSuffices
<1>6. GoodReader(x)
  BY <1>2, <1>3, <1>4, <1>5 DEF GoodReader
<1> QED BY <1>1, <1>2, <1>6, ReaderAlone

\* an entry that is made of what is not too old
LEMMA NewEntry ==
  ASSUME CacheInv, NEW v \in 0..MaxVersion, v >= forgotten, NEW n \in Nat, repo.age[v] <= n
  PROVE  LET e == [version |-> v, left |-> CacheTimeout]
         IN  e \in EntryType /\ GoodEntry(e, n + CacheTimeout)
<1> DEFINE e == [version |-> v, left |-> CacheTimeout]
<1>1. e \in EntryType /\ e.version = v /\ e.left = CacheTimeout
  BY CacheBounds DEF EntryType
<1> HIDE DEF e
<1>2. repo.age[v] \in Nat
  BY DEF CacheInv, CacheTypes
<1>3. GoodEntry(e, n + CacheTimeout)
  BY <1>1, <1>2, CacheBounds DEF GoodEntry
<1> QED BY <1>1, <1>3 DEF e

LEMMA Received ==
  ASSUME CacheInv, NEW r \in Readers, ReceiveType(r)
  PROVE  CacheInv'
<1> DEFINE v == reader[r].version
           x == [AsReader(reader[r].floor) EXCEPT !.pc = "save", !.service = reader[r].service,
                                                  !.version = v]
           e == [version |-> v, left |-> CacheTimeout]
<1>1. /\ UNCHANGED <<repo, serviceEntry, tokenEntry, forgotten>>
      /\ reader[r].pc = "typed" /\ reader' = [reader EXCEPT ![r] = x] /\ typeEntry' = e
  BY DEF ReceiveType, At, Has
<1>2. /\ v \in 0..MaxVersion /\ v >= forgotten /\ reader[r].left \in 0..RequestTimeout
      /\ repo.age[v] + reader[r].left <= RequestTimeout /\ repo.age[v] \in Nat
  BY <1>1, ReaderFacts DEF ReaderType, GoodReader
<1>3. repo.age[v] <= RequestTimeout /\ repo.age[v] <= RequestTimeout + CacheTimeout
  BY <1>2, CacheBounds
<1>4. x \in ReaderType /\ GoodReader(x)
  BY <1>2, <1>3, SavingReader
<1>5. e \in EntryType /\ GoodEntry(e, RequestTimeout + CacheTimeout)
  BY <1>2, <1>3, CacheBounds, NewEntry
<1> HIDE DEF x, e
<1> QED BY <1>1, <1>4, <1>5, ReaderSteps DEF CacheInv, CacheTypes

LEMMA Saved ==
  ASSUME CacheInv, NEW r \in Readers, SaveServiceToCache(r)
  PROVE  CacheInv'
<1> DEFINE v == reader[r].version
           x == [AsReader(reader[r].floor) EXCEPT !.pc = "done", !.version = v]
           e == [version |-> v, left |-> CacheTimeout]
<1>1. UNCHANGED <<repo, typeEntry, tokenEntry, forgotten>> /\ reader[r].pc = "save"
  BY DEF SaveServiceToCache, At
<1>2. /\ v \in 0..MaxVersion /\ v >= forgotten /\ repo.age[v] <= RequestTimeout + CacheTimeout
      /\ repo.age[v] \in Nat /\ reader[r].floor <= forgotten /\ reader[r].floor \in Nat /\ forgotten \in Nat
  BY <1>1, ReaderFacts, CacheBounds DEF ReaderType, GoodReader
<1>3. CASE /\ serviceEntry' = [serviceEntry EXCEPT ![reader[r].service] = e]
           /\ reader' = [reader EXCEPT ![r] = x]
  <2>1. repo.age[v] <= Longest /\ v >= reader[r].floor
    BY <1>2, CacheBounds DEF Longest
  <2>2. x \in ReaderType /\ GoodReader(x)
    BY <1>2, <2>1, ReturnedReader
  <2>3. e \in EntryType /\ GoodEntry(e, Longest)
    <3>1. RequestTimeout + CacheTimeout \in Nat /\ RequestTimeout + CacheTimeout + CacheTimeout = Longest
      BY CacheBounds DEF Longest
    <3> HIDE DEF e
    <3>2. e \in EntryType /\ GoodEntry(e, RequestTimeout + CacheTimeout + CacheTimeout)
      BY <1>2, <3>1, NewEntry DEF e
    <3> QED BY <3>1, <3>2
  <2> HIDE DEF x, e
  <2>4. /\ serviceEntry' \in [Services -> EntryType]
        /\ \A s \in Services : GoodEntry(serviceEntry'[s], Longest)
    BY <1>3, <2>3 DEF CacheInv, CacheTypes
  <2> QED BY <1>1, <1>3, <2>2, <2>4, ReaderSteps DEF CacheInv, CacheTypes
<1>4. CASE Fails(r) /\ serviceEntry' = serviceEntry
  <2>1. AsReader(0) \in ReaderType /\ AsReader(0).pc = "idle" /\ AsReader(0).floor = 0 /\ 0 <= forgotten
    BY <1>2, CacheBounds, NewReader
  <2> QED BY <1>1, <1>4, <2>1, GoodAtStart, ReaderAlone DEF Fails
<1> QED BY <1>3, <1>4 DEF SaveServiceToCache, Returns

-----------------------------------------------------------------------------
(* The surroundings.                                                       *)

LEMMA ChangeStep == ASSUME CacheInv, ChangeType PROVE CacheInv'
<1>1. /\ repo.version \in 0..MaxVersion /\ repo.age \in [0..MaxVersion -> Nat]
      /\ repo \in [version : 0..MaxVersion, age : [0..MaxVersion -> Nat]] /\ forgotten \in 0..repo.version
      /\ CurrentIsNew
  BY DEF CacheInv, CacheTypes
<1>2. /\ repo.version < MaxVersion /\ repo' = [repo EXCEPT !.version = repo.version + 1]
      /\ UNCHANGED <<typeEntry, serviceEntry, tokenEntry, reader, forgotten>>
  BY DEF ChangeType
<1>3. repo'.version = repo.version + 1 /\ repo'.age = repo.age
  BY <1>1, <1>2
<1>4. /\ repo' \in [version : 0..MaxVersion, age : [0..MaxVersion -> Nat]]
      /\ forgotten \in 0..repo'.version
  BY <1>1, <1>2, <1>3, CacheBounds
<1>5. CacheTypes'
  BY <1>2, <1>4 DEF CacheInv, CacheTypes
<1>6. CurrentIsNew'
  <2>1. \A v \in 0..MaxVersion : v \in Int /\ (v >= repo.version => repo.age[v] = 0)
    BY <1>1 DEF CurrentIsNew
  <2> QED BY <1>1, <1>3, <2>1 DEF CurrentIsNew
<1> QED BY <1>2, <1>3, <1>5, <1>6 DEF CacheInv, GoodEntry, GoodToken, GoodReader, TokenIsGood, TokenSuffices

\* the signal cannot reach an answer under way: then nothing counts as forgotten
LEMMA InvalidateStep == ASSUME CacheInv, InvalidateAll PROVE CacheInv'
<1>1. /\ typeEntry' = Absent /\ tokenEntry' = NoToken /\ serviceEntry' = [s \in Services |-> Absent]
      /\ UNCHANGED <<repo, reader>> /\ forgotten' = IF UnderWay = {} THEN repo.version ELSE forgotten
  BY DEF InvalidateAll
<1>2. repo.version \in Nat /\ forgotten \in 0..repo.version /\ forgotten' \in 0..repo.version
      /\ forgotten <= forgotten'
  BY <1>1, CacheBounds DEF CacheInv, CacheTypes
<1>3. CacheTypes'
  BY <1>1, <1>2, NoEntries DEF CacheInv, CacheTypes
<1>4. CurrentIsNew'
  BY <1>1 DEF CacheInv, CurrentIsNew
<1>5. \A r \in Readers : GoodReader(reader[r])'
  <2> SUFFICES ASSUME NEW r \in Readers PROVE GoodReader(reader[r])'
    OBVIOUS
  <2>1. GoodReader(reader[r]) /\ reader[r] \in ReaderType
    BY ReaderFacts
  <2>2. reader[r].pc \in {"typed", "save"} => forgotten' = forgotten
    BY <1>1 DEF UnderWay
  <2>3. reader[r].floor <= forgotten'
    BY <1>2, <2>1, CacheBounds DEF GoodReader, ReaderType
  <2> QED BY <1>1, <2>1, <2>2, <2>3 DEF GoodReader, TokenIsGood, TokenSuffices
<1> QED BY <1>1, <1>3, <1>4, <1>5, NoEntries DEF CacheInv, GoodEntry, GoodToken

\* a tick makes what was replaced older by at most one
LEMMA TickAges ==
  ASSUME CacheInv, Tick
  PROVE  /\ repo' \in [version : 0..MaxVersion, age : [0..MaxVersion -> Nat]]
         /\ repo'.version = repo.version /\ CurrentIsNew'
         /\ \A v \in 0..MaxVersion : repo'.age[v] <= repo.age[v] + 1
<1> DEFINE a == [v \in 0..MaxVersion |-> IF v < repo.version THEN Up(repo.age[v], Longest + 1) ELSE 0]
<1>1. /\ repo \in [version : 0..MaxVersion, age : [0..MaxVersion -> Nat]]
      /\ repo' = [repo EXCEPT !.age = a]
  BY DEF CacheInv, CacheTypes, Tick
<1>2. ASSUME NEW v \in 0..MaxVersion
      PROVE  a[v] \in Nat /\ a[v] <= repo.age[v] + 1 /\ (v >= repo.version => a[v] = 0)
  <2>1. a[v] = IF v < repo.version THEN Up(repo.age[v], Longest + 1) ELSE 0
    OBVIOUS
  <2>2. Longest \in Nat /\ repo.age[v] \in Nat /\ repo.version \in Nat /\ v \in Nat
    BY <1>1, CacheBounds DEF Longest
  <2> HIDE DEF a
  <2> QED BY <2>1, <2>2 DEF Up
<1>3. a \in [0..MaxVersion -> Nat]
  BY <1>2
<1> HIDE DEF a
<1>4. repo'.version = repo.version /\ repo'.age = a
  BY <1>1
<1> QED BY <1>1, <1>2, <1>3, <1>4 DEF CurrentIsNew

LEMMA AgedEntry ==
  ASSUME CacheInv, Tick, NEW e \in EntryType, NEW n \in Nat, GoodEntry(e, n)
  PROVE  Aged(e) \in EntryType /\ GoodEntry(Aged(e), n)'
<1>1. CASE e.left > 1
  <2> DEFINE x == [e EXCEPT !.left = e.left - 1]
  <2>1. x \in EntryType /\ x.version = e.version /\ x.left = e.left - 1 /\ Aged(e) = x
    BY <1>1, CacheBounds DEF EntryType, Aged
  <2> HIDE DEF x
  <2>2. /\ e.version \in 0..MaxVersion /\ e.left \in Nat /\ e.version >= forgotten
        /\ repo.age[e.version] + e.left <= n
    BY <1>1, EntryFacts DEF GoodEntry, Cached
  <2>3. /\ repo.age[e.version] \in Nat /\ repo'.age[e.version] \in Nat
        /\ repo'.age[e.version] <= repo.age[e.version] + 1
    BY <2>2, TickAges DEF CacheInv, CacheTypes
  <2>4. repo'.age[e.version] + (e.left - 1) <= n
    BY <2>2, <2>3
  <2>5. forgotten' = forgotten
    BY DEF Tick
  <2> QED BY <2>1, <2>2, <2>4, <2>5 DEF GoodEntry
<1>2. CASE ~(e.left > 1)
  BY <1>2, NoEntries DEF Aged, GoodEntry, Cached
<1> QED BY <1>1, <1>2

LEMMA AgedToken ==
  ASSUME CacheInv, Tick
  PROVE  tokenEntry' \in TokenType /\ GoodToken(tokenEntry')
<1>1. tokenEntry \in TokenType /\ GoodToken(tokenEntry)
  BY DEF CacheInv, CacheTypes
<1>2. /\ tokenEntry.left \in Nat /\ tokenEntry.valid \in Nat
      /\ tokenEntry.waited \in 0..Margin
  BY <1>1 DEF TokenType
<1>3. CASE tokenEntry.left > 1 \/ tokenEntry.stays
  <2> DEFINE x == [tokenEntry EXCEPT !.left = Down(tokenEntry.left), !.valid = Down(tokenEntry.valid)]
  <2>1. tokenEntry' = x
    BY <1>3 DEF Tick
  <2>2. Down(tokenEntry.left) \in Nat /\ Down(tokenEntry.valid) \in Nat
    BY <1>2, CacheBounds DEF Down
  <2>3. /\ x \in TokenType /\ x.left = Down(tokenEntry.left) /\ x.valid = Down(tokenEntry.valid)
        /\ x.waited = tokenEntry.waited /\ x.stays = tokenEntry.stays
    BY <1>1, <2>2 DEF TokenType
  <2> HIDE DEF x
  <2>4. Cached(x) => /\ tokenEntry.left > 1
                     /\ \/ tokenEntry.waited >= Margin
                        \/ tokenEntry.valid + tokenEntry.waited >= tokenEntry.left + Margin
    BY <1>1, <1>2, <2>3, CacheBounds DEF GoodToken, Cached, Down
  <2>5. Cached(x) => x.waited >= Margin \/ x.valid + x.waited >= x.left + Margin
    BY <1>2, <2>3, <2>4, CacheBounds DEF Down
  <2> QED BY <1>1, <2>1, <2>3, <2>5 DEF GoodToken
<1>4. CASE ~(tokenEntry.left > 1 \/ tokenEntry.stays)
  BY <1>4, NoEntries DEF Tick, GoodToken
<1> QED BY <1>3, <1>4

\* a request that waits has time left; what is left and how old its answer is stay balanced
LEMMA WaitingReader ==
  ASSUME CacheInv, Tick, NEW r \in Readers
  PROVE  reader'[r] \in ReaderType /\ GoodReader(reader[r])'
<1>1. /\ reader[r] \in ReaderType /\ GoodReader(reader[r]) /\ Waits(r) /\ forgotten' = forgotten
      /\ forgotten \in Nat
  BY ReaderFacts DEF Tick
<1>2. /\ reader[r].left \in 0..RequestTimeout /\ reader[r].valid \in Nat /\ reader[r].life \in Nat
      /\ reader[r].waited \in 0..Margin /\ reader[r].version \in 0..MaxVersion
  BY <1>1 DEF ReaderType
<1>3. CASE reader[r].pc \in Asking \cup {"issued"}
  <2> DEFINE x == [reader[r] EXCEPT !.left = Down(reader[r].left), !.valid = Down(reader[r].valid),
                                    !.waited = Up(reader[r].waited, Margin)]
  <2>1. reader'[r] = x
    BY <1>3 DEF Tick
  <2>2. /\ Down(reader[r].left) \in 0..RequestTimeout /\ Down(reader[r].valid) \in Nat
        /\ Up(reader[r].waited, Margin) \in 0..Margin
    BY <1>2, CacheBounds DEF Up, Down
  <2>3. /\ x \in ReaderType /\ x.pc = reader[r].pc /\ x.version = reader[r].version
        /\ x.floor = reader[r].floor /\ x.left = Down(reader[r].left)
        /\ x.valid = Down(reader[r].valid) /\ x.waited = Up(reader[r].waited, Margin)
        /\ x.kept = reader[r].kept /\ x.life = reader[r].life
    BY <1>1, <2>2 DEF ReaderType
  <2> HIDE DEF x
  <2>4. ASSUME NEW n \in Nat, TokenSuffices(reader[r], n) PROVE TokenSuffices(x, n)
    BY <1>2, <2>3, <2>4, CacheBounds DEF TokenSuffices, Up, Down
  <2>5. /\ x.pc = "issued" => TokenSuffices(x, x.life)
        /\ x.pc \in HasToken => TokenIsGood(x)
    BY <1>1, <1>2, <2>3, <2>4, CacheBounds DEF GoodReader, TokenIsGood
  <2>6. x.pc = "typed" => repo'.age[x.version] + x.left <= RequestTimeout
    <3> SUFFICES ASSUME x.pc = "typed" PROVE repo'.age[x.version] + x.left <= RequestTimeout
      OBVIOUS
    <3>1. reader[r].left > 0 /\ repo.age[x.version] + reader[r].left <= RequestTimeout
      BY <1>1, <2>3 DEF Waits, GoodReader, Asking
    <3>2. /\ repo.age[x.version] \in Nat /\ repo'.age[x.version] \in Nat
          /\ repo'.age[x.version] <= repo.age[x.version] + 1
      BY <1>2, <2>3, TickAges DEF CacheInv, CacheTypes
    <3>3. x.left = reader[r].left - 1
      BY <1>2, <2>3, <3>1 DEF Down
    <3> QED BY <1>2, <3>1, <3>2, <3>3, CacheBounds
  <2>7. x.floor <= forgotten /\ (x.pc = "typed" => x.version >= forgotten)
    BY <1>1, <2>3 DEF GoodReader
  <2>8. x.pc \notin {"login", "save", "done"}
    BY <1>3, <2>3 DEF Asking
  <2> QED BY <1>1, <2>1, <2>3, <2>5, <2>6, <2>7, <2>8 DEF GoodReader, TokenSuffices
<1>4. CASE reader[r].pc \notin Asking \cup {"issued"}
  <2>1. reader'[r] = reader[r]
    BY <1>4 DEF Tick
  <2>2. reader[r].pc \in {"idle", "login"}
    BY <1>1, <1>4 DEF Waits
  <2> QED BY <1>1, <2>1, <2>2 DEF GoodReader, HasToken
<1> QED BY <1>3, <1>4

LEMMA TickStep == ASSUME CacheInv, Tick PROVE CacheInv'
<1>1. RequestTimeout + CacheTimeout \in Nat /\ Longest \in Nat
  BY CacheBounds DEF Longest
<1>2. typeEntry' \in EntryType /\ GoodEntry(typeEntry, RequestTimeout + CacheTimeout)'
  <2>1. typeEntry \in EntryType /\ GoodEntry(typeEntry, RequestTimeout + CacheTimeout)
    BY DEF CacheInv, CacheTypes
  <2>2. typeEntry' = Aged(typeEntry)
    BY DEF Tick
  <2> QED BY <1>1, <2>1, <2>2, AgedEntry DEF GoodEntry
<1>3. /\ serviceEntry' \in [Services -> EntryType]
      /\ \A s \in Services : GoodEntry(serviceEntry[s], Longest)'
  <2>1. serviceEntry' = [s \in Services |-> Aged(serviceEntry[s])]
    BY DEF Tick
  <2>2. \A s \in Services : serviceEntry[s] \in EntryType /\ GoodEntry(serviceEntry[s], Longest)
    BY DEF CacheInv, CacheTypes
  <2> QED BY <1>1, <2>1, <2>2, AgedEntry DEF GoodEntry
<1>4. reader' \in [Readers -> ReaderType]
  BY WaitingReader DEF Tick
<1>5. CacheTypes'
  BY <1>2, <1>3, <1>4, TickAges, AgedToken DEF CacheInv, CacheTypes, Tick
<1> QED BY <1>2, <1>3, <1>5, TickAges, AgedToken, WaitingReader DEF CacheInv, GoodToken, Cached

-----------------------------------------------------------------------------
LEMMA CacheStep == ASSUME CacheInv, [CacheNext]_cacheVars PROVE CacheInv'
<1>1. CASE CacheNext
  BY <1>1, GetTokenStep, IssueTokenStep, ReceiveTokenStep, ReaderFails, DeviceSteps, ServiceHit, TypeHit,
     Served, Received, Saved, ChangeStep, InvalidateStep, TickStep DEF CacheNext
<1>2. CASE UNCHANGED cacheVars
  BY <1>2 DEF cacheVars, CacheInv, CacheTypes, CurrentIsNew, GoodEntry, GoodToken, GoodReader, TokenIsGood, TokenSuffices
<1> QED BY <1>1, <1>2

(* The invariant of the cache holds in every state that is reached. *)
LEMMA CacheInvariance == CacheSpec => []CacheInv
BY CacheStart, CacheStep, PTL DEF CacheSpec

(* GetService (lib/devicerepository/iot.go) returns a service that was      *)
(* replaced no longer ago than a request and the validities of the two      *)
(* entries behind each other, whatever readers fill the cache and however   *)
(* often the device type changes.                                           *)
THEOREM BoundedStaleness == CacheSpec => []ServiceStaleness
<1>1. CacheInv => ServiceStaleness
  BY DEF CacheInv, GoodReader, ServiceStaleness, At
<1> QED BY <1>1, CacheInvariance, PTL

(* The signals of cacheinvalidator.go are final for the tasks that begin    *)
(* after them, if no answer of the repository is under way.                 *)
THEOREM Forgotten == CacheSpec => []InvalidatedIsForgotten
<1>1. CacheInv => InvalidatedIsForgotten
  BY DEF CacheInv, GoodReader, InvalidatedIsForgotten, At
<1> QED BY <1>1, CacheInvariance, PTL

(* The margin of ten seconds (lib/devicerepository/devicerepository.go:69)  *)
(* is enough: only answers that take as long, or as long as the token       *)
(* lives, make a request carry a token that has expired.  Nothing is        *)
(* assumed of expires_in; a token that lives no longer than the margin, and *)
(* whose entry the cache keeps all the same, is the exception.              *)
THEOREM ValidTokens == CacheSpec => []TokenIsValid
<1>1. ASSUME CacheInv, NEW r \in Readers, reader[r].pc \in Asking, reader[r].valid = 0
      PROVE  reader[r].waited >= Margin \/ reader[r].waited >= reader[r].life \/ reader[r].kept
  <2>1. /\ reader[r].waited \in 0..Margin /\ reader[r].life \in Nat
        /\ TokenIsGood(reader[r])
    BY <1>1, ReaderFacts DEF ReaderType, GoodReader, HasToken, Asking
  <2> QED BY <1>1, <2>1, CacheBounds DEF TokenIsGood, TokenSuffices
<1>2. CacheInv => TokenIsValid
  BY <1>1 DEF TokenIsValid
<1> QED BY <1>2, CacheInvariance, PTL
==============================================================================
