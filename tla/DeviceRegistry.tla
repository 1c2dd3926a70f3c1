--------------------------- MODULE DeviceRegistry ---------------------------
(***************************************************************************)
(* One service's copy of the device registry (device_registry.py).  The    *)
(* provisioning and the ingestion service each hold a copy of the table    *)
(* device_map in memory and ask it once per message; a message waits while *)
(* the copy is fetched anew.  The table is changed by others meanwhile.    *)
(*                                                                         *)
(* Instants of time.monotonic() are kept as distances from the present:    *)
(* age is time.monotonic() - _device_map_ts.  That clock starts with the   *)
(* host, so before the first query age is the host's uptime.               *)
(***************************************************************************)
EXTENDS Integers

CONSTANTS
  Mac,          \* addresses of devices
  Row,          \* what the table may say of one: its rack, role and enabled
  Unknown,      \* no row, or one that is retired
  TTL,          \* _DEVICE_MAP_TTL
  Cooldown,     \* _MISS_REFRESH_COOLDOWN
  MaxQuery,     \* longest time from the snapshot of a query to the stamp
  MaxChanges, MaxFailures, MaxRestarts    \* bounds of the environment

ASSUME RegistryAssumption ==
  /\ Unknown \notin Row
  /\ Cooldown \in Nat \ {0} /\ TTL \in Nat /\ Cooldown <= TTL
  /\ MaxQuery \in Nat
  /\ MaxChanges \in Nat /\ MaxFailures \in Nat /\ MaxRestarts \in Nat

Value == Row \cup {Unknown}
Tables == [Mac -> Value]

\* Distances beyond this one make no difference.
Far == TTL + Cooldown + MaxQuery + 1

VARIABLES
  deviceMap,    \* _device_map
  age,          \* time.monotonic() - _device_map_ts
  pc, mac,      \* "idle", or a lookup of mac is at "query" or at "fetched"
  fetched,      \* the rows of the query, until they are stored
  elapsed,      \* time since the snapshot of the query
  answer,       \* the lookup that returned in this step, or {}
  table,        \* device_map, without the retired devices
  works,        \* queries of this service's connection succeed
  uptime,       \* time.monotonic()
  absent,       \* history: how long ago table last said v of m
  served,       \* history: how long m is in the table and queries succeed
  sinceQuery,   \* history: time since the last query began
  changes, failures, restarts

cache == <<deviceMap, age>>
query == <<pc, mac, fetched, elapsed>>
history == <<absent, served, sinceQuery>>
bounds == <<changes, failures, restarts>>
vars == <<cache, query, answer, table, works, uptime, history, bounds>>

Nobody == [m \in Mac |-> Unknown]
Least(x, y) == IF x < y THEN x ELSE y
Later(n) == Least(n + 1, Far)

Init ==
  /\ table \in Tables /\ works = TRUE /\ uptime \in 0 .. Far
  /\ deviceMap = Nobody /\ age = uptime
  /\ pc = "idle" /\ mac \in Mac /\ fetched = Nobody /\ elapsed = 0
  /\ answer = {}
  /\ absent = [m \in Mac |-> [v \in Value |-> IF v = table[m] THEN 0 ELSE Far]]
  /\ served = [m \in Mac |-> 0] /\ sinceQuery = Far
  /\ changes = 0 /\ failures = 0 /\ restarts = 0

Answer(m, v) == answer' = {<<m, v>>}

-----------------------------------------------------------------------------
(* lookup(conn, m) *)

\* Mutants: the copy never expires; a device that is missing is not asked for again.
NeverExpires == FALSE
NoSecondLook(m) == FALSE

\* cache_device_map refreshes what is older than the TTL.
Expired == age > TTL

\* lookup refreshes on a miss, unless the copy is too young.
WorthAnotherLook(m) == deviceMap[m] = Unknown /\ age >= Cooldown

\* The copy answers.
Hit(m) ==
  /\ pc = "idle" /\ ~Expired /\ ~WorthAnotherLook(m)
  /\ Answer(m, deviceMap[m])
  /\ UNCHANGED <<cache, query, table, works, uptime, history, bounds>>

\* The copy must be fetched first.  One query is all a lookup makes: its copy
\* is then younger than the cooldown.
Miss(m) ==
  /\ pc = "idle" /\ (Expired \/ WorthAnotherLook(m))
  /\ pc' = "query" /\ mac' = m
  /\ sinceQuery' = 0
  /\ answer' = {}
  /\ UNCHANGED <<cache, fetched, elapsed, table, works, uptime, absent, served, bounds>>

Lookup(m) == Hit(m) \/ Miss(m)

\* Mutant: the error path forgets to return a map.
NoMap == <<>>

\* except: ... return {}
RowsAfterError == Nobody

\* get_device_map: the registered devices, and nothing at all after an error.
Query ==
  /\ pc = "query"
  /\ fetched' = IF works THEN table ELSE RowsAfterError
  /\ pc' = "fetched" /\ elapsed' = 0
  /\ answer' = {}
  /\ UNCHANGED <<cache, mac, table, works, uptime, history, bounds>>

\* Mutant: only a copy with a device in it is stamped.
StampIfAny == age' = IF fetched = Nobody THEN age ELSE 0

\* _device_map_ts = time.monotonic()
Stamp == age' = 0

\* _refresh stores the rows, whatever they are, and the lookup returns.
Store ==
  /\ pc = "fetched"
  /\ deviceMap' = fetched /\ Stamp
  /\ Answer(mac, fetched[mac])
  /\ pc' = "idle" /\ fetched' = Nobody /\ elapsed' = 0
  /\ UNCHANGED <<mac, table, works, uptime, history, bounds>>

-----------------------------------------------------------------------------
(* The environment *)

\* An operator registers, changes or retires a device.
Change(m, v) ==
  /\ v # table[m] /\ changes < MaxChanges
  /\ changes' = changes + 1
  /\ table' = [table EXCEPT ![m] = v]
  /\ absent' = [absent EXCEPT ![m][v] = 0]
  /\ served' = IF v = Unknown THEN [served EXCEPT ![m] = 0] ELSE served
  /\ answer' = {}
  /\ UNCHANGED <<cache, query, works, uptime, sinceQuery, failures, restarts>>

Fails ==
  /\ works /\ failures < MaxFailures
  /\ failures' = failures + 1
  /\ works' = FALSE
  /\ served' = [m \in Mac |-> 0]
  /\ answer' = {}
  /\ UNCHANGED <<cache, query, table, uptime, absent, sinceQuery, changes, restarts>>

Recovers ==
  /\ ~works
  /\ works' = TRUE
  /\ answer' = {}
  /\ UNCHANGED <<cache, query, table, uptime, history, bounds>>

\* The process starts anew, with a connection of its own.
Restart ==
  /\ restarts < MaxRestarts
  /\ restarts' = restarts + 1
  /\ deviceMap' = Nobody /\ age' = uptime
  /\ pc' = "idle" /\ fetched' = Nobody /\ elapsed' = 0
  /\ works' = TRUE
  /\ served' = [m \in Mac |-> 0] /\ sinceQuery' = Far
  /\ answer' = {}
  /\ UNCHANGED <<mac, table, uptime, absent, changes, failures>>

\* Between snapshot and stamp at most MaxQuery passes.
Tick ==
  /\ pc = "fetched" => elapsed < MaxQuery
  /\ age' = Later(age) /\ uptime' = Later(uptime) /\ sinceQuery' = Later(sinceQuery)
  /\ elapsed' = IF pc = "fetched" THEN elapsed + 1 ELSE 0
  /\ absent' = [m \in Mac |-> [v \in Value |-> IF v = table[m] THEN 0 ELSE Later(absent[m][v])]]
  /\ served' = [m \in Mac |-> IF works /\ table[m] # Unknown THEN Later(served[m]) ELSE 0]
  /\ answer' = {}
  /\ UNCHANGED <<deviceMap, pc, mac, fetched, table, works, bounds>>

-----------------------------------------------------------------------------
Service == (\E m \in Mac : Lookup(m)) \/ Query \/ Store

Environment ==
  \/ (\E m \in Mac, v \in Value : Change(m, v))
  \/ Fails \/ Recovers \/ Restart \/ Tick

Next == Service \/ Environment

\* Devices go on sending, lookups return, and time passes.
Fairness ==
  /\ \A m \in Mac : SF_vars(Lookup(m))
  /\ WF_vars(Query) /\ WF_vars(Store) /\ WF_vars(Tick)

Spec == Init /\ [][Next]_vars /\ Fairness

-----------------------------------------------------------------------------
\* The values of the variables; a lookup that does not wait has nothing fetched.
TypeOK ==
  /\ deviceMap \in Tables /\ fetched \in Tables /\ table \in Tables
  /\ {age, uptime, sinceQuery} \subseteq 0 .. Far
  /\ pc \in {"idle", "query", "fetched"} /\ mac \in Mac
  /\ elapsed \in 0 .. MaxQuery
  /\ answer = {} \/ \E m \in Mac, v \in Value : answer = {<<m, v>>}
  /\ works \in BOOLEAN
  /\ absent \in [Mac -> [Value -> 0 .. Far]] /\ served \in [Mac -> 0 .. Far]
  /\ changes \in 0 .. MaxChanges /\ failures \in 0 .. MaxFailures /\ restarts \in 0 .. MaxRestarts
  /\ pc # "fetched" => fetched = Nobody /\ elapsed = 0

\* No device is given a row that left the table longer ago than the TTL and one
\* query: what an operator disables, moves or retires is out of use by then.
StaleBound ==
  \A m \in Mac, r \in Row : answer = {<<m, r>>} => absent[m][r] <= TTL + MaxQuery

\* A device is not turned away once it has been in the table, with queries
\* succeeding, for the cooldown and one query.
RecognisedInTime ==
  \A m \in Mac : answer = {<<m, Unknown>>} => served[m] < Cooldown + MaxQuery

\* A service begins no two queries within the cooldown, whatever is asked of it
\* and whatever the queries return.
QueriesSpaced ==
  [][pc = "idle" /\ pc' = "query" => sinceQuery >= Cooldown]_vars

\* Once the table says the same of a device for good, and queries succeed, the
\* device is answered over and over, and in the end with nothing else.
EventuallyRight ==
  \A m \in Mac, v \in Value :
    <>[](table[m] = v /\ works) =>
      []<>(answer = {<<m, v>>}) /\ <>[](\A w \in Value : answer = {<<m, w>>} => w = v)
=============================================================================
