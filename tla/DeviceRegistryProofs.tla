------------------------ MODULE DeviceRegistryProofs ------------------------
(***************************************************************************)
(* What holds of a copy of the registry for every set of devices and rows, *)
(* every TTL and cooldown, and every bound on queries and failures.        *)
(***************************************************************************)
EXTENDS DeviceRegistry, TLAPS

LEMMA FarFacts ==
  Far \in Nat /\ TTL < Far /\ Cooldown < Far /\ MaxQuery < Far /\ TTL + MaxQuery < Far
  BY RegistryAssumption DEF Far

LEMMA LaterFacts ==
  ASSUME NEW n \in 0 .. Far
  PROVE  Later(n) \in 0 .. Far /\ Later(n) <= n + 1 /\ (n < Far => Later(n) = n + 1) /\ n <= Later(n)
  BY FarFacts DEF Later, Least

LEMMA InitTypeOK == Init => TypeOK
<1> SUFFICES ASSUME Init PROVE TypeOK
  OBVIOUS
<1>1. absent \in [Mac -> [Value -> 0 .. Far]]
  BY FarFacts DEF Init
<1>2. QED
  BY <1>1, FarFacts, RegistryAssumption DEF Init, TypeOK, Tables, Nobody, Value

LEMMA StepTypeOK ==
  ASSUME TypeOK, [Next]_vars
  PROVE  TypeOK'
<1> USE FarFacts, RegistryAssumption
    DEF cache, query, history, bounds
<1>0. Nobody \in Tables /\ Tables = [Mac -> Value] /\ Unknown \in Value
  BY DEF Nobody, Tables, Value
<1>1. ASSUME NEW m \in Mac, Hit(m) PROVE TypeOK'
  <2>1. deviceMap[m] \in Value
    BY <1>0 DEF TypeOK
  <2>2. QED
    BY <1>1, <2>1 DEF Hit, Answer, TypeOK
<1>2. ASSUME NEW m \in Mac, Miss(m) PROVE TypeOK'
  BY <1>2 DEF Miss, TypeOK
<1>3. CASE Query
  BY <1>0, <1>3 DEF Query, RowsAfterError, TypeOK
<1>4. CASE Store
  <2>1. fetched[mac] \in Value /\ mac \in Mac
    BY <1>0 DEF TypeOK
  <2>2. answer' = {<<mac, fetched[mac]>>}
    BY <1>4 DEF Store, Answer
  <2>3. \E m \in Mac, v \in Value : answer' = {<<m, v>>}
    BY <2>1, <2>2
  <2>4. QED
    BY <1>0, <1>4, <2>3 DEF Store, Stamp, TypeOK
<1>5. ASSUME NEW m \in Mac, NEW v \in Value, Change(m, v) PROVE TypeOK'
  <2>1. table' \in Tables
    BY <1>0, <1>5 DEF Change, TypeOK
  <2>2. absent' \in [Mac -> [Value -> 0 .. Far]]
    BY <1>5 DEF Change, TypeOK
  <2>3. served' \in [Mac -> 0 .. Far] /\ changes' \in 0 .. MaxChanges
    BY <1>5 DEF Change, TypeOK
  <2>4. QED
    BY <1>5, <2>1, <2>2, <2>3 DEF Change, TypeOK
<1>6. CASE Fails \/ Recovers
  <2>1. CASE Fails
    <3>1. served' \in [Mac -> 0 .. Far] /\ works' = FALSE
      BY <2>1 DEF Fails
    <3>2. failures' \in 0 .. MaxFailures
      BY <2>1 DEF Fails, TypeOK
    <3>3. QED
      BY <2>1, <3>1, <3>2 DEF Fails, TypeOK
  <2>2. CASE Recovers
    BY <2>2 DEF Recovers, TypeOK
  <2>3. QED
    BY <1>6, <2>1, <2>2
<1>7. CASE Restart
  BY <1>0, <1>7 DEF Restart, TypeOK
<1>8. CASE Tick
  <2>1. age' \in 0 .. Far /\ uptime' \in 0 .. Far /\ sinceQuery' \in 0 .. Far
    BY <1>8, LaterFacts DEF Tick, TypeOK
  <2>2. elapsed' \in 0 .. MaxQuery /\ (pc' # "fetched" => elapsed' = 0)
    BY <1>8 DEF Tick, TypeOK
  <2>3. absent' \in [Mac -> [Value -> 0 .. Far]]
    <3>1. \A m \in Mac, v \in Value : Later(absent[m][v]) \in 0 .. Far
      BY LaterFacts DEF TypeOK
    <3>2. QED
      BY <1>8, <3>1 DEF Tick
  <2>4. served' \in [Mac -> 0 .. Far]
    <3>1. \A m \in Mac : Later(served[m]) \in 0 .. Far
      BY LaterFacts DEF TypeOK
    <3>2. QED
      BY <1>8, <3>1 DEF Tick
  <2>5. QED
    BY <1>8, <2>1, <2>2, <2>3, <2>4 DEF Tick, TypeOK
<1>9. CASE UNCHANGED vars
  BY <1>9 DEF vars, TypeOK
<1>10. QED
  BY <1>1, <1>2, <1>3, <1>4, <1>5, <1>6, <1>7, <1>8, <1>9 DEF Next, Service, Environment, Lookup

\* Every variable keeps its type, and nothing stays fetched after a lookup.
THEOREM Typing == Spec => []TypeOK
<1>1. Init => TypeOK
  BY InitTypeOK
<1>2. TypeOK /\ [Next]_vars => TypeOK'
  BY StepTypeOK
<1>3. QED
  BY <1>1, <1>2, PTL DEF Spec

-----------------------------------------------------------------------------
(* How stale a row may be. *)

\* A row in the copy left the table no longer ago than its query began; the copy
\* is MaxQuery older than its stamp at most.
CopyInv ==
  /\ \A m \in Mac : absent[m][table[m]] = 0
  /\ \A m \in Mac, r \in Row : fetched[m] = r => absent[m][r] <= elapsed
  /\ \A m \in Mac, r \in Row : deviceMap[m] = r /\ age <= TTL => absent[m][r] <= age + MaxQuery
  /\ StaleBound

LEMMA StepCopyInv ==
  ASSUME TypeOK, CopyInv, [Next]_vars
  PROVE  CopyInv'
<1> USE RegistryAssumption DEF cache, query, history, bounds
<1>0. TypeOK' /\ Unknown \notin Row /\ Row \subseteq Value
  BY StepTypeOK DEF Value
<1>1. ASSUME NEW m \in Mac, Hit(m) PROVE CopyInv'
  <2>1. ASSUME NEW r \in Row, deviceMap[m] = r PROVE absent[m][r] <= TTL + MaxQuery
    <3>1. absent[m][r] <= age + MaxQuery /\ age <= TTL
      BY <1>1, <2>1 DEF Hit, Expired, CopyInv, TypeOK
    <3>2. age \in Nat /\ absent[m][r] \in Nat
      BY <1>0 DEF TypeOK
    <3>3. QED
      BY <3>1, <3>2
  <2>2. answer' = {<<m, deviceMap[m]>>} /\ absent' = absent
    BY <1>1 DEF Hit, Answer
  <2>3. StaleBound'
    <3> SUFFICES ASSUME NEW n \in Mac, NEW r \in Row, answer' = {<<n, r>>}
                 PROVE  absent'[n][r] <= TTL + MaxQuery
      BY DEF StaleBound
    <3>1. <<m, deviceMap[m]>> = <<n, r>>
      BY <2>2
    <3>2. QED
      BY <2>1, <2>2, <3>1
  <2>4. QED
    BY <1>1, <2>3 DEF Hit, CopyInv
<1>2. ASSUME NEW m \in Mac, Miss(m) PROVE CopyInv'
  BY <1>2 DEF Miss, CopyInv, StaleBound
<1>3. CASE Query
  <2>1. \A m \in Mac, r \in Row : fetched'[m] = r => absent[m][r] <= 0
    BY <1>0, <1>3 DEF Query, RowsAfterError, Nobody, CopyInv, TypeOK, Tables
  <2>2. QED
    BY <1>3, <2>1 DEF Query, CopyInv, StaleBound
<1>4. CASE Store
  <2>1. \A m \in Mac, r \in Row : fetched[m] = r => absent[m][r] <= MaxQuery
    BY <1>0 DEF CopyInv, TypeOK
  <2>2. answer' = {<<mac, fetched[mac]>>} /\ mac \in Mac /\ absent' = absent
    BY <1>4 DEF Store, Answer, TypeOK
  <2>3. StaleBound'
    <3> SUFFICES ASSUME NEW m \in Mac, NEW r \in Row, answer' = {<<m, r>>}
                 PROVE  absent'[m][r] <= TTL + MaxQuery
      BY DEF StaleBound
    <3>1. <<mac, fetched[mac]>> = <<m, r>>
      BY <2>2
    <3>2. absent[m][r] <= MaxQuery /\ absent[m][r] \in Nat
      BY <1>0, <2>1, <3>1 DEF TypeOK
    <3>3. QED
      BY <2>2, <3>2
  <2>4. \A m \in Mac, r \in Row : fetched'[m] # r
    BY <1>0, <1>4 DEF Store, Nobody
  <2>5. QED
    BY <1>4, <2>1, <2>3, <2>4 DEF Store, Stamp, CopyInv
<1>5. ASSUME NEW n \in Mac, NEW v \in Value, Change(n, v) PROVE CopyInv'
  <2>1. \A m \in Mac, w \in Value : absent'[m][w] = IF m = n /\ w = v THEN 0 ELSE absent[m][w]
    BY <1>5 DEF Change, TypeOK
  <2>2. \A m \in Mac : table'[m] = IF m = n THEN v ELSE table[m]
    BY <1>5 DEF Change, TypeOK, Tables
  <2>3. \A m \in Mac : absent'[m][table'[m]] = 0
    BY <2>1, <2>2 DEF CopyInv, TypeOK, Tables
  <2>4. \A m \in Mac, r \in Row : absent'[m][r] <= absent[m][r] /\ absent[m][r] \in Nat /\ absent'[m][r] \in Nat
    BY <1>0, <2>1 DEF TypeOK
  <2>5. fetched' = fetched /\ elapsed' = elapsed /\ deviceMap' = deviceMap /\ age' = age /\ answer' = {}
    BY <1>5 DEF Change
  <2>6. elapsed \in Nat /\ age \in Nat
    BY DEF TypeOK
  <2>7. \A m \in Mac, r \in Row : fetched[m] = r => absent'[m][r] <= elapsed
    BY <2>4, <2>6 DEF CopyInv
  <2>8. \A m \in Mac, r \in Row : deviceMap[m] = r /\ age <= TTL => absent'[m][r] <= age + MaxQuery
    BY <2>4, <2>6 DEF CopyInv
  <2>9. QED
    BY <2>3, <2>5, <2>7, <2>8 DEF CopyInv, StaleBound
<1>6. CASE Fails \/ Recovers
  BY <1>6 DEF Fails, Recovers, CopyInv, StaleBound
<1>7. CASE Restart
  <2>1. \A m \in Mac, r \in Row : Nobody[m] # r
    BY <1>0 DEF Nobody
  <2>2. QED
    BY <1>7, <2>1 DEF Restart, CopyInv, StaleBound
<1>8. CASE Tick
  <2>1. \A m \in Mac, r \in Row : /\ absent[m][r] \in Nat /\ absent'[m][r] \in Nat
                                  /\ absent'[m][r] <= absent[m][r] + 1
    BY <1>0, <1>8, LaterFacts DEF Tick, TypeOK
  <2>2. \A m \in Mac : absent'[m][table'[m]] = 0
    BY <1>8 DEF Tick, TypeOK, Tables
  <2>3. ASSUME NEW m \in Mac, NEW r \in Row, fetched'[m] = r PROVE absent'[m][r] <= elapsed'
    <3>1. pc = "fetched"
      BY <1>0, <1>8, <2>3 DEF Tick, TypeOK, Nobody
    <3>2. elapsed' = elapsed + 1 /\ elapsed \in Nat /\ absent[m][r] <= elapsed
      BY <1>8, <2>3, <3>1 DEF Tick, CopyInv, TypeOK
    <3>3. QED
      BY <2>1, <3>2
  <2>4. ASSUME NEW m \in Mac, NEW r \in Row, deviceMap'[m] = r, age' <= TTL
        PROVE  absent'[m][r] <= age' + MaxQuery
    <3>1. age' = age + 1 /\ age \in Nat
      BY <1>8, <2>4, LaterFacts, FarFacts DEF Tick, TypeOK
    <3>2. absent[m][r] <= age + MaxQuery
      BY <1>8, <2>4, <3>1 DEF Tick, CopyInv
    <3>3. QED
      BY <2>1, <3>1, <3>2
  <2>5. QED
    BY <1>8, <2>2, <2>3, <2>4 DEF Tick, CopyInv, StaleBound
<1>9. CASE UNCHANGED vars
  BY <1>9 DEF vars, CopyInv, StaleBound
<1>10. QED
  BY <1>1, <1>2, <1>3, <1>4, <1>5, <1>6, <1>7, <1>8, <1>9 DEF Next, Service, Environment, Lookup

\* An answer is never older than the TTL and the duration of a query.
THEOREM RowsAreFresh == Spec => []StaleBound
<1>1. Init => CopyInv
  <2> SUFFICES ASSUME Init PROVE CopyInv
    OBVIOUS
  <2>1. \A m \in Mac, r \in Row : Nobody[m] # r
    BY RegistryAssumption DEF Nobody
  <2>2. \A m \in Mac : table[m] \in Value /\ absent[m][table[m]] = 0
    BY DEF Init, Tables
  <2>3. QED
    BY <2>1, <2>2 DEF Init, CopyInv, StaleBound
<1>2. TypeOK /\ CopyInv /\ [Next]_vars => CopyInv'
  BY StepCopyInv
<1>3. CopyInv => StaleBound
  BY DEF CopyInv
<1>4. QED
  BY <1>1, <1>2, <1>3, Typing, PTL DEF Spec

-----------------------------------------------------------------------------
(* How long a registered device may be turned away. *)

\* A copy without the device is from before it was served, or its age makes the
\* next lookup fetch it again.
ServedInv ==
  /\ \A m \in Mac : served[m] > 0 => works /\ table[m] # Unknown
  /\ \A m \in Mac : pc = "fetched" /\ fetched[m] = Unknown => served[m] <= elapsed
  /\ \A m \in Mac : deviceMap[m] = Unknown /\ age < Cooldown => served[m] <= age + MaxQuery
  /\ RecognisedInTime

LEMMA StepServedInv ==
  ASSUME TypeOK, ServedInv, [Next]_vars
  PROVE  ServedInv'
<1> USE RegistryAssumption DEF cache, query, history, bounds
<1>0. /\ age \in Nat /\ elapsed \in Nat /\ elapsed <= MaxQuery /\ \A m \in Mac : served[m] \in Nat
      /\ Unknown \in Value
  BY DEF TypeOK, Value
<1>1. ASSUME NEW m \in Mac, Hit(m) PROVE ServedInv'
  <2>1. answer' = {<<m, deviceMap[m]>>} /\ served' = served
    BY <1>1 DEF Hit, Answer
  <2>2. RecognisedInTime'
    <3> SUFFICES ASSUME NEW n \in Mac, answer' = {<<n, Unknown>>}
                 PROVE  served'[n] < Cooldown + MaxQuery
      BY DEF RecognisedInTime
    <3>1. <<m, deviceMap[m]>> = <<n, Unknown>>
      BY <2>1
    <3>2. age < Cooldown
      BY <1>0, <1>1, <3>1 DEF Hit, WorthAnotherLook
    <3>3. served[n] <= age + MaxQuery
      BY <3>1, <3>2 DEF ServedInv
    <3>4. QED
      BY <1>0, <2>1, <3>2, <3>3
  <2>3. QED
    BY <1>1, <2>2 DEF Hit, ServedInv
<1>2. ASSUME NEW m \in Mac, Miss(m) PROVE ServedInv'
  BY <1>2 DEF Miss, ServedInv, RecognisedInTime
<1>3. CASE Query
  <2>1. ASSUME NEW m \in Mac, fetched'[m] = Unknown PROVE served[m] <= 0
    BY <1>0, <1>3, <2>1 DEF Query, RowsAfterError, Nobody, ServedInv
  <2>2. QED
    BY <1>3, <2>1 DEF Query, ServedInv, RecognisedInTime
<1>4. CASE Store
  <2>1. \A m \in Mac : fetched[m] = Unknown => served[m] <= MaxQuery
    BY <1>0, <1>4 DEF Store, ServedInv
  <2>2. answer' = {<<mac, fetched[mac]>>} /\ served' = served
    BY <1>4 DEF Store, Answer
  <2>3. RecognisedInTime'
    <3> SUFFICES ASSUME NEW n \in Mac, answer' = {<<n, Unknown>>}
                 PROVE  served'[n] < Cooldown + MaxQuery
      BY DEF RecognisedInTime
    <3>1. <<mac, fetched[mac]>> = <<n, Unknown>>
      BY <2>2
    <3>2. served[n] <= MaxQuery
      BY <2>1, <3>1
    <3>3. QED
      BY <1>0, <2>2, <3>2
  <2>4. QED
    BY <1>4, <2>1, <2>3 DEF Store, Stamp, ServedInv
<1>5. ASSUME NEW n \in Mac, NEW v \in Value, Change(n, v) PROVE ServedInv'
  <2>1. \A m \in Mac : table'[m] = IF m = n THEN v ELSE table[m]
    BY <1>5 DEF Change, TypeOK, Tables
  <2>2. \A m \in Mac : served'[m] = IF m = n /\ v = Unknown THEN 0 ELSE served[m]
    BY <1>5 DEF Change, TypeOK
  <2>3. \A m \in Mac : served'[m] <= served[m] /\ served'[m] \in Nat
    BY <1>0, <2>2
  <2>4. \A m \in Mac : served'[m] > 0 => works /\ table'[m] # Unknown
    BY <1>0, <2>1, <2>2 DEF ServedInv
  <2>5. \A m \in Mac : pc = "fetched" /\ fetched[m] = Unknown => served'[m] <= elapsed
    BY <1>0, <2>3 DEF ServedInv
  <2>6. \A m \in Mac : deviceMap[m] = Unknown /\ age < Cooldown => served'[m] <= age + MaxQuery
    BY <1>0, <2>3 DEF ServedInv
  <2>7. QED
    BY <1>5, <2>4, <2>5, <2>6 DEF Change, ServedInv, RecognisedInTime
<1>6. CASE Fails \/ Restart
  <2>1. served' = [m \in Mac |-> 0] /\ answer' = {} /\ age' \in Nat /\ elapsed' \in Nat
    BY <1>0, <1>6 DEF Fails, Restart, TypeOK
  <2>2. QED
    BY <2>1 DEF ServedInv, RecognisedInTime
<1>7. CASE Recovers
  BY <1>7 DEF Recovers, ServedInv, RecognisedInTime
<1>8. CASE Tick
  <2>1. \A m \in Mac : served'[m] = IF works /\ table[m] # Unknown THEN Later(served[m]) ELSE 0
    BY <1>8 DEF Tick
  <2>2. \A m \in Mac : served'[m] \in Nat /\ served'[m] <= served[m] + 1
    BY <1>0, <2>1, LaterFacts DEF TypeOK
  <2>3. \A m \in Mac : served'[m] > 0 => works' /\ table'[m] # Unknown
    BY <1>8, <2>1 DEF Tick
  <2>4. ASSUME NEW m \in Mac, pc' = "fetched", fetched'[m] = Unknown PROVE served'[m] <= elapsed'
    <3>1. elapsed' = elapsed + 1 /\ served[m] <= elapsed
      BY <1>8, <2>4 DEF Tick, ServedInv
    <3>2. QED
      BY <1>0, <2>2, <3>1
  <2>5. ASSUME NEW m \in Mac, deviceMap'[m] = Unknown, age' < Cooldown
        PROVE  served'[m] <= age' + MaxQuery
    <3>1. age' = age + 1
      BY <1>8, <2>5, LaterFacts, FarFacts DEF Tick, TypeOK
    <3>2. served[m] <= age + MaxQuery
      BY <1>0, <1>8, <2>5, <3>1 DEF Tick, ServedInv
    <3>3. QED
      BY <1>0, <2>2, <3>1, <3>2
  <2>6. QED
    BY <1>8, <2>3, <2>4, <2>5 DEF Tick, ServedInv, RecognisedInTime
<1>9. CASE UNCHANGED vars
  BY <1>9 DEF vars, ServedInv, RecognisedInTime
<1>10. QED
  BY <1>1, <1>2, <1>3, <1>4, <1>5, <1>6, <1>7, <1>8, <1>9 DEF Next, Service, Environment, Lookup

\* Neither other devices nor earlier failures keep a registered device out for
\* longer than the cooldown and a query.
THEOREM RegisteredIsRecognised == Spec => []RecognisedInTime
<1>1. Init => ServedInv
  <2> SUFFICES ASSUME Init PROVE ServedInv
    OBVIOUS
  <2>1. age \in Nat /\ \A m \in Mac : served[m] = 0
    BY FarFacts DEF Init
  <2>2. QED
    BY <2>1, RegistryAssumption DEF Init, ServedInv, RecognisedInTime
<1>2. TypeOK /\ ServedInv /\ [Next]_vars => ServedInv'
  BY StepServedInv
<1>3. ServedInv => RecognisedInTime
  BY DEF ServedInv
<1>4. QED
  BY <1>1, <1>2, <1>3, Typing, PTL DEF Spec

-----------------------------------------------------------------------------
(* How often the database is asked. *)

\* Between lookups the copy is stamped no earlier than the last query began.
StampInv == pc = "idle" => age <= sinceQuery

Spaced == pc = "idle" /\ pc' = "query" => sinceQuery >= Cooldown

\* However many messages of unknown devices arrive, and although a failed query
\* leaves the copy empty.
THEOREM DatabaseIsSpared == Spec => QueriesSpaced
<1>1. Init => StampInv
  BY FarFacts DEF Init, StampInv
<1>2. TypeOK /\ StampInv /\ [Next]_vars => StampInv'
  <2> SUFFICES ASSUME TypeOK, StampInv, [Next]_vars PROVE StampInv'
    OBVIOUS
  <2> USE FarFacts DEF cache, query, history, bounds, StampInv
  <2>1. age \in 0 .. Far /\ uptime \in 0 .. Far /\ sinceQuery \in 0 .. Far
    BY DEF TypeOK
  <2>2. CASE Tick
    <3>1. pc' = pc /\ age' = Later(age) /\ sinceQuery' = Later(sinceQuery)
      BY <2>2 DEF Tick
    <3>2. QED
      BY <2>1, <3>1 DEF Later, Least
  <2>3. CASE Service
    BY <2>1, <2>3 DEF Service, Lookup, Hit, Miss, Query, Store, Stamp
  <2>4. CASE Environment /\ ~Tick
    BY <2>1, <2>4 DEF Environment, Change, Fails, Recovers, Restart
  <2>5. CASE UNCHANGED vars
    BY <2>5 DEF vars
  <2>6. QED
    BY <2>2, <2>3, <2>4, <2>5 DEF Next, Environment
<1>3. TypeOK /\ StampInv /\ [Next]_vars => [Spaced]_vars
  <2> SUFFICES ASSUME TypeOK, StampInv, [Next]_vars, pc = "idle", pc' = "query"
               PROVE  sinceQuery >= Cooldown
    BY DEF Spaced
  <2>1. PICK m \in Mac : Miss(m)
    BY DEF Next, Service, Lookup, Hit, Query, Store, Environment, Change, Fails, Recovers, Restart,
           Tick, vars, query
  <2>2. age >= Cooldown
    BY <2>1, RegistryAssumption DEF Miss, Expired, WorthAnotherLook, TypeOK
  <2>3. QED
    BY <2>2, FarFacts, RegistryAssumption DEF StampInv, TypeOK
<1>4. QED
  BY <1>1, <1>2, <1>3, Typing, PTL DEF Spec, QueriesSpaced, Spaced

-----------------------------------------------------------------------------
(* What the two bounds say together. *)

\* The table has said nothing but v of m for longer than a copy that says something
\* else may last: the TTL for a row, the cooldown for one that is missing.
Rested(m, v) ==
  /\ \A r \in Row \ {v} : absent[m][r] > TTL + MaxQuery
  /\ v # Unknown => served[m] >= Cooldown + MaxQuery

RightOnceRested ==
  \A m \in Mac, v \in Value, w \in Value : Rested(m, v) /\ answer = {<<m, w>>} => w = v

\* Once the table has rested, every answer is the right one (lookup): the part of
\* EventuallyRight that is due by a certain time.  Two services that ask the same
\* table then say the same of a device, however old their copies were.
THEOREM RestedIsRight == Spec => []RightOnceRested
<1>1. TypeOK /\ StaleBound /\ RecognisedInTime => RightOnceRested
  <2> SUFFICES ASSUME TypeOK, StaleBound, RecognisedInTime,
                      NEW m \in Mac, NEW v \in Value, NEW w \in Value,
                      Rested(m, v), answer = {<<m, w>>}, w # v
               PROVE  FALSE
    BY DEF RightOnceRested
  <2>1. CASE w \in Row
    <3>1. absent[m][w] <= TTL + MaxQuery
      BY <2>1 DEF StaleBound
    <3>2. absent[m][w] > TTL + MaxQuery
      BY <2>1 DEF Rested
    <3>3. absent[m][w] \in 0 .. Far
      BY DEF TypeOK
    <3>4. QED
      BY <3>1, <3>2, <3>3, FarFacts, RegistryAssumption
  <2>2. CASE w = Unknown
    <3>1. served[m] < Cooldown + MaxQuery
      BY <2>2 DEF RecognisedInTime
    <3>2. served[m] >= Cooldown + MaxQuery
      BY <2>2 DEF Rested
    <3>3. served[m] \in 0 .. Far
      BY DEF TypeOK
    <3>4. QED
      BY <3>1, <3>2, <3>3, FarFacts, RegistryAssumption
  <2>3. QED
    BY <2>1, <2>2 DEF Value
<1>2. QED
  BY <1>1, Typing, RowsAreFresh, RegisteredIsRecognised, PTL
=============================================================================
