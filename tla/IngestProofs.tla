---------------------------- MODULE IngestProofs ----------------------------
(***************************************************************************)
(* What the service stores of a message, for every set of messages and     *)
(* every length.  The argument: while on_message works, its rack_id is one *)
(* that the table has named since the service began (Told), because the    *)
(* copy holds no other (Known); and every reading it is through with has   *)
(* its row or has failed (Through).                                        *)
(***************************************************************************)
EXTENDS Ingest, TLAPS

LEMMA NothingIsNoMessage == Nothing \notin Messages
<1>1. ASSUME Nothing \in Messages PROVE FALSE
  <2>1. Nothing.type \in Type
    BY <1>1, IngestAssumption
  <2> QED
    BY <2>1 DEF Nothing, Type
<1> QED
  BY <1>1

LEMMA Constants ==
  /\ Unknown \notin Rack /\ Nothing \notin Messages
  /\ MaxWaiting \in Nat \ {0} /\ MaxFaults \in Nat
  /\ \A m \in Messages :
       /\ m.mac \in Mac /\ m.readings \in Seq(Reading) /\ Len(m.readings) \in Nat
       /\ \A i \in 1 .. Len(m.readings) : m.readings[i] \in Reading
BY IngestAssumption, NothingIsNoMessage

-----------------------------------------------------------------------------
LEMMA InitTypeOK == Init => TypeOK
<1> USE Constants
<1> QED
  BY DEF Init, TypeOK, Tables, Nobody

\* lookup leaves a table of the service's.
LEMMA LookupKeepsTables == TypeOK /\ Lookup => copy' \in Tables
BY DEF TypeOK, Lookup, Tables, Nobody

LEMMA StepTypeOK == TypeOK /\ [Next]_vars => TypeOK'
<1> SUFFICES ASSUME TypeOK, [Next]_vars PROVE TypeOK'
  OBVIOUS
<1> USE Constants DEF TypeOK
<1>1. CASE Unreadable
  <2>1. Tail(queue) \in Seq(Messages) /\ Len(Tail(queue)) <= MaxWaiting
    BY <1>1 DEF Unreadable
  <2>2. CASE Ends /\ UNCHANGED <<rows, missed>>
    BY <1>1, <2>2 DEF Unreadable, Ends
  <2>3. CASE Drops
    BY <1>1, <2>1, <2>3 DEF Unreadable, Drops, handler
  <2> QED
    BY <1>1, <2>2, <2>3 DEF Unreadable
<1>2. CASE OnMessage
  <2>1. Tail(queue) \in Seq(Messages) /\ Len(Tail(queue)) <= MaxWaiting /\ Head(queue) \in Messages
    BY <1>2 DEF OnMessage
  <2>2. copy' \in Tables
    BY <1>2, LookupKeepsTables DEF OnMessage
  <2>3. copy'[Head(queue).mac] \in Rack \cup {Unknown}
    BY <2>1, <2>2 DEF Tables
  <2> DEFINE m == Head(queue)
  <2>4. UNCHANGED <<table, db, conn, named, faults>>
    BY <1>2 DEF OnMessage
  <2>5. CASE Drops
    BY <2>1, <2>2, <2>4, <2>5 DEF Drops, handler
  <2>6. CASE Ends /\ UNCHANGED <<rows, missed>>
    BY <2>2, <2>4, <2>6 DEF Ends
  <2>7. CASE /\ ~Stranger(m) /\ job' = m /\ rackId' = copy'[m.mac] /\ at' = 0
             /\ rows' = {} /\ missed' = {} /\ queue' = Tail(queue) /\ UNCHANGED service
    <3>1. m \in Messages /\ Len(m.readings) \in Nat /\ service = "serves" /\ rackId' \in Rack
      BY <1>2, <2>1, <2>3, <2>7 DEF OnMessage, Stranger
    <3> HIDE DEF m
    <3> QED
      BY <2>1, <2>2, <2>3, <2>4, <2>7, <3>1
  <2> QED
    BY <1>2, <2>5, <2>6, <2>7 DEF OnMessage
<1>3. CASE Insert
  <2>1. job \in Messages /\ job.mac \in Mac /\ at + 1 \in 1 .. Len(job.readings)
        /\ job.readings[at + 1] \in Reading
    BY <1>3 DEF Insert
  <2>2. UNCHANGED <<service, queue, job, rackId, copy, table, db, conn, named, faults>>
    BY <1>3 DEF Insert
  <2>3. at' = at + 1
    BY <1>3 DEF Insert, AfterFailure
  <2>4. rows' \subseteq [mac : Mac, rack : Rack, reading : Reading]
    BY <1>3, <2>1 DEF Insert, Row, RackOf
  <2>5. missed' \subseteq Nat
    <3>1. at + 1 \in Nat
      OBVIOUS
    <3>2. missed' = missed \/ missed' = missed \cup {at + 1}
      BY <1>3 DEF Insert
    <3> QED
      BY <3>1, <3>2
  <2>6. at' \in Nat /\ at' <= Len(job.readings)
    BY <2>1, <2>3
  <2> QED
    BY <2>2, <2>4, <2>5, <2>6
<1>4. CASE Nameless
  BY <1>4 DEF Nameless, Ends, history
<1>5. CASE Return
  BY <1>5 DEF Return, history
<1>6. ASSUME NEW m \in Messages, Publish(m) PROVE TypeOK'
  <2>1. Append(queue, m) \in Seq(Messages) /\ Len(Append(queue, m)) <= MaxWaiting
    BY <1>6 DEF Publish
  <2> QED
    BY <1>6, <2>1 DEF Publish, handler, history
<1>7. CASE Restart
  <2>1. Nobody \in Tables
    BY DEF Nobody, Tables
  <2>2. named' \in [Mac -> SUBSET (Rack \cup {Unknown})]
    BY <1>7 DEF Restart, Tables
  <2> QED
    BY <1>7, <2>1, <2>2 DEF Restart, handler
<1>8. CASE DatabaseStops \/ DatabaseStarts
  <2>1. faults' \in 0 .. MaxFaults /\ db' \in {"up", "down"} /\ conn' \in {"open", "lost"}
    BY <1>8 DEF DatabaseStops, DatabaseStarts, Fault
  <2>2. UNCHANGED <<service, queue, job, rackId, at, copy, table, rows, missed, named>>
    BY <1>8 DEF DatabaseStops, DatabaseStarts, handler, history
  <2> QED
    BY <2>1, <2>2
<1>9. ASSUME NEW m \in Mac, NEW v \in Rack \cup {Unknown}, Edit(m, v) PROVE TypeOK'
  BY <1>9 DEF Edit, handler, Fault, Tables
<1>10. CASE UNCHANGED vars
  BY <1>10 DEF vars, handler, history
<1> QED
  BY <1>1, <1>2, <1>3, <1>4, <1>5, <1>6, <1>7, <1>8, <1>9, <1>10 DEF Next, Handler, Environment

\* Every variable of the service keeps its kind of value, and no row is stored for a
\* device without a rack (ingestion_service.py, on_message).
THEOREM Typing == Spec => []TypeOK
BY InitTypeOK, StepTypeOK, PTL DEF Spec

-----------------------------------------------------------------------------
\* The table's racks are among those named, and so are the copy's.
Known ==
  \A m \in Mac : table[m] \in named[m] /\ (copy[m] # Unknown => copy[m] \in named[m])

\* So are that of the message at hand and that of its rows, which are of its device.
Told ==
  /\ job # Nothing => rackId \in named[job.mac] /\ \A r \in rows : r.mac = job.mac /\ r.rack = rackId
  /\ OneRack

LEMMA StepKnown == TypeOK /\ Known /\ [Next]_vars => Known'
<1> SUFFICES ASSUME TypeOK, Known, [Next]_vars PROVE Known'
  OBVIOUS
<1> USE DEF TypeOK, Known, Tables
<1>1. CASE Unreadable
  BY <1>1 DEF Unreadable
<1>2. CASE OnMessage
  <2>1. copy' \in {copy, table, Nobody} /\ UNCHANGED <<table, named>>
    BY <1>2 DEF OnMessage, Lookup
  <2> QED
    BY <2>1 DEF Nobody
<1>3. CASE Insert \/ Nameless \/ Return
  BY <1>3 DEF Insert, Nameless, Return, history
<1>4. ASSUME NEW m \in Messages, Publish(m) PROVE Known'
  BY <1>4 DEF Publish, history
<1>5. CASE Restart
  BY <1>5 DEF Restart, Nobody
<1>6. CASE DatabaseStops \/ DatabaseStarts
  BY <1>6 DEF DatabaseStops, DatabaseStarts, history
<1>7. ASSUME NEW m \in Mac, NEW v \in Rack \cup {Unknown}, Edit(m, v) PROVE Known'
  BY <1>7 DEF Edit
<1>8. CASE UNCHANGED vars
  BY <1>8 DEF vars, history
<1> QED
  BY <1>1, <1>2, <1>3, <1>4, <1>5, <1>6, <1>7, <1>8 DEF Next, Handler, Environment

LEMMA StepTold == TypeOK /\ Known /\ Known' /\ Told /\ [Next]_vars => Told'
<1> SUFFICES ASSUME TypeOK, Known, Known', Told, [Next]_vars PROVE Told'
  OBVIOUS
<1> USE Constants DEF TypeOK, Told, OneRack
<1>1. CASE Unreadable
  BY <1>1 DEF Unreadable, Ends, Drops, handler
<1>2. CASE OnMessage
  <2>1. Head(queue) \in Messages /\ UNCHANGED named /\ job = Nothing
    BY <1>2 DEF OnMessage
  <2>2. CASE Drops \/ (Ends /\ UNCHANGED <<rows, missed>>)
    BY <2>1, <2>2 DEF Drops, Ends, handler
  <2>3. CASE ~Stranger(Head(queue)) /\ job' = Head(queue) /\ rackId' = copy'[Head(queue).mac] /\ rows' = {}
    <3>1. rackId' \in named'[job'.mac]
      BY <2>1, <2>3 DEF Stranger, Known
    <3> QED
      BY <2>3, <3>1
  <2> QED
    BY <1>2, <2>2, <2>3 DEF OnMessage
<1>3. CASE Insert
  <2>1. UNCHANGED <<job, rackId, named>> /\ job # Nothing
    BY <1>3 DEF Insert
  <2>2. \A r \in rows' : r \in rows \/ (r.mac = job.mac /\ r.rack = rackId)
    BY <1>3 DEF Insert, Row, RackOf
  <2> QED
    BY <2>1, <2>2
<1>4. CASE Nameless \/ Return
  BY <1>4 DEF Nameless, Return, Ends, history
<1>5. ASSUME NEW m \in Messages, Publish(m) PROVE Told'
  BY <1>5 DEF Publish, handler, history
<1>6. CASE Restart
  <2>1. job = Nothing
    BY <1>6 DEF Restart
  <2> QED
    BY <1>6, <2>1 DEF Restart, handler
<1>7. CASE DatabaseStops \/ DatabaseStarts
  BY <1>7 DEF DatabaseStops, DatabaseStarts, handler, history
<1>8. ASSUME NEW m \in Mac, NEW v \in Rack \cup {Unknown}, Edit(m, v) PROVE Told'
  <2>1. \A n \in Mac : named[n] \subseteq named'[n]
    BY <1>8 DEF Edit
  <2>2. UNCHANGED <<job, rackId, rows>>
    BY <1>8 DEF Edit, handler
  <2>3. (job # Nothing => job.mac \in Mac) /\ \A r \in rows : r.mac \in Mac
    OBVIOUS
  <2> QED
    BY <2>1, <2>2, <2>3
<1>9. CASE UNCHANGED vars
  BY <1>9 DEF vars, handler, history
<1> QED
  BY <1>1, <1>2, <1>3, <1>4, <1>5, <1>6, <1>7, <1>8, <1>9 DEF Next, Handler, Environment

\* Whatever happens to the device, the table and the service while a message is
\* stored, its rows are of one device and carry one rack the table gave it
\* (ingestion_service.py:43).
THEOREM RackIsOne == Spec => []OneRack
<1>1. Init => TypeOK /\ Known /\ Told
  <2>1. Init => Known /\ Told
    BY DEF Init, Known, Told, OneRack, Nobody, Tables
  <2> QED
    BY <2>1, InitTypeOK
<1>2. TypeOK /\ Known /\ Told /\ [Next]_vars => (TypeOK /\ Known /\ Told)'
  BY StepTypeOK, StepKnown, StepTold
<1>3. Spec => [](TypeOK /\ Known /\ Told)
  BY <1>1, <1>2, PTL DEF Spec
<1>4. Told => OneRack
  BY DEF Told
<1> QED
  BY <1>3, <1>4, PTL

-----------------------------------------------------------------------------
\* What has been stored at any point of a message.
Through == job # Nothing => rows = Stored(at) /\ missed \subseteq 1 .. at

LEMMA StepThrough == TypeOK /\ Through /\ [Next]_vars => Through'
<1> SUFFICES ASSUME TypeOK, Through, [Next]_vars, job' # Nothing
             PROVE  rows' = Stored(at)' /\ missed' \subseteq 1 .. at'
  BY DEF Through
<1> USE Constants DEF TypeOK, Through, Stored
<1>1. CASE Unreadable
  BY <1>1 DEF Unreadable, Ends, Drops, handler
<1>2. CASE OnMessage
  <2>1. at' = 0 /\ rows' = {} /\ missed' = {}
    BY <1>2 DEF OnMessage, Ends, Drops, handler
  <2> QED
    BY <2>1
<1>3. CASE Insert
  <2> DEFINE row(i) == [mac |-> job.mac, rack |-> rackId, reading |-> job.readings[i]]
  <2>1. at' = at + 1 /\ UNCHANGED <<job, rackId>> /\ job # Nothing /\ at \in Nat
    BY <1>3 DEF Insert, AfterFailure
  <2>2. rows = {row(i) : i \in (1 .. at) \ missed} /\ missed \subseteq 1 .. at
    BY <2>1
  <2>3. \/ missed' = missed \cup {at + 1} /\ rows' = rows
        \/ missed' = missed /\ rows' = rows \cup {row(at + 1)}
    BY <1>3 DEF Insert, Row, RackOf
  <2>4. missed' \subseteq 1 .. at'
    <3>1. 1 .. (at + 1) = (1 .. at) \cup {at + 1}
      BY <2>1
    <3> QED
      BY <2>1, <2>2, <2>3, <3>1
  <2>5. CASE missed' = missed \cup {at + 1} /\ rows' = rows
    <3>1. (1 .. at') \ missed' = (1 .. at) \ missed
      BY <2>1, <2>5
    <3> QED
      BY <2>1, <2>2, <2>4, <2>5, <3>1
  <2>6. CASE missed' = missed /\ rows' = rows \cup {row(at + 1)}
    <3>1. (1 .. at') \ missed' = ((1 .. at) \ missed) \cup {at + 1}
      BY <2>1, <2>2, <2>6
    <3>2. rows' = {row(i) : i \in (1 .. at') \ missed'}
      BY <2>2, <2>6, <3>1
    <3> QED
      BY <2>1, <2>4, <3>2
  <2> QED
    BY <2>3, <2>5, <2>6
<1>4. CASE Nameless \/ Return \/ Restart
  BY <1>4 DEF Nameless, Return, Restart, Ends, handler
<1>5. ASSUME NEW m \in Messages, Publish(m) PROVE rows' = Stored(at)' /\ missed' \subseteq 1 .. at'
  BY <1>5 DEF Publish, handler, history
<1>6. CASE DatabaseStops \/ DatabaseStarts
  BY <1>6 DEF DatabaseStops, DatabaseStarts, handler, history
<1>7. ASSUME NEW m \in Mac, NEW v \in Rack \cup {Unknown}, Edit(m, v)
      PROVE  rows' = Stored(at)' /\ missed' \subseteq 1 .. at'
  BY <1>7 DEF Edit, handler
<1>8. CASE UNCHANGED vars
  BY <1>8 DEF vars, handler, history
<1> QED
  BY <1>1, <1>2, <1>3, <1>4, <1>5, <1>6, <1>7, <1>8 DEF Next, Handler, Environment

\* Of a message of any length exactly the readings the handler came to are stored,
\* but those whose own insert failed (handle_telemetry and handle_event catch it).
THEOREM ExactlyStored == Spec => StoredExactly
<1> DEFINE Leaves == job # Nothing /\ job' = Nothing
                       => rows = Stored(at) /\ (service' = "serves" => at = Len(job.readings))
<1>1. TypeOK /\ Through /\ [Next]_vars => [Leaves]_vars
  <2> SUFFICES ASSUME TypeOK, Through, Next, job # Nothing, job' = Nothing
               PROVE  rows = Stored(at) /\ (service' = "serves" => at = Len(job.readings))
    OBVIOUS
  <2>1. CASE Return
    BY <2>1 DEF Return, Through
  <2>2. CASE Handler /\ ~Return
    BY <2>2 DEF Handler, Unreadable, OnMessage, Insert, Nameless, Ends, Through
  <2>3. CASE Environment
    BY <2>3 DEF Environment, Publish, Restart, Edit, DatabaseStops, DatabaseStarts, handler
  <2> QED
    BY <2>1, <2>2, <2>3 DEF Next
<1>2. Init => TypeOK /\ Through
  BY InitTypeOK DEF Init, Through
<1>3. Spec => [](TypeOK /\ Through)
  BY <1>2, StepTypeOK, StepThrough, PTL DEF Spec
<1> QED
  BY <1>1, <1>3, PTL DEF Spec, StoredExactly
=============================================================================
