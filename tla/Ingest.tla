------------------------------- MODULE Ingest -------------------------------
(***************************************************************************)
(* ingestion_service.py: a message of a device is stored reading by        *)
(* reading, each in a transaction of its own, with the rack that the       *)
(* registry named when the message was taken up.  DeviceRegistry has the   *)
(* ages and the queries of the service's copy; here it is only behind.     *)
(*                                                                         *)
(* An event is a message with one reading.  The service has one connection *)
(* to PostgreSQL, opened at its start, and a clean session at the broker:  *)
(* what it has not taken when it ends is lost.                             *)
(***************************************************************************)
EXTENDS Naturals, Sequences

CONSTANTS
  Mac, Rack,
  Messages,      \* what may be published on the topics of the devices
  MaxWaiting,    \* messages on their way to the service
  MaxFaults      \* bound of the environment

Unknown == "unknown"
Nothing == [type |-> "none"]

\* A reading names its bus, its place on it, and the temperature or null.
Reading == [bus : {"inlet", "exhaust", "event", "other", "nameless"}, index : Nat, value : {"number", "null"}]
Type == {"telemetry", "event", "status", "ack", "else"}
Body == {"whole",
         "lacking",       \* telemetry without sensors, an event without event_type
         "garbled",       \* no JSON
         "undecodable"}   \* no UTF-8

ASSUME IngestAssumption ==
  /\ Unknown \notin Rack
  /\ Messages \subseteq [mac : Mac, type : Type, body : Body, readings : Seq(Reading)]
  /\ MaxWaiting \in Nat \ {0} /\ MaxFaults \in Nat

VARIABLES
  service,       \* "serves"; or "ended", until its container starts it again
  queue,         \* messages on their way
  job,           \* the message on_message works on
  rackId,        \* rack_id
  at,            \* readings it is through with
  copy, table,   \* the service's registry, and device_map
  db,            \* PostgreSQL: "up", "down"
  conn,          \* the connection of the service: "open", "lost"
  rows,          \* history: what was inserted for the last message
  missed,        \* history: its readings whose insert failed
  named,         \* history: racks the table gave a device since the service began
  faults

handler == <<job, rackId, at>>
history == <<rows, missed, named>>
vars == <<service, queue, handler, copy, table, db, conn, history, faults>>

Tables == [Mac -> Rack \cup {Unknown}]
Nobody == [m \in Mac |-> Unknown]

Init ==
  /\ service = "serves" /\ queue = <<>> /\ job = Nothing /\ rackId = Unknown /\ at = 0
  /\ table \in Tables /\ copy = Nobody
  /\ db = "up" /\ conn = "open"
  /\ rows = {} /\ missed = {} /\ named = [m \in Mac |-> {table[m]}] /\ faults = 0

-----------------------------------------------------------------------------
(* on_message *)

Works == db = "up" /\ conn = "open"

\* lookup: the copy as it is, or fetched anew; a query that fails empties it.
Lookup == copy' \in {copy, IF Works THEN table ELSE Nobody}

\* An exception leaves on_message and loop_forever(): the service ends, and its
\* queue, its copy and its connection with it.
Ends == service' = "ended" /\ queue' = <<>> /\ job' = Nothing /\ UNCHANGED <<rackId, at>>

Drops == queue' = Tail(queue) /\ UNCHANGED <<service, handler, rows, missed>>

\* Before the lookup: what is no text ends the service, what is no JSON is ignored.
Unreadable ==
  /\ service = "serves" /\ job = Nothing /\ queue # <<>>
  /\ \/ Head(queue).body = "undecodable" /\ Ends /\ UNCHANGED <<rows, missed>>
     \/ Head(queue).body = "garbled" /\ Drops
  /\ UNCHANGED <<copy, table, db, conn, named, faults>>

\* Mutant: nobody is turned away.
Welcomes(m) == FALSE

Stranger(m) == copy'[m.mac] = Unknown

\* What raises: status and ack are not implemented, and next() has no default.
Raises(m) == m.type \in {"status", "ack"} \/ (m.type = "telemetry" /\ m.body = "lacking")

OnMessage ==
  /\ service = "serves" /\ job = Nothing /\ queue # <<>>
  /\ Lookup
  /\ LET m == Head(queue) IN
     /\ m.body \in {"whole", "lacking"}
     /\ \/ Stranger(m) /\ Drops
        \/ ~Stranger(m) /\ Raises(m) /\ Ends /\ UNCHANGED <<rows, missed>>
        \/ ~Stranger(m) /\ m.type = "event" /\ m.body = "lacking" /\ Drops
        \/ ~Stranger(m) /\ m.type = "else" /\ Drops
        \/ /\ ~Stranger(m) /\ m.type \in {"telemetry", "event"} /\ m.body = "whole"
           /\ job' = m /\ rackId' = copy'[m.mac] /\ at' = 0
           /\ rows' = {} /\ missed' = {}
           /\ queue' = Tail(queue) /\ UNCHANGED service
  /\ UNCHANGED <<table, db, conn, named, faults>>

\* Mutants: the rack is asked for at each insert; a null is skipped; a failed insert
\* is tried again.
RackNow == table[job.mac]
SkipsNulls(r) == IF r.value = "null" THEN {} ELSE {[mac |-> job.mac, rack |-> rackId, reading |-> r]}
Retries == at

RackOf == rackId

\* What an INSERT adds: a null is stored as NULL.
Row(r) == {[mac |-> job.mac, rack |-> RackOf, reading |-> r]}

AfterFailure == at + 1

\* handle_telemetry and handle_event: an INSERT fails if the database does, or if it
\* refuses the bus; the exception is only logged.
Insert ==
  /\ job # Nothing /\ at < Len(job.readings)
  /\ LET r == job.readings[at + 1] IN
     /\ r.bus # "nameless"
     /\ IF Works /\ r.bus # "other"
        THEN rows' = rows \cup Row(r) /\ at' = at + 1 /\ UNCHANGED missed
        ELSE missed' = missed \cup {at + 1} /\ at' = AfterFailure /\ UNCHANGED rows
  /\ UNCHANGED <<service, queue, job, rackId, copy, table, db, conn, named, faults>>

\* bus["bus"] of a bus without a name raises: a part of the message is stored.
Nameless ==
  /\ job # Nothing /\ at < Len(job.readings)
  /\ job.readings[at + 1].bus = "nameless"
  /\ Ends
  /\ UNCHANGED <<copy, table, db, conn, history, faults>>

Return ==
  /\ job # Nothing /\ at = Len(job.readings)
  /\ job' = Nothing
  /\ UNCHANGED <<service, queue, rackId, at, copy, table, db, conn, history, faults>>

-----------------------------------------------------------------------------
(* The environment *)

\* For a client without a session the broker keeps nothing.
Publish(m) ==
  /\ service = "serves" /\ Len(queue) < MaxWaiting /\ queue' = Append(queue, m)
  /\ UNCHANGED <<service, handler, copy, table, db, conn, history, faults>>

\* restart: unless-stopped; connect() raises until the database is there.
Restart ==
  /\ service = "ended" /\ db = "up"
  /\ service' = "serves" /\ conn' = "open" /\ copy' = Nobody
  /\ rows' = {} /\ missed' = {} /\ named' = [m \in Mac |-> {table[m]}]
  /\ UNCHANGED <<queue, handler, table, db, faults>>

Fault == faults < MaxFaults /\ faults' = faults + 1

\* An operator registers, moves or retires a device.
Edit(m, v) ==
  /\ table[m] # v /\ Fault
  /\ table' = [table EXCEPT ![m] = v] /\ named' = [named EXCEPT ![m] = @ \cup {v}]
  /\ UNCHANGED <<service, queue, handler, copy, db, conn, rows, missed>>

\* Nothing opens the connection again but a start of the service.
DatabaseStops ==
  /\ db = "up" /\ Fault
  /\ db' = "down" /\ conn' = "lost"
  /\ UNCHANGED <<service, queue, handler, copy, table, history>>

DatabaseStarts ==
  /\ db = "down" /\ db' = "up"
  /\ UNCHANGED <<service, queue, handler, copy, table, conn, history, faults>>

Handler == Unreadable \/ OnMessage \/ Insert \/ Nameless \/ Return

Environment ==
  \/ (\E m \in Messages : Publish(m)) \/ Restart \/ DatabaseStops \/ DatabaseStarts
  \/ (\E m \in Mac, v \in Rack \cup {Unknown} : Edit(m, v))

Next == Handler \/ Environment

\* The service runs, its container is started again, and so is the database.
Fairness == WF_vars(Handler) /\ WF_vars(Restart) /\ WF_vars(DatabaseStarts)

Spec == Init /\ [][Next]_vars /\ Fairness

-----------------------------------------------------------------------------
(* Properties *)

\* The kinds of values of the handler's variables and of the tables.
TypeOK ==
  /\ service \in {"serves", "ended"} /\ queue \in Seq(Messages) /\ Len(queue) <= MaxWaiting
  /\ job \in Messages \cup {Nothing} /\ rackId \in Rack \cup {Unknown} /\ at \in Nat
  /\ job # Nothing => service = "serves" /\ rackId \in Rack /\ at <= Len(job.readings)
  /\ {copy, table} \subseteq Tables /\ named \in [Mac -> SUBSET (Rack \cup {Unknown})]
  /\ db \in {"up", "down"} /\ conn \in {"open", "lost"} /\ missed \subseteq Nat
  /\ rows \subseteq [mac : Mac, rack : Rack, reading : Reading] /\ faults \in 0 .. MaxFaults

\* All that is stored of one message is of one device and carries one rack, which
\* device_map has given it since the service began, although the device may be moved
\* or retired while the message is stored (rack_id is read once, ingestion_service.py:43).
OneRack ==
  \A r, s \in rows : r.mac = s.mac /\ r.rack = s.rack /\ r.rack \in named[r.mac]

\* What is stored of the first n readings of the message: each with the device and
\* the rack of the message, but those whose own insert failed.
Stored(n) ==
  {[mac |-> job.mac, rack |-> rackId, reading |-> job.readings[i]] : i \in (1 .. n) \ missed}

\* When on_message is through with a message, exactly that is stored of it, a null as
\* a null: of a message handled to its end all readings, of one that a bus without a
\* name ended those before that bus.  A failed insert costs no other reading.
StoredExactly ==
  [][job # Nothing /\ job' = Nothing
       => rows = Stored(at) /\ (service' = "serves" => at = Len(job.readings))]_vars

\* Whatever is published and whatever fails, the service comes back to wait for the
\* next message: no failure is waited for, and what ends it does not end it for good.
KeepsServing == []<>(service = "serves" /\ job = Nothing)
=============================================================================
