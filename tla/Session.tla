------------------------------ MODULE Session ------------------------------
(***************************************************************************)
(* How a controller gets its configuration: the MQTT session of            *)
(* TelemetrySender.cpp, the check of RuntimeConfig.cpp, the broker, and    *)
(* provisioning_service.py with its copy of the registry (DeviceRegistry   *)
(* has the ages and the queries of that copy; here it is only behind).     *)
(*                                                                         *)
(* The broker keeps nothing for a controller without a session: sessions   *)
(* are clean and no message is retained.  It admits anyone, so what is     *)
(* published on the controller's topic need not be the service's.          *)
(***************************************************************************)
EXTENDS Naturals, Sequences

CONSTANTS
  Rows,         \* what the table device_map may say of the controller
  MaxHellos,    \* hellos on their way to the service
  MaxInbox,     \* messages queued for the controller
  MaxFaults     \* bound of the environment's faults

\* The rack "empty" stands for a rack_id that is an empty string.
NoRow == [rack |-> "empty", role |-> "none", enabled |-> FALSE]

ASSUME SessionAssumption ==
  /\ Rows \subseteq [rack : {"rack", "empty"}, role : {"Primary", "Standby", "other"}, enabled : BOOLEAN]
  /\ MaxHellos \in Nat \ {0} /\ MaxInbox \in Nat \ {0} /\ MaxFaults \in Nat

VARIABLES
  up,             \* of "link", the cable of the controller, "broker", and "db", the
                  \* service's connection to the database
  conn,           \* of the MQTT client, see Conn
  config,         \* config_ as set by setConfig, NoRow until then
  ask,            \* "due" once HELLO_INTERVAL_MS have passed since lastHelloMs
  out,            \* what the controller published in this step
  inbox,          \* messages of the config topic, queued for this session
  hellos,         \* hellos the service has not taken yet
  reply,          \* the row on_message looked up, until it is published
  copy,           \* the service's copy of the registry row
  table,          \* the row of device_map
  recorded,       \* tables of the host the controller is in
  offered,        \* history: rows that copy or reply has had since the last boot
  foreign,        \* history: rows that others have sent in a config since then
  faults

controller == <<conn, config, ask>>
service == <<reply, copy, recorded>>
env == <<up, table, faults>>
history == <<offered, foreign>>
vars == <<controller, out, inbox, hellos, service, env, history>>

\* mqttClient.connected() is true of the last three.
Conn == {"unset",   \* setup() has not called setServer
         "none",
         "live",    \* with the subscription of the config topic
         "deaf",    \* the broker refused the subscription
         "stale"}   \* the session is gone, and the client does not know

-----------------------------------------------------------------------------
(* RuntimeConfig *)

\* A MAC is written in two ways: deviceMacString() puts colons, the topics do not.
Mac(id, form) == [id |-> id, form |-> form]
Self == Mac("self", "colons")

ConfigFor(mac, row) ==
  [message_type |-> "config", mac |-> mac, configured |-> TRUE, row |-> row]

\* build_config: the MAC as it stands in the topic.
BuildConfig(row) == ConfigFor(Mac("self", "compact"), row)

\* Mutant: the MACs are compared as they are written.
AsWritten(mac) == mac

\* normalizeMac
NormalizeMac(mac) == mac.id

\* Mutant: the message's address is not looked at.
AcceptsAnyones(m) == m.message_type = "config" /\ m.configured /\ m.row.rack # "empty"
                     /\ m.row.role \in {"Primary", "Standby"}

\* parseRuntimeConfigJson with isValid: what is taken over.
Accepts(m) ==
  /\ m.message_type = "config" /\ m.configured
  /\ NormalizeMac(m.mac) = NormalizeMac(Self)
  /\ m.row.rack # "empty"
  /\ m.row.role \in {"Primary", "Standby"}

\* What others may publish on the topic, by hand or by program: what is no config
\* for this controller, and configs as good as the service's, with any row.
Strays ==
  LET row == [rack |-> "stray", role |-> "Primary", enabled |-> TRUE] IN
  { [BuildConfig(row) EXCEPT !.message_type = "hello"],
    [BuildConfig(row) EXCEPT !.configured = FALSE],
    ConfigFor(Mac("other", "compact"), row) } \cup {BuildConfig(r) : r \in Rows}

-----------------------------------------------------------------------------
(* The controller *)

Connected == conn \in {"live", "deaf", "stale"}

\* What a session needs.
Online == {"link", "broker"} \subseteq up

\* connectMqtt in a state where it returns TRUE.  The result of subscribe is not
\* looked at: a refusal is a fault, and stays for the session.
ConnectMqtt ==
  \/ Connected /\ UNCHANGED <<conn, faults>>
  \/ conn = "none" /\ Online /\ conn' = "live" /\ UNCHANGED faults
  \/ conn = "none" /\ Online /\ conn' = "deaf"
     /\ faults < MaxFaults /\ faults' = faults + 1

\* Mutant: the rejection is reported through a gate of enabled.
RefusesSilently(m) == IF Accepts(m) THEN config' = m.row /\ out' = "nothing" ELSE out' = "nothing" /\ UNCHANGED config

\* onMqttMessage: a message is applied, or refused and reported.
OnMqttMessage(m) ==
  IF Accepts(m) THEN config' = m.row /\ out' = "nothing" ELSE out' = "config_rejected" /\ UNCHANGED config

\* net.loop() with a session: the next message of the queue.
Receive ==
  /\ "link" \in up /\ Connected /\ inbox # <<>>
  /\ OnMqttMessage(Head(inbox)) /\ inbox' = Tail(inbox)
  /\ UNCHANGED <<conn, ask, hellos, service, env, history>>

\* net.loop() without one.
Reconnect ==
  /\ ~Connected /\ ConnectMqtt
  /\ out' = "nothing"
  /\ UNCHANGED <<config, ask, inbox, hellos, service, up, table, history>>

\* Mutant: a controller asks once in each session.
OncePerSession == ask = "waits" /\ ~Connected

\* HELLO_INTERVAL_MS later, whether or not the publish succeeded.
DueAgain == ask = "waits"

\* hello(): the throttle starts anew before the publish; on a session that is gone
\* the hello is lost, and costs an interval.
Hello ==
  /\ config = NoRow /\ "link" \in up /\ ask = "due"
  /\ ConnectMqtt
  /\ ask' = "waits" /\ out' = "hello"
  /\ IF conn' = "stale" THEN UNCHANGED hellos
     ELSE hellos < MaxHellos /\ hellos' = hellos + 1
  /\ UNCHANGED <<config, inbox, service, up, table, history>>

Interval ==
  /\ DueAgain
  /\ ask' = "due" /\ out' = "nothing"
  /\ UNCHANGED <<conn, config, inbox, hellos, service, env, history>>

\* Mutant: the gate asks only whether there is a configuration.
GateConfigured == config # NoRow

\* The gate of loop() and of sendMQTT.
Gate == config # NoRow /\ config.enabled

SendTelemetry ==
  /\ Gate /\ "link" \in up
  /\ ConnectMqtt
  /\ out' = "telemetry"
  /\ UNCHANGED <<config, ask, inbox, hellos, service, up, table, history>>

\* sendEvent has no gate; loop() calls it for the edges a standby sees.
SendEvent ==
  /\ config.role = "Standby" /\ "link" \in up
  /\ ConnectMqtt
  /\ out' = "event"
  /\ UNCHANGED <<config, ask, inbox, hellos, service, up, table, history>>

\* Mutant: the configuration is kept in flash.
KeepsConfig == config' = config

ForgetsConfig == config' = NoRow

\* Power, a panic or an update: setup() runs.  Only with a link and a lease does
\* begin() call setServer and connectMqtt, which may fail.
Boot ==
  /\ faults < MaxFaults /\ faults' = faults + 1
  /\ conn' \in {"unset"} \cup (IF "link" \in up THEN {"none"} ELSE {})
                       \cup (IF Online THEN {"live", "deaf"} ELSE {})
  /\ ForgetsConfig /\ ask' = "waits" /\ out' = "nothing" /\ inbox' = <<>>
  /\ offered' = {copy, reply} \ {NoRow} /\ foreign' = {}
  /\ UNCHANGED <<hellos, service, up, table>>

-----------------------------------------------------------------------------
(* The provisioning service *)

\* Mutant: the entry in unknown_devices is forgotten.
RecordsNothing == {"current_status"}

Records == IF copy = NoRow THEN {"current_status", "unknown_devices"} ELSE {"current_status"}

\* on_message up to the lookup: current_status, then the answer, or the entry in
\* unknown_devices.  An upsert that fails is only logged.  What is too long, no JSON
\* or raises an exception is no controller's hello; the latter is ServiceRestarts.
OnHello ==
  /\ hellos > 0 /\ reply = NoRow
  /\ hellos' = hellos - 1
  /\ reply' = copy
  /\ \/ "db" \in up /\ recorded' = recorded \cup Records /\ UNCHANGED faults
     \/ "db" \in up /\ faults < MaxFaults /\ faults' = faults + 1
        /\ \E failed \in SUBSET Records \ {{}} : recorded' = recorded \cup (Records \ failed)
     \/ "db" \notin up /\ UNCHANGED <<recorded, faults>>
  /\ out' = "nothing"
  /\ UNCHANGED <<controller, inbox, copy, up, table, history>>

\* client.publish with qos 1 and not retained: it waits for the broker, and who is
\* not subscribed gets nothing.
Publish ==
  /\ reply # NoRow /\ "broker" \in up
  /\ IF conn # "live" THEN UNCHANGED inbox
     ELSE Len(inbox) < MaxInbox /\ inbox' = Append(inbox, BuildConfig(reply))
  /\ reply' = NoRow /\ out' = "nothing"
  /\ UNCHANGED <<controller, hellos, copy, recorded, env, history>>

\* The copy is fetched anew.
Refresh ==
  /\ "db" \in up /\ copy # table
  /\ copy' = table
  /\ offered' = offered \cup ({table} \ {NoRow})
  /\ out' = "nothing"
  /\ UNCHANGED <<controller, inbox, hellos, reply, recorded, env, foreign>>

-----------------------------------------------------------------------------
(* The environment *)

Fault == faults < MaxFaults /\ faults' = faults + 1 /\ out' = "nothing"

\* An operator registers, changes or retires the controller.
Edit(row) ==
  /\ row # table /\ table' = row /\ Fault
  /\ UNCHANGED <<controller, inbox, hellos, service, up, history>>

\* A failing query leaves an empty copy; on a dead connection every query fails.
QueryFails ==
  /\ copy # NoRow /\ copy' = NoRow
  /\ IF "db" \in up THEN Fault ELSE out' = "nothing" /\ UNCHANGED faults
  /\ UNCHANGED <<controller, inbox, hellos, reply, recorded, up, table, history>>

\* PostgreSQL stops or restarts: the connection is dead, and nothing opens another.
DatabaseLost ==
  /\ "db" \in up /\ up' = up \ {"db"} /\ Fault
  /\ UNCHANGED <<controller, inbox, hellos, service, table, history>>

\* The service starts anew, which opens the connection; what it had not answered is lost.
ServiceRestarts ==
  /\ hellos' = 0 /\ reply' = NoRow /\ copy' = NoRow /\ up' = up \cup {"db"} /\ Fault
  /\ UNCHANGED <<controller, inbox, recorded, table, history>>

LinkChanges ==
  /\ up' = IF "link" \in up THEN up \ {"link"} ELSE up \cup {"link"}
  /\ Fault
  /\ UNCHANGED <<controller, inbox, hellos, service, table, history>>

\* The broker, or the way to it, drops the session: what has not arrived is lost.
Drop ==
  /\ conn' = IF Connected THEN "stale" ELSE conn
  /\ \E n \in 0 .. Len(inbox) : inbox' = SubSeq(inbox, 1, n)
  /\ UNCHANGED <<config, ask, service, table, history>>

BrokerStops == "broker" \in up /\ up' = up \ {"broker"} /\ hellos' = 0 /\ Drop /\ Fault

SessionDrops ==
  /\ conn \in {"live", "deaf"} /\ Drop
  /\ IF "link" \in up THEN Fault ELSE out' = "nothing" /\ UNCHANGED faults
  /\ UNCHANGED <<hellos, up>>

BrokerStarts ==
  /\ "broker" \notin up /\ up' = up \cup {"broker"} /\ out' = "nothing"
  /\ UNCHANGED <<controller, inbox, hellos, service, table, faults, history>>

\* The client finds out that its session is gone.
SessionEnds ==
  /\ conn = "stale" /\ conn' = "none" /\ inbox' = <<>> /\ out' = "nothing"
  /\ UNCHANGED <<config, ask, hellos, service, env, history>>

Stray(m) ==
  /\ conn = "live" /\ Len(inbox) < MaxInbox
  /\ inbox' = Append(inbox, m) /\ Fault
  /\ foreign' = foreign \cup {row \in Rows : m = BuildConfig(row)}
  /\ UNCHANGED <<controller, hellos, service, up, table, offered>>

-----------------------------------------------------------------------------
Init ==
  /\ up \in {{"broker", "db"}, {"link", "broker", "db"}}
  /\ conn \in {"unset"} \cup (IF "link" \in up THEN {"none"} ELSE {})
  /\ config = NoRow /\ ask = "waits" /\ out = "nothing" /\ inbox = <<>> /\ hellos = 0
  /\ reply = NoRow /\ copy = NoRow /\ table \in Rows \cup {NoRow}
  /\ recorded = {} /\ offered = {} /\ foreign = {} /\ faults = 0

Controller == Receive \/ Reconnect \/ Hello \/ Interval \/ SendTelemetry \/ SendEvent

Provisioning == OnHello \/ Publish \/ Refresh

Environment ==
  \/ Boot \/ (\E row \in Rows \cup {NoRow} : Edit(row)) \/ QueryFails \/ DatabaseLost
  \/ ServiceRestarts
  \/ LinkChanges \/ BrokerStops \/ SessionDrops \/ BrokerStarts
  \/ SessionEnds \/ (\E m \in Strays : Stray(m))

Next == Controller \/ Provisioning \/ Environment

\* Both programs go on and a lost session is noticed; the environment owes nothing else.
Fairness ==
  /\ WF_vars(Receive) /\ WF_vars(Reconnect) /\ WF_vars(Hello) /\ WF_vars(Interval)
  /\ WF_vars(SessionEnds)
  /\ WF_vars(OnHello) /\ WF_vars(Publish) /\ WF_vars(Refresh)

Spec == Init /\ [][Next]_vars /\ Fairness

-----------------------------------------------------------------------------
Usable(row) == row.rack # "empty" /\ row.role \in {"Primary", "Standby"}

TypeOK ==
  /\ up \subseteq {"link", "broker", "db"} /\ conn \in Conn /\ ask \in {"due", "waits"}
  /\ {config, reply, copy, table} \subseteq Rows \cup {NoRow} /\ offered \cup foreign \subseteq Rows
  /\ out \in {"nothing", "hello", "telemetry", "event", "config_rejected"}
  /\ inbox \in Seq(Strays) /\ Len(inbox) <= MaxInbox
  /\ hellos \in 0 .. MaxHellos /\ faults \in 0 .. MaxFaults
  /\ recorded \subseteq {"current_status", "unknown_devices"}

\* A controller runs on a usable row that the service has offered since the
\* controller's last boot, or that others have sent it in a config since then (the
\* code cannot tell them apart), whatever is lost or answered late: never on one that
\* had been withdrawn by then, since nothing is kept for it.
OnlyOffered == config # NoRow => config \in offered \cup foreign /\ Usable(config)

\* Telemetry is published only if an enabled row has been offered, or sent by others,
\* since the boot.
TelemetryGranted == out = "telemetry" => \E row \in offered \cup foreign : row.enabled

\* All that a board needs from outside, a service with a connection to the database,
\* which is opened only once, and a session that is not deaf: a refused subscription
\* is not noticed, and lasts as long as the session.
Served == up = {"link", "broker", "db"} /\ conn \notin {"unset", "deaf"}

\* A board that was booted with a link and is registered for good gets a
\* configuration in the end, whatever was lost before, from a service that has its
\* connection to the database or was started anew after losing it.
GetsConfigured ==
  \A row \in Rows : Usable(row) /\ <>[](Served /\ table = row) => <>[](config # NoRow)

\* A board that was booted with a link asks over and over until it is configured.
AsksUntilConfigured ==
  <>[](Online /\ conn # "unset" /\ config = NoRow) => []<>(out = "hello")

\* README.md: a device boots unconfigured and publishes hello every 10 s.  A board
\* whose cable is put in after setup() should, too.
EveryBoardAsks ==
  <>[](Online /\ config = NoRow) => []<>(out = "hello")

\* A row no controller can use is reported over and over, not silently ignored.
RejectionReported ==
  \A row \in Rows : ~Usable(row) /\ <>[](Served /\ table = row /\ config = NoRow)
                       => []<>(out = "config_rejected")

\* An unregistered board that keeps asking a service with a connection to the
\* database is in both tables in the end.
StrangersRecorded ==
  <>[](Online /\ "db" \in up /\ conn # "unset" /\ table = NoRow /\ config = NoRow)
    => <>(recorded = {"current_status", "unknown_devices"})
=============================================================================
