--------------------------- MODULE SessionProofs ---------------------------
(***************************************************************************)
(* What holds of the handshake for every set of rows, any number of        *)
(* messages in flight and of faults.                                       *)
(***************************************************************************)
EXTENDS Session, TLAPS

LEMMA NoRowIsNone == NoRow \notin Rows
<1>1. NoRow.role = "none"
  BY DEF NoRow
<1>2. \A row \in Rows : row.role \in {"Primary", "Standby", "other"}
  BY SessionAssumption
<1>3. QED
  BY <1>1, <1>2

\* What the service may send, others may.
LEMMA ConfigIsStray ==
  ASSUME NEW row \in Rows
  PROVE  BuildConfig(row) \in Strays
  BY DEF Strays

\* Whoever sent it: what is accepted is a config as the service builds them, with a
\* usable row.
LEMMA AcceptsUsable ==
  ASSUME NEW m \in Strays, Accepts(m)
  PROVE  m.row \in Rows /\ Usable(m.row) /\ m = BuildConfig(m.row)
<1>1. PICK row \in Rows : m = BuildConfig(row)
  BY DEF Strays, Accepts, BuildConfig, ConfigFor, Mac, NormalizeMac, Self
<1>2. m.row = row
  BY <1>1 DEF BuildConfig, ConfigFor
<1>3. QED
  BY <1>1, <1>2 DEF Accepts, Usable

-----------------------------------------------------------------------------
(* Types *)

LEMMA InitTypeOK == Init => TypeOK
<1> SUFFICES ASSUME Init PROVE TypeOK
  OBVIOUS
<1>1. up \subseteq {"link", "broker", "db"} /\ conn \in Conn /\ ask \in {"due", "waits"}
  BY DEF Init, Conn
<1>2. inbox \in Seq(Strays) /\ Len(inbox) = 0
  BY DEF Init
<1>3. QED
  BY <1>1, <1>2, SessionAssumption DEF Init, TypeOK

LEMMA StepTypeOK == TypeOK /\ [Next]_vars => TypeOK'
<1> SUFFICES ASSUME TypeOK, [Next]_vars PROVE TypeOK'
  OBVIOUS
<1> USE SessionAssumption DEF controller, service, env, history
<1>0. inbox \in Seq(Strays) /\ Len(inbox) \in 0 .. MaxInbox
  BY DEF TypeOK
<1>1. ASSUME ConnectMqtt PROVE conn' \in Conn /\ faults' \in 0 .. MaxFaults
  BY <1>1 DEF ConnectMqtt, Conn, TypeOK
<1>2. ASSUME Fault PROVE faults' \in 0 .. MaxFaults /\ out' = "nothing"
  BY <1>2 DEF Fault, TypeOK
<1>3. ASSUME Drop
      PROVE  conn' \in Conn /\ inbox' \in Seq(Strays) /\ Len(inbox') <= MaxInbox
  <2>1. PICK n \in 0 .. Len(inbox) : inbox' = SubSeq(inbox, 1, n)
    BY <1>3 DEF Drop
  <2>2. inbox' \in Seq(Strays) /\ Len(inbox') = n
    BY <1>0, <2>1
  <2>3. QED
    BY <1>0, <1>3, <2>2 DEF Drop, Conn, TypeOK
<1>4. CASE Receive
  <2>1. Head(inbox) \in Strays /\ Tail(inbox) \in Seq(Strays) /\ Len(Tail(inbox)) <= MaxInbox
    BY <1>0, <1>4 DEF Receive
  <2>2. config' \in Rows \cup {NoRow} /\ out' \in {"nothing", "config_rejected"}
    BY <1>4, <2>1, AcceptsUsable DEF Receive, OnMqttMessage, TypeOK
  <2>3. QED
    BY <1>4, <2>1, <2>2 DEF Receive, TypeOK
<1>5. CASE Hello
  <2>1. hellos' \in 0 .. MaxHellos
    BY <1>5 DEF Hello, TypeOK
  <2>2. QED
    BY <1>1, <1>5, <2>1 DEF Hello, TypeOK
<1>6. CASE Reconnect \/ SendTelemetry \/ SendEvent
  BY <1>1, <1>6 DEF Reconnect, SendTelemetry, SendEvent, TypeOK
<1>7. CASE Interval
  BY <1>7 DEF Interval, TypeOK
<1>8. CASE Boot
  <2>1. conn' \in Conn /\ faults' \in 0 .. MaxFaults
    BY <1>8 DEF Boot, Conn, TypeOK
  <2>2. inbox' \in Seq(Strays) /\ Len(inbox') <= MaxInbox
    BY <1>8 DEF Boot
  <2>3. QED
    BY <1>8, <2>1, <2>2 DEF Boot, ForgetsConfig, TypeOK
<1>9. CASE OnHello
  <2>1. hellos' \in 0 .. MaxHellos /\ faults' \in 0 .. MaxFaults
    BY <1>9 DEF OnHello, TypeOK
  <2>2. recorded' \subseteq {"current_status", "unknown_devices"}
    BY <1>9 DEF OnHello, Records, TypeOK
  <2>3. QED
    BY <1>9, <2>1, <2>2 DEF OnHello, TypeOK
<1>10. CASE Publish
  <2>1. BuildConfig(reply) \in Strays
    BY <1>10, ConfigIsStray DEF Publish, TypeOK
  <2>2. inbox' \in Seq(Strays) /\ Len(inbox') <= MaxInbox
    BY <1>0, <1>10, <2>1 DEF Publish
  <2>3. QED
    BY <1>10, <2>2 DEF Publish, TypeOK
<1>11. CASE Refresh
  BY <1>11 DEF Refresh, TypeOK
<1>12. CASE \E row \in Rows \cup {NoRow} : Edit(row)
  BY <1>2, <1>12 DEF Edit, TypeOK
<1>13. CASE QueryFails
  <2>1. faults' \in 0 .. MaxFaults /\ out' = "nothing"
    BY <1>2, <1>13 DEF QueryFails, TypeOK
  <2>2. QED
    BY <1>13, <2>1 DEF QueryFails, TypeOK
<1>14. CASE ServiceRestarts
  <2>1. hellos' \in 0 .. MaxHellos
    BY <1>14 DEF ServiceRestarts
  <2>2. up' \subseteq {"link", "broker", "db"}
    BY <1>14 DEF ServiceRestarts, TypeOK
  <2>3. QED
    BY <1>2, <1>14, <2>1, <2>2 DEF ServiceRestarts, TypeOK
<1>15. CASE LinkChanges \/ DatabaseLost
  <2>1. up' \subseteq {"link", "broker", "db"}
    BY <1>15 DEF LinkChanges, DatabaseLost, TypeOK
  <2>2. QED
    BY <1>2, <1>15, <2>1 DEF LinkChanges, DatabaseLost, TypeOK
<1>16. CASE BrokerStops \/ SessionDrops
  <2>1. conn' \in Conn /\ inbox' \in Seq(Strays) /\ Len(inbox') <= MaxInbox
    BY <1>3, <1>16 DEF BrokerStops, SessionDrops
  <2>2. faults' \in 0 .. MaxFaults /\ out' = "nothing" /\ hellos' \in 0 .. MaxHellos
    BY <1>2, <1>16 DEF BrokerStops, SessionDrops, TypeOK
  <2>3. QED
    BY <1>16, <2>1, <2>2 DEF BrokerStops, SessionDrops, Drop, TypeOK
<1>17. CASE BrokerStarts
  <2>1. up' \subseteq {"link", "broker", "db"}
    BY <1>17 DEF BrokerStarts, TypeOK
  <2>2. QED
    BY <1>17, <2>1 DEF BrokerStarts, TypeOK
<1>18. CASE SessionEnds
  <2>1. inbox' \in Seq(Strays) /\ Len(inbox') <= MaxInbox /\ conn' \in Conn
    BY <1>18 DEF SessionEnds, Conn
  <2>2. QED
    BY <1>18, <2>1 DEF SessionEnds, TypeOK
<1>19. CASE \E m \in Strays : Stray(m)
  <2>1. inbox' \in Seq(Strays) /\ Len(inbox') <= MaxInbox
    BY <1>0, <1>19 DEF Stray
  <2>2. offered' \cup foreign' \subseteq Rows
    BY <1>19 DEF Stray, TypeOK
  <2>3. QED
    BY <1>2, <1>19, <2>1, <2>2 DEF Stray, TypeOK
<1>20. CASE UNCHANGED vars
  BY <1>20 DEF vars, TypeOK
<1>21. QED
  BY <1>4, <1>5, <1>6, <1>7, <1>8, <1>9, <1>10, <1>11, <1>12, <1>13, <1>14,
     <1>15, <1>16, <1>17, <1>18, <1>19, <1>20
     DEF Next, Controller, Provisioning, Environment

\* The variables keep to their ranges; no queue outgrows its bound.
THEOREM Typing == Spec => []TypeOK
  BY InitTypeOK, StepTypeOK, PTL DEF Spec

-----------------------------------------------------------------------------
(* Nothing outlives a boot but what the service knows *)

\* What the service holds and what it has answered was offered since the boot; what is
\* queued was, or others have sent it since the boot, or it will be refused.
OfferInv ==
  /\ copy \in offered \cup {NoRow} /\ reply \in offered \cup {NoRow}
  /\ \A i \in 1 .. Len(inbox) : Accepts(inbox[i]) => inbox[i].row \in offered \cup foreign
  /\ OnlyOffered
  /\ TelemetryGranted

LEMMA InitOfferInv == Init => OfferInv
<1> SUFFICES ASSUME Init PROVE OfferInv
  OBVIOUS
<1>1. Len(inbox) = 0
  BY DEF Init
<1>2. QED
  BY <1>1 DEF Init, OfferInv, OnlyOffered, TelemetryGranted

LEMMA StepOfferInv == TypeOK /\ OfferInv /\ [Next]_vars => OfferInv'
<1> SUFFICES ASSUME TypeOK, OfferInv, [Next]_vars PROVE OfferInv'
  OBVIOUS
<1> USE SessionAssumption DEF controller, service, env, history, OnlyOffered, TelemetryGranted
<1>0. inbox \in Seq(Strays) /\ Len(inbox) \in Nat
  BY DEF TypeOK
\* Actions that leave the rows and the queue alone, and publish no telemetry.
<1>1. ASSUME UNCHANGED <<copy, reply, inbox, config, history>>, out' # "telemetry"
      PROVE  OfferInv'
  BY <1>1 DEF OfferInv
<1>2. CASE Receive
  <2>1. /\ inbox[1] \in Strays /\ Head(inbox) = inbox[1] /\ 1 \in 1 .. Len(inbox)
        /\ \A i \in 1 .. Len(inbox') : inbox'[i] = inbox[i + 1] /\ i + 1 \in 1 .. Len(inbox)
    BY <1>0, <1>2 DEF Receive
  <2>2. \A i \in 1 .. Len(inbox') : Accepts(inbox'[i]) => inbox'[i].row \in offered' \cup foreign'
    BY <1>2, <2>1 DEF Receive, OfferInv
  <2>3. OnlyOffered'
    <3>1. CASE Accepts(Head(inbox))
      <4>1. config' = Head(inbox).row
        BY <1>2, <3>1 DEF Receive, OnMqttMessage
      <4>2. QED
        BY <1>2, <2>1, <3>1, <4>1, AcceptsUsable DEF Receive, OfferInv, Usable
    <3>2. CASE ~Accepts(Head(inbox))
      BY <1>2, <3>2 DEF Receive, OnMqttMessage, OfferInv, Usable
    <3>3. QED
      BY <3>1, <3>2
  <2>4. out' # "telemetry"
    BY <1>2 DEF Receive, OnMqttMessage
  <2>5. QED
    BY <1>2, <2>2, <2>3, <2>4 DEF Receive, OfferInv
<1>3. CASE SendTelemetry
  <2>1. config \in offered \cup foreign /\ config.enabled
    BY <1>3 DEF SendTelemetry, Gate, OfferInv
  <2>2. UNCHANGED <<copy, reply, inbox, config, history>>
    BY <1>3 DEF SendTelemetry
  <2>3. QED
    BY <2>1, <2>2 DEF OfferInv, Usable
<1>4. CASE Reconnect \/ Hello \/ Interval \/ SendEvent
  BY <1>1, <1>4 DEF Reconnect, Hello, Interval, SendEvent
<1>5. CASE Boot
  <2>1. Len(inbox') = 0 /\ config' = NoRow /\ out' = "nothing"
    BY <1>5 DEF Boot, ForgetsConfig
  <2>2. copy' \in offered' \cup {NoRow} /\ reply' \in offered' \cup {NoRow}
    BY <1>5 DEF Boot
  <2>3. QED
    BY <2>1, <2>2 DEF OfferInv
<1>6. CASE OnHello
  BY <1>6 DEF OnHello, OfferInv, Usable
<1>7. CASE Publish
  <2>1. BuildConfig(reply).row = reply /\ reply \in offered
    BY <1>7 DEF Publish, OfferInv, BuildConfig, ConfigFor
  <2>2. BuildConfig(reply) \in Strays
    BY <1>7, ConfigIsStray DEF Publish, TypeOK
  <2>3. \A i \in 1 .. Len(inbox') : inbox'[i] = BuildConfig(reply) \/ (i \in 1 .. Len(inbox) /\ inbox'[i] = inbox[i])
    BY <1>0, <1>7, <2>2 DEF Publish
  <2>4. UNCHANGED <<copy, config, history>> /\ reply' = NoRow /\ out' = "nothing"
    BY <1>7 DEF Publish
  <2>5. QED
    BY <2>1, <2>3, <2>4 DEF OfferInv, Usable
<1>8. CASE Refresh
  <2>1. offered \subseteq offered' /\ copy' \in offered' \cup {NoRow} /\ out' = "nothing"
    BY <1>8 DEF Refresh
  <2>2. UNCHANGED <<inbox, reply, config, foreign>>
    BY <1>8 DEF Refresh
  <2>3. QED
    BY <2>1, <2>2 DEF OfferInv, Usable
<1>9. CASE (\E row \in Rows \cup {NoRow} : Edit(row)) \/ LinkChanges \/ BrokerStarts
           \/ DatabaseLost
  BY <1>1, <1>9 DEF Edit, LinkChanges, BrokerStarts, DatabaseLost, Fault
<1>10. CASE QueryFails \/ ServiceRestarts
  BY <1>10 DEF QueryFails, ServiceRestarts, Fault, OfferInv, Usable
<1>11. CASE BrokerStops \/ SessionDrops
  <2>1. PICK n \in 0 .. Len(inbox) : inbox' = SubSeq(inbox, 1, n)
    BY <1>11 DEF BrokerStops, SessionDrops, Drop
  <2>2. \A i \in 1 .. Len(inbox') : i \in 1 .. Len(inbox) /\ inbox'[i] = inbox[i]
    BY <1>0, <2>1
  <2>3. UNCHANGED <<copy, reply, config, history>> /\ out' = "nothing"
    BY <1>11 DEF BrokerStops, SessionDrops, Drop, Fault
  <2>4. QED
    BY <2>2, <2>3 DEF OfferInv, Usable
<1>12. CASE SessionEnds
  <2>1. Len(inbox') = 0 /\ UNCHANGED <<copy, reply, config, history>> /\ out' = "nothing"
    BY <1>12 DEF SessionEnds
  <2>2. QED
    BY <2>1 DEF OfferInv, Usable
<1>13. CASE \E m \in Strays : Stray(m)
  <2>1. PICK m \in Strays : Stray(m)
    BY <1>13
  <2>2. Accepts(m) => m.row \in foreign'
    <3>1. ASSUME Accepts(m) PROVE m.row \in Rows /\ m = BuildConfig(m.row)
      BY <3>1, AcceptsUsable
    <3>2. QED
      BY <2>1, <3>1 DEF Stray
  <2>3. \A i \in 1 .. Len(inbox') : inbox'[i] = m \/ (i \in 1 .. Len(inbox) /\ inbox'[i] = inbox[i])
    BY <1>0, <2>1 DEF Stray
  <2>4. UNCHANGED <<copy, reply, config, offered>> /\ foreign \subseteq foreign' /\ out' = "nothing"
    BY <2>1 DEF Stray, Fault
  <2>5. QED
    BY <2>2, <2>3, <2>4 DEF OfferInv, Usable
<1>14. CASE UNCHANGED vars
  BY <1>14 DEF vars, OfferInv, Usable
<1>15. QED
  BY <1>2, <1>3, <1>4, <1>5, <1>6, <1>7, <1>8, <1>9, <1>10, <1>11, <1>12, <1>13, <1>14
     DEF Next, Controller, Provisioning, Environment

\* A controller runs only on a usable row that the service has offered, or that others
\* have sent it, since its last boot, however messages were lost or delayed.
THEOREM ConfigIsFresh == Spec => []OnlyOffered
<1>1. Init => TypeOK /\ OfferInv
  BY InitTypeOK, InitOfferInv
<1>2. TypeOK /\ OfferInv /\ [Next]_vars => (TypeOK /\ OfferInv)'
  BY StepTypeOK, StepOfferInv
<1>3. OfferInv => OnlyOffered
  BY DEF OfferInv
<1>4. QED
  BY <1>1, <1>2, <1>3, PTL DEF Spec

\* Nothing is published as telemetry by a controller that was offered no enabled row since
\* its boot, and sent none by others.
THEOREM TelemetryIsGranted == Spec => []TelemetryGranted
<1>1. Init => TypeOK /\ OfferInv
  BY InitTypeOK, InitOfferInv
<1>2. TypeOK /\ OfferInv /\ [Next]_vars => (TypeOK /\ OfferInv)'
  BY StepTypeOK, StepOfferInv
<1>3. OfferInv => TelemetryGranted
  BY DEF OfferInv
<1>4. QED
  BY <1>1, <1>2, <1>3, PTL DEF Spec
=============================================================================
