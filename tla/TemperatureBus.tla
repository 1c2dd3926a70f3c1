--------------------------- MODULE TemperatureBus ---------------------------
(***************************************************************************)
(* The sampler of TemperatureBus.cpp, driven by loop(), and what telemetry *)
(* makes of its readings.  Both buses are requested and read in the same   *)
(* passes and in the same way; this is one of them.                        *)
(*                                                                         *)
(* A reading stands for the time since it was measured.  Stamps of         *)
(* millis() are kept as distances from the present: a stamp is the now of  *)
(* its pass, taken before net.loop(), net.hello() and ota.tick(), any of   *)
(* which may block the pass before tick(now) runs.                         *)
(***************************************************************************)
EXTENDS Integers, FiniteSets

CONSTANTS
  Sensor,       \* the sensors there are: numbers, in the order of their ROMs
  Slots,        \* SENSORS_PER_BUS
  Conversion,   \* CONVERSION_MS
  Needs,        \* what a sensor takes to convert
  Sample,       \* SAMPLE_PERIOD_MS
  MaxBlock,     \* longest time from the now of a pass to tick(now)
  MaxGap,       \* longest time from there to the next pass
  MaxPlugs      \* bound of the environment

ASSUME BusAssumption ==
  /\ Sensor \subseteq Nat /\ IsFiniteSet(Sensor)
  /\ Slots \in Nat /\ MaxBlock \in Nat /\ MaxGap \in Nat /\ MaxPlugs \in Nat
  /\ Conversion \in Nat /\ Needs \in 1 .. Conversion /\ Sample \in Nat /\ Conversion <= Sample

\* What is not a reading: none, the value of a sensor that has not converted
\* since it got power (85 degrees), that of one that does not answer (-127).
NaN == -1
PowerOn == -2
Disconnected == -3

VARIABLES
  present,      \* the sensors on the bus
  pad,          \* what each holds
  converting,   \* those that were there at the last request and have not finished
  converted,    \* time since that request, up to what a conversion takes
  state,        \* _state
  count,        \* the device count of the last scan
  temps,        \* the readings kept, by index
  requested,    \* since _lastRequestMs
  sampled,      \* since _lastSampleMs; no sample yet counts as one that is due
  phase,        \* "pass" from now = millis() to tick(now), else "rest"
  lag, gap,     \* since the now of the pass; since its tick(now)
  plugs,
  quiet         \* history: since a sensor was last plugged or unplugged, up to Settled + 1

sensors == <<present, pad, converting, converted>>
vars == <<sensors, state, count, temps, requested, sampled, phase, lag, gap, plugs, quiet>>

Index == 0 .. Slots - 1

Init ==
  /\ present \in SUBSET Sensor /\ pad = [s \in Sensor |-> PowerOn]
  /\ converting = {} /\ converted = Needs
  /\ state = "IDLE" /\ count = Cardinality(present) /\ temps = [i \in Index |-> NaN]
  /\ requested = 0 /\ sampled = Sample
  /\ phase = "rest" /\ lag = 0 /\ gap = 0 /\ plugs = 0 /\ quiet = 0

-----------------------------------------------------------------------------
(* tick(now) *)

Pass ==
  /\ phase = "rest" /\ phase' = "pass"
  /\ lag' = 0 /\ gap' = 0
  /\ UNCHANGED <<sensors, state, count, temps, requested, sampled, plugs, quiet>>

\* The end of the handler, with the rest of the pass.
Done == phase' = "rest" /\ UNCHANGED <<present, lag, gap, plugs, quiet>>

\* Mutants: the bus is scanned at boot only; a scan adds to the count of the last.
ScansOnce == count
CountsAgain == count + Cardinality(present)

\* scanBuses: how many answer.
Scanned == Cardinality(present)

SampleDue == sampled - lag >= Sample

\* IDLE: scan, and request a conversion of all that are there.
Request ==
  /\ phase = "pass" /\ state = "IDLE" /\ SampleDue
  /\ count' = Scanned
  /\ converting' = present /\ converted' = 0
  /\ requested' = lag /\ state' = "REQUESTED"
  /\ Done /\ UNCHANGED <<pad, temps, sampled>>

ConversionDue == requested - lag >= Conversion

\* REQUESTED: the readings are taken in the next pass.
Ready ==
  /\ phase = "pass" /\ state = "REQUESTED" /\ ConversionDue
  /\ state' = "READ_READY"
  /\ Done /\ UNCHANGED <<pad, converting, converted, count, temps, requested, sampled>>

\* The place of a sensor on the bus, found anew at each read.
Rank(s) == Cardinality({t \in present : t < s})

\* getTempCByIndex: what the sensor in that place holds, if there is one.
Raw(i) ==
  IF \E s \in present : Rank(s) = i THEN pad[CHOOSE s \in present : Rank(s) = i] ELSE Disconnected

\* Mutant: an index that did not answer keeps its last reading.
KeepsOld(i) == IF i < count /\ Raw(i) # Disconnected THEN Raw(i) ELSE temps[i]

\* readTemperatures, for one index.
Reading(i) == IF i < count /\ Raw(i) # Disconnected THEN Raw(i) ELSE NaN

\* READ_READY
Read ==
  /\ phase = "pass" /\ state = "READ_READY"
  /\ temps' = [i \in Index |-> Reading(i)]
  /\ sampled' = lag /\ state' = "IDLE"
  /\ Done /\ UNCHANGED <<pad, converting, converted, count, requested>>

\* Nothing is due.
Nothing ==
  /\ phase = "pass"
  /\ \/ state = "IDLE" /\ ~SampleDue
     \/ state = "REQUESTED" /\ ~ConversionDue
  /\ Done /\ UNCHANGED <<pad, converting, converted, state, count, temps, requested, sampled>>

Tick == Request \/ Ready \/ Read \/ Nothing

-----------------------------------------------------------------------------
(* The sensors and time *)

\* Longest time from the now of a pass to that of the next one, and from one
\* request or one read to the next.
Period == MaxBlock + MaxGap
Cycle == Sample + Conversion + 3 * Period + MaxBlock

\* Until the sensors that are there are reported: the next request finds them,
\* and the read that follows the one after finds the conversion of the first.
Settled == 2 * Cycle + Conversion + 2 * Period

\* appendTempArray: what a message says of a reading.
Shown(v) == IF v \in {NaN, PowerOn} THEN "null" ELSE "number"

Plug(s) ==
  /\ s \notin present /\ plugs < MaxPlugs /\ plugs' = plugs + 1 /\ quiet' = 0
  /\ present' = present \cup {s}
  /\ UNCHANGED <<pad, converting, converted, state, count, temps, requested, sampled, phase, lag, gap>>

Unplug(s) ==
  /\ s \in present /\ plugs < MaxPlugs /\ plugs' = plugs + 1 /\ quiet' = 0
  /\ present' = present \ {s} /\ converting' = converting \ {s}
  /\ pad' = [pad EXCEPT ![s] = PowerOn]
  /\ UNCHANGED <<converted, state, count, temps, requested, sampled, phase, lag, gap>>

Older(v) == IF v >= 0 THEN v + 1 ELSE v

\* A unit of time: a conversion that is through puts a new value in the pad.
Elapse ==
  /\ IF phase = "pass" THEN lag < MaxBlock ELSE gap < MaxGap
  /\ lag' = lag + 1 /\ gap' = IF phase = "rest" THEN gap + 1 ELSE 0
  /\ requested' = requested + 1 /\ sampled' = sampled + 1
  /\ quiet' = IF quiet <= Settled THEN quiet + 1 ELSE quiet
  /\ converted' = IF converted < Needs THEN converted + 1 ELSE Needs
  /\ temps' = [i \in Index |-> Older(temps[i])]
  /\ IF converted' = Needs
     THEN /\ pad' = [s \in Sensor |-> IF s \in converting THEN 0 ELSE Older(pad[s])]
          /\ converting' = {}
     ELSE pad' = [s \in Sensor |-> Older(pad[s])] /\ UNCHANGED converting
  /\ UNCHANGED <<present, state, count, phase, plugs>>

Next == Pass \/ Tick \/ (\E s \in Sensor : Plug(s) \/ Unplug(s)) \/ Elapse

\* loop() is run over and over, and time passes.
Fairness == WF_vars(Pass) /\ WF_vars(Tick) /\ WF_vars(Elapse)

Spec == Init /\ [][Next]_vars /\ Fairness

-----------------------------------------------------------------------------
(* Properties *)

\* The kinds of values and the ranges of the clocks (TemperatureBus.h).
Value == {NaN, PowerOn, Disconnected} \cup Nat
TypeOK ==
  /\ present \subseteq Sensor /\ converting \subseteq present /\ pad \in [Sensor -> Value]
  /\ state \in {"IDLE", "REQUESTED", "READ_READY"} /\ count \in 0 .. Cardinality(Sensor)
  /\ temps \in [Index -> Value]
  /\ phase \in {"pass", "rest"} /\ lag \in 0 .. Period /\ gap \in 0 .. MaxGap
  /\ converted \in 0 .. Needs /\ requested \in Nat /\ sampled \in Nat /\ plugs \in 0 .. MaxPlugs
  /\ quiet \in 0 .. Settled + 1

\* What telemetry says is a temperature was measured, and not long ago: neither
\* the value of a sensor that has just got power nor that of one that has gone,
\* nor one kept for ever, however the passes are delayed (readTemperatures and
\* appendTempArray).
FreshReadings ==
  \A i \in Index : Shown(temps[i]) = "number" => temps[i] \in 0 .. 2 * Cycle

\* Sensors added after boot are discovered (scanBuses) and those that went are
\* reported no more, in bounded time however the passes are delayed: once nobody
\* has plugged for that long, a message tells as many temperatures as there are
\* sensors, first those and then none.
SensorsReported ==
  quiet > Settled =>
    \A i \in Index : Shown(temps[i]) = (IF i < Cardinality(present) THEN "number" ELSE "null")

\* A read finds the conversion it waited for complete, as the comment of
\* CONVERSION_MS has it.
ReadsThisConversion ==
  [][state = "READ_READY" /\ state' = "IDLE" => converted = Needs]_vars
=============================================================================
