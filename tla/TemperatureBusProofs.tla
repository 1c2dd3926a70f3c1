------------------------ MODULE TemperatureBusProofs ------------------------
(***************************************************************************)
(* Typing of the sampler, and that what is reported as a temperature is    *)
(* fresh.  The argument: a request, the read of it and the next request    *)
(* follow each other within a Cycle, whatever delays the passes (Timed);   *)
(* so what a sensor holds is at most one Cycle old when it is read, even   *)
(* if the read is early and finds the conversion before (Held), and what   *)
(* was read is kept for at most another Cycle (Kept).                      *)
(***************************************************************************)
EXTENDS TemperatureBus, FiniteSetTheorems, TLAPS

LEMMA Constants ==
  /\ Slots \in Nat /\ MaxBlock \in Nat /\ MaxGap \in Nat /\ MaxPlugs \in Nat
  /\ Conversion \in Nat /\ Needs \in Nat /\ Sample \in Nat
  /\ 1 <= Needs /\ Needs <= Conversion /\ Conversion <= Sample
  /\ Period \in Nat /\ Cycle \in Nat /\ Settled \in Nat
  /\ Sensor \subseteq Nat /\ IsFiniteSet(Sensor) /\ Cardinality(Sensor) \in Nat
<1>1. Cardinality(Sensor) \in Nat
  BY BusAssumption, FS_CardinalityType
<1> QED
  BY <1>1, BusAssumption DEF Period, Cycle, Settled

\* A set of sensors can be counted, and there are not more than there are.
LEMMA Counted ==
  ASSUME NEW P \in SUBSET Sensor
  PROVE  Cardinality(P) \in 0 .. Cardinality(Sensor)
<1>1. IsFiniteSet(P) /\ Cardinality(P) \in Nat /\ Cardinality(P) <= Cardinality(Sensor)
  BY BusAssumption, FS_Subset, FS_CardinalityType
<1> QED
  BY <1>1, Constants

\* What an index reads is what a sensor on the bus holds, or that there is none.
LEMMA RawIsHeld ==
  ASSUME NEW i \in Index
  PROVE  Raw(i) = Disconnected \/ \E s \in present : Raw(i) = pad[s]
<1>1. CASE \E s \in present : Rank(s) = i
  <2>1. (CHOOSE s \in present : Rank(s) = i) \in present
    BY <1>1
  <2> QED
    BY <1>1, <2>1 DEF Raw
<1>2. CASE ~\E s \in present : Rank(s) = i
  BY <1>2 DEF Raw
<1> QED
  BY <1>1, <1>2

-----------------------------------------------------------------------------
\* A pass ticks within MaxBlock of its now, and the next follows within MaxGap.
Driven == lag <= MaxBlock + gap /\ (phase = "pass" => gap = 0)

Typed == TypeOK /\ Driven

LEMMA InitTyped == Init => Typed
<1> SUFFICES ASSUME Init PROVE Typed
  OBVIOUS
<1> USE Constants
<1>1. Cardinality(present) \in 0 .. Cardinality(Sensor)
  BY Counted DEF Init
<1>2. pad \in [Sensor -> Value] /\ temps \in [Index -> Value]
  BY DEF Init, Value, Index
<1> QED
  BY <1>1, <1>2 DEF Init, Typed, TypeOK, Driven

LEMMA StepTyped == Typed /\ [Next]_vars => Typed'
<1> SUFFICES ASSUME Typed, [Next]_vars PROVE Typed'
  OBVIOUS
<1> USE Constants DEF Typed, TypeOK, Driven
<1>1. CASE Pass
  BY <1>1 DEF Pass, sensors
<1>2. CASE Request
  <2>1. Cardinality(present) \in 0 .. Cardinality(Sensor)
    BY Counted
  <2> QED
    BY <1>2, <2>1 DEF Request, Done, Scanned
<1>3. CASE Ready
  BY <1>3 DEF Ready, Done
<1>4. CASE Read
  <2>1. \A i \in Index : Reading(i) \in Value
    <3> SUFFICES ASSUME NEW i \in Index PROVE Reading(i) \in Value
      OBVIOUS
    <3>1. Raw(i) \in Value
      BY RawIsHeld DEF Value
    <3> QED
      BY <3>1 DEF Reading, Value
  <2>2. temps' \in [Index -> Value]
    BY <1>4, <2>1 DEF Read
  <2> QED
    BY <1>4, <2>2 DEF Read, Done
<1>5. CASE Nothing
  BY <1>5 DEF Nothing, Done
<1>6. ASSUME NEW s \in Sensor, Plug(s) PROVE Typed'
  BY <1>6 DEF Plug
<1>7. ASSUME NEW s \in Sensor, Unplug(s) PROVE Typed'
  <2>1. pad' \in [Sensor -> Value]
    BY <1>7 DEF Unplug, Value
  <2> QED
    BY <1>7, <2>1 DEF Unplug
<1>8. CASE Elapse
  <2>1. \A v \in Value : Older(v) \in Value
    BY DEF Older, Value, NaN, PowerOn, Disconnected
  <2>2. pad' \in [Sensor -> Value] /\ converting' \subseteq present
    <3>1. 0 \in Value
      BY DEF Value
    <3> QED
      BY <1>8, <2>1, <3>1 DEF Elapse
  <2>3. temps' \in [Index -> Value]
    BY <1>8, <2>1 DEF Elapse
  <2>4. converted' \in 0 .. Needs
    BY <1>8 DEF Elapse
  <2>5. lag' \in 0 .. Period /\ gap' \in 0 .. MaxGap
    BY <1>8 DEF Elapse, Period
  <2> QED
    BY <1>8, <2>2, <2>3, <2>4, <2>5 DEF Elapse
<1>9. CASE UNCHANGED vars
  BY <1>9 DEF vars, sensors
<1> QED
  BY <1>1, <1>2, <1>3, <1>4, <1>5, <1>6, <1>7, <1>8, <1>9 DEF Next, Tick

\* Every variable of the sampler keeps its kind of value; a pass is never behind
\* its now by more than a period (TemperatureBus.h, loop).
THEOREM Typing == Spec => []TypeOK
<1>1. Spec => []Typed
  BY InitTyped, StepTyped, PTL DEF Spec
<1>2. Typed => TypeOK
  BY DEF Typed
<1> QED
  BY <1>1, <1>2, PTL

-----------------------------------------------------------------------------
\* What has passed since the last tick, at most, in a pass and after it.
Waited == IF phase = "pass" THEN Period ELSE 0

\* The sampler does not linger in a state.
Timed ==
  /\ state = "IDLE" =>
       /\ sampled <= lag + Sample + Waited
       /\ requested <= sampled + Conversion + 2 * Period
  /\ state = "REQUESTED" =>
       /\ requested <= lag + Conversion + Waited
       /\ sampled <= requested + Sample + Period
  /\ state = "READ_READY" =>
       /\ requested <= lag + Conversion + Period + Waited
       /\ sampled <= requested + Sample + Period

\* A conversion that runs has been requested before this pass and, in IDLE,
\* before the pass of the last read.
Running ==
  converting # {} =>
    /\ converted < Needs /\ converted <= requested
    /\ state = "IDLE" => sampled <= converted
    /\ phase = "pass" => lag <= converted

\* What the sensors hold: of those that convert the value of the conversion
\* before, of the others that of the last request or that of power-on.
Held ==
  /\ \A s \in Sensor \ present : pad[s] = PowerOn
  /\ \A s \in present : pad[s] \in Nat =>
       IF s \in converting THEN pad[s] + Needs <= Cycle + converted
                          ELSE pad[s] + Needs <= requested

\* What was read was not older than a Cycle then.
Kept == \A i \in Index : temps[i] # Disconnected /\ (temps[i] \in Nat => temps[i] <= Cycle + sampled)

Fresh == Typed /\ Timed /\ Running /\ Held /\ Kept

\* Two requests, and two reads, are at most a Cycle apart.
LEMMA WithinCycle ==
  ASSUME Typed, Timed
  PROVE  requested <= Cycle /\ sampled <= Cycle
<1> USE Constants DEF Typed, TypeOK, Driven, Timed, Waited, Period, Cycle
<1>1. CASE state = "IDLE"
  BY <1>1
<1>2. CASE state = "REQUESTED"
  BY <1>2
<1>3. CASE state = "READ_READY"
  BY <1>3
<1> QED
  BY <1>1, <1>2, <1>3

LEMMA InitFresh == Init => Fresh
<1> SUFFICES ASSUME Init PROVE Fresh
  OBVIOUS
<1> USE Constants
<1>1. Typed
  BY InitTyped
<1>2. Timed /\ Running
  BY DEF Init, Timed, Running, Waited
<1>3. Held
  BY DEF Init, Held, PowerOn
<1>4. Kept
  BY DEF Init, Kept, NaN, Disconnected
<1> QED
  BY <1>1, <1>2, <1>3, <1>4 DEF Fresh

LEMMA StepTimed == Typed /\ Timed /\ [Next]_vars => Timed'
<1> SUFFICES ASSUME Typed, Timed, [Next]_vars PROVE Timed'
  OBVIOUS
<1> USE Constants DEF Typed, TypeOK, Driven, Timed, Waited
<1>1. CASE Pass
  BY <1>1 DEF Pass, Period
<1>2. CASE Request
  BY <1>2 DEF Request, Done, SampleDue
<1>3. CASE Ready
  BY <1>3 DEF Ready, Done, ConversionDue
<1>4. CASE Read
  BY <1>4 DEF Read, Done
<1>5. CASE Nothing
  BY <1>5 DEF Nothing, Done, SampleDue, ConversionDue
<1>6. ASSUME NEW s \in Sensor, Plug(s) \/ Unplug(s) PROVE Timed'
  BY <1>6 DEF Plug, Unplug
<1>7. CASE Elapse
  BY <1>7 DEF Elapse
<1>8. CASE UNCHANGED vars
  BY <1>8 DEF vars, sensors
<1> QED
  BY <1>1, <1>2, <1>3, <1>4, <1>5, <1>6, <1>7, <1>8 DEF Next, Tick

LEMMA StepRunning == Typed /\ Timed /\ Running /\ [Next]_vars => Running'
<1> SUFFICES ASSUME Typed, Timed, Running, [Next]_vars PROVE Running'
  OBVIOUS
<1> USE Constants DEF Typed, TypeOK, Driven, Running
<1>1. CASE Pass
  BY <1>1 DEF Pass, sensors
<1>2. CASE Request
  BY <1>2 DEF Request, Done
<1>3. CASE Ready
  BY <1>3 DEF Ready, Done
<1>4. CASE Read
  BY <1>4 DEF Read, Done
<1>5. CASE Nothing
  BY <1>5 DEF Nothing, Done
<1>6. ASSUME NEW s \in Sensor, Plug(s) PROVE Running'
  BY <1>6 DEF Plug
<1>7. ASSUME NEW s \in Sensor, Unplug(s) PROVE Running'
  BY <1>7 DEF Unplug
<1>8. CASE Elapse
  <2>1. converting' # {} => converting # {} /\ converted' = converted + 1 /\ converted' < Needs
    BY <1>8 DEF Elapse
  <2> QED
    BY <1>8, <2>1 DEF Elapse
<1>9. CASE UNCHANGED vars
  BY <1>9 DEF vars, sensors
<1> QED
  BY <1>1, <1>2, <1>3, <1>4, <1>5, <1>6, <1>7, <1>8, <1>9 DEF Next, Tick

LEMMA StepHeld == Typed /\ Timed /\ Running /\ Held /\ [Next]_vars => Held'
<1> SUFFICES ASSUME Typed, Timed, Running, Held, [Next]_vars PROVE Held'
  OBVIOUS
<1> USE Constants DEF Typed, TypeOK, Held
<1>1. CASE Pass
  BY <1>1 DEF Pass, sensors
<1>2. CASE Request
  <2>1. converting = {}
    BY <1>2 DEF Request, SampleDue, Running
  <2>2. requested <= Cycle
    BY WithinCycle
  <2>3. ASSUME NEW s \in present, pad[s] \in Nat PROVE pad[s] + Needs <= Cycle
    BY <2>1, <2>2, <2>3
  <2> QED
    BY <1>2, <2>3 DEF Request, Done
<1>3. CASE Ready
  BY <1>3 DEF Ready, Done
<1>4. CASE Read
  BY <1>4 DEF Read, Done
<1>5. CASE Nothing
  BY <1>5 DEF Nothing, Done
<1>6. ASSUME NEW s \in Sensor, Plug(s) PROVE Held'
  BY <1>6 DEF Plug, PowerOn
<1>7. ASSUME NEW s \in Sensor, Unplug(s) PROVE Held'
  BY <1>7 DEF Unplug, PowerOn
<1>8. CASE Elapse
  <2>1. ASSUME NEW s \in Sensor \ present PROVE pad'[s] = PowerOn
    BY <1>8, <2>1 DEF Elapse, Older, PowerOn
  <2>2. ASSUME NEW s \in present, pad'[s] \in Nat
        PROVE  IF s \in converting' THEN pad'[s] + Needs <= Cycle + converted'
                                    ELSE pad'[s] + Needs <= requested'
    <3>1. s \in Sensor /\ pad[s] \in Value
      OBVIOUS
    <3>2. CASE s \in converting /\ converted' = Needs
      <4>1. pad'[s] = 0 /\ s \notin converting'
        BY <1>8, <3>1, <3>2 DEF Elapse
      <4>2. converted + 1 = Needs /\ converted <= requested /\ requested' = requested + 1
        BY <1>8, <3>2 DEF Elapse, Running
      <4> QED
        BY <4>1, <4>2
    <3>3. CASE ~(s \in converting /\ converted' = Needs)
      <4>1. pad'[s] = Older(pad[s]) /\ (s \in converting' <=> s \in converting)
        BY <1>8, <3>1, <3>3 DEF Elapse
      <4>2. pad[s] \in Nat /\ pad'[s] = pad[s] + 1
        BY <2>2, <3>1, <4>1 DEF Older, Value, NaN, PowerOn, Disconnected
      <4>3. requested' = requested + 1 /\ (s \in converting => converted' = converted + 1)
        BY <1>8 DEF Elapse, Running
      <4> QED
        BY <4>1, <4>2, <4>3
    <3> QED
      BY <3>2, <3>3
  <2> QED
    BY <1>8, <2>1, <2>2 DEF Elapse
<1>9. CASE UNCHANGED vars
  BY <1>9 DEF vars, sensors
<1> QED
  BY <1>1, <1>2, <1>3, <1>4, <1>5, <1>6, <1>7, <1>8, <1>9 DEF Next, Tick

LEMMA StepKept == Fresh /\ [Next]_vars => Kept'
<1> SUFFICES ASSUME Fresh, [Next]_vars PROVE Kept'
  OBVIOUS
<1> USE Constants DEF Fresh, Typed, TypeOK, Kept
<1>1. CASE Pass
  BY <1>1 DEF Pass
<1>2. CASE Request
  BY <1>2 DEF Request, Done
<1>3. CASE Ready
  BY <1>3 DEF Ready, Done
<1>4. CASE Read
  <2>1. ASSUME NEW s \in present, pad[s] \in Nat PROVE pad[s] <= Cycle
    <3>1. requested <= Cycle
      BY WithinCycle
    <3> QED
      BY <2>1, <3>1 DEF Held, Running
  <2>2. ASSUME NEW i \in Index
        PROVE  Reading(i) # Disconnected /\ (Reading(i) \in Nat => Reading(i) <= Cycle)
    BY <2>1, <2>2, RawIsHeld DEF Reading, NaN, Disconnected
  <2>3. \A i \in Index : temps'[i] = Reading(i)
    BY <1>4 DEF Read
  <2>4. sampled' = lag
    BY <1>4 DEF Read
  <2> QED
    BY <2>2, <2>3, <2>4
<1>5. CASE Nothing
  BY <1>5 DEF Nothing, Done
<1>6. ASSUME NEW s \in Sensor, Plug(s) \/ Unplug(s) PROVE Kept'
  BY <1>6 DEF Plug, Unplug
<1>7. CASE Elapse
  <2>1. ASSUME NEW i \in Index PROVE temps'[i] = Older(temps[i]) /\ temps[i] \in Value
    BY <1>7, <2>1 DEF Elapse
  <2>2. sampled' = sampled + 1
    BY <1>7 DEF Elapse
  <2> QED
    BY <2>1, <2>2 DEF Older, Value, NaN, PowerOn, Disconnected
<1>8. CASE UNCHANGED vars
  BY <1>8 DEF vars
<1> QED
  BY <1>1, <1>2, <1>3, <1>4, <1>5, <1>6, <1>7, <1>8 DEF Next, Tick

\* For any delays of the passes and any plugging: what telemetry says is a
\* temperature was measured at most two cycles ago; it is neither 85 degrees of
\* power-on nor -127 (TemperatureBus::tick, readTemperatures, appendTempArray).
THEOREM ReadingsAreFresh == Spec => []FreshReadings
<1>1. Fresh /\ [Next]_vars => Fresh'
  BY StepTyped, StepTimed, StepRunning, StepHeld, StepKept DEF Fresh
<1>2. Spec => []Fresh
  BY InitFresh, <1>1, PTL DEF Spec
<1>3. Fresh => FreshReadings
  <2> SUFFICES ASSUME Fresh, NEW i \in Index, Shown(temps[i]) = "number"
               PROVE  temps[i] \in 0 .. 2 * Cycle
    BY DEF FreshReadings
  <2>1. sampled <= Cycle
    BY WithinCycle DEF Fresh
  <2>2. temps[i] \in Nat
    BY DEF Fresh, Typed, TypeOK, Kept, Shown, Value
  <2> QED
    BY <2>1, <2>2, Constants DEF Fresh, Typed, TypeOK, Kept
<1> QED
  BY <1>2, <1>3, PTL

-----------------------------------------------------------------------------
\* The sensors on a bus have the places 0, 1, ... up to their number: the place
\* of a sensor is below it, no two have the same, so none is left out.
LEMMA PlacesAreTaken ==
  ASSUME present \subseteq Sensor, NEW i \in 0 .. Cardinality(present) - 1
  PROVE  \E s \in present : Rank(s) = i
<1> DEFINE n == Cardinality(present)
           Before(s) == {t \in present : t < s}
           place == [s \in present |-> Rank(s)]
<1>1. IsFiniteSet(present) /\ n \in Nat /\ present \subseteq Nat
  BY BusAssumption, FS_Subset, FS_CardinalityType
<1>2. ASSUME NEW s \in present PROVE Rank(s) \in 0 .. n - 1
  <2>1. Before(s) \subseteq present /\ s \notin Before(s)
    BY <1>1
  <2>2. IsFiniteSet(Before(s)) /\ Cardinality(Before(s)) \in Nat /\ Cardinality(Before(s)) < n
    <3>1. Before(s) # present
      BY <2>1
    <3> QED
      BY <1>1, <2>1, <3>1, FS_Subset, FS_CardinalityType
  <2> QED
    BY <1>1, <2>2 DEF Rank
<1>3. ASSUME NEW s \in present, NEW t \in present, s < t PROVE Rank(s) < Rank(t)
  <2>0. s \in Nat /\ t \in Nat /\ \A r \in present : r \in Nat
    BY <1>1
  <2>1. Before(s) \subseteq Before(t) /\ s \in Before(t) /\ s \notin Before(s)
    <3>1. \A r \in present : r < s => r < t
      BY <2>0, <1>3
    <3>2. ~(s < s)
      BY <2>0
    <3> QED
      BY <1>3, <3>1, <3>2
  <2>2. IsFiniteSet(Before(t))
    BY <1>1, FS_Subset
  <2>3. Cardinality(Before(s)) < Cardinality(Before(t))
    <3>1. Before(s) # Before(t)
      BY <2>1
    <3> QED
      BY <2>1, <2>2, <3>1, FS_Subset, FS_CardinalityType
  <2> QED
    BY <2>3 DEF Rank
<1>4. place \in Injection(present, 0 .. n - 1)
  <2>1. place \in [present -> 0 .. n - 1]
    BY <1>2
  <2>2. ASSUME NEW s \in present, NEW t \in present, place[s] = place[t] PROVE s = t
    <3>1. Rank(s) = Rank(t) /\ Rank(s) \in Nat
      BY <1>2, <2>2
    <3>2. ~(s < t) /\ ~(t < s)
      BY <1>2, <1>3, <3>1
    <3> QED
      BY <1>1, <3>2
  <2> QED
    BY <2>1, <2>2 DEF Injection, IsInjective
<1>5. IsFiniteSet(0 .. n - 1) /\ Cardinality(0 .. n - 1) = n
  BY <1>1, FS_Interval
<1>6. place \in Surjection(present, 0 .. n - 1)
  <2> HIDE DEF n, place
  <2>1. Cardinality(present) = Cardinality(0 .. n - 1)
    BY <1>5 DEF n
  <2> QED
    BY <1>4, <1>5, <2>1, FS_Injection
<1>7. \E s \in present : place[s] = i
  BY <1>6 DEF Surjection
<1> QED
  BY <1>7

\* An index below the number of sensors reads what one of them holds.
LEMMA RawIsOfASensor ==
  ASSUME present \subseteq Sensor, NEW i \in 0 .. Cardinality(present) - 1
  PROVE  \E s \in present : Raw(i) = pad[s]
<1>1. PICK r \in present : Rank(r) = i
  BY PlacesAreTaken
<1>2. (CHOOSE s \in present : Rank(s) = i) \in present
  BY <1>1
<1> QED
  BY <1>1, <1>2 DEF Raw

-----------------------------------------------------------------------------
\* If nobody has plugged since the last request, the scan is right, and what a
\* sensor does not hold yet it is converting.
Found ==
  requested < quiet =>
    /\ count = Cardinality(present)
    /\ \A s \in present : s \in converting \/ pad[s] \in Nat

\* If nobody has since the request before, all hold a conversion.
Converted == requested + Cycle < quiet => \A s \in present : pad[s] \in Nat

\* The readings are those of the sensors on the bus, and none of others.
Complete ==
  \A i \in Index : IF i < Cardinality(present) THEN temps[i] \in Nat ELSE temps[i] = NaN

\* If nobody has since the request before the one that was last read.
Reported == sampled + Cycle + Conversion + 2 * Period < quiet => Complete

Quiet == Found /\ Converted /\ Reported

LEMMA InitQuiet == Init => Quiet
  BY Constants DEF Init, Quiet, Found, Converted, Reported

\* A conversion of all that are there is what a request leaves; when it comes, the
\* one before is through.
LEMMA RequestQuiet ==
  ASSUME Fresh, Quiet, Request
  PROVE  Quiet'
<1> USE Constants DEF Fresh, Typed, TypeOK, Request, Done
<1>1. Found'
  BY DEF Found, Scanned
<1>2. Converted'
  <2>1. converting = {}
    BY DEF SampleDue, Running
  <2>2. requested <= Cycle
    BY WithinCycle
  <2>3. lag + Cycle < quiet => requested < quiet
    BY <2>2
  <2> QED
    BY <2>1, <2>3 DEF Found, Converted, Quiet
<1>3. Reported'
  BY DEF Quiet, Reported, Complete
<1> QED
  BY <1>1, <1>2, <1>3 DEF Quiet

\* A read takes what every sensor holds, and that is a reading.
LEMMA ReadQuiet ==
  ASSUME Fresh, Quiet, Read
  PROVE  Quiet'
<1> USE Constants DEF Fresh, Typed, TypeOK, Read, Done
<1>1. Found' /\ Converted'
  BY DEF Quiet, Found, Converted
<1>2. Reported'
  <2> SUFFICES ASSUME lag + Cycle + Conversion + 2 * Period < quiet PROVE Complete'
    BY DEF Reported
  <2>1. requested + Cycle < quiet /\ requested < quiet
    BY DEF Timed, Waited, Driven
  <2>2. count = Cardinality(present) /\ \A s \in present : pad[s] \in Nat
    BY <2>1 DEF Quiet, Found, Converted
  <2>3. Cardinality(present) \in Nat
    BY Counted
  <2>4. ASSUME NEW i \in Index
        PROVE  IF i < Cardinality(present) THEN Reading(i) \in Nat ELSE Reading(i) = NaN
    <3>1. i \in Nat
      BY DEF Index
    <3>2. CASE i < Cardinality(present)
      <4>1. i \in 0 .. Cardinality(present) - 1
        BY <2>3, <3>1, <3>2
      <4>2. Raw(i) \in Nat
        BY <2>2, <4>1, RawIsOfASensor
      <4>3. Raw(i) # Disconnected
        BY <4>2 DEF Disconnected
      <4> QED
        BY <2>2, <3>2, <4>2, <4>3 DEF Reading
    <3>3. CASE ~(i < Cardinality(present))
      BY <2>2, <3>3 DEF Reading
    <3> QED
      BY <3>2, <3>3
  <2>5. present' = present /\ \A i \in Index : temps'[i] = Reading(i)
    OBVIOUS
  <2> QED
    BY <2>4, <2>5 DEF Complete
<1> QED
  BY <1>1, <1>2 DEF Quiet

\* Time passes for the readings and for the quiet alike.
LEMMA ElapseQuiet ==
  ASSUME Fresh, Quiet, Elapse
  PROVE  Quiet'
<1> USE Constants DEF Fresh, Typed, TypeOK
<1>1. /\ quiet' <= quiet + 1 /\ quiet' \in Nat
      /\ requested' = requested + 1 /\ sampled' = sampled + 1
      /\ present' = present /\ count' = count
  BY DEF Elapse
<1>2. \A v \in Nat : Older(v) \in Nat
  BY DEF Older
<1>3. ASSUME NEW s \in present, pad[s] \in Nat PROVE pad'[s] \in Nat
  <2>1. s \in Sensor
    OBVIOUS
  <2> QED
    BY <1>2, <1>3, <2>1 DEF Elapse
<1>4. Found'
  <2> SUFFICES ASSUME requested' < quiet'
               PROVE  count = Cardinality(present) /\ \A s \in present : s \in converting' \/ pad'[s] \in Nat
    BY <1>1 DEF Found
  <2>1. count = Cardinality(present) /\ \A s \in present : s \in converting \/ pad[s] \in Nat
    BY <1>1 DEF Quiet, Found
  <2>2. \A s \in present : s \in converting => s \in converting' \/ pad'[s] \in Nat
    BY DEF Elapse
  <2> QED
    BY <1>3, <2>1, <2>2
<1>5. Converted'
  BY <1>1, <1>3 DEF Quiet, Converted
<1>6. Reported'
  <2> SUFFICES ASSUME sampled' + Cycle + Conversion + 2 * Period < quiet' PROVE Complete'
    BY DEF Reported
  <2>1. Complete
    BY <1>1 DEF Quiet, Reported
  <2>2. \A i \in Index : temps'[i] = Older(temps[i])
    BY DEF Elapse
  <2>3. Older(NaN) = NaN
    BY DEF Older, NaN
  <2> QED
    BY <1>1, <1>2, <2>1, <2>2, <2>3 DEF Complete
<1> QED
  BY <1>4, <1>5, <1>6 DEF Quiet

\* Whoever plugs ends the quiet.
LEMMA TouchQuiet ==
  ASSUME Fresh, NEW s \in Sensor, Plug(s) \/ Unplug(s)
  PROVE  Quiet'
<1> USE Constants DEF Fresh, Typed, TypeOK
<1>1. quiet' = 0 /\ requested' = requested /\ sampled' = sampled
  BY DEF Plug, Unplug
<1>2. Found' /\ Converted' /\ Reported'
  BY <1>1 DEF Found, Converted, Reported
<1> QED
  BY <1>2 DEF Quiet

LEMMA StepQuiet == Fresh /\ Quiet /\ [Next]_vars => Quiet'
<1> SUFFICES ASSUME Fresh, Quiet, [Next]_vars PROVE Quiet'
  OBVIOUS
<1>1. CASE Pass \/ Ready \/ Nothing \/ UNCHANGED vars
  BY <1>1 DEF Pass, Ready, Nothing, Done, vars, sensors, Quiet, Found, Converted, Reported, Complete
<1>2. ASSUME NEW s \in Sensor, Plug(s) \/ Unplug(s) PROVE Quiet'
  BY <1>2, TouchQuiet
<1> QED
  BY <1>1, <1>2, RequestQuiet, ReadQuiet, ElapseQuiet DEF Next, Tick

\* For any delays of the passes and any plugging: once the sensors have been left
\* alone for Settled, two requests and a read, every sensor on the bus is reported
\* and no index beyond them is (TemperatureBus::tick, scanBuses, readTemperatures).
THEOREM SensorsAreReported == Spec => []SensorsReported
<1>1. Fresh /\ [Next]_vars => Fresh'
  BY StepTyped, StepTimed, StepRunning, StepHeld, StepKept DEF Fresh
<1>2. Spec => [](Fresh /\ Quiet)
  BY InitFresh, InitQuiet, <1>1, StepQuiet, PTL DEF Spec
<1>3. Fresh /\ Quiet => SensorsReported
  <2> SUFFICES ASSUME Fresh, Quiet, quiet > Settled, NEW i \in Index
               PROVE  Shown(temps[i]) = (IF i < Cardinality(present) THEN "number" ELSE "null")
    BY DEF SensorsReported
  <2>1. sampled <= Cycle
    BY WithinCycle DEF Fresh
  <2>2. Complete
    BY <2>1, Constants DEF Fresh, Typed, TypeOK, Quiet, Reported, Settled
  <2> QED
    BY <2>2 DEF Complete, Shown, NaN, PowerOn
<1> QED
  BY <1>2, <1>3, PTL
=============================================================================
