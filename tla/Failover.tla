------------------------------ MODULE Failover ------------------------------
(***************************************************************************)
(* The redundant pair of controllers (main.cpp, Heartbeat.cpp).  On each   *)
(* controller two tasks run: heartbeatTask, which sends a frame every      *)
(* HB_SEND_MS or so and stamps the last one received, and loop(), which samples  *)
(* millis() at the head of a pass, serves the network and the updater, and *)
(* only then compares the sample with the stamp.  heartbeatTask preempts   *)
(* loop() anywhere, so the stamp may be younger than the sample.           *)
(*                                                                         *)
(* Only a standby acts on what it hears: what a primary knows of its       *)
(* partner fills a field of its telemetry and nothing else, so frames to a *)
(* primary are left out.                                                   *)
(*                                                                         *)
(* Time advances in ticks.  Instants are kept as distances from the        *)
(* present: age is millis() - _lastRxMs, lag is millis() - now.            *)
(***************************************************************************)
EXTENDS Integers, FiniteSets

CONSTANTS
  Ctl,            \* the two controllers
  Role,           \* the role the registry gives each: "primary" or "standby"
  Enabled,        \* values of "enabled" the registry may send
  HbMin, HbMax,   \* HB_SEND_MS, less and plus what polling on both boards moves a frame
  Timeout,        \* HB_TIMEOUT_MS
  Grace,          \* BOOT_GRACE_MS
  Hello,          \* HELLO_INTERVAL_MS, also the time to the first hello after a reset
  MaxPass,        \* longest loop pass without an update
  MaxUpdate,      \* longest update sequence
  Width,          \* millis() counts modulo Width
  Wraps,          \* may the peer be silent for a whole period of millis()?
  MaxCrashes, MaxLost, MaxUpdates, MaxOutages   \* bounds of the environment

\* "pass": net.hello() has returned; "read": peerAlive is known; "wait":
\* vTaskDelay at the end of a pass.
Points == {"setup", "wait", "pass", "read"}

ASSUME PairAssumption ==
  /\ \A d \in Ctl : \E e \in Ctl : Ctl = {d, e} /\ d # e
  /\ Role \in [Ctl -> {"primary", "standby"}]
  /\ Enabled \subseteq BOOLEAN

ASSUME TimeAssumption ==
  /\ HbMin \in Nat \ {0} /\ HbMax \in Nat /\ HbMin <= HbMax
  /\ Timeout \in Nat \ {0} /\ Grace \in Nat /\ Hello \in Nat
  /\ MaxPass \in Nat \ {0} /\ MaxUpdate \in Nat
  /\ Width \in Nat /\ Width > Timeout + MaxPass + MaxUpdate + 1
  /\ MaxCrashes \in Nat /\ MaxLost \in Nat /\ MaxUpdates \in Nat /\ MaxOutages \in Nat
  /\ Wraps \in BOOLEAN

VARIABLES
  up,                 \* the controller has power
  pc, lag, graced,    \* loop(): program point, age of the sample, now > BOOT_GRACE_MS
  uptime,             \* millis(), as far as the boot grace and the hello can tell
  seen, age,          \* heartbeat: _lastRxMs # 0, millis() - _lastRxMs
  sent,               \* heartbeatTask: millis() - lastSend
  wire,               \* a frame to this controller is on the UART
  updating,           \* OtaUpdater::isUpdating()
  configured, enabled,\* config_.configured, config_.enabled
  online,             \* link and broker session are there
  alive,              \* the local peerAlive of the pass
  active,             \* iAmActiveSender of the last pass
  lastHealthy, everHealthy,
  told,               \* last event published: "none", "primary_down", "primary_up"
  silent,             \* history: the peer has been silent for more than Timeout
  both,               \* history: ticks for which both have been sending
  gap,                \* history: ticks for which a standby allowed to send has heard and sent nothing
  crashes, lost, updates, outages

clock == <<lag, graced, uptime>>
link == <<seen, age, sent, wire, silent>>
config == <<configured, enabled, online>>
verdict == <<alive, active, lastHealthy, everHealthy, told>>
spans == <<both, gap>>
env == <<crashes, lost, updates, outages>>
vars == <<up, pc, clock, link, updating, config, verdict, spans, env>>

Peer(d) == CHOOSE e \in Ctl : e # d
Watches(d) == Role[d] = "standby"
Least(m, n) == IF m < n THEN m ELSE n
UptimeCap == IF Grace < Hello THEN Hello ELSE Grace + 1

Init ==
  /\ up = [d \in Ctl |-> TRUE]
  /\ pc = [d \in Ctl |-> "setup"]
  /\ lag = [d \in Ctl |-> 0] /\ uptime = [d \in Ctl |-> 0] /\ graced = [d \in Ctl |-> FALSE]
  /\ seen = [d \in Ctl |-> FALSE] /\ age = [d \in Ctl |-> 0] /\ sent = [d \in Ctl |-> 0]
  /\ wire = [d \in Ctl |-> FALSE] /\ silent = [d \in Ctl |-> FALSE]
  /\ updating = [d \in Ctl |-> FALSE]
  /\ configured = [d \in Ctl |-> FALSE] /\ enabled = [d \in Ctl |-> FALSE]
  /\ online = [d \in Ctl |-> TRUE]
  /\ alive = [d \in Ctl |-> FALSE] /\ active = [d \in Ctl |-> FALSE]
  /\ lastHealthy = [d \in Ctl |-> FALSE] /\ everHealthy = [d \in Ctl |-> FALSE]
  /\ told = [d \in Ctl |-> "none"]
  /\ both = 0 /\ gap = [d \in Ctl |-> 0]
  /\ crashes = 0 /\ lost = 0 /\ updates = 0 /\ outages = 0

-----------------------------------------------------------------------------
(* heartbeatTask *)

\* Mutant: a frame may be left out.
OverdueTwice(d) == sent[d] >= 2 * HbMax

\* now - lastSend >= HB_SEND_MS holds for the first time when heartbeatTask looks,
\* which it does every 5 ms: no frame comes before HbMin, and none after HbMax.  The
\* time the receiver, which polls as well, takes to read it is counted in these.
FrameDue(d) == sent[d] >= HbMin
Overdue(d) == sent[d] >= HbMax

\* Send a frame when one is due, unless an update is running; lastSend moves on.
HbSends(d) ==
  /\ up[d] /\ FrameDue(d) /\ Watches(Peer(d))
  /\ sent' = [sent EXCEPT ![d] = 0]
  /\ wire' = [wire EXCEPT ![Peer(d)] = @ \/ (~updating[d] /\ up[Peer(d)])]
  /\ UNCHANGED <<up, pc, clock, seen, age, silent, updating, config, verdict, spans, env>>

\* A valid frame is read from the UART and stamped with millis().
HbReceives(d) ==
  /\ up[d] /\ wire[d]
  /\ wire' = [wire EXCEPT ![d] = FALSE]
  /\ seen' = [seen EXCEPT ![d] = TRUE]
  /\ age' = [age EXCEPT ![d] = 0]
  /\ silent' = [silent EXCEPT ![d] = FALSE]
  /\ gap' = [gap EXCEPT ![d] = 0]
  /\ UNCHANGED <<up, pc, clock, sent, updating, config, verdict, both, env>>

\* Noise: the CRC rejects the frame.
FrameLost(d) ==
  /\ wire[d] /\ lost < MaxLost
  /\ lost' = lost + 1
  /\ wire' = [wire EXCEPT ![d] = FALSE]
  /\ UNCHANGED <<up, pc, clock, seen, age, sent, silent, updating, config, verdict, spans,
                 crashes, updates, outages>>

-----------------------------------------------------------------------------
(* loop() *)

SetupDone(d) ==
  /\ up[d] /\ pc[d] = "setup"
  /\ pc' = [pc EXCEPT ![d] = "wait"]
  /\ UNCHANGED <<up, clock, link, updating, config, verdict, spans, env>>

\* const uint32_t now = millis(), net.loop() and net.hello(): the network part
\* asks for the configuration while there is none, first after HELLO_INTERVAL_MS,
\* and may receive it.
Sample(d) ==
  /\ up[d] /\ pc[d] = "wait"
  /\ lag' = [lag EXCEPT ![d] = 0]
  /\ graced' = [graced EXCEPT ![d] = uptime[d] > Grace]
  /\ pc' = [pc EXCEPT ![d] = "pass"]
  /\ UNCHANGED <<up, uptime, link, updating, online, verdict, spans, env>>

Pass(d) == Sample(d) /\ UNCHANGED <<configured, enabled>>

\* Without a configuration the controller asks for one every HELLO_INTERVAL_MS.  The
\* host answers or does not, and an answer to an earlier hello may come late and
\* replace the configuration there is: Session has how.
HelloAnswered(d) == online[d] /\ uptime[d] >= Hello

PassWithConfig(d, e) ==
  /\ Sample(d)
  /\ HelloAnswered(d)
  /\ configured' = [configured EXCEPT ![d] = TRUE]
  /\ enabled' = [enabled EXCEPT ![d] = e]

\* ota.tick() runs an update inside the pass; heartbeats stop meanwhile.
StartUpdate(d) ==
  /\ up[d] /\ pc[d] = "pass" /\ ~updating[d] /\ updates < MaxUpdates
  /\ updates' = updates + 1
  /\ updating' = [updating EXCEPT ![d] = TRUE]
  /\ both' = 0 /\ gap' = [gap EXCEPT ![d] = 0]
  /\ UNCHANGED <<up, pc, clock, link, config, verdict, crashes, lost, outages>>

UpdateFails(d) ==
  /\ up[d] /\ updating[d]
  /\ updating' = [updating EXCEPT ![d] = FALSE]
  /\ UNCHANGED <<up, pc, clock, link, config, verdict, spans, env>>

\* Mutants: < in place of <=; the difference kept in a type too narrow for it.
StrictlyWithin(d) == seen[d] /\ (age[d] - lag[d]) % Width < Timeout
NarrowAge(d) == seen[d] /\ (age[d] - lag[d]) % (Timeout + 2) <= Timeout

\* Heartbeat::peerAlive(now, HB_TIMEOUT_MS), in unsigned arithmetic.
PeerAlive(d) == seen[d] /\ (age[d] - lag[d]) % Width <= Timeout

ReadPeer(d) ==
  /\ up[d] /\ pc[d] = "pass" /\ ~updating[d]
  /\ alive' = [alive EXCEPT ![d] = PeerAlive(d)]
  /\ pc' = [pc EXCEPT ![d] = "read"]
  /\ UNCHANGED <<up, clock, link, updating, config, active, lastHealthy, everHealthy, told, spans, env>>

\* Mutants: the boot grace outlives the first frame; a silence is not acted on.
GraceForever(d) == (~alive[d] /\ seen[d]) \/ graced[d]
OnlyAtBoot(d) == graced[d] /\ ~seen[d]

\* The standby sends if the primary fell silent, or never appeared.
TakesOver(d) == (~alive[d] /\ seen[d]) \/ (graced[d] /\ ~seen[d])
Sends(d) == configured[d] /\ enabled[d] /\ (Role[d] = "primary" \/ TakesOver(d))

\* Mutant: lastHealthy is brought up to date before the edge is looked for.
EdgeLookedForLate(d) == alive[d] /\ ~alive[d]

PrimaryLost(d) == lastHealthy[d] /\ ~alive[d]
PrimaryBack(d) == ~lastHealthy[d] /\ alive[d] /\ everHealthy[d]

\* The rest of the pass, with everSawPartner read afresh from the heartbeat.
\* Only a configured standby watches its partner and publishes events.
Decide(d) ==
  /\ up[d] /\ pc[d] = "read"
  /\ active' = [active EXCEPT ![d] = Sends(d)]
  /\ IF configured[d] /\ Role[d] = "standby"
       THEN /\ lastHealthy' = [lastHealthy EXCEPT ![d] = alive[d]]
            /\ everHealthy' = [everHealthy EXCEPT ![d] = @ \/ alive[d]]
            /\ told' = [told EXCEPT ![d] =
                 IF ~online[d] THEN @
                 ELSE IF PrimaryLost(d) THEN "primary_down"
                 ELSE IF PrimaryBack(d) THEN "primary_up" ELSE @]
       ELSE UNCHANGED <<lastHealthy, everHealthy, told>>
  /\ pc' = [pc EXCEPT ![d] = "wait"]
  /\ both' = IF Sends(d) THEN both ELSE 0
  /\ gap' = [gap EXCEPT ![d] = IF Sends(d) THEN 0 ELSE @]
  /\ UNCHANGED <<up, clock, link, updating, config, alive, env>>

-----------------------------------------------------------------------------
(* The environment *)

\* Frames are sent by HbMax and read as they arrive, and passes start at
\* most MaxPass ticks apart, unless an update runs inside one.
Urgent(d) ==
  \/ up[d] /\ (Overdue(d) \/ wire[d])
  \/ up[d] /\ pc[d] # "setup" /\ lag[d] >= IF updating[d] THEN MaxUpdate ELSE MaxPass

\* A controller blocked in an update sends nothing.
Sending(d) == active[d] /\ ~updating[d]

\* The standby may send, and does not.
Standby(d) == up[d] /\ configured[d] /\ Role[d] = "standby"
Idle(d) == Standby(d) /\ enabled[d] /\ ~updating[d] /\ ~active[d]

\* Unless Wraps, the age stops at the largest value millis() - _lastRxMs can have.
Older(d) == IF Wraps THEN (age[d] + 1) % Width ELSE Least(age[d] + 1, Width - 1)

Tick ==
  /\ \A d \in Ctl : ~Urgent(d)
  /\ lag' = [d \in Ctl |-> IF up[d] /\ pc[d] # "setup" THEN lag[d] + 1 ELSE 0]
  /\ uptime' = [d \in Ctl |-> IF up[d] THEN Least(uptime[d] + 1, UptimeCap) ELSE 0]
  /\ age' = [d \in Ctl |-> IF up[d] /\ seen[d] THEN Older(d) ELSE 0]
  /\ silent' = [d \in Ctl |-> up[d] /\ seen[d] /\ (silent[d] \/ age[d] >= Timeout)]
  /\ sent' = [d \in Ctl |-> IF up[d] /\ Watches(Peer(d)) THEN sent[d] + 1 ELSE 0]
  /\ both' = IF \A d \in Ctl : Sending(d) THEN Least(both + 1, Width) ELSE 0
  /\ gap' = [d \in Ctl |-> IF Idle(d) THEN Least(gap[d] + 1, Width) ELSE 0]
  /\ UNCHANGED <<up, pc, graced, seen, wire, updating, config, verdict, env>>

\* A reset loses all of RAM.  Frames sent to a board without power are lost.
Off(d) ==
  /\ up' = [up EXCEPT ![d] = FALSE]
  /\ pc' = [pc EXCEPT ![d] = "setup"]
  /\ lag' = [lag EXCEPT ![d] = 0] /\ uptime' = [uptime EXCEPT ![d] = 0]
  /\ graced' = [graced EXCEPT ![d] = FALSE]
  /\ seen' = [seen EXCEPT ![d] = FALSE] /\ age' = [age EXCEPT ![d] = 0]
  /\ silent' = [silent EXCEPT ![d] = FALSE]
  /\ sent' = [sent EXCEPT ![d] = 0] /\ wire' = [wire EXCEPT ![d] = FALSE]
  /\ updating' = [updating EXCEPT ![d] = FALSE]
  /\ configured' = [configured EXCEPT ![d] = FALSE] /\ enabled' = [enabled EXCEPT ![d] = FALSE]
  /\ alive' = [alive EXCEPT ![d] = FALSE] /\ active' = [active EXCEPT ![d] = FALSE]
  /\ lastHealthy' = [lastHealthy EXCEPT ![d] = FALSE]
  /\ everHealthy' = [everHealthy EXCEPT ![d] = FALSE]
  /\ told' = [told EXCEPT ![d] = "none"]
  /\ both' = 0 /\ gap' = [gap EXCEPT ![d] = 0]
  /\ UNCHANGED online

Crash(d) ==
  /\ up[d] /\ crashes < MaxCrashes
  /\ crashes' = crashes + 1
  /\ Off(d)
  /\ UNCHANGED <<lost, updates, outages>>

\* A verified update ends in ESP.restart().
UpdateRestarts(d) == up[d] /\ updating[d] /\ Off(d) /\ UNCHANGED env

PowerOn(d) ==
  /\ ~up[d]
  /\ up' = [up EXCEPT ![d] = TRUE]
  /\ UNCHANGED <<pc, clock, link, updating, config, verdict, spans, env>>

GoesOffline(d) ==
  /\ online[d] /\ outages < MaxOutages
  /\ outages' = outages + 1
  /\ online' = [online EXCEPT ![d] = FALSE]
  /\ UNCHANGED <<up, pc, clock, link, updating, configured, enabled, verdict, spans,
                 crashes, lost, updates>>

ComesOnline(d) ==
  /\ ~online[d]
  /\ online' = [online EXCEPT ![d] = TRUE]
  /\ UNCHANGED <<up, pc, clock, link, updating, configured, enabled, verdict, spans, env>>

-----------------------------------------------------------------------------
HeartbeatTask(d) == HbSends(d) \/ HbReceives(d)

Loop(d) ==
  \/ SetupDone(d) \/ Pass(d) \/ (\E e \in Enabled : PassWithConfig(d, e))
  \/ UpdateFails(d) \/ ReadPeer(d) \/ Decide(d)

Environment(d) ==
  \/ FrameLost(d) \/ StartUpdate(d) \/ UpdateRestarts(d) \/ Crash(d) \/ PowerOn(d)
  \/ GoesOffline(d) \/ ComesOnline(d)

Next == Tick \/ \E d \in Ctl : HeartbeatTask(d) \/ Loop(d) \/ Environment(d)

\* Time passes and both tasks keep running; failures and repairs are not owed.
Fairness ==
  /\ WF_vars(Tick)
  /\ \A d \in Ctl : WF_vars(HeartbeatTask(d)) /\ WF_vars(Loop(d))

Spec == Init /\ [][Next]_vars /\ Fairness

-----------------------------------------------------------------------------
FlagsOK ==
  /\ {up, graced, seen, wire, updating, configured, enabled, online, alive, active,
      lastHealthy, everHealthy, silent} \subseteq [Ctl -> BOOLEAN]
  /\ pc \in [Ctl -> Points]
  /\ told \in [Ctl -> {"none", "primary_down", "primary_up"}]

ClocksOK ==
  /\ lag \in [Ctl -> 0 .. MaxPass + MaxUpdate]
  /\ uptime \in [Ctl -> 0 .. UptimeCap]
  /\ age \in [Ctl -> 0 .. Width - 1]
  /\ sent \in [Ctl -> 0 .. HbMax]
  /\ both \in 0 .. Width
  /\ gap \in [Ctl -> 0 .. Width]

\* The values of the variables; no frame is sent later than HbMax after the last
\* and no pass outlasts its bound.
TypeOK ==
  /\ FlagsOK /\ ClocksOK
  /\ crashes \in 0 .. MaxCrashes /\ lost \in 0 .. MaxLost
  /\ updates \in 0 .. MaxUpdates /\ outages \in 0 .. MaxOutages

\* Between two passes a standby sends exactly when the frame it last heard is
\* too old for the sample of the pass: it neither sleeps through a silence
\* nor goes on sending next to a primary it heard before the pass began.
StandbyVerdict ==
  \A d \in Ctl :
    Standby(d) /\ pc[d] = "wait" /\ seen[d] /\ enabled[d] /\ age[d] > lag[d] =>
      (active[d] <=> age[d] - lag[d] > Timeout)

\* As long as nobody has crashed or run an update, losing at most MaxLost frames
\* makes nobody silent for longer than the timeout.
NoSilenceWithoutFailure == crashes = 0 /\ updates = 0 => \A d \in Ctl : ~silent[d]

\* The comparison calls a peer dead only if it really was silent for more than
\* the timeout, or if its frame arrived after the pass sampled millis().
DeadMeansSilentOrOvertaken ==
  [][\A d \in Ctl : pc[d] = "pass" /\ pc'[d] = "read" /\ seen[d] /\ ~alive'[d] =>
       silent[d] \/ age[d] < lag[d]]_vars

\* The comparison calls a peer dead only if it was silent for the timeout.
DeadMeansSilent ==
  [][\A d \in Ctl : pc[d] = "pass" /\ pc'[d] = "read" /\ seen[d] /\ ~alive'[d] => silent[d]]_vars

\* As long as no update has held up a pass, a standby that took its peer for lost
\* finds it restored (the condition of primary_up) only after a frame was heard: a
\* peer still silent stays lost.
RestoredMeansHeard ==
  [][\A d \in Ctl : updates = 0 /\ pc[d] = "pass" /\ pc'[d] = "read"
                       /\ silent[d] /\ everHealthy[d] /\ ~lastHealthy[d]
       => ~alive'[d]]_vars

\* The two controllers send at the same time for no longer than the longest heartbeat
\* period to the next frame, one more per lost frame, one more if a frame overtakes
\* a pass, and one pass.
ShortOverlap == both <= (MaxLost + 2) * HbMax + MaxPass

\* A standby that may send, hears nothing and runs no update sends within the
\* timeout, or the boot grace if it never heard its peer, and two passes: whatever
\* the configuration does meanwhile, and even if millis() comes round.
ShortGap == \A d \in Ctl : gap[d] <= (IF seen[d] THEN Timeout ELSE Grace) + 2 * MaxPass

\* While no outage has cost an event, the last event a standby published tells what
\* it makes of a primary it has known alive: primary_down while it takes it for
\* lost, and it does whenever it sends; something else as soon as it is back.
TakeoverAnnounced ==
  \A d \in Ctl : outages = 0 /\ Standby(d) /\ everHealthy[d] =>
    /\ active[d] => told[d] = "primary_down"
    /\ told[d] = "primary_down" <=> ~lastHealthy[d]

\* If the primary stays off and its standby stays up, configured and enabled,
\* the standby ends up sending.
TakeoverHappens ==
  \A d \in Ctl :
    <>[](~up[Peer(d)] /\ Standby(d) /\ enabled[d]) => <>[]Sending(d)

\* If the primary stays up, configured and free of updates, the standby stops.
FailbackHappens ==
  \A d \in Ctl :
    <>[](up[Peer(d)] /\ ~updating[Peer(d)] /\ Standby(d)) => []<>~Sending(d)
=============================================================================
