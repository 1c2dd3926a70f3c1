--------------------------- MODULE FailoverProofs ---------------------------
(***************************************************************************)
(* What holds of the pair of controllers for every heartbeat period,       *)
(* timeout, pass length and bound on the failures.                         *)
(***************************************************************************)
EXTENDS Failover, TLAPS

LEMMA PeerFacts ==
  ASSUME NEW d \in Ctl
  PROVE  Peer(d) \in Ctl /\ Peer(d) # d /\ Peer(Peer(d)) = d
  BY PairAssumption DEF Peer

\* The unsigned difference of two instants is the distance between them as long
\* as the later one is not before the earlier one.
LEMMA NoBorrow ==
  ASSUME NEW n \in 0 .. Width - 1, Width \in Nat
  PROVE  n % Width = n
  OBVIOUS

LEMMA OlderFacts ==
  ASSUME ClocksOK, NEW d \in Ctl
  PROVE  /\ Older(d) <= age[d] + 1
         /\ ~Wraps => Older(d) = IF age[d] = Width - 1 THEN age[d] ELSE age[d] + 1
<1>1. age[d] \in 0 .. Width - 1
  BY DEF ClocksOK
<1>2. (age[d] + 1) % Width <= age[d] + 1
  <2>1. CASE age[d] + 1 = Width
    BY <1>1, <2>1, TimeAssumption
  <2>2. CASE age[d] + 1 < Width
    BY <1>1, <2>2, NoBorrow, TimeAssumption
  <2>3. QED
    BY <1>1, <2>1, <2>2, TimeAssumption
<1>3. QED
  BY <1>1, <1>2, TimeAssumption DEF Older, Least

LEMMA CapFacts == UptimeCap \in Nat
  BY TimeAssumption DEF UptimeCap

LEMMA InitTypeOK == Init => TypeOK
<1> SUFFICES ASSUME Init PROVE TypeOK
  OBVIOUS
<1>1. FlagsOK
  BY DEF Init, FlagsOK, Points
<1>2. ClocksOK
  BY TimeAssumption, CapFacts DEF Init, ClocksOK
<1>3. QED
  BY <1>1, <1>2, TimeAssumption DEF Init, TypeOK

LEMMA StepFlagsOK ==
  ASSUME FlagsOK, [Next]_vars
  PROVE  FlagsOK'
<1> USE DEF clock, link, config, verdict, spans, env
<1>1. CASE Tick
  <2>1. silent' \in [Ctl -> BOOLEAN]
    BY <1>1 DEF Tick
  <2>2. QED
    BY <1>1, <2>1 DEF Tick, FlagsOK
<1>2. ASSUME NEW d \in Ctl, HeartbeatTask(d) PROVE FlagsOK'
  <2>1. CASE HbSends(d)
    <3>1. wire' \in [Ctl -> BOOLEAN]
      BY <2>1, PeerFacts DEF HbSends, FlagsOK
    <3>2. QED
      BY <2>1, <3>1 DEF HbSends, FlagsOK
  <2>2. CASE HbReceives(d)
    BY <2>2 DEF HbReceives, FlagsOK
  <2>3. QED
    BY <1>2, <2>1, <2>2 DEF HeartbeatTask
<1>3. ASSUME NEW d \in Ctl, SetupDone(d) \/ Pass(d) \/ UpdateFails(d) PROVE FlagsOK'
  <2>1. CASE SetupDone(d)
    BY <2>1 DEF SetupDone, FlagsOK, Points
  <2>2. CASE Pass(d)
    <3>1. graced' \in [Ctl -> BOOLEAN]
      BY <2>2 DEF Pass, Sample, FlagsOK
    <3>2. QED
      BY <2>2, <3>1 DEF Pass, Sample, FlagsOK, Points
  <2>3. CASE UpdateFails(d)
    BY <2>3 DEF UpdateFails, FlagsOK
  <2>4. QED
    BY <1>3, <2>1, <2>2, <2>3
<1>4. ASSUME NEW d \in Ctl, NEW e \in Enabled, PassWithConfig(d, e) PROVE FlagsOK'
  BY <1>4, PairAssumption DEF PassWithConfig, Sample, FlagsOK, Points
<1>5. ASSUME NEW d \in Ctl, ReadPeer(d) PROVE FlagsOK'
  BY <1>5 DEF ReadPeer, PeerAlive, FlagsOK, Points
<1>6. ASSUME NEW d \in Ctl, Decide(d) PROVE FlagsOK'
  BY <1>6 DEF Decide, Sends, TakesOver, FlagsOK, Points
<1>7. ASSUME NEW d \in Ctl, FrameLost(d) \/ StartUpdate(d) \/ PowerOn(d) \/ GoesOffline(d) \/ ComesOnline(d)
      PROVE FlagsOK'
  <2>1. CASE FrameLost(d)
    BY <2>1 DEF FrameLost, FlagsOK
  <2>2. CASE StartUpdate(d)
    BY <2>2 DEF StartUpdate, FlagsOK
  <2>3. CASE PowerOn(d)
    BY <2>3 DEF PowerOn, FlagsOK
  <2>4. CASE GoesOffline(d)
    BY <2>4 DEF GoesOffline, FlagsOK
  <2>5. CASE ComesOnline(d)
    BY <2>5 DEF ComesOnline, FlagsOK
  <2>6. QED
    BY <1>7, <2>1, <2>2, <2>3, <2>4, <2>5
<1>8. ASSUME NEW d \in Ctl, Crash(d) \/ UpdateRestarts(d) PROVE FlagsOK'
  <2>1. Off(d)
    BY <1>8 DEF Crash, UpdateRestarts
  <2>2. pc' \in [Ctl -> Points] /\ told' \in [Ctl -> {"none", "primary_down", "primary_up"}]
    BY <2>1 DEF Off, FlagsOK, Points
  <2>3. {up', graced', seen', wire', silent', updating'} \subseteq [Ctl -> BOOLEAN]
    BY <2>1 DEF Off, FlagsOK
  <2>4. {configured', enabled', online', alive', active', lastHealthy', everHealthy'}
          \subseteq [Ctl -> BOOLEAN]
    BY <2>1 DEF Off, FlagsOK
  <2>5. QED
    BY <2>2, <2>3, <2>4 DEF FlagsOK
<1>9. CASE UNCHANGED vars
  BY <1>9 DEF vars, FlagsOK
<1>10. QED
  BY <1>1, <1>2, <1>3, <1>4, <1>5, <1>6, <1>7, <1>8, <1>9 DEF Next, Loop, Environment

LEMMA StepClocksOK ==
  ASSUME FlagsOK, ClocksOK, [Next]_vars
  PROVE  ClocksOK'
<1> USE TimeAssumption, CapFacts DEF clock, link, config, verdict, spans, env
<1>1. CASE Tick
  <2>1. lag' \in [Ctl -> 0 .. MaxPass + MaxUpdate]
    BY <1>1 DEF Tick, Urgent, ClocksOK
  <2>2. uptime' \in [Ctl -> 0 .. UptimeCap]
    BY <1>1 DEF Tick, Least, ClocksOK
  <2>3. age' \in [Ctl -> 0 .. Width - 1]
    BY <1>1 DEF Tick, Older, Least, ClocksOK
  <2>4. sent' \in [Ctl -> 0 .. HbMax]
    BY <1>1 DEF Tick, Urgent, Overdue, Watches, ClocksOK
  <2>5. both' \in 0 .. Width /\ gap' \in [Ctl -> 0 .. Width]
    BY <1>1 DEF Tick, Least, ClocksOK
  <2>6. QED
    BY <2>1, <2>2, <2>3, <2>4, <2>5 DEF ClocksOK
<1>2. ASSUME NEW d \in Ctl, HeartbeatTask(d) PROVE ClocksOK'
  BY <1>2 DEF HeartbeatTask, HbSends, HbReceives, ClocksOK
<1>3. ASSUME NEW d \in Ctl, Loop(d) PROVE ClocksOK'
  BY <1>3 DEF Loop, SetupDone, Pass, PassWithConfig, Sample, UpdateFails, ReadPeer, Decide, ClocksOK
<1>4. ASSUME NEW d \in Ctl, Environment(d) PROVE ClocksOK'
  <2>1. CASE Off(d)
    BY <2>1 DEF Off, ClocksOK
  <2>2. QED
    BY <1>4, <2>1 DEF Environment, FrameLost, StartUpdate, UpdateRestarts, Crash, PowerOn,
                      GoesOffline, ComesOnline, ClocksOK
<1>5. CASE UNCHANGED vars
  BY <1>5 DEF vars, ClocksOK
<1>6. QED
  BY <1>1, <1>2, <1>3, <1>4, <1>5 DEF Next

LEMMA StepTypeOK ==
  ASSUME TypeOK, [Next]_vars
  PROVE  TypeOK'
<1>1. FlagsOK' /\ ClocksOK'
  BY StepFlagsOK, StepClocksOK DEF TypeOK
<1>2. /\ crashes' \in 0 .. MaxCrashes /\ lost' \in 0 .. MaxLost
      /\ updates' \in 0 .. MaxUpdates /\ outages' \in 0 .. MaxOutages
  BY TimeAssumption
     DEF TypeOK, vars, env, Next, HeartbeatTask, Loop, Environment, Tick, HbSends, HbReceives,
         FrameLost, SetupDone, Pass, PassWithConfig, Sample, StartUpdate, UpdateFails, ReadPeer,
         Decide, Crash, UpdateRestarts, PowerOn, GoesOffline, ComesOnline
<1>3. QED
  BY <1>1, <1>2 DEF TypeOK

\* Every variable keeps its type, and no clock leaves its range.
THEOREM Typing == Spec => []TypeOK
<1>1. Init => TypeOK
  BY InitTypeOK
<1>2. TypeOK /\ [Next]_vars => TypeOK'
  BY StepTypeOK
<1>3. QED
  BY <1>1, <1>2, PTL DEF Spec

-----------------------------------------------------------------------------
(* A peer is called dead with reason, or because its frame overtook the pass. *)

\* The history variable knows of every silence, and a board without power of none.
SilenceInv == \A d \in Ctl : seen[d] => up[d] /\ (age[d] > Timeout => silent[d])

OnlySilentOrOvertaken ==
  \A d \in Ctl : pc[d] = "pass" /\ pc'[d] = "read" /\ seen[d] /\ ~alive'[d] =>
    silent[d] \/ age[d] < lag[d]

LEMMA StepSilenceInv ==
  ASSUME TypeOK, SilenceInv, [Next]_vars
  PROVE  SilenceInv'
<1> USE TimeAssumption DEF TypeOK, FlagsOK, ClocksOK, SilenceInv, clock, link, config, verdict, spans, env
<1>1. CASE Tick
  <2> SUFFICES ASSUME NEW d \in Ctl, seen'[d] PROVE up'[d] /\ (age'[d] > Timeout => silent'[d])
    OBVIOUS
  <2>1. seen[d] /\ up[d] /\ up'[d]
    BY <1>1 DEF Tick
  <2>2. age'[d] <= age[d] + 1
    BY <1>1, <2>1, OlderFacts DEF Tick
  <2>3. silent'[d] = (silent[d] \/ age[d] >= Timeout)
    BY <1>1, <2>1 DEF Tick
  <2>4. age'[d] > Timeout => age[d] >= Timeout
    <3>1. age[d] \in Nat /\ age'[d] \in Nat
      BY <1>1, StepClocksOK
    <3>2. QED
      BY <2>2, <3>1
  <2>5. QED
    BY <2>1, <2>3, <2>4
<1>2. ASSUME NEW d \in Ctl, HeartbeatTask(d) PROVE SilenceInv'
  BY <1>2 DEF HeartbeatTask, HbSends, HbReceives
<1>3. ASSUME NEW d \in Ctl, Loop(d) PROVE SilenceInv'
  BY <1>3 DEF Loop, SetupDone, Pass, PassWithConfig, Sample, UpdateFails, ReadPeer, Decide
<1>4. ASSUME NEW d \in Ctl, Environment(d) PROVE SilenceInv'
  <2>1. CASE Off(d)
    BY <2>1 DEF Off
  <2>2. CASE PowerOn(d)
    BY <2>2 DEF PowerOn
  <2>3. QED
    BY <1>4, <2>1, <2>2 DEF Environment, FrameLost, StartUpdate, UpdateRestarts, Crash,
                            GoesOffline, ComesOnline
<1>5. CASE UNCHANGED vars
  BY <1>5 DEF vars
<1>6. QED
  BY <1>1, <1>2, <1>3, <1>4, <1>5 DEF Next

\* Only ReadPeer leads from "pass" to "read".
LEMMA ReadsPeer ==
  ASSUME TypeOK, NEW d \in Ctl, [Next]_vars, pc[d] = "pass", pc'[d] = "read"
  PROVE  ReadPeer(d)
<1> USE DEF TypeOK, FlagsOK
<1>1. ~UNCHANGED pc
  OBVIOUS
<1>2. PICK e \in Ctl : SetupDone(e) \/ Pass(e) \/ (\E c \in Enabled : PassWithConfig(e, c))
                       \/ ReadPeer(e) \/ Decide(e) \/ Off(e)
  BY <1>1 DEF Next, vars, Tick, HeartbeatTask, HbSends, HbReceives, Loop, UpdateFails, Environment,
              FrameLost, StartUpdate, UpdateRestarts, Crash, PowerOn, GoesOffline, ComesOnline
<1>3. e = d /\ ~(SetupDone(e) \/ Pass(e) \/ (\E c \in Enabled : PassWithConfig(e, c)) \/ Decide(e) \/ Off(e))
  BY <1>2 DEF SetupDone, Pass, PassWithConfig, Sample, ReadPeer, Decide, Off
<1>4. QED
  BY <1>2, <1>3

\* The comparison of peerAlive errs only when a frame was stamped after now.
THEOREM DeathHasReason == Spec => DeadMeansSilentOrOvertaken
<1>1. Init => SilenceInv
  BY DEF Init, SilenceInv
<1>2. TypeOK /\ SilenceInv /\ [Next]_vars => SilenceInv'
  BY StepSilenceInv
<1>3. TypeOK /\ SilenceInv /\ [Next]_vars => [OnlySilentOrOvertaken]_vars
  <2> SUFFICES ASSUME TypeOK, SilenceInv, [Next]_vars,
                      NEW d \in Ctl, pc[d] = "pass", pc'[d] = "read", seen[d], ~alive'[d],
                      ~silent[d], ~(age[d] < lag[d])
               PROVE  FALSE
    BY DEF OnlySilentOrOvertaken
  <2>1. ReadPeer(d)
    BY ReadsPeer
  <2>2. age[d] - lag[d] \in 0 .. Width - 1 /\ age[d] <= Timeout
    BY TimeAssumption DEF TypeOK, ClocksOK, SilenceInv
  <2>3. (age[d] - lag[d]) % Width = age[d] - lag[d]
    BY <2>2, NoBorrow, TimeAssumption
  <2>4. alive'[d] = PeerAlive(d)
    BY <2>1 DEF ReadPeer, TypeOK, FlagsOK
  <2>5. PeerAlive(d)
    BY <2>2, <2>3, TimeAssumption DEF PeerAlive, TypeOK, ClocksOK
  <2>6. QED
    BY <2>4, <2>5
<1>4. QED
  BY <1>1, <1>2, <1>3, Typing, PTL DEF Spec, DeadMeansSilentOrOvertaken, OnlySilentOrOvertaken

-----------------------------------------------------------------------------
(* No silence without a failure. *)

\* The timeout outlasts the longest period for each frame that may be lost and one for
\* the frame that arrives.
Calm == (1 + MaxLost) * HbMax <= Timeout

Undisturbed == crashes = 0 /\ updates = 0

\* The longest a controller can have waited for a frame when the next is due.
Patience(n) == (1 + n) * HbMax

\* The longest time until d sends the next frame.
Due(d) == HbMax - sent[d]

\* Everyone has power.  The time since the last frame and the time to the next make up
\* no more than the longest period, and as much for each frame lost in between; a frame
\* on the wire has just been sent.
PeriodInv ==
  /\ \A d \in Ctl : up[d] /\ ~updating[d] /\ ~silent[d]
  /\ \A d \in Ctl : seen[d] /\ ~wire[d] => age[d] + Due(Peer(d)) <= Patience(lost)
  /\ \A d \in Ctl : wire[d] => sent[Peer(d)] = 0 /\ (seen[d] => age[d] <= Patience(lost))
  /\ \A d \in Ctl : wire[d] \/ seen[d] => Watches(d)

LEMMA PatienceFacts ==
  ASSUME NEW n \in 0 .. MaxLost
  PROVE  /\ Patience(n) \in Nat /\ Patience(n + 1) = Patience(n) + HbMax
         /\ HbMax <= Patience(n) /\ (Calm => Patience(n) <= Timeout)
<1>1. HbMax \in Nat /\ MaxLost \in Nat
  BY TimeAssumption
<1>2. Patience(n) = n * HbMax + HbMax /\ Patience(n + 1) = n * HbMax + HbMax + HbMax
  BY <1>1 DEF Patience
<1>3. n * HbMax \in Nat
  BY <1>1
<1>4. ASSUME Calm PROVE n * HbMax + HbMax <= Timeout
  <2>1. PICK k \in Nat : MaxLost = n + k
    <3>1. MaxLost - n \in Nat /\ MaxLost = n + (MaxLost - n)
      BY <1>1
    <3>2. QED
      BY <3>1
  <2>2. (1 + MaxLost) * HbMax = n * HbMax + HbMax + k * HbMax /\ k * HbMax \in Nat
    BY <1>1, <2>1
  <2>3. QED
    BY <1>3, <1>4, <2>2, <1>1, TimeAssumption DEF Calm
<1>5. QED
  BY <1>1, <1>2, <1>3, <1>4

LEMMA InitPeriodInv == Init => PeriodInv
  BY TimeAssumption DEF Init, PeriodInv

LEMMA StepPeriodInv ==
  ASSUME Calm, Undisturbed', TypeOK, PeriodInv, [Next]_vars
  PROVE  PeriodInv'
<1> USE DEF clock, link, config, verdict, spans, env
<1>0. /\ lost \in 0 .. MaxLost /\ Patience(lost) \in Nat /\ HbMax <= Patience(lost)
      /\ HbMax \in Nat \ {0} /\ HbMin \in Nat \ {0} /\ Timeout \in Nat /\ Patience(lost) <= Timeout
      /\ sent \in [Ctl -> 0 .. HbMax] /\ age \in [Ctl -> 0 .. Width - 1]
      /\ sent' \in [Ctl -> 0 .. HbMax] /\ age' \in [Ctl -> 0 .. Width - 1]
  BY PatienceFacts, StepTypeOK, TimeAssumption DEF TypeOK, ClocksOK
<1>1. CASE Tick
  <2>1. /\ lost' = lost /\ wire' = wire /\ seen' = seen /\ up' = up /\ updating' = updating
        /\ \A d \in Ctl : ~wire[d] /\ sent[d] < HbMax
    BY <1>0, <1>1 DEF Tick, Urgent, Overdue, PeriodInv
  <2>2. ASSUME NEW d \in Ctl, seen[d]
        PROVE  /\ age'[d] <= age[d] + 1 /\ sent'[Peer(d)] = sent[Peer(d)] + 1
               /\ age[d] + (HbMax - sent[Peer(d)]) <= Patience(lost)
    <3>1. Watches(d) /\ up[d] /\ up[Peer(d)] /\ Peer(d) \in Ctl /\ Peer(Peer(d)) = d
      BY <2>2, PeerFacts DEF PeriodInv
    <3>2. age'[d] <= age[d] + 1
      BY <1>1, <2>2, <3>1, OlderFacts DEF Tick, TypeOK
    <3>3. sent'[Peer(d)] = sent[Peer(d)] + 1
      BY <1>1, <3>1 DEF Tick
    <3>4. QED
      BY <2>1, <2>2, <3>2, <3>3 DEF PeriodInv, Due
  <2>3. ASSUME NEW d \in Ctl PROVE ~silent'[d]
    <3>1. CASE seen[d]
      <4>1. age[d] + (HbMax - sent[Peer(d)]) <= Patience(lost)
        BY <2>2, <3>1
      <4>2. sent[Peer(d)] < HbMax /\ sent[Peer(d)] \in Nat /\ age[d] \in Nat
        BY <1>0, <2>1, PeerFacts
      <4>3. age[d] < Timeout
        <5>1. HbMax - sent[Peer(d)] >= 1 /\ HbMax - sent[Peer(d)] \in Int
          BY <1>0, <4>2
        <5>2. age[d] + 1 <= Patience(lost)
          BY <1>0, <4>1, <4>2, <5>1
        <5>3. QED
          BY <1>0, <4>2, <5>2
      <4>4. ~(age[d] >= Timeout)
        BY <1>0, <4>2, <4>3
      <4>5. ~silent[d] /\ silent'[d] = (up[d] /\ seen[d] /\ (silent[d] \/ age[d] >= Timeout))
        BY <1>1 DEF Tick, PeriodInv
      <4>6. QED
        BY <4>4, <4>5
    <3>2. CASE ~seen[d]
      BY <1>1, <3>2 DEF Tick
    <3>3. QED
      BY <3>1, <3>2
  <2>4. ASSUME NEW d \in Ctl, seen[d] PROVE age'[d] + (HbMax - sent'[Peer(d)]) <= Patience(lost)
    BY <1>0, <2>2, <2>4, PeerFacts
  <2>5. QED
    BY <2>1, <2>3, <2>4 DEF PeriodInv, Patience, Due, Watches
<1>2. ASSUME NEW d \in Ctl, HbSends(d) PROVE PeriodInv'
  <2>1. /\ lost' = lost /\ age' = age /\ seen' = seen /\ up' = up /\ updating' = updating /\ silent' = silent
        /\ sent' = [sent EXCEPT ![d] = 0] /\ wire' = [wire EXCEPT ![Peer(d)] = TRUE]
        /\ Watches(Peer(d)) /\ ~wire[Peer(d)]
    <3>1. sent[d] >= HbMin /\ Watches(Peer(d)) /\ Peer(d) \in Ctl /\ Peer(Peer(d)) = d
      BY <1>2, PeerFacts DEF HbSends, FrameDue
    <3>2. ~wire[Peer(d)]
      BY <1>0, <3>1 DEF PeriodInv
    <3>3. wire' = [wire EXCEPT ![Peer(d)] = TRUE]
      BY <1>2, <3>1 DEF HbSends, PeriodInv
    <3>4. QED
      BY <1>2, <3>1, <3>2, <3>3 DEF HbSends
  <2>2. ASSUME NEW e \in Ctl, e = Peer(d), seen[e] PROVE age[e] <= Patience(lost)
    <3>1. age[e] + (HbMax - sent[d]) <= Patience(lost)
      BY <2>1, <2>2, PeerFacts DEF PeriodInv, Due
    <3>2. QED
      BY <1>0, <3>1
  <2>3. ASSUME NEW e \in Ctl, e # Peer(d) PROVE wire'[e] = wire[e] /\ sent'[Peer(e)] = sent[Peer(e)]
    BY <2>1, <2>3, PeerFacts, PairAssumption DEF TypeOK, FlagsOK
  <2>4. ASSUME NEW e \in Ctl, e = Peer(d) PROVE wire'[e] /\ sent'[Peer(e)] = 0
    BY <1>0, <2>1, <2>4, PeerFacts DEF TypeOK, FlagsOK
  <2>5. QED
    BY <2>1, <2>2, <2>3, <2>4 DEF PeriodInv, Patience, Due, Watches
<1>3. ASSUME NEW d \in Ctl, HbReceives(d) PROVE PeriodInv'
  <2>1. Watches(d) /\ sent[Peer(d)] = 0
    BY <1>3 DEF HbReceives, PeriodInv
  <2>2. /\ age'[d] = 0 /\ ~wire'[d] /\ \A e \in Ctl : e # d => age'[e] = age[e] /\ seen'[e] = seen[e] /\ wire'[e] = wire[e]
        /\ lost' = lost /\ sent' = sent /\ up' = up /\ updating' = updating
        /\ \A e \in Ctl : silent'[e] => silent[e]
    BY <1>3 DEF HbReceives, TypeOK, FlagsOK, ClocksOK
  <2>3. 0 + (HbMax - sent'[Peer(d)]) <= Patience(lost)
    BY <1>0, <2>1, <2>2
  <2>4. QED
    BY <2>1, <2>2, <2>3 DEF PeriodInv, Patience, Due, Watches
<1>4. ASSUME NEW d \in Ctl, FrameLost(d) PROVE PeriodInv'
  <2>1. Patience(lost') = Patience(lost) + HbMax /\ Patience(lost') \in Nat
    BY <1>0, <1>4, PatienceFacts DEF FrameLost, Patience
  <2>2. ASSUME NEW e \in Ctl, seen[e] PROVE age[e] + (HbMax - sent[Peer(e)]) <= Patience(lost')
    <3>1. wire[e] => age[e] <= Patience(lost)
      BY <2>2 DEF PeriodInv
    <3>2. ~wire[e] => age[e] + (HbMax - sent[Peer(e)]) <= Patience(lost)
      BY <2>2 DEF PeriodInv, Due
    <3>3. age[e] \in Nat /\ sent[Peer(e)] \in 0 .. HbMax
      BY <1>0, PeerFacts
    <3>4. QED
      BY <1>0, <2>1, <3>1, <3>2, <3>3
  <2>3. ASSUME NEW e \in Ctl, wire[e], seen[e] PROVE age[e] <= Patience(lost')
    BY <1>0, <2>1, <2>3 DEF PeriodInv
  <2>4. \A e \in Ctl : wire'[e] => wire[e]
    BY <1>4 DEF FrameLost, TypeOK, FlagsOK
  <2>5. UNCHANGED <<up, updating, silent, seen, age, sent>>
    BY <1>4 DEF FrameLost
  <2>6. QED
    BY <2>2, <2>3, <2>4, <2>5 DEF PeriodInv, Due, Watches
<1>5. ASSUME NEW d \in Ctl, Loop(d) PROVE PeriodInv'
  <2>1. UNCHANGED <<up, seen, age, sent, wire, silent, lost>> /\ \A e \in Ctl : updating'[e] => updating[e]
    BY <1>5 DEF Loop, SetupDone, Pass, PassWithConfig, Sample, UpdateFails, ReadPeer, Decide,
                TypeOK, FlagsOK
  <2>2. QED
    BY <2>1 DEF PeriodInv, Patience, Due, Watches
<1>6. ASSUME NEW d \in Ctl, Environment(d), ~FrameLost(d) PROVE PeriodInv'
  <2>1. ~StartUpdate(d) /\ ~Crash(d) /\ ~UpdateRestarts(d) /\ ~PowerOn(d)
    BY TimeAssumption DEF Undisturbed, StartUpdate, Crash, UpdateRestarts, PowerOn, PeriodInv, TypeOK
  <2>2. UNCHANGED <<up, seen, age, sent, wire, silent, lost, updating>>
    BY <1>6, <2>1 DEF Environment, GoesOffline, ComesOnline
  <2>3. QED
    BY <2>2 DEF PeriodInv, Patience, Due, Watches
<1>7. CASE UNCHANGED vars
  BY <1>7 DEF vars, PeriodInv, Patience, Due, Watches
<1>8. QED
  BY <1>1, <1>2, <1>3, <1>4, <1>5, <1>6, <1>7 DEF Next, HeartbeatTask

\* Failures are counted and never forgotten.
LEMMA StaysDisturbed ==
  ASSUME TypeOK, [Next]_vars, Undisturbed'
  PROVE  Undisturbed
<1> USE DEF env, Undisturbed
<1>1. CASE Tick
  BY <1>1 DEF Tick
<1>2. ASSUME NEW d \in Ctl, HeartbeatTask(d) PROVE Undisturbed
  BY <1>2 DEF HeartbeatTask, HbSends, HbReceives
<1>3. ASSUME NEW d \in Ctl, Loop(d) PROVE Undisturbed
  BY <1>3 DEF Loop, SetupDone, Pass, PassWithConfig, Sample, UpdateFails, ReadPeer, Decide
<1>4. ASSUME NEW d \in Ctl, Environment(d) PROVE Undisturbed
  BY <1>4, TimeAssumption DEF TypeOK, Environment, FrameLost, StartUpdate, UpdateRestarts, Crash,
                              PowerOn, GoesOffline, ComesOnline
<1>5. CASE UNCHANGED vars
  BY <1>5 DEF vars
<1>6. QED
  BY <1>1, <1>2, <1>3, <1>4, <1>5 DEF Next

\* With the HB_SEND_MS of 500, polled every 5 ms on both boards, and the HB_TIMEOUT_MS of
\* 2000 of DeviceConfig.h, two lost frames are not taken for a dead primary.  Three are four
\* periods, and those take longer than the timeout.
THEOREM CalmIsNotSilent == ASSUME Calm PROVE Spec => []NoSilenceWithoutFailure
<1> DEFINE Inv == Undisturbed => PeriodInv
<1>1. Init => Inv
  BY InitPeriodInv
<1>2. TypeOK /\ Inv /\ [Next]_vars => Inv'
  BY StepPeriodInv, StaysDisturbed
<1>3. Inv => NoSilenceWithoutFailure
  BY DEF Undisturbed, PeriodInv, NoSilenceWithoutFailure
<1> HIDE DEF Inv
<1>4. QED
  BY <1>1, <1>2, <1>3, Typing, PTL DEF Spec

-----------------------------------------------------------------------------
(* The verdict of a pass stands until the next. *)

\* What peerAlive told the pass is what it would tell now, unless a frame
\* arrived after the sample; the standby's decision follows from it.
VerdictInv ==
  /\ \A d \in Ctl : ~up[d] => pc[d] = "setup"
  /\ \A d \in Ctl : pc[d] = "setup" => ~configured[d]
  /\ \A d \in Ctl : pc[d] = "read" /\ seen[d] /\ age[d] > lag[d] =>
                     (alive[d] <=> age[d] - lag[d] <= Timeout)
  /\ StandbyVerdict

\* One tick moves sample and stamp into the past alike, and the largest age the
\* model keeps is still a silence.
LEMMA TickKeepsDistance ==
  ASSUME ~Wraps, TypeOK, VerdictInv, Tick, NEW d \in Ctl, pc[d] # "setup", seen'[d], age'[d] > lag'[d]
  PROVE  seen[d] /\ age[d] > lag[d] /\ (age[d] - lag[d] <= Timeout <=> age'[d] - lag'[d] <= Timeout)
<1>1. up[d] /\ seen[d] /\ seen' = seen
  BY DEF VerdictInv, Tick
<1>2. lag'[d] = lag[d] + 1 /\ age'[d] = IF age[d] = Width - 1 THEN age[d] ELSE age[d] + 1
  BY <1>1, OlderFacts DEF Tick, TypeOK
<1>3. lag'[d] \in 0 .. MaxPass + MaxUpdate /\ lag[d] \in Nat /\ age[d] \in 0 .. Width - 1
  <2>1. ClocksOK'
    BY StepClocksOK DEF TypeOK, Next
  <2>2. QED
    BY <2>1, TimeAssumption DEF TypeOK, ClocksOK
<1>4. QED
  BY <1>1, <1>2, <1>3, TimeAssumption

LEMMA StepVerdictInv ==
  ASSUME ~Wraps, TypeOK, VerdictInv, [Next]_vars
  PROVE  VerdictInv'
<1> USE DEF clock, link, config, verdict, spans, env
<1>1. CASE Tick
  <2>1. \A d \in Ctl : pc'[d] = "read" /\ seen'[d] /\ age'[d] > lag'[d] =>
                       (alive'[d] <=> age'[d] - lag'[d] <= Timeout)
    <3> SUFFICES ASSUME NEW d \in Ctl, pc'[d] = "read", seen'[d], age'[d] > lag'[d]
                 PROVE  alive'[d] <=> age'[d] - lag'[d] <= Timeout
      OBVIOUS
    <3>1. pc[d] = "read" /\ alive'[d] = alive[d]
      BY <1>1 DEF Tick
    <3>2. seen[d] /\ age[d] > lag[d] /\ (age[d] - lag[d] <= Timeout <=> age'[d] - lag'[d] <= Timeout)
      BY <1>1, <3>1, TickKeepsDistance
    <3>3. QED
      BY <3>1, <3>2 DEF VerdictInv
  <2>2. StandbyVerdict'
    <3> SUFFICES ASSUME NEW d \in Ctl, Standby(d)', pc'[d] = "wait", seen'[d], enabled'[d], age'[d] > lag'[d]
                 PROVE  active'[d] <=> age'[d] - lag'[d] > Timeout
      BY DEF StandbyVerdict
    <3>1. Standby(d) /\ pc[d] = "wait" /\ enabled[d] /\ active'[d] = active[d]
      BY <1>1 DEF Tick, Standby
    <3>2. seen[d] /\ age[d] > lag[d] /\ (age[d] - lag[d] <= Timeout <=> age'[d] - lag'[d] <= Timeout)
      BY <1>1, <3>1, TickKeepsDistance
    <3>3. active[d] <=> age[d] - lag[d] > Timeout
      BY <3>1, <3>2 DEF VerdictInv, StandbyVerdict
    <3>4. age[d] - lag[d] \in Int /\ age'[d] - lag'[d] \in Int /\ Timeout \in Int
      BY StepClocksOK, TimeAssumption DEF TypeOK, ClocksOK
    <3>5. QED
      BY <3>1, <3>2, <3>3, <3>4
  <2>3. QED
    BY <1>1, <2>1, <2>2 DEF Tick, VerdictInv
<1>2. ASSUME NEW d \in Ctl, HeartbeatTask(d) PROVE VerdictInv'
  <2>1. CASE HbSends(d)
    BY <2>1 DEF HbSends, VerdictInv, StandbyVerdict, Standby
  <2>2. CASE HbReceives(d)
    BY <2>2 DEF HbReceives, VerdictInv, StandbyVerdict, Standby, TypeOK, FlagsOK, ClocksOK
  <2>3. QED
    BY <1>2, <2>1, <2>2 DEF HeartbeatTask
<1>3. ASSUME NEW d \in Ctl, SetupDone(d) PROVE VerdictInv'
  BY <1>3 DEF SetupDone, VerdictInv, StandbyVerdict, Standby, TypeOK, FlagsOK
<1>4. ASSUME NEW d \in Ctl, Sample(d), NEW c \in Ctl, pc'[c] \in {"setup", "wait", "read"},
             configured' = configured \/ configured' = [configured EXCEPT ![d] = TRUE],
             enabled' = enabled \/ \E e \in Enabled : enabled' = [enabled EXCEPT ![d] = e]
      PROVE  c # d /\ pc'[c] = pc[c] /\ lag'[c] = lag[c] /\ configured'[c] = configured[c]
             /\ enabled'[c] = enabled[c]
  BY <1>4 DEF Sample, TypeOK, FlagsOK, ClocksOK
<1>5. ASSUME NEW d \in Ctl, Pass(d) \/ \E e \in Enabled : PassWithConfig(d, e) PROVE VerdictInv'
  <2>1. /\ up' = up /\ seen' = seen /\ age' = age /\ alive' = alive /\ active' = active
        /\ up[d] /\ Sample(d)
    BY <1>5 DEF Pass, PassWithConfig, Sample
  <2>2. \A c \in Ctl : pc'[c] \in {"setup", "wait", "read"} =>
          c # d /\ pc'[c] = pc[c] /\ lag'[c] = lag[c] /\ configured'[c] = configured[c] /\ enabled'[c] = enabled[c]
    BY <1>4, <1>5, <2>1 DEF Pass, PassWithConfig
  <2>3. \A c \in Ctl : ~up'[c] => pc'[c] = "setup"
    BY <2>1, <2>2 DEF VerdictInv, Sample, TypeOK, FlagsOK
  <2>4. \A c \in Ctl : Standby(c)' => up[c] /\ configured'[c] /\ Role[c] = "standby"
    BY <2>1 DEF Standby
  <2>5. StandbyVerdict'
    BY <2>1, <2>2, <2>4 DEF VerdictInv, StandbyVerdict, Standby
  <2>6. QED
    BY <2>1, <2>2, <2>3, <2>5 DEF VerdictInv
<1>6. ASSUME NEW d \in Ctl, ReadPeer(d) PROVE VerdictInv'
  <2>1. seen[d] /\ age[d] > lag[d] => (PeerAlive(d) <=> age[d] - lag[d] <= Timeout)
    <3> SUFFICES ASSUME seen[d], age[d] > lag[d]
                 PROVE  PeerAlive(d) <=> age[d] - lag[d] <= Timeout
      OBVIOUS
    <3>1. age[d] - lag[d] \in 0 .. Width - 1
      BY TimeAssumption DEF TypeOK, ClocksOK
    <3>2. (age[d] - lag[d]) % Width = age[d] - lag[d]
      BY <3>1, NoBorrow, TimeAssumption
    <3>3. QED
      BY <3>2 DEF PeerAlive
  <2>2. QED
    BY <1>6, <2>1 DEF ReadPeer, VerdictInv, StandbyVerdict, Standby, TypeOK, FlagsOK
<1>7. ASSUME NEW d \in Ctl, Decide(d) PROVE VerdictInv'
  <2>1. ASSUME Standby(d), seen[d], enabled[d], age[d] > lag[d]
        PROVE  Sends(d) <=> age[d] - lag[d] > Timeout
    <3>1. alive[d] <=> age[d] - lag[d] <= Timeout
      BY <1>7, <2>1 DEF Decide, VerdictInv
    <3>2. Sends(d) <=> ~alive[d]
      BY <2>1 DEF Sends, TakesOver, Standby
    <3>3. QED
      BY <3>1, <3>2, TimeAssumption DEF TypeOK, ClocksOK
  <2>2. /\ \A c \in Ctl : active'[c] = IF c = d THEN Sends(d) ELSE active[c]
        /\ \A c \in Ctl : pc'[c] = IF c = d THEN "wait" ELSE pc[c]
        /\ up' = up /\ configured' = configured /\ enabled' = enabled /\ seen' = seen
        /\ age' = age /\ lag' = lag /\ alive' = alive /\ up[d]
    BY <1>7 DEF Decide, TypeOK, FlagsOK
  <2>3. StandbyVerdict'
    BY <2>1, <2>2 DEF VerdictInv, StandbyVerdict, Standby
  <2>4. QED
    BY <2>2, <2>3 DEF VerdictInv
<1>8. ASSUME NEW d \in Ctl, Off(d) PROVE VerdictInv'
  BY <1>8 DEF Off, VerdictInv, StandbyVerdict, Standby, TypeOK, FlagsOK, ClocksOK
<1>9. ASSUME NEW d \in Ctl, PowerOn(d) PROVE VerdictInv'
  BY <1>9 DEF PowerOn, VerdictInv, StandbyVerdict, Standby, TypeOK, FlagsOK
<1>10. ASSUME NEW d \in Ctl, UpdateFails(d) \/ FrameLost(d) \/ StartUpdate(d) \/ GoesOffline(d) \/ ComesOnline(d)
       PROVE VerdictInv'
  BY <1>10 DEF UpdateFails, FrameLost, StartUpdate, GoesOffline, ComesOnline, VerdictInv, StandbyVerdict, Standby
<1>11. CASE UNCHANGED vars
  BY <1>11 DEF vars, VerdictInv, StandbyVerdict, Standby
<1>12. QED
  BY <1>1, <1>2, <1>3, <1>5, <1>6, <1>7, <1>8, <1>9, <1>10, <1>11
     DEF Next, Loop, Environment, Crash, UpdateRestarts

\* As long as millis() does not come round within one silence, a standby sends
\* between two passes exactly when the silence it saw outlasts the timeout.
THEOREM VerdictIsRight == ASSUME ~Wraps PROVE Spec => []StandbyVerdict
<1>1. Init => VerdictInv
  BY DEF Init, VerdictInv, StandbyVerdict, Standby
<1>2. TypeOK /\ VerdictInv /\ [Next]_vars => VerdictInv'
  BY StepVerdictInv
<1>3. VerdictInv => StandbyVerdict
  BY DEF VerdictInv
<1>4. QED
  BY <1>1, <1>2, <1>3, Typing, PTL DEF Spec
=============================================================================
