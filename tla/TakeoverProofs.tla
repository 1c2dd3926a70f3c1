--------------------------- MODULE TakeoverProofs ---------------------------
(***************************************************************************)
(* What holds of a take-over and of its end, for every heartbeat period,   *)
(* timeout, pass length and bound on the failures: it is announced, it     *)
(* does not end by mistake, and it ends soon.                              *)
(***************************************************************************)
EXTENDS FailoverProofs

-----------------------------------------------------------------------------
(* A take-over is announced. *)

\* A standby that sends has followed the silence to lastHealthy, and the event of
\* each edge stands until the next.
AnnounceInv ==
  /\ outages = 0 => \A d \in Ctl : online[d]
  /\ \A d \in Ctl :
       /\ alive[d] => seen[d]
       /\ everHealthy[d] => configured[d]
       /\ Role[d] = "standby" /\ active[d] => ~lastHealthy[d]
       /\ outages = 0 /\ Role[d] = "standby" /\ everHealthy[d] /\ ~lastHealthy[d]
            => told[d] = "primary_down"
       /\ Role[d] = "standby" /\ lastHealthy[d] => everHealthy[d]
       /\ outages = 0 /\ Role[d] = "standby" /\ told[d] = "primary_down"
            => everHealthy[d] /\ ~lastHealthy[d]

LEMMA StepAnnounceInv ==
  ASSUME TypeOK, AnnounceInv, [Next]_vars
  PROVE  AnnounceInv'
<1> USE DEF clock, link, config, verdict, spans, env
<1>1. CASE Tick
  BY <1>1 DEF Tick, AnnounceInv
<1>2. ASSUME NEW d \in Ctl, HeartbeatTask(d) PROVE AnnounceInv'
  BY <1>2 DEF HeartbeatTask, HbSends, HbReceives, AnnounceInv, TypeOK, FlagsOK
<1>3. ASSUME NEW d \in Ctl, SetupDone(d) \/ Pass(d) \/ UpdateFails(d) PROVE AnnounceInv'
  BY <1>3 DEF SetupDone, Pass, Sample, UpdateFails, AnnounceInv
<1>4. ASSUME NEW d \in Ctl, NEW e \in Enabled, PassWithConfig(d, e) PROVE AnnounceInv'
  BY <1>4 DEF PassWithConfig, Sample, AnnounceInv, TypeOK, FlagsOK
<1>5. ASSUME NEW d \in Ctl, ReadPeer(d) PROVE AnnounceInv'
  BY <1>5 DEF ReadPeer, PeerAlive, AnnounceInv, TypeOK, FlagsOK
<1>6. ASSUME NEW d \in Ctl, Decide(d) PROVE AnnounceInv'
  <2>1. /\ outages' = outages /\ online' = online /\ alive' = alive /\ seen' = seen /\ configured' = configured
        /\ active' = [active EXCEPT ![d] = Sends(d)]
    BY <1>6 DEF Decide
  <2>2. CASE configured[d] /\ Role[d] = "standby"
    <3>1. /\ lastHealthy' = [lastHealthy EXCEPT ![d] = alive[d]]
          /\ everHealthy' = [everHealthy EXCEPT ![d] = @ \/ alive[d]]
          /\ told' = [told EXCEPT ![d] =
                 IF ~online[d] THEN @
                 ELSE IF PrimaryLost(d) THEN "primary_down"
                 ELSE IF PrimaryBack(d) THEN "primary_up" ELSE @]
      BY <1>6, <2>2 DEF Decide
    <3>2. Sends(d) => ~alive[d]
      BY <2>2 DEF Sends, TakesOver, AnnounceInv
    <3>3. ASSUME outages = 0, everHealthy'[d], ~lastHealthy'[d] PROVE told'[d] = "primary_down"
      <4>1. ~alive[d] /\ everHealthy[d] /\ online[d]
        BY <3>1, <3>3 DEF AnnounceInv, TypeOK, FlagsOK
      <4>2. ~lastHealthy[d] => told[d] = "primary_down"
        BY <2>2, <3>3, <4>1 DEF AnnounceInv
      <4>3. QED
        BY <3>1, <4>1, <4>2 DEF PrimaryLost, PrimaryBack, TypeOK, FlagsOK
    <3>4. lastHealthy'[d] => everHealthy'[d]
      BY <3>1 DEF TypeOK, FlagsOK
    <3>5. ASSUME outages = 0, told'[d] = "primary_down" PROVE everHealthy'[d] /\ ~lastHealthy'[d]
      <4>1. online[d] /\ (told[d] = "primary_down" => everHealthy[d] /\ ~lastHealthy[d])
        BY <2>2, <3>5 DEF AnnounceInv
      <4>2. ~alive[d] /\ everHealthy[d]
        BY <2>2, <3>1, <3>5, <4>1 DEF PrimaryLost, PrimaryBack, AnnounceInv, TypeOK, FlagsOK
      <4>3. QED
        BY <3>1, <4>2 DEF TypeOK, FlagsOK
    <3>6. ASSUME NEW c \in Ctl, c # d
          PROVE  /\ active'[c] = active[c] /\ lastHealthy'[c] = lastHealthy[c]
                 /\ everHealthy'[c] = everHealthy[c] /\ told'[c] = told[c]
      BY <2>1, <3>1, <3>6
    <3>7. active'[d] = Sends(d) /\ lastHealthy'[d] = alive[d]
      BY <2>1, <3>1 DEF TypeOK, FlagsOK
    <3>8. QED
      BY <2>1, <2>2, <3>2, <3>3, <3>4, <3>5, <3>6, <3>7 DEF AnnounceInv
  <2>3. CASE ~(configured[d] /\ Role[d] = "standby")
    <3>1. lastHealthy' = lastHealthy /\ everHealthy' = everHealthy /\ told' = told
      BY <1>6, <2>3 DEF Decide
    <3>2. Role[d] = "standby" => ~active'[d]
      BY <2>1, <2>3 DEF Sends, TypeOK, FlagsOK
    <3>3. \A c \in Ctl : c # d => active'[c] = active[c]
      BY <2>1
    <3>4. QED
      BY <2>1, <3>1, <3>2, <3>3 DEF AnnounceInv
  <2>4. QED
    BY <2>2, <2>3
<1>7. ASSUME NEW d \in Ctl, Crash(d) \/ UpdateRestarts(d) PROVE AnnounceInv'
  <2>1. Off(d) /\ outages' = outages
    BY <1>7 DEF Crash, UpdateRestarts
  <2>2. QED
    BY <2>1 DEF Off, AnnounceInv, TypeOK, FlagsOK
<1>8. ASSUME NEW d \in Ctl, FrameLost(d) \/ StartUpdate(d) \/ PowerOn(d) \/ GoesOffline(d) \/ ComesOnline(d)
      PROVE AnnounceInv'
  BY <1>8, TimeAssumption
     DEF FrameLost, StartUpdate, PowerOn, GoesOffline, ComesOnline, AnnounceInv, TypeOK, FlagsOK
<1>9. CASE UNCHANGED vars
  BY <1>9 DEF vars, AnnounceInv
<1>10. QED
  BY <1>1, <1>2, <1>3, <1>4, <1>5, <1>6, <1>7, <1>8, <1>9
     DEF Next, Loop, Environment

\* While no outage has cost an event, the last event of a standby that has known
\* its primary alive is primary_down exactly while it takes it for lost, and so
\* whenever it sends in its place.
THEOREM AnnouncesTakeover == Spec => []TakeoverAnnounced
<1>1. Init => AnnounceInv
  BY DEF Init, AnnounceInv
<1>2. TypeOK /\ AnnounceInv /\ [Next]_vars => AnnounceInv'
  BY StepAnnounceInv
<1>3. AnnounceInv => TakeoverAnnounced
  BY DEF AnnounceInv, TakeoverAnnounced, Standby
<1>4. QED
  BY <1>1, <1>2, <1>3, Typing, PTL DEF Spec

-----------------------------------------------------------------------------
(* Both send together only briefly. *)

\* One of the two watches the other, and a pass that begins after a frame is over
\* before the next, or the one after it begins with that.
ShortPasses ==
  /\ \E d \in Ctl : Watches(d)
  /\ 2 * MaxPass <= HbMin /\ MaxPass <= Timeout

\* What counts in both has a sender on either side; a frame on the wire has just
\* been sent.
SendingInv ==
  /\ both > 0 => \A d \in Ctl : Sending(d)
  /\ \A d \in Ctl : /\ active[d] => up[d] /\ pc[d] # "setup"
                    /\ alive[d] => seen[d]
                    /\ wire[d] => up[d] /\ sent[Peer(d)] = 0

\* The pass was sampled after the last frame, so it finds the peer alive.
SampledSince(d) ==
  /\ pc[d] \in {"pass", "read"} /\ (pc[d] = "read" => alive[d])
  /\ lag[d] <= age[d] /\ age[d] <= lag[d] + MaxPass /\ lag[d] <= MaxPass

\* No frame since the two send together: one is due.
Unheard(d) == both + (IF wire[d] THEN 0 ELSE HbMax - sent[Peer(d)]) <= Patience(lost)

\* A frame was heard meanwhile.  The pass it met may be lost on it, the next is not,
\* unless it lasts to the next frame.
Heard(d) ==
  /\ seen[d] /\ both <= Patience(lost) + age[d]
  /\ age[d] = sent[Peer(d)] \/ age[d] >= HbMin
  /\ wire[d] => age[d] >= HbMin
  /\ SampledSince(d) \/ (age[d] <= lag[d] /\ age[d] <= MaxPass)

\* ... which overtakes that pass at its very end, so that another begins at once.
HeardAgain(d) ==
  /\ seen[d] /\ both <= Patience(lost) + HbMax + age[d]
  /\ age[d] = sent[Peer(d)] /\ ~wire[d]
  /\ (SampledSince(d) /\ age[d] = lag[d]) \/ (age[d] = 0 /\ lag[d] >= MaxPass)

OverlapInv == \A d \in Ctl : Watches(d) => Unheard(d) \/ Heard(d) \/ HeardAgain(d)

LEMMA StepSendingInv ==
  ASSUME TypeOK, SendingInv, [Next]_vars
  PROVE  SendingInv'
<1> USE DEF clock, link, config, verdict, spans, env, Sending
<1>1. CASE Tick
  <2>1. both' > 0 => \A d \in Ctl : Sending(d)'
    BY <1>1 DEF Tick
  <2>2. \A d \in Ctl : ~wire[d]
    BY <1>1 DEF Tick, Urgent, SendingInv
  <2>3. QED
    BY <1>1, <2>1, <2>2 DEF Tick, SendingInv
<1>2. ASSUME NEW d \in Ctl, HbSends(d) PROVE SendingInv'
  <2>1. ASSUME NEW c \in Ctl, wire'[c] PROVE up'[c] /\ sent'[Peer(c)] = 0
    <3>1. CASE c = Peer(d)
      BY <1>2, <2>1, <3>1, PeerFacts DEF HbSends, FrameDue, SendingInv, TypeOK, FlagsOK, ClocksOK
    <3>2. CASE c # Peer(d)
      <4>1. c = d /\ Peer(c) # d
        BY <3>2, PeerFacts, PairAssumption
      <4>2. QED
        BY <1>2, <2>1, <3>2, <4>1 DEF HbSends, SendingInv
    <3>3. QED
      BY <3>1, <3>2
  <2>2. QED
    BY <1>2, <2>1 DEF HbSends, SendingInv
<1>3. ASSUME NEW d \in Ctl, HbReceives(d) PROVE SendingInv'
  BY <1>3 DEF HbReceives, SendingInv, TypeOK, FlagsOK
<1>4. ASSUME NEW d \in Ctl, SetupDone(d) \/ Pass(d) \/ UpdateFails(d) \/ \E e \in Enabled : PassWithConfig(d, e)
      PROVE SendingInv'
  BY <1>4 DEF SetupDone, Pass, PassWithConfig, Sample, UpdateFails, SendingInv, TypeOK, FlagsOK
<1>5. ASSUME NEW d \in Ctl, ReadPeer(d) PROVE SendingInv'
  BY <1>5 DEF ReadPeer, PeerAlive, SendingInv, TypeOK, FlagsOK
<1>6. ASSUME NEW d \in Ctl, Decide(d) PROVE SendingInv'
  <2>1. \A c \in Ctl : active'[c] = IF c = d THEN Sends(d) ELSE active[c]
    BY <1>6 DEF Decide, TypeOK, FlagsOK
  <2>2. both' > 0 => both' = both /\ Sends(d)
    BY <1>6 DEF Decide
  <2>3. QED
    BY <1>6, <2>1, <2>2 DEF Decide, SendingInv, TypeOK, FlagsOK
<1>7. ASSUME NEW d \in Ctl, Off(d) PROVE SendingInv'
  <2>1. ASSUME NEW c \in Ctl, wire'[c] PROVE up'[c] /\ sent'[Peer(c)] = 0
    BY <1>7, <2>1, PeerFacts DEF Off, SendingInv, TypeOK, FlagsOK, ClocksOK
  <2>2. QED
    BY <1>7, <2>1 DEF Off, SendingInv, TypeOK, FlagsOK
<1>8. ASSUME NEW d \in Ctl, FrameLost(d) \/ StartUpdate(d) \/ PowerOn(d) \/ GoesOffline(d) \/ ComesOnline(d)
      PROVE SendingInv'
  BY <1>8 DEF FrameLost, StartUpdate, PowerOn, GoesOffline, ComesOnline, SendingInv, TypeOK, FlagsOK
<1>9. CASE UNCHANGED vars
  BY <1>9 DEF vars, SendingInv
<1>10. QED
  BY <1>1, <1>2, <1>3, <1>4, <1>5, <1>6, <1>7, <1>8, <1>9
     DEF Next, HeartbeatTask, Loop, Environment, Crash, UpdateRestarts

\* When the two do not send together, a frame is due in time.
LEMMA NoOverlap ==
  ASSUME TypeOK', NEW d \in Ctl, both' = 0
  PROVE  Unheard(d)'
<1>1. Patience(lost') \in Nat /\ HbMax <= Patience(lost')
  BY PatienceFacts DEF TypeOK
<1>2. sent'[Peer(d)] \in 0 .. HbMax /\ HbMax \in Nat
  BY PeerFacts, TimeAssumption DEF TypeOK, ClocksOK
<1>3. QED
  BY <1>1, <1>2 DEF Unheard, Patience

LEMMA Numbers ==
  ASSUME ShortPasses, TypeOK, NEW d \in Ctl
  PROVE  /\ age[d] \in 0 .. Width - 1 /\ lag[d] \in Nat /\ sent[Peer(d)] \in 0 .. HbMax /\ both \in Nat
         /\ HbMin \in Nat \ {0} /\ HbMax \in Nat /\ HbMin <= HbMax /\ MaxPass \in Nat \ {0} /\ Timeout \in Nat /\ Width \in Nat
         /\ 2 * MaxPass <= HbMin /\ MaxPass <= Timeout /\ Width > 2 * MaxPass + 1
         /\ Patience(lost) \in Nat /\ HbMax <= Patience(lost)
<1>1. Patience(lost) \in Nat /\ HbMax <= Patience(lost)
  BY PatienceFacts DEF TypeOK
<1>2. QED
  BY <1>1, PeerFacts, TimeAssumption DEF TypeOK, ClocksOK, ShortPasses

\* A pass sampled since the last frame finds the peer alive.
LEMMA SampledFindsAlive ==
  ASSUME ShortPasses, TypeOK, NEW d \in Ctl, seen[d], SampledSince(d)
  PROVE  PeerAlive(d)
<1>1. age[d] - lag[d] \in 0 .. MaxPass /\ age[d] - lag[d] \in 0 .. Width - 1 /\ MaxPass <= Timeout
  BY Numbers DEF SampledSince
<1>2. (age[d] - lag[d]) % Width = age[d] - lag[d]
  BY <1>1, NoBorrow, TimeAssumption
<1>3. QED
  BY <1>1, <1>2, TimeAssumption DEF PeerAlive

LEMMA TickOverlap ==
  ASSUME ShortPasses, TypeOK, TypeOK', SendingInv, NEW d \in Ctl, Watches(d), Tick, both' # 0,
         Unheard(d) \/ Heard(d) \/ HeardAgain(d)
  PROVE  Unheard(d)' \/ Heard(d)' \/ HeardAgain(d)'
<1> DEFINE p == Peer(d)
<1> USE DEF clock, link, config, verdict, spans, env
<1>1. /\ p \in Ctl /\ Peer(p) = d
      /\ \A c \in Ctl : Sending(c) /\ up[c] /\ pc[c] # "setup" /\ ~updating[c]
      /\ both' <= both + 1 /\ both' \in Nat
  BY PeerFacts, TimeAssumption DEF Tick, Least, Sending, SendingInv, TypeOK, ClocksOK
<1>2. ~wire[d] /\ sent[p] < HbMax /\ lag[d] < MaxPass
  BY <1>1, Numbers DEF Tick, Urgent, Overdue
<1>3. /\ wire' = wire /\ seen' = seen /\ pc' = pc /\ alive' = alive /\ lost' = lost
      /\ lag'[d] = lag[d] + 1 /\ sent'[p] = sent[p] + 1
  BY <1>1 DEF Tick
<1>4. seen[d] /\ age[d] < Width - 1 => age'[d] = age[d] + 1
  <2> SUFFICES ASSUME seen[d], age[d] < Width - 1 PROVE age'[d] = age[d] + 1
    OBVIOUS
  <2>1. age'[d] = Older(d)
    BY <1>1 DEF Tick
  <2>2. age[d] + 1 \in 0 .. Width - 1
    BY Numbers
  <2>3. (age[d] + 1) % Width = age[d] + 1
    BY <2>2, NoBorrow, TimeAssumption
  <2>4. QED
    BY <2>1, <2>2, <2>3, Numbers DEF Older, Least
<1>5. CASE Unheard(d)
  <2>1. Unheard(d)'
    BY <1>1, <1>2, <1>3, <1>5, Numbers DEF Unheard, Patience
  <2>2. QED
    BY <2>1
<1>6. CASE Heard(d)
  <2>1. seen[d] /\ age[d] < 2 * MaxPass /\ age[d] < Width - 1 /\ age[d] < HbMin
    BY <1>2, <1>6, Numbers DEF Heard, SampledSince
  <2>2. age'[d] = age[d] + 1 /\ age[d] = sent[p]
    BY <1>4, <1>6, <2>1, Numbers DEF Heard
  <2>3. both' <= Patience(lost') + age'[d] /\ age'[d] = sent'[p]
    BY <1>1, <1>3, <1>6, <2>2, Numbers DEF Heard, Patience
  <2>4. SampledSince(d)' \/ (age'[d] <= lag'[d] /\ age'[d] <= MaxPass)
    BY <1>2, <1>3, <1>6, <2>2, Numbers DEF Heard, SampledSince
  <2>5. Heard(d)'
    BY <1>2, <1>3, <2>1, <2>3, <2>4 DEF Heard
  <2>6. QED
    BY <2>5
<1>7. CASE HeardAgain(d)
  <2>1. seen[d] /\ SampledSince(d) /\ age[d] = lag[d] /\ age[d] < Width - 1
    BY <1>2, <1>7, Numbers DEF HeardAgain
  <2>2. age'[d] = age[d] + 1
    BY <1>4, <2>1
  <2>3. both' <= Patience(lost') + HbMax + age'[d] /\ age'[d] = sent'[p]
    BY <1>1, <1>3, <1>7, <2>2, Numbers DEF HeardAgain, Patience
  <2>4. SampledSince(d)' /\ age'[d] = lag'[d]
    BY <1>2, <1>3, <2>1, <2>2, Numbers DEF SampledSince
  <2>5. HeardAgain(d)'
    BY <1>2, <1>3, <2>1, <2>3, <2>4 DEF HeardAgain
  <2>6. QED
    BY <2>5
<1>8. QED
  BY <1>5, <1>6, <1>7

\* A step that leaves what the standby hears and reads alone.
LEMMA QuietOverlap ==
  ASSUME NEW d \in Ctl, Unheard(d) \/ Heard(d) \/ HeardAgain(d),
         both' = both, lost' = lost, wire'[d] = wire[d], sent'[Peer(d)] = sent[Peer(d)], seen'[d] = seen[d],
         age'[d] = age[d], lag'[d] = lag[d], pc'[d] = pc[d], alive'[d] = alive[d]
  PROVE  Unheard(d)' \/ Heard(d)' \/ HeardAgain(d)'
<1>1. Patience(lost') = Patience(lost) /\ (SampledSince(d)' <=> SampledSince(d))
  BY DEF Patience, SampledSince
<1>2. QED
  BY <1>1 DEF Unheard, Heard, HeardAgain

LEMMA FramesOverlap ==
  ASSUME ShortPasses, TypeOK, TypeOK', SendingInv, NEW d \in Ctl, Watches(d), both' # 0,
         Unheard(d) \/ Heard(d) \/ HeardAgain(d),
         NEW c \in Ctl, HeartbeatTask(c) \/ FrameLost(c)
  PROVE  Unheard(d)' \/ Heard(d)' \/ HeardAgain(d)'
<1> USE DEF clock, link, config, verdict, spans, env
<1>0. Peer(d) \in Ctl /\ Peer(d) # d /\ Peer(Peer(d)) = d /\ (c = d \/ c = Peer(d))
  BY PeerFacts, PairAssumption
<1>1. ASSUME HbSends(c), c = Peer(d) PROVE Unheard(d)' \/ Heard(d)' \/ HeardAgain(d)'
  <2>1. /\ sent[c] >= HbMin /\ sent'[c] = 0 /\ both' = both /\ lost' = lost /\ seen' = seen
        /\ age' = age /\ lag' = lag /\ pc' = pc /\ alive' = alive
    BY <1>1 DEF HbSends, FrameDue, TypeOK, ClocksOK
  <2>2. up[d] /\ ~updating[c] /\ wire'[d]
    <3>1. Sending(c) /\ Sending(d)
      BY <2>1, Numbers DEF SendingInv
    <3>2. QED
      BY <1>0, <1>1, <3>1 DEF HbSends, Sending, SendingInv, TypeOK, FlagsOK
  <2>3. CASE Unheard(d)
    BY <1>0, <1>1, <2>1, <2>2, <2>3, Numbers DEF Unheard, Patience
  <2>4. CASE Heard(d)
    <3>1. age[d] >= HbMin
      BY <1>1, <2>1, <2>4, Numbers DEF Heard
    <3>2. Heard(d)'
      BY <1>1, <2>1, <2>2, <2>4, <3>1 DEF Heard, SampledSince, Patience
    <3>3. QED
      BY <3>2
  <2>5. CASE HeardAgain(d)
    <3>1. FALSE
      BY <1>1, <2>1, <2>5, Numbers DEF HeardAgain, SampledSince
    <3>2. QED
      BY <3>1
  <2>6. QED
    BY <2>3, <2>4, <2>5
<1>2. ASSUME HbSends(c), c = d PROVE Unheard(d)' \/ Heard(d)' \/ HeardAgain(d)'
  BY <1>0, <1>2, QuietOverlap DEF HbSends
<1>3. ASSUME HbReceives(c), c = d PROVE Unheard(d)' \/ Heard(d)' \/ HeardAgain(d)'
  <2>1. /\ wire[d] /\ ~wire'[d] /\ seen'[d] /\ age'[d] = 0 /\ sent[Peer(d)] = 0
        /\ sent' = sent /\ both' = both /\ lost' = lost /\ lag' = lag
    BY <1>3 DEF HbReceives, SendingInv, TypeOK, FlagsOK, ClocksOK
  <2>2. CASE Unheard(d)
    BY <2>1, <2>2, Numbers DEF Unheard, Heard, Patience
  <2>3. CASE Heard(d)
    <3>1. age[d] = HbMin /\ lag[d] >= MaxPass
      BY <2>1, <2>3, Numbers DEF Heard, SampledSince
    <3>2. HeardAgain(d)'
      BY <2>1, <2>3, <3>1, Numbers DEF Heard, HeardAgain, Patience
    <3>3. QED
      BY <3>2
  <2>4. CASE HeardAgain(d)
    BY <2>1, <2>4 DEF HeardAgain
  <2>5. QED
    BY <2>2, <2>3, <2>4
<1>4. ASSUME HbReceives(c), c # d PROVE Unheard(d)' \/ Heard(d)' \/ HeardAgain(d)'
  BY <1>4, QuietOverlap DEF HbReceives, TypeOK, FlagsOK, ClocksOK
<1>5. ASSUME FrameLost(c) PROVE Unheard(d)' \/ Heard(d)' \/ HeardAgain(d)'
  <2>1. /\ (wire'[d] => wire[d]) /\ (wire[d] => sent[Peer(d)] = 0)
        /\ sent' = sent /\ both' = both /\ seen' = seen /\ age' = age /\ lag' = lag /\ pc' = pc /\ alive' = alive
        /\ lost' = lost + 1 /\ lost \in 0 .. MaxLost
    BY <1>5 DEF FrameLost, SendingInv, TypeOK, FlagsOK
  <2>2. Patience(lost') = Patience(lost) + HbMax
    BY <2>1, PatienceFacts
  <2>3. CASE Unheard(d)
    <3>1. both + (HbMax - sent[Peer(d)]) <= Patience(lost) + HbMax
      BY <2>1, <2>3, Numbers DEF Unheard
    <3>2. both' + (HbMax - sent'[Peer(d)]) <= Patience(lost') /\ both' <= Patience(lost')
      BY <2>1, <2>2, <3>1, Numbers
    <3>3. Unheard(d)'
      BY <2>1, <3>2, Numbers DEF Unheard, Patience
    <3>4. QED
      BY <3>3
  <2>4. CASE Heard(d)
    <3>1. both' <= Patience(lost') + age'[d]
      BY <2>1, <2>2, <2>4, Numbers DEF Heard
    <3>2. Heard(d)'
      BY <2>1, <2>4, <3>1 DEF Heard, SampledSince, Patience
    <3>3. QED
      BY <3>2
  <2>5. CASE HeardAgain(d)
    <3>1. both' <= Patience(lost') + HbMax + age'[d]
      BY <2>1, <2>2, <2>5, Numbers DEF HeardAgain
    <3>2. HeardAgain(d)'
      BY <2>1, <2>5, <3>1 DEF HeardAgain, SampledSince, Patience
    <3>3. QED
      BY <3>2
  <2>6. QED
    BY <2>3, <2>4, <2>5
<1>6. QED
  BY <1>0, <1>1, <1>2, <1>3, <1>4, <1>5 DEF HeartbeatTask

LEMMA LoopOverlap ==
  ASSUME ShortPasses, TypeOK, TypeOK', SendingInv, NEW d \in Ctl, Watches(d), both' # 0,
         Unheard(d) \/ Heard(d) \/ HeardAgain(d), NEW c \in Ctl, Loop(c)
  PROVE  Unheard(d)' \/ Heard(d)' \/ HeardAgain(d)'
<1> USE DEF clock, link, config, verdict, spans, env
<1>1. ASSUME c # d, ~Decide(c) PROVE Unheard(d)' \/ Heard(d)' \/ HeardAgain(d)'
  BY <1>1, QuietOverlap DEF Loop, SetupDone, Pass, PassWithConfig, Sample, UpdateFails, ReadPeer,
                            TypeOK, FlagsOK, ClocksOK
<1>2. ASSUME Decide(c) PROVE both' = both /\ Sends(c)
  BY <1>2 DEF Decide
<1>3. ASSUME c # d, Decide(c) PROVE Unheard(d)' \/ Heard(d)' \/ HeardAgain(d)'
  BY <1>2, <1>3, QuietOverlap DEF Decide
<1>4. ASSUME c = d, UpdateFails(d) PROVE Unheard(d)' \/ Heard(d)' \/ HeardAgain(d)'
  BY <1>4, QuietOverlap DEF UpdateFails
<1>5. ~SetupDone(d)
  <2> SUFFICES ASSUME SetupDone(d) PROVE FALSE
    OBVIOUS
  <2>1. both # 0 /\ pc[d] = "setup"
    BY DEF SetupDone
  <2>2. QED
    BY <2>1, Numbers DEF SendingInv, Sending
<1>6. ASSUME Sample(d) PROVE Unheard(d)' \/ Heard(d)' \/ HeardAgain(d)'
  <2>1. /\ pc[d] = "wait" /\ pc'[d] = "pass" /\ lag'[d] = 0
        /\ both' = both /\ lost' = lost /\ wire' = wire /\ sent' = sent /\ seen' = seen /\ age' = age
    BY <1>6 DEF Sample, TypeOK, FlagsOK, ClocksOK
  <2>2. CASE Unheard(d)
    BY <2>1, <2>2 DEF Unheard, Patience
  <2>3. CASE Heard(d)
    <3>1. age[d] <= MaxPass
      BY <2>1, <2>3 DEF Heard, SampledSince
    <3>2. SampledSince(d)'
      BY <2>1, <3>1, Numbers DEF SampledSince
    <3>3. Heard(d)'
      BY <2>1, <2>3, <3>2 DEF Heard, Patience
    <3>4. QED
      BY <3>3
  <2>4. CASE HeardAgain(d)
    <3>1. age[d] = 0
      BY <2>1, <2>4 DEF HeardAgain, SampledSince
    <3>2. SampledSince(d)'
      BY <2>1, <3>1, Numbers DEF SampledSince
    <3>3. HeardAgain(d)'
      BY <2>1, <2>4, <3>1, <3>2 DEF HeardAgain, Patience
    <3>4. QED
      BY <3>3
  <2>5. QED
    BY <2>2, <2>3, <2>4
<1>7. ASSUME ReadPeer(d) PROVE Unheard(d)' \/ Heard(d)' \/ HeardAgain(d)'
  <2>1. /\ pc'[d] = "read" /\ alive'[d] = PeerAlive(d) /\ lag' = lag
        /\ both' = both /\ lost' = lost /\ wire' = wire /\ sent' = sent /\ seen' = seen /\ age' = age
    BY <1>7 DEF ReadPeer, TypeOK, FlagsOK
  <2>2. seen[d] /\ SampledSince(d) => SampledSince(d)'
    BY <2>1, SampledFindsAlive DEF SampledSince
  <2>3. QED
    BY <2>1, <2>2 DEF Unheard, Heard, HeardAgain, Patience
<1>8. ASSUME Decide(d) PROVE Unheard(d)' \/ Heard(d)' \/ HeardAgain(d)'
  <2>1. /\ pc[d] = "read" /\ both' = both /\ Sends(d) /\ lag' = lag
        /\ lost' = lost /\ wire' = wire /\ sent' = sent /\ seen' = seen /\ age' = age
    BY <1>2, <1>8 DEF Decide
  <2>2. ~alive[d]
    BY <2>1 DEF Sends, TakesOver, Watches, SendingInv
  <2>3. ~SampledSince(d)
    BY <2>1, <2>2 DEF SampledSince
  <2>4. QED
    BY <2>1, <2>3 DEF Unheard, Heard, HeardAgain, Patience
<1>9. QED
  BY <1>1, <1>3, <1>4, <1>5, <1>6, <1>7, <1>8 DEF Loop, Pass, PassWithConfig

LEMMA StepOverlapInv ==
  ASSUME ShortPasses, TypeOK, SendingInv, OverlapInv, [Next]_vars
  PROVE  OverlapInv'
<1> SUFFICES ASSUME NEW d \in Ctl, Watches(d) PROVE Unheard(d)' \/ Heard(d)' \/ HeardAgain(d)'
  BY DEF OverlapInv, Watches
<1> USE DEF clock, link, config, verdict, spans, env
<1>1. TypeOK'
  BY StepTypeOK
<1>2. CASE both' = 0
  BY <1>1, <1>2, NoOverlap
<1>3. Unheard(d) \/ Heard(d) \/ HeardAgain(d)
  BY DEF OverlapInv
<1>4. CASE both' # 0 /\ Tick
  BY <1>1, <1>3, <1>4, TickOverlap
<1>5. ASSUME both' # 0, NEW c \in Ctl, HeartbeatTask(c) \/ FrameLost(c)
      PROVE Unheard(d)' \/ Heard(d)' \/ HeardAgain(d)'
  BY <1>1, <1>3, <1>5, FramesOverlap
<1>6. ASSUME both' # 0, NEW c \in Ctl, Loop(c) PROVE Unheard(d)' \/ Heard(d)' \/ HeardAgain(d)'
  BY <1>1, <1>3, <1>6, LoopOverlap
<1>7. ASSUME both' # 0, NEW c \in Ctl, Environment(c), ~FrameLost(c)
      PROVE Unheard(d)' \/ Heard(d)' \/ HeardAgain(d)'
  <2>1. ~StartUpdate(c) /\ ~Off(c)
    BY <1>7 DEF StartUpdate, Off
  <2>2. QED
    BY <1>3, <1>7, <2>1, QuietOverlap
       DEF Environment, UpdateRestarts, Crash, PowerOn, GoesOffline, ComesOnline
<1>8. CASE UNCHANGED vars
  BY <1>3, <1>8, QuietOverlap DEF vars
<1>9. QED
  BY <1>2, <1>4, <1>5, <1>6, <1>7, <1>8 DEF Next

\* Unless both controllers are primaries, and if a pass takes at most half a
\* heartbeat period, both send together for no longer than the periods of the lost
\* frames, two more, and one pass.
THEOREM OverlapIsShort == ASSUME ShortPasses PROVE Spec => []ShortOverlap
<1>1. Init => SendingInv /\ OverlapInv
  <2> SUFFICES ASSUME Init PROVE SendingInv /\ OverlapInv
    OBVIOUS
  <2>1. SendingInv
    BY TimeAssumption DEF Init, SendingInv
  <2>2. ASSUME NEW d \in Ctl PROVE Unheard(d)
    <3>1. lost \in 0 .. MaxLost /\ both = 0 /\ sent[Peer(d)] = 0
      BY InitTypeOK, PeerFacts DEF Init, TypeOK
    <3>2. QED
      BY <3>1, PatienceFacts, TimeAssumption DEF Unheard
  <2>3. QED
    BY <2>1, <2>2 DEF OverlapInv
<1>2. TypeOK /\ SendingInv /\ OverlapInv /\ [Next]_vars => SendingInv' /\ OverlapInv'
  BY StepSendingInv, StepOverlapInv
<1>3. TypeOK /\ OverlapInv => ShortOverlap
  <2> SUFFICES ASSUME TypeOK, OverlapInv PROVE ShortOverlap
    OBVIOUS
  <2>1. PICK d \in Ctl : Watches(d)
    BY DEF ShortPasses
  <2>2. Patience(lost) + HbMax <= (MaxLost + 2) * HbMax
    <3>1. PICK k \in Nat : MaxLost = lost + k
      <4>1. MaxLost - lost \in Nat /\ MaxLost = lost + (MaxLost - lost)
        BY TimeAssumption DEF TypeOK
      <4>2. QED
        BY <4>1
    <3>2. /\ (MaxLost + 2) * HbMax = lost * HbMax + k * HbMax + 2 * HbMax
          /\ k * HbMax \in Nat /\ lost * HbMax \in Nat
      BY <3>1, TimeAssumption DEF TypeOK
    <3>3. Patience(lost) + HbMax = lost * HbMax + 2 * HbMax
      BY TimeAssumption DEF TypeOK, Patience
    <3>4. QED
      BY <3>2, <3>3, TimeAssumption
  <2>3. both <= Patience(lost) + HbMax + MaxPass
    <3>1. CASE Unheard(d)
      BY <3>1, Numbers DEF Unheard
    <3>2. CASE Heard(d)
      BY <3>2, Numbers DEF Heard, SampledSince
    <3>3. CASE HeardAgain(d)
      BY <3>3, Numbers DEF HeardAgain, SampledSince
    <3>4. QED
      BY <2>1, <3>1, <3>2, <3>3 DEF OverlapInv
  <2>4. (MaxLost + 2) * HbMax \in Int
    BY TimeAssumption
  <2>5. QED
    BY <2>2, <2>3, <2>4, Numbers DEF ShortOverlap
<1>4. QED
  BY <1>1, <1>2, <1>3, Typing, PTL DEF Spec

-----------------------------------------------------------------------------
(* A silent primary is not taken for restored. *)

\* Two passes are over within the timeout, unless an update holds one up.
QuickPasses == 2 * MaxPass <= Timeout

\* The standby takes its peer for lost, and has known it alive.
GivenUp(d) == everHealthy[d] /\ ~lastHealthy[d]

PassInv ==
  \A d \in Ctl :
    /\ ~updating[d] /\ lag[d] <= MaxPass
    /\ pc[d] = "setup" => ~configured[d]
    /\ ~up[d] => pc[d] = "setup"
    /\ everHealthy[d] => configured[d] /\ seen[d] /\ Watches(d)
    /\ alive[d] => seen[d]
    /\ silent[d] => age[d] > Timeout

\* The peer was called dead for its silence, which still lasts for the pass under
\* way, or by a pass that a frame overtook, which the next pass will know of.
LostInv ==
  \A d \in Ctl :
    /\ pc[d] = "read" /\ seen[d] /\ ~alive[d] =>
         (silent[d] /\ age[d] - lag[d] > Timeout) \/ age[d] <= lag[d]
    /\ GivenUp(d) =>
         \/ silent[d] /\ (pc[d] \in {"pass", "read"} => age[d] - lag[d] > Timeout)
         \/ ~silent[d] /\ (age[d] <= lag[d] \/ SampledSince(d))

\* An update once begun stays counted.
LEMMA UpdatesCount ==
  ASSUME TypeOK, [Next]_vars, updates' = 0
  PROVE  updates = 0 /\ \A d \in Ctl : ~StartUpdate(d)
<1> USE DEF env
<1>1. \A d \in Ctl : ~StartUpdate(d)
  BY TimeAssumption DEF StartUpdate, TypeOK
<1>2. CASE Tick \/ UNCHANGED vars
  BY <1>1, <1>2 DEF Tick, vars
<1>3. ASSUME NEW d \in Ctl, HeartbeatTask(d) \/ Loop(d) PROVE updates = 0
  BY <1>3 DEF HeartbeatTask, HbSends, HbReceives, Loop, SetupDone, Pass, PassWithConfig, Sample,
              UpdateFails, ReadPeer, Decide
<1>4. ASSUME NEW d \in Ctl, Environment(d) PROVE updates = 0
  BY <1>1, <1>4 DEF Environment, FrameLost, UpdateRestarts, Crash, PowerOn, GoesOffline, ComesOnline
<1>5. QED
  BY <1>1, <1>2, <1>3, <1>4 DEF Next

LEMMA StepPassInv ==
  ASSUME ~Wraps, updates' = 0, TypeOK, PassInv, [Next]_vars
  PROVE  PassInv'
<1> USE DEF clock, link, config, verdict, spans, env
<1>1. CASE Tick
  <2> SUFFICES ASSUME NEW d \in Ctl
               PROVE  lag'[d] <= MaxPass /\ (silent'[d] => age'[d] > Timeout)
    BY <1>1 DEF Tick, PassInv
  <2>1. lag'[d] <= MaxPass
    BY <1>1, TimeAssumption DEF Tick, Urgent, PassInv, TypeOK, ClocksOK
  <2>2. silent'[d] => age'[d] > Timeout
    <3> SUFFICES ASSUME silent'[d] PROVE age'[d] > Timeout
      OBVIOUS
    <3>1. up[d] /\ seen[d] /\ age[d] >= Timeout
      BY <1>1, TimeAssumption DEF Tick, PassInv, TypeOK, ClocksOK
    <3>2. age'[d] = IF age[d] = Width - 1 THEN age[d] ELSE age[d] + 1
      BY <1>1, <3>1, OlderFacts DEF Tick, TypeOK
    <3>3. QED
      BY <3>1, <3>2, TimeAssumption DEF TypeOK, ClocksOK
  <2>3. QED
    BY <2>1, <2>2
<1>2. ASSUME NEW d \in Ctl, HeartbeatTask(d) PROVE PassInv'
  BY <1>2 DEF HeartbeatTask, HbSends, HbReceives, PassInv, Watches, TypeOK, FlagsOK, ClocksOK
<1>3. ASSUME NEW d \in Ctl, SetupDone(d) \/ UpdateFails(d) \/ ReadPeer(d) PROVE PassInv'
  BY <1>3 DEF SetupDone, UpdateFails, ReadPeer, PeerAlive, PassInv, Watches, TypeOK, FlagsOK, ClocksOK
<1>4. ASSUME NEW d \in Ctl, Pass(d) \/ \E e \in Enabled : PassWithConfig(d, e) PROVE PassInv'
  BY <1>4, TimeAssumption DEF Pass, PassWithConfig, Sample, PassInv, Watches, TypeOK, FlagsOK, ClocksOK
<1>5. ASSUME NEW d \in Ctl, Decide(d) PROVE PassInv'
  BY <1>5 DEF Decide, PassInv, Watches, TypeOK, FlagsOK, ClocksOK
<1>6. ASSUME NEW d \in Ctl, Off(d) PROVE PassInv'
  BY <1>6, TimeAssumption DEF Off, PassInv, Watches, TypeOK, FlagsOK, ClocksOK
<1>7. ASSUME NEW d \in Ctl, FrameLost(d) \/ PowerOn(d) \/ GoesOffline(d) \/ ComesOnline(d)
      PROVE PassInv'
  BY <1>7 DEF FrameLost, PowerOn, GoesOffline, ComesOnline, PassInv, Watches, TypeOK, FlagsOK
<1>8. CASE UNCHANGED vars
  BY <1>8 DEF vars, PassInv, Watches
<1>9. QED
  BY <1>1, <1>2, <1>3, <1>4, <1>5, <1>6, <1>7, <1>8, UpdatesCount
     DEF Next, Loop, Environment, Crash, UpdateRestarts

LEMMA TickLostInv ==
  ASSUME ~Wraps, QuickPasses, TypeOK, PassInv, LostInv, Tick
  PROVE  LostInv'
<1> USE DEF clock, link, config, verdict, spans, env
<1> SUFFICES ASSUME NEW d \in Ctl
             PROVE  /\ pc'[d] = "read" /\ seen'[d] /\ ~alive'[d] =>
                         (silent'[d] /\ age'[d] - lag'[d] > Timeout) \/ age'[d] <= lag'[d]
                    /\ GivenUp(d)' =>
                         \/ silent'[d] /\ (pc'[d] \in {"pass", "read"} => age'[d] - lag'[d] > Timeout)
                         \/ ~silent'[d] /\ (age'[d] <= lag'[d] \/ SampledSince(d)')
  BY DEF LostInv
<1>1. /\ seen' = seen /\ pc' = pc /\ alive' = alive /\ up' = up
      /\ (GivenUp(d)' <=> GivenUp(d)) /\ (GivenUp(d) => seen[d] /\ up[d] /\ pc[d] # "setup")
  BY DEF Tick, GivenUp, PassInv
<1>2. /\ age[d] \in 0 .. Width - 1 /\ lag[d] \in Nat /\ MaxPass \in Nat \ {0} /\ Timeout \in Nat
      /\ Width \in Nat /\ Width > Timeout + MaxPass + 1 /\ 2 * MaxPass <= Timeout
  BY TimeAssumption DEF TypeOK, ClocksOK, QuickPasses
<1>3. ASSUME up[d], seen[d], pc[d] # "setup"
      PROVE  /\ lag[d] < MaxPass /\ lag'[d] = lag[d] + 1
             /\ age'[d] = IF age[d] = Width - 1 THEN age[d] ELSE age[d] + 1
             /\ (silent'[d] <=> silent[d] \/ age[d] >= Timeout)
  <2>1. lag[d] < MaxPass /\ lag'[d] = lag[d] + 1
    BY <1>2, <1>3 DEF Tick, Urgent, PassInv
  <2>2. age'[d] = IF age[d] = Width - 1 THEN age[d] ELSE age[d] + 1
    BY <1>3, OlderFacts DEF Tick, TypeOK
  <2>3. silent'[d] <=> silent[d] \/ age[d] >= Timeout
    <3>1. silent' = [c \in Ctl |-> up[c] /\ seen[c] /\ (silent[c] \/ age[c] >= Timeout)]
      BY DEF Tick
    <3>2. silent'[d] = (up[d] /\ seen[d] /\ (silent[d] \/ age[d] >= Timeout))
      BY <3>1, Zenon
    <3>3. QED
      BY <1>3, <3>2
  <2>4. QED
    BY <2>1, <2>2, <2>3
<1>4. ASSUME pc'[d] = "read", seen'[d], ~alive'[d]
      PROVE  (silent'[d] /\ age'[d] - lag'[d] > Timeout) \/ age'[d] <= lag'[d]
  <2>1. up[d] /\ seen[d] /\ pc[d] = "read" /\ ~alive[d]
    BY <1>1, <1>4 DEF PassInv
  <2>2. (silent[d] /\ age[d] - lag[d] > Timeout) \/ age[d] <= lag[d]
    BY <2>1 DEF LostInv
  <2>3. QED
    BY <1>2, <1>3, <2>1, <2>2
<1>5. ASSUME GivenUp(d), silent[d]
      PROVE  silent'[d] /\ (pc'[d] \in {"pass", "read"} => age'[d] - lag'[d] > Timeout)
  <2>1. pc[d] \in {"pass", "read"} => age[d] - lag[d] > Timeout
    BY <1>5 DEF LostInv
  <2>2. QED
    BY <1>1, <1>2, <1>3, <1>5, <2>1
<1>6. ASSUME GivenUp(d), ~silent[d] PROVE ~silent'[d] /\ (age'[d] <= lag'[d] \/ SampledSince(d)')
  <2>1. age[d] <= lag[d] \/ SampledSince(d)
    BY <1>6 DEF LostInv
  <2>2. age[d] < Timeout /\ age[d] < Width - 1
    BY <1>1, <1>2, <1>3, <1>6, <2>1 DEF SampledSince
  <2>3. ~silent'[d] /\ age'[d] = age[d] + 1 /\ lag'[d] = lag[d] + 1 /\ lag'[d] <= MaxPass
    BY <1>1, <1>2, <1>3, <1>6, <2>2
  <2>4. QED
    BY <1>1, <1>2, <2>1, <2>3 DEF SampledSince
<1>7. QED
  BY <1>1, <1>4, <1>5, <1>6

LEMMA StepLostInv ==
  ASSUME ~Wraps, QuickPasses, updates' = 0, TypeOK, SilenceInv, PassInv, LostInv, [Next]_vars
  PROVE  LostInv'
<1> USE DEF clock, link, config, verdict, spans, env
<1>1. CASE Tick
  BY <1>1, TickLostInv
<1>2. ASSUME NEW d \in Ctl, HbReceives(d) PROVE LostInv'
  <2>1. seen'[d] /\ age'[d] = 0 /\ ~silent'[d] /\ lag'[d] \in Nat
    BY <1>2, TimeAssumption DEF HbReceives, TypeOK, FlagsOK, ClocksOK
  <2>2. \A c \in Ctl : c # d => seen'[c] = seen[c] /\ age'[c] = age[c] /\ silent'[c] = silent[c]
    BY <1>2 DEF HbReceives
  <2>3. QED
    BY <1>2, <2>1, <2>2 DEF HbReceives, LostInv, GivenUp, SampledSince
<1>3. ASSUME NEW d \in Ctl, Sample(d), alive' = alive PROVE LostInv'
  <2>1. /\ seen' = seen /\ age' = age /\ silent' = silent /\ everHealthy' = everHealthy /\ lastHealthy' = lastHealthy
        /\ \A c \in Ctl : c # d => pc'[c] = pc[c] /\ lag'[c] = lag[c]
        /\ pc'[d] = "pass" /\ lag'[d] = 0
    BY <1>3 DEF Sample, TypeOK, FlagsOK, ClocksOK
  <2>2. /\ age[d] \in Nat /\ lag[d] \in Nat /\ lag[d] <= MaxPass /\ MaxPass \in Nat /\ Timeout \in Nat
        /\ (silent[d] => age[d] > Timeout)
    BY TimeAssumption DEF TypeOK, ClocksOK, PassInv
  <2>3. pc[d] = "wait"
    BY <1>3 DEF Sample
  <2>4. ASSUME GivenUp(d), ~silent[d] PROVE SampledSince(d)'
    <3>1. age[d] <= lag[d]
      BY <2>3, <2>4 DEF LostInv, SampledSince
    <3>2. QED
      BY <2>1, <2>2, <3>1 DEF SampledSince
  <2>5. QED
    BY <1>3, <2>1, <2>2, <2>4 DEF LostInv, GivenUp, SampledSince
<1>4. ASSUME NEW d \in Ctl, ReadPeer(d) PROVE LostInv'
  <2>1. /\ seen' = seen /\ age' = age /\ lag' = lag /\ silent' = silent
        /\ everHealthy' = everHealthy /\ lastHealthy' = lastHealthy
        /\ \A c \in Ctl : c # d => pc'[c] = pc[c] /\ alive'[c] = alive[c]
        /\ pc[d] = "pass" /\ pc'[d] = "read" /\ alive'[d] = PeerAlive(d)
    BY <1>4 DEF ReadPeer, TypeOK, FlagsOK
  <2>2. /\ age[d] \in 0 .. Width - 1 /\ lag[d] \in Nat /\ Timeout \in Nat /\ MaxPass \in Nat /\ Width \in Nat
        /\ MaxPass <= Timeout
    BY TimeAssumption DEF TypeOK, ClocksOK, QuickPasses
  <2>3. age[d] >= lag[d] => (age[d] - lag[d]) % Width = age[d] - lag[d]
    BY <2>2, NoBorrow, TimeAssumption
  <2>4. ASSUME seen[d], ~PeerAlive(d) PROVE (silent[d] /\ age[d] - lag[d] > Timeout) \/ age[d] <= lag[d]
    <3>1. age[d] > Timeout => silent[d]
      BY <2>4 DEF SilenceInv
    <3>2. QED
      BY <2>2, <2>3, <2>4, <3>1 DEF PeerAlive
  <2>5. ASSUME seen[d], SampledSince(d) PROVE SampledSince(d)'
    <3>1. PeerAlive(d)
      BY <2>2, <2>3, <2>5 DEF PeerAlive, SampledSince
    <3>2. QED
      BY <2>1, <2>5, <3>1 DEF SampledSince
  <2>6. GivenUp(d) => seen[d]
    BY DEF GivenUp, PassInv
  <2>7. QED
    BY <2>1, <2>4, <2>5, <2>6 DEF LostInv, GivenUp, SampledSince
<1>5. ASSUME NEW d \in Ctl, Decide(d) PROVE LostInv'
  <2>1. /\ seen' = seen /\ age' = age /\ lag' = lag /\ silent' = silent /\ alive' = alive
        /\ \A c \in Ctl : c # d => /\ pc'[c] = pc[c] /\ everHealthy'[c] = everHealthy[c]
                                  /\ lastHealthy'[c] = lastHealthy[c]
        /\ pc[d] = "read" /\ pc'[d] = "wait"
    BY <1>5 DEF Decide, TypeOK, FlagsOK
  <2>2. ASSUME GivenUp(d)' PROVE seen[d] /\ ~alive[d]
    <3>1. CASE configured[d] /\ Role[d] = "standby"
      <4>1. lastHealthy'[d] = alive[d] /\ everHealthy'[d] = (everHealthy[d] \/ alive[d])
        BY <1>5, <3>1 DEF Decide, TypeOK, FlagsOK
      <4>2. QED
        BY <2>2, <4>1 DEF GivenUp, PassInv
    <3>2. CASE ~(configured[d] /\ Role[d] = "standby")
      <4>1. everHealthy'[d] = everHealthy[d]
        BY <1>5, <3>2 DEF Decide
      <4>2. QED
        BY <2>2, <3>2, <4>1 DEF GivenUp, PassInv, Watches
    <3>3. QED
      BY <3>1, <3>2
  <2>3. GivenUp(d)' => silent[d] \/ age[d] <= lag[d]
    BY <2>1, <2>2 DEF LostInv
  <2>4. QED
    BY <2>1, <2>3 DEF LostInv, GivenUp, SampledSince
<1>6. ASSUME NEW d \in Ctl, Off(d) PROVE LostInv'
  <2>1. ~everHealthy'[d] /\ ~seen'[d]
    BY <1>6 DEF Off, TypeOK, FlagsOK
  <2>2. \A c \in Ctl : c # d => /\ seen'[c] = seen[c] /\ age'[c] = age[c] /\ lag'[c] = lag[c] /\ silent'[c] = silent[c]
                              /\ pc'[c] = pc[c] /\ alive'[c] = alive[c]
                              /\ everHealthy'[c] = everHealthy[c] /\ lastHealthy'[c] = lastHealthy[c]
    BY <1>6 DEF Off
  <2>3. QED
    BY <2>1, <2>2 DEF LostInv, GivenUp, SampledSince
<1>7. ASSUME NEW d \in Ctl, SetupDone(d) PROVE LostInv'
  <2>1. ~everHealthy[d]
    BY <1>7 DEF SetupDone, PassInv
  <2>2. pc'[d] = "wait" /\ \A c \in Ctl : c # d => pc'[c] = pc[c]
    BY <1>7 DEF SetupDone, TypeOK, FlagsOK
  <2>3. QED
    BY <1>7, <2>1, <2>2 DEF SetupDone, LostInv, GivenUp, SampledSince
<1>8. ASSUME NEW d \in Ctl, \/ HbSends(d) \/ UpdateFails(d) \/ FrameLost(d) \/ StartUpdate(d)
                            \/ PowerOn(d) \/ GoesOffline(d) \/ ComesOnline(d)
      PROVE LostInv'
  BY <1>8 DEF HbSends, UpdateFails, FrameLost, StartUpdate, PowerOn, GoesOffline, ComesOnline,
              LostInv, GivenUp, SampledSince
<1>9. CASE UNCHANGED vars
  BY <1>9 DEF vars, LostInv, GivenUp, SampledSince
<1>10. ASSUME NEW d \in Ctl, Pass(d) \/ \E e \in Enabled : PassWithConfig(d, e) PROVE LostInv'
  <2>1. Sample(d) /\ alive' = alive
    BY <1>10 DEF Pass, PassWithConfig, Sample
  <2>2. QED
    BY <1>3, <2>1
<1>11. QED
  BY <1>1, <1>2, <1>4, <1>5, <1>6, <1>7, <1>8, <1>9, <1>10
     DEF Next, HeartbeatTask, Loop, Environment, Crash, UpdateRestarts

SilentStaysLost ==
  \A d \in Ctl : updates = 0 /\ pc[d] = "pass" /\ pc'[d] = "read"
                    /\ silent[d] /\ everHealthy[d] /\ ~lastHealthy[d]
    => ~alive'[d]

\* As long as millis() does not come round within one silence, and with two passes
\* over within the timeout, a peer still silent is not taken for restored before
\* an update holds up a pass.
THEOREM RestoredIsHeard == ASSUME ~Wraps, QuickPasses PROVE Spec => RestoredMeansHeard
<1> DEFINE Inv == SilenceInv /\ (updates = 0 => PassInv /\ LostInv)
<1>1. Init => Inv
  BY TimeAssumption DEF Init, SilenceInv, PassInv, LostInv, GivenUp
<1>2. TypeOK /\ Inv /\ [Next]_vars => Inv'
  BY StepSilenceInv, StepPassInv, StepLostInv, UpdatesCount DEF QuickPasses
<1>3. TypeOK /\ Inv /\ [Next]_vars => [SilentStaysLost]_vars
  <2> SUFFICES ASSUME TypeOK, Inv, [Next]_vars, NEW d \in Ctl, updates = 0, pc[d] = "pass", pc'[d] = "read",
                      silent[d], everHealthy[d], ~lastHealthy[d]
               PROVE  ~alive'[d]
    BY DEF SilentStaysLost
  <2>1. alive'[d] = PeerAlive(d)
    <3>1. ReadPeer(d)
      BY ReadsPeer
    <3>2. QED
      BY <3>1 DEF ReadPeer, TypeOK, FlagsOK
  <2>2. age[d] - lag[d] > Timeout
    BY DEF LostInv, GivenUp
  <2>3. age[d] - lag[d] \in 0 .. Width - 1 /\ Timeout \in Nat
    BY <2>2, TimeAssumption DEF TypeOK, ClocksOK
  <2>4. (age[d] - lag[d]) % Width = age[d] - lag[d]
    BY <2>3, NoBorrow, TimeAssumption
  <2>5. ~PeerAlive(d)
    BY <2>2, <2>3, <2>4 DEF PeerAlive
  <2>6. QED
    BY <2>1, <2>5, Zenon
<1> HIDE DEF Inv
<1>4. QED
  BY <1>1, <1>2, <1>3, Typing, PTL DEF Spec, RestoredMeansHeard, SilentStaysLost

-----------------------------------------------------------------------------
(* A silence is filled in time. *)

\* What a standby may wait before it sends, by what it has heard.
Allowance(d) == IF seen[d] THEN Timeout ELSE Grace

\* A standby that rests without sending saw its peer alive when it last sampled,
\* or has not heard it yet.
RestInv ==
  \A d \in Ctl :
    /\ ~up[d] => pc[d] = "setup"
    /\ pc[d] = "setup" => ~configured[d]
    /\ updating[d] => pc[d] = "pass"
    /\ alive[d] => seen[d]
    /\ pc[d] = "read" /\ alive[d] => age[d] <= Timeout + lag[d]
    /\ pc[d] = "wait" /\ Idle(d) /\ seen[d] => age[d] <= Timeout + lag[d]

\* Nothing was heard for as long as nothing is sent, unless the pass under way
\* knows already that it will send.
Remembered(d) ==
  IF seen[d]
    THEN \/ gap[d] <= age[d]
         \/ enabled[d] /\ pc[d] = "pass" /\ ~(lag[d] <= age[d] /\ age[d] <= Timeout + lag[d])
         \/ enabled[d] /\ pc[d] = "read" /\ ~alive[d]
    ELSE gap[d] <= uptime[d] \/ uptime[d] > Grace

\* Each of the two passes at the end of a silence adds its length to the gap.
GapBounded(d) ==
  gap[d] > 0 =>
    /\ Standby(d) /\ ~active[d] /\ ~updating[d] /\ lag[d] <= MaxPass
    /\ Remembered(d)
    /\ pc[d] = "wait" => gap[d] <= Allowance(d) + (IF enabled[d] THEN lag[d] ELSE MaxPass)
    /\ pc[d] \in {"pass", "read"} =>
         /\ gap[d] <= Allowance(d) + MaxPass + (IF enabled[d] THEN lag[d] ELSE 0)
         /\ seen[d] \/ graced[d] \/ gap[d] <= Grace + lag[d]

GapInv == \A d \in Ctl : GapBounded(d)

LEMMA StepRestInv ==
  ASSUME TypeOK, RestInv, [Next]_vars
  PROVE  RestInv'
<1> USE DEF clock, link, config, verdict, spans, env, Idle, Standby
<1>1. CASE Tick
  <2> SUFFICES ASSUME NEW d \in Ctl
               PROVE  /\ pc'[d] = "read" /\ alive'[d] => age'[d] <= Timeout + lag'[d]
                      /\ pc'[d] = "wait" /\ Idle(d)' /\ seen'[d] => age'[d] <= Timeout + lag'[d]
    BY <1>1 DEF Tick, RestInv
  <2>1. ASSUME up[d], seen[d], pc[d] # "setup", age[d] <= Timeout + lag[d] PROVE age'[d] <= Timeout + lag'[d]
    <3>1. age'[d] = Older(d) /\ lag'[d] = lag[d] + 1
      BY <1>1, <2>1 DEF Tick
    <3>2. Older(d) <= age[d] + 1
      BY OlderFacts DEF TypeOK
    <3>3. age[d] \in Nat /\ lag[d] \in Nat /\ Older(d) \in Int /\ Timeout \in Nat
      <4>1. age'[d] \in Nat
        BY <1>1, StepClocksOK, TimeAssumption DEF TypeOK, ClocksOK, Next
      <4>2. QED
        BY <3>1, <4>1, TimeAssumption DEF TypeOK, ClocksOK
    <3>4. QED
      BY <2>1, <3>1, <3>2, <3>3
  <2>2. UNCHANGED <<up, pc, seen, alive, active, updating, configured, enabled>>
    BY <1>1 DEF Tick
  <2>3. QED
    BY <2>1, <2>2 DEF RestInv
<1>2. ASSUME NEW d \in Ctl, HbSends(d) PROVE RestInv'
  BY <1>2 DEF HbSends, RestInv
<1>3. ASSUME NEW d \in Ctl, HbReceives(d) PROVE RestInv'
  BY <1>3, TimeAssumption DEF HbReceives, RestInv, TypeOK, FlagsOK, ClocksOK
<1>4. ASSUME NEW d \in Ctl, SetupDone(d) PROVE RestInv'
  BY <1>4 DEF SetupDone, RestInv, TypeOK, FlagsOK
<1>5. ASSUME NEW d \in Ctl, Pass(d) \/ \E e \in Enabled : PassWithConfig(d, e) PROVE RestInv'
  BY <1>5 DEF Pass, PassWithConfig, Sample, RestInv, TypeOK, FlagsOK, ClocksOK
<1>6. ASSUME NEW d \in Ctl, ReadPeer(d) PROVE RestInv'
  <2>1. PeerAlive(d) => seen[d] /\ age[d] <= Timeout + lag[d]
    <3> SUFFICES ASSUME PeerAlive(d), ~(age[d] <= Timeout + lag[d]) PROVE FALSE
      BY DEF PeerAlive
    <3>1. age[d] - lag[d] \in 0 .. Width - 1 /\ age[d] - lag[d] > Timeout
      BY TimeAssumption DEF TypeOK, ClocksOK
    <3>2. (age[d] - lag[d]) % Width = age[d] - lag[d]
      BY <3>1, NoBorrow, TimeAssumption
    <3>3. QED
      BY <3>1, <3>2, TimeAssumption DEF PeerAlive
  <2>2. QED
    BY <1>6, <2>1 DEF ReadPeer, RestInv, TypeOK, FlagsOK
<1>7. ASSUME NEW d \in Ctl, Decide(d) PROVE RestInv'
  <2>1. /\ \A c \in Ctl : active'[c] = IF c = d THEN Sends(d) ELSE active[c]
        /\ \A c \in Ctl : pc'[c] = IF c = d THEN "wait" ELSE pc[c]
        /\ UNCHANGED <<up, configured, enabled, updating, seen, age, lag, alive>>
        /\ up[d] /\ pc[d] = "read"
    BY <1>7 DEF Decide, TypeOK, FlagsOK
  <2>2. Standby(d) /\ enabled[d] /\ ~Sends(d) /\ seen[d] => alive[d]
    BY DEF Sends, TakesOver
  <2>3. QED
    BY <2>1, <2>2 DEF RestInv
<1>8. ASSUME NEW d \in Ctl, Off(d) PROVE RestInv'
  BY <1>8 DEF Off, RestInv, TypeOK, FlagsOK, ClocksOK
<1>9. ASSUME NEW d \in Ctl, \/ UpdateFails(d) \/ FrameLost(d) \/ StartUpdate(d) \/ PowerOn(d)
                            \/ GoesOffline(d) \/ ComesOnline(d)
      PROVE RestInv'
  BY <1>9 DEF UpdateFails, FrameLost, StartUpdate, PowerOn, GoesOffline, ComesOnline, RestInv, TypeOK, FlagsOK
<1>10. CASE UNCHANGED vars
  BY <1>10 DEF vars, RestInv
<1>11. QED
  BY <1>1, <1>2, <1>3, <1>4, <1>5, <1>6, <1>7, <1>8, <1>9, <1>10
     DEF Next, HeartbeatTask, Loop, Environment, Crash, UpdateRestarts

LEMMA GapNumbers ==
  ASSUME TypeOK, NEW d \in Ctl
  PROVE  /\ gap[d] \in 0 .. Width /\ age[d] \in 0 .. Width - 1 /\ lag[d] \in Nat /\ uptime[d] \in 0 .. UptimeCap
         /\ MaxPass \in Nat \ {0} /\ MaxUpdate \in Nat /\ Timeout \in Nat \ {0} /\ Grace \in Nat
         /\ Width \in Nat /\ Width > Timeout + MaxPass + MaxUpdate + 1
         /\ UptimeCap \in Nat /\ UptimeCap > Grace /\ Allowance(d) \in Nat
         /\ (seen[d] => Allowance(d) = Timeout) /\ (~seen[d] => Allowance(d) = Grace)
  BY TimeAssumption DEF TypeOK, ClocksOK, Allowance, UptimeCap

\* A step that leaves what the gap depends on alone.
LEMMA QuietGap ==
  ASSUME NEW d \in Ctl, GapBounded(d),
         up'[d] = up[d], pc'[d] = pc[d], lag'[d] = lag[d], graced'[d] = graced[d], uptime'[d] = uptime[d],
         seen'[d] = seen[d], age'[d] = age[d], updating'[d] = updating[d], configured'[d] = configured[d],
         enabled'[d] = enabled[d], alive'[d] = alive[d], active'[d] = active[d], gap'[d] = gap[d]
  PROVE  GapBounded(d)'
  BY DEF GapBounded, Standby, Remembered, Allowance

LEMMA TickGap ==
  ASSUME TypeOK, TypeOK', RestInv, NEW d \in Ctl, GapBounded(d), Tick
  PROVE  GapBounded(d)'
<1> USE DEF clock, link, config, verdict, spans, env
<1> SUFFICES ASSUME gap'[d] > 0 PROVE GapBounded(d)'
  BY DEF GapBounded
<1>1. UNCHANGED <<up, pc, graced, seen, updating, configured, enabled, alive, active>>
  BY DEF Tick
<1>2. Idle(d) /\ gap'[d] <= gap[d] + 1 /\ gap'[d] \in Nat
  BY GapNumbers DEF Tick, Least, TypeOK, ClocksOK
<1>3. up[d] /\ pc[d] # "setup" /\ enabled[d] /\ ~updating[d] /\ Standby(d) /\ ~active[d]
  BY <1>2 DEF Idle, Standby, RestInv
<1>4. lag[d] < MaxPass /\ lag'[d] = lag[d] + 1 /\ uptime'[d] = Least(uptime[d] + 1, UptimeCap)
  BY <1>3, GapNumbers DEF Tick, Urgent
<1>5. seen[d] => age'[d] = Older(d)
  BY <1>3 DEF Tick
<1>6. seen[d] /\ age[d] < Width - 1 => age'[d] = age[d] + 1
  <2> SUFFICES ASSUME seen[d], age[d] < Width - 1 PROVE Older(d) = age[d] + 1
    BY <1>5
  <2>1. age[d] + 1 \in 0 .. Width - 1
    BY GapNumbers
  <2>2. (age[d] + 1) % Width = age[d] + 1
    BY <2>1, GapNumbers, NoBorrow
  <2>3. QED
    BY <2>1, <2>2, GapNumbers DEF Older, Least
<1>7. seen[d] /\ age[d] = Width - 1 => age'[d] = 0 \/ age'[d] = Width - 1
  <2> SUFFICES ASSUME seen[d], age[d] = Width - 1 PROVE Older(d) = 0 \/ Older(d) = Width - 1
    BY <1>5
  <2>1. age[d] + 1 = Width /\ Width % Width = 0
    BY GapNumbers
  <2>2. QED
    BY <2>1, GapNumbers DEF Older, Least
<1>8. pc[d] = "wait" => gap'[d] <= Allowance(d) + lag'[d]
  BY <1>2, <1>3, <1>4, GapNumbers DEF GapBounded
<1>9. pc[d] \in {"pass", "read"} => gap'[d] <= Allowance(d) + MaxPass + lag'[d]
  BY <1>2, <1>3, <1>4, GapNumbers DEF GapBounded
<1>10. pc[d] \in {"pass", "read"} => seen[d] \/ graced[d] \/ gap'[d] <= Grace + lag'[d]
  BY <1>2, <1>3, <1>4, GapNumbers DEF GapBounded
<1>11. Remembered(d)'
  <2>1. CASE ~seen[d]
    <3>1. gap[d] <= uptime[d] \/ uptime[d] > Grace
      BY <2>1, GapNumbers DEF GapBounded, Remembered
    <3>2. gap'[d] <= uptime'[d] \/ uptime'[d] > Grace
      BY <1>2, <1>4, <3>1, GapNumbers DEF Least
    <3>3. QED
      BY <1>1, <2>1, <3>2 DEF Remembered
  <2>2. CASE seen[d] /\ pc[d] = "wait"
    <3>1. age[d] <= Timeout + lag[d]
      BY <1>2, <2>2 DEF RestInv
    <3>2. age'[d] = age[d] + 1
      BY <1>4, <1>6, <2>2, <3>1, GapNumbers
    <3>3. gap[d] <= age[d]
      BY <2>2, GapNumbers DEF GapBounded, Remembered
    <3>4. QED
      BY <1>1, <1>2, <2>2, <3>2, <3>3, GapNumbers DEF Remembered
  <2>3. CASE seen[d] /\ pc[d] = "pass"
    <3>1. gap[d] <= age[d] \/ ~(lag[d] <= age[d] /\ age[d] <= Timeout + lag[d])
      BY <2>3, GapNumbers DEF GapBounded, Remembered
    <3>2. CASE age[d] < Width - 1
      BY <1>1, <1>2, <1>3, <1>4, <1>6, <2>3, <3>1, <3>2, GapNumbers DEF Remembered
    <3>3. CASE age[d] = Width - 1
      <4>1. ~(lag'[d] <= age'[d] /\ age'[d] <= Timeout + lag'[d])
        BY <1>4, <1>7, <2>3, <3>3, GapNumbers
      <4>2. QED
        BY <1>1, <1>3, <2>3, <4>1 DEF Remembered
    <3>4. QED
      BY <3>2, <3>3, GapNumbers
  <2>4. CASE seen[d] /\ pc[d] = "read"
    <3>1. CASE alive[d]
      <4>1. age[d] <= Timeout + lag[d] /\ gap[d] <= age[d]
        BY <2>4, <3>1, GapNumbers DEF RestInv, GapBounded, Remembered
      <4>2. age'[d] = age[d] + 1
        BY <1>4, <1>6, <2>4, <4>1, GapNumbers
      <4>3. QED
        BY <1>1, <1>2, <2>4, <4>1, <4>2, GapNumbers DEF Remembered
    <3>2. CASE ~alive[d]
      BY <1>1, <1>3, <2>4, <3>2 DEF Remembered
    <3>3. QED
      BY <3>1, <3>2
  <2>5. pc[d] \in {"wait", "pass", "read"}
    BY <1>3 DEF TypeOK, FlagsOK, Points
  <2>6. QED
    BY <2>1, <2>2, <2>3, <2>4, <2>5
<1>12. Standby(d)' /\ Allowance(d)' = Allowance(d)
  BY <1>1, <1>3 DEF Standby, Allowance
<1>13. QED
  BY <1>1, <1>3, <1>4, <1>8, <1>9, <1>10, <1>11, <1>12, GapNumbers DEF GapBounded

\* The pass that compares, and the decision it leads to.
LEMMA ReadGap ==
  ASSUME TypeOK, RestInv, NEW d \in Ctl, GapBounded(d), ReadPeer(d)
  PROVE  GapBounded(d)'
<1> USE DEF clock, link, config, verdict, spans, env
<1> SUFFICES ASSUME gap'[d] > 0 PROVE GapBounded(d)'
  BY DEF GapBounded
<1>1. /\ UNCHANGED <<up, lag, graced, uptime, seen, age, updating, configured, enabled, active, gap>>
      /\ pc[d] = "pass" /\ pc'[d] = "read" /\ alive'[d] = PeerAlive(d)
  BY DEF ReadPeer, TypeOK, FlagsOK
<1>2. PeerAlive(d) => lag[d] <= age[d] /\ age[d] <= Timeout + lag[d]
  <2> SUFFICES ASSUME PeerAlive(d) PROVE lag[d] <= age[d] /\ age[d] <= Timeout + lag[d]
    OBVIOUS
  <2>1. CASE age[d] >= lag[d]
    <3>1. age[d] - lag[d] \in 0 .. Width - 1
      BY <2>1, GapNumbers
    <3>2. (age[d] - lag[d]) % Width = age[d] - lag[d]
      BY <3>1, GapNumbers, NoBorrow
    <3>3. QED
      BY <2>1, <3>2, GapNumbers DEF PeerAlive
  <2>2. CASE age[d] < lag[d]
    <3>1. lag[d] <= MaxPass
      BY <1>1, GapNumbers DEF GapBounded
    <3>2. age[d] - lag[d] + Width \in 0 .. Width - 1 /\ age[d] - lag[d] + Width > Timeout
      BY <2>2, <3>1, GapNumbers
    <3>3. (age[d] - lag[d]) % Width = age[d] - lag[d] + Width
      BY <2>2, <3>2, GapNumbers
    <3>4. QED
      BY <3>2, <3>3, GapNumbers DEF PeerAlive
  <2>3. QED
    BY <2>1, <2>2, GapNumbers
<1>3. Remembered(d)'
  BY <1>1, <1>2 DEF GapBounded, Remembered
<1>4. QED
  BY <1>1, <1>3 DEF GapBounded, Standby, Allowance

LEMMA DecideGap ==
  ASSUME TypeOK, RestInv, NEW d \in Ctl, GapBounded(d), Decide(d)
  PROVE  GapBounded(d)'
<1> USE DEF clock, link, config, verdict, spans, env
<1> SUFFICES ASSUME gap'[d] > 0 PROVE GapBounded(d)'
  BY DEF GapBounded
<1>1. /\ UNCHANGED <<up, lag, graced, uptime, seen, age, updating, configured, enabled, alive>>
      /\ pc[d] = "read" /\ pc'[d] = "wait" /\ active'[d] = Sends(d)
      /\ gap'[d] = IF Sends(d) THEN 0 ELSE gap[d]
  BY DEF Decide, TypeOK, FlagsOK, ClocksOK
<1>2. ~Sends(d) /\ gap'[d] = gap[d] /\ gap[d] > 0
  BY <1>1, GapNumbers
<1>3. Standby(d) /\ ~updating[d] /\ lag[d] <= MaxPass
  BY <1>2 DEF GapBounded
<1>4. CASE ~enabled[d]
  BY <1>1, <1>2, <1>3, <1>4, GapNumbers DEF GapBounded, Standby, Allowance, Remembered
<1>5. CASE enabled[d] /\ seen[d]
  <2>1. alive[d]
    BY <1>2, <1>3, <1>5 DEF Sends, TakesOver, Standby
  <2>2. age[d] <= Timeout + lag[d] /\ gap[d] <= age[d]
    BY <1>1, <1>2, <1>5, <2>1 DEF RestInv, GapBounded, Remembered
  <2>3. gap[d] <= Timeout + lag[d]
    BY <2>2, GapNumbers
  <2>4. QED
    BY <1>1, <1>2, <1>3, <1>5, <2>2, <2>3 DEF GapBounded, Standby, Allowance, Remembered
<1>6. CASE enabled[d] /\ ~seen[d]
  <2>1. ~graced[d]
    BY <1>2, <1>3, <1>6 DEF Sends, TakesOver, Standby
  <2>2. gap[d] <= Grace + lag[d]
    BY <1>1, <1>2, <1>6, <2>1 DEF GapBounded
  <2>3. QED
    BY <1>1, <1>2, <1>3, <1>6, <2>2 DEF GapBounded, Standby, Allowance, Remembered
<1>7. QED
  BY <1>4, <1>5, <1>6

LEMMA SampleGap ==
  ASSUME TypeOK, RestInv, NEW d \in Ctl, GapBounded(d), Pass(d) \/ \E e \in Enabled : PassWithConfig(d, e)
  PROVE  GapBounded(d)'
<1> USE DEF clock, link, config, verdict, spans, env
<1> SUFFICES ASSUME gap'[d] > 0 PROVE GapBounded(d)'
  BY DEF GapBounded
<1>1. Sample(d)
  BY DEF Pass, PassWithConfig
<1>2. /\ UNCHANGED <<up, uptime, seen, age, updating, alive, active, gap>>
      /\ pc[d] = "wait" /\ pc'[d] = "pass" /\ lag'[d] = 0 /\ graced'[d] = (uptime[d] > Grace)
  BY <1>1 DEF Sample, TypeOK, FlagsOK, ClocksOK
<1>3. Standby(d)' /\ ~active'[d] /\ ~updating'[d] /\ lag'[d] <= MaxPass
  <2>0. ~active[d] /\ ~updating[d] /\ 0 <= MaxPass
    BY <1>2, GapNumbers DEF GapBounded
  <2>1. Standby(d)
    BY <1>2 DEF GapBounded
  <2>2. configured' = configured \/ configured' = [configured EXCEPT ![d] = TRUE]
    BY DEF Pass, PassWithConfig
  <2>3. QED
    BY <1>2, <2>0, <2>1, <2>2 DEF Standby, TypeOK, FlagsOK
<1>4. Remembered(d)' /\ (seen[d] \/ uptime[d] > Grace \/ gap[d] <= Grace)
  BY <1>2, GapNumbers DEF GapBounded, Remembered
<1>5. gap[d] <= Allowance(d) + MaxPass
  BY <1>2, GapNumbers DEF GapBounded
<1>6. QED
  <2>1. /\ gap'[d] = gap[d] /\ lag'[d] = 0 /\ pc'[d] = "pass" /\ Allowance(d)' = Allowance(d)
        /\ (seen'[d] <=> seen[d]) /\ (graced'[d] <=> uptime[d] > Grace)
    BY <1>2 DEF Allowance
  <2>2. Allowance(d) + MaxPass + (IF enabled'[d] THEN lag'[d] ELSE 0) = Allowance(d) + MaxPass
    BY <2>1, GapNumbers
  <2>3. seen'[d] \/ graced'[d] \/ gap'[d] <= Grace + lag'[d]
    BY <1>4, <2>1, GapNumbers
  <2>4. QED
    BY <1>3, <1>4, <1>5, <2>1, <2>2, <2>3 DEF GapBounded

LEMMA StepGapInv ==
  ASSUME TypeOK, TypeOK', RestInv, GapInv, [Next]_vars
  PROVE  GapInv'
<1> USE DEF clock, link, config, verdict, spans, env
<1> SUFFICES ASSUME NEW d \in Ctl PROVE GapBounded(d)'
  BY DEF GapInv
<1>0. GapBounded(d)
  BY DEF GapInv
<1>1. CASE Tick
  BY <1>0, <1>1, TickGap
<1>2. ASSUME NEW c \in Ctl, \/ HeartbeatTask(c) \/ Loop(c) \/ Environment(c), c # d PROVE GapBounded(d)'
  <2>1. CASE HeartbeatTask(c) \/ FrameLost(c)
    BY <1>0, <1>2, <2>1, QuietGap DEF HeartbeatTask, HbSends, HbReceives, FrameLost, TypeOK, FlagsOK, ClocksOK
  <2>2. CASE SetupDone(c) \/ UpdateFails(c) \/ ReadPeer(c) \/ Decide(c)
    BY <1>0, <1>2, <2>2, QuietGap DEF SetupDone, UpdateFails, ReadPeer, Decide, TypeOK, FlagsOK, ClocksOK
  <2>3. CASE Pass(c) \/ \E e \in Enabled : PassWithConfig(c, e)
    BY <1>0, <1>2, <2>3, QuietGap DEF Pass, PassWithConfig, Sample, TypeOK, FlagsOK, ClocksOK
  <2>4. CASE Off(c)
    BY <1>0, <1>2, <2>4, QuietGap DEF Off, TypeOK, FlagsOK, ClocksOK
  <2>5. CASE StartUpdate(c) \/ PowerOn(c) \/ GoesOffline(c) \/ ComesOnline(c)
    BY <1>0, <1>2, <2>5, QuietGap DEF StartUpdate, PowerOn, GoesOffline, ComesOnline, TypeOK, FlagsOK, ClocksOK
  <2>6. QED
    BY <1>2, <2>1, <2>2, <2>3, <2>4, <2>5 DEF Loop, Environment, UpdateRestarts, Crash
<1>3. CASE HbReceives(d) \/ StartUpdate(d) \/ Off(d)
  <2>1. gap'[d] = 0
    BY <1>3 DEF HbReceives, StartUpdate, Off, TypeOK, ClocksOK
  <2>2. QED
    BY <2>1 DEF GapBounded
<1>4. CASE SetupDone(d) \/ UpdateFails(d) \/ PowerOn(d)
  <2>1. gap[d] = 0
    BY <1>0, <1>4, GapNumbers DEF SetupDone, UpdateFails, PowerOn, RestInv, GapBounded, Standby
  <2>2. gap'[d] = 0
    BY <1>4, <2>1 DEF SetupDone, UpdateFails, PowerOn
  <2>3. QED
    BY <2>2 DEF GapBounded
<1>5. CASE Pass(d) \/ \E e \in Enabled : PassWithConfig(d, e)
  BY <1>0, <1>5, SampleGap
<1>6. CASE ReadPeer(d)
  BY <1>0, <1>6, ReadGap
<1>7. CASE Decide(d)
  BY <1>0, <1>7, DecideGap
<1>8. CASE HbSends(d) \/ FrameLost(d) \/ GoesOffline(d) \/ ComesOnline(d)
  BY <1>0, <1>8, QuietGap DEF HbSends, FrameLost, GoesOffline, ComesOnline
<1>9. CASE UNCHANGED vars
  BY <1>0, <1>9, QuietGap DEF vars
<1>10. QED
  BY <1>1, <1>2, <1>3, <1>4, <1>5, <1>6, <1>7, <1>8, <1>9
     DEF Next, HeartbeatTask, Loop, Environment, Crash, UpdateRestarts

\* A standby that may send, hears nothing and runs no update goes without sending
\* for no longer than the timeout, or the boot grace, and two passes.  No hypothesis
\* but those on the constants: millis() may come round.
THEOREM GapIsShort == Spec => []ShortGap
<1>1. Init => RestInv /\ GapInv
  BY DEF Init, RestInv, GapInv, GapBounded, Idle, Standby
<1>2. TypeOK /\ TypeOK' /\ RestInv /\ GapInv /\ [Next]_vars => RestInv' /\ GapInv'
  BY StepRestInv, StepGapInv
<1>3. TypeOK /\ RestInv /\ GapInv => ShortGap
  <2> SUFFICES ASSUME TypeOK, RestInv, GapInv, NEW d \in Ctl
               PROVE  gap[d] <= Allowance(d) + 2 * MaxPass
    BY DEF ShortGap, Allowance
  <2>1. CASE gap[d] = 0
    BY <2>1, GapNumbers
  <2>2. CASE gap[d] > 0
    <3>1. GapBounded(d)
      BY DEF GapInv
    <3>2. lag[d] <= MaxPass /\ pc[d] \in {"wait", "pass", "read"}
      BY <2>2, <3>1 DEF GapBounded, Standby, RestInv, TypeOK, FlagsOK, Points
    <3>3. QED
      BY <2>2, <3>1, <3>2, GapNumbers DEF GapBounded
  <2>3. QED
    BY <2>1, <2>2, GapNumbers
<1>4. QED
  BY <1>1, <1>2, <1>3, Typing, PTL DEF Spec
=============================================================================
