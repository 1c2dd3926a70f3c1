----------------------------- MODULE OtaProofs -----------------------------
(***************************************************************************)
(* What holds of the updater for every set of images, every bound and      *)
(* every choice of points at which power is lost.                          *)
(***************************************************************************)
EXTENDS OtaImplements, TLAPS

\* The boot target differs from the running slot only between Update.end and
\* the restart, and both hold an image.
TargetInv ==
  /\ slot[running] \in Image
  /\ slot[bootSlot] \in Image
  /\ bootSlot # running => pc \in {"mark", "mark2"}

IInv == TypeOK /\ TargetInv

LEMMA OtherFacts ==
  ASSUME NEW s \in Slots
  PROVE  Other(s) \in Slots /\ Other(s) # s /\ Other(Other(s)) = s
         /\ \A t \in Slots : t = s \/ t = Other(s)
  BY DEF Slots, Other

LEMMA InitIInv == Init => IInv
<1> SUFFICES ASSUME Init PROVE IInv
  OBVIOUS
<1>1. ModesOK
  BY ImageAssumption DEF Init, ModesOK, Slots, Contents, Points
<1>2. CountsOK
  BY BoundAssumption DEF Init, CountsOK
<1>3. TargetInv
  BY ImageAssumption DEF Init, TargetInv, Slots
<1>4. QED
  BY <1>1, <1>2, <1>3 DEF IInv, TypeOK

LEMMA StepModesOK ==
  ASSUME ModesOK, [Next]_vars
  PROVE  ModesOK'
<1> USE DEF flash, nvs, trial, update, env, history, NextSlot, DropFlag, Arm, Disarm
<1>0. running \in Slots /\ Other(running) \in Slots /\ slot[running] \in Contents /\ Blank \in Contents
  BY OtherFacts DEF ModesOK, Contents
<1>1. CASE Panic \/ PowerLoss
  BY <1>1 DEF Panic, PowerLoss, Reboot, ModesOK, Points, Contents
<1>2. CASE Setup
  BY <1>2 DEF Setup, BeginWithoutNvs, BeginClean, BeginOnTrial, ModesOK, Points
<1>3. CASE NetLoop \/ Serial
  BY <1>3 DEF NetLoop, Serial, NoCommand, Request, ModesOK, Points
<1>4. CASE Tick
  BY <1>4 DEF Tick, DeadlineMissed, NothingDue, StartUpdate, ModesOK, Points
<1>5. CASE RunUpdate
  <2>1. CASE Abandon /\ slot' \in [Slots -> Contents]
    BY <1>0, <2>1 DEF Abandon, ModesOK, Points
  <2>2. CASE FetchFails \/ StreamFails \/ HashMismatch
    BY <2>1, <2>2 DEF FetchFails, StreamFails, HashMismatch, ModesOK
  <2>3. CASE \E body \in Contents : Fetch(body)
    BY <2>3 DEF Fetch, ModesOK, Points
  <2>4. CASE Stream
    BY <1>0, <2>4 DEF Stream, ModesOK
  <2>5. CASE CommitFails
    BY <1>0, <2>1, <2>5 DEF CommitFails, ModesOK
  <2>6. CASE Commit
    BY <1>0, <2>6 DEF Commit, ModesOK, Points
  <2>7. QED
    BY <1>5, <2>2, <2>3, <2>4, <2>5, <2>6 DEF RunUpdate
<1>6. CASE MarkProbation
  BY <1>6 DEF MarkProbation, Mark, MarkWithoutNvs, Mark2, Reboot, ModesOK, Points, Contents
<1>7. CASE Health
  <2>1. proven' \subseteq Contents
    BY <1>0, <1>7 DEF Health, ModesOK
  <2>2. nvsProb' \in BOOLEAN /\ probation' \in BOOLEAN /\ confirmed' \in BOOLEAN /\ pc' \in Points
    BY <1>7 DEF Health, ModesOK, Points
  <2>3. QED
    BY <1>7, <2>1, <2>2 DEF Health, ModesOK
<1>8. CASE Clear2
  BY <1>8 DEF Clear2, ModesOK, Points
<1>9. CASE RevertToPrevious
  <2>1. CASE Revert \/ Revert2 \/ SwitchFails
    BY <2>1 DEF Revert, Revert2, SwitchFails, ModesOK, Points
  <2>2. CASE Switch
    BY <1>0, <2>2 DEF Switch, Reboot, ModesOK, Points
  <2>3. QED
    BY <1>9, <2>1, <2>2 DEF RevertToPrevious
<1>10. CASE UNCHANGED vars
  BY <1>10 DEF vars, ModesOK
<1>11. QED
  BY <1>1, <1>2, <1>3, <1>4, <1>5, <1>6, <1>7, <1>8, <1>9, <1>10 DEF Next, Program

LEMMA StepCountsOK ==
  ASSUME CountsOK, [Next]_vars
  PROVE  CountsOK'
<1> USE BoundAssumption DEF flash, nvs, trial, update, env, history, FlashWorks, FlashFails, DropFlag, MoreToCome, NextSlot
<1>1. CASE Panic \/ PowerLoss
  BY <1>1 DEF Panic, PowerLoss, Reboot, CountsOK
<1>2. CASE Setup
  BY <1>2 DEF Setup, BeginWithoutNvs, BeginClean, BeginOnTrial, Tries, CountsOK
<1>3. CASE NetLoop \/ Serial
  <2>1. CASE NetLoop
    BY <2>1 DEF NetLoop, CountsOK
  <2>2. CASE Serial
    BY <2>2 DEF Serial, NoCommand, Request, CountsOK
  <2>3. QED
    BY <1>3, <2>1, <2>2
<1>4. CASE Tick
  BY <1>4 DEF Tick, DeadlineMissed, NothingDue, StartUpdate, CountsOK
<1>5. CASE RunUpdate
  <2>1. CASE Abandon
    BY <2>1 DEF Abandon, CountsOK
  <2>2. CASE ~Abandon
    BY <1>5, <2>2 DEF RunUpdate, FetchFails, Fetch, Stream, StreamFails, HashMismatch,
                      CommitFails, Commit, CountsOK
  <2>3. QED
    BY <2>1, <2>2
<1>6. CASE MarkProbation
  BY <1>6 DEF MarkProbation, Mark, MarkWithoutNvs, Mark2, Reboot, CountsOK
<1>7. CASE Health \/ Clear2
  BY <1>7 DEF Health, Clear2, CountsOK
<1>8. CASE RevertToPrevious
  BY <1>8 DEF RevertToPrevious, Revert, Revert2, Switch, SwitchFails, Reboot, CountsOK
<1>9. CASE UNCHANGED vars
  BY <1>9 DEF vars, CountsOK
<1>10. QED
  BY <1>1, <1>2, <1>3, <1>4, <1>5, <1>6, <1>7, <1>8, <1>9 DEF Next, Program

LEMMA StepTypeOK == TypeOK /\ [Next]_vars => TypeOK'
  BY StepModesOK, StepCountsOK DEF TypeOK

\* Every variable keeps its type: in particular the boot counter stays in a
\* byte (uint8_t in begin()) and the deadline never underflows.
THEOREM Typing == Spec => []TypeOK
<1>1. Init => TypeOK
  BY InitIInv DEF IInv
<1>2. QED
  BY <1>1, StepTypeOK, PTL DEF Spec

LEMMA StepTargetInv == IInv /\ [Next]_vars => TargetInv'
<1> SUFFICES ASSUME IInv, [Next]_vars PROVE TargetInv'
  OBVIOUS
<1> USE DEF flash, NextSlot
<1>0. /\ running \in Slots /\ bootSlot \in Slots /\ Other(running) \in Slots
      /\ Other(running) # running /\ slot \in [Slots -> Contents]
  BY OtherFacts DEF IInv, TypeOK, ModesOK
<1>1. CASE Panic \/ PowerLoss
  BY <1>1 DEF Panic, PowerLoss, Reboot, IInv, TargetInv
<1>2. CASE Setup
  BY <1>2 DEF Setup, BeginWithoutNvs, BeginClean, BeginOnTrial, IInv, TargetInv
<1>3. CASE NetLoop \/ Serial \/ Tick
  BY <1>3 DEF NetLoop, Serial, NoCommand, Request, Tick, DeadlineMissed, NothingDue,
              StartUpdate, IInv, TargetInv
<1>4. CASE RunUpdate
  <2>1. pc \in {"fetch", "stream"} /\ bootSlot = running
    BY <1>4 DEF RunUpdate, FetchFails, Fetch, Stream, StreamFails, HashMismatch,
                CommitFails, Commit, Complete, IInv, TargetInv
  <2>2. running' = running /\ slot'[running] = slot[running]
    BY <1>0, <1>4 DEF RunUpdate, FetchFails, Fetch, Stream, StreamFails, HashMismatch,
                CommitFails, Commit, Abandon
  <2>3. CASE Commit
    BY <1>0, <2>2, <2>3 DEF Commit, IInv, TargetInv
  <2>4. CASE ~Commit
    <3>1. bootSlot' = bootSlot
      BY <1>4, <2>4 DEF RunUpdate, FetchFails, Fetch, Stream, StreamFails, HashMismatch,
                        CommitFails, Abandon
    <3>2. QED
      BY <2>1, <2>2, <3>1 DEF IInv, TargetInv
  <2>5. QED
    BY <2>3, <2>4
<1>5. CASE MarkProbation
  BY <1>5 DEF MarkProbation, Mark, MarkWithoutNvs, Mark2, Reboot, IInv, TargetInv
<1>6. CASE Health \/ Clear2
  BY <1>6 DEF Health, Clear2, IInv, TargetInv
<1>7. CASE RevertToPrevious
  BY <1>0, <1>7 DEF RevertToPrevious, Revert, Revert2, Switch, SwitchFails, Reboot,
                    IInv, TargetInv
<1>8. CASE UNCHANGED vars
  BY <1>8 DEF vars, IInv, TargetInv
<1>9. QED
  BY <1>1, <1>2, <1>3, <1>4, <1>5, <1>6, <1>7, <1>8 DEF Next, Program

LEMMA Inductive == Spec => []IInv
<1>1. IInv /\ [Next]_vars => IInv'
  BY StepTypeOK, StepTargetInv DEF IInv
<1>2. QED
  BY <1>1, InitIInv, PTL DEF Spec

\* The board is never bricked: at every instant, and so at every instant at
\* which power can be lost, the boot target holds an image.  No assumption
\* on NVS, on the operator or on the server is needed.
THEOREM NeverBricked == Spec => []BootTargetBootable
<1>1. IInv => BootTargetBootable
  BY DEF IInv, TargetInv, BootTargetBootable
<1>2. QED
  BY <1>1, Inductive, PTL

\* An update takes over only if its bytes are those the hash names.
THEOREM VerifiedCommit == Spec => CommitsOnlyVerified
<1> DEFINE A == bootSlot' # bootSlot /\ pc = "stream" => slot'[bootSlot'] = sha /\ sha \in Image
<1>1. IInv /\ [Next]_vars => A
  <2> SUFFICES ASSUME IInv, [Next]_vars, bootSlot' # bootSlot, pc = "stream" PROVE A
    OBVIOUS
  <2>1. Commit
    BY DEF Next, Program, Panic, PowerLoss, Setup, BeginWithoutNvs, BeginClean, BeginOnTrial,
           NetLoop, Serial, NoCommand, Request, Tick, DeadlineMissed, NothingDue, StartUpdate,
           RunUpdate, FetchFails, Fetch, Stream, StreamFails, HashMismatch, CommitFails, Abandon,
           MarkProbation, Mark, MarkWithoutNvs, Mark2, Health, Clear2,
           RevertToPrevious, Revert, Revert2, Switch, SwitchFails, vars, flash
  <2>2. Other(running) \in Slots /\ slot \in [Slots -> Contents]
    BY OtherFacts DEF IInv, TypeOK, ModesOK
  <2>3. QED
    BY <2>1, <2>2 DEF Commit, HashMatches, NextSlot
<1>2. IInv /\ [Next]_vars => [A]_vars
  BY <1>1
<1>3. QED
  BY <1>2, Inductive, PTL DEF Spec, CommitsOnlyVerified

\* The heartbeat is muted exactly while the update sequence runs.
THEOREM QuietWhileUpdating == Spec => []QuietOnlyWhileUpdating
<1>1. Init => QuietOnlyWhileUpdating
  BY DEF Init, QuietOnlyWhileUpdating, UpdatePoints
<1>2. QuietOnlyWhileUpdating /\ TypeOK /\ [Next]_vars => QuietOnlyWhileUpdating'
  <2> SUFFICES ASSUME QuietOnlyWhileUpdating, TypeOK, [Next]_vars PROVE QuietOnlyWhileUpdating'
    OBVIOUS
  <2>0. resume \notin UpdatePoints
    BY DEF TypeOK, ModesOK, UpdatePoints
  <2> USE DEF QuietOnlyWhileUpdating, UpdatePoints, update, DropFlag
  <2>1. CASE Panic \/ PowerLoss
    BY <2>1 DEF Panic, PowerLoss, Reboot
  <2>2. CASE Setup \/ NetLoop \/ Serial
    <3>1. updating' = updating
      BY <2>2 DEF Setup, BeginWithoutNvs, BeginClean, BeginOnTrial, NetLoop, Serial, NoCommand, Request
    <3>2. pc \notin UpdatePoints /\ pc' \notin UpdatePoints
      BY <2>2 DEF Setup, BeginWithoutNvs, BeginClean, BeginOnTrial, NetLoop, Serial, NoCommand, Request
    <3>3. QED
      BY <3>1, <3>2
  <2>3. CASE Tick
    BY <2>3 DEF Tick, DeadlineMissed, NothingDue, StartUpdate
  <2>4. CASE RunUpdate
    BY <2>4 DEF RunUpdate, FetchFails, Fetch, Stream, StreamFails, HashMismatch, CommitFails,
                Commit, Complete, Abandon
  <2>5. CASE MarkProbation
    BY <2>5 DEF MarkProbation, Mark, MarkWithoutNvs, Mark2, Reboot
  <2>6. CASE Health \/ Clear2
    <3>1. updating' = updating
      BY <2>6 DEF Health, Clear2
    <3>2. pc \notin UpdatePoints /\ pc' \notin UpdatePoints
      BY <2>6 DEF Health, Clear2
    <3>3. QED
      BY <3>1, <3>2
  <2>7. CASE RevertToPrevious
    <3>1. CASE Switch
      BY <3>1 DEF Switch, Reboot
    <3>2. CASE Revert \/ Revert2
      BY <3>2 DEF Revert, Revert2
    <3>3. CASE SwitchFails
      BY <2>0, <3>3 DEF SwitchFails
    <3>4. QED
      BY <2>7, <3>1, <3>2, <3>3 DEF RevertToPrevious
  <2>8. CASE UNCHANGED vars
    BY <2>8 DEF vars
  <2>9. QED
    BY <2>1, <2>2, <2>3, <2>4, <2>5, <2>6, <2>7, <2>8 DEF Next, Program
<1>3. QED
  BY <1>1, <1>2, Typing, PTL DEF Spec

-----------------------------------------------------------------------------
(* What holds wherever power is lost and whatever the flash refuses        *)

\* Once an update has written to the other slot, the image that runs it has reached
\* MQTT, or the update was rash.
KeepInv ==
  /\ WorkingImageKept
  /\ pc = "stream" /\ received > 0 => rash \/ slot[running] \in proven

LEMMA StepKeep ==
  ASSUME IInv, KeepInv, [Next]_vars
  PROVE  KeepInv'
<1> USE DEF flash, nvs, trial, update, env, history, NextSlot, DropFlag, KeepInv, WorkingImageKept
<1>0. /\ running \in Slots /\ Other(running) \in Slots /\ Other(running) # running
      /\ slot \in [Slots -> Contents] /\ received \in Nat /\ Chunks \in Nat \ {0}
  BY OtherFacts, BoundAssumption DEF IInv, TypeOK, ModesOK, CountsOK
<1>1. CASE Panic \/ PowerLoss
  BY <1>1 DEF Panic, PowerLoss, Reboot
<1>2. CASE Setup \/ NetLoop \/ Serial \/ Tick
  BY <1>2 DEF Setup, BeginWithoutNvs, BeginClean, BeginOnTrial, NetLoop, Serial, NoCommand,
              Request, Tick, DeadlineMissed, NothingDue, StartUpdate
<1>3. CASE RunUpdate
  <2>1. CASE Stream
    <3>1. /\ running' = running /\ proven' = proven /\ slot'[running] = slot[running]
          /\ rash' = (rash \/ slot[running] \notin proven)
      BY <1>0, <2>1 DEF Stream
    <3>2. QED
      BY <1>0, <3>1
  <2>2. CASE CommitFails \/ Commit
    <3>1. pc = "stream" /\ received > 0
      BY <1>0, <2>2 DEF CommitFails, Commit, Complete, MoreToCome
    <3>2. UNCHANGED <<running, proven, rash>> /\ slot'[running] = slot[running] /\ pc' # "stream"
      BY <1>0, <2>2 DEF CommitFails, Commit, Abandon
    <3>3. QED
      BY <1>0, <3>1, <3>2
  <2>3. CASE FetchFails \/ StreamFails \/ HashMismatch
    BY <2>3 DEF FetchFails, StreamFails, HashMismatch, Abandon
  <2>4. CASE \E body \in Contents : Fetch(body)
    BY <2>4 DEF Fetch
  <2>5. QED
    BY <1>3, <2>1, <2>2, <2>3, <2>4 DEF RunUpdate
<1>4. CASE MarkProbation
  BY <1>4 DEF MarkProbation, Mark, MarkWithoutNvs, Mark2, Reboot
<1>5. CASE Health
  <2>1. UNCHANGED <<slot, running, rash>> /\ proven \subseteq proven' /\ pc' # "stream"
    BY <1>5 DEF Health
  <2>2. QED
    BY <2>1
<1>6. CASE Clear2
  BY <1>6 DEF Clear2
<1>7. CASE RevertToPrevious
  <2>1. UNCHANGED <<slot, proven, rash>> /\ pc' # "stream"
    BY <1>7 DEF RevertToPrevious, Revert, Revert2, Switch, SwitchFails, Reboot, IInv, TypeOK, ModesOK
  <2>2. QED
    BY <2>1
<1>8. CASE UNCHANGED vars
  BY <1>8 DEF vars
<1>9. QED
  BY <1>1, <1>2, <1>3, <1>4, <1>5, <1>6, <1>7, <1>8 DEF Next, Program

\* One of the slots holds an image that has reached MQTT, unless an operator updated
\* from an image that has not: for any images, losses of power and failures of the
\* flash, the updater by itself never writes over the last of them.
THEOREM WorkingImageStays == Spec => []WorkingImageKept
<1>1. Init => KeepInv
  BY DEF Init, KeepInv, WorkingImageKept, Slots
<1>2. IInv /\ KeepInv /\ [Next]_vars => KeepInv'
  BY StepKeep
<1>3. KeepInv => WorkingImageKept
  BY DEF KeepInv
<1>4. QED
  BY <1>1, <1>2, <1>3, Inductive, PTL DEF Spec

\* A trial may yet lead to a rollback, or one has begun.
MayRevert == nvsProb \/ probation \/ pc \in {"mark", "mark2", "revert", "revert2", "switch"}

\* Every rollback but the first of an update was paid for by a failure of the flash,
\* and so is the next as long as there may be one; a switch that leaves the flag set
\* has cost one more.
SettleInv ==
  /\ RollbackSettles
  /\ MayRevert => rollbacks <= flashFails
  /\ pc = "switch" /\ nvsProb => rollbacks < flashFails
  /\ pc = "revert2" => ~nvsProb

LEMMA StepSettle ==
  ASSUME TypeOK, SettleInv, [Next]_vars
  PROVE  SettleInv'
<1> USE DEF flash, nvs, trial, update, env, history, SettleInv, RollbackSettles,
            Arm, Disarm, FlashWorks, FlashFails
<1>0. rollbacks \in Nat /\ flashFails \in Nat /\ resume \in {"net", "health"}
  BY DEF TypeOK, CountsOK, ModesOK
<1>1. CASE Panic \/ PowerLoss
  BY <1>0, <1>1 DEF Panic, PowerLoss, Reboot, MayRevert
<1>2. CASE Setup
  BY <1>0, <1>2 DEF Setup, BeginWithoutNvs, BeginClean, BeginOnTrial, MayRevert
<1>3. CASE NetLoop \/ Serial \/ Tick
  <2>1. /\ UNCHANGED <<nvsProb, probation, rollbacks, flashFails>>
        /\ pc' \in {"serial", "tick", "health", "fetch"} \/ (pc' = "revert" /\ probation)
    BY <1>3 DEF NetLoop, Serial, NoCommand, Request, Tick, DeadlineMissed, DeadlineDue,
                NothingDue, StartUpdate
  <2>2. QED
    BY <1>0, <2>1 DEF MayRevert
<1>4. CASE RunUpdate
  <2>1. CASE Commit
    BY <1>0, <2>1 DEF Commit, MayRevert
  <2>2. CASE ~Commit
    <3>1. /\ UNCHANGED <<nvsProb, probation, rollbacks, flashFails>>
          /\ pc' \in {"fetch", "stream", "health"}
      BY <1>4, <2>2 DEF RunUpdate, FetchFails, Fetch, Stream, StreamFails, HashMismatch,
                        CommitFails, Commit, Complete, Abandon
    <3>2. QED
      BY <1>0, <3>1 DEF MayRevert
  <2>3. QED
    BY <2>1, <2>2
<1>5. CASE MarkProbation
  BY <1>0, <1>5 DEF MarkProbation, Mark, MarkWithoutNvs, Mark2, Reboot, MayRevert
<1>6. CASE Health \/ Clear2
  <2>1. /\ pc' \in {"net", "clear2"} /\ rollbacks' = rollbacks
        /\ (nvsProb' => nvsProb) /\ (probation' => probation)
        /\ flashFails' \in {flashFails, flashFails + 1}
    BY <1>6, TypeOK DEF Health, Clear2, TypeOK, ModesOK
  <2>2. MayRevert' => MayRevert
    BY <2>1 DEF MayRevert
  <2>3. rollbacks <= 1 + flashFails /\ (MayRevert => rollbacks <= flashFails)
    OBVIOUS
  <2>4. rollbacks' <= 1 + flashFails' /\ (rollbacks <= flashFails => rollbacks' <= flashFails')
    <3>1. CASE flashFails' = flashFails
      BY <2>1, <2>3, <3>1
    <3>2. CASE flashFails' = flashFails + 1
      BY <1>0, <2>1, <2>3, <3>2
    <3>3. QED
      BY <2>1, <3>1, <3>2
  <2>5. MayRevert' => rollbacks' <= flashFails'
    BY <2>2, <2>3, <2>4, Zenon
  <2>6. pc' # "switch" /\ pc' # "revert2"
    BY <2>1
  <2>7. QED
    BY <2>4, <2>5, <2>6, Zenon
<1>7. CASE RevertToPrevious
  BY <1>0, <1>7 DEF RevertToPrevious, Revert, Revert2, Switch, SwitchFails, Reboot, MayRevert
<1>8. CASE UNCHANGED vars
  BY <1>8 DEF vars, MayRevert
<1>9. QED
  BY <1>1, <1>2, <1>3, <1>4, <1>5, <1>6, <1>7, <1>8 DEF Next, Program

\* One update leads to at most one rollback, and to one more for each failure of the
\* flash: for any images, deadlines, boot counts and losses of power, the board does
\* not go back and forth between its two images (revertToPrevious, begin).
THEOREM RollbacksSettle == Spec => []RollbackSettles
<1>1. Init => SettleInv
  BY DEF Init, SettleInv, RollbackSettles, MayRevert
<1>2. TypeOK /\ SettleInv /\ [Next]_vars => SettleInv'
  BY StepSettle
<1>3. SettleInv => RollbackSettles
  BY DEF SettleInv
<1>4. QED
  BY <1>1, <1>2, <1>3, Typing, PTL DEF Spec

-----------------------------------------------------------------------------
(* The trial protocol, in the environment SafeEnv                          *)

\* Where the next boot, the trial flag and its copy in RAM stand at each
\* program point.  The image the bootloader would start is accepted unless a
\* trial is under way, and while one is, the other slot is accepted.
TrialInv ==
  /\ proven \subseteq Image
  /\ OnTrial \/ slot[bootSlot] \in proven
  /\ OnTrial => slot[Other(bootSlot)] \in proven
  /\ pc \in {"mark", "mark2"} => bootSlot # running
  /\ pc \in {"revert", "mark2"} => nvsProb
  /\ pc \in {"revert2", "switch", "clear2"} => ~nvsProb
  /\ probation => nvsProb
  /\ nvsProb => probation \/ pc \in {"setup", "mark2", "revert"}
  /\ pc \in UpdatePoints \/ state = "REQUESTED" => ~probation
  /\ pc = "setup" => state = "IDLE" /\ ~probation

LEMMA InitTrialInv == Init => TrialInv
  BY ImageAssumption DEF Init, TrialInv, OnTrial, Slots, UpdatePoints

LEMMA FlashNeverFails == SafeEnv /\ TypeOK => ~FlashFails
  BY DEF SafeEnv, TypeOK, CountsOK, FlashFails

LEMMA StepTrialInv ==
  ASSUME SafeEnv, IInv, TrialInv, [Next]_vars
  PROVE  TrialInv'
<1> USE DEF flash, nvs, trial, update, env, history, NextSlot, DropFlag, Arm, Disarm
<1>0. /\ running \in Slots /\ bootSlot \in Slots /\ slot \in [Slots -> Contents]
      /\ Other(running) \in Slots /\ Other(running) # running
      /\ Other(Other(running)) = running
      /\ bootSlot = running \/ bootSlot = Other(running)
      /\ ~FlashFails
  BY OtherFacts, FlashNeverFails DEF IInv, TypeOK, ModesOK
<1>1. CASE Panic
  BY <1>1 DEF Panic, Reboot, TrialInv, OnTrial, UpdatePoints
<1>2. CASE PowerLoss
  BY <1>2 DEF PowerLoss, Reboot, SafeEnv, TrialInv, OnTrial, UpdatePoints
<1>3. CASE Setup
  BY <1>0, <1>3 DEF Setup, BeginWithoutNvs, BeginClean, BeginOnTrial,
                    TrialInv, OnTrial, UpdatePoints
<1>4. CASE NetLoop
  BY <1>4 DEF NetLoop, TrialInv, OnTrial, UpdatePoints
<1>5. CASE Serial
  BY <1>5 DEF Serial, NoCommand, Request, SafeEnv, TrialInv, OnTrial, UpdatePoints
<1>6. CASE Tick
  BY <1>6 DEF Tick, DeadlineMissed, DeadlineDue, NothingDue, StartUpdate,
              TrialInv, OnTrial, UpdatePoints
<1>7. CASE RunUpdate
  <2>1. /\ pc \in {"fetch", "stream"} /\ bootSlot = running
        /\ ~probation /\ ~nvsProb /\ slot[running] \in proven
    BY <1>7 DEF RunUpdate, FetchFails, Fetch, Stream, StreamFails, HashMismatch,
                CommitFails, Commit, Complete, IInv, TargetInv, TrialInv, OnTrial, UpdatePoints
  <2>2. running' = running /\ slot'[running] = slot[running] /\ proven' = proven
    BY <1>0, <1>7 DEF RunUpdate, FetchFails, Fetch, Stream, StreamFails, HashMismatch,
                CommitFails, Commit, Abandon
  <2>3. CASE Commit
    BY <1>0, <2>1, <2>2, <2>3 DEF Commit, TrialInv, OnTrial, UpdatePoints
  <2>4. CASE ~Commit
    <3>1. /\ bootSlot' = bootSlot /\ nvsProb' = nvsProb /\ probation' = probation
          /\ pc' \in {"fetch", "stream", "health"}
      BY <1>7, <2>1, <2>4 DEF RunUpdate, FetchFails, Fetch, Stream, StreamFails, HashMismatch,
                        CommitFails, Abandon
    <3>2. QED
      BY <2>1, <2>2, <3>1 DEF TrialInv, OnTrial, UpdatePoints
  <2>5. QED
    BY <2>3, <2>4
<1>8. CASE MarkProbation
  BY <1>0, <1>8 DEF MarkProbation, Mark, MarkWithoutNvs, Mark2, Reboot,
                    TrialInv, OnTrial, UpdatePoints
<1>9. CASE Health
  <2>1. bootSlot = running /\ slot[running] \in Image
    BY <1>9 DEF Health, IInv, TargetInv
  <2>2. QED
    BY <1>0, <1>9, <2>1 DEF Health, TrialInv, OnTrial, UpdatePoints
<1>10. CASE Clear2
  BY <1>10 DEF Clear2, TrialInv, OnTrial, UpdatePoints
<1>11. CASE RevertToPrevious
  <2>1. bootSlot = running
    BY <1>11 DEF RevertToPrevious, Revert, Revert2, Switch, SwitchFails, IInv, TargetInv
  <2>2. QED
    BY <1>0, <1>11, <2>1 DEF RevertToPrevious, Revert, Revert2, Switch, SwitchFails, Reboot,
                             TrialInv, OnTrial, UpdatePoints
<1>12. CASE UNCHANGED vars
  BY <1>12 DEF vars, TrialInv, OnTrial
<1>13. QED
  BY <1>1, <1>2, <1>3, <1>4, <1>5, <1>6, <1>7, <1>8, <1>9, <1>10, <1>11, <1>12
     DEF Next, Program

LEMMA InductiveOnTrial ==
  ASSUME SafeEnv
  PROVE  Spec => [](IInv /\ TrialInv)
<1>1. Init => IInv /\ TrialInv
  BY InitIInv, InitTrialInv
<1>2. IInv /\ TrialInv /\ [Next]_vars => (IInv /\ TrialInv)'
  BY StepTypeOK, StepTargetInv, StepTrialInv DEF IInv
<1>3. QED
  BY <1>1, <1>2, PTL DEF Spec

\* An image that never reached MQTT runs on probation or is being reverted.
\* SafeEnv is needed: each of its conjuncts is the negation of a finding.
THEOREM UnprovenIsOnTrial ==
  ASSUME SafeEnv
  PROVE  Spec => []OnTrialUntilProven
<1>1. IInv /\ TrialInv => OnTrialUntilProven
  <2> SUFFICES ASSUME IInv, TrialInv PROVE OnTrialUntilProven
    OBVIOUS
  <2>1. Other(running) # running /\ (bootSlot # running => running = Other(bootSlot))
    BY OtherFacts DEF IInv, TypeOK, ModesOK
  <2>2. QED
    BY <2>1 DEF IInv, TargetInv, TrialInv, OnTrial, OnTrialUntilProven
<1>2. QED
  BY <1>1, InductiveOnTrial, PTL

\* There is always an image to live on: what the bootloader starts next has reached
\* MQTT, or is on trial and what it would go back to has.
WayBack == slot[bootSlot] \in proven \/ (OnTrial /\ slot[Other(bootSlot)] \in proven)

\* The board never gives away its last image that has reached MQTT, for any images,
\* updates, panics and downloads (runUpdate, confirmHealthy, revertToPrevious).
THEOREM ProvenImageKept ==
  ASSUME SafeEnv
  PROVE  Spec => []WayBack
<1>1. TrialInv => WayBack
  BY DEF TrialInv, WayBack
<1>2. QED
  BY <1>1, InductiveOnTrial, PTL

\* A rollback, once begun, finds its image.
THEOREM RollbackFindsImage ==
  ASSUME SafeEnv
  PROVE  Spec => []RollbackSucceeds
<1>1. IInv /\ TrialInv => RollbackSucceeds
  BY DEF IInv, TargetInv, TrialInv, OnTrial, RollbackSucceeds
<1>2. QED
  BY <1>1, InductiveOnTrial, PTL

\* The counter in NVS never runs ahead of the boots of the current trial, unless the
\* writes that ended the last trial and those that armed this one were both cut in
\* two; off trial it is zero unless the former were.
AllowanceInv ==
  /\ OwnBoots
  /\ nvsProb /\ pc # "mark2" => nvsBoots <= boots \/ torn = {"clear2", "mark2"}
  /\ ~nvsProb \/ pc = "mark2" =>
       nvsBoots = 0 \/ "clear2" \in torn \/ pc \in {"clear2", "revert2"}

LEMMA StepAllowance ==
  ASSUME SafeEnv, IInv, TrialInv, AllowanceInv, [Next]_vars
  PROVE  AllowanceInv'
<1> USE DEF flash, nvs, trial, update, env, history, AllowanceInv, OwnBoots, Arm, Disarm
<1>0. /\ nvsBoots \in 0 .. 255 /\ boots \in Nat /\ MaxTries \in 1 .. 254 /\ ~FlashFails
      /\ torn \subseteq {"clear2", "mark2"}
  BY FlashNeverFails, BoundAssumption DEF IInv, TypeOK, CountsOK, ModesOK
<1>1. CASE Panic \/ PowerLoss
  <2>1. CASE Panic
    BY <2>1 DEF Panic, Reboot
  <2>2. CASE PowerLoss
    <3>1. /\ pc' = "setup" /\ UNCHANGED <<nvsProb, nvsBoots, boots>> /\ pc # "revert2"
          /\ torn' = torn \cup ({pc} \cap {"clear2", "mark2"})
      BY <2>2 DEF PowerLoss, Reboot, SafeEnv
    <3>2. CASE pc = "mark2"
      <4>1. nvsBoots <= boots \/ torn' = {"clear2", "mark2"}
        <5>1. CASE nvsBoots = 0
          BY <1>0, <5>1
        <5>2. CASE "clear2" \in torn
          BY <1>0, <3>1, <3>2, <5>2
        <5>3. QED
          BY <3>2, <5>1, <5>2
      <4>2. nvsProb
        BY <3>2 DEF TrialInv
      <4>3. QED
        BY <3>1, <4>1, <4>2
    <3>3. CASE pc = "clear2"
      <4>1. ~nvsProb /\ "clear2" \in torn'
        BY <3>1, <3>3 DEF TrialInv
      <4>2. QED
        BY <3>1, <4>1
    <3>4. CASE pc \notin {"mark2", "clear2"}
      <4>1. torn' = torn
        BY <3>1, <3>4
      <4>2. QED
        BY <3>1, <3>4, <4>1
    <3>5. QED
      BY <3>2, <3>3, <3>4
  <2>3. QED
    BY <1>1, <2>1, <2>2
<1>2. CASE Setup
  <2>1. CASE BeginOnTrial
    BY <1>0, <2>1 DEF BeginOnTrial, Tries, OutOfTries
  <2>2. CASE ~BeginOnTrial
    BY <1>2, <2>2 DEF Setup, BeginWithoutNvs, BeginClean
  <2>3. QED
    BY <2>1, <2>2
<1>3. CASE NetLoop \/ Serial \/ Tick
  <2>1. /\ UNCHANGED <<nvsProb, nvsBoots, boots, torn>>
        /\ pc \notin {"mark2", "clear2", "revert2"} /\ pc' # "mark2"
    BY <1>3 DEF NetLoop, Serial, NoCommand, Request, Tick, DeadlineMissed, NothingDue, StartUpdate
  <2>2. pc' # "revert" \/ resume' = "health"
    BY <1>3 DEF NetLoop, Serial, NoCommand, Request, Tick, DeadlineMissed, NothingDue, StartUpdate
  <2>3. QED
    BY <2>1, <2>2
<1>4. CASE RunUpdate
  <2>1. /\ ~nvsProb /\ UNCHANGED <<nvsProb, nvsBoots, torn>>
        /\ pc' \notin {"revert", "mark2"} /\ pc \notin {"clear2", "revert2"}
    BY <1>4 DEF RunUpdate, FetchFails, Fetch, Stream, StreamFails, HashMismatch,
                CommitFails, Commit, Complete, Abandon, TrialInv, UpdatePoints
  <2>2. QED
    BY <2>1
<1>5. CASE MarkProbation
  <2>1. CASE Mark
    <3>1. ~nvsProb
      BY <2>1 DEF Mark, TrialInv, UpdatePoints
    <3>2. QED
      BY <2>1, <3>1 DEF Mark
  <2>2. CASE Mark2
    BY <1>0, <2>2 DEF Mark2, Reboot
  <2>3. QED
    BY <1>0, <1>5, <2>1, <2>2 DEF MarkProbation, MarkWithoutNvs
<1>6. CASE Health \/ Clear2
  BY <1>0, <1>6 DEF Health, Clear2, TrialInv
<1>7. CASE RevertToPrevious
  BY <1>0, <1>7 DEF RevertToPrevious, Revert, Revert2, Switch, SwitchFails, Reboot, TrialInv,
                    IInv, TypeOK, ModesOK
<1>8. CASE UNCHANGED vars
  BY <1>8 DEF vars
<1>9. QED
  BY <1>1, <1>2, <1>3, <1>4, <1>5, <1>6, <1>7, <1>8 DEF Next, Program

\* No image loses boots of its trial to an earlier one, unless power has cut in two
\* both the writes of confirmHealthy and those of markProbation.
THEOREM NoBorrowedBoots ==
  ASSUME SafeEnv
  PROVE  Spec => []OwnBoots
<1>1. Init => AllowanceInv
  BY DEF Init, AllowanceInv, OwnBoots
<1>2. IInv /\ TrialInv /\ AllowanceInv /\ [Next]_vars => AllowanceInv'
  BY StepAllowance
<1>3. AllowanceInv => OwnBoots
  BY DEF AllowanceInv
<1>4. QED
  BY <1>1, <1>2, <1>3, InductiveOnTrial, PTL DEF Spec

\* Power is lost less often than it takes to bring the byte of the counter round.
CounterFits == MaxTries + MaxPowerLoss < 255

\* The counter in NVS never falls behind the boots of the trial, and stops one past
\* MaxTries but for power lost on the way back.  What is left of it off trial, or on
\* probation, does not exceed MaxTries.
CountInv ==
  /\ pc \in {"mark", "mark2"} => boots = 0
  /\ nvsProb /\ pc # "mark2" =>
       boots <= nvsBoots /\ nvsBoots <= MaxTries + losses + (IF pc = "revert" THEN 1 ELSE 0)
  /\ probation => nvsBoots <= MaxTries
  /\ (~nvsProb \/ pc = "mark2") /\ pc # "revert2" => nvsBoots <= MaxTries

LEMMA StepCount ==
  ASSUME SafeEnv, CounterFits, IInv, TrialInv, CountInv, [Next]_vars
  PROVE  CountInv'
<1> USE DEF flash, nvs, trial, update, env, history, CountInv, Arm, Disarm
<1>0. /\ nvsBoots \in 0 .. 255 /\ boots \in Nat /\ MaxTries \in 1 .. 254 /\ ~FlashFails
      /\ losses \in 0 .. MaxPowerLoss /\ MaxPowerLoss \in Nat
  BY FlashNeverFails, BoundAssumption DEF IInv, TypeOK, CountsOK
<1>1. CASE Panic \/ PowerLoss
  <2>1. CASE Panic
    BY <1>0, <2>1 DEF Panic, Reboot
  <2>2. CASE PowerLoss
    <3>1. /\ pc' = "setup" /\ probation' = FALSE /\ losses' = losses + 1
          /\ UNCHANGED <<nvsProb, nvsBoots, boots>> /\ pc # "revert2"
      BY <2>2 DEF PowerLoss, Reboot, SafeEnv
    <3>2. nvsProb => boots <= nvsBoots /\ nvsBoots <= MaxTries + losses + 1
      BY <1>0
    <3>3. ~nvsProb => nvsBoots <= MaxTries
      BY <3>1
    <3>4. QED
      BY <1>0, <3>1, <3>2, <3>3
  <2>3. QED
    BY <1>1, <2>1, <2>2
<1>2. CASE Setup
  <2>1. CASE BeginOnTrial
    <3>1. boots <= nvsBoots /\ nvsBoots <= MaxTries + losses /\ nvsBoots + 1 <= 255
      BY <1>0, <2>1 DEF BeginOnTrial, CounterFits
    <3>2. Tries = nvsBoots + 1
      BY <1>0, <3>1 DEF Tries
    <3>3. /\ nvsProb' /\ nvsBoots' = nvsBoots + 1 /\ boots' = boots + 1 /\ losses' = losses
          /\ pc' \in {"net", "revert"} /\ (pc' = "net" => nvsBoots + 1 <= MaxTries)
          /\ (probation' => pc' = "net" \/ probation)
      BY <1>0, <2>1, <3>2 DEF BeginOnTrial, OutOfTries
    <3>4. ~probation
      BY <2>1 DEF BeginOnTrial, TrialInv
    <3>5. QED
      BY <1>0, <3>1, <3>3, <3>4
  <2>2. CASE ~BeginOnTrial
    BY <1>0, <1>2, <2>2 DEF Setup, BeginWithoutNvs, BeginClean
  <2>3. QED
    BY <2>1, <2>2
<1>3. CASE NetLoop \/ Serial \/ Tick
  <2>1. UNCHANGED <<nvsProb, nvsBoots, boots, losses, probation>> /\ pc \notin {"mark2", "revert", "revert2"}
        /\ pc' \notin {"mark", "mark2"}
    BY <1>3 DEF NetLoop, Serial, NoCommand, Request, Tick, DeadlineMissed, NothingDue, StartUpdate
  <2>2. QED
    BY <1>0, <2>1
<1>4. CASE RunUpdate
  <2>1. /\ ~nvsProb /\ UNCHANGED <<nvsProb, nvsBoots, probation>>
        /\ pc # "revert2" /\ pc' # "mark2"
    BY <1>4 DEF RunUpdate, FetchFails, Fetch, Stream, StreamFails, HashMismatch,
                CommitFails, Commit, Complete, Abandon, TrialInv, UpdatePoints
  <2>2. pc' = "mark" => boots' = 0
    BY <1>4 DEF RunUpdate, FetchFails, Fetch, Stream, StreamFails, HashMismatch,
                CommitFails, Commit, Complete, Abandon
  <2>3. QED
    BY <2>1, <2>2
<1>5. CASE MarkProbation
  <2>1. CASE Mark
    <3>1. ~nvsProb
      BY <2>1 DEF Mark, TrialInv, UpdatePoints
    <3>2. QED
      BY <1>0, <2>1, <3>1 DEF Mark
  <2>2. CASE Mark2
    BY <1>0, <2>2 DEF Mark2, Reboot
  <2>3. QED
    BY <1>0, <1>5, <2>1, <2>2 DEF MarkProbation, MarkWithoutNvs
<1>6. CASE Health \/ Clear2
  <2>1. CASE Health
    <3>1. /\ pc = "health" /\ pc' \in {"net", "clear2"} /\ UNCHANGED <<boots, losses, nvsBoots>>
          /\ (probation' => probation)
      BY <2>1 DEF Health, IInv, TypeOK, ModesOK
    <3>2. nvsProb' => nvsProb
      BY <1>0, <2>1 DEF Health
    <3>3. ~nvsProb' => nvsBoots <= MaxTries
      BY <1>0, <2>1 DEF Health
    <3>4. QED
      BY <1>0, <3>1, <3>2, <3>3
  <2>2. CASE Clear2
    BY <1>0, <2>2 DEF Clear2, TrialInv
  <2>3. QED
    BY <1>6, <2>1, <2>2
<1>7. CASE RevertToPrevious
  BY <1>0, <1>7 DEF RevertToPrevious, Revert, Revert2, Switch, SwitchFails, Reboot, TrialInv, IInv, TypeOK, ModesOK
<1>8. CASE UNCHANGED vars
  BY <1>8 DEF vars
<1>9. QED
  BY <1>1, <1>2, <1>3, <1>4, <1>5, <1>6, <1>7, <1>8 DEF Next, Program

\* An image on trial gets its boots and no more, wherever power cuts the pairs of writes
\* of confirmHealthy and markProbation in two: one that crashes before it can be judged
\* is given up in a bounded number of resets.
THEOREM TrialAllowance ==
  ASSUME SafeEnv, CounterFits
  PROVE  Spec => []FullAllowance
<1>1. Init => CountInv
  BY BoundAssumption DEF Init, CountInv
<1>2. IInv /\ TrialInv /\ CountInv /\ [Next]_vars => CountInv'
  BY StepCount
<1>3. IInv /\ CountInv => (nvsProb => boots <= MaxTries + 1 + losses)
  <2> SUFFICES ASSUME IInv, CountInv, nvsProb PROVE boots <= MaxTries + 1 + losses
    OBVIOUS
  <2>1. MaxTries \in Nat /\ losses \in Nat /\ boots \in Nat /\ nvsBoots \in Nat
    BY BoundAssumption DEF IInv, TypeOK, CountsOK
  <2>2. QED
    BY <2>1 DEF CountInv
<1>4. Spec => [](nvsProb => boots <= MaxTries + 1 + losses)
  BY <1>1, <1>2, <1>3, InductiveOnTrial, PTL DEF Spec
<1>5. QED
  BY <1>4, NoBorrowedBoots, PTL DEF FullAllowance

-----------------------------------------------------------------------------
(* Refinement of TrialBoot                                                 *)

LEMMA InitImplements == Init => Abs!TInit
  BY DEF Init, Abs!TInit, OnTrial, Slots

\* The steps that change what TrialBoot sees are Update.end (an installation),
\* the first write of confirmHealthy on trial (acceptance) and the switch of
\* revertToPrevious (rollback); every other step is a stutter.
LEMMA StepImplements ==
  ASSUME SafeEnv, IInv, TrialInv, [Next]_vars
  PROVE  [Abs!TNext]_(Abs!tvars)
<1> USE DEF flash, nvs, trial, update, env, history, NextSlot, Arm, Disarm, Abs!tvars
<1>0. /\ running \in Slots /\ bootSlot \in Slots /\ slot \in [Slots -> Contents]
      /\ Other(running) \in Slots /\ Other(running) # running
      /\ Other(Other(running)) = running
      /\ bootSlot = running \/ bootSlot = Other(running)
      /\ ~FlashFails
      /\ Blank \notin proven
  BY OtherFacts, FlashNeverFails, ImageAssumption DEF IInv, TypeOK, ModesOK, TrialInv
<1>1. CASE Panic
  BY <1>1 DEF Panic, Reboot, OnTrial
<1>2. CASE PowerLoss
  BY <1>2 DEF PowerLoss, Reboot, SafeEnv, OnTrial
<1>3. CASE Setup
  BY <1>0, <1>3 DEF Setup, BeginWithoutNvs, BeginClean, BeginOnTrial, OnTrial
<1>4. CASE NetLoop \/ Serial \/ Tick
  <2>1. slot' = slot /\ bootSlot' = bootSlot /\ proven' = proven
    BY <1>4 DEF NetLoop, Serial, NoCommand, Request, Tick, DeadlineMissed, NothingDue,
                StartUpdate
  <2>2. nvsProb' = nvsProb /\ {pc, pc'} \cap {"mark", "revert2", "switch"} = {}
    BY <1>4 DEF NetLoop, Serial, NoCommand, Request, Tick, DeadlineMissed, NothingDue,
                StartUpdate
  <2>3. QED
    BY <2>1, <2>2 DEF OnTrial
<1>5. CASE RunUpdate
  <2>1. /\ bootSlot = running /\ ~OnTrial /\ slot[running] \in proven
    BY <1>5 DEF RunUpdate, FetchFails, Fetch, Stream, StreamFails, HashMismatch,
                CommitFails, Commit, Complete, IInv, TargetInv, TrialInv, OnTrial, UpdatePoints
  <2>2. CASE Commit
    <3>1. /\ OnTrial' /\ slot'[bootSlot'] = served /\ slot'[Other(bootSlot')] = slot[bootSlot]
      BY <1>0, <2>1, <2>2 DEF Commit, OnTrial
    <3>2. slot[bootSlot] # Blank /\ served \in Image /\ proven' = proven
      BY <1>0, <2>1, <2>2 DEF Commit
    <3>3. Abs!Install(served)
      BY <2>1, <3>1, <3>2 DEF Abs!Install, Abs!OnTrial
    <3>4. QED
      BY <3>2, <3>3 DEF Abs!TNext
  <2>3. CASE ~Commit
    <3>1. slot'[running] = slot[running] /\ bootSlot' = bootSlot /\ proven' = proven
      BY <1>0, <1>5, <2>3
         DEF RunUpdate, FetchFails, Fetch, Stream, StreamFails, HashMismatch,
             CommitFails, Abandon
    <3>2. ~OnTrial'
      BY <1>5, <2>1, <2>3
         DEF RunUpdate, FetchFails, Fetch, Stream, StreamFails, HashMismatch,
             CommitFails, Abandon, OnTrial
    <3>3. QED
      BY <2>1, <3>1, <3>2
  <2>4. QED
    BY <2>2, <2>3
<1>6. CASE MarkProbation
  <2>1. OnTrial /\ OnTrial'
    BY <1>0, <1>6 DEF MarkProbation, Mark, MarkWithoutNvs, Mark2, Reboot, TrialInv, OnTrial
  <2>2. slot' = slot /\ bootSlot' = bootSlot /\ proven' = proven
    BY <1>6 DEF MarkProbation, Mark, MarkWithoutNvs, Mark2
  <2>3. QED
    BY <2>1, <2>2
<1>7. CASE Health
  <2>1. bootSlot = running /\ (OnTrial <=> nvsProb) /\ (OnTrial' <=> nvsProb')
    BY <1>7 DEF Health, IInv, TargetInv, OnTrial
  <2>2. slot' = slot /\ bootSlot' = bootSlot
    BY <1>7 DEF Health
  <2>3. CASE probation /\ nvsProb' = FALSE /\ proven' = proven \cup {slot[running]}
    <3>1. Abs!Accept
      BY <1>0, <2>1, <2>2, <2>3 DEF TrialInv, Abs!Accept, Abs!OnTrial
    <3>2. QED
      BY <3>1 DEF Abs!TNext, Abs!Verdict
  <2>4. CASE ~(probation /\ nvsProb' = FALSE /\ proven' = proven \cup {slot[running]})
    <3>1. nvsProb' = nvsProb /\ (proven' = proven \/ (~probation /\ proven' = proven \cup {slot[running]}))
      BY <1>0, <1>7, <2>4 DEF Health
    <3>2. ~probation => slot[running] \in proven
      BY <1>7, <2>1 DEF Health, TrialInv, OnTrial
    <3>3. proven' = proven
      BY <3>1, <3>2
    <3>4. QED
      BY <2>1, <2>2, <3>1, <3>3
  <2>5. QED
    BY <2>3, <2>4
<1>8. CASE Clear2
  BY <1>8 DEF Clear2, OnTrial
<1>9. CASE RevertToPrevious
  <2>1. bootSlot = running
    BY <1>9 DEF RevertToPrevious, Revert, Revert2, Switch, SwitchFails, IInv, TargetInv
  <2>2. CASE Switch
    <3>1. OnTrial /\ slot[Other(bootSlot)] # Blank /\ ~OnTrial'
      BY <1>0, <2>2 DEF Switch, Reboot, TrialInv, OnTrial
    <3>2. slot' = slot /\ bootSlot' = Other(bootSlot) /\ proven' = proven
      BY <2>1, <2>2 DEF Switch
    <3>3. Abs!Rollback
      BY <3>1, <3>2 DEF Abs!Rollback, Abs!OnTrial
    <3>4. QED
      BY <3>3 DEF Abs!TNext, Abs!Verdict
  <2>3. CASE Revert \/ Revert2
    BY <1>0, <2>3 DEF Revert, Revert2, TrialInv, OnTrial
  <2>4. CASE SwitchFails
    BY <1>0, <2>1, <2>4 DEF SwitchFails, TrialInv, OnTrial, IInv, TargetInv
  <2>5. QED
    BY <1>9, <2>2, <2>3, <2>4 DEF RevertToPrevious
<1>10. CASE UNCHANGED vars
  BY <1>10 DEF vars, OnTrial
<1>11. QED
  BY <1>1, <1>2, <1>3, <1>4, <1>5, <1>6, <1>7, <1>8, <1>9, <1>10 DEF Next, Program

\* The updater implements the trial protocol, for every set of images, every
\* number of updates and every number of power losses outside the windows.
THEOREM UpdaterImplementsTrial ==
  ASSUME SafeEnv
  PROVE  Spec => ImplementsTrial
<1>1. IInv /\ TrialInv /\ [Next]_vars => [Abs!TNext]_(Abs!tvars)
  BY StepImplements
<1>2. QED
  BY <1>1, InitImplements, InductiveOnTrial, PTL DEF Spec, ImplementsTrial, Abs!TSafe
=============================================================================
