-------------------------------- MODULE Ota --------------------------------
(***************************************************************************)
(* The over-the-air updater of the controller firmware (OtaUpdater.cpp),   *)
(* with the part of setup() and loop() of main.cpp that drives it.         *)
(*                                                                         *)
(* The flash holds two application slots.  bootSlot is the one the         *)
(* bootloader picks (otadata), running the one whose code executes.  Two   *)
(* NVS keys survive a reset: nvsProb ("the next image is on trial") and    *)
(* nvsBoots (how often it has come up).  Every flash or NVS write is a     *)
(* step of its own, so that a reset may fall between any two of them.      *)
(***************************************************************************)
EXTENDS Integers, FiniteSets

CONSTANTS
  Image,         \* firmware images that exist, including Factory
  Factory,       \* the image flashed by cable, known to work
  Blank,         \* contents of a slot that the bootloader refuses
  Fault,         \* Fault[i]: what is wrong with image i, see Faults
  Window,        \* loop passes before the probation deadline (60 s)
  MaxTries,      \* OTA_MAX_BOOT_TRIES
  Chunks,        \* chunks in a download
  RequestOnTrial,\* may the operator request an update during probation?
  PowerLossAt,   \* program points at which the board may lose power
  MaxRequests, MaxPowerLoss, MaxFlashFails   \* bounds of the environment

Faults == {"none", "mute", "panicsInLoop", "panicsInSetup"}
Slots == {0, 1}
Contents == Image \cup {Blank}

\* Program points.  "setup" .. "health" is the path of main.cpp; a name with
\* a 2 is reached between the two NVS writes of one function.
Points == {"setup", "net", "serial", "tick", "health", "clear2", "fetch",
           "stream", "mark", "mark2", "revert", "revert2", "switch"}
UpdatePoints == {"fetch", "stream", "mark", "mark2"}

ASSUME ImageAssumption ==
  /\ Factory \in Image
  /\ Blank \notin Image
  /\ Fault \in [Image -> Faults]
  /\ Fault[Factory] = "none"

ASSUME BoundAssumption ==
  /\ Window \in Nat \ {0} /\ Chunks \in Nat \ {0} /\ MaxTries \in 1 .. 254
  /\ MaxRequests \in Nat /\ MaxPowerLoss \in Nat /\ MaxFlashFails \in Nat
  /\ RequestOnTrial \in BOOLEAN
  /\ PowerLossAt \subseteq Points

VARIABLES
  pc, resume,                     \* program point; where a failed revert returns to
  slot, bootSlot, running,        \* flash: contents, otadata; executing slot
  nvsProb, nvsBoots,              \* NVS: OTA_KEY_PROB, OTA_KEY_BOOTS
  probation, left, confirmed,     \* RAM: _probation, passes to the deadline, static confirmed
  mqtt,                           \* RAM: net.isMqttConnected()
  state, sha,                     \* RAM: _state, the image whose hash is _sha256Hex
  served, received, updating,     \* RAM: body the server sends, chunks so far, s_inProgress
  requests, losses, flashFails,     \* environment counters
  proven,                         \* history: images that have reached MQTT
  boots,                          \* history: times begin() ran in the current trial
  torn,                           \* history: pairs of NVS writes power cut in two since the count was last 0
  rollbacks,                      \* history: switches back since the last update
  rash                            \* history: an update was written from an image not proven

flash == <<slot, bootSlot, running>>
nvs == <<nvsProb, nvsBoots>>
trial == <<probation, left, confirmed>>
update == <<state, sha, served, received, updating>>
env == <<requests, losses, flashFails>>
history == <<proven, boots, torn, rollbacks, rash>>
vars == <<pc, resume, flash, nvs, trial, mqtt, update, env, history>>

Other(s) == 1 - s

Init ==
  /\ pc = "setup" /\ resume = "net"
  /\ slot = [s \in Slots |-> IF s = 0 THEN Factory ELSE Blank]
  /\ bootSlot = 0 /\ running = 0
  /\ nvsProb = FALSE /\ nvsBoots = 0
  /\ probation = FALSE /\ left = 0 /\ confirmed = FALSE
  /\ mqtt = FALSE
  /\ state = "IDLE" /\ sha = Blank /\ served = Blank /\ received = 0 /\ updating = FALSE
  /\ requests = 0 /\ losses = 0 /\ flashFails = 0
  /\ proven = {Factory} /\ boots = 0 /\ torn = {} /\ rollbacks = 0 /\ rash = FALSE

-----------------------------------------------------------------------------
(* Resets *)

\* ESP.restart(), a panic or a power cycle: RAM is lost, slot s starts.
Reboot(s) ==
  /\ pc' = "setup" /\ resume' = "net"
  /\ running' = s
  /\ probation' = FALSE /\ left' = 0 /\ confirmed' = FALSE
  /\ mqtt' = FALSE
  /\ state' = "IDLE" /\ sha' = Blank /\ served' = Blank /\ received' = 0 /\ updating' = FALSE

\* A broken image crashes before ota.begin() or in its first loop pass.
Panic ==
  /\ \/ pc = "setup" /\ Fault[slot[running]] = "panicsInSetup"
     \/ pc = "net" /\ Fault[slot[running]] = "panicsInLoop"
  /\ Reboot(bootSlot)
  /\ UNCHANGED <<slot, bootSlot, nvs, env, history>>

PowerLoss ==
  /\ pc \in PowerLossAt /\ losses < MaxPowerLoss
  /\ losses' = losses + 1
  /\ torn' = torn \cup ({pc} \cap {"clear2", "mark2"})
  /\ Reboot(bootSlot)
  /\ UNCHANGED <<slot, bootSlot, nvs, requests, flashFails, proven, boots, rollbacks, rash>>

\* Preferences::begin opens the store, and the boot partition can be set; or, a
\* bounded number of times, the flash refuses.
FlashWorks == flashFails' = flashFails
FlashFails == flashFails < MaxFlashFails /\ flashFails' = flashFails + 1

-----------------------------------------------------------------------------
(* setup(): OtaUpdater::begin *)

Tries == (nvsBoots + 1) % 256
OutOfTriesEarly == Tries >= MaxTries
OutOfTries == Tries > MaxTries

BeginWithoutNvs ==
  /\ pc = "setup" /\ Fault[slot[running]] # "panicsInSetup"
  /\ FlashFails
  /\ pc' = "net"
  /\ UNCHANGED <<resume, flash, nvs, trial, mqtt, update, requests, losses, history>>

BeginClean ==
  /\ pc = "setup" /\ Fault[slot[running]] # "panicsInSetup"
  /\ ~nvsProb
  /\ pc' = "net"
  /\ UNCHANGED <<resume, flash, nvs, trial, mqtt, update, env, history>>

BeginOnTrial ==
  /\ pc = "setup" /\ Fault[slot[running]] # "panicsInSetup"
  /\ nvsProb
  /\ nvsBoots' = Tries
  /\ boots' = boots + 1
  /\ IF OutOfTries
       THEN pc' = "revert" /\ resume' = "net" /\ UNCHANGED trial
       ELSE /\ pc' = "net"
            /\ probation' = TRUE /\ left' = Window
            /\ UNCHANGED <<resume, confirmed>>
  /\ UNCHANGED <<flash, nvsProb, mqtt, update, env, proven, torn, rollbacks, rash>>

-----------------------------------------------------------------------------
(* loop(): net.loop, pollSerialCommands, ota.tick, confirmHealthy *)

\* One pass of time goes by; only an image without a fault can be on MQTT.
NetLoop ==
  /\ pc = "net" /\ Fault[slot[running]] # "panicsInLoop"
  /\ mqtt' \in IF Fault[slot[running]] = "none" THEN BOOLEAN ELSE {FALSE}
  /\ left' = IF left > 0 THEN left - 1 ELSE 0
  /\ pc' = "serial"
  /\ UNCHANGED <<resume, flash, nvs, probation, confirmed, update, env, history>>

NoCommand ==
  /\ pc = "serial"
  /\ pc' = "tick"
  /\ UNCHANGED <<resume, flash, nvs, trial, mqtt, update, env, history>>

\* OtaUpdater::request: the operator names the hash of some file.
Request(i) ==
  /\ pc = "serial" /\ requests < MaxRequests
  /\ probation => RequestOnTrial
  /\ requests' = requests + 1
  /\ state' = "REQUESTED" /\ sha' = i
  /\ pc' = "tick"
  /\ UNCHANGED <<resume, flash, nvs, trial, mqtt, served, received, updating, losses, flashFails, history>>

NeverDue == probation /\ left < 0
DeadlineDue == probation /\ left = 0

DeadlineMissed ==
  /\ pc = "tick" /\ DeadlineDue
  /\ pc' = "revert" /\ resume' = "health"
  /\ UNCHANGED <<flash, nvs, trial, mqtt, update, env, history>>

NothingDue ==
  /\ pc = "tick" /\ ~DeadlineDue /\ state = "IDLE"
  /\ pc' = "health"
  /\ UNCHANGED <<resume, flash, nvs, trial, mqtt, update, env, history>>

StartUpdate ==
  /\ pc = "tick" /\ ~DeadlineDue /\ state = "REQUESTED"
  /\ state' = "IDLE" /\ updating' = TRUE
  /\ pc' = "fetch"
  /\ UNCHANGED <<resume, flash, nvs, trial, mqtt, sha, served, received, env, history>>

\* The slot Update writes to, which is also the one a rollback boots.
RunningSlot == running
NextSlot == Other(running)

\* s_inProgress = false, the last statement of the lambda fail().
KeepFlag == UNCHANGED updating
DropFlag == updating' = FALSE

\* The lambda fail() and the return to loop().  The sequence blocked the
\* loop, so time has passed and the broker may have dropped the session.
\* sha, served and received are dead from here on and get a fixed value.
Abandon ==
  /\ DropFlag
  /\ sha' = Blank /\ served' = Blank /\ received' = 0
  /\ mqtt' \in {mqtt, FALSE}
  /\ left' \in 0 .. left
  /\ pc' = "health"
  /\ UNCHANGED <<resume, bootSlot, running, nvs, probation, confirmed, state, env, history>>

\* Bad URL, no connection, bad status line or headers, Update.begin refused.
FetchFails == pc = "fetch" /\ Abandon /\ UNCHANGED slot

\* The server answers 200; what it then sends need not be what was asked for.
Fetch(body) ==
  /\ pc = "fetch"
  /\ served' = body /\ received' = 0
  /\ pc' = "stream"
  /\ UNCHANGED <<resume, flash, nvs, trial, mqtt, state, sha, updating, env, history>>

MoreThanLength == received <= Chunks
MoreToCome == received < Chunks

\* Update.write: the first chunk erases the head of the other slot.
Stream ==
  /\ pc = "stream" /\ MoreToCome
  /\ slot' = [slot EXCEPT ![NextSlot] = Blank]
  /\ received' = received + 1
  /\ rash' = (rash \/ slot[running] \notin proven)
  /\ UNCHANGED <<pc, resume, bootSlot, running, nvs, trial, mqtt, state, sha, served, updating,
                 env, proven, boots, torn, rollbacks>>

\* Connection closed early, stalled, or a flash write error.
StreamFails == pc = "stream" /\ MoreToCome /\ Abandon /\ UNCHANGED slot

Complete == pc = "stream" /\ ~MoreToCome
AnyHash == TRUE
HashMatches == served = sha

HashMismatch == Complete /\ ~HashMatches /\ Abandon /\ UNCHANGED slot

\* Update.end fails before or after the head of the image is written.
CommitFails ==
  /\ Complete /\ HashMatches
  /\ Abandon
  /\ \E c \in {Blank, served} : slot' = [slot EXCEPT ![NextSlot] = c]

\* Update.end: the image is enabled, validated and made the boot target.
Commit ==
  /\ Complete /\ HashMatches /\ served \in Image
  /\ slot' = [slot EXCEPT ![NextSlot] = served]
  /\ bootSlot' = NextSlot
  /\ boots' = 0 /\ rollbacks' = 0
  /\ pc' = "mark"
  /\ UNCHANGED <<resume, running, nvs, trial, mqtt, update, env, proven, torn, rash>>

\* The two values written to OTA_KEY_PROB.
ForgetArm == UNCHANGED nvsProb
Arm == nvsProb' = TRUE
ForgetDisarm == UNCHANGED nvsProb
Disarm == nvsProb' = FALSE

\* markProbation, first write.
Mark ==
  /\ pc = "mark"
  /\ Arm
  /\ pc' = "mark2"
  /\ UNCHANGED <<resume, flash, nvsBoots, trial, mqtt, update, env, history>>

\* markProbation without NVS: warn, and restart all the same.
MarkWithoutNvs ==
  /\ pc = "mark" /\ FlashFails
  /\ Reboot(bootSlot)
  /\ UNCHANGED <<slot, bootSlot, nvs, requests, losses, history>>

\* markProbation, second write, and ESP.restart().
Mark2 ==
  /\ pc = "mark2"
  /\ nvsBoots' = 0 /\ torn' = {}
  /\ Reboot(bootSlot)
  /\ UNCHANGED <<slot, bootSlot, nvsProb, env, proven, boots, rollbacks, rash>>

\* confirmHealthy, once per boot.  On trial it clears the flag first.
Health ==
  /\ pc = "health"
  /\ IF mqtt /\ ~confirmed
       THEN /\ confirmed' = TRUE
            /\ proven' = proven \cup {slot[running]}
            /\ probation' = FALSE
            /\ left' = 0
            /\ \/ ~probation /\ FlashWorks /\ pc' = "net" /\ UNCHANGED nvsProb
               \/ probation /\ FlashWorks /\ Disarm /\ pc' = "clear2"
               \/ probation /\ FlashFails /\ pc' = "net" /\ UNCHANGED nvsProb
       ELSE pc' = "net" /\ UNCHANGED <<trial, nvsProb, flashFails, proven>>
  /\ UNCHANGED <<resume, flash, nvsBoots, mqtt, update, requests, losses, boots, torn, rollbacks, rash>>

Clear2 ==
  /\ pc = "clear2"
  /\ nvsBoots' = 0 /\ torn' = {}
  /\ pc' = "net"
  /\ UNCHANGED <<resume, flash, nvsProb, trial, mqtt, update, env, proven, boots, rollbacks, rash>>

-----------------------------------------------------------------------------
(* revertToPrevious, called from begin() or from tick() *)

Revert ==
  /\ pc = "revert"
  /\ \/ FlashWorks /\ Disarm /\ pc' = "revert2"
     \/ FlashFails /\ pc' = "switch" /\ UNCHANGED nvsProb
  /\ probation' = FALSE /\ left' = 0
  /\ UNCHANGED <<resume, flash, nvsBoots, confirmed, mqtt, update, requests, losses, history>>

Revert2 ==
  /\ pc = "revert2"
  /\ nvsBoots' = 0 /\ torn' = {}
  /\ pc' = "switch"
  /\ UNCHANGED <<resume, flash, nvsProb, trial, mqtt, update, env, proven, boots, rollbacks, rash>>

\* esp_ota_set_boot_partition validates the other slot and then restarts.
Switch ==
  /\ pc = "switch" /\ slot[NextSlot] \in Image
  /\ bootSlot' = NextSlot
  /\ rollbacks' = rollbacks + 1
  /\ Reboot(NextSlot)
  /\ UNCHANGED <<slot, nvs, env, proven, boots, torn, rash>>

\* ... or does not: there is no image to go back to, or the flash refuses.
SwitchFails ==
  /\ pc = "switch"
  /\ \/ slot[NextSlot] \notin Image /\ FlashWorks
     \/ FlashFails
  /\ pc' = resume
  /\ UNCHANGED <<resume, flash, nvs, trial, mqtt, update, requests, losses, history>>

-----------------------------------------------------------------------------
Setup == BeginWithoutNvs \/ BeginClean \/ BeginOnTrial
Serial == NoCommand \/ \E i \in Contents : Request(i)
Tick == DeadlineMissed \/ NothingDue \/ StartUpdate
RunUpdate ==
  \/ FetchFails \/ \E body \in Contents : Fetch(body)
  \/ Stream \/ StreamFails \/ HashMismatch \/ CommitFails \/ Commit
MarkProbation == Mark \/ MarkWithoutNvs \/ Mark2
RevertToPrevious == Revert \/ Revert2 \/ Switch \/ SwitchFails

Program ==
  \/ Panic \/ Setup \/ NetLoop \/ Serial \/ Tick \/ RunUpdate
  \/ MarkProbation \/ Health \/ Clear2 \/ RevertToPrevious

Next == Program \/ PowerLoss

\* The firmware always has a next instruction to execute; power loss and
\* commands are never owed to anyone.
Spec == Init /\ [][Next]_vars /\ WF_vars(Program)

-----------------------------------------------------------------------------
ModesOK ==
  /\ pc \in Points /\ resume \in {"net", "health"}
  /\ slot \in [Slots -> Contents] /\ bootSlot \in Slots /\ running \in Slots
  /\ nvsProb \in BOOLEAN /\ probation \in BOOLEAN /\ confirmed \in BOOLEAN
  /\ mqtt \in BOOLEAN /\ updating \in BOOLEAN
  /\ state \in {"IDLE", "REQUESTED"} /\ sha \in Contents /\ served \in Contents
  /\ proven \subseteq Contents /\ rash \in BOOLEAN
  /\ torn \subseteq {"clear2", "mark2"}

CountsOK ==
  /\ nvsBoots \in 0 .. 255 /\ boots \in Nat /\ rollbacks \in Nat
  /\ left \in 0 .. Window /\ received \in 0 .. Chunks
  /\ requests \in 0 .. MaxRequests
  /\ losses \in 0 .. MaxPowerLoss
  /\ flashFails \in 0 .. MaxFlashFails

TypeOK == ModesOK /\ CountsOK

\* Whatever fails and wherever power is lost, the slot the bootloader will
\* start holds an image it accepts: the board is never bricked by the updater.
BootTargetBootable == slot[bootSlot] \in Image

\* An update becomes the boot target only when the bytes written are the ones
\* the operator's hash names (the comparison after the download).
CommitsOnlyVerified ==
  [][bootSlot' # bootSlot /\ pc = "stream" => slot'[bootSlot'] = sha /\ sha \in Image]_vars

\* The heartbeat is muted (s_inProgress) exactly while the blocking update
\* sequence runs: no path out of it leaves the flag behind.
QuietOnlyWhileUpdating == updating <=> pc \in UpdatePoints

\* "A freshly flashed image is on trial until it reaches MQTT": past setup(),
\* an image that never reached MQTT runs on probation or is being reverted.
OnTrialUntilProven ==
  slot[running] \notin proven /\ pc # "setup" =>
    probation \/ pc \in {"revert", "revert2", "switch"}

\* Wherever power is lost and whatever the flash refuses, one of the slots holds an
\* image that has reached MQTT: only an operator who updates from an image that
\* has not can overwrite the last of them (request() does not forbid it).
WorkingImageKept == rash \/ \E s \in Slots : slot[s] \in proven

\* A rollback finds a bootable image in the other slot.
RollbackSucceeds == pc = "switch" => slot[Other(running)] \in Image

\* One update leads to one rollback at most, and to one more for each time that the
\* flash refused: the board does not go back and forth between two images, though
\* an image gone back to is itself on trial if NVS did not open.
RollbackSettles == rollbacks <= 1 + flashFails

\* An image is given up for rebooting only after MaxTries boots of its own.  Boots of
\* an earlier trial shorten it only if power has cut in two both the writes that
\* ended that trial and the writes that armed this one.
OwnBoots == pc = "revert" /\ resume = "net" => boots > MaxTries \/ torn = {"clear2", "mark2"}

\* Nor does it get more: the boot after the last one gives it up, or the next if
\* power is lost on the way back.
FullAllowance == OwnBoots /\ (nvsProb => boots <= MaxTries + 1 + losses)

\* Once the operator stops issuing updates the board ends up, for good, on an
\* image that has reached MQTT: every trial is decided and none is repeated.
SettlesOnProven == <>[](slot[bootSlot] \in proven)

\* An image on trial that panics early burns its tries and is reverted.
EarlyPanicReverted ==
  (nvsProb /\ Fault[slot[bootSlot]] \in {"panicsInSetup", "panicsInLoop"}) ~> ~nvsProb
=============================================================================
