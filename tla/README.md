# Reliable Remote Management: TLA+ development

A rack carries two ESP32 controllers, a *primary* and a *standby*, that read
temperatures and send them over MQTT to a host (a Radxa board). They watch each
other over a serial line; when the primary falls silent the standby sends in its
place. The host tells each controller its role when it asks (`hello`), stores what
it sends, and serves firmware images that a controller installs on command. This
directory specifies that system in TLA+, model-checks it with TLC and proves part
of it with TLAPS.

Paths below are relative to `src/`; `main.cpp`, `OtaUpdater.cpp` and so on are in
`ESP32-Firmware/src/`, Python files in `host/app/`.

## 1. Inventory

| Component | State it keeps | Operations | Hard behaviour | Correct when |
|---|---|---|---|---|
| **OTA updater** `OtaUpdater.cpp` | two flash slots and the boot pointer; NVS keys `ota_prob`, `ota_boots`; in RAM `_probation`, `_deadlineMs`, `_state`, `_sha256Hex`, `s_inProgress` | `begin`, `request`, `tick` (runs the whole update), `confirmHealthy`, `markProbation`, `revertToPrevious` | power loss between any two writes, panics of the new image, NVS or otadata that refuse, a server that sends anything | the board always boots; only the named image is committed; an image that has worked is kept; an unproven image is on trial and every trial ends on a proven image |
| **Controller pair** `main.cpp`, `Heartbeat.cpp` | per controller: `_lastRxMs`, the sample `now`, `lastHealthy`, `everHealthy`, the configuration | `heartbeatTask` sends and receives; `loop()` samples, serves the network, compares, decides, publishes | two tasks sharing `_lastRxMs` without a lock, unsigned time, lost frames, resets, updates that block `loop()` | a live primary is not called dead; the standby takes over and stops again; both send together only briefly |
| **Device registry cache** `device_registry.py` | `_device_map`, `_device_map_ts` in each of two processes | `lookup`, `cache_device_map`, `_refresh`, `get_device_map` | stale copies, failing queries, clock that starts at 0, floods of unknown devices | no stale row beyond the TTL; a registered device is soon recognised; the database is not queried once per message |
| **MQTT session** `TelemetrySender.cpp` | client, topics, `config_`, throttles | `begin`, `loop`, `connectMqtt`, `hello`, `sendMQTT`, `sendEvent`, callback | attempts that block a pass, `setServer` called only under a condition, config accepted once | telemetry only on a row that was offered, or sent by others, since the boot and is enabled; a registered board is configured in the end, whatever was lost |
| **Runtime configuration** `RuntimeConfig.cpp` | one configuration record | parse and validate | rows no controller can use, messages for others, two spellings of a MAC | only a usable configuration for this device is applied; a bad one is reported |
| **Temperature buses** `TemperatureBus.cpp` | per bus: sensors found, last values, conversion under way | `begin`, `tick`, `scan`, reads | sensors that come and go between scan and read, passes that are delayed between `now` and `tick(now)` | what is reported as a temperature was measured a short while ago; every sensor is reported in the end |
| **Provisioning service** `provisioning_service.py`, `unknown_devices.py`, `current_state.py` | a registry copy; tables `unknown_devices`, `current_state` | `on_message`: answer a hello, record a device | lookups that fail, a connection that is lost for good, a copy behind the table, an answer nobody is there for | a registered device gets its row in the end, an unknown one is recorded |
| **Ingestion service** `ingestion_service.py` | a registry copy; `telemetry`, `events` | `on_message` | one transaction per sensor, exceptions that leave the callback, devices moved meanwhile, a lost connection | the rows of a message carry one rack; a failure costs no other reading; the service comes back from every message |
| **Role manager** `RoleManager.cpp` | – | – | never constructed | (dead code) |
| **Database** `db/`, `host/app/db.py` | tables | one connection at import | a lost connection is never reopened | – |
| **Settings, deployment** | environment variables, containers | setup scripts | – | – |

**Interactions.** `loop()` calls `net.loop()`, `net.hello()`, the serial commands,
`ota.tick()` and, on MQTT, `ota.confirmHealthy()`, then reads the heartbeat and
decides; `heartbeatTask` pre-empts it anywhere and shares `_lastRxMs` and
`OtaUpdater::isUpdating()`. The two controllers exchange heartbeat frames. A
controller and the host exchange `hello`, `config`, `telemetry` and `event`
messages; the two services share nothing but the database, each with a registry
copy of its own.

The hazards of this code, each at its line and with the properties that are aimed
at it, are in `PROJECT.json` under `hazards`.

## 2. Plan

Order of work, most important behaviour first. Items 1–7 and the proofs named in
section 5 exist.

1. **`Ota`** – a wrong step here leaves a board in a rack dead or on a bad image.
   Abstract specification **`TrialBoot`**, refinement in **`OtaImplements`**.
2. **`Failover`** – the purpose of the system: who sends.
3. **`DeviceRegistry`** – on it depends whether a device gets a role at all.
4. **`Session`** – how a controller gets its configuration: session, hello, broker,
   provisioning service, the check of `RuntimeConfig`, and the gate of telemetry.
5. **`TemperatureBus`** – the sampler of `tick()` and what telemetry makes of it.
6. **`Ingest`** – a message stored reading by reading.
7. **`HbFrame`** – the byte parser of the heartbeat, on which `Failover`'s frames rest.

What is left, in this order: two `DeviceRegistry`s in one composition with `Session`
and `Ingest`, to relate the ages of the two copies (a device configured by one service
and refused by the other); an abstract store that takes a message as a whole, of which
`Ingest` implements the part that is true; the serial console's line buffer.

## 3. Modules

| Module | What it is |
|---|---|
| `Ota` | the updater with the parts of `setup()` and `loop()` that drive it |
| `TrialBoot` | what the updater promises: install, accept, roll back |
| `OtaImplements` | the mapping of `Ota` to `TrialBoot`, the environment it needs (`SafeEnv`) |
| `MCOta` | instances: one image per kind of fault; sets of power-loss points |
| `OtaProofs` | theorems about the updater |
| `Failover` | both tasks of both controllers, time, noise, resets, updates, outages |
| `HbFrame` | the parser and the checksum of the heartbeat's frames |
| `MCFailover` | instance: `a` is the primary, `b` the standby; has TLC compute `HbFrame` |
| `FailoverProofs`, `TakeoverProofs`, `HbFrameProofs` | theorems about the pair, about take-overs, about frames |
| `DeviceRegistry` | one service's registry copy and the table it is a copy of |
| `DeviceRegistryProofs` | theorems about the copy |
| `Session` | one controller's session and configuration, the broker, the provisioning service |
| `MCSession` | instances: a row of each kind |
| `SessionProofs` | theorems about the configuration |
| `TemperatureBus`, `TemperatureBusProofs` | one bus and its sampler; theorems about its readings |
| `Ingest` | the ingestion service between broker and database |
| `MCIngest` | instance: a message for every branch of `on_message` |
| `IngestProofs` | theorems about what is stored |

`PROJECT.json` (`map`) gives the source lines of every definition.

### 3.1 `Ota`

`pc` is the program point of the single task that runs `setup()` and `loop()`:
`setup` (before `ota.begin()` returns), then `net`, `serial`, `tick`, `health` for
each pass, `fetch` and `stream` inside the update, `mark`/`mark2` the two NVS writes
of `markProbation`, `clear2` the second write of `confirmHealthy`, `revert`,
`revert2`, `switch` those of `revertToPrevious`. Each write to flash or NVS is a
step, so power may be lost between any two of them (`PowerLoss` at the points in
`PowerLossAt`).

* `bootSlot` is otadata, `running` the executing slot. The next update partition is
  the other slot (`NextSlot`).
* `Fault[i]` says what is wrong with image `i`: nothing, never reaches MQTT, panics in
  its first pass, panics in `setup()` before `ota.begin()`.
* Time is counted in passes: `left` is the number of passes to the deadline of 60 s;
  the update, which blocks the loop, may use up any part of it.
* The HTTP exchange is reduced to what matters: it fails, or a body arrives in
  `Chunks` chunks, of which the first makes the slot unbootable. The server may send
  any body; `HashMatches` stands for the SHA-256 comparison (no collisions).
* `FlashFails` is a failure of NVS (`Preferences::begin`) or of otadata
  (`esp_ota_set_boot_partition` and the look-up of the partition), `MaxFlashFails` times at most.
* History: `proven`, the images that have reached MQTT; `boots`, how often `begin()` ran in
  the current trial; `rollbacks`, the switches back since the last update; `rash`, that an
  update was written while the running image had not reached MQTT; `torn`, at which of the
  pairs of NVS writes (`clear2`, `mark2`) power was lost since the count was last written 0.

### 3.2 `Failover`

Time advances in ticks, and instants are kept as distances from the present: `age` is
`millis() - _lastRxMs`, `lag` is `millis() - now` for the sample `now` of the current
pass. `PeerAlive` is the comparison `now - _lastRxMs <= timeout` in unsigned
arithmetic: `(age - lag) % Width`. Because `heartbeatTask` pre-empts `loop()`, a frame
may be stamped between the sample (`Sample`) and the comparison (`ReadPeer`), when
`age < lag`; and `Decide` reads `_lastRxMs # 0` once more.

* `sent` is `millis() - lastSend`. A frame is sent when `heartbeatTask` finds that
  `HB_SEND_MS` have passed, which it looks for every 5 ms, and is read by a task that polls as
  well: as heard, frames are `HbMin` to `HbMax` apart, any time in between (`FrameDue`,
  `Overdue`). In the code that is 500 ms, less or plus a few.
* A frame is one message, on the wire to one controller at a time; `FrameLost` is
  noise. Only frames to a standby are kept: what a primary knows of its peer fills a
  telemetry field and nothing else.
* `PassWithConfig` is a pass that receives a configuration, the first no sooner than the
  first hello. `Session` is that handshake in detail; here any pass of a controller that is
  online may get an answer, also a late one that changes `enabled`.
* A frame is received as a whole or lost as a whole; `HbFrame` says how many a disturbance
  of the line may cost.
* `StartUpdate`, `UpdateFails`, `UpdateRestarts` are `Ota` seen from outside: the
  heartbeat is muted, the loop blocked.
* `told` is the last failover event published, `silent` records that the peer has been
  silent for longer than the timeout, `both` counts the ticks in which both send, `gap[d]` those
  for which the standby `d`, allowed to send and in no update, has heard and sent nothing.

### 3.3 `DeviceRegistry`

A lookup is `Hit`, or `Miss` followed by `Query` (the snapshot the database takes) and
`Store` (rows and stamp). `age` is the time since the stamp and starts as the host's
uptime, since `_device_map_ts` starts as 0.0 on `time.monotonic()`. `answer` holds the
lookup that returned in the last step. `Change` is an operator's edit, `Fails` and
`Recovers` switch the success of queries; a connection that is lost for good fails until
`Restart`. The second lookup of a missing device within one message makes no second
query because the copy is then younger than the cooldown (`Cooldown <= TTL`, as in the
source: 10 s and 60 s). History: `absent[m][v]` is how long ago the table last said `v`
of `m`, `served[m]` for how long `m` has been registered with queries succeeding.

### 3.4 `Session`

One controller and the provisioning service, with the broker between them.

* `conn` is what `mqttClient` and the broker know of the session. `unset`: `begin()` left
  before `setServer`; `none`; `live`: with the subscription; `deaf`: connected, but the
  subscription failed, which `connectMqtt` does not look at; `stale`: the session is gone and
  the client has not noticed, so what it publishes is lost.
* `ask` is the throttle of `hello()`, which restarts before the publish. `hellos`, `reply`,
  `inbox` are the three places where the handshake can be lost: on the way to the service, in
  `on_message` between lookup and publish, queued for the controller's session (QoS 1, not
  retained, clean session).
* A row is a rack, a role and `enabled`; the role `other` and the rack `empty` (a `rack_id`
  that is an empty string) are what `RuntimeConfig` refuses. `Accepts` is
  `parseRuntimeConfigJson` with `isValid`; a MAC has two spellings, as `deviceMacString()` and
  the topics have. `Strays` are what others publish on the topic: messages that are no config
  for this board, and configs as good as the service's, with any row. The broker admits
  anonymous clients (`host/broker/config/mosquitto.conf`) and `docs/mqtt-contract.md:84-86` gives
  such a config for `mosquitto_pub`; the board cannot tell it from the service's. They are not
  retained, as the contract has it: a retained one would meet the board again after a reset.
* History: `offered`, the rows the service's copy or its pending answer has had since the
  controller's last boot; `foreign`, those others have sent in a config since then. `out` is
  what the controller published in the last step.
* `"db"` in `up` is the service's connection to the database, opened once (`db.py:16`). Once lost
  (`DatabaseLost`) every query and upsert fails, until `ServiceRestarts`.
* A hello is a genuine one. The branches of `on_message` for a payload that is too long or is no
  JSON return at once, and what raises an exception ends the service, which `ServiceRestarts` is.
* The service's copy is a copy that is behind (`Refresh`) or empty (`QueryFails`); how long
  either may last is `DeviceRegistry`'s subject.

### 3.5 `TemperatureBus`

A reading is the time since it was measured, or one of `NaN`, `PowerOn` (85 degrees, the value
of a DS18B20 that has not converted) and `Disconnected` (-127). `Pass` is `now = millis()`,
`Request`, `Ready`, `Read`, `Nothing` are what `tick(now)` does in each state; `lag` is how long
the pass has been blocked since its `now`, so `requested' = lag` is the stamp `_lastRequestMs =
now`. A sensor is found by its rank among those present at the time of the read
(`getTempCByIndex`), `count` is the number found by the last scan. `Shown` is what
`appendTempArray` writes. `quiet` is history: the time since a sensor was plugged or unplugged.

### 3.6 `Ingest`

`on_message` is `Unreadable` or `OnMessage`, then one `Insert` per reading, each a transaction
of its own, and `Return`. An exception that is not caught – `NotImplementedError` of a status or
ack, `StopIteration` of `next()`, `KeyError` of a bus without a name, `UnicodeDecodeError` –
`Ends` the service, and `Restart` is its container (`restart: unless-stopped`). `conn` is the one
connection opened at start: lost with the database, healed by no query. `missed` is history: the
readings whose insert failed. `named` is history: the racks the table has given each device.

### 3.7 `HbFrame`

`Crc8`, the four states of `parseByte` (`After`) and `Beats`, when a byte completes a frame, for
all bytes. There is no transition system: the two properties speak of every state of the
parser and every frame, and `MCFailover` lets TLC compute them as assumptions.

## 4. Runs

Passing runs:

| Run | States | What it shows |
|---|---|---|
| `ota_safe` | 179 197 | two power losses at *any* point, two failures of NVS or otadata, two updates, also during a trial, a server that sends anything, images with every fault: the boot target is always bootable, an image that has worked is kept unless an operator updates from one that has not, an update leads to one rollback at most, and to one more for each failure of the flash, only the image the hash names is committed, the heartbeat is muted only during the update |
| `ota_trial` | 22 800 | in the environment `SafeEnv`, with two power losses: an unproven image is on trial and gets all its boots, unless power cut both the writes that ended the last trial and those that armed this one; no trial gets more than one boot, and one for each loss of power, beyond its own; every trial is decided and the board ends on a proven image; `Ota` implements `TrialBoot`, with its fairness |
| `fo_pair` | 3 752 123 | frames at uneven intervals, a crash, an update and a lost frame in every combination: between passes the standby sends exactly when what it heard is too old; a death is called only after a silence or because a frame overtook the pass, and a return only when a frame was heard; without crash and update there is no silence; the last event published tells what the standby makes of its primary; both send together, and a standby that hears nothing waits, for a bounded time |
| `fo_reboot` | 482 362 | a crash, a lost frame, an outage, a boot grace shorter than the timeout: the standby takes over for good from a primary that stays off, and stops when it is back |
| `reg_copy` | 317 146 | two devices, an edit, a failing query, a restart: rows no staler than the TTL and one query, a registered device refused for less than the cooldown and one query, queries at least the cooldown apart, and every device answered rightly in the end |
| `se_provision` | 985 543 | three faults of any kind – link, session, broker, service, query, the connection to the database, edit, reset, a refused subscription, a message or a config of others: a controller runs only on a usable row offered or sent to it since its boot, telemetry needs an enabled one; a registered board is configured in the end, an unconfigured one goes on asking, a row it cannot use is reported over and over, a stranger is recorded |
| `tb_sampling` | 5 699 073 | two sensors that are plugged or unplugged twice, passes blocked longer than a conversion takes: what is shown as a temperature is at most two cycles old; when the sensors have been left alone for two requests and a read (`Settled`), as many values are shown as there are sensors |
| `in_store` | 865 788 | a message for each branch, two devices that are moved or retired, a database that stops: the rows of a message carry one rack the device has had, of each message exactly the readings that were handled and whose own insert did not fail are stored, the service comes back from every message |

Runs that end in a violation, each of a sentence of the repository (`findings`):

| Run | What TLC finds |
|---|---|
| `ota_setup_panic` | an image that panics in `setup()` before `ota.begin()` reboots for ever: its boots are never counted |
| `fo_overtaken` | a frame stamped between `millis()` and `peerAlive()`: the unsigned difference is huge, a primary heard this millisecond is dead for a pass, and `primary_down` is published |
| `se_no_link` | a board whose cable is put in after `setup()` never asks for a configuration: `begin()` left before `setServer` |
| `tb_early_read` | a pass delayed between its `now` and `tick(now)` stamps the request too early; the next two passes read a conversion that is not done, that is the value before it or 85 degrees |

Other departures from what one might expect are not given runs. Some appear as
assumptions of the properties above, and relaxing a constant in the cfg shows them:

* `ota_trial` with the program point `mark` in `PowerLossAt`: power lost between
  `Update.end()` and `markProbation()` leaves the new image without a trial, and if it never
  reaches MQTT nothing reverts it (`OnTrialUntilProven`); `OtaUpdater.cpp:404-410` arms
  probation only after the image is committed.
* An update requested during a trial overwrites the fallback; if it fails and the deadline
  comes, there is nothing to go back to. `request()` does not forbid it; `WorkingImageKept` names
  it as the only way (`rash`), and without that premise TLC finds it in `ota_safe`.
* If NVS does not open in `revertToPrevious`, the image gone back to is itself on trial, which the
  comment at `OtaUpdater.cpp:182-183` means to exclude ("so the image we fall back to boots clean, even if
  the partition switch below fails"). `RollbackSettles` says what still holds: the board
  does not go back and forth, but for one more rollback per failure.
* `FullAllowance` without `torn`: power lost between the two writes of `confirmHealthy` and
  again between those of `markProbation` leaves a count behind that shortens the next trial.
* `fo_pair` with `Wraps = TRUE`: after 2^32 ms of silence the dead primary counts as
  alive for a timeout, and `primary_up` is published (`RestoredMeansHeard`).
* `TakeoverAnnounced` without `everHealthy`: a standby configured after the primary
  died takes over without an event, since it saw no edge.
* `GetsConfigured` without `"db"` in `Served`: after the loss of its connection the provisioning
  service takes every board for a stranger, until something restarts it (`db.py:16`).
* `GetsConfigured` without `conn # "deaf"` in `Served`: after a refused subscription the board
  asks for ever and hears nothing (`TelemetrySender.cpp:66` does not look at the result).
* `RecognisedInTime` counts only time in which queries succeed: one failing query empties the
  copy, and registered devices are treated as unknown although the old rows were still good
  (`device_registry.py:21`; `docs/mqtt-contract.md:203` has `unknown_devices` for devices that
  are not in `device_map`).

Others are plain in the models, where nothing forbids them:

* A change of `enabled`, role or rack does not reach a running controller: it asks only while it
  has no configuration, and the host only answers. `OnlyOffered` says what remains.
* A standby with `enabled = false` still publishes failover events. `sendEvent` has no such gate,
  though the comment at `TelemetrySender.cpp:126-127` speaks of one.
* A status or ack message, or telemetry without a `sensors` item, of a registered device ends
  the ingestion service; its container starts it again, and messages in between are lost
  (`KeepsServing`). `host/tests/test_ingestion_service.py:12` takes such exceptions to be swallowed by
  paho, which raises them again.
* After a restart of PostgreSQL both services go on with a dead connection: every message is
  taken, nothing is stored, until something restarts the service.

### Bounds

* Ota: four or five images cover each fault; two requests allow an update after a
  decided trial and, with `RequestOnTrial`, one inside a trial; `Window = 2` and
  `MaxTries = 3` (the code's value) let both the deadline and the boot count decide a
  trial; `Chunks = 2` separates the first write from the last. Two power losses and two
  failures of the flash may fall in one update, and two losses are what it takes to leave a
  stale count in NVS (`torn`). `ota_trial` leaves out images that panic in `setup()`,
  for which `ota_setup_panic` shows that trials do not end.
* Failover: the ratios matter, not the lengths. Frames are 2 or 3 ticks apart, so that the
  two boards drift; `Timeout = 2 * HbMax` (the code has nearly four periods) with one lost frame
  is the tightest case in which nobody appears silent; `Grace` above `Timeout` in `fo_pair` as in the code, below it in `fo_reboot`, so that
  the boot grace decides as well; `MaxPass = 1` gives a pass one tick in which a frame may
  overtake it; `MaxUpdate = 2`, with the pass around it, mutes the heartbeat long enough
  for a frame to be missed. `Width = 11`, and 6 in `fo_reboot`, is a period of `millis()` in
  which an underflow is told from a real age. A configuration that arrives has either value of
  `enabled`. The theorems hold for any values.
* Session: three rows, a usable enabled primary, a usable disabled standby and one whose
  role is refused, so that edits lead from each kind to each. `MaxInbox = 2` lets a stale
  answer or a stray message stand before the right one. Three faults in any combination: an
  edit and the loss of an answer and a reset, for instance, or the loss of the database, the service's
  restart and a config of another. One hello on its way, and the one being answered, are
  enough for two answers in the queue. `CHECK_DEADLOCK FALSE`: a board
  booted without a link, when the faults are spent, has nothing left to do.
* TemperatureBus: two sensors in two slots, so that unplugging one shifts the rank of the
  other; `Needs = Conversion`, the slowest sensor the code allows for; `MaxBlock` as long as a
  conversion, which is what makes an early read find one that is not done; two plugs, which is
  out and in again.
* Ingest: two devices and two racks, so that both a move and a mix-up can occur; a message
  with two buses and three readings can fail at any of them; one message for every branch;
  two faults give an edit during a message in which the database also stops.
* HbFrame: no bound; all bytes and all states of the parser.
* DeviceRegistry: `Cooldown = 1`, `TTL = 2`, `MaxQuery = 1` are the smallest values that
  keep the three apart; beyond `Far` distances are not told apart; two devices share one
  stamp, which is where one's misses affect the other. The theorems cover any values and
  any number of devices.

### Fairness

* `Ota`: `WF(Program)`. The firmware always has a next instruction; power loss and
  operator commands are owed to nobody. A new image that reaches MQTT is not assumed:
  one that does not is reverted.
* `Failover`: `WF(Tick)` and, for each controller, `WF` of each of its two tasks: FreeRTOS
  runs both, on the delays they ask for. Crashes, repairs, outages and noise are not owed.
  `Tick` waits for a frame that is due or on the wire, and for passes that have taken
  `MaxPass`: this is the assumption that passes are bounded, which the network calls of
  `loop()` make true only for some value of `MaxPass`. `FailbackHappens` needs
  passes shorter than the shortest heartbeat period: were they longer, every pass could be overtaken by
  a frame and call the primary dead each time.
* `DeviceRegistry`: `WF` of the steps of a lookup under way and of time; `SF` of each
  device's lookup, since devices send over and over and every message is handled in its
  turn, though others keep the service busy in between. `EventuallyRight` also shows that
  an answer then comes infinitely often.
* `Session`: `WF` of each part of a pass of `loop()` (`Receive`, `Reconnect`, `Hello`), of the
  throttle's time (`Interval`), of the client's noticing that a session is gone
  (`SessionEnds`, the MQTT keep-alive), of the service's two steps and of the refresh of its
  copy while it has a connection (one failing query is made good by the next; a lost connection is
  not). A cable that is put back, a broker that works again, a service that is restarted are not
  owed: the liveness properties assume them (`Served` and the like, in the end for good).
* `TemperatureBus`: `WF` of the pass, of `tick` in it and of time; `Elapse` waits for passes
  that have taken `MaxBlock` or are `MaxGap` apart, the assumption that passes are bounded.
* `Ingest`: `WF` of the handler, of the container's restart (`restart: unless-stopped`) and of
  the database's return. That the service reconnects is not assumed, since it does not.

## 5. Proofs

All theorems hold for every value of the constants that satisfies the module's
`ASSUME`s, which TLC evaluates in the runs.

**`OtaProofs`.** `Typing`; with `TargetInv` – the running slot and the boot target
hold images, and differ only between `Update.end` and the restart – `NeverBricked`
and `VerifiedCommit`, without any assumption on the environment, and
`QuietWhileUpdating`. `BootTargetBootable` alone is not inductive: the update
erases "the other slot", so one must know that the other slot is not the boot target.
Without any assumption, too: `WorkingImageStays`, from `KeepInv` (what runs once an update has
written to the other slot has reached MQTT, or the update was rash), and `RollbacksSettle`, from
`SettleInv` (every rollback but the first was paid for by a failure of the flash, and so is the
one that may follow: `MayRevert`).

In `SafeEnv` (the flash works, no update requested during a trial, power not lost at
`mark`, `revert2`, `switch`), `TrialInv` ties flag, RAM copy and slots together at
each program point; from it `UnprovenIsOnTrial`, `ProvenImageKept` (the proven image is the
next to start or the one to go back to), `RollbackFindsImage` and `UpdaterImplementsTrial`, the
safety part of the refinement. `NoBorrowedBoots`, from `AllowanceInv`: the count in NVS runs ahead
of the boots of the trial only if power has cut both pairs of writes (`torn`). `TrialAllowance`,
from `CountInv`: it never falls behind them, so that a trial ends with the boot after its last, or
with one more for each loss of power on the way back. That needs that its byte does not come
round, which `CounterFits` says of `MaxTries` and the losses of power; with 3 tries there may be
251. `SafeEnv` cannot be weakened in these points: section 4 lists what goes wrong without each.

**`FailoverProofs`.** `Typing` (no clock leaves its range). `DeathHasReason`, from
`SilenceInv` (an age above the timeout has been recorded as silence), holds even if
`millis()` wraps. `CalmIsNotSilent`: if `(1 + MaxLost) * HbMax <= Timeout`, nobody
appears silent as long as nobody has crashed or updated; the invariant is `PeriodInv`: the
time since the last frame and the time to the next at the latest make up no more than the
longest periods, one for each frame lost in between. With periods of 500 ms and a little more and a
timeout of 2000 ms, two lost frames are tolerated; with three the silence exceeds the timeout.
`VerdictIsRight`, from `VerdictInv`, needs that `millis()` does not come round during one
silence (`~Wraps`).

**`TakeoverProofs`.** `TakeoverAnnounced`, from `AnnounceInv` (a standby that sends has
followed the silence to `lastHealthy`, and the event of that edge stands), without
assumptions. `ShortOverlap`, if two passes fit into the shortest heartbeat period and one into the
timeout, and unless both are primaries (`ShortPasses`): while both send, the standby has
not heard the peer yet, or has heard it once, or once more (`Unheard`, `Heard`,
`HeardAgain`), and `OverlapInv` bounds each of these phases by the periods that lost frames
may still take. One frame need not be enough: it may overtake the pass it meets, and the
next one overtakes the pass after that at the earliest at its very end. `RestoredMeansHeard`, if
`~Wraps` and two passes fit into the timeout (`QuickPasses`): until the first update, `LostInv`
says that a peer was called dead either for a silence that still lasts or by an overtaken pass,
after which the next pass finds it alive while the timeout has not gone by.

`ShortGap` is the other half of `ShortOverlap`, the time for which nobody sends, and needs no
assumption but the bound of a pass: what the standby does not send in is at most the timeout, or
the boot grace if it never heard its peer, and two passes. `GapInv`: a gap is no longer than the
age of the last frame, or than the time since power-on, unless the pass under way knows already
that the standby will send (`Remembered`); so a pass that ends without sending saw a gap within
the allowance when it sampled `millis()`, and the two passes after that sample, one to its end
and one to the next decision, are what may be added. Even if `millis()` comes round this holds:
the age only does so long after the standby has begun to send.

**`SessionProofs`.** `Typing`; `OnlyOffered` and `TelemetryGranted` from `OfferInv`: a
configuration, and each message on its way that would be accepted, is a row that has been
offered, or sent by others, since the boot. The clean session is what makes it inductive, since it
empties the queue before the reset forgets what was offered; whoever sent it, what is accepted is
a config as the service builds them (`AcceptsUsable`).

**`TemperatureBusProofs`.** `FreshReadings` for any delays, any number of sensors and
slots: a request, its read and the next request follow each other within a cycle (`Timed`,
`Running`), so what a sensor holds when it is read is at most a cycle old, also if the read is
early and finds the conversion before (`Held`), and what was read is kept for at most
another (`Kept`). `SensorsReported`, likewise for any delays: if nobody has plugged since the
last request, what a sensor does not hold yet it is converting (`Found`); if nobody has since
the one before, all hold a conversion (`Converted`), and the read that follows shows it
(`Reported`). That no sensor is passed over is `PlacesAreTaken`: the ranks of the sensors on a
bus are the numbers from 0 up, since an injection into a set of the same size leaves none out.

**`IngestProofs`.** `OneRack`: the rack of the handler is one the table has named (`Told`),
because the copy holds no other (`Known`). `StoredExactly`: at any point of a message its rows are
those of the readings the handler is through with and that have not failed (`Through`).

**`HbFrameProofs`.** The checksum of one byte is injective (each of its eight steps can be
undone) and only 141 has the checksum `AA` of a start byte. Hence `OnlyIntactBeat`: a frame
with one damaged byte never counts; and `Resynchronizes`: whatever state a disturbance leaves
the parser in, the third whole frame is heard. With the damaged frame that makes three lost, one
more than the 2000 ms of the timeout bear (`CalmIsNotSilent`): such a disturbance may make a live
primary look dead until its next frame.

**`DeviceRegistryProofs`.** `Typing`; `RowsAreFresh` from `CopyInv` (each row of
the copy was in the table no longer ago than the copy's age and one query);
`RegisteredIsRecognised` from `ServedInv` (a device missing from the copy has been served for
no longer than the copy is old); `DatabaseIsSpared` from `StampInv` (the copy is no
older than the last query). The first two bounds together are `RestedIsRight`: once the table has
said the same of a device for that long, every answer is right, the part of `EventuallyRight`
that is due by a certain time. The two services then agree, each with a copy of its own.

**Only model-checked**: everything under fairness (`SettlesOnProven`, `DecidesTrials`,
`TakeoverHappens`, `FailbackHappens`, `EventuallyRight`, `GetsConfigured`,
`AsksUntilConfigured`, `RejectionReported`, `StrangersRecorded`, `KeepsServing`, and the
fairness of `TrialBoot` in `ImplementsTrial`), which is out of the provers' reach. Where the
code gives a bound in time, the promise is proved as a safety property as well: `ShortGap`
beside `TakeoverHappens`, `RestedIsRight` beside `EventuallyRight`. Every invariant and every
safety property of a step that the passing runs check is also proved.

## 6. Not modelled

* `RoleManager` (nothing constructs one), `get_recent` (nothing calls it), the schema, the
  setup scripts and containers, settings read once, the empty `topics.py` and
  `mqtt_client.py`, the bring-up of the Ethernet chip, console output. That psycopg does not
  reconnect by itself is a property of that library; here it is a failure that only `Restart`
  ends.
* The serial console's line buffer (`main.cpp:151-186`). Of a line that is too long the first
  part is dropped and the rest, up to the end of the line, is then taken for a line of its own
  (`main.cpp:179-182`); the models begin where a complete `ota` command is given.
* Of `current_state` and `unknown_devices`, only that a device has an entry (`recorded` in
  `Session`); the upserts keep no history that anything reads. The time stamps `telemetry`
  rows get at the host.
* One temperature bus: `loop()` ticks both in the same way, one after the other, which
  `MaxBlock` covers. Sensors have lost power before the board starts (`PowerOn` first); a
  reading of exactly 85.0 degrees is shown as null by the code and not told apart here. When a sensor is
  pulled out, those behind it are reported under a smaller index: the model has it, no
  property forbids it, since the code promises no identity.
* Two registry copies at once: `Session` and `Ingest` each have one, of which `DeviceRegistry`
  bounds the age; a device that one service knows and the other does not yet is possible for as
  long as the two bounds allow. `RestedIsRight` says of each when it must agree with the table,
  and so with the other.
* `_lastRxMs == 0` means "never heard" in the code; `Failover` keeps that apart from the
  stamp, and so leaves out the one millisecond in 49.7 days in which a frame is stamped 0.
* `now > BOOT_GRACE_MS` is latched in `Failover`; in the code it is false again for the
  grace after each round of `millis()`, which matters only to a standby that has heard
  nothing in 49.7 days.
