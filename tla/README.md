# MilleniumSAT firmware: TLA+ verification project

The firmware runs on an ESP32 CubeSat. FreeRTOS tasks sample sensors over one
I2C bus; a main loop builds a JSON packet from what they publish, writes a row
on the SD card, posts the packet over WiFi every four minutes and asks a server
for a newer firmware; a serial console sets the identity of the satellite.
The project models that control logic in TLA+, checks it with TLC on small
instances and proves what matters most with TLAPS for every instance.

Paths below are those of the repository: `src/` is the firmware's own code,
`lib/PION` the CubeSat kit it is built on.

## 1. Inventory

| component | state it keeps | operations | interacts with | what is hard |
|---|---|---|---|---|
| I2C bus (`PION_Sensors`, `PION_Interface`, `Wire`, `i2cdetect` of `task.cpp`) | `xI2C_semaphore`, the address and buffer of `TwoWire` | timed take, register accesses, give, scan | all sensor tasks, LED task, console | five tasks and one unlocked scan on one buffer; timeouts; an exit that keeps the mutex |
| Main loop (`statemachine.cpp`, `milleniumSAT.cpp`) | `state_s1`, `lastConnectionTime` | `setup`, `processaEstadoMaquina` | WiFi, packet, card, update | `millis()` wraps; resets |
| WiFi (`wifi.cpp`, `WiFiManager::autoConnect`) | the radio, saved credentials | `iniciaConexao`, `verificaConexao`, `reconectaConexao`, `requisicaoPOST`, `verificaAtualizacoes` | main loop, portal, update | access point up and down; blocking calls; every update check switches the radio off |
| Configuration portal (`WiFiManager.cpp`) | start, last visit, timeout | open, poll, visit, exit, configure, erase, time out | WiFi | sums of a wrapping clock, looked at once per pass of a loop; state left by an earlier portal |
| Firmware update (`esp32FOTA`, `Update`) | two application partitions, boot pointer, `UpdateClass` | `execHTTPcheck`, `execOTA`, `begin`/`writeStream`/`end` | WiFi, bootloader | power failure and failing calls between any two steps |
| SD log (`PION_Storage.cpp`) | `sdStatus`, `fileName`, the files | `init`, `createLogOnSD`, `logOnSDFile` | main loop | a hundred names; failing accesses; resets |
| Console and settings (`task.cpp`, `utils.cpp`, `ArduinoNvs`) | serial buffer, NVS, one-byte globals | commands, `setid`-like values, `restart` | everything, by restarting it | a read that times out; CR and CRLF terminals; reset between store and restart; flash accesses whose failure nobody looks at |
| Packet (`sensores.cpp`, getters of `System`) | static `pacote`, members of `Sensors` | tasks publish, `obtemJSON`, the row | sensors, card, post | read over seconds while the tasks write |
| Start-up (`System::initNoNetwork`, `Sensors::init`) | which tasks exist, the sensors' status | sequential initialisation, beeps, LEDs of the faulty sensors | all tasks | one missing sensor; beeps while tasks already run |
| Siren, LEDs, battery alarm (`PION_Interface`, `PION_System`) | `sirenAction`, the buzzer, task states, `batteryCache`, the port expander | `SirenTask`, `BatteryTask`, `vLowTask`'s colors, `doBeeps` | each other | flags without a lock; resumes that come too early; a read-modify-write register |
| GPS (`GPSTask`) | `nextSerialTaskTs`, `Sensors::gps` | a pass every 100 ms, a copy every second | packet | a deadline compared with a wrapping `millis()` |

The properties that make each correct are listed per run in section 3;
`PROJECT.json` lists the hazards at their lines.

## 2. Modules and how they correspond to the code

| module | models | state | actions |
|---|---|---|---|
| `I2CBus` | mutex, `Wire`, the five tasks of the flight configuration, the scan | `holder`, `pc`, `left`, `wire`, `delivered`, ... | one per step of a task between two possible preemptions: take, timeout, begin, end, conversion, give, `continue`; beginning and end of a probe of `i2cdetect`, one address after the other |
| `AtomicBus` | abstract: a bus whose owner sends whole messages | `owner`, `due`, `delivered` | `Acquire`, `Access`, `Release` |
| `Mission` | `setup`, `STATE_0` to `STATE_2`, WiFi calls; runs `ConfigPortal` on its own clock | `state_s1`, `clock` (= `millis()` mod `Wrap`), `lastConnectionTime`, `stage`, `radio`, the portal's timestamps, ... | one per call and outcome; the portal's actions are steps of the main task, and its exit and erase pages and the form saved with or without a name are the operator's |
| `ConfigPortal` | the portal's timer, and all that others do as pauses | `configPortalStart`, `webPortalAccessed`, the clock | open, wait, visit, exit, configured, time out, pause, restart; a pass of the loop takes any of several times |
| `OtaUpdate` | `esp32FOTA` on `UpdateClass` | `flash`, `bootPart`, `runPart`, `upd`, `stage`, the manifest `served` | check (the first accepted entry of the manifest), begin, erase, write, end, header, boot pointer, restart, and every failure |
| `FirmwareSlot` | abstract: what an update promises | `running`, `installed` | `Install`, `Restart` |
| `SdLog` | `Storage` | `files`, `fileName`, `sdStatus`, `step` | one per access of the card |
| `Console` | `vLowSerial`, `Utils`, NVS | `serial`, `nvs`, `ram`, `opened`, `lost`, `step` | a key, a read, a timeout, a store, a restart; flash that cannot be opened, is formatted, or fails to read or to write |
| `Telemetry` | tasks, getters, `obtemJSON`, row | members, locals, `packet`, `column` | publish one member (an axis of a vector is one), read one getter, print one column |
| `Siren` | `System::initNoNetwork`, `SirenTask`, `BatteryTask`, the LEDs and colors on the port expander | `stage`, `faulty`, `pins`, `buzzer`, `sirenAction`, `siren`, `battery`, `cache`, ... | one per stretch of a task between two delays |
| `GpsTask` | the deadline of `GPSTask` | `clock`, `nextSerialTaskTs`, `age` | a pass that copies the position (and reads `millis()` twice), a pass that does not |
| `PionTasks` | `Siren` and `GpsTask` together: the task exists only when `Sensors::init` found every sensor | both | a step of either |
| `I2CBusProofs`, `SdLogProofs`, `OtaUpdateProofs`, `TelemetryProofs`, `PionTasksProofs`, `MissionProofs`, `ConsoleProofs`, `ConfigPortalProofs` | theorems of the components | | |
| `MC*` | values of the constants for TLC | | |

Components meet in three ways. `Mission` composes the main loop with the
portal: `Mission` instantiates `ConfigPortal` on its clock and its `stage`, its
portal steps are conjunctions with `ConfigPortal`'s actions, and it is proved
to implement `ConfigPortal`'s specification. `PionTasks` composes start-up,
siren and GPS. The other modules describe parts that share little: an update
restarts the satellite, and so does the console, which every persistent module
(`OtaUpdate`, `SdLog`, `Console`) takes into account as a reset that may come at
any step; `Mission` sees the update as a call with the outcomes and durations
it can have. Each definition that models code has its lines in the map of
`PROJECT.json`; definitions marked external are code outside the repository
(bootloader, update server, operator).

Above some definitions stands a comment "Mutant": a plausible slip of that
definition, used to show that a property notices it.

## 3. Runs

Passing runs:

* `i2c_bus` (`I2CBus`, all five tasks as flown). `MutualExclusion` and `Routed`
  (bytes reach the device of the task that wrote them) hold although takes time
  out while the owner is in the middle of an access; the whole implements a bus
  on which an access is one message (`ImplementsBus`). With fairness,
  `TasksKeepSampling`: as long as no take times out on a mutex that somebody
  will give back (critical sections below 500 ticks), every task has the bus
  again and again.
* `i2c_faults` (three tasks, the scan, a `measure()` that may fail). Only the
  `continue` of `BaroTask` loses the mutex (`OnlyBaroLeaks`); then it is lost
  for good and the bus silent (`LeakIsForever`), though every task keeps cycling
  because its takes are timed (`TasksKeepCycling`). The scan damages only the access
  it cuts into: whatever is in the buffer is bound for the device of the task
  that wrote it or for the one address that is being probed at this moment
  (`ScanConfinesDamage`). The vendored BMx280MI driver's `measure()` only
  returns true, so the leak is latent.
* `mission` (`Mission` with `ConfigPortal` on the same clock). The loop, its
  portal and its resets implement `ConfigPortal` (`ImplementsPortal`). Posts of one boot
  start more than the interval apart (`PostSpacing`), none waits a pass too long
  (`PostNotOverdue`), the first comes at once or after at most two intervals
  (`FirstPost`), all across the wrap of `millis()`. A portal nobody visits
  closes one pass of its loop after its timeout, however long the passes are,
  before and after wraps of `millis()`, unless `millis()` has wrapped and the
  last visit of an earlier portal lies ahead of the clock or the deadline lies
  within the last pass before the next wrap (`PortalOnTimeUnlessMissed`).
  The loop keeps posting whatever the access point does (`KeepsPosting`), and
  over a connected radio once it is back for good (`RecoversAfterOutage`,
  although every successful update check switches the radio off). Both exclude
  `PortalLate`: a portal opened before the wrap can hold the loop after it.
* `ota`. A partition with a header is whole, the selected one is bootable, the
  running one untouched, no attempt leaves `UpdateClass` "already running", the
  whole is an atomic change of the firmware slot (`ImplementsSlot`), no restart
  goes back to an older image (`OnlyNewerStarts`). A manifest is a
  sequence of entries, of which those with the satellite's firmware type and an
  address are meant for it; the first of these that is newer counts. Once the
  faults stop, a manifest that stays on the server ends with the newest of them
  running, if all of them fit a partition (`UpdateCompletes`).
* `sd_log`. Names are used in order; no boot changes an earlier boot's file
  unless `SD.exists` itself failed; a boot writes one log, and unless that
  failed its name is the last on the card (`NamesTellBoots`); the search ends
  while a name is free.
* `console`. Whenever the console listens, the settings in use are the ones in
  flash (modulo 256), except those this boot could not read, which are 0
  (`IdInForce`); on a CR terminal the line end of the command is never stored as
  a value (`NothingBlankSaved`; a boot that formats a full NVS partition stores
  nothing and is set apart); a typed value is taken.
* `telemetry`. A packet is never older than its call (`FieldsFresh`). It mixes
  measurements of a task, the axes of one vector included, which are read
  200 ms apart, but in one direction only (`TornForward`): of two readings the
  later one is at most one measurement older, and not even that unless the task
  assigns its member after the other's. How much newer it is has no bound. The
  row is never older than the packet (`RowNotOlder`). One sensor missing at
  boot leaves nothing but initial values.
* `pion_tasks`. The beeps of start-up and those of `SirenTask` never overlap
  (`BuzzerShared`), although `doBeeps` takes no lock; the LEDs show exactly the
  faulty sensors whatever `vLowTask` writes (`FaultsShown`); a faulty sensor is
  heard before `BatteryTask` overwrites its alarm (`ErrorHeard`); a battery that
  stays low is heard again and again and one that stays charged leaves the
  satellite silent (`LowBatteryHeard`, `ChargedBatterySilent`), although the
  alarm is set after the siren was resumed; no average contains the zeros of
  the start (`AveragesMeasurements`); no pass of `GPSTask` leaves a
  position behind that is older than the second and the copy before it, across
  the wraps of `millis()`, but for a deadline in the last pass before a wrap
  (`PositionFresh`).

Runs that show a disagreement of the code with its own words:

* `i2c_scan_routed`: `i2cdetect` (`src/task.cpp:50`) uses `Wire` without the
  mutex; a task's bytes then reach the address being probed.
* `portal_on_time`: `configPortalHasTimeout` (`WiFiManager.cpp:479`) compares a
  sum with `millis()` once per pass of the loop, and keeps a
  `_webPortalAccessed` of an earlier portal: around the wrap the blocking
  portal can stay open past its timeout.
* `sd_search_ends`: with a log under every name the search of
  `createLogOnSD` (`PION_Storage.cpp:173`) never ends, and `setup()` with it.
* `telemetry_magnetometer`: `getMagnetometer` (`PION_System.cpp:407`) returns
  the gyroscope.

Observed while modelling, without a run because nothing in the code depends on
it: `requisicaoPOST` returns `SUCESSO` after a failed request and its caller
ignores the result, so a packet is not sent again; a CRLF terminal or slow
typing makes `setid` store a line feed or the first digits; the orientation
fields of the packet are never assigned; `autoConnect` ends without a return
after its portal; the results of `NVS.begin()` and `getString` are not looked
at, so a satellite that cannot read its flash goes by the id 0; the
repository's own `src/firmware.json` has the type `esp32-fota-https`, which the
`esp32-fota-http` of `wifi.cpp:72` never accepts; an entry too large for a
partition hides the ones after it and is tried for ever; `BatteryTask` clears the alarm of a faulty sensor in its
first pass; `resetwifi` is in the menu and has no handler.

### Bounds

* `I2CBus`: unbounded, the state space is finite. Five tasks are the flight
  configuration; three (one that can leak and two others) suffice for the
  faults. A task makes as many accesses as its driver calls: six for
  `BaroTask` (at most three in `measure`, three in `hasValue`), one or two for
  the others. `i2cdetect` probes 3 to 119; the runs probe the addresses of the
  three devices and one that nobody has, in that order: a probe of any other
  address is like that of the last one, for no task of these runs uses it.
* `Mission`: `Interval = 2`, `WaitDelay = 1`, calls of 0 or 1, portals of 2
  in passes of 1 or 2, boots of 1 and 3 (quicker and slower than the interval).
  `Wrap = 9` is long enough for all of `MissionAssumption` and lets posts and
  portals fall before, at and after the wrap. `MaxRetries = 1` stands for the 30
  reconnections, `MaxResets = 1` for a reset anywhere.
* `ConfigPortal` alone (`portal_on_time`): timeout 3 on a clock of 16, passes
  of 1, 2 and 4, pauses that place openings at every distance from the wrap.
* `Siren`: no, one or two faulty sensors; voltages below, at and above the
  alarm, the lowest outside what `mapfloat` maps; a cache of two samples, so
  that an average can mix them. `GpsTask`: a deadline of 2 units in a cycle of
  6, passes of 1 or 2, copies of 0 or 1, started at any value of the clock.
* `OtaUpdate`: images of 1 to 4 sectors for partitions of 3, so that images
  shrink, grow, fill the partition exactly and do not fit; seven manifests:
  none, one entry, an entry of another type, one without an address, an older
  one first, one that does not fit before one that does; three faults, so
  that a fault can hit an update, its retry and the next update.
* `SdLog`: two digits to base 2 (four names, with a carry), five boots: one
  more than names; two failing accesses.
* `Console`: five keys; `IdValues = 4` instead of 256 so that an id can exceed
  it; two faults, each a failing open, read or write or a reset. Words of a command arrive whole.
* `Telemetry`: `IMUTask`, whose nine members are most of the packet and three
  of which are read twice, two measurements of each member. The tasks share no
  member and take no lock, so another task adds interleavings and no new case;
  the proofs hold for all seven and any number of measurements.

### Fairness

* `I2CBus`: weak fairness of each task and of a conversion, a started scan goes
  on: FreeRTOS runs every ready task. Strong fairness of a take: waiters for a
  FreeRTOS mutex are queued, so one that keeps waiting is served. The operator
  is not fair.
* `Mission`: the main task runs; strong fairness of `AutoConnectSucceeds`: with
  the access point up and credentials stored, not every attempt fails. The
  access point, the operator and resets are not fair.
* `KeepsPosting` and `RecoversAfterOutage` moreover assume that visitors stop
  opening the portal's pages: each visit prolongs it, without limit.
* `OtaUpdate`, `SdLog`, `Console`: the one task that executes the code runs.
  Faults, crashes, the server and keys are not fair.
* `Siren`: weak fairness of the main task, strong fairness of `SirenTask` and
  `BatteryTask`: they have the priority of the main task, so FreeRTOS gives each
  its share and delays end. `SensorsInit` is not fair: it waits without limit
  for a CCS811 that answered once, so every property holds of a boot that never
  passes it.

## 4. Proofs

All theorems hold for every value of the constants that satisfies the named
assumptions (`BusAssumption`, `SdAssumption`, `OtaAssumption`,
`TelemetryAssumption`, `SirenAssumption`, `PionTasksAssumption`,
`MissionAssumption`, `PortalConstants`, `ConsoleAssumption`), so for any number
of tasks, images, sectors, names, boots, faults and measurements, and any cycle
of `millis()`. TLC evaluates the assumptions in the runs. One says something of
the code that is easily overlooked: `0 < WaitDelay`, the `delay(30000)` of
`setup`; without it a pass could take no time and `STATE_0` would spin.

### Invariants, action properties and refinements

* `I2CBusProofs`. `LockInv` = types, the count of accesses, mutual exclusion and
  the origin of a leak. Mutual exclusion alone is not inductive: a give must
  know how far its task is, hence the count (`AccessCounted`). Without a scan,
  `WireInv` (the open transmission belongs to the owner of the mutex and goes
  to its device) gives `Routed` and `QuietWhenFree`, and, step by step, the
  refinement of `AtomicBus`: a take is `Acquire`, an `endTransmission` is
  `Access`, a give is `Release`, all else stutters. For the lost mutex,
  `LoadOwned` shows that what is in the buffer is the owner's; with a scan on
  the bus, `Confined` (an open transmission goes to the device of the task in
  the middle of an access or to the address whose probe is in progress) gives
  `ScanConfinesDamage`.
  Theorems: `TypeCorrect`, `BusMutualExclusion`, `LeakOrigin`, `MessagesRouted`,
  `BusQuietWhenFree`, `ImplementsAtomicBus` (the last three assuming that nobody
  scans), `LostMutexIsForever`, `ScanDamageConfined`.
* `SdLogProofs`. `LogInv` = types, every name the search has passed is in use,
  names are in order, the name settled on is unused or this boot's own. The
  lemma `NextNameAdjacent` is the arithmetic of the two characters. `OwnInv`
  adds what ties boots to names: later boots have written nothing, and a boot
  writes behind what is on the card.
  Theorems: `LogTypeCorrect`, `LogNamesInOrder`, `LogsKept`, `LogNamesTellBoots`.
* `OtaUpdateProofs`. `OtaInv` adds to `BootableIsWhole`: outside
  `restart` the selected partition is the running one (`Selected`), the offer
  is newer than the running firmware (`Offered`, from the lemma
  `ManifestOffers`: the entry offered is one that was accepted), the first `progress` sectors
  of the target are the offer's and its header is away once sector 1 was erased
  (`Written`), an enabled header is the offer's (`Enabled`). Steps are of four
  kinds (memory only, write to the target, boot pointer, restart) with a lemma
  each. Theorems: `OtaTypeCorrect`, `OtaBootableIsWhole`,
  `OtaBootPartBootable`, `OtaUpdaterReady`, `OtaRunningUntouched`,
  `OtaImplementsSlot` (refinement of `FirmwareSlot`: moving the boot pointer is
  `Install`, a reset is `Restart`, the rest stutters). `OtaOnlyNewerStarts` is
  proved of the two actions of the slot and inherited through the refinement.
* `TelemetryProofs`. No task takes a lock, so `IInv` carries what the order of
  the assignments and of the readings alone guarantees: the members a task has
  assigned in this measurement are one ahead of the others (`InStep`), every
  field comes from the member its getter returns (`FieldsFrom`), nothing read
  is newer than its member (`NotNewer`) nor, once read in this round, older than
  the member was at its start (`ReadSinceStart`); `OnlyBattery` covers a failed
  `Sensors::init`. `TornForward` then follows at the second of two readings: what
  the first one read is at most what its member holds now, and the two members
  differ by the lag of their places in the measurement.
  Theorems: `TelemetryTypeCorrect`, `PacketFresh`, `PacketTornForward`,
  `RowAfterPacket`, `FaultSilencesAll`, and `MagnetometerNeverPosted`: what the
  run `telemetry_magnetometer` shows of one packet holds of every packet.
* `PionTasksProofs`. `SirenInv`: until start-up is over `SirenTask` is created or
  suspended and nothing can resume it (`SilentDuringBoot`), the port expander
  holds nothing but the faults (`LedsOnly`), the cache fills from its end
  (`CacheFilled`). `AlarmInv` adds where `SirenTask` is when an alarm was set
  (`Awake`). `GpsInv`: away from a deadline at the wrap, the clock is
  before the deadline by what the age leaves, the copy counted (`InPhase`), before a deadline
  that lies beyond the wrap (`AheadOfWrap`), or at boot (`AtBoot`).
  Theorems: `TasksTypeCorrect`, `OneBuzzerUser`, `FaultsStayShown`,
  `PositionStaysFresh`, `AveragesAreOfMeasurements`, `AlarmFollowsLevel`,
  `ErrorIsBegunFirst`.
* `ConfigPortalProofs`. The history variable `stale` says that the last visit of
  an earlier portal lies ahead of the clock; the code keeps that timestamp and
  cannot tell. While it is false, the time a portal has been open is on the
  clock (`TimedByClock`), or portal and deadline lie on two sides of a wrap and
  the deadline is still to be seen after it (`WrappedOver`), or the deadline is
  so near the end of the cycle that one pass may jump over it (`LastDeadline`).
  Stale visits and such deadlines are the two exceptions of
  `OnTimeUnlessMissed` and there is no third; before the first wrap there is
  none (`NothingAhead`). `Patient` is the converse: the timer is never armed with
  a time longer ago than the portal or its last page. Theorems:
  `PortalOnTimeUnlessWrapHit`, `PortalGivesFullTimeout`.
* `MissionProofs`. Every step lets no time pass, lets a bounded time pass, posts
  or boots (`StepKinds`). `AgeOnClock` ties the age of the last post to the
  timestamps the code compares, on either side of the wrap.
  `PostNotOverdue` needs that two calls and an interval fit in the cycle of
  `millis()` (`MissionAssumption`); in the code they are minutes in 49.7 days.
  Theorems: `MissionTypeCorrect`, `MissionImplementsPortal` (each step is one of
  `ConfigPortal`, a pause or a stutter), `PostsSpaced`, `PostsNotOverdue`,
  `FirstPostInTime`. The lemma `MissionIsTimer` is the refinement in the form
  that the theorems of `ConfigPortalProofs`, instantiated on the clock of the
  main loop, accept: `PortalClosesOnTime` and `VisitorsHaveFullTimeout` are
  inherited, not proved again.
* `ConsoleProofs`. `IdInForce` is inductive; `lost` remembers which settings the
  boot could not read. For what is stored, `EndOfLineIs`
  and `LineIs` say what `readStringUntil` returns and leaves (the first CR is
  the least index of one), and `Received` that only a CRLF terminal sends line
  feeds. Theorems: `ConsoleInputTyped`, `StoredIdInForce`, `TypedValueSaved`. That
  the number of a text is one (`ToInt`, a fold) is induction over data and is not proved.

The type invariants are theorems and no run lists them. Of `Console`'s, the part
that is proved is `InputTyped`; the rest, that an id fits in its byte, is implied
by `IdInForce` while the console listens.

### Towards liveness

The prover has no fairness, so every liveness property stays with TLC. What can
be proved of them is the part that is not fairness: that the steps lead
somewhere. Each of these theorems states it as an action property, most of
them as a number that every step makes smaller, for every value of the
constants.

| liveness property (TLC) | its safety half (TLAPS) | measure or argument |
|---|---|---|
| `TasksKeepSampling` | `CriticalSectionsAreFinite` | `StepsLeft`: three steps for an access and the give; nobody else changes it |
| `KeepsPosting` | `LoopReachesPost` | `Phase`, then `Rest`: passes of the portal, retries, time to the end of the interval; the two exceptions are those of the property, and TLC finds a counterexample without either |
| `UpdateCompletes` | `OtaAttemptAdvances` | `StepsToGo`: two steps for a sector and those of the stages, faults included |
| `SearchEndsWhileNamesRemain` | `SearchMakesProgress` | every pass goes on to a later name while one is unused |
| `ValueIsTaken` | `TypedValueNotDropped` | the length of what is unread; reading an empty line never drops a key |
| `LowBatteryHeard`, `ChargedBatterySilent` | `AlarmFollowsLevel` | between passes the alarm is that of the level, and a low level never finds `SirenTask` asleep |
| `ErrorHeard` | `ErrorIsBegunFirst` | `SirenTask` has left its switch before the error is overwritten |

The action properties of the middle column (`CriticalSectionsEnd`,
`LoopAdvances`, `AttemptAdvances`, `SearchAdvances`, `TypedValueKept`,
`ErrorNotOverwrittenUnheard`) and the invariant `AlarmFollowsBattery` stand
beside the liveness properties in their modules.

Only model-checked: the ten liveness properties, that is those of the table,
`TasksKeepCycling` and `RecoversAfterOutage`.

## 5. What is left out, and assumptions

* `Wire.endTransmission` hands the buffer over in one step; the bytes of the
  register accesses are abstracted to who wrote them and for whom.
* The address in an entry of the manifest names the image it announces (the
  code cannot check that; that the entry has an address and the right type is
  modelled), and every image reports the
  number of its manifest (`MCReports`; the safety theorems do not need the
  latter). Signatures are not checked in this configuration. HTTP, TLS and JSON
  parsing are outside.
* `EarlierLogsKept` excludes boots in which `SD.exists` failed (`misread`): the
  code cannot tell a failing card from an unused name.
* `toggleSiren`, `toggleLed`, `toggleRGB` and the toggles of the SD card have no
  caller in the tasks the flight configuration starts: `ALARM_SIREN` is never
  set and `LedTask` finds its flags false.
* Below 3.5 V `mapfloat` converts a negative float to `uint8_t`, which is
  undefined: `Siren` lets such a voltage show any percentage, and
  `LowBatteryHeard` is stated for voltages that are not below it.
* `i2cdetect` also probes the address of the port expander; its LEDs are modelled
  without the scan.
* `STATE_3` (deep sleep) is unreachable, the debug tasks are not compiled, the
  PION web interface is not started, `enviaSocket` has no caller, and so have
  `getValue`, `montaPacote` and `geraMapaVariacao`.
* Vendored drivers and the Arduino core are modelled only from how the firmware
  uses them.
  They make up nearly all the lines of the repository (Azure IoT, graphics,
  board support and sensor libraries, most of which the flight build never
  calls), so the map covers a small share of them: the firmware's own control
  and the parts of `lib/PION`, `WiFiManager`, `esp32FOTA`, `Update`, `ArduinoNvs`
  and `Wire` that keep state for it.

## 6. What could be added

The parts of the flight configuration that keep state of their own are modelled.
What remains is

1. `OtaUpdate` as a component of `Mission`, in place of a call with outcomes:
   its stages would multiply the states of `Mission`, and the two share nothing
   but the restart;
2. a common clock for `Siren` and `Telemetry`: the battery is the only member
   both have, and its percentage tells nothing about the age of a packet;
3. the vendored drivers (register layouts, compensation formulas, the NMEA
   parser) and the Arduino core, which are other projects' code.
