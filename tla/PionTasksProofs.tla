-------------------------- MODULE PionTasksProofs ---------------------------
(***************************************************************************)
(* Proofs about PionTasks, for any faults, voltages and lengths of the     *)
(* cache, and any rate and wrap of the clock of GPSTask.                   *)
(***************************************************************************)
EXTENDS PionTasks, TLAPS

\* Nothing resumes SirenTask before initNoNetwork signals a fault or is over:
\* until then it has suspended itself or is about to.
SilentDuringBoot ==
    /\ stage = "interface" => siren = "none"
    /\ stage \in {"colors", "sensors", "beep", "gap", "signal"}
          => siren \in {"created", "suspended"}
    /\ stage # "up" => battery = "none"
    /\ stage \in {"interface", "colors", "sensors", "signal"} => mainLeft = 0
    /\ stage \in {"beep", "gap"} => faulty = {}
    /\ stage \in {"interface", "colors", "sensors"} => faulty = {}

\* Before vLowTask there is nothing but the faults on the port expander.
LedsOnly ==
    /\ stage \notin {"interface", "up"} => pins = {}
    /\ stage # "up" => rgb = "none"
    /\ stage = "beep" => mainLeft > 0

\* The cache fills from its end, one measurement a pass.
CacheFilled ==
    \A i \in 1..Samples : i > Samples - counter => cache[i] \in Volts

\* SirenTask beeps no more often than the longest alarm.
BeepsCounted ==
    siren = "on" => sirenLeft > 0

SirenInv ==
    /\ TypeOK
    /\ SilentDuringBoot
    /\ LedsOnly
    /\ CacheFilled
    /\ BeepsCounted
    /\ FaultsShown

-----------------------------------------------------------------------------
(* Start-up, siren, battery and LEDs.                                      *)

\* Init satisfies the invariant.
LEMMA SirenInitInv == Init => SirenInv
  <1> SUFFICES ASSUME Init PROVE SirenInv
    OBVIOUS
  <1>1. TypeOK
    <2>1. cache \in [1..Samples -> Volts \cup {0}] /\ counter \in 0..Samples
      BY SirenAssumption DEF Init
    <2>2. sirenAction \in DOMAIN Beeps
      BY DEF Init, Beeps
    <2> QED BY <2>1, <2>2 DEF Init, TypeOK, MainBeeps
  <1>2. SilentDuringBoot /\ LedsOnly /\ BeepsCounted /\ FaultsShown
    BY DEF Init, SilentDuringBoot, LedsOnly, BeepsCounted, FaultsShown
  <1>3. CacheFilled
    BY SirenAssumption DEF Init, CacheFilled
  <1> QED BY <1>1, <1>2, <1>3 DEF SirenInv

\* The main task: it leaves battery cache and counter alone.
LEMMA MainInv == SirenInv /\ (MainStep \/ SensorsInit) => SirenInv'
  <1> SUFFICES ASSUME SirenInv, MainStep \/ SensorsInit PROVE SirenInv'
    OBVIOUS
  <1> USE DEF SirenInv
  <1>0. CacheFilled' /\ cache' = cache /\ counter' = counter /\ level' = level
    BY DEF MainStep, InterfaceInit, ColorsShown, SensorsInit, MainBeepEnds, MainBeepNext,
           SignalFaults, CreateBatteryTask, CreateLowTask, batteryVars, CacheFilled
  <1>1. CASE InterfaceInit
    <2> USE <1>1, <1>0 DEF InterfaceInit
    <2>1. TypeOK'
      BY DEF TypeOK, batteryVars
    <2>2. SilentDuringBoot' /\ LedsOnly'
      BY DEF SilentDuringBoot, LedsOnly, batteryVars
    <2> QED BY <2>1, <2>2 DEF BeepsCounted, FaultsShown
  <1>2. CASE ColorsShown
    <2> USE <1>2, <1>0 DEF ColorsShown
    <2>1. TypeOK'
      BY DEF TypeOK, batteryVars, sirenVars
    <2>2. SilentDuringBoot' /\ LedsOnly'
      BY DEF SilentDuringBoot, LedsOnly, batteryVars, sirenVars
    <2> QED BY <2>1, <2>2 DEF BeepsCounted, FaultsShown, sirenVars
  <1>3. CASE SensorsInit
    <2> USE <1>3, <1>0 DEF SensorsInit
    <2>1. TypeOK'
      BY DEF TypeOK, batteryVars, sirenVars, MainBeeps
    <2>2. SilentDuringBoot' /\ LedsOnly'
      BY DEF SilentDuringBoot, LedsOnly, batteryVars, sirenVars, MainBeeps
    <2> QED BY <2>1, <2>2 DEF BeepsCounted, FaultsShown, sirenVars
  <1>4. CASE MainBeepEnds
    <2> USE <1>4, <1>0 DEF MainBeepEnds
    <2>1. TypeOK'
      <3>1. mainLeft' \in 0..MainBeeps
        BY DEF TypeOK, LedsOnly, MainBeeps
      <3> QED BY <3>1 DEF TypeOK, batteryVars, sirenVars
    <2>2. SilentDuringBoot' /\ LedsOnly'
      BY DEF SilentDuringBoot, LedsOnly, batteryVars, sirenVars
    <2> QED BY <2>1, <2>2 DEF BeepsCounted, FaultsShown, sirenVars
  <1>5. CASE MainBeepNext
    <2> USE <1>5, <1>0 DEF MainBeepNext
    <2>1. TypeOK'
      BY DEF TypeOK, batteryVars, sirenVars
    <2>2. SilentDuringBoot' /\ LedsOnly'
      BY DEF SilentDuringBoot, LedsOnly, batteryVars, sirenVars
    <2>3. FaultsShown'
      BY DEF FaultsShown, SilentDuringBoot, LedsOnly
    <2> QED BY <2>1, <2>2, <2>3 DEF BeepsCounted, sirenVars
  <1>6. CASE SignalFaults
    <2> USE <1>6, <1>0 DEF SignalFaults
    <2>0. faulty \subseteq Sensors
      BY SirenAssumption DEF TypeOK
    <2>1. TypeOK'
      <3>1. pins' \subseteq Sensors \cup Colors
        BY <2>0 DEF TypeOK
      <3>2. sirenAction' \in DOMAIN Beeps
        BY DEF Beeps
      <3> QED BY <3>1, <3>2 DEF TypeOK, batteryVars, Resumed
    <2>2. SilentDuringBoot' /\ LedsOnly'
      BY DEF SilentDuringBoot, LedsOnly
    <2>3. FaultsShown'
      BY <2>0 DEF FaultsShown, LedsOnly
    <2>4. BeepsCounted'
      BY DEF BeepsCounted, Resumed
    <2> QED BY <2>1, <2>2, <2>3, <2>4
  <1>7. CASE CreateBatteryTask
    <2> USE <1>7, <1>0 DEF CreateBatteryTask, BootDone
    <2>1. TypeOK'
      BY DEF TypeOK, bootVars, sirenVars
    <2>2. SilentDuringBoot' /\ LedsOnly'
      BY DEF SilentDuringBoot, LedsOnly, bootVars, sirenVars
    <2> QED BY <2>1, <2>2 DEF BeepsCounted, FaultsShown, bootVars, sirenVars
  <1>8. CASE CreateLowTask
    <2> USE <1>8, <1>0 DEF CreateLowTask
    <2>1. TypeOK'
      BY DEF TypeOK, bootVars, sirenVars, batteryVars, Colors
    <2>2. SilentDuringBoot' /\ LedsOnly'
      BY DEF SilentDuringBoot, LedsOnly, bootVars, sirenVars
    <2> QED BY <2>1, <2>2 DEF BeepsCounted, FaultsShown, bootVars, sirenVars
  <1> QED BY <1>1, <1>2, <1>3, <1>4, <1>5, <1>6, <1>7, <1>8 DEF MainStep

\* SirenTask.
LEMMA SirenStepInv == SirenInv /\ SirenStep => SirenInv'
  <1> SUFFICES ASSUME SirenInv, SirenStep PROVE SirenInv'
    OBVIOUS
  <1> USE DEF SirenInv
  <1>0. /\ UNCHANGED <<bootVars, pins, sirenAction, batteryVars, rgb>>
        /\ CacheFilled'
    BY DEF SirenStep, SirenSuspends, SirenSwitch, SirenBeepEnds, SirenBeepNext,
           SirenWakes, batteryVars, CacheFilled
  <1>1. FaultsShown' /\ LedsOnly'
    BY <1>0 DEF FaultsShown, LedsOnly, bootVars
  <1>2. sirenLeft' \in 0..5 /\ BeepsCounted'
    <2>1. sirenAction \in {"ALARM_OFF", "ALARM_ERROR", "ALARM_LOW_BATTERY"}
      BY DEF TypeOK, Beeps
    <2>2. Beeps[sirenAction] \in 0..5
      BY <2>1 DEF Beeps
    <2>3. CASE SirenSwitch
      BY <2>2, <2>3 DEF SirenSwitch, BeepsCounted
    <2>4. CASE SirenBeepEnds
      <3>1. sirenLeft \in 0..5 /\ sirenLeft > 0
        BY <2>4 DEF SirenBeepEnds, TypeOK, BeepsCounted
      <3> QED BY <3>1, <2>4 DEF SirenBeepEnds, BeepsCounted
    <2>5. CASE SirenSuspends \/ SirenBeepNext \/ SirenWakes
      BY <2>5 DEF SirenSuspends, SirenBeepNext, SirenWakes, TypeOK, BeepsCounted
    <2> QED BY <2>3, <2>4, <2>5 DEF SirenStep
  <1>3. /\ siren' \in {"suspended", "switch", "on", "off", "pause"}
        /\ buzzer' \in {"LOW", "HIGH"}
        /\ stage # "interface"
        /\ stage # "up" => siren' = "suspended"
    BY DEF SirenStep, SirenSuspends, SirenSwitch, SirenBeepEnds, SirenBeepNext,
           SirenWakes, TypeOK, SilentDuringBoot
  <1>4. TypeOK'
    BY <1>0, <1>2, <1>3 DEF TypeOK, bootVars, batteryVars
  <1>5. SilentDuringBoot'
    BY <1>0, <1>3 DEF SilentDuringBoot, bootVars, batteryVars
  <1> QED BY <1>0, <1>1, <1>2, <1>4, <1>5

\* What calculateMovingAvg leaves in the cache.
LEMMA ShiftedCache ==
  ASSUME TypeOK, CacheFilled, NEW v \in Volts
  PROVE  /\ Shifted(v) \in [1..Samples -> Volts \cup {0}]
         /\ \A i \in 1..Samples :
               i > Samples - counter - 1 => Shifted(v)[i] \in Volts
  <1> USE SirenAssumption
  <1>1. counter \in Nat /\ Samples \in Nat \ {0}
    BY DEF TypeOK
  <1>2. ASSUME NEW i \in 1..Samples
        PROVE  /\ Shifted(v)[i] \in Volts \cup {0}
               /\ i > Samples - counter - 1 => Shifted(v)[i] \in Volts
    <2>1. CASE i = Samples
      <3>1. Shifted(v)[i] = v
        BY <2>1, <1>1 DEF Shifted
      <3> QED BY <3>1
    <2>2. CASE i # Samples
      <3>1. i < Samples /\ i + 1 \in 1..Samples
        BY <2>2, <1>1
      <3>2. Shifted(v)[i] = cache[i + 1]
        BY <3>1 DEF Shifted
      <3>3. i > Samples - counter - 1 => i + 1 > Samples - counter
        BY <1>1
      <3> QED BY <3>1, <3>2, <3>3 DEF TypeOK, CacheFilled
    <2> QED BY <2>1, <2>2
  <1>3. Shifted(v) = [i \in 1..Samples |-> Shifted(v)[i]]
    BY DEF Shifted
  <1> QED BY <1>2, <1>3

\* BatteryTask.
LEMMA BatteryInv == SirenInv /\ BatteryStep => SirenInv'
  <1> SUFFICES ASSUME SirenInv, BatteryStep PROVE SirenInv'
    OBVIOUS
  <1> USE DEF SirenInv
  <1>1. stage = "up"
    BY DEF BatteryStep, BatteryMeasures, BatterySetsAlarm, SilentDuringBoot, TypeOK
  <1>2. CASE BatteryMeasures
    <2>1. /\ battery' = "alarm" /\ siren' = SirenIfLow
          /\ UNCHANGED <<bootVars, pins, buzzer, sirenAction, sirenLeft, rgb>>
          /\ BatteryWarmsUp \/ BatteryAverages
      BY <1>2 DEF BatteryMeasures
    <2>2. siren' \in {siren, "switch"}
      BY <2>1 DEF SirenIfLow, Resumed
    <2>3. level' \in {"low", "ok"}
      BY <2>1 DEF BatteryWarmsUp, BatteryAverages, Levels
    <2>4. /\ cache' \in [1..Samples -> Volts \cup {0}]
          /\ counter' \in 0..Samples
          /\ CacheFilled'
      <3>1. PICK v \in Volts : cache' = Shifted(v)
        BY <2>1 DEF BatteryWarmsUp, BatteryAverages
      <3>2. counter \in 0..Samples /\ counter' \in 0..Samples
            /\ (counter' = counter + 1 \/ counter' = counter)
        BY <2>1, SirenAssumption DEF BatteryWarmsUp, BatteryAverages, WarmingUp, TypeOK
      <3>3. \A i \in 1..Samples : i > Samples - counter' => i > Samples - counter - 1
        <4>1. Samples \in Nat /\ counter \in Nat /\ counter' \in Nat /\ counter' <= counter + 1
          BY <3>2, SirenAssumption
        <4>2. \A i, s, m, n \in Nat : n <= m + 1 /\ i > s - n => i > s - m - 1
          OBVIOUS
        <4>3. \A i \in 1..Samples : i \in Nat
          BY <4>1
        <4> QED BY <4>1, <4>2, <4>3
      <3>4. \A i \in 1..Samples : i > Samples - counter - 1 => Shifted(v)[i] \in Volts
        BY ShiftedCache
      <3>5. CacheFilled'
        BY <3>1, <3>3, <3>4 DEF CacheFilled
      <3> QED BY <3>1, <3>2, <3>5, ShiftedCache
    <2>5. TypeOK'
      BY <2>1, <2>2, <2>3, <2>4 DEF TypeOK, bootVars
    <2>6. SilentDuringBoot' /\ LedsOnly'
      BY <1>1, <2>1 DEF SilentDuringBoot, LedsOnly, bootVars
    <2>7. BeepsCounted' /\ FaultsShown'
      BY <2>1, <2>2 DEF BeepsCounted, FaultsShown, bootVars
    <2> QED BY <2>4, <2>5, <2>6, <2>7
  <1>3. CASE BatterySetsAlarm
    <2>1. /\ battery' = "delay" /\ sirenAction' = AlarmFor
          /\ UNCHANGED <<bootVars, pins, buzzer, sirenVars, level, cache, counter, rgb>>
      BY <1>3 DEF BatterySetsAlarm
    <2>2. sirenAction' \in DOMAIN Beeps
      BY <2>1 DEF AlarmFor, Beeps
    <2>3. TypeOK'
      BY <2>1, <2>2 DEF TypeOK, bootVars, sirenVars
    <2>4. SilentDuringBoot' /\ LedsOnly' /\ CacheFilled'
      BY <1>1, <2>1 DEF SilentDuringBoot, LedsOnly, CacheFilled, bootVars, sirenVars
    <2>5. BeepsCounted' /\ FaultsShown'
      BY <2>1 DEF BeepsCounted, FaultsShown, bootVars, sirenVars
    <2> QED BY <2>3, <2>4, <2>5
  <1> QED BY <1>2, <1>3 DEF BatteryStep

\* vLowTask.
LEMMA SetRGBInv == SirenInv /\ SetRGB => SirenInv'
  <1> SUFFICES ASSUME SirenInv, SetRGB PROVE SirenInv'
    OBVIOUS
  <1> USE DEF SirenInv
  <1>1. stage = "up" /\ rgb \in Colors
    BY DEF SetRGB, LedsOnly, TypeOK
  <1>2. UNCHANGED <<bootVars, buzzer, sirenAction, sirenVars, batteryVars>>
    BY DEF SetRGB
  <1>3. pins' \subseteq Sensors \cup Colors /\ pins' \cap Sensors = pins \cap Sensors
    <2>1. Sensors \cap Colors = {}
      BY DEF Sensors, Colors
    <2>2. pins' = (pins \ Colors) \cup {rgb} \/ pins' = pins
      BY DEF SetRGB, OtherPins
    <2>3. pins \subseteq Sensors \cup Colors
      BY DEF TypeOK
    <2> QED BY <2>1, <2>2, <2>3, <1>1
  <1>4. rgb' \in Colors
    BY <1>1 DEF SetRGB, Colors
  <1>5. TypeOK'
    BY <1>2, <1>3, <1>4 DEF TypeOK, bootVars, sirenVars, batteryVars
  <1>6. SilentDuringBoot' /\ LedsOnly' /\ CacheFilled' /\ BeepsCounted'
    BY <1>1, <1>2 DEF SilentDuringBoot, LedsOnly, CacheFilled, BeepsCounted,
                      bootVars, sirenVars, batteryVars
  <1>7. FaultsShown'
    BY <1>2, <1>3 DEF FaultsShown, bootVars
  <1> QED BY <1>5, <1>6, <1>7

\* The invariant of start-up, siren, battery and LEDs is inductive.
LEMMA SirenNextInv == SirenInv /\ [Next]_vars => SirenInv'
  <1> SUFFICES ASSUME SirenInv, [Next]_vars PROVE SirenInv'
    OBVIOUS
  <1>1. CASE Next
    BY <1>1, MainInv, SirenStepInv, BatteryInv, SetRGBInv DEF Next
  <1>2. CASE UNCHANGED vars
    <2> USE <1>2 DEF vars, bootVars, sirenVars, batteryVars, SirenInv
    <2>1. TypeOK' /\ SilentDuringBoot' /\ LedsOnly'
      BY DEF TypeOK, SilentDuringBoot, LedsOnly
    <2> QED BY <2>1 DEF CacheFilled, BeepsCounted, FaultsShown
  <1> QED BY <1>1, <1>2

-----------------------------------------------------------------------------
(* The alarms.                                                             *)

\* SirenTask sleeps from the colors to the end of start-up, so the first resume
\* is not lost; an alarm, once set, finds it awake.
Awake ==
    /\ stage \in {"sensors", "beep", "gap", "signal"} => siren = "suspended"
    /\ stage = "up" => siren \in Resuming \cup {"suspended"}
    /\ stage # "up" => sirenAction = "ALARM_OFF"
    /\ sirenAction = "ALARM_ERROR" => siren \in Resuming
    /\ battery = "alarm" => counter > 0
    /\ battery # "none" /\ counter > 0 /\ level = "low" => siren \in Resuming
    /\ battery = "none" => counter = 0

AlarmInv == Awake /\ AlarmFollowsBattery

\* Before start-up SirenTask does not exist.
LEMMA AlarmInitInv == Init => AlarmInv
  BY DEF Init, AlarmInv, Awake, AlarmFollowsBattery, Resuming

\* The main task resumes SirenTask for a fault when it surely sleeps.
LEMMA MainAlarm ==
  ASSUME SirenInv, AlarmInv, MainStep \/ SensorsInit
  PROVE  AlarmInv'
  <1> USE DEF AlarmInv, Awake, AlarmFollowsBattery, AlarmFor, Resuming
  <1>1. stage # "up" => battery = "none"
    BY DEF SirenInv, SilentDuringBoot
  <1>2. CASE InterfaceInit
    BY <1>1, <1>2 DEF InterfaceInit, batteryVars
  <1>3. CASE ColorsShown
    <2>1. siren = "suspended"
      BY <1>3 DEF ColorsShown, DelayEnds, SirenReady, SirenInv, SilentDuringBoot
    <2> QED BY <1>1, <1>3, <2>1 DEF ColorsShown, sirenVars, batteryVars
  <1>4. CASE SensorsInit
    <2>1. stage = "sensors" /\ stage' \in {"beep", "signal"}
      BY <1>4 DEF SensorsInit
    <2>2. UNCHANGED <<sirenAction, sirenVars, batteryVars>>
      BY <1>4 DEF SensorsInit
    <2> QED BY <1>1, <2>1, <2>2 DEF sirenVars, batteryVars
  <1>5. CASE MainBeepEnds \/ MainBeepNext
    <2>1. stage \in {"beep", "gap"} /\ stage' \in {"beep", "gap", "up"}
      BY <1>5 DEF MainBeepEnds, MainBeepNext
    <2>2. UNCHANGED <<sirenAction, sirenVars, batteryVars>>
      BY <1>5 DEF MainBeepEnds, MainBeepNext
    <2> QED BY <1>1, <2>1, <2>2 DEF sirenVars, batteryVars
  <1>6. CASE SignalFaults
    BY <1>1, <1>6 DEF SignalFaults, Resumed, batteryVars
  <1>7. CASE CreateBatteryTask \/ CreateLowTask
    <2>1. /\ stage = "up" /\ stage' = "up"
          /\ UNCHANGED <<sirenAction, sirenVars, level, counter>>
      BY <1>7 DEF CreateBatteryTask, CreateLowTask, BootDone, bootVars, batteryVars
    <2>2. \/ battery = "none" /\ battery' = "delay"
          \/ battery' = battery
      BY <1>7 DEF CreateBatteryTask, CreateLowTask, batteryVars
    <2>3. counter \in Nat
      BY SirenAssumption DEF SirenInv, TypeOK
    <2> QED BY <2>1, <2>2, <2>3 DEF sirenVars
  <1> QED BY <1>2, <1>3, <1>4, <1>5, <1>6, <1>7 DEF MainStep

\* SirenTask never goes back to sleep.
LEMMA SirenAlarm ==
  ASSUME SirenInv, AlarmInv, SirenStep
  PROVE  AlarmInv'
  <1>1. UNCHANGED <<bootVars, sirenAction, batteryVars>>
    BY DEF SirenStep, SirenSuspends, SirenSwitch, SirenBeepEnds, SirenBeepNext, SirenWakes
  <1>2. \/ siren = "created" /\ siren' = "suspended"
        \/ siren \in Resuming /\ siren' \in Resuming
    BY DEF SirenStep, SirenSuspends, SirenSwitch, SirenBeepEnds, SirenBeepNext, SirenWakes,
           Resuming
  <1> QED
    BY <1>1, <1>2
       DEF AlarmInv, Awake, AlarmFollowsBattery, AlarmFor, Resuming, bootVars, batteryVars

\* A pass of BatteryTask resumes SirenTask when the level is low, then sets the
\* alarm of that level.
LEMMA BatteryAlarm ==
  ASSUME SirenInv, AlarmInv, BatteryStep
  PROVE  AlarmInv'
  <1>1. stage = "up" /\ siren \in Resuming \cup {"suspended"}
    BY DEF BatteryStep, BatteryMeasures, BatterySetsAlarm, SirenInv, SilentDuringBoot,
           AlarmInv, Awake
  <1>2. CASE BatteryMeasures
    <2>1. /\ battery' = "alarm" /\ siren' = SirenIfLow
          /\ stage' = stage /\ sirenAction' = sirenAction
      BY <1>2 DEF BatteryMeasures, bootVars
    <2>2. counter' > 0
      BY <1>2, SirenAssumption
         DEF BatteryMeasures, BatteryWarmsUp, BatteryAverages, WarmingUp, SirenInv, TypeOK
    <2>3. siren \in Resuming => siren' \in Resuming
      BY <2>1 DEF SirenIfLow, Resumed, Resuming
    <2>4. siren' \in Resuming \cup {"suspended"}
      BY <1>1, <2>1 DEF SirenIfLow, Resumed, Resuming
    <2>5. level' = "low" => siren' \in Resuming
      BY <1>1, <2>1 DEF SirenIfLow, Resumed, Resuming
    <2> QED
      BY <1>1, <2>1, <2>2, <2>3, <2>4, <2>5 DEF AlarmInv, Awake, AlarmFollowsBattery
  <1>3. CASE BatterySetsAlarm
    <2>1. /\ battery = "alarm" /\ battery' = "delay" /\ sirenAction' = AlarmFor
          /\ UNCHANGED <<bootVars, sirenVars, level, counter>>
      BY <1>3 DEF BatterySetsAlarm
    <2>2. stage' = "up" /\ siren' = siren /\ counter > 0
      BY <1>1, <2>1 DEF bootVars, sirenVars, AlarmInv, Awake
    <2>3. sirenAction' # "ALARM_ERROR" /\ AlarmFor' = AlarmFor
      BY <2>1 DEF AlarmFor
    <2> QED
      BY <1>1, <2>1, <2>2, <2>3 DEF AlarmInv, Awake, AlarmFollowsBattery
  <1> QED BY <1>2, <1>3 DEF BatteryStep

\* The invariant of the alarms is inductive, given the one before it.
LEMMA AlarmNextInv == SirenInv /\ AlarmInv /\ [Next]_vars => AlarmInv'
  <1> SUFFICES ASSUME SirenInv, AlarmInv, [Next]_vars PROVE AlarmInv'
    OBVIOUS
  <1>1. CASE MainStep \/ SensorsInit
    BY <1>1, MainAlarm
  <1>2. CASE SirenStep
    BY <1>2, SirenAlarm
  <1>3. CASE BatteryStep
    BY <1>3, BatteryAlarm
  <1>4. CASE SetRGB \/ UNCHANGED vars
    BY <1>4
       DEF SetRGB, vars, bootVars, sirenVars, batteryVars, AlarmInv, Awake,
           AlarmFollowsBattery, AlarmFor
  <1> QED BY <1>1, <1>2, <1>3, <1>4 DEF Next

-----------------------------------------------------------------------------
(* GPSTask.                                                                *)

\* A deadline clear of the wrap is Rate after the end of the last copy, on the
\* clock as it is (InPhase) or on the clock as it will be after its wrap
\* (AheadOfWrap); the first pass of the boot has the deadline 0 and any clock
\* (AtBoot).
InPhase ==
    /\ clock <= nextSerialTaskTs
    /\ nextSerialTaskTs + age <= clock + Rate + Gps!MaxCopy
AheadOfWrap == age <= Gps!MaxCopy /\ clock + Rate = nextSerialTaskTs + Wrap
AtBoot == nextSerialTaskTs = 0 /\ (age = 0 \/ clock = 0)

GpsInv ==
    /\ Gps!TypeOK
    /\ ~Gps!DeadlineAtWrap => age <= Rate + Gps!MaxCopy /\ (InPhase \/ AheadOfWrap \/ AtBoot)

\* What GpsConstants says of the constants, as numbers.
LEMMA GpsNumbers ==
    /\ Wrap \in Nat /\ Rate \in Nat /\ Gps!MaxPass \in Nat /\ Gps!MaxCopy \in Nat
    /\ \A d \in PassTimes : d \in Nat /\ 0 < d /\ d <= Gps!MaxPass /\ d <= Rate
    /\ \A c \in CopyTimes : c \in Nat /\ c <= Gps!MaxCopy
    /\ Rate + Gps!MaxCopy + Gps!MaxPass < Wrap /\ 0 < Wrap
  BY PionTasksAssumption DEF Gps!GpsConstants

\* Addition on an unsigned counter.
LEMMA WrappedSum ==
  ASSUME NEW a \in Nat, NEW b \in Nat, a < Wrap, b < Wrap
  PROVE  /\ (a + b) % Wrap \in 0..(Wrap - 1)
         /\ a + b < Wrap => (a + b) % Wrap = a + b
         /\ a + b >= Wrap => (a + b) % Wrap = a + b - Wrap
  <1> USE GpsNumbers
  <1> QED OBVIOUS

\* GPSTask starts with the invariant, at any value of millis().
LEMMA GpsInitInv == Gps!Init => GpsInv
  BY GpsNumbers DEF Gps!Init, GpsInv, Gps!TypeOK, Gps!AgeCap, AtBoot

\* The position is copied.
LEMMA GpsPublishInv ==
  ASSUME GpsInv, NEW d \in PassTimes, NEW c \in CopyTimes, Gps!Publish(d, c)
  PROVE  GpsInv'
  <1> USE GpsNumbers
  <1> DEFINE now == (clock + (d + c)) % Wrap
  <1>1. clock' = now /\ nextSerialTaskTs' = (now + Rate) % Wrap /\ age' = c
    BY DEF Gps!Publish, Gps!After, Gps!Deadline
  <1>2. clock \in Nat /\ clock < Wrap
    BY DEF GpsInv, Gps!TypeOK
  <1>3. now \in 0..(Wrap - 1)
    BY <1>2, WrappedSum
  <1> HIDE DEF now
  <1>4. /\ (now + Rate) % Wrap \in 0..(Wrap - 1)
        /\ now + Rate < Wrap => (now + Rate) % Wrap = now + Rate
        /\ now + Rate >= Wrap => (now + Rate) % Wrap = now + Rate - Wrap
    BY <1>3, WrappedSum
  <1>5. Gps!TypeOK'
    BY <1>1, <1>3, <1>4 DEF Gps!TypeOK, Gps!AgeCap
  <1>6. InPhase' \/ AheadOfWrap'
    BY <1>1, <1>3, <1>4 DEF InPhase, AheadOfWrap
  <1> QED BY <1>1, <1>5, <1>6 DEF GpsInv

\* It is not: then the deadline has not come, and the clock has either stayed
\* below it or wrapped to below it.
LEMMA GpsSkipInv ==
  ASSUME GpsInv, NEW d \in PassTimes, Gps!Skip(d)
  PROVE  GpsInv'
  <1> USE GpsNumbers
  <1> DEFINE now == (clock + d) % Wrap
  <1>1. /\ clock' = now /\ nextSerialTaskTs' = nextSerialTaskTs
        /\ age' = IF age + d < Wrap THEN age + d ELSE Wrap
        /\ ~(nextSerialTaskTs < now)
    BY DEF Gps!Skip, Gps!After, Gps!DeadlinePassed, Gps!AgeCap
  <1>2. /\ clock \in Nat /\ clock < Wrap /\ age \in Nat /\ age <= Wrap
        /\ nextSerialTaskTs \in Nat /\ nextSerialTaskTs < Wrap
    BY DEF GpsInv, Gps!TypeOK, Gps!AgeCap
  <1>3. /\ now \in 0..(Wrap - 1)
        /\ clock + d < Wrap => now = clock + d
        /\ clock + d >= Wrap => now = clock + d - Wrap
    BY <1>2, WrappedSum
  <1> HIDE DEF now
  <1>4. Gps!TypeOK'
    BY <1>1, <1>2, <1>3 DEF Gps!TypeOK, Gps!AgeCap
  <1>5. ASSUME ~Gps!DeadlineAtWrap'
        PROVE  age' <= Rate + Gps!MaxCopy /\ (InPhase' \/ AtBoot')
    <2>1. nextSerialTaskTs + Gps!MaxPass < Wrap
      BY <1>1, <1>2, <1>5 DEF Gps!DeadlineAtWrap
    <2>2. age <= Rate + Gps!MaxCopy /\ (InPhase \/ AheadOfWrap \/ AtBoot)
      BY <2>1, <1>2 DEF GpsInv, Gps!DeadlineAtWrap
    <2>3. CASE InPhase
      <3>1. clock + d < Wrap
        BY <2>1, <2>2, <2>3, <1>2 DEF InPhase
      <3> QED BY <3>1, <2>3, <1>1, <1>2, <1>3 DEF InPhase
    <2>4. CASE AheadOfWrap
      <3>1. nextSerialTaskTs < clock
        BY <2>4, <1>2 DEF AheadOfWrap
      <3>2. now = clock + d - Wrap
        BY <3>1, <1>1, <1>2, <1>3
      <3>3. now <= nextSerialTaskTs /\ nextSerialTaskTs + (age + d) <= now + Rate + Gps!MaxCopy
        BY <3>2, <2>4, <1>2 DEF AheadOfWrap
      <3>4. age' = age + d /\ age' <= Rate + Gps!MaxCopy
        BY <2>4, <1>1, <1>2 DEF AheadOfWrap
      <3> QED BY <3>3, <3>4, <1>1 DEF InPhase
    <2>5. CASE AtBoot
      BY <2>5, <1>1, <1>2, <1>3 DEF AtBoot
    <2> QED BY <2>2, <2>3, <2>4, <2>5
  <1> QED BY <1>4, <1>5 DEF GpsInv

\* Every pass of GPSTask keeps it.
LEMMA GpsNextInv ==
  GpsInv /\ (Gps!Next \/ UNCHANGED <<clock, nextSerialTaskTs, age>>) => GpsInv'
  <1>1. GpsInv /\ Gps!Next => GpsInv'
    BY GpsPublishInv, GpsSkipInv DEF Gps!Next
  <1>2. ASSUME GpsInv, UNCHANGED <<clock, nextSerialTaskTs, age>> PROVE GpsInv'
    BY <1>2 DEF GpsInv, Gps!TypeOK, Gps!DeadlineAtWrap, InPhase, AheadOfWrap, AtBoot
  <1> QED BY <1>1, <1>2

-----------------------------------------------------------------------------
(* The theorems.                                                           *)

\* In every behaviour every state satisfies both invariants.
THEOREM TasksInvariance == TasksSpec => [](SirenInv /\ GpsInv)
  <1>1. TasksInit => SirenInv /\ GpsInv
    BY SirenInitInv, GpsInitInv DEF TasksInit
  <1>2. SirenInv /\ GpsInv /\ [TasksNext]_allVars => (SirenInv /\ GpsInv)'
    <2> SUFFICES ASSUME SirenInv, GpsInv, [TasksNext]_allVars
                 PROVE  SirenInv' /\ GpsInv'
      OBVIOUS
    <2>1. [Next]_vars
      BY DEF TasksNext, allVars
    <2>2. Gps!Next \/ UNCHANGED <<clock, nextSerialTaskTs, age>>
      BY DEF TasksNext, allVars
    <2> QED BY <2>1, <2>2, SirenNextInv, GpsNextInv
  <1> QED BY <1>1, <1>2, PTL DEF TasksSpec

\* The variables of the tasks keep their types, for any cache and any clock.
THEOREM TasksTypeCorrect == TasksSpec => []TasksTypeOK
  <1>1. SirenInv /\ GpsInv => TasksTypeOK
    BY DEF SirenInv, GpsInv, TasksTypeOK
  <1> QED BY <1>1, TasksInvariance, PTL

\* The buzzer has one user at a time although doBeeps takes no lock: SirenTask
\* cannot be resumed before the main task has made its beeps.
THEOREM OneBuzzerUser == TasksSpec => []BuzzerShared
  <1>1. SirenInv => BuzzerShared
    BY DEF SirenInv, SilentDuringBoot, BuzzerShared
  <1> QED BY <1>1, TasksInvariance, PTL

\* The colors of vLowTask never change what the error LEDs show.
THEOREM FaultsStayShown == TasksSpec => []FaultsShown
  <1>1. SirenInv => FaultsShown
    BY DEF SirenInv
  <1> QED BY <1>1, TasksInvariance, PTL

\* For any rate, cycle of millis() and length of a pass, the position is older
\* than the rate only if its deadline fell in the last pass before the wrap.
THEOREM PositionStaysFresh == TasksSpec => []PositionFresh
  <1>1. GpsInv => PositionFresh
    BY GpsNumbers DEF GpsInv, Gps!TypeOK, Gps!AgeCap, PositionFresh, Gps!PositionFresh
  <1> QED BY <1>1, TasksInvariance, PTL

\* With a cache of any length, the first average shown is one of measurements.
THEOREM AveragesAreOfMeasurements == TasksSpec => AveragesMeasurements
  <1>1. SirenInv /\ [TasksNext]_allVars
          => [BatteryAverages => \A i \in 1..Samples : cache'[i] \in Volts]_vars
    <2> SUFFICES ASSUME SirenInv, BatteryAverages
                 PROVE  \A i \in 1..Samples : cache'[i] \in Volts
      OBVIOUS
    <2>1. PICK v \in Volts : counter = Samples /\ cache' = Shifted(v)
      BY DEF BatteryAverages
    <2>2. \A i \in 1..Samples : i > Samples - counter - 1
      BY <2>1, SirenAssumption
    <2> QED BY <2>1, <2>2, ShiftedCache DEF SirenInv
  <1> QED BY <1>1, TasksInvariance, PTL DEF TasksSpec, AveragesMeasurements

\* In every behaviour the alarms satisfy their invariant.
LEMMA AlarmsInvariance == TasksSpec => []AlarmInv
  <1>1. TasksInit => AlarmInv
    BY AlarmInitInv DEF TasksInit
  <1>2. SirenInv /\ AlarmInv /\ [TasksNext]_allVars => AlarmInv'
    <2>1. [TasksNext]_allVars => [Next]_vars
      BY DEF TasksNext, allVars
    <2> QED BY <2>1, AlarmNextInv
  <1> QED BY <1>1, <1>2, TasksInvariance, PTL DEF TasksSpec

\* Between two passes of BatteryTask the alarm is the one of the last level,
\* and a low level never finds SirenTask asleep.
THEOREM AlarmFollowsLevel == TasksSpec => []AlarmFollowsBattery
  <1>1. AlarmInv => AlarmFollowsBattery
    BY DEF AlarmInv
  <1> QED BY <1>1, AlarmsInvariance, PTL

\* BatteryTask starts no pass that overwrites ALARM_ERROR before SirenTask has
\* begun the beeps of the error.
THEOREM ErrorIsBegunFirst == TasksSpec => ErrorNotOverwrittenUnheard
  <1>1. AlarmInv /\ [TasksNext]_allVars
          => [BatteryMeasures /\ sirenAction = "ALARM_ERROR"
                => siren \in Resuming \ {"switch"}]_vars
    BY DEF AlarmInv, Awake, BatteryMeasures, DelayEnds, SirenReady
  <1> QED BY <1>1, AlarmsInvariance, PTL DEF TasksSpec, ErrorNotOverwrittenUnheard

=============================================================================
