------------------------------- MODULE Siren --------------------------------
(***************************************************************************)
(* What the satellite says of itself without a radio: the beeps and LEDs   *)
(* of System::initNoNetwork, SirenTask, and BatteryTask, which shares      *)
(* sirenAction and the buzzer with them and takes no lock; vLowTask, which *)
(* shares the port expander with the LEDs.                                 *)
(*                                                                         *)
(* SirenTask, BatteryTask and the main task have the same priority.  Time  *)
(* is left out but for one thing: once SirenTask is ready it runs before   *)
(* a delay of the two others (50 ms at least) ends.                        *)
(*                                                                         *)
(* Voltages are integers.  toggleSiren, toggleLed and toggleRGB have no    *)
(* caller in the tasks that initNoNetwork starts: ALARM_SIREN is never set *)
(* and LedTask finds its flags FALSE for ever.                             *)
(***************************************************************************)
EXTENDS Naturals

CONSTANTS
    Faults,       \* sets of sensors that Sensors::init may find faulty
    Volts,        \* what the battery pin may show
    VMin, VMax,   \* 3.5 and 4.15 V, between which mapfloat is defined
    VLow,         \* the voltage of 15 %
    Samples       \* the length of batteryCache, 50

Sensors == {"BMP280", "SHT20", "MPU9250", "CCS811"}

ASSUME SirenAssumption ==
    /\ Faults \subseteq SUBSET Sensors
    /\ {VMin, VLow, VMax} \subseteq Nat /\ Volts \subseteq Nat \ {0}
    /\ Samples \in Nat \ {0}

VARIABLES
    stage,         \* where the main task is in initNoNetwork
    faulty,        \* status
    pins,          \* the outputs of the MCP23017 that are on
    mainLeft,      \* beeps the main task has still to make
    buzzer,        \* the pin
    sirenAction,
    siren,         \* SirenTask: its state, and where its delays are
    sirenLeft,     \* beeps SirenTask has still to make
    battery,       \* BatteryTask: not created, delayed, about to set the alarm
    level,         \* System::battery: "low" is <= 15 %
    cache,         \* batteryCache
    counter,
    rgb            \* vLowTask: not created, or the next color

vars == <<stage, faulty, pins, mainLeft, buzzer, sirenAction, siren, sirenLeft,
          battery, level, cache, counter, rgb>>
bootVars == <<stage, faulty, mainLeft>>
sirenVars == <<siren, sirenLeft>>
batteryVars == <<battery, level, cache, counter>>

Colors == {"RED", "GREEN", "BLUE"}

\* doBeeps(times, ...): BMP280 and the others are one LED each.
Beeps == [ALARM_OFF |-> 0, ALARM_ERROR |-> 5, ALARM_LOW_BATTERY |-> 3]
MainBeeps == 2

\* 0 stands for the initial values of batteryCache.
TypeOK ==
    /\ stage \in {"interface", "colors", "sensors", "beep", "gap", "signal", "up"}
    /\ faulty \in Faults \cup {{}}
    /\ pins \subseteq Sensors \cup Colors
    /\ mainLeft \in 0..MainBeeps
    /\ buzzer \in {"LOW", "HIGH"}
    /\ sirenAction \in DOMAIN Beeps
    /\ siren \in {"none", "created", "suspended", "switch", "on", "off", "pause"}
    /\ sirenLeft \in 0..5
    /\ battery \in {"none", "delay", "alarm"}
    /\ level \in {"low", "ok"}
    /\ cache \in [1..Samples -> Volts \cup {0}]
    /\ counter \in 0..Samples
    /\ rgb \in {"none"} \cup Colors

Init ==
    /\ stage = "interface" /\ faulty = {} /\ mainLeft = 0
    /\ pins \in {{}, Sensors}
    /\ buzzer = "LOW"
    /\ sirenAction = "ALARM_OFF"
    /\ siren = "none" /\ sirenLeft = 0
    /\ battery = "none" /\ level = "low"
    /\ cache = [i \in 1..Samples |-> 0] /\ counter = 0
    /\ rgb = "none"

\* SirenTask can run: no delay ends before it has.
SirenReady == siren \in {"created", "switch"}

\* vTaskResume(sirenTask): nothing happens to a task that is not suspended.
Resumed == IF siren = "suspended" THEN "switch" ELSE siren

-----------------------------------------------------------------------------
(* System::initNoNetwork, the main task.                                   *)

\* Interface::init: SirenTask is created, all pins are switched off, and the
\* colors are shown one after the other.
InterfaceInit ==
    /\ stage = "interface"
    /\ siren' = "created"
    /\ pins' = {}
    /\ stage' = "colors"
    /\ UNCHANGED <<faulty, mainLeft, buzzer, sirenAction, sirenLeft, batteryVars, rgb>>

\* Mutant: nothing waits.
NoDelay == TRUE

\* A vTaskDelay of the main task or of BatteryTask ends.
DelayEnds == ~SirenReady

\* vTaskDelay(200) after each of the four colors.
ColorsShown ==
    /\ stage = "colors"
    /\ DelayEnds
    /\ stage' = "sensors"
    /\ UNCHANGED <<faulty, mainLeft, pins, buzzer, sirenAction, sirenVars, batteryVars, rgb>>

\* Sensors::init returns.  It waits without limit for a CCS811 that answered
\* once: nothing says that this step is ever taken.
SensorsInit ==
    /\ stage = "sensors"
    /\ faulty' \in Faults \cup {{}}
    /\ IF faulty' = {}
       THEN stage' = "beep" /\ mainLeft' = MainBeeps /\ buzzer' = "HIGH"
       ELSE stage' = "signal" /\ UNCHANGED <<mainLeft, buzzer>>
    /\ UNCHANGED <<pins, sirenAction, sirenVars, batteryVars, rgb>>

\* doBeeps(2, 50, 100) of the main task.
MainBeepEnds ==
    /\ stage = "beep"
    /\ DelayEnds
    /\ buzzer' = "LOW"
    /\ mainLeft' = mainLeft - 1
    /\ stage' = "gap"
    /\ UNCHANGED <<faulty, pins, sirenAction, sirenVars, batteryVars, rgb>>

MainBeepNext ==
    /\ stage = "gap"
    /\ DelayEnds
    /\ IF mainLeft > 0
       THEN stage' = "beep" /\ buzzer' = "HIGH"
       ELSE stage' = "up" /\ UNCHANGED buzzer
    /\ UNCHANGED <<faulty, mainLeft, pins, sirenAction, sirenVars, batteryVars, rgb>>

\* setLed for each bit of status, then the alarm.
SignalFaults ==
    /\ stage = "signal"
    /\ pins' = pins \cup faulty
    /\ sirenAction' = "ALARM_ERROR"
    /\ siren' = Resumed
    /\ stage' = "up"
    /\ UNCHANGED <<faulty, mainLeft, buzzer, sirenLeft, batteryVars, rgb>>

\* Mutant: BatteryTask is created while the main task beeps.
CreatedEarly == stage \in {"beep", "up"}

BootDone == stage = "up"

\* xTaskCreatePinnedToCore(BatteryTask, ...), the end of initNoNetwork.
CreateBatteryTask ==
    /\ BootDone
    /\ battery = "none"
    /\ battery' = "delay"
    /\ UNCHANGED <<bootVars, pins, buzzer, sirenAction, sirenVars, level, cache, counter, rgb>>

\* Tasks::configuraTasks, later: vLowTask.
CreateLowTask ==
    /\ stage = "up" /\ battery # "none"
    /\ rgb = "none"
    /\ rgb' = "BLUE"
    /\ UNCHANGED <<bootVars, pins, buzzer, sirenAction, sirenVars, batteryVars>>

MainStep == InterfaceInit \/ ColorsShown \/ MainBeepEnds \/ MainBeepNext
            \/ SignalFaults \/ CreateBatteryTask \/ CreateLowTask

-----------------------------------------------------------------------------
(* SirenTask.                                                              *)

\* vTaskSuspend(NULL).
SirenSuspends ==
    /\ siren = "created"
    /\ siren' = "suspended"
    /\ UNCHANGED <<bootVars, pins, buzzer, sirenAction, sirenLeft, batteryVars, rgb>>

\* switch (Interface::sirenAction): beeps, or only vTaskDelay(1000).
SirenSwitch ==
    /\ siren = "switch"
    /\ sirenLeft' = Beeps[sirenAction]
    /\ IF sirenLeft' > 0
       THEN siren' = "on" /\ buzzer' = "HIGH"
       ELSE siren' = "pause" /\ UNCHANGED buzzer
    /\ UNCHANGED <<bootVars, pins, sirenAction, batteryVars, rgb>>

\* The delay of a beep ends.
SirenBeepEnds ==
    /\ siren = "on"
    /\ buzzer' = "LOW"
    /\ sirenLeft' = sirenLeft - 1
    /\ siren' = "off"
    /\ UNCHANGED <<bootVars, pins, sirenAction, batteryVars, rgb>>

\* The delay after a beep ends: the next one, or vTaskDelay(1000).
SirenBeepNext ==
    /\ siren = "off"
    /\ IF sirenLeft > 0
       THEN siren' = "on" /\ buzzer' = "HIGH"
       ELSE siren' = "pause" /\ UNCHANGED buzzer
    /\ UNCHANGED <<bootVars, pins, sirenAction, sirenLeft, batteryVars, rgb>>

\* vTaskDelay(1000) ends.
SirenWakes ==
    /\ siren = "pause"
    /\ siren' = "switch"
    /\ UNCHANGED <<bootVars, pins, buzzer, sirenAction, sirenLeft, batteryVars, rgb>>

SirenStep == SirenSuspends \/ SirenSwitch \/ SirenBeepEnds \/ SirenBeepNext \/ SirenWakes

-----------------------------------------------------------------------------
(* BatteryTask.                                                            *)

\* mapfloat, compared with 15.  It converts a float to uint8_t, which is only
\* defined between -1 and 256: other voltages may show any percentage.
Levels(sum, n) ==
    IF sum < n * VMin \/ sum > n * VMax THEN {"low", "ok"}
    ELSE IF sum <= n * VLow THEN {"low"} ELSE {"ok"}

\* Mutant: the readings of the first passes are not kept.
NotShifted(v) == cache

\* calculateMovingAvg: the oldest sample leaves the cache.
Shifted(v) == [i \in 1..Samples |-> IF i < Samples THEN cache[i + 1] ELSE v]

Total(c) ==
    LET Sum[i \in 0..Samples] == IF i = 0 THEN 0 ELSE Sum[i - 1] + c[i]
    IN  Sum[Samples]

WarmingUp == counter < Samples

\* The first passes fill the cache and show one reading, taken separately.
BatteryWarmsUp ==
    /\ WarmingUp
    /\ \E v \in Volts : cache' = Shifted(v)
    /\ \E v \in Volts : level' \in Levels(v, 1)
    /\ counter' = counter + 1

\* The later ones show the average.
BatteryAverages ==
    /\ counter = Samples
    /\ \E v \in Volts : cache' = Shifted(v)
    /\ level' \in Levels(Total(cache'), Samples)
    /\ UNCHANGED counter

\* Mutant: the siren is not resumed.
NotResumed == siren

\* if (System::battery <= 15) vTaskResume(interface.sirenTask).
SirenIfLow == IF level' = "low" THEN Resumed ELSE siren

\* A pass of BatteryTask up to the resume...
BatteryMeasures ==
    /\ battery = "delay"
    /\ DelayEnds
    /\ BatteryWarmsUp \/ BatteryAverages
    /\ siren' = SirenIfLow
    /\ battery' = "alarm"
    /\ UNCHANGED <<bootVars, pins, buzzer, sirenAction, sirenLeft, rgb>>

\* Mutant: the alarm stays until somebody switches it off.
AlarmKept == IF level = "low" THEN "ALARM_LOW_BATTERY" ELSE sirenAction

\* sirenAction is never ALARM_SIREN here.
AlarmFor == IF level = "low" THEN "ALARM_LOW_BATTERY" ELSE "ALARM_OFF"

\* ... and the alarm it sets after it.
BatterySetsAlarm ==
    /\ battery = "alarm"
    /\ sirenAction' = AlarmFor
    /\ battery' = "delay"
    /\ UNCHANGED <<bootVars, pins, buzzer, sirenVars, level, cache, counter, rgb>>

BatteryStep == BatteryMeasures \/ BatterySetsAlarm

-----------------------------------------------------------------------------
(* vLowTask.                                                               *)

\* Mutant: the mask takes the LED of pin 14 along.
OtherPinsBut14 == pins \ (Colors \cup {"CCS811"})

\* mcp.read() & ~(_BV(2) | ... | _BV(13)): the pins of the four LEDs stay.
OtherPins == pins \ Colors

\* setRGB with the bus mutex; without it (a timeout) nothing is written.
SetRGB ==
    /\ rgb # "none"
    /\ pins' \in {OtherPins \cup {rgb}, pins}
    /\ rgb' = CASE rgb = "BLUE" -> "RED" [] rgb = "RED" -> "GREEN" [] rgb = "GREEN" -> "BLUE"
    /\ UNCHANGED <<bootVars, buzzer, sirenAction, sirenVars, batteryVars>>

-----------------------------------------------------------------------------

Next == MainStep \/ SensorsInit \/ SirenStep \/ BatteryStep \/ SetRGB

Spec == Init /\ [][Next]_vars

\* FreeRTOS gives every ready task its share, and delays end.
Fairness == WF_vars(MainStep) /\ SF_vars(SirenStep) /\ SF_vars(BatteryStep)

FairSpec == Spec /\ Fairness

-----------------------------------------------------------------------------
(* Properties.                                                             *)

\* One task at a time drives the buzzer, although doBeeps takes no lock: the
\* beeps of start-up are over before anything can resume SirenTask.
BuzzerShared ==
    stage \in {"beep", "gap"} => siren \notin {"switch", "on", "off"}

\* "if it's false present the user through the LEDs which sensor is faulty":
\* from the end of start-up the four LEDs show exactly the faulty sensors,
\* whatever vLowTask writes to the same register.
FaultsShown ==
    stage = "up" => pins \cap Sensors = faulty

\* A faulty sensor is also heard: BatteryTask overwrites ALARM_ERROR in its
\* first pass, but not before SirenTask has begun its five beeps.
ErrorHeard ==
    stage = "signal" ~> sirenLeft = Beeps["ALARM_ERROR"]

\* What SirenTask can be in once something has resumed it.
Resuming == {"switch", "on", "off", "pause"}

\* ... because, whenever BatteryTask starts the pass that will overwrite the
\* error, SirenTask has left the switch that found it.
ErrorNotOverwrittenUnheard ==
    [][BatteryMeasures /\ sirenAction = "ALARM_ERROR" => siren \in Resuming \ {"switch"}]_vars

\* Between two passes of BatteryTask the alarm is the one of the last level,
\* and a low level never finds SirenTask asleep, although the siren is resumed
\* before its action is set and start-up uses both for its own alarm.
AlarmFollowsBattery ==
    battery = "delay" /\ counter > 0 =>
        /\ sirenAction = AlarmFor
        /\ level = "low" => siren \in Resuming

\* An average is one of measurements: the zeros the cache starts with have
\* left it when the first average is shown.
AveragesMeasurements ==
    [][BatteryAverages => \A i \in 1..Samples : cache'[i] \in Volts]_vars

\* A battery that stays low (and not so low that mapfloat is undefined) is
\* heard again and again, through the moving average and past every alarm.
LowBatteryHeard ==
    <>[](cache[Samples] \in VMin..VLow) => []<>(siren = "on")

\* A battery that stays charged leaves the satellite silent, although nothing
\* ever suspends SirenTask again.
ChargedBatterySilent ==
    <>[](cache[Samples] \in (VLow + 1)..VMax) => <>[](buzzer = "LOW")

=============================================================================
