------------------------------ MODULE PionTasks -----------------------------
(***************************************************************************)
(* The tasks of the PION library beside the bus: Siren, and GPSTask, which *)
(* Sensors::init creates only when it found every sensor.                  *)
(***************************************************************************)
EXTENDS Siren

CONSTANTS Wrap, Rate, PassTimes, CopyTimes   \* see GpsTask

VARIABLES clock, nextSerialTaskTs, age

allVars == <<vars, clock, nextSerialTaskTs, age>>

Gps == INSTANCE GpsTask

ASSUME PionTasksAssumption == Gps!GpsConstants

\* Sensors::init returned INIT_OK.
GpsCreated == stage \in {"beep", "gap", "up"} /\ faulty = {}

TasksInit == Init /\ Gps!Init

TasksNext ==
    \/ Next /\ UNCHANGED <<clock, nextSerialTaskTs, age>>
    \/ GpsCreated /\ Gps!Next /\ UNCHANGED vars

TasksSpec == TasksInit /\ [][TasksNext]_allVars /\ Fairness

TasksTypeOK == TypeOK /\ Gps!TypeOK

\* No pass of GPSTask leaves a position behind that is older than the rate and
\* one copy, also across the wrap of millis(), unless a deadline fell in the last
\* pass before the wrap.
PositionFresh == Gps!PositionFresh

=============================================================================
