----------------------------- MODULE Telemetry ------------------------------
(***************************************************************************)
(* From the sensors to a packet.  The sensor tasks publish what they       *)
(* measure in static members of Sensors, one member after the other and    *)
(* without a lock; obtemJSON reads them with 200 ms between two readings,  *)
(* the axes of a vector included, builds the packet from what it read, and *)
(* logOnSDFile then reads the members again for its row.                   *)
(*                                                                         *)
(* A measurement is its number: 0 is the initial value of the member, n    *)
(* the n-th measurement of its task.  The orientation of the packet is     *)
(* never initialised and its timestamp is external; no property is about   *)
(* them.                                                                   *)
(***************************************************************************)
EXTENDS Naturals, Sequences

CONSTANTS
    Tasks,         \* the sensor tasks that measure; the others stay silent
    SensorFaults,  \* sets of sensors that may fail in Sensors::init
    MaxSamples     \* bound on the measurements of a task

\* What a task publishes, in the order of its assignments.
Publishes ==
    [IMUTask |-> <<"accel0", "accel1", "accel2", "gyro0", "gyro1", "gyro2",
                   "mag0", "mag1", "mag2">>,
     BaroTask |-> <<"pressure", "BMPtemp">>,
     TempHumTask |-> <<"humidity">>,
     CO2Task |-> <<"CO2Level">>,
     AnalogTask |-> <<"luminosity">>,
     GPSTask |-> <<"gps0", "gps1", "gps2">>,
     BatteryTask |-> <<"battery">>]

SensorTasks == DOMAIN Publishes

\* The members; every axis of a vector is one.
Channels ==
    {"accel0", "accel1", "accel2", "gyro0", "gyro1", "gyro2", "mag0", "mag1",
     "mag2", "pressure", "BMPtemp", "humidity", "CO2Level", "luminosity",
     "gps0", "gps1", "gps2", "battery"}

ASSUME TelemetryAssumption ==
    /\ Tasks \subseteq SensorTasks
    /\ MaxSamples \in Nat

\* The readings of obtemJSON.
ReadOrder ==
    <<"accel0", "accel1", "accel2", "gyro0", "gyro1", "gyro2", "battery",
      "BMPtemp", "humidity", "pressure", "CO2Level", "luminosity", "mag0",
      "mag1", "mag2", "gps0", "gps1", "gps2">>

\* The columns of appendFile.
RowOrder ==
    <<"BMPtemp", "humidity", "pressure", "CO2Level", "luminosity", "accel0",
      "accel1", "accel2", "gyro0", "gyro1", "gyro2", "mag0", "mag1", "mag2",
      "gps0", "gps1", "gps2", "battery">>

\* The channels of the packet; the other readings of obtemJSON are dropped.
PacketFields == Channels \ {"humidity", "CO2Level", "luminosity"}

\* The member a getter of System returns: getMagnetometer returns gyro[axis].
MagnetometerReturns == [mag0 |-> "gyro0", mag1 |-> "gyro1", mag2 |-> "gyro2"]
Getter(field) ==
    IF field \in DOMAIN MagnetometerReturns THEN MagnetometerReturns[field] ELSE field

\* A reading: which member, and the number of the measurement.
Readings == [from : Channels, n : 0..MaxSamples]
NoReading == [from |-> "battery", n |-> 0]
NoFields == [f \in Channels |-> NoReading]

VARIABLES
    faulty,      \* sensors that Sensors::init did not find
    published,   \* the static members
    turn,        \* turn[t]: which member task t assigns next
    phase,       \* where the main task is
    k,           \* which reading or column is next
    local,       \* the local variables of obtemJSON
    packet,      \* pacote
    column,      \* history: what the last column of the row was printed from
    started      \* history: the members when obtemJSON was called

vars == <<faulty, published, turn, phase, k, local, packet, column, started>>

TypeOK ==
    /\ faulty \in SensorFaults \cup {{}}
    /\ published \in [Channels -> 0..MaxSamples]
    /\ turn \in [SensorTasks -> 1..9]
    /\ phase \in {"init", "read", "row", "idle"}
    /\ k \in 1..(Len(ReadOrder) + 1)
    /\ local \in [Channels -> Readings]
    /\ packet \in [Channels -> Readings]
    /\ column \in 0..MaxSamples
    /\ started \in [Channels -> 0..MaxSamples]

Zero == [c \in Channels |-> 0]

Init ==
    /\ faulty = {}
    /\ published = Zero
    /\ turn = [t \in SensorTasks |-> 1]
    /\ phase = "init" /\ k = 1
    /\ local = NoFields /\ packet = NoFields
    /\ column = 0 /\ started = Zero

-----------------------------------------------------------------------------
(* The tasks.                                                              *)

\* Sensors::init tries every sensor and collects the failures in sensorStatus.
SensorsInit ==
    /\ phase = "init"
    /\ faulty' \in SensorFaults \cup {{}}
    /\ phase' = "read"
    /\ UNCHANGED <<published, turn, k, local, packet, column, started>>

\* Mutant: the tasks are created whatever sensorStatus is.
AlwaysCreated(t) == phase # "init"

\* With any sensorStatus but INIT_OK, Sensors::init returns before it creates
\* a task; BatteryTask is created by System::initNoNetwork.
Created(t) == phase # "init" /\ (t = "BatteryTask" \/ faulty = {})

\* Mutant: IMUTask starts over when the gyroscope could not be read.
GyroSkipped(t) ==
    IF turn[t] = (IF t = "IMUTask" THEN 3 ELSE Len(Publishes[t])) THEN 1 ELSE turn[t] + 1

\* The assignment after this one; the measurement is complete with the last.
NextTurn(t) == IF turn[t] = Len(Publishes[t]) THEN 1 ELSE turn[t] + 1

\* Task t assigns its next member.
Publish(t) ==
    LET c == Publishes[t][turn[t]] IN
    /\ Created(t)
    /\ published[c] < MaxSamples
    /\ published' = [published EXCEPT ![c] = @ + 1]
    /\ turn' = [turn EXCEPT ![t] = NextTurn(t)]
    /\ UNCHANGED <<faulty, phase, k, local, packet, column, started>>

-----------------------------------------------------------------------------
(* obtemJSON.                                                              *)

\* A reading, and delay(200).
ReadField ==
    /\ phase = "read"
    /\ k <= Len(ReadOrder)
    /\ LET m == Getter(ReadOrder[k]) IN
       local' = [local EXCEPT ![ReadOrder[k]] = [from |-> m, n |-> published[m]]]
    /\ k' = k + 1
    /\ UNCHANGED <<faulty, published, turn, phase, packet, column, started>>

\* Mutant: a field that pacote already has is not assigned again.
FirstKept(f) == IF packet[f].n > 0 THEN packet[f] ELSE local[f]

\* pacote is static; every field is assigned.
Field(f) == local[f]

\* The packet is built; the locals are not used any more.
BuildPacket ==
    /\ phase = "read"
    /\ k = Len(ReadOrder) + 1
    /\ packet' = [f \in Channels |-> IF f \in PacketFields THEN Field(f) ELSE NoReading]
    /\ local' = NoFields
    /\ phase' = "row" /\ k' = 1
    /\ UNCHANGED <<faulty, published, turn, column, started>>

\* Mutant: the row is what was there before the readings.
AsStarted(c) == started[c]

\* appendFile prints the member, not the packet's field.
Column(c) == published[c]

AppendFile ==
    /\ phase = "row"
    /\ k <= Len(RowOrder)
    /\ column' = Column(RowOrder[k])
    /\ k' = k + 1
    /\ UNCHANGED <<faulty, published, turn, phase, local, packet, started>>

\* The row is complete, or there is none (no card): obtemJSON returns.
ReturnPacket ==
    /\ phase = "row"
    /\ k \in {1, Len(RowOrder) + 1}
    /\ phase' = "idle" /\ k' = 1
    /\ column' = 0
    /\ UNCHANGED <<faulty, published, turn, local, packet, started>>

\* STATE_0 again, after its delay or after the other states.
ObtemJSON ==
    /\ phase = "idle"
    /\ phase' = "read"
    /\ started' = published
    /\ UNCHANGED <<faulty, published, turn, k, local, packet, column>>

MainStep ==
    SensorsInit \/ ReadField \/ BuildPacket \/ AppendFile \/ ReturnPacket \/ ObtemJSON

Next == MainStep \/ \E t \in Tasks : Publish(t)

Spec == Init /\ [][Next]_vars

-----------------------------------------------------------------------------
(* Properties.                                                             *)

\* Every field of a finished packet was measured no earlier than what the
\* member held when obtemJSON was called, although pacote outlives the call.
FieldsFresh ==
    phase \in {"row", "idle"}
        => \A f \in PacketFields : packet[f].n >= started[packet[f].from]

\* Task t assigns member c, and then d.
Assigns(t, c) == \E a \in 1..Len(Publishes[t]) : Publishes[t][a] = c
AssignsInOrder(t, c, d) ==
    \E a, b \in 1..Len(Publishes[t]) : a < b /\ Publishes[t][a] = c /\ Publishes[t][b] = d

\* Readings i and j of one packet: the same task measures what they return.
OneTask(i, j) ==
    /\ {ReadOrder[i], ReadOrder[j]} \subseteq PacketFields
    /\ \E t \in SensorTasks :
          Assigns(t, Getter(ReadOrder[i])) /\ Assigns(t, Getter(ReadOrder[j]))

\* How many measurements reading j may be behind reading i, and the pairs that
\* may be behind by none and by one.
Lag(i, j) ==
    IF \E t \in SensorTasks : AssignsInOrder(t, Getter(ReadOrder[i]), Getter(ReadOrder[j]))
    THEN 1 ELSE 0
PairsEndingIn(j) ==
    {[first |-> ReadOrder[i], second |-> ReadOrder[j], lag |-> Lag(i, j)] :
        i \in {h \in 1..(j - 1) : OneTask(h, j)}}
ReadPairs == UNION {PairsEndingIn(j) : j \in 1..Len(ReadOrder)}

\* A packet mixes measurements, the axes of one vector included, but in one
\* direction: what was read later is not older, unless the task was between the
\* two assignments, and then it is one measurement older and no more.  How many
\* measurements newer it is nothing bounds: the task publishes while obtemJSON
\* waits between the readings.
TornForward ==
    \A p \in ReadPairs : packet[p.first].n <= packet[p.second].n + p.lag

\* The row on the card is not the packet, but it is never older than it: each
\* column was printed from the field's measurement or from a later one.
RowNotOlder ==
    phase = "row" /\ k > 1 =>
        LET c == RowOrder[k - 1] IN
        c \in PacketFields /\ packet[c].from = c => column >= packet[c].n

\* One sensor that fails at boot silences all of them: the packets then carry
\* initial values, except for the battery.
OneFaultSilencesAll ==
    faulty # {} => \A f \in PacketFields \ {"battery"} : packet[f].n = 0

\* "Get Magnetometer from sensors": the packet's magnetometer field is a
\* measurement of the magnetometer.
MagnetometerPosted ==
    phase = "idle" => \A f \in {"mag0", "mag1", "mag2"} : packet[f].from = f

\* What it is instead, in every packet and however the tasks publish: every
\* field comes from its own member, but for the magnetometer's, which are a
\* second reading of the gyroscope, never older than the first one.
GyroscopePostedTwice ==
    phase = "idle" =>
        \A f \in PacketFields :
            /\ packet[f].from = Getter(f)
            /\ f \in DOMAIN MagnetometerReturns => packet[f].n >= packet[Getter(f)].n

=============================================================================
