-------------------------- MODULE TelemetryProofs ---------------------------
(***************************************************************************)
(* Proofs about Telemetry, for any set of measuring tasks, any sensor      *)
(* faults and any number of measurements.  No task takes a lock, so the    *)
(* invariant carries what the order of the assignments and of the readings *)
(* alone guarantees: a task is at most one measurement ahead with the      *)
(* members it has already assigned (InStep), and nothing that was read is  *)
(* newer than its member (NotNewer) or, once read in this round, older     *)
(* than the member was at its start (ReadSinceStart).                      *)
(***************************************************************************)
EXTENDS Telemetry, TLAPS

\* Before Sensors::init returns nothing was measured, read or sent.
NothingYet ==
    phase = "init" =>
        /\ faulty = {}
        /\ \A c \in Channels :
              published[c] = 0 /\ local[c].n = 0 /\ packet[c].n = 0

\* After a failed Sensors::init only the battery is measured.
OnlyBattery ==
    faulty # {} =>
        \A c \in Channels \ {"battery"} :
            published[c] = 0 /\ local[c].n = 0 /\ packet[c].n = 0

\* Whether task t has assigned its i-th member in the measurement it is in.
Done(t, i) == IF i < turn[t] THEN 1 ELSE 0

\* A task that is between two assignments is ahead with the members before.
InStep ==
    \A t \in SensorTasks :
        /\ turn[t] <= Len(Publishes[t])
        /\ \A i, j \in 1..Len(Publishes[t]) :
              published[Publishes[t][i]] + Done(t, j)
                  = published[Publishes[t][j]] + Done(t, i)

NotNewer ==
    \A c \in Channels :
        /\ started[c] <= published[c]
        /\ local[c].n <= published[local[c].from]
        /\ packet[c].n <= published[packet[c].from]

\* The readings of the current round, and the order a packet inherits.
ReadSinceStart ==
    /\ phase \in {"init", "idle"} => k = 1
    /\ phase = "read" =>
        /\ \A i \in 1..(k - 1) :
              LET f == ReadOrder[i] IN
              local[f].from = Getter(f) /\ local[f].n >= started[Getter(f)]
        /\ \A i, j \in 1..(k - 1) :
              i < j /\ OneTask(i, j)
                  => local[ReadOrder[i]].n <= local[ReadOrder[j]].n + Lag(i, j)

\* Every field of a finished packet comes from the member its getter returns.
FieldsFrom ==
    phase \in {"row", "idle"} => \A f \in PacketFields : packet[f].from = Getter(f)

IInv ==
    /\ TypeOK
    /\ NothingYet
    /\ OnlyBattery
    /\ InStep
    /\ NotNewer
    /\ ReadSinceStart
    /\ FieldsFrom
    /\ FieldsFresh
    /\ TornForward
    /\ RowNotOlder

-----------------------------------------------------------------------------
(* The tables.                                                             *)

\* Where a channel stands in the order of the readings.
ReadPlace ==
    [accel0 |-> 1, accel1 |-> 2, accel2 |-> 3, gyro0 |-> 4, gyro1 |-> 5,
     gyro2 |-> 6, battery |-> 7, BMPtemp |-> 8, humidity |-> 9,
     pressure |-> 10, CO2Level |-> 11, luminosity |-> 12, mag0 |-> 13,
     mag1 |-> 14, mag2 |-> 15, gps0 |-> 16, gps1 |-> 17, gps2 |-> 18]

\* The order of the readings in obtemJSON: every channel is read once, and the
\* gyroscope stands before the magnetometer.
LEMMA ReadOrderIs ==
    /\ Len(ReadOrder) = 18
    /\ \A i \in 1..18 : ReadOrder[i] \in Channels /\ ReadPlace[ReadOrder[i]] = i
    /\ \A f \in Channels : \E i \in 1..18 : f = ReadOrder[i]
    /\ ReadOrder[4] = "gyro0" /\ ReadOrder[5] = "gyro1" /\ ReadOrder[6] = "gyro2"
    /\ ReadOrder[13] = "mag0" /\ ReadOrder[14] = "mag1" /\ ReadOrder[15] = "mag2"
  <1>1. Len(ReadOrder) = 18
    BY DEF ReadOrder
  <1>2. \A i \in 1..18 :
          i = 1 \/ i = 2 \/ i = 3 \/ i = 4 \/ i = 5 \/ i = 6 \/ i = 7 \/ i = 8 \/ i = 9
          \/ i = 10 \/ i = 11 \/ i = 12 \/ i = 13 \/ i = 14 \/ i = 15 \/ i = 16
          \/ i = 17 \/ i = 18
    OBVIOUS
  <1>3. /\ ReadOrder[1] = "accel0" /\ ReadOrder[2] = "accel1" /\ ReadOrder[3] = "accel2"
        /\ ReadOrder[4] = "gyro0" /\ ReadOrder[5] = "gyro1" /\ ReadOrder[6] = "gyro2"
        /\ ReadOrder[7] = "battery" /\ ReadOrder[8] = "BMPtemp" /\ ReadOrder[9] = "humidity"
        /\ ReadOrder[10] = "pressure" /\ ReadOrder[11] = "CO2Level" /\ ReadOrder[12] = "luminosity"
        /\ ReadOrder[13] = "mag0" /\ ReadOrder[14] = "mag1" /\ ReadOrder[15] = "mag2"
        /\ ReadOrder[16] = "gps0" /\ ReadOrder[17] = "gps1" /\ ReadOrder[18] = "gps2"
    BY DEF ReadOrder
  <1>4. \A i \in 1..18 : ReadOrder[i] \in Channels
    BY <1>2, <1>3 DEF Channels
  <1>5. \A i \in 1..18 : ReadPlace[ReadOrder[i]] = i
    BY <1>2, <1>3 DEF ReadPlace
  <1>6. \A f \in Channels : \E i \in 1..18 : f = ReadOrder[i]
    BY <1>3 DEF Channels
  <1> QED BY <1>1, <1>3, <1>4, <1>5, <1>6

\* The order of the columns in appendFile.
LEMMA RowOrderIs ==
    Len(RowOrder) = 18 /\ \A i \in 1..18 : RowOrder[i] \in Channels
  <1>1. Len(RowOrder) = 18
    BY DEF RowOrder
  <1>2. \A i \in 1..18 :
          i = 1 \/ i = 2 \/ i = 3 \/ i = 4 \/ i = 5 \/ i = 6 \/ i = 7 \/ i = 8 \/ i = 9
          \/ i = 10 \/ i = 11 \/ i = 12 \/ i = 13 \/ i = 14 \/ i = 15 \/ i = 16
          \/ i = 17 \/ i = 18
    OBVIOUS
  <1>3. /\ RowOrder[1] = "BMPtemp" /\ RowOrder[2] = "humidity" /\ RowOrder[3] = "pressure"
        /\ RowOrder[4] = "CO2Level" /\ RowOrder[5] = "luminosity" /\ RowOrder[6] = "accel0"
        /\ RowOrder[7] = "accel1" /\ RowOrder[8] = "accel2" /\ RowOrder[9] = "gyro0"
        /\ RowOrder[10] = "gyro1" /\ RowOrder[11] = "gyro2" /\ RowOrder[12] = "mag0"
        /\ RowOrder[13] = "mag1" /\ RowOrder[14] = "mag2" /\ RowOrder[15] = "gps0"
        /\ RowOrder[16] = "gps1" /\ RowOrder[17] = "gps2" /\ RowOrder[18] = "battery"
    BY DEF RowOrder
  <1>4. \A i \in 1..18 : RowOrder[i] \in Channels
    BY <1>2, <1>3 DEF Channels
  <1> QED BY <1>1, <1>4

\* The packet's fields, and that every getter returns a member.
LEMMA GetterIs ==
    /\ PacketFields \subseteq Channels
    /\ \A f \in Channels : Getter(f) \in Channels
    /\ DOMAIN MagnetometerReturns = {"mag0", "mag1", "mag2"}
    /\ Getter("mag0") = "gyro0" /\ Getter("mag1") = "gyro1" /\ Getter("mag2") = "gyro2"
    /\ Getter("gyro0") = "gyro0" /\ Getter("gyro1") = "gyro1" /\ Getter("gyro2") = "gyro2"
    /\ {"gyro0", "gyro1", "gyro2", "mag0", "mag1", "mag2", "battery"} \subseteq PacketFields
    /\ \A f \in PacketFields : Getter(f) = "battery" => f = "battery"
  <1>1. DOMAIN MagnetometerReturns = {"mag0", "mag1", "mag2"}
    BY DEF MagnetometerReturns
  <1>2. /\ MagnetometerReturns["mag0"] = "gyro0" /\ MagnetometerReturns["mag1"] = "gyro1"
        /\ MagnetometerReturns["mag2"] = "gyro2"
    BY DEF MagnetometerReturns
  <1>3. /\ \A f \in Channels : Getter(f) \in Channels
        /\ \A f \in PacketFields : Getter(f) = "battery" => f = "battery"
    BY <1>1, <1>2 DEF Getter, Channels, PacketFields
  <1>4. /\ Getter("mag0") = "gyro0" /\ Getter("mag1") = "gyro1" /\ Getter("mag2") = "gyro2"
        /\ Getter("gyro0") = "gyro0" /\ Getter("gyro1") = "gyro1" /\ Getter("gyro2") = "gyro2"
    BY <1>1, <1>2 DEF Getter
  <1>5. /\ PacketFields \subseteq Channels
        /\ {"gyro0", "gyro1", "gyro2", "mag0", "mag1", "mag2", "battery"} \subseteq PacketFields
    BY DEF PacketFields, Channels
  <1> QED BY <1>1, <1>3, <1>4, <1>5

\* Who assigns a channel, and as which of its members.
Home ==
    [accel0 |-> <<"IMUTask", 1>>, accel1 |-> <<"IMUTask", 2>>,
     accel2 |-> <<"IMUTask", 3>>, gyro0 |-> <<"IMUTask", 4>>,
     gyro1 |-> <<"IMUTask", 5>>, gyro2 |-> <<"IMUTask", 6>>,
     mag0 |-> <<"IMUTask", 7>>, mag1 |-> <<"IMUTask", 8>>,
     mag2 |-> <<"IMUTask", 9>>, pressure |-> <<"BaroTask", 1>>,
     BMPtemp |-> <<"BaroTask", 2>>, humidity |-> <<"TempHumTask", 1>>,
     CO2Level |-> <<"CO2Task", 1>>, luminosity |-> <<"AnalogTask", 1>>,
     gps0 |-> <<"GPSTask", 1>>, gps1 |-> <<"GPSTask", 2>>,
     gps2 |-> <<"GPSTask", 3>>, battery |-> <<"BatteryTask", 1>>]

\* Every task assigns members, and every member has one place among them.
LEMMA PublishesIs ==
  ASSUME NEW t \in SensorTasks
  PROVE  /\ Len(Publishes[t]) \in 1..9
         /\ \A i \in 1..Len(Publishes[t]) :
               Publishes[t][i] \in Channels /\ Home[Publishes[t][i]] = <<t, i>>
         /\ t = "BatteryTask" => \A i \in 1..Len(Publishes[t]) : Publishes[t][i] = "battery"
  <1>1. t \in {"IMUTask", "BaroTask", "TempHumTask", "CO2Task", "AnalogTask",
               "GPSTask", "BatteryTask"}
    BY DEF Publishes, SensorTasks
  <1>2. CASE t = "IMUTask"
    <2>1. Publishes[t] = <<"accel0", "accel1", "accel2", "gyro0", "gyro1",
                             "gyro2", "mag0", "mag1", "mag2">>
      BY <1>2 DEF Publishes
    <2>2. Len(Publishes[t]) = 9 /\ \A i \in 1..9 : i = 1 \/ i = 2 \/ i = 3 \/ i = 4 \/ i = 5 \/ i = 6 \/ i = 7 \/ i = 8 \/ i = 9
      BY <2>1
    <2> QED BY <2>1, <2>2, <1>2 DEF Channels, Home
  <1>3. CASE t = "BaroTask"
    <2>1. Publishes[t] = <<"pressure", "BMPtemp">>
      BY <1>3 DEF Publishes
    <2>2. Len(Publishes[t]) = 2 /\ \A i \in 1..2 : i = 1 \/ i = 2
      BY <2>1
    <2> QED BY <2>1, <2>2, <1>3 DEF Channels, Home
  <1>4. CASE t = "TempHumTask"
    <2>1. Publishes[t] = <<"humidity">>
      BY <1>4 DEF Publishes
    <2>2. Len(Publishes[t]) = 1 /\ \A i \in 1..1 : i = 1
      BY <2>1
    <2> QED BY <2>1, <2>2, <1>4 DEF Channels, Home
  <1>5. CASE t = "CO2Task"
    <2>1. Publishes[t] = <<"CO2Level">>
      BY <1>5 DEF Publishes
    <2>2. Len(Publishes[t]) = 1 /\ \A i \in 1..1 : i = 1
      BY <2>1
    <2> QED BY <2>1, <2>2, <1>5 DEF Channels, Home
  <1>6. CASE t = "AnalogTask"
    <2>1. Publishes[t] = <<"luminosity">>
      BY <1>6 DEF Publishes
    <2>2. Len(Publishes[t]) = 1 /\ \A i \in 1..1 : i = 1
      BY <2>1
    <2> QED BY <2>1, <2>2, <1>6 DEF Channels, Home
  <1>7. CASE t = "GPSTask"
    <2>1. Publishes[t] = <<"gps0", "gps1", "gps2">>
      BY <1>7 DEF Publishes
    <2>2. Len(Publishes[t]) = 3 /\ \A i \in 1..3 : i = 1 \/ i = 2 \/ i = 3
      BY <2>1
    <2> QED BY <2>1, <2>2, <1>7 DEF Channels, Home
  <1>8. CASE t = "BatteryTask"
    <2>1. Publishes[t] = <<"battery">>
      BY <1>8 DEF Publishes
    <2>2. Len(Publishes[t]) = 1 /\ \A i \in 1..1 : i = 1
      BY <2>1
    <2> QED BY <2>1, <2>2, <1>8 DEF Channels, Home
  <1> QED BY <1>1, <1>2, <1>3, <1>4, <1>5, <1>6, <1>7, <1>8

\* No member is assigned at two places.
LEMMA OnePlace ==
  ASSUME NEW t \in SensorTasks, NEW i \in 1..Len(Publishes[t]),
         NEW u \in SensorTasks, NEW j \in 1..Len(Publishes[u]),
         Publishes[t][i] = Publishes[u][j]
  PROVE  t = u /\ i = j
  <1>1. Home[Publishes[t][i]] = <<t, i>> /\ Home[Publishes[u][j]] = <<u, j>>
    BY PublishesIs
  <1> QED BY <1>1

\* No channel is read twice under its own name.
LEMMA ReadOnce ==
  ASSUME NEW i \in 1..18, NEW j \in 1..18, ReadOrder[i] = ReadOrder[j]
  PROVE  i = j
  BY ReadOrderIs

\* The pairs of TornForward are pairs of readings, in their order.
LEMMA ReadPairsAre ==
    /\ \A p \in ReadPairs : \E j \in 1..18 : \E i \in 1..(j - 1) :
          /\ OneTask(i, j)
          /\ p = [first |-> ReadOrder[i], second |-> ReadOrder[j], lag |-> Lag(i, j)]
    /\ \A j \in 1..18 : \A i \in 1..(j - 1) :
          OneTask(i, j) =>
            [first |-> ReadOrder[i], second |-> ReadOrder[j], lag |-> Lag(i, j)] \in ReadPairs
  <1>1. \A p : p \in ReadPairs <=>
          \E j \in 1..Len(ReadOrder) : \E i \in {g \in 1..(j - 1) : OneTask(g, j)} :
            p = [first |-> ReadOrder[i], second |-> ReadOrder[j], lag |-> Lag(i, j)]
    <2>1. \A p : p \in ReadPairs <=> \E j \in 1..Len(ReadOrder) : p \in PairsEndingIn(j)
      BY DEF ReadPairs
    <2>2. \A j : \A p : p \in PairsEndingIn(j) <=>
            \E i \in {g \in 1..(j - 1) : OneTask(g, j)} :
              p = [first |-> ReadOrder[i], second |-> ReadOrder[j], lag |-> Lag(i, j)]
      BY Zenon DEF PairsEndingIn
    <2> SUFFICES ASSUME NEW p
                 PROVE p \in ReadPairs <=>
                   \E j \in 1..Len(ReadOrder) : \E i \in {g \in 1..(j - 1) : OneTask(g, j)} :
                     p = [first |-> ReadOrder[i], second |-> ReadOrder[j], lag |-> Lag(i, j)]
      OBVIOUS
    <2>3. ASSUME p \in ReadPairs
          PROVE  \E j \in 1..Len(ReadOrder) : \E i \in {g \in 1..(j - 1) : OneTask(g, j)} :
                   p = [first |-> ReadOrder[i], second |-> ReadOrder[j], lag |-> Lag(i, j)]
      <3>1. PICK j \in 1..Len(ReadOrder) : p \in PairsEndingIn(j)
        BY <2>1, <2>3
      <3> QED BY <3>1, <2>2
    <2>4. ASSUME NEW j \in 1..Len(ReadOrder), NEW i \in {g \in 1..(j - 1) : OneTask(g, j)},
                 p = [first |-> ReadOrder[i], second |-> ReadOrder[j], lag |-> Lag(i, j)]
          PROVE  p \in ReadPairs
      <3>1. p \in PairsEndingIn(j)
        BY <2>2, <2>4
      <3> QED BY <3>1, <2>1
    <2> QED BY <2>3, <2>4
  <1>2. Len(ReadOrder) = 18
    BY ReadOrderIs
  <1>3. \A j : \A i : i \in {g \in 1..(j - 1) : OneTask(g, j)}
                       <=> i \in 1..(j - 1) /\ OneTask(i, j)
    OBVIOUS
  <1>4. \A p : p \in ReadPairs <=>
          \E j \in 1..18 : \E i \in {g \in 1..(j - 1) : OneTask(g, j)} :
            p = [first |-> ReadOrder[i], second |-> ReadOrder[j], lag |-> Lag(i, j)]
    BY <1>1, <1>2
  <1>5. \A p \in ReadPairs : \E j \in 1..18 : \E i \in 1..(j - 1) :
          /\ OneTask(i, j)
          /\ p = [first |-> ReadOrder[i], second |-> ReadOrder[j], lag |-> Lag(i, j)]
    BY <1>3, <1>4, Zenon
  <1>6. \A j \in 1..18 : \A i \in 1..(j - 1) :
          OneTask(i, j) =>
            [first |-> ReadOrder[i], second |-> ReadOrder[j], lag |-> Lag(i, j)] \in ReadPairs
    BY <1>3, <1>4, Zenon
  <1> QED BY <1>5, <1>6

\* The members, and the places of the tasks among theirs.
LEMMA Typed ==
  ASSUME TypeOK
  PROVE  /\ \A t \in SensorTasks : turn[t] \in 1..9
         /\ \A c \in Channels : published[c] \in 0..MaxSamples /\ published[c] \in Nat
  <1>1. \A t \in SensorTasks : turn[t] \in 1..9
    BY DEF TypeOK
  <1>2. \A c \in Channels : published[c] \in 0..MaxSamples
    BY DEF TypeOK
  <1> QED BY <1>1, <1>2, TelemetryAssumption

\* What a task measured later is behind by no more than Lag allows.
LEMMA LagIs ==
  ASSUME TypeOK, InStep, NEW i \in 1..18, NEW j \in 1..18, OneTask(i, j)
  PROVE  published[Getter(ReadOrder[i])] <= published[Getter(ReadOrder[j])] + Lag(i, j)
  <1> DEFINE c == Getter(ReadOrder[i])
             d == Getter(ReadOrder[j])
  <1>1. PICK t \in SensorTasks : Assigns(t, c) /\ Assigns(t, d)
    BY DEF OneTask
  <1>2. PICK a \in 1..Len(Publishes[t]) : Publishes[t][a] = c
    BY <1>1 DEF Assigns
  <1>3. PICK b \in 1..Len(Publishes[t]) : Publishes[t][b] = d
    BY <1>1 DEF Assigns
  <1>4. published[c] + Done(t, b) = published[d] + Done(t, a)
    BY <1>2, <1>3 DEF InStep
  <1>5. published[c] \in Nat /\ published[d] \in Nat /\ turn[t] \in Nat
    <2>1. c \in Channels /\ d \in Channels
      BY ReadOrderIs, GetterIs
    <2>2. turn[t] \in 1..9
      BY Typed
    <2> HIDE DEF c, d
    <2> QED BY <2>1, <2>2, Typed
  <1>6. Lag(i, j) \in {0, 1} /\ (a < b => Lag(i, j) = 1)
    <2>1. Lag(i, j) \in {0, 1}
      BY DEF Lag
    <2>2. ASSUME a < b PROVE Lag(i, j) = 1
      <3>1. AssignsInOrder(t, c, d)
        BY <1>2, <1>3, <2>2, Zenon DEF AssignsInOrder
      <3> QED BY <3>1, Zenon DEF Lag
    <2> QED BY <2>1, <2>2
  <1>7. /\ Done(t, a) \in {0, 1} /\ Done(t, b) \in {0, 1}
        /\ ~(a < b) => Done(t, a) <= Done(t, b)
    <2>1. Len(Publishes[t]) \in Nat
      BY PublishesIs
    <2>2. a \in Nat /\ b \in Nat
      BY <2>1
    <2> QED BY <2>2, <1>5 DEF Done
  <1> HIDE DEF c, d
  <1>8. \A x, y \in Nat : \A e, g, l \in {0, 1} :
          x + g = y + e /\ (e <= g \/ l = 1) => x <= y + l
    OBVIOUS
  <1>9. published[c] <= published[d] + Lag(i, j)
    BY <1>4, <1>5, <1>6, <1>7, <1>8
  <1> QED BY <1>9 DEF c, d

-----------------------------------------------------------------------------
(* The invariant is inductive.                                             *)

\* The initial values.
LEMMA ZeroIs ==
    /\ Zero \in [Channels -> 0..MaxSamples] /\ \A c \in Channels : Zero[c] = 0
    /\ NoReading \in Readings /\ NoReading.n = 0 /\ NoReading.from = "battery"
    /\ NoFields \in [Channels -> Readings]
    /\ \A f \in Channels : NoFields[f] = NoReading
  <1>1. 0 \in 0..MaxSamples /\ "battery" \in Channels
    BY TelemetryAssumption DEF Channels
  <1>2. NoReading \in Readings /\ NoReading.n = 0 /\ NoReading.from = "battery"
    BY <1>1 DEF NoReading, Readings
  <1> QED BY <1>1, <1>2 DEF Zero, NoFields

\* Every pair's channels are channels, and its lag a number.
LEMMA PairTypes ==
  ASSUME NEW p \in ReadPairs
  PROVE  p.first \in PacketFields /\ p.second \in PacketFields /\ p.lag \in {0, 1}
  <1>1. PICK j \in 1..18 : \E i \in 1..(j - 1) :
          /\ OneTask(i, j)
          /\ p = [first |-> ReadOrder[i], second |-> ReadOrder[j], lag |-> Lag(i, j)]
    BY ReadPairsAre
  <1>2. PICK i \in 1..(j - 1) :
          /\ OneTask(i, j)
          /\ p = [first |-> ReadOrder[i], second |-> ReadOrder[j], lag |-> Lag(i, j)]
    BY <1>1
  <1>3. ReadOrder[i] \in PacketFields /\ ReadOrder[j] \in PacketFields
    BY <1>2 DEF OneTask
  <1>4. Lag(i, j) \in {0, 1}
    BY DEF Lag
  <1> QED BY <1>2, <1>3, <1>4

\* Init satisfies the invariant.
LEMMA InitInv == Init => IInv
  <1> SUFFICES ASSUME Init PROVE IInv
    OBVIOUS
  <1> USE ZeroIs
  <1>1. TypeOK
    BY ReadOrderIs, TelemetryAssumption DEF Init, TypeOK
  <1>2. NothingYet /\ OnlyBattery
    BY DEF Init, NothingYet, OnlyBattery
  <1>3. InStep
    <2> SUFFICES ASSUME NEW t \in SensorTasks
                 PROVE  /\ turn[t] <= Len(Publishes[t])
                        /\ \A i, j \in 1..Len(Publishes[t]) :
                              published[Publishes[t][i]] + Done(t, j)
                                  = published[Publishes[t][j]] + Done(t, i)
      BY DEF InStep
    <2>1. turn[t] = 1 /\ Len(Publishes[t]) \in 1..9
      BY PublishesIs DEF Init
    <2>2. ASSUME NEW i \in 1..Len(Publishes[t])
          PROVE  published[Publishes[t][i]] = 0 /\ Done(t, i) = 0
      <3>1. Publishes[t][i] \in Channels
        BY PublishesIs
      <3>2. ~(i < turn[t])
        <4>1. \A n \in 1..9 : \A h \in 1..n : ~(h < 1)
          OBVIOUS
        <4> QED BY <4>1, <2>1
      <3>3. published[Publishes[t][i]] = 0
        BY <3>1 DEF Init
      <3> QED BY <3>2, <3>3, Zenon DEF Done
    <2>3. turn[t] <= Len(Publishes[t])
      <3>1. \A n \in 1..9 : 1 <= n
        OBVIOUS
      <3> QED BY <2>1, <3>1
    <2>4. ASSUME NEW i \in 1..Len(Publishes[t]), NEW j \in 1..Len(Publishes[t])
          PROVE  published[Publishes[t][i]] + Done(t, j) = published[Publishes[t][j]] + Done(t, i)
      BY <2>2
    <2> QED BY <2>3, <2>4
  <1>4. NotNewer
    BY DEF Init, NotNewer, Channels
  <1>5. ReadSinceStart /\ FieldsFrom /\ FieldsFresh /\ RowNotOlder
    BY DEF Init, ReadSinceStart, FieldsFrom, FieldsFresh, RowNotOlder
  <1>6. TornForward
    <2>1. \A f \in PacketFields : packet[f].n = 0
      BY GetterIs DEF Init
    <2> QED BY <2>1, PairTypes DEF TornForward
  <1> QED BY <1>1, <1>2, <1>3, <1>4, <1>5, <1>6 DEF IInv

\* Sensors::init keeps it.
LEMMA SensorsInitInv == IInv /\ SensorsInit => IInv'
  <1> SUFFICES ASSUME IInv, SensorsInit PROVE IInv'
    OBVIOUS
  <1> USE DEF IInv, SensorsInit
  <1>1. TypeOK'
    BY DEF TypeOK
  <1>2. NothingYet' /\ OnlyBattery'
    BY DEF NothingYet, OnlyBattery, Channels
  <1>3. InStep' /\ NotNewer' /\ TornForward'
    BY DEF InStep, Done, NotNewer, TornForward
  <1>4. ReadSinceStart'
    BY DEF ReadSinceStart
  <1> QED BY <1>1, <1>2, <1>3, <1>4 DEF FieldsFrom, FieldsFresh, RowNotOlder

\* An assignment of a sensor task keeps it.
LEMMA PublishInv ==
  ASSUME IInv, NEW t \in Tasks, Publish(t)
  PROVE  IInv'
  <1> DEFINE c == Publishes[t][turn[t]]
  <1> USE DEF IInv
  <1>1. /\ t \in SensorTasks /\ Len(Publishes[t]) \in 1..9
        /\ turn[t] \in 1..Len(Publishes[t])
    <2>1. t \in SensorTasks
      BY TelemetryAssumption
    <2>2. Len(Publishes[t]) \in 1..9
      BY <2>1, PublishesIs
    <2>3. turn[t] \in 1..9
      BY <2>1, Typed
    <2>4. turn[t] <= Len(Publishes[t])
      BY <2>1 DEF InStep
    <2> QED BY <2>1, <2>2, <2>3, <2>4
  <1>2. c \in Channels
    BY <1>1, PublishesIs
  <1>3. /\ published[c] < MaxSamples
        /\ published' = [published EXCEPT ![c] = @ + 1]
        /\ turn' = [turn EXCEPT ![t] = NextTurn(t)]
        /\ Created(t)
        /\ UNCHANGED <<faulty, phase, k, local, packet, column, started>>
    BY DEF Publish
  <1>4. t = "BatteryTask" => c = "battery"
    BY <1>1, PublishesIs
  <1>5. \A u \in SensorTasks : \A i \in 1..Len(Publishes[u]) :
          Publishes[u][i] = c => u = t /\ i = turn[t]
    BY <1>1, OnePlace
  <1> HIDE DEF c
  <1>6. NextTurn(t) \in 1..Len(Publishes[t])
    BY <1>1 DEF NextTurn
  <1>7. TypeOK'
    <2>1. published' \in [Channels -> 0..MaxSamples]
      BY <1>2, <1>3, TelemetryAssumption DEF TypeOK
    <2>2. turn' \in [SensorTasks -> 1..9]
      <3>1. NextTurn(t) \in 1..9
        <4>1. \A n \in 1..9 : \A h \in 1..n : h \in 1..9
          OBVIOUS
        <4> QED BY <4>1, <1>1, <1>6
      <3>2. turn \in [SensorTasks -> 1..9]
        BY DEF TypeOK
      <3> QED BY <3>1, <3>2, <1>3
    <2> QED BY <2>1, <2>2, <1>3 DEF TypeOK
  <1>8. NothingYet'
    BY <1>3 DEF NothingYet, Created
  <1>9. OnlyBattery'
    <2>1. faulty # {} => c = "battery"
      BY <1>3, <1>4 DEF Created
    <2> QED BY <2>1, <1>3 DEF OnlyBattery, TypeOK
  <1>10. InStep'
    <2> SUFFICES ASSUME NEW u \in SensorTasks
                 PROVE  /\ turn'[u] <= Len(Publishes[u])
                        /\ \A i, j \in 1..Len(Publishes[u]) :
                              published'[Publishes[u][i]] + Done(u, j)'
                                  = published'[Publishes[u][j]] + Done(u, i)'
      BY DEF InStep
    <2>1. /\ \A d \in Channels :
                published'[d] = IF d = c THEN published[d] + 1 ELSE published[d]
          /\ \A d \in Channels : published[d] \in Nat
          /\ turn'[u] = IF u = t THEN NextTurn(t) ELSE turn[u]
      <3>1. \A d \in Channels :
              published'[d] = IF d = c THEN published[d] + 1 ELSE published[d]
        BY <1>2, <1>3 DEF TypeOK
      <3>2. turn \in [SensorTasks -> 1..9]
        BY DEF TypeOK
      <3>3. turn'[u] = IF u = t THEN NextTurn(t) ELSE turn[u]
        BY <3>2, <1>1, <1>3
      <3> QED BY <3>1, <3>3, Typed
    <2>2. \A i \in 1..Len(Publishes[u]) : Publishes[u][i] \in Channels
      BY PublishesIs
    <2>3. CASE u # t
      <3>1. \A i \in 1..Len(Publishes[u]) :
              /\ published'[Publishes[u][i]] = published[Publishes[u][i]]
              /\ Done(u, i)' = Done(u, i)
        BY <2>1, <2>2, <2>3, <1>5 DEF Done
      <3> QED BY <3>1, <2>1, <2>3 DEF InStep
    <2>4. CASE u = t
      <3>1. turn'[t] <= Len(Publishes[t])
        BY <2>1, <2>4, <1>1, <1>6
      <3>2. \A i \in 1..Len(Publishes[t]) :
              /\ published'[Publishes[t][i]]
                   = published[Publishes[t][i]] + (IF i = turn[t] THEN 1 ELSE 0)
              /\ published[Publishes[t][i]] \in Nat
        <4>1. \A i \in 1..Len(Publishes[t]) : Publishes[t][i] = c <=> i = turn[t]
          BY <1>1, <1>5 DEF c
        <4> QED BY <4>1, <2>1, <2>2, <2>4
      <3>3. /\ \A i \in 1..Len(Publishes[t]) : Done(t, i) \in {0, 1} /\ Done(t, i)' \in {0, 1}
            /\ turn[t] # Len(Publishes[t])
                 => \A i \in 1..Len(Publishes[t]) :
                      Done(t, i)' = Done(t, i) + (IF i = turn[t] THEN 1 ELSE 0)
            /\ turn[t] = Len(Publishes[t])
                 => \A i \in 1..Len(Publishes[t]) :
                      Done(t, i)' = 0 /\ Done(t, i) + (IF i = turn[t] THEN 1 ELSE 0) = 1
        <4>1. turn'[t] = IF turn[t] = Len(Publishes[t]) THEN 1 ELSE turn[t] + 1
          BY <2>1, <2>4 DEF NextTurn
        <4>2. \A i \in 1..Len(Publishes[t]) : Done(t, i)' = IF i < turn'[t] THEN 1 ELSE 0
          BY DEF Done
        <4> QED BY <4>1, <4>2, <1>1 DEF Done
      <3>4. \A x, y \in Nat : \A di, dj, ai, aj, ei, ej \in {0, 1} :
              x + dj = y + di
              /\ ((ei = di + ai /\ ej = dj + aj)
                  \/ (ei = 0 /\ ej = 0 /\ di + ai = 1 /\ dj + aj = 1))
              => (x + ai) + ej = (y + aj) + ei
        OBVIOUS
      <3>5. ASSUME NEW i \in 1..Len(Publishes[t]), NEW j \in 1..Len(Publishes[t])
            PROVE  published'[Publishes[t][i]] + Done(t, j)'
                     = published'[Publishes[t][j]] + Done(t, i)'
        <4> DEFINE ai == IF i = turn[t] THEN 1 ELSE 0
                   aj == IF j = turn[t] THEN 1 ELSE 0
                   x == published[Publishes[t][i]]
                   y == published[Publishes[t][j]]
        <4>1. x + Done(t, j) = y + Done(t, i)
          BY <1>1 DEF InStep
        <4>2. ai \in {0, 1} /\ aj \in {0, 1} /\ x \in Nat /\ y \in Nat
          BY <3>2
        <4>3. published'[Publishes[t][i]] = x + ai /\ published'[Publishes[t][j]] = y + aj
          BY <3>2
        <4>4. \/ Done(t, i)' = Done(t, i) + ai /\ Done(t, j)' = Done(t, j) + aj
              \/ /\ Done(t, i)' = 0 /\ Done(t, j)' = 0
                 /\ Done(t, i) + ai = 1 /\ Done(t, j) + aj = 1
          BY <3>3
        <4>5. /\ Done(t, i) \in {0, 1} /\ Done(t, j) \in {0, 1}
              /\ Done(t, i)' \in {0, 1} /\ Done(t, j)' \in {0, 1}
          BY <3>3
        <4> HIDE DEF ai, aj, x, y
        <4> QED BY <4>1, <4>2, <4>3, <4>4, <4>5, <3>4
      <3> QED BY <3>1, <3>5, <2>4
    <2> QED BY <2>3, <2>4
  <1>11. NotNewer'
    <2>1. \A d \in Channels : published[d] <= published'[d] /\ published'[d] \in Nat
                              /\ published[d] \in Nat /\ started[d] \in Nat
      BY <1>2, <1>3 DEF TypeOK
    <2>2. \A d \in Channels : local[d].from \in Channels /\ packet[d].from \in Channels
                              /\ local[d].n \in Nat /\ packet[d].n \in Nat
      BY DEF TypeOK, Readings
    <2> QED BY <2>1, <2>2, <1>3 DEF NotNewer
  <1>12. ReadSinceStart'
    BY <1>3 DEF ReadSinceStart
  <1>13. FieldsFrom' /\ FieldsFresh' /\ TornForward' /\ RowNotOlder'
    BY <1>3 DEF FieldsFrom, FieldsFresh, TornForward, RowNotOlder
  <1> QED BY <1>7, <1>8, <1>9, <1>10, <1>11, <1>12, <1>13

\* A reading of obtemJSON keeps it.
LEMMA ReadFieldInv == IInv /\ ReadField => IInv'
  <1> SUFFICES ASSUME IInv, ReadField PROVE IInv'
    OBVIOUS
  <1> DEFINE f == ReadOrder[k]
             m == Getter(f)
  <1> USE DEF IInv
  <1>1. k \in 1..18 /\ f \in Channels /\ m \in Channels
    <2>1. k \in 1..18
      BY ReadOrderIs DEF ReadField, TypeOK
    <2> QED BY <2>1, ReadOrderIs, GetterIs
  <1>2. /\ phase = "read" /\ k' = k + 1
        /\ local' = [local EXCEPT ![f] = [from |-> m, n |-> published[m]]]
        /\ UNCHANGED <<faulty, published, turn, phase, packet, column, started>>
    BY DEF ReadField
  <1>3. /\ \A d \in Channels : published[d] \in 0..MaxSamples /\ started[d] \in 0..MaxSamples
        /\ \A d \in Channels : local[d] \in Readings /\ local[d].n \in Nat
                               /\ local[d].from \in Channels
        /\ MaxSamples \in Nat
    BY TelemetryAssumption DEF TypeOK, Readings
  <1>4. /\ local'[f].from = m /\ local'[f].n = published[m]
        /\ \A d \in Channels : d # f => local'[d] = local[d]
    BY <1>1, <1>2 DEF TypeOK
  <1>5. \A i \in 1..(k - 1) : i \in 1..18 /\ ReadOrder[i] \in Channels /\ ReadOrder[i] # f
    <2> SUFFICES ASSUME NEW i \in 1..(k - 1)
                 PROVE i \in 1..18 /\ ReadOrder[i] \in Channels /\ ReadOrder[i] # f
      OBVIOUS
    <2>1. i \in 1..18 /\ i # k
      BY <1>1
    <2> QED BY <2>1, <1>1, ReadOrderIs, ReadOnce
  <1> HIDE DEF m, f
  <1>6. TypeOK'
    <2>1. [from |-> m, n |-> published[m]] \in Readings
      BY <1>1, <1>3 DEF Readings
    <2>2. local' \in [Channels -> Readings]
      BY <2>1, <1>1, <1>2 DEF TypeOK
    <2>3. k' \in 1..(Len(ReadOrder) + 1)
      BY <1>1, <1>2, ReadOrderIs
    <2> QED BY <2>2, <2>3, <1>2 DEF TypeOK
  <1>7. NothingYet'
    BY <1>2 DEF NothingYet
  <1>8. OnlyBattery'
    <2>1. f # "battery" => m # "battery"
      BY <1>1 DEF m, Getter, MagnetometerReturns
    <2> QED BY <2>1, <1>1, <1>2, <1>4 DEF OnlyBattery
  <1>9. InStep'
    BY <1>2 DEF InStep, Done
  <1>10. NotNewer'
    <2>1. \A d \in Channels : local'[d].n <= published'[local'[d].from]
      BY <1>1, <1>2, <1>3, <1>4 DEF NotNewer
    <2> QED BY <2>1, <1>2 DEF NotNewer
  <1>11. ReadSinceStart'
    <2>1. ASSUME NEW i \in 1..k
          PROVE  /\ local'[ReadOrder[i]].from = Getter(ReadOrder[i])
                 /\ local'[ReadOrder[i]].n >= started'[Getter(ReadOrder[i])]
      <3>1. CASE i = k
        <4>1. ReadOrder[i] = f /\ Getter(ReadOrder[i]) = m
          BY <3>1 DEF f, m
        <4> QED BY <4>1, <1>1, <1>2, <1>3, <1>4 DEF NotNewer
      <3>2. CASE i # k
        <4>1. i \in 1..(k - 1) /\ local'[ReadOrder[i]] = local[ReadOrder[i]]
          BY <3>2, <1>1, <1>4, <1>5
        <4> QED BY <4>1, <1>2 DEF ReadSinceStart
      <3> QED BY <3>1, <3>2
    <2>2. ASSUME NEW i \in 1..k, NEW j \in 1..k, i < j, OneTask(i, j)
          PROVE  local'[ReadOrder[i]].n <= local'[ReadOrder[j]].n + Lag(i, j)
      <3>1. i \in 1..(k - 1) /\ i \in 1..18 /\ j \in 1..18
        BY <2>2, <1>1
      <3>2. ReadOrder[i] \in Channels /\ local'[ReadOrder[i]] = local[ReadOrder[i]]
        BY <3>1, <1>4, <1>5
      <3>3. CASE j = k
        <4>1. local'[ReadOrder[j]].n = published[Getter(ReadOrder[j])]
          BY <3>3, <1>4 DEF f, m
        <4>2. local[ReadOrder[i]].from = Getter(ReadOrder[i])
          BY <3>1, <1>2 DEF ReadSinceStart
        <4>3. local[ReadOrder[i]].n <= published[Getter(ReadOrder[i])]
          BY <3>2, <4>2 DEF NotNewer
        <4>4. published[Getter(ReadOrder[i])] <= published[Getter(ReadOrder[j])] + Lag(i, j)
          BY <2>2, <3>1, LagIs
        <4>5. Lag(i, j) \in {0, 1}
          BY DEF Lag
        <4>6. /\ published[Getter(ReadOrder[i])] \in Nat
              /\ published[Getter(ReadOrder[j])] \in Nat
          BY <3>1, <1>3, ReadOrderIs, GetterIs
        <4>7. local[ReadOrder[i]].n \in Nat
          BY <3>2, <1>3
        <4>8. \A x, y, z \in Nat : \A l \in {0, 1} : x <= y /\ y <= z + l => x <= z + l
          OBVIOUS
        <4>9. local[ReadOrder[i]].n <= published[Getter(ReadOrder[j])] + Lag(i, j)
          BY <4>3, <4>4, <4>5, <4>6, <4>7, <4>8
        <4> QED BY <3>2, <4>1, <4>9
      <3>4. CASE j # k
        <4>1. j \in 1..(k - 1) /\ local'[ReadOrder[j]] = local[ReadOrder[j]]
          BY <3>4, <1>1, <1>4, <1>5
        <4> QED BY <3>1, <3>2, <4>1, <2>2, <1>2 DEF ReadSinceStart
      <3> QED BY <3>3, <3>4
    <2>3. k' - 1 = k /\ phase' = "read"
      BY <1>1, <1>2
    <2> QED BY <2>1, <2>2, <2>3 DEF ReadSinceStart
  <1>12. FieldsFrom' /\ FieldsFresh' /\ TornForward' /\ RowNotOlder'
    BY <1>2 DEF FieldsFrom, FieldsFresh, TornForward, RowNotOlder
  <1> QED BY <1>6, <1>7, <1>8, <1>9, <1>10, <1>11, <1>12

\* Building the packet keeps it.
LEMMA BuildPacketInv == IInv /\ BuildPacket => IInv'
  <1> SUFFICES ASSUME IInv, BuildPacket PROVE IInv'
    OBVIOUS
  <1> USE DEF IInv
  <1>1. /\ phase = "read" /\ k = 19 /\ phase' = "row" /\ k' = 1
        /\ packet' = [f \in Channels |-> IF f \in PacketFields THEN local[f] ELSE NoReading]
        /\ local' = NoFields
        /\ UNCHANGED <<faulty, published, turn, column, started>>
    BY ReadOrderIs DEF BuildPacket, Field
  <1>2. \A f \in Channels : local[f] \in Readings /\ published[f] \in 0..MaxSamples
    BY DEF TypeOK
  <1>3. \A f \in Channels : packet'[f] = IF f \in PacketFields THEN local[f] ELSE NoReading
    BY <1>1
  <1>4. TypeOK'
    <2>1. packet' \in [Channels -> Readings] /\ local' \in [Channels -> Readings]
      BY <1>1, <1>2, ZeroIs
    <2> QED BY <2>1, <1>1, ReadOrderIs DEF TypeOK
  <1>5. NothingYet' /\ OnlyBattery' /\ InStep'
    BY <1>1, <1>3, ZeroIs DEF NothingYet, OnlyBattery, InStep, Done
  <1>6. NotNewer'
    <2>1. 0 <= published["battery"]
      BY <1>2 DEF Channels
    <2> QED BY <2>1, <1>1, <1>3, ZeroIs DEF NotNewer
  <1>7. ReadSinceStart' /\ RowNotOlder'
    BY <1>1 DEF ReadSinceStart, RowNotOlder
  <1>8. ASSUME NEW f \in PacketFields
        PROVE  /\ packet'[f] = local[f]
               /\ local[f].from = Getter(f) /\ local[f].n >= started[Getter(f)]
    <2>1. f \in Channels
      BY GetterIs
    <2>2. PICK i \in 1..18 : f = ReadOrder[i]
      BY <2>1, ReadOrderIs
    <2>3. i \in 1..(k - 1)
      BY <1>1
    <2> QED BY <2>1, <2>2, <2>3, <1>1, <1>3 DEF ReadSinceStart
  <1>9. FieldsFrom' /\ FieldsFresh'
    BY <1>1, <1>8 DEF FieldsFrom, FieldsFresh
  <1>10. TornForward'
    <2> SUFFICES ASSUME NEW p \in ReadPairs
                 PROVE  packet'[p.first].n <= packet'[p.second].n + p.lag
      BY DEF TornForward
    <2>1. PICK j \in 1..18 : \E i \in 1..(j - 1) :
            /\ OneTask(i, j)
            /\ p = [first |-> ReadOrder[i], second |-> ReadOrder[j], lag |-> Lag(i, j)]
      BY ReadPairsAre
    <2>2. PICK i \in 1..(j - 1) :
            /\ OneTask(i, j)
            /\ p = [first |-> ReadOrder[i], second |-> ReadOrder[j], lag |-> Lag(i, j)]
      BY <2>1
    <2>3. p.first \in PacketFields /\ p.second \in PacketFields
      BY PairTypes
    <2>4. packet'[p.first] = local[ReadOrder[i]] /\ packet'[p.second] = local[ReadOrder[j]]
      BY <2>2, <2>3, <1>8
    <2>5. i \in 1..(k - 1) /\ j \in 1..(k - 1) /\ i < j
      BY <1>1
    <2>6. local[ReadOrder[i]].n <= local[ReadOrder[j]].n + Lag(i, j)
      BY <2>2, <2>5, <1>1 DEF ReadSinceStart
    <2> QED BY <2>2, <2>4, <2>6
  <1> QED BY <1>4, <1>5, <1>6, <1>7, <1>9, <1>10

\* A column of the row keeps it.
LEMMA AppendFileInv == IInv /\ AppendFile => IInv'
  <1> SUFFICES ASSUME IInv, AppendFile PROVE IInv'
    OBVIOUS
  <1> USE DEF IInv
  <1> DEFINE c == RowOrder[k]
  <1>1. k \in 1..18 /\ c \in Channels
    BY RowOrderIs, ReadOrderIs DEF AppendFile, TypeOK
  <1>2. /\ phase = "row" /\ k' = k + 1 /\ column' = published[c]
        /\ UNCHANGED <<faulty, published, turn, phase, local, packet, started>>
    BY DEF AppendFile, Column
  <1>3. published[c] \in 0..MaxSamples /\ packet[c].n \in Nat
    BY <1>1, TelemetryAssumption DEF TypeOK, Readings
  <1>4. k' - 1 = k
    BY <1>1, <1>2
  <1> HIDE DEF c
  <1>5. TypeOK'
    <2>1. k' \in 1..(Len(ReadOrder) + 1)
      BY <1>1, <1>2, ReadOrderIs
    <2> QED BY <2>1, <1>2, <1>3 DEF TypeOK
  <1>6. NothingYet' /\ OnlyBattery' /\ InStep' /\ NotNewer' /\ ReadSinceStart'
    BY <1>2 DEF NothingYet, OnlyBattery, InStep, Done, NotNewer, ReadSinceStart
  <1>7. FieldsFrom' /\ FieldsFresh' /\ TornForward'
    BY <1>2 DEF FieldsFrom, FieldsFresh, TornForward
  <1>8. RowNotOlder'
    <2>1. packet[c].from = c => published[c] >= packet[c].n
      BY <1>1, <1>3, TelemetryAssumption DEF NotNewer
    <2>2. RowOrder[k' - 1] = c
      BY <1>4 DEF c
    <2> QED BY <2>1, <2>2, <1>2 DEF RowNotOlder
  <1> QED BY <1>5, <1>6, <1>7, <1>8

\* The end of a round and the call of obtemJSON keep it.
LEMMA RoundInv == IInv /\ (ReturnPacket \/ ObtemJSON) => IInv'
  <1> SUFFICES ASSUME IInv, ReturnPacket \/ ObtemJSON PROVE IInv'
    OBVIOUS
  <1> USE DEF IInv
  <1>1. CASE ReturnPacket
    <2> USE <1>1 DEF ReturnPacket
    <2>1. TypeOK'
      <3>1. k' = 1 /\ k' \in 1..(Len(ReadOrder) + 1)
        BY ReadOrderIs
      <3>2. column' \in 0..MaxSamples
        BY TelemetryAssumption
      <3> QED BY <3>1, <3>2 DEF TypeOK
    <2>2. NothingYet' /\ OnlyBattery' /\ InStep' /\ NotNewer' /\ ReadSinceStart'
      BY DEF NothingYet, OnlyBattery, InStep, Done, NotNewer, ReadSinceStart
    <2> QED BY <2>1, <2>2 DEF FieldsFrom, FieldsFresh, TornForward, RowNotOlder
  <1>2. CASE ObtemJSON
    <2> USE <1>2 DEF ObtemJSON
    <2>1. TypeOK'
      BY DEF TypeOK
    <2>2. NothingYet' /\ OnlyBattery' /\ InStep'
      BY DEF NothingYet, OnlyBattery, InStep, Done
    <2>3. NotNewer'
      <3>1. \A c \in Channels : published[c] \in Nat
        BY TelemetryAssumption DEF TypeOK
      <3> QED BY <3>1 DEF NotNewer
    <2>4. ReadSinceStart'
      BY DEF ReadSinceStart
    <2> QED BY <2>1, <2>2, <2>3, <2>4
            DEF FieldsFrom, FieldsFresh, TornForward, RowNotOlder
  <1> QED BY <1>1, <1>2

\* The invariant is inductive.
LEMMA NextInv == IInv /\ [Next]_vars => IInv'
  <1> SUFFICES ASSUME IInv, [Next]_vars PROVE IInv'
    OBVIOUS
  <1>1. CASE MainStep
    BY <1>1, SensorsInitInv, ReadFieldInv, BuildPacketInv, AppendFileInv, RoundInv
       DEF MainStep
  <1>2. CASE \E t \in Tasks : Publish(t)
    BY <1>2, PublishInv
  <1>3. CASE UNCHANGED vars
    <2> USE <1>3 DEF vars, IInv
    <2>1. TypeOK' /\ NothingYet' /\ OnlyBattery' /\ InStep' /\ NotNewer' /\ ReadSinceStart'
      BY DEF TypeOK, NothingYet, OnlyBattery, InStep, Done, NotNewer, ReadSinceStart
    <2> QED BY <2>1 DEF FieldsFrom, FieldsFresh, TornForward, RowNotOlder
  <1> QED BY <1>1, <1>2, <1>3 DEF Next

\* In every behaviour every state satisfies the invariant.
THEOREM Invariance == Spec => []IInv
  BY InitInv, NextInv, PTL DEF Spec

-----------------------------------------------------------------------------
(* The theorems.                                                           *)

\* The variables keep their types: no reading or column lies outside its table,
\* no member is counted beyond its bound.
THEOREM TelemetryTypeCorrect == Spec => []TypeOK
  <1>1. IInv => TypeOK
    BY DEF IInv
  <1> QED BY <1>1, Invariance, PTL

\* No field of a finished packet is older than its member was when obtemJSON
\* was called, although pacote is static.
THEOREM PacketFresh == Spec => []FieldsFresh
  <1>1. IInv => FieldsFresh
    BY DEF IInv
  <1> QED BY <1>1, Invariance, PTL

\* Of two fields of a packet that one task measures, axes of a vector included,
\* the one read later is never older by more than the measurement the task was
\* in the middle of, at whatever speed the tasks publish.
THEOREM PacketTornForward == Spec => []TornForward
  <1>1. IInv => TornForward
    BY DEF IInv
  <1> QED BY <1>1, Invariance, PTL

\* The row on the card is never older than the packet before it.
THEOREM RowAfterPacket == Spec => []RowNotOlder
  <1>1. IInv => RowNotOlder
    BY DEF IInv
  <1> QED BY <1>1, Invariance, PTL

\* A sensor that failed at boot leaves nothing but initial values in every
\* packet, the battery apart.
THEOREM FaultSilencesAll == Spec => []OneFaultSilencesAll
  <1>1. IInv => OneFaultSilencesAll
    BY GetterIs DEF IInv, OnlyBattery, OneFaultSilencesAll
  <1> QED BY <1>1, Invariance, PTL

-----------------------------------------------------------------------------
(* Where the fields of a packet come from.                                 *)

\* A field of the magnetometer is read after the gyroscope's and from the same
\* member: the two are a pair of TornForward that may not lag at all.
LEMMA GyroPairs ==
  ASSUME NEW f \in {"mag0", "mag1", "mag2"}
  PROVE  [first |-> Getter(f), second |-> f, lag |-> 0] \in ReadPairs
  <1>1. PICK i \in 4..6 : ReadOrder[i] = Getter(f) /\ Getter(ReadOrder[i]) = Getter(f)
    BY ReadOrderIs, GetterIs
  <1>2. PICK j \in 13..15 : ReadOrder[j] = f
    BY ReadOrderIs
  <1>3. PICK a \in 1..9 : Publishes["IMUTask"][a] = Getter(f)
    <2>1. /\ Publishes["IMUTask"][4] = "gyro0" /\ Publishes["IMUTask"][5] = "gyro1"
          /\ Publishes["IMUTask"][6] = "gyro2"
      BY DEF Publishes
    <2> QED BY <2>1, GetterIs
  <1>4. "IMUTask" \in SensorTasks /\ Len(Publishes["IMUTask"]) = 9
    BY DEF SensorTasks, Publishes
  <1>5. Assigns("IMUTask", Getter(f))
    BY <1>3, <1>4 DEF Assigns
  <1>6. {ReadOrder[i], ReadOrder[j]} \subseteq PacketFields
    BY <1>1, <1>2, GetterIs
  <1>7. OneTask(i, j)
    BY <1>1, <1>2, <1>4, <1>5, <1>6, Zenon DEF OneTask
  <1>8. Lag(i, j) = 0
    <2>1. ~\E t \in SensorTasks : AssignsInOrder(t, Getter(f), Getter(f))
      <3> SUFFICES ASSUME NEW t \in SensorTasks,
                          NEW b \in 1..Len(Publishes[t]), NEW d \in 1..Len(Publishes[t]),
                          b < d, Publishes[t][b] = Publishes[t][d]
                   PROVE FALSE
        BY DEF AssignsInOrder
      <3>1. b = d
        BY OnePlace
      <3>2. b \in Nat
        BY PublishesIs
      <3> QED BY <3>1, <3>2
    <2> QED BY <2>1, <1>1, <1>2 DEF Lag
  <1>9. j \in 1..18 /\ i \in 1..(j - 1)
    OBVIOUS
  <1> QED BY <1>1, <1>2, <1>7, <1>8, <1>9, ReadPairsAre

\* Every packet carries the gyroscope twice, and no reading of the magnetometer:
\* it is no accident of some interleaving.
THEOREM MagnetometerNeverPosted == Spec => []GyroscopePostedTwice
  <1>1. IInv => GyroscopePostedTwice
    <2> SUFFICES ASSUME IInv, phase = "idle", NEW f \in PacketFields
                 PROVE  /\ packet[f].from = Getter(f)
                        /\ f \in DOMAIN MagnetometerReturns
                             => packet[f].n >= packet[Getter(f)].n
      BY DEF GyroscopePostedTwice
    <2>1. packet[f].from = Getter(f)
      BY DEF IInv, FieldsFrom
    <2>2. ASSUME f \in DOMAIN MagnetometerReturns
          PROVE packet[f].n >= packet[Getter(f)].n
      <3>1. [first |-> Getter(f), second |-> f, lag |-> 0] \in ReadPairs
        BY <2>2, GetterIs, GyroPairs
      <3>2. packet[Getter(f)].n <= packet[f].n + 0
        BY <3>1 DEF IInv, TornForward
      <3>3. f \in Channels /\ Getter(f) \in Channels
        BY GetterIs
      <3>4. packet[Getter(f)].n \in Nat /\ packet[f].n \in Nat
        BY <3>3, TelemetryAssumption DEF IInv, TypeOK, Readings
      <3> QED BY <3>2, <3>4
    <2> QED BY <2>1, <2>2
  <1> QED BY <1>1, Invariance, PTL

=============================================================================
