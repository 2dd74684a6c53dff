------------------------------ MODULE MCI2CBus ------------------------------
(* I2CBus for TLC: the four sensor tasks and vLowTask of the flight        *)
(* configuration, or the first three of them for scans and faults.           *)
EXTENDS I2CBus

CONSTANTS baro, temp, rgb, co2, imu

AllTasks == {baro, temp, rgb, co2, imu}
ThreeTasks == {baro, temp, rgb}

\* The addresses of the BMP280, SHT31, port expander, CCS811 and MPU9250.
DeviceAddress(t) ==
    CASE t = baro -> 118 [] t = temp -> 68 [] t = rgb -> 32
      [] t = co2 -> 90 [] t = imu -> 104

\* measure (read the mode, read and write the control register) and hasValue
\* (status, temperature, pressure) of the BMP280; temperature and humidity;
\* read, then write the expander; available, and readData if it is; one burst
\* read of the IMU.
Accesses(t) ==
    CASE t = baro -> {6} [] t = temp -> {2} [] t = rgb -> {2}
      [] t = co2 -> {1, 2} [] t = imu -> {1}

MCAddress == [t \in Tasks |-> DeviceAddress(t)]
MCXfers == [t \in Tasks |-> Accesses(t)]

\* The addresses of 3..119 that have a device in use, and one that nobody has,
\* in the order of the loop.
MCScanRange == {32, 68, 118, 119}

=============================================================================
