\* Boots with no, one or two faulty sensors, a battery in every range, and
\* GPSTask over the wrap of millis().
SPECIFICATION TasksSpec
CONSTANTS
    Faults = {{"CCS811"}, {"BMP280", "MPU9250"}}
    Volts = {1, 2, 3}
    VMin = 2
    VLow = 2
    VMax = 3
    Samples = 2
    Wrap = 6
    Rate = 2
    PassTimes = {1, 2}
    CopyTimes = {0, 1}
INVARIANTS
    BuzzerShared
    FaultsShown
    PositionFresh
PROPERTIES
    AveragesMeasurements
    ErrorHeard
    LowBatteryHeard
    ChargedBatterySilent
