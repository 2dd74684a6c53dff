\* i2cdetect on the bus without the mutex.
SPECIFICATION Spec
CONSTANTS
    baro = baro
    temp = temp
    rgb = rgb
    co2 = co2
    imu = imu
    NoTask = NoTask
    Baro <- baro
    Tasks <- ThreeTasks
    Address <- MCAddress
    Xfers <- MCXfers
    MeasureXfers = 3
    ValueXfers = 3
    ScanRange <- MCScanRange
    ConsoleScans = TRUE
    MeasureOutcomes = {TRUE}
INVARIANTS
    Routed
