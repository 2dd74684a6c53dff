\* All five tasks, as flown: bmp.measure() only returns true, critical
\* sections may outlast the 500 ticks, nobody types i2cdetect.
SPECIFICATION FairSpec
CONSTANTS
    baro = baro
    temp = temp
    rgb = rgb
    co2 = co2
    imu = imu
    NoTask = NoTask
    Baro <- baro
    Tasks <- AllTasks
    Address <- MCAddress
    Xfers <- MCXfers
    MeasureXfers = 3
    ValueXfers = 3
    ScanRange <- MCScanRange
    ConsoleScans = FALSE
    MeasureOutcomes = {TRUE}
INVARIANTS
    MutualExclusion
    Routed
PROPERTIES
    ImplementsBus
    TasksKeepSampling
