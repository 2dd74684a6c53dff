\* The operator types i2cdetect, and measure() may report failure: BaroTask
\* then leaves by continue.
SPECIFICATION FairSpec
CONSTANTS
    baro = baro
    temp = temp
    rgb = rgb
    co2 = co2
    imu = imu
    NoTask = NoTask
    Baro <- baro
    Tasks <- ThreeTasks
    Address <- MCAddress
    Xfers <- MCXfers
    MeasureXfers = 3
    ValueXfers = 3
    ScanRange <- MCScanRange
    ConsoleScans = TRUE
    MeasureOutcomes = {TRUE, FALSE}
INVARIANTS
    OnlyBaroLeaks
    ScanConfinesDamage
PROPERTIES
    LeakIsForever
    TasksKeepCycling
