\* The task with the most members, two measurements of it.
SPECIFICATION Spec
CONSTANTS
    Tasks = {"IMUTask"}
    SensorFaults = {{"CCS811"}}
    MaxSamples = 2
INVARIANTS
    FieldsFresh
    TornForward
    RowNotOlder
    OneFaultSilencesAll
