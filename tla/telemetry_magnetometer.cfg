SPECIFICATION Spec
CONSTANTS
    Tasks = {"IMUTask"}
    SensorFaults = {}
    MaxSamples = 2
INVARIANT MagnetometerPosted
