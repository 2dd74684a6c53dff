\* Up to three crashes or failing calls, anywhere in the updates.
SPECIFICATION FairSpec
CONSTANTS
    Images <- MCImages
    Size <- MCSize
    Reports <- MCReports
    Capacity = 3
    Factory = 9
    Manifests <- MCManifests
    FirmwareType = "esp32-fota-http"
    MaxFaults = 3
INVARIANTS
    BootableIsWhole
    BootPartBootable
    UpdaterReady
PROPERTIES
    RunningUntouched
    ImplementsSlot
    UpdateCompletes
    OnlyNewerStarts
