\* A post every 2 units of a clock that wraps after 9, calls that take 0 or 1
\* unit, quick and slow boots, a portal of 2 units whose loop takes 1 or 2 for a
\* pass, one retry, one reset.
SPECIFICATION FairSpec
CONSTANTS
    Wrap = 9
    Interval = 2
    WaitDelay = 1
    Timeout = 2
    Polls = {1, 2}
    OtaWait = 2
    CallTimes = {0, 1}
    BootTimes = {1, 3}
    MaxRetries = 1
    MaxResets = 1
INVARIANTS
    PortalOnTimeUnlessMissed
PROPERTIES
    ImplementsPortal
    PostSpacing
    PostNotOverdue
    FirstPost
    KeepsPosting
    RecoversAfterOutage
