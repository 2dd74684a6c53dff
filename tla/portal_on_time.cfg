SPECIFICATION Spec
CONSTANTS
    Wrap = 16
    Timeout = 3
    Polls = {1, 2, 4}
    Pauses = {1, 5}
INVARIANT PortalOnTime
