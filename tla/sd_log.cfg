\* One boot more than names, two failing accesses.
SPECIFICATION FairSpec
CONSTANTS
    Base = 2
    MaxBoots = 5
    MaxRows = 1
    MaxFaults = 2
INVARIANTS
    NamesInOrder
    NamesTellBoots
PROPERTIES
    EarlierLogsKept
    SearchEndsWhileNamesRemain
