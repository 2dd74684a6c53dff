\* The card is full of logs.
SPECIFICATION FairSpec
CONSTANTS
    Base = 2
    MaxBoots = 5
    MaxRows = 1
    MaxFaults = 0
PROPERTIES
    SearchEnds
