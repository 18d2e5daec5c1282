SPECIFICATION FairSpec
CONSTANTS
    Investigators = {1}
    MaxPrompt = 2
    MaxFaults = 2
    MaxQueue = 1
    MaxInbox = 2
INVARIANTS PageTrue CommandsMeant
PROPERTIES OnlyForward Settles
CHECK_DEADLOCK FALSE
