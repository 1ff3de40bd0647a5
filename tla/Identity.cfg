\* Two programs that may run at the same time, and two names for the device.
SPECIFICATION FairSpec
CONSTANTS
    Procs = {p, q}
    Keys <- MCKeys
    Values <- MCValues
    Missing = Missing
    Default <- MCDefault
    Ids = {i, j}
    Off = Off
    Given = Given
INVARIANTS TypeOK TokenFitsId
PROPERTIES KeepsConfigContract RepairedInTheEnd
