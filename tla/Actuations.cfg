\* Two components, two actuations.
SPECIFICATION FairSpec
CONSTANTS
    Cids = {x, y}
    MaxActuations = 2
    Never = Never
INVARIANTS TypeOK PulledOnce 
PROPERTIES KnownIsForwarded PulledInTheEnd
CHECK_DEADLOCK FALSE
