\* Two components, two actuations.
SPECIFICATION FairSpec
CONSTANTS
    Cids = {x, y}
    MaxActuations = 2
    Never = Never

PROPERTIES FirstPull
CHECK_DEADLOCK FALSE
