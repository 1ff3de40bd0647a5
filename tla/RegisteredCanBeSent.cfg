\* A statement of the documentation.
SPECIFICATION Spec
CONSTANTS
    Comps = {c, d}
    CloudCatalog = {c, d}
    SubIds = {1}
    MaxBirths = 2
    Patience = 2
INVARIANTS RegisteredCanBeSent
