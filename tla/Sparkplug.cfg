\* Two births in flight, and a submission of one reading or two.
SPECIFICATION FairSpec
CONSTANTS
    Comps = {c, d}
    CloudCatalog = {c, d}
    SubIds = {1}
    MaxBirths = 2
    Patience = 2
INVARIANTS TypeOK
PROPERTIES AnnouncedBeforeData SubmissionsAnswered
