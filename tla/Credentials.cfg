\* The agent and one command beside it.
SPECIFICATION FairSpec
CONSTANTS
    Procs = {agent, admin}
    Agent = agent
    Accounts = {a, b}
    NoAccount = NoAccount
    MaxGrants = 3
    CallIds = {1, 2}
INVARIANTS TypeOK OneAccount UsedIsSaved
PROPERTIES StartsInTheEnd
