\* The agent alone, restarted at will: three ids, two names.
SPECIFICATION Spec
CONSTANTS
    Cids = {c1, c2, c3}
    Procs = {agent}
    Agent = agent
    NoProc = NoProc
    UpdateIds = {1}
    MaxRegs = 1
    Names <- MCNames
    Types <- MCTypes
    Lower <- MCLower
    Kinds <- TwoNames
SYMMETRY CidSymmetry
INVARIANTS TypeOK KnownWasAccepted ReadingIsRouted
PROPERTIES SyncConverges
