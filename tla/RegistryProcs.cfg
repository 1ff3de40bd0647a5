\* The agent and one admin command at a time, on the same device.json.
SPECIFICATION Spec
CONSTANTS
    Cids = {c1, c2}
    Procs = {agent, admin}
    Agent = agent
    NoProc = NoProc
    UpdateIds = {1}
    MaxRegs = 2
    Names <- SpelledNames
    Types <- MCTypes
    Lower <- MCLower
    Kinds <- OneKind
SYMMETRY CidSymmetry
INVARIANTS ListedTwiceAtMost
PROPERTIES KeepsContract
