\* The same messages.
SPECIFICATION Spec
CONSTANTS
    Updates = {u}
    Attrs = {"owner", "agent_version"}
    Reported = {"agent_version"}
    Values = {Ann}
    Own = Own
    Places = {Home}
    Words = {}
    Titles = {"name"}
    None = None
    Docs <- MCDocs
    Temp = Temp
    Hum = Hum
    Home = Home
    Ann = Ann
    Names = {Temp, Hum}
    Short = Short
    Undefined = Undefined
    MaxRegs = 1
    Sendable <- MCSendable
PROPERTIES ListsSubmitted
