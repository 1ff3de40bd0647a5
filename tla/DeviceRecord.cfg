\* Two updates in flight, two custom attributes and a reported one.
SPECIFICATION FairRecordSpec
CONSTANTS
    Updates = {u, v}
    Attrs = {"owner", "room", "agent_version"}
    Reported = {"agent_version"}
    Values = {"ann", "bob", "hall"}
    Own = Own
    Places = {"here"}
    Words = {}
    Titles = {"old", "new"}
    None = None
    Docs <- AttributeDocs
INVARIANTS RecordTypeOK
PROPERTIES AttributesKept RepeatedUpdateLands
