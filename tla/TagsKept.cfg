\* One update at a time, with tags.
SPECIFICATION RecordSpec
CONSTANTS
    Updates = {u}
    Attrs = {"owner", "room", "agent_version"}
    Reported = {"agent_version"}
    Values = {"ann", "bob", "hall"}
    Own = Own
    Places = {}
    Words = {Home, Lab}
    Titles = {}
    None = None
    Docs <- TagDocs
PROPERTIES TagsKept
