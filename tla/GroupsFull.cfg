\* Whether getGroupMetadata() returns what the server has.
SPECIFICATION GroupsSpec
CONSTANTS
    Queries = {q1}
    queryTimeoutMs = 60000
    Members = {x}
    me = me
    Texts = {t, u}
    StringTexts = {t}
    MaxChanges = 1
    Operations = {"metadata", "description"}
    OthersDo = {"description"}
INVARIANTS
    MetadataIsFull
