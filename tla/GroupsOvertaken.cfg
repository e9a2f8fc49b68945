\* Whether a notification may overtake metadata on its way to the store.
SPECIFICATION GroupsSpec
CONSTANTS
    Queries = {q1}
    queryTimeoutMs = 60000
    Members = {x}
    me = me
    Texts = {t}
    StringTexts = {t}
    MaxChanges = 1
    Operations = {"metadata"}
    OthersDo = {"promote"}
INVARIANTS
    MetadataIsCurrent
