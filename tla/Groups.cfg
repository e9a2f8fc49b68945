\* One call of the groups layer beside three changes by others.
SPECIFICATION GroupsSpec
CONSTANTS
    Queries = {q1}
    queryTimeoutMs = 60000
    Members = {x}
    me = me
    Texts = {t}
    StringTexts = {t}
    MaxChanges = 3
    Operations = {"metadata", "create", "add", "remove", "promote", "demote", "leave", "accept", "locked", "unlocked",
                  "announce", "not_announce", "subject", "description", "invite", "revoke"}
    OthersDo = {"add", "remove", "promote", "locked", "accept"}
INVARIANTS
    ResultsAreReal
    StoreConverges
