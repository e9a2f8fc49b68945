------------------------------- MODULE GroupNodes -------------------------------
(***************************************************************************)
(* What the groups layer reads in a node: the helpers of                   *)
(* src/src/binary/index.ts that search one, and the parsers of             *)
(* src/src/groups/index.ts.                                                *)
(*                                                                         *)
(* A node has a tag, attributes (a record with those that are there) and a *)
(* content, which is a sequence of nodes, a string or bytes.  Owner, date  *)
(* and the id of a description are left out.                               *)
(*                                                                         *)
(* An operator whose name ends in Mistake is a variant of the definition   *)
(* after it with a planted error; no specification uses it.                *)
(***************************************************************************)
EXTENDS Integers, Sequences, SequencesExt, FiniteSets, FiniteSetsExt

None == "undefined"

Node(tag, attrs, children) == [tag |-> tag, attrs |-> attrs, kind |-> "nodes", content |-> children]
TextNode(tag, kind, text) == [tag |-> tag, attrs |-> << >>, kind |-> kind, content |-> text]
NoAttrs == << >>

Attr(node, a, default) == IF a \in DOMAIN node.attrs THEN node.attrs[a] ELSE default

GetAllChildren(node) == IF node.kind = "nodes" THEN node.content ELSE << >>
\* The places of those with a tag.
With(node, tag) == {i \in DOMAIN GetAllChildren(node) : GetAllChildren(node)[i].tag = tag}

\* find(): the first one, if any
HasChild(node, tag) == With(node, tag) # {}
GetChild(node, tag) == GetAllChildren(node)[Min(With(node, tag))]

\* The elements of a list at the places K, in their order.
InOrder(K) == CHOOSE p \in [1..Cardinality(K) -> K] : \A i, j \in DOMAIN p : i < j => p[i] < p[j]
Only(list, K) == [n \in 1..Cardinality(K) |-> list[InOrder(K)[n]]]

\* filter()
GetChildren(node, tag) == Only(GetAllChildren(node), With(node, tag))

\* What is not a string is no text.
TextOf(node, default) == IF node.kind = "string" THEN node.content ELSE default

Participant(jid, type) ==
    [id           |-> jid,
     isAdmin      |-> type \in {"admin", "superadmin"},
     isSuperAdmin |-> type = "superadmin",
     admin        |-> IF type \in {"admin", "superadmin"} THEN type ELSE None]

\* Who is more than an administrator is none.
ParseParticipantsMistake(node) ==
    LET ps == GetChildren(node, "participant")
    IN  [i \in DOMAIN ps |->
            LET type == Attr(ps[i], "type", None)
            IN  Participant(ps[i].attrs.jid, IF type = "superadmin" THEN None ELSE type)]

ParseParticipants(node) ==
    LET ps == GetChildren(node, "participant")
    IN  [i \in DOMAIN ps |-> Participant(ps[i].attrs.jid, Attr(ps[i], "type", None))]

\* An id with "@g.us" after it: the group's, and that of a node without an id.
WithServer(id) == IF id = None THEN "undefined@g.us" ELSE "group@g.us"

\* Other ids have an "@".
GroupJid(id) == IF id \in {"group", None} THEN WithServer(id) ELSE id

ParseGroupMetadata(node) ==
    LET groupNode == IF HasChild(node, "group") THEN GetChild(node, "group") ELSE node
    IN  [id          |-> GroupJid(Attr(groupNode, "id", None)),
         subject     |-> Attr(groupNode, "subject", ""),
         description |->
            IF /\ HasChild(groupNode, "description")
               /\ HasChild(GetChild(groupNode, "description"), "body")
            THEN TextOf(GetChild(GetChild(groupNode, "description"), "body"), None)
            ELSE None,
         restrictedInviteOnly |-> HasChild(groupNode, "locked"),
         announce     |-> HasChild(groupNode, "announce"),
         participants |-> ParseParticipants(groupNode)]

ParticipantActions == {"add", "remove", "promote", "demote"}
Settings == {"locked", "unlocked", "announce", "not_announce"}

KnownTags == ParticipantActions \cup Settings \cup {"subject", "description", "create", "invite"}

\* The first child with a known tag decides; << >> is null.
ParseGroupNotification(node) ==
    LET known == {i \in DOMAIN GetAllChildren(node) : GetAllChildren(node)[i].tag \in KnownTags}
        child == GetAllChildren(node)[Min(known)]
    IN  IF known = {} THEN << >>
        ELSE <<CASE child.tag \in ParticipantActions ->
                    [type |-> "participant-update", action |-> child.tag,
                     participants |-> ParseParticipants(child)]
               [] child.tag = "subject" ->
                    [type |-> "subject", subject |-> TextOf(child, "")]
               [] child.tag = "description" ->
                    [type |-> "description", description |->
                        IF HasChild(child, "body") THEN TextOf(GetChild(child, "body"), "") ELSE ""]
               [] child.tag = "create" ->
                    [type |-> "create", metadata |-> ParseGroupMetadata(node)]
               [] child.tag = "invite" ->
                    [type |-> "invite", code |-> Attr(child, "code", "")]
               [] child.tag \in Settings -> [type |-> child.tag]>>

\* createGroup(): "no group node" and "no group JID" throw, as << >> here.
ParseCreated(node) ==
    IF HasChild(node, "group") /\ "id" \in DOMAIN GetChild(node, "group").attrs
    THEN <<[gid |-> WithServer(GetChild(node, "group").attrs.id),
            participants |-> ParseParticipants(GetChild(node, "group"))]>>
    ELSE << >>

\* The answer to <invite> is taken for one, whatever it is.
ParseInviteCodeMistake(node) ==
    <<[code |-> IF HasChild(node, "invite") THEN Attr(GetChild(node, "invite"), "code", None) ELSE None]>>

\* getGroupInviteCode() and revokeGroupInviteCode() throw without a code; none is empty.
ParseInviteCode(node) ==
    IF HasChild(node, "invite") /\ "code" \in DOMAIN GetChild(node, "invite").attrs
    THEN <<[code |-> GetChild(node, "invite").attrs.code]>>
    ELSE << >>

\* acceptGroupInvite() throws without the group's JID.
ParseAccepted(node) ==
    IF HasChild(node, "group") /\ "jid" \in DOMAIN GetChild(node, "group").attrs
    THEN <<[jid |-> GetChild(node, "group").attrs.jid]>>
    ELSE << >>

===============================================================================
