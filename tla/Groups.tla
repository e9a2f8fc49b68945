--------------------------------- MODULE Groups ---------------------------------
(***************************************************************************)
(* The operations of makeGroupsLayer() (src/src/groups/index.ts) on the    *)
(* query layer, and the group that the store keeps: filled by groups.upsert *)
(* with the metadata of a query, brought up to date by notifications which *)
(* parseGroupNotification() has read.                                      *)
(*                                                                         *)
(* There is one group, and a request is what the server reads of it: its   *)
(* kind, people, text or code.  The engine hands no notification on        *)
(* (handleNotificationNode() writes a log line), so the steps from a       *)
(* result of the parser to an event are those that groups/index.ts:306 and *)
(* the types of the events describe.  A connection keeps the order of a    *)
(* response and of the notifications of later changes; they may come in    *)
(* one piece, and then the notifications are handled before the code that  *)
(* awaits the response goes on.                                            *)
(*                                                                         *)
(* An operator whose name ends in Mistake is a variant of the definition   *)
(* after it with a planted error; no specification uses it.                *)
(***************************************************************************)
EXTENDS Query, GroupNodes, Integers, FiniteSets, FiniteSetsExt

CONSTANTS
    Members,      \* other people
    me,
    Texts,        \* subjects and descriptions that are not empty
    Operations,   \* those that the client calls
    OthersDo,     \* those that other people do
    StringTexts,  \* those of them that the binary codec gives back as a string
    MaxChanges    \* bound: changes of the group

ASSUME MembersAssumption == IsFiniteSet(Members)
ASSUME TextsAssumption == StringTexts \subseteq Texts /\ "" \notin Texts
ASSUME ChangesAssumption == MaxChanges \in Nat

People == Members \cup {me}
Roles == {"member", "admin", "superadmin"}

VARIABLES
    group,    \* at the server: members (person -> role), settings, texts, invite code
    log,      \* its changes, and whether this client is told of them
    next,     \* notifications of those before have come
    acked,    \* those before need not come again
    request,  \* per query: what was asked for, until the operation has returned
    answer,   \* per query: the node that answers, how much of the log it has seen and,
              \* as history, the group that the request has made, if it was not refused
    known,    \* the store's groupMetadata for the group: none or one
    since     \* history: the first change whose notification may have come after the
              \* metadata was stored, unless one of a change that is not in it came before

server == <<group, log>>
calls  == <<request, answer>>
stored == <<known, since>>
gvars  == <<server, next, acked, calls, stored>>
allvars == <<vars, gvars>>

Untracked == 0

NoGroup == [members |-> << >>, locked |-> FALSE, announce |-> FALSE,
            subject |-> "", description |-> "", code |-> 0]

NewGroup(ids, subject) ==
    [NoGroup EXCEPT !.members = [p \in ids \cup {me} |-> IF p = me THEN "superadmin" ELSE "member"],
                    !.subject = subject, !.code = 1]

GroupsInit ==
    /\ Init
    /\ \/ group = NoGroup
       \/ \E m \in Members, t \in Texts : group = NewGroup({m}, t)
    /\ log = << >>
    /\ next = 1
    /\ acked = 1
    /\ request = [q \in Queries |-> << >>]
    /\ answer = [q \in Queries |-> << >>]
    /\ known = << >>
    /\ since = Untracked

-----------------------------------------------------------------------------
(* The requests, one per operation of the layer.                            *)

GetGroupMetadata == {[op |-> "metadata"]}
CreateGroup == [op : {"create"}, ids : SUBSET Members, text : Texts]
UpdateParticipants == [op : ParticipantActions, ids : (SUBSET People) \ {{}}]
UpdateGroupSubject == [op : {"subject"}, text : Texts]
UpdateGroupDescription == [op : {"description"}, text : Texts \cup {""}]
SetGroupAnnounce == [op : {"announce", "not_announce"}]
SetGroupRestrict == [op : {"locked", "unlocked"}]
GetGroupInviteCode == {[op |-> "invite"]}
RevokeGroupInviteCode == {[op |-> "revoke"]}
AcceptGroupInvite == [op : {"accept"}, code : 1 .. group.code]
LeaveGroup == {[op |-> "leave"]}

Requests ==
    UNION {GetGroupMetadata, CreateGroup, UpdateParticipants, UpdateGroupSubject,
           UpdateGroupDescription, SetGroupAnnounce, SetGroupRestrict, GetGroupInviteCode,
           RevokeGroupInviteCode, AcceptGroupInvite, LeaveGroup}

Reads == {"metadata", "invite"}

-----------------------------------------------------------------------------
(* The server.                                                              *)

In(g, p) == p \in DOMAIN g.members

\* What may be done in a group by one of its members p; joining is for those outside.
Allowed(g, r, p) ==
    CASE r.op = "create" -> g.code = 0
      [] r.op = "accept" -> ~In(g, p) /\ r.code = g.code
      [] r.op = "add"    -> In(g, p) /\ r.ids \cap DOMAIN g.members = {}
      [] r.op = "remove" -> In(g, p) /\ r.ids \subseteq DOMAIN g.members
      [] r.op \in {"promote", "demote"} ->
            /\ In(g, p)
            /\ r.ids \subseteq DOMAIN g.members
            /\ \A k \in r.ids : g.members[k] = IF r.op = "promote" THEN "member" ELSE "admin"
      [] OTHER -> In(g, p)

Put(map, S, v) == [k \in DOMAIN map \cup S |-> IF k \in S THEN v ELSE map[k]]

\* The group after a change by p.
Changed(g, r, p) ==
    CASE r.op = "create"  -> NewGroup(r.ids, r.text)
      [] r.op = "accept"  -> [g EXCEPT !.members = Put(@, {p}, "member")]
      [] r.op = "add"     -> [g EXCEPT !.members = Put(@, r.ids, "member")]
      [] r.op = "remove"  -> [g EXCEPT !.members = Restrict(@, DOMAIN @ \ r.ids)]
      [] r.op = "leave"   -> [g EXCEPT !.members = Restrict(@, DOMAIN @ \ {p})]
      [] r.op = "promote" -> [g EXCEPT !.members = Put(@, r.ids, "admin")]
      [] r.op = "demote"  -> [g EXCEPT !.members = Put(@, r.ids, "member")]
      [] r.op = "subject" -> [g EXCEPT !.subject = r.text]
      [] r.op = "description" -> [g EXCEPT !.description = r.text]
      [] r.op \in {"locked", "unlocked"} -> [g EXCEPT !.locked = (r.op = "locked")]
      [] r.op \in {"announce", "not_announce"} -> [g EXCEPT !.announce = (r.op = "announce")]
      [] r.op = "revoke"  -> [g EXCEPT !.code = @ + 1]
      [] r.op \in Reads   -> g

\* A text is sent as bytes, and comes out as a string only if the codec has a form for it.
Received(tag, text) == TextNode(tag, IF text \in StringTexts THEN "string" ELSE "bytes", text)

ParticipantNodes(members) ==
    LET ps == SetToSeq(DOMAIN members)
    IN  [i \in DOMAIN ps |->
            Node("participant",
                 IF members[ps[i]] = "member" THEN [jid |-> ps[i]]
                 ELSE [jid |-> ps[i], type |-> members[ps[i]]], << >>)]

GroupNode(g) ==
    Node("group", [id |-> "group", subject |-> g.subject],
         ParticipantNodes(g.members)
         \o (IF g.locked THEN <<Node("locked", NoAttrs, << >>)>> ELSE << >>)
         \o (IF g.announce THEN <<Node("announce", NoAttrs, << >>)>> ELSE << >>)
         \o (IF g.description = "" THEN << >>
             ELSE <<Node("description", NoAttrs, <<Received("body", g.description)>>)>>))

\* The answer to r, which made the group g.
AnswerNode(g, r) ==
    Node("iq", [type |-> "result"],
         CASE r.op \in {"metadata", "create"} -> <<GroupNode(g)>>
           [] r.op \in {"invite", "revoke"} -> <<Node("invite", [code |-> g.code], << >>)>>
           [] r.op = "accept" -> <<Node("group", [jid |-> "group@g.us"], << >>)>>
           [] r.op \in ParticipantActions -> ParticipantNodes([p \in r.ids |-> "member"])
           [] OTHER -> << >>)

ErrorNode == Node("iq", [type |-> "error"], <<Node("error", NoAttrs, << >>)>>)

\* The notification of r, as parseGroupNotification() reads it.
NotificationNode(r, p) ==
    Node("notification", [from |-> "group@g.us", author |-> p],
         CASE r.op \in ParticipantActions ->
                <<Node(r.op, NoAttrs, ParticipantNodes([k \in r.ids |-> "member"]))>>
           [] r.op = "accept" -> <<Node("add", NoAttrs, ParticipantNodes([k \in {p} |-> "member"]))>>
           [] r.op = "leave" -> <<Node("remove", NoAttrs, ParticipantNodes([k \in {p} |-> "member"]))>>
           [] r.op = "create" -> <<Node("create", NoAttrs, << >>), GroupNode(NewGroup(r.ids, r.text))>>
           [] r.op = "subject" -> <<Received("subject", r.text)>>
           [] r.op = "description" -> <<Node("description", NoAttrs, <<Received("body", r.text)>>)>>
           [] r.op = "revoke" -> <<Node("invite", NoAttrs, << >>)>>
           [] OTHER -> <<Node(r.op, NoAttrs, << >>)>>)

\* The server does r for p, and tells those in the group before or after it.
Does(r, p) ==
    /\ Allowed(group, r, p)
    /\ group' = Changed(group, r, p)
    /\ IF r.op \in Reads THEN log' = log
       ELSE /\ Len(log) < MaxChanges
            /\ log' = Append(log, [r |-> r, by |-> p, told |-> In(group, me) \/ In(group', me)])

\* Somebody else changes the group.
OthersChange(r, p) ==
    /\ r.op \in OthersDo
    /\ Does(r, p)
    /\ UNCHANGED <<vars, next, acked, calls, stored>>

\* The server does what a query asks for, or refuses it.
Serves(q) ==
    /\ ServerAnswers(q)
    /\ \/ /\ Does(request[q][1], me)
          /\ answer' = [answer EXCEPT ![q] =
                <<[node |-> AnswerNode(group', request[q][1]), seen |-> Len(log'), of |-> <<group'>>]>>]
       \/ /\ answer' = [answer EXCEPT ![q] = <<[node |-> ErrorNode, seen |-> Len(log), of |-> << >>]>>]
          /\ UNCHANGED server
    /\ UNCHANGED <<next, acked, request, stored>>

\* The server takes the notifications that have come for received.
Acknowledged ==
    /\ acked < next
    /\ acked' = next
    /\ UNCHANGED <<vars, server, next, calls, stored>>

\* A new connection: what was not acknowledged comes again.
Redelivery ==
    /\ Reconnected
    /\ next' = acked
    /\ since' = Min({since, acked})
    /\ UNCHANGED <<server, acked, calls, known>>

-----------------------------------------------------------------------------
(* The client.                                                              *)

Told == {i \in next .. Len(log) : log[i].told}
UpToDate == Told = {}
FirstTold == Min(Told)

Has(list, id) == \E i \in DOMAIN list : list[i].id = id

WithAdmin(list, ps, admin) ==
    [i \in DOMAIN list |->
        IF Has(ps, list[i].id)
        THEN [list[i] EXCEPT !.isAdmin = (admin # None), !.admin = admin]
        ELSE list[i]]

\* An operation: query(), up to its first await.
Call(q, r) ==
    /\ r.op \in Operations
    /\ Start(q)
    /\ request' = [request EXCEPT ![q] = <<r>>]
    /\ UNCHANGED <<server, next, acked, answer, stored>>

\* What the operation makes of the answer; << >> if it throws.
Outcome(r, node) ==
    CASE r.op = "metadata" -> <<ParseGroupMetadata(node)>>
      [] r.op = "create" -> ParseCreated(node)
      [] r.op \in ParticipantActions -> <<ParseParticipants(node)>>
      [] r.op \in {"invite", "revoke"} -> ParseInviteCode(node)
      [] r.op = "accept" -> ParseAccepted(node)
      [] OTHER -> <<None>>

\* An operation returns.  The caller gives the metadata of the group to the store; those
\* of a refused query are of a group "undefined@g.us".
Returns(q) ==
    LET outcome == Outcome(request[q][1], answer[q][1].node)
        seen == answer[q][1].seen
    IN  /\ caller[q] = "answered"
        /\ request[q] # << >>
        /\ request' = [request EXCEPT ![q] = << >>]
        /\ answer' = [answer EXCEPT ![q] = << >>]
        /\ IF request[q][1].op = "metadata" /\ outcome[1].id = "group@g.us"
           THEN known' = outcome /\ since' = IF next <= seen + 1 THEN next ELSE Untracked
           ELSE UNCHANGED stored
        /\ UNCHANGED <<vars, server, next, acked>>

\* Those who are there are added again.
UpdatedMistake(list, action, ps) ==
    CASE action = "add"     -> list \o ps
      [] action = "remove"  -> Only(list, {i \in DOMAIN list : ~Has(ps, list[i].id)})
      [] action = "promote" -> WithAdmin(list, ps, "admin")
      [] action = "demote"  -> WithAdmin(list, ps, None)

\* group-participants.update
Updated(list, action, ps) ==
    CASE action = "add"     -> list \o Only(ps, {i \in DOMAIN ps : ~Has(list, ps[i].id)})
      [] action = "remove"  -> Only(list, {i \in DOMAIN list : ~Has(ps, list[i].id)})
      [] action = "promote" -> WithAdmin(list, ps, "admin")
      [] action = "demote"  -> WithAdmin(list, ps, None)

ParticipantsUpdate(update) ==
    known' = [i \in DOMAIN known |->
        [known[i] EXCEPT !.participants = Updated(@, update.action, update.participants)]]

\* { ...existing, ...update }
Spread(existing, update) ==
    [f \in DOMAIN existing \cup DOMAIN update |->
        IF f \in DOMAIN update THEN update[f] ELSE existing[f]]

\* groups.update, if there is one.
GroupsUpdate(update) == known' = [i \in DOMAIN known |-> Spread(known[i], update)]

\* groups.upsert
GroupsUpsert(metadata) == known' = <<metadata>>

\* The event for a result of parseGroupNotification().
Emitted(n) ==
    CASE n.type = "participant-update" -> ParticipantsUpdate(n)
      [] n.type = "subject"            -> GroupsUpdate([subject |-> n.subject])
      [] n.type = "description"        -> GroupsUpdate([description |-> n.description])
      [] n.type = "invite"             -> GroupsUpdate([inviteCode |-> n.code])
      [] n.type \in {"locked", "unlocked"} ->
            GroupsUpdate([restrictedInviteOnly |-> n.type = "locked"])
      [] n.type \in {"announce", "not_announce"} ->
            GroupsUpdate([announce |-> n.type = "announce"])
      [] n.type = "create" -> GroupsUpsert(n.metadata)

\* A notification comes, but not before the response that went out before it.
NotificationArrives ==
    LET i == FirstTold
        n == ParseGroupNotification(NotificationNode(log[i].r, log[i].by))
    IN  /\ connected
        /\ ~UpToDate
        /\ \A q \in toClient : promise[q] = "pending" => answer[q][1].seen >= i
        /\ next' = i + 1
        /\ Emitted(n[1])
        /\ since' = IF n[1].type = "create" THEN i + 1 ELSE since
        /\ UNCHANGED <<vars, server, acked, calls>>

-----------------------------------------------------------------------------
(* The query layer, which all of the above stands on.                       *)

QueryStep ==
    /\ \/ ConnectionLost
       \/ \E q \in Queries : Sent(q) \/ Response(q) \/ TimesOut(q)
    /\ UNCHANGED gvars

GroupsNext ==
    \/ QueryStep
    \/ Redelivery \/ Acknowledged \/ NotificationArrives
    \/ \E r \in Requests :
          \/ \E p \in Members : OthersChange(r, p)
          \/ \E q \in Queries : Call(q, r)
    \/ \E q \in Queries : Serves(q) \/ Returns(q)

GroupsSpec == GroupsInit /\ [][GroupsNext]_allvars

-----------------------------------------------------------------------------
\* What the store has of a text of the server, unless it came as bytes.
SameText(text, mine) == text \in StringTexts => mine = text

SameGroup(g, mine) ==
    /\ Len(mine.participants) = Cardinality(DOMAIN g.members)
    /\ ToSet(mine.participants) = {Participant(p, g.members[p]) : p \in DOMAIN g.members}
    /\ mine.announce = g.announce
    /\ mine.restrictedInviteOnly = g.locked
    /\ SameText(g.subject, mine.subject)
    /\ SameText(g.description, mine.description)

\* The store follows the group: once all notifications have come, in any number of
\* deliveries, it has the participants with their roles, the settings and the texts of the
\* server, even if the metadata was newer than what came after it, and whatever became of
\* other queries.  Excepted is metadata that a later notification has overtaken on its way
\* to the store, and a gap in the notifications from the first that came after it.
StoreConverges ==
    since # Untracked /\ UpToDate /\ (\A i \in since .. Len(log) : log[i].told)
        => SameGroup(group, known[1])

\* What an operation makes of its answer.
Returned(q) == Outcome(request[q][1], answer[q][1].node)
AboutToReturn == {q \in Queries : caller[q] = "answered" /\ request[q] # << >>}

\* An error node resolves a query as any answer does; what the caller then gets depends on the
\* operation.  createGroup(), acceptGroupInvite() and the two for the invite code throw if and
\* only if the server refused, and nothing else throws.  getGroupMetadata() returns a group
\* that is not the one it was asked for, updateParticipants() nobody instead of those it was
\* called with; the others (subject, description, settings, leave) return nothing in either
\* case, so that their callers cannot tell.  After a success each returns what the server has:
\* the group with its members, a code that is valid at that time, or the group that was
\* joined, also if the answer overtook the end of the write or came twice.
ResultsAreReal ==
    \A q \in AboutToReturn :
        LET r == request[q][1]
            made == answer[q][1].of
            result == Returned(q)
        IN  /\ result = << >> <=> made = << >> /\ r.op \in {"create", "invite", "revoke", "accept"}
            /\ r.op = "metadata" => (result[1].id = "group@g.us" <=> made # << >>)
            /\ r.op \in ParticipantActions =>
                    {p.id : p \in ToSet(result[1])} = IF made = << >> THEN {} ELSE r.ids
            /\ made # << >> =>
                 /\ r.op = "metadata" => SameGroup(made[1], result[1])
                 /\ r.op = "create" =>
                        /\ result[1].gid = "group@g.us"
                        /\ ToSet(result[1].participants) =
                               {Participant(p, made[1].members[p]) : p \in DOMAIN made[1].members}
                 /\ r.op \in {"invite", "revoke"} => result[1].code = made[1].code
                 /\ r.op = "accept" => result[1].jid = "group@g.us" /\ me \in DOMAIN made[1].members

\* groups/index.ts:46: getGroupMetadata() is to "fetch full metadata for a group JID", with
\* its subject and description.
MetadataIsFull ==
    \A q \in AboutToReturn : request[q][1].op = "metadata" =>
        /\ Returned(q)[1].id = "group@g.us"
        /\ Returned(q)[1].description = None => answer[q][1].of[1].description = ""

\* groups/index.ts:306: notifications keep the groups up to date; the metadata that is
\* stored is not older than those handled before.
MetadataIsCurrent == known # << >> => since # Untracked

===============================================================================
