------------------------------ MODULE Requests ------------------------------
(***************************************************************************)
(* The request API: every call of Client that is one WebSocket RPC, every  *)
(* call of HTTPClient, their argument checks, the encodings they choose    *)
(* and the decoding of the answers.  Two encoders and two decoders stand   *)
(* between the callers and one server; the module shows that together they *)
(* implement Directory.                                                    *)
(*                                                                         *)
(* calls[c]     the call of c: its phase, the command it stands for, what  *)
(*              it waits for (out) and the value it returned               *)
(* inflight[c]  its request on the wire, replies[c] the response           *)
(* expected[c]  the answer owed to that command by the state in which the  *)
(*              server served the request (a history variable)             *)
(*                                                                         *)
(* A caller makes one call.  Request ids keep the calls of a connection    *)
(* apart (module Client); here the id of a call is its caller.  The calls  *)
(* of Rivals are the few that write what the others read.                  *)
(*                                                                         *)
(* Bodies, profiles and configurations are tokens; nil and empty bytes are *)
(* told apart where the code does, in the value of a metadata entry.       *)
(***************************************************************************)
EXTENDS Integers, Sequences

CONSTANTS Callers, Rivals, MaxNode, MaxUser, Nil

\* (Nil, a nil pointer or an absent field, is not the name of a type)
ASSUME RequestsAssumption ==
    Rivals \subseteq Callers /\ MaxNode \in Nat \ {0} /\ MaxUser \in Nat \ {0} /\ Nil # "bool"

VARIABLES db, calls, inflight, replies, expected

vars == <<db, calls, inflight, replies, expected>>

\* the conversion that keeps the low 32 bits of an int
Int32Size == 4  \* stands for 2^32
int32(n) == ((n + Int32Size \div 2) % Int32Size) - Int32Size \div 2

\* What a call asks for.  THE EXCEPTION: over the WebSocket the limit of ListMessages and of ListEvents
\* is converted to an int32 unchecked, and a caller whose limit does not fit asks for another one.
Asked(call) ==
    IF call.cmd # Nil /\ call.cmd.op \in {"messages", "events"} /\ call.out.via = "ws"
    THEN [call.cmd EXCEPT !.limit = int32(@)] ELSE call.cmd

\* "broken" is a call that failed on a good answer: it has no counterpart in Directory
Service == INSTANCE Directory WITH
    ops <- [c \in Callers |->
        [caller |-> IF calls[c].phase = "sent" THEN "waiting" ELSE calls[c].phase,
         server |-> IF inflight[c] # Nil THEN "pending" ELSE IF expected[c] # Nil THEN "applied" ELSE "none",
         cmd    |-> Asked(calls[c]),
         answer |-> expected[c],
         value  |-> calls[c].value]]

Visible == Service!Visible
ZeroRef == Service!ZeroRef
Refs == Service!Refs
HasPrefix(k, p) == Service!HasPrefix(k, p)

NoCall == [phase |-> "idle", cmd |-> Nil, out |-> Nil, value |-> Nil]

Init ==
    /\ \E full \in BOOLEAN : db =
         [users |-> [r \in Service!ValidRefs |-> IF r = Service!Self
                        THEN [name |-> "n", login |-> "l", role |-> "user", profile |-> "p"] ELSE Nil],
          links |-> {[owner |-> Service!Self, subject |-> Service!Self, type |-> t] :
                        t \in {t \in Service!LinkTypes : full}},
          meta  |-> [x \in Service!ValidRefs \X Service!MetaKeys |-> IF ~full THEN Nil
                        ELSE [value |-> IF x[2] = Visible THEN "true" ELSE "", typed |-> Nil, expires |-> ""]],
          mail  |-> [i \in 1..(IF full THEN 2 ELSE 0) |->
                        [to |-> Service!Self, from |-> Service!Self, body |-> "b", seq |-> i, at |-> "t"]]]
    /\ calls = [c \in Callers |-> NoCall]
    /\ inflight = [c \in Callers |-> Nil] /\ replies = [c \in Callers |-> Nil]
    /\ expected = [c \in Callers |-> Nil]

(***************************************************************************)
(* Argument checks.                                                        *)
(***************************************************************************)
ValidRef(r) == r.node # 0 /\ r.user # 0

ZeroSession == [node |-> 0, id |-> ""]
ValidSession(s) == s.node # 0 /\ s.id # ""

validatePacketMode(mode) == mode \in {"best_effort", "route_retry"}

TrimSpace == [s \in {"", " ", "l", " l", "n", " n", "b", "true", " true", "false", "null"} |->
                CASE s = " " -> "" [] s = " l" -> "l" [] s = " n" -> "n" [] s = " true" -> "true" [] OTHER -> s]

\* exactly one selector, and then a whole one
validateLoginSelector(r, name) ==
    /\ (r # ZeroRef) # (TrimSpace[name] # "")
    /\ r # ZeroRef => ValidRef(r)

PasswordValid(p) == p.source \in {"plain", "hashed"} /\ p.encoded # ""

\* keys: a plain one, the registered system key, a prefix of it, another system key, bad characters
Fragments == {"", "k", Visible, "system.", "system.x", "?"}

validateMetadataKeyFragment(k, allowEmpty) == IF k = "" THEN allowEmpty ELSE k # "?"
validateMetadataKeyPolicy(k) == HasPrefix(k, "system.") => k = Visible
validateMetadataKey(k) == validateMetadataKeyFragment(k, FALSE) /\ validateMetadataKeyPolicy(k)

metadataSystemPrefixRegistered(p) == HasPrefix(Visible, p) \/ HasPrefix(p, Visible)
validateMetadataScanSystemPrefix(prefix, after) ==
    \A s \in {prefix, after} : HasPrefix(s, "system.") => metadataSystemPrefixRegistered(s)

MaxMetadataLimit == 1  \* stands for 1000

ScanValid(prefix, after, limit) ==
    /\ validateMetadataKeyFragment(prefix, TRUE) /\ validateMetadataKeyFragment(after, TRUE)
    /\ validateMetadataScanSystemPrefix(prefix, after)
    /\ limit \in 0..MaxMetadataLimit
    /\ prefix # "" /\ after # "" => HasPrefix(after, prefix)

ListUsersValid(uid) == uid # ZeroRef => uid.node > 0 /\ uid.user > 0

\* a typed value: its kind, which member is set, and its raw form ("two": not a single JSON value)
NewMetadataTyped(kind, raw) == [kind |-> kind, member |-> kind, raw |-> raw]
TypedValues == {NewMetadataTyped("bool", "true"), NewMetadataTyped("string", "b"),
                NewMetadataTyped("number", "null"), NewMetadataTyped("number", "two"),
                NewMetadataTyped("json", "null"),
                [kind |-> "bool", member |-> Nil, raw |-> ""], [kind |-> "odd", member |-> "odd", raw |-> "b"]}

\* null decodes into a json.Number without an error
normalizeMetadataNumberJSON(raw) == raw \in {"number", "null"}
compactMetadataJSON(raw) == raw \in {"number", "null", "true", "false"}

TypedValid(t) ==
    /\ t.kind \in {"bytes", "bool", "string", "number", "json"} /\ t.member = t.kind
    /\ t.kind = "number" => normalizeMetadataNumberJSON(t.raw)
    /\ t.kind = "json" => compactMetadataJSON(t.raw)

parseMetadataBoolBytes(raw) == TrimSpace[raw] \in {"true", "false"}

\* a bug: a raw value of the reserved key is not looked at
validateMetadataWritePolicyTypedOnly(key, req, allowTyped) ==
    /\ validateMetadataKeyPolicy(key)
    /\ req.typed # Nil => allowTyped /\ TypedValid(req.typed)
    /\ key = Visible => req.expires = Nil /\ (req.typed # Nil => req.typed.kind = "bool")

\* whichever way it is written, the reserved key holds a bool and never expires
validateMetadataWritePolicy(key, req, allowTyped) ==
    /\ validateMetadataKeyPolicy(key)
    /\ req.typed # Nil => allowTyped /\ TypedValid(req.typed)
    /\ key = Visible =>
         /\ req.expires = Nil
         /\ IF req.typed # Nil THEN req.typed.kind = "bool" ELSE parseMetadataBoolBytes(req.value)

validateJSON(req) == (req.value # Nil) # (req.typed # Nil) /\ (req.typed # Nil => TypedValid(req.typed))

validateHTTPMetadataUpsertRequest(key, req) ==
    validateJSON(req) /\ validateMetadataWritePolicy(key, req, TRUE)

validateWSMetadataUpsertRequest(key, req) ==
    req.typed = Nil /\ req.value # Nil /\ validateMetadataWritePolicy(key, req, FALSE)

(***************************************************************************)
(* Conversions between the types of the SDK and those of the protocol.     *)
(***************************************************************************)
userRefToProto(r) == IF r = ZeroRef THEN Nil ELSE [node_id |-> r.node, user_id |-> r.user]
userRefFromProto(p) == IF p = Nil THEN ZeroRef ELSE [node |-> p.node_id, user |-> p.user_id]

sessionRefToProto(x) == IF x = ZeroSession THEN Nil ELSE [serving_node_id |-> x.node, session_id |-> x.id]
sessionRefFromProto(p) == IF p = Nil THEN ZeroSession ELSE [node |-> p.serving_node_id, id |-> p.session_id]

deliveryModeToProto(mode) == CASE mode = "best_effort" -> 1 [] mode = "route_retry" -> 2 [] OTHER -> 0
deliveryModeFromProto(n) == CASE n = 1 -> "best_effort" [] n = 2 -> "route_retry" [] OTHER -> ""

\* a bug: two of the types exchanged
attachmentTypeToProtoSwapped(t) ==
    CASE t = "channel_manager" -> 2 [] t = "channel_writer" -> 1 [] t = "channel_subscription" -> 3
      [] t = "user_blacklist" -> 4 [] OTHER -> 0

attachmentTypeToProto(t) ==
    CASE t = "channel_manager" -> 1 [] t = "channel_writer" -> 2 [] t = "channel_subscription" -> 3
      [] t = "user_blacklist" -> 4 [] OTHER -> 0
attachmentTypeFromProto(n) ==
    CASE n = 1 -> "channel_manager" [] n = 2 -> "channel_writer" [] n = 3 -> "channel_subscription"
      [] n = 4 -> "user_blacklist" [] OTHER -> ""

\* bytes on the wire are never nil, and come back as nil when they are empty
protoBytes(b) == IF b = Nil THEN "" ELSE b
bytesFromProto(b) == IF b = "" THEN Nil ELSE b

optionalField(v) == IF v = Nil THEN Nil ELSE [value |-> v]

userFromProto(p) ==
    [ref |-> [node |-> p.node_id, user |-> p.user_id],
     account |-> [name |-> p.username, login |-> p.login_name, role |-> p.role, profile |-> p.profile_json]]

messageFromProto(p) ==
    [to |-> userRefFromProto(p.recipient), from |-> userRefFromProto(p.sender), body |-> p.body, seq |-> p.seq,
     at |-> p.created_at_hlc]

relayAcceptedFromProto(p) ==
    [to |-> userRefFromProto(p.recipient), mode |-> deliveryModeFromProto(p.delivery_mode),
     session |-> sessionRefFromProto(p.target_session)]

attachmentFromProto(p) ==
    [owner |-> userRefFromProto(p.owner), subject |-> userRefFromProto(p.subject),
     type |-> attachmentTypeFromProto(p.attachment_type)]

userMetadataFromProto(p) ==
    [owner |-> userRefFromProto(p.owner), key |-> p.key,
     entry |-> [value |-> bytesFromProto(p.value), typed |-> Nil, expires |-> p.expires_at]]

userMetadataPageFromProto(p) ==
    [items |-> [i \in DOMAIN p.items |-> userMetadataFromProto(p.items[i])], next |-> p.next_after]

eventFromProto(p) == [seq |-> p.sequence, origin |-> p.origin_node_id]
clusterNodeFromProto(p) == [node |-> p.node_id, local |-> p.is_local]
loggedInUserFromProto(p) ==
    [ref |-> [node |-> p.node_id, user |-> p.user_id], name |-> p.username, login |-> p.login_name]

onlineNodePresenceFromProto(p) == [node |-> p.serving_node_id, count |-> p.session_count]
resolvedSessionFromProto(p) == [session |-> sessionRefFromProto(p.session), transient |-> p.transient_capable]
resolvedUserSessionsFromProto(p) ==
    [user |-> userRefFromProto(p.user),
     presence |-> [i \in DOMAIN p.presence |-> onlineNodePresenceFromProto(p.presence[i])],
     sessions |-> [i \in DOMAIN p.items |-> resolvedSessionFromProto(p.items[i])]]

\* the counters that look alike stand for the fields that only count
messageTrimStatusFromProto(p) == [total |-> p.trimmed_total, at |-> p.last_trimmed_at]
projectionStatusFromProto(p) == [pending |-> p.pending_total, failed |-> p.last_failed_at]
peerOriginStatusFromProto(p) ==
    [origin |-> p.origin_node_id, acked |-> p.acked_event_id, applied |-> p.applied_event_id]
peerStatusFromProto(p) ==
    [node |-> p.node_id, sent |-> p.snapshot_chunks_sent_total, received |-> p.snapshot_chunks_received_total,
     origins |-> [i \in DOMAIN p.origins |-> peerOriginStatusFromProto(p.origins[i])]]
operationsStatusFromProto(p) ==
    [node |-> p.node_id, trimmed |-> messageTrimStatusFromProto(p.message_trim),
     projection |-> projectionStatusFromProto(p.projection),
     peers |-> [i \in DOMAIN p.peers |-> peerStatusFromProto(p.peers[i])]]

\* the three views of an attachment
AttachmentAs(a, as) ==
    CASE as = "attachment"   -> a
      [] as = "subscription" -> [subscriber |-> a.owner, channel |-> a.subject]
      [] as = "blacklist"    -> [owner |-> a.owner, blocked |-> a.subject]
      [] as = "nothing"      -> Nil

(***************************************************************************)
(* A call: rejected for its arguments or for want of a connection, or a    *)
(* request on the wire and a caller that waits.                            *)
(***************************************************************************)
Issue(c, ok, cmd, req, out) ==
    /\ \/ /\ ok
          /\ calls' = [calls EXCEPT ![c] = [phase |-> "sent", cmd |-> cmd, out |-> out, value |-> Nil]]
          /\ inflight' = [inflight EXCEPT ![c] = req]
       \/ /\ calls' = [calls EXCEPT ![c].phase = "failed"]
          /\ UNCHANGED inflight
    /\ UNCHANGED <<db, replies, expected>>

rpc(c, ok, cmd, req, type, as) == Issue(c, ok, cmd, req, [via |-> "ws", type |-> type, as |-> as])

(***************************************************************************)
(* The calls of Client.                                                    *)
(***************************************************************************)
CreateUser(c, a) ==
    rpc(c, a.name # "" /\ a.role # "", [op |-> "create_user", account |-> a],
        [kind |-> "create_user", username |-> a.name, login_name |-> a.login, profile_json |-> a.profile,
         role |-> a.role], "User", "user")

CreateChannel(c, a) == CreateUser(c, IF a.role = "" THEN [a EXCEPT !.role = "channel"] ELSE a)

GetUser(c, r) ==
    rpc(c, ValidRef(r), [op |-> "get_user", user |-> r],
        [kind |-> "get_user", user |-> userRefToProto(r)], "User", "user")

UpdateUser(c, r, ch) ==
    rpc(c, ValidRef(r), [op |-> "update_user", user |-> r, change |-> ch],
        [kind |-> "update_user", user |-> userRefToProto(r), username |-> optionalField(ch.name),
         login_name |-> optionalField(ch.login), profile_json |-> optionalField(ch.profile),
         role |-> optionalField(ch.role)], "User", "user")

DeleteUser(c, r) ==
    rpc(c, ValidRef(r), [op |-> "delete_user", user |-> r],
        [kind |-> "delete_user", user |-> userRefToProto(r)], "DeleteUserResult", "result")

WSListUsers(c, name, uid) ==
    LET n == TrimSpace[name] IN
    rpc(c, ListUsersValid(uid), [op |-> "list_users", name |-> n, uid |-> uid],
        [kind |-> "list_users", name |-> n, uid |-> userRefToProto(uid)], "Users", "users")

SendMessage(c, to, body) ==
    rpc(c, ValidRef(to) /\ body # "", [op |-> "send", to |-> to, body |-> body],
        [kind |-> "send_message", target |-> userRefToProto(to), body |-> body, delivery_kind |-> 0,
         delivery_mode |-> 0, target_session |-> Nil], "Message", "message")

SendPacketAs(c, to, body, mode, session, as) ==
    rpc(c, ValidRef(to) /\ body # "" /\ validatePacketMode(mode) /\ (session # ZeroSession => ValidSession(session)),
        [op |-> "packet", to |-> to, body |-> body, mode |-> mode, session |-> session, as |-> as],
        [kind |-> "send_message", target |-> userRefToProto(to), body |-> body, delivery_kind |-> 2,
         delivery_mode |-> deliveryModeToProto(mode), target_session |-> sessionRefToProto(session)],
        "RelayAccepted", as)

SendPacket(c, to, body, mode, session) == SendPacketAs(c, to, body, mode, session, "accepted")

PostPacket(c, node, to, body, mode) ==
    IF node # 0 /\ node # to.node THEN Issue(c, FALSE, Nil, Nil, Nil)
    ELSE SendPacketAs(c, to, body, mode, ZeroSession, "nothing")

WSListMessages(c, of, limit) ==
    rpc(c, ValidRef(of), [op |-> "messages", of |-> of, peer |-> ZeroRef, limit |-> limit],
        [kind |-> "list_messages", user |-> userRefToProto(of), limit |-> int32(limit)], "Messages", "messages")

\* what a metadata write stores
EntryOf(req) ==
    [value   |-> IF req.typed = Nil THEN req.value ELSE req.typed.raw,
     typed   |-> IF req.typed = Nil THEN Nil ELSE req.typed.kind,
     expires |-> IF req.expires = Nil THEN "" ELSE req.expires]

\* WSGetUserMetadata and WSDeleteUserMetadata
WSKeyMetadata(c, op, o, key) ==
    rpc(c, ValidRef(o) /\ validateMetadataKey(key), [op |-> op, owner |-> o, key |-> key, view |-> "raw"],
        [kind |-> op, owner |-> userRefToProto(o), key |-> key], "UserMetadata", "metadata")

WSGetUserMetadata(c, o, key) == WSKeyMetadata(c, "get_metadata", o, key)
WSDeleteUserMetadata(c, o, key) == WSKeyMetadata(c, "delete_metadata", o, key)

WSUpsertUserMetadata(c, o, key, req) ==
    rpc(c, ValidRef(o) /\ validateMetadataKey(key) /\ validateWSMetadataUpsertRequest(key, req),
        [op |-> "put_metadata", owner |-> o, key |-> key, view |-> "raw",
         entry |-> EntryOf(req)],
        [kind |-> "put_metadata", owner |-> userRefToProto(o), key |-> key, value |-> protoBytes(req.value),
         expires_at |-> optionalField(req.expires)], "UserMetadata", "metadata")

WSScanUserMetadata(c, o, prefix, after, limit) ==
    rpc(c, ValidRef(o) /\ ScanValid(prefix, after, limit),
        [op |-> "scan_metadata", owner |-> o, prefix |-> prefix, after |-> after, limit |-> limit, view |-> "raw"],
        [kind |-> "scan_metadata", owner |-> userRefToProto(o), prefix |-> prefix, after |-> after,
         limit |-> IF limit > 0 THEN limit ELSE 0], "UserMetadataPage", "page")

\* UpsertAttachment and DeleteAttachment, and the calls that go through them
WSAttachment(c, op, o, x, type, as) ==
    rpc(c, ValidRef(o) /\ ValidRef(x), [op |-> op, owner |-> o, subject |-> x, type |-> type, as |-> as],
        [kind |-> op, owner |-> userRefToProto(o), subject |-> userRefToProto(x),
         attachment_type |-> attachmentTypeToProto(type)], "Attachment", as)

UpsertAttachment(c, o, x, type) == WSAttachment(c, "attach", o, x, type, "attachment")
DeleteAttachment(c, o, x, type) == WSAttachment(c, "detach", o, x, type, "attachment")
CreateSubscription(c, o, x) == WSAttachment(c, "attach", o, x, "channel_subscription", "nothing")
SubscribeChannel(c, o, x) == WSAttachment(c, "attach", o, x, "channel_subscription", "subscription")
UnsubscribeChannel(c, o, x) == WSAttachment(c, "detach", o, x, "channel_subscription", "subscription")
BlockUser(c, o, x) == WSAttachment(c, "attach", o, x, "user_blacklist", "blacklist")
UnblockUser(c, o, x) == WSAttachment(c, "detach", o, x, "user_blacklist", "blacklist")

ListAttachmentsAs(c, o, type, as) ==
    rpc(c, ValidRef(o), [op |-> "attachments", owner |-> o, type |-> type, as |-> as],
        [kind |-> "attachments", owner |-> userRefToProto(o), attachment_type |-> attachmentTypeToProto(type)],
        "Attachments", as)

ListAttachments(c, o, type) == ListAttachmentsAs(c, o, type, "attachment")
ListSubscriptions(c, o) == ListAttachmentsAs(c, o, "channel_subscription", "subscription")
ListBlockedUsers(c, o) == ListAttachmentsAs(c, o, "user_blacklist", "blacklist")

ListEvents(c, after, limit) ==
    rpc(c, TRUE, [op |-> "events", after |-> after, limit |-> limit],
        [kind |-> "events", after |-> after, limit |-> int32(limit)], "Events", "events")

ListNodeLoggedInUsers(c, node) ==
    rpc(c, node # 0, [op |-> "logged_in", node |-> node], [kind |-> "logged_in", node_id |-> node],
        "LoggedInUsers", "users")

ResolveUserSessions(c, r) ==
    rpc(c, ValidRef(r), [op |-> "sessions", user |-> r], [kind |-> "sessions", user |-> userRefToProto(r)],
        "ResolvedUserSessions", "sessions")

ListClusterNodes(c) == rpc(c, TRUE, [op |-> "nodes"], [kind |-> "nodes"], "ClusterNodes", "nodes")
OperationsStatus(c) == rpc(c, TRUE, [op |-> "status"], [kind |-> "status"], "OperationsStatus", "status")
Metrics(c) == rpc(c, TRUE, [op |-> "metrics"], [kind |-> "metrics"], "string", "text")
Ping(c) == rpc(c, TRUE, [op |-> "ping"], [kind |-> "ping"], "pong", "nothing")

\* the calls that take a token they do not need, or arguments in another order, and pass on
ListUsers(c, name, uid) == WSListUsers(c, name, uid)
ListMessages(c, of, limit) == WSListMessages(c, of, limit)
PostMessage(c, to, body) == SendMessage(c, to, body)
SendPacketToSession(c, to, session, body, mode) == SendPacket(c, to, body, mode, session)
GetUserMetadata(c, o, key) == WSGetUserMetadata(c, o, key)
UpsertUserMetadata(c, o, key, req) == WSUpsertUserMetadata(c, o, key, req)
DeleteUserMetadata(c, o, key) == WSDeleteUserMetadata(c, o, key)
ScanUserMetadata(c, o, prefix, after, limit) == WSScanUserMetadata(c, o, prefix, after, limit)

(***************************************************************************)
(* The calls of HTTPClient.  A path is its format and its arguments; a     *)
(* query or body field that is left out is Nil.                            *)
(***************************************************************************)
OK == 200
Created == 201
Accepted == 202

doJSON(c, ok, cmd, method, route, args, query, body, out, as, statuses) ==
    Issue(c, ok, cmd, [method |-> method, route |-> route, args |-> args, query |-> query, body |-> body],
          [via |-> "http", type |-> out, as |-> as, statuses |-> statuses])

RefArgs(r) == <<r.node, r.user>>
Unless(v, zero) == IF v = zero THEN Nil ELSE v  \* omitempty, and the query fields set on a condition
Positive(n) == IF n > 0 THEN n ELSE Nil  \* a query field set only when it is positive

loginWithRequest(c, r, name, password) ==
    doJSON(c, validateLoginSelector(r, name) /\ PasswordValid(password),
           IF r # ZeroRef THEN [op |-> "login", user |-> r] ELSE [op |-> "login_by_name", name |-> TrimSpace[name]],
           "POST", "/auth/login", <<>>, Nil,
           [node_id |-> Unless(r.node, 0), user_id |-> Unless(r.user, 0),
            login_name |-> Unless(TrimSpace[name], "")], "Token", "token", {OK})

HTTPLoginWithPassword(c, r, password) == loginWithRequest(c, r, "", password)
HTTPLoginByLoginNameWithPassword(c, name, password) == loginWithRequest(c, ZeroRef, name, password)

\* a plain password is hashed first; there is no hash of the empty one
PlainPassword(plain) == [source |-> IF plain = "" THEN "" ELSE "plain", encoded |-> IF plain = "" THEN "" ELSE "hash"]
HTTPLogin(c, r, plain) ==
    IF plain = "" THEN Issue(c, FALSE, Nil, Nil, Nil) ELSE HTTPLoginWithPassword(c, r, PlainPassword(plain))
HTTPLoginByLoginName(c, name, plain) ==
    IF plain = "" THEN Issue(c, FALSE, Nil, Nil, Nil)
    ELSE HTTPLoginByLoginNameWithPassword(c, name, PlainPassword(plain))

\* Client passes its four logins on to its HTTPClient
Login(c, r, plain) ==
    IF plain = "" THEN Issue(c, FALSE, Nil, Nil, Nil) ELSE HTTPLoginWithPassword(c, r, PlainPassword(plain))
LoginWithPassword(c, r, password) == HTTPLoginWithPassword(c, r, password)
LoginByLoginName(c, name, plain) == HTTPLoginByLoginName(c, name, plain)
LoginByLoginNameWithPassword(c, name, password) == HTTPLoginByLoginNameWithPassword(c, name, password)

HTTPCreateUser(c, a) ==
    doJSON(c, a.name # "" /\ a.role # "", [op |-> "create_user", account |-> a], "POST", "/users", <<>>, Nil,
           [username |-> a.name, login_name |-> Unless(a.login, ""), profile |-> Unless(a.profile, ""),
            role |-> a.role], "User", "user", {Created, OK})

HTTPCreateChannel(c, a) == HTTPCreateUser(c, IF a.role = "" THEN [a EXCEPT !.role = "channel"] ELSE a)

HTTPGetUser(c, r) ==
    doJSON(c, ValidRef(r), [op |-> "get_user", user |-> r], "GET", "/nodes/%d/users/%d", RefArgs(r), Nil, Nil,
           "User", "user", {OK})

\* an empty profile is no JSON: Marshal fails
HTTPUpdateUser(c, r, ch) ==
    doJSON(c, ValidRef(r) /\ ~(ch.role = "channel" /\ ch.login \notin {Nil, ""}) /\ ch.profile # "",
           [op |-> "update_user", user |-> r, change |-> ch], "PATCH", "/nodes/%d/users/%d", RefArgs(r), Nil,
           [username |-> ch.name, login_name |-> ch.login, profile |-> ch.profile, role |-> ch.role],
           "User", "user", {OK})

HTTPDeleteUser(c, r) ==
    doJSON(c, ValidRef(r), [op |-> "delete_user", user |-> r], "DELETE", "/nodes/%d/users/%d", RefArgs(r), Nil, Nil,
           "DeleteUserResult", "result", {OK})

HTTPListUsers(c, name, uid) ==
    LET n == TrimSpace[name] IN
    doJSON(c, ListUsersValid(uid), [op |-> "list_users", name |-> n, uid |-> uid], "GET", "/users", <<>>,
           [name |-> Unless(n, ""), uid |-> Unless(uid, ZeroRef)], Nil, "Users", "users", {OK})

HTTPListMessages(c, of, limit, peer) ==
    doJSON(c, TRUE, [op |-> "messages", of |-> of, peer |-> peer, limit |-> limit],
           "GET", "/nodes/%d/users/%d/messages", RefArgs(of),
           [limit |-> Positive(limit), peer |-> Unless(peer, ZeroRef)], Nil, "Messages", "messages", {OK})

HTTPPostMessage(c, to, body) ==
    doJSON(c, ValidRef(to) /\ body # "", [op |-> "send", to |-> to, body |-> body], "POST",
           "/nodes/%d/users/%d/messages", RefArgs(to), Nil,
           [body |-> body, delivery_kind |-> Nil, delivery_mode |-> Nil], "Message", "message", {Created, OK})

HTTPPostPacket(c, node, to, body, mode) ==
    doJSON(c, node # 0 /\ ValidRef(to) /\ body # "" /\ validatePacketMode(mode) /\ node = to.node,
           [op |-> "packet", to |-> to, body |-> body, mode |-> mode, session |-> ZeroSession, as |-> "nothing"],
           "POST", "/nodes/%d/users/%d/messages", RefArgs(to), Nil,
           [body |-> body, delivery_kind |-> "transient", delivery_mode |-> mode], "nothing", "nothing", {Accepted})

MetadataRoute == "/nodes/%d/users/%d/metadata/%s"

\* GetUserMetadata and DeleteUserMetadata
HTTPKeyMetadata(c, op, method, o, key) ==
    doJSON(c, ValidRef(o) /\ validateMetadataKey(key), [op |-> op, owner |-> o, key |-> key, view |-> "full"],
           method, MetadataRoute, <<o.node, o.user, key>>, Nil, Nil, "UserMetadata", "metadata", {OK})

HTTPGetUserMetadata(c, o, key) == HTTPKeyMetadata(c, "get_metadata", "GET", o, key)
HTTPDeleteUserMetadata(c, o, key) == HTTPKeyMetadata(c, "delete_metadata", "DELETE", o, key)

HTTPUpsertUserMetadata(c, o, key, req) ==
    doJSON(c, ValidRef(o) /\ validateMetadataKey(key) /\ validateHTTPMetadataUpsertRequest(key, req),
           [op |-> "put_metadata", owner |-> o, key |-> key, entry |-> EntryOf(req), view |-> "full"],
           "PUT", MetadataRoute, <<o.node, o.user, key>>, Nil,
           [value |-> req.value, typed_value |-> req.typed, expires_at |-> req.expires],
           "UserMetadata", "metadata", {Created, OK})

HTTPScanUserMetadata(c, o, prefix, after, limit) ==
    doJSON(c, ValidRef(o) /\ ScanValid(prefix, after, limit),
           [op |-> "scan_metadata", owner |-> o, prefix |-> prefix, after |-> after, limit |-> limit,
            view |-> "full"], "GET", "/nodes/%d/users/%d/metadata", RefArgs(o),
           [prefix |-> Unless(prefix, ""), after |-> Unless(after, ""), limit |-> Positive(limit)], Nil,
           "UserMetadataPage", "page", {OK})

\* UpsertAttachment and DeleteAttachment, and the calls that go through them
HTTPAttachment(c, op, o, x, type, as) ==
    doJSON(c, ValidRef(o) /\ ValidRef(x), [op |-> op, owner |-> o, subject |-> x, type |-> type, as |-> as],
           IF op = "attach" THEN "PUT" ELSE "DELETE", "/nodes/%d/users/%d/attachments/%s/%d/%d",
           <<o.node, o.user, type, x.node, x.user>>, Nil, Nil, "Attachment", as,
           IF op = "attach" THEN {Created, OK} ELSE {OK})

HTTPUpsertAttachment(c, o, x, type) == HTTPAttachment(c, "attach", o, x, type, "attachment")
HTTPDeleteAttachment(c, o, x, type) == HTTPAttachment(c, "detach", o, x, type, "attachment")
HTTPCreateSubscription(c, o, x) == HTTPAttachment(c, "attach", o, x, "channel_subscription", "nothing")
HTTPBlockUser(c, o, x) == HTTPAttachment(c, "attach", o, x, "user_blacklist", "blacklist")
HTTPUnblockUser(c, o, x) == HTTPAttachment(c, "detach", o, x, "user_blacklist", "blacklist")

HTTPListAttachmentsAs(c, o, type, as) ==
    doJSON(c, ValidRef(o), [op |-> "attachments", owner |-> o, type |-> type, as |-> as], "GET",
           "/nodes/%d/users/%d/attachments", RefArgs(o), [attachment_type |-> Unless(type, "")], Nil,
           "Attachments", as, {OK})

HTTPListAttachments(c, o, type) == HTTPListAttachmentsAs(c, o, type, "attachment")
HTTPListBlockedUsers(c, o) == HTTPListAttachmentsAs(c, o, "user_blacklist", "blacklist")

HTTPListEvents(c, after, limit) ==
    doJSON(c, TRUE, [op |-> "events", after |-> after, limit |-> limit], "GET", "/events", <<>>,
           [after |-> Positive(after), limit |-> Positive(limit)], Nil, "Events", "events", {OK})

HTTPListNodeLoggedInUsers(c, node) ==
    doJSON(c, node # 0, [op |-> "logged_in", node |-> node], "GET", "/cluster/nodes/%d/logged-in-users", <<node>>,
           Nil, Nil, "LoggedInUsers", "users", {OK})

HTTPListClusterNodes(c) ==
    doJSON(c, TRUE, [op |-> "nodes"], "GET", "/cluster/nodes", <<>>, Nil, Nil, "ClusterNodes", "nodes", {OK})
HTTPOperationsStatus(c) ==
    doJSON(c, TRUE, [op |-> "status"], "GET", "/ops/status", <<>>, Nil, Nil, "OperationsStatus", "status", {OK})
HTTPMetrics(c) ==
    doJSON(c, TRUE, [op |-> "metrics"], "GET", "/metrics", <<>>, Nil, Nil, "string", "text", {OK})

(***************************************************************************)
(* The server: it reads a request back into a command, applies it, and     *)
(* writes the answer in the form the request came in.                      *)
(***************************************************************************)
Or(v, zero) == IF v = Nil THEN zero ELSE v
Value(f) == IF f = Nil THEN Nil ELSE f.value

ReadWS(q) ==
    LET ref(f) == userRefFromProto(f) IN
    CASE q.kind = "create_user" ->
            [op |-> q.kind, account |-> [name |-> q.username, login |-> q.login_name, role |-> q.role,
                                         profile |-> q.profile_json]]
      [] q.kind = "update_user" ->
            [op |-> q.kind, user |-> ref(q.user),
             change |-> [name |-> Value(q.username), login |-> Value(q.login_name), role |-> Value(q.role),
                         profile |-> Value(q.profile_json)]]
      [] q.kind = "list_users" -> [op |-> q.kind, name |-> q.name, uid |-> ref(q.uid)]
      [] q.kind = "send_message" ->
            IF q.delivery_kind # 2 THEN [op |-> "send", to |-> ref(q.target), body |-> q.body]
            ELSE [op |-> "packet", to |-> ref(q.target), body |-> q.body,
                  mode |-> deliveryModeFromProto(q.delivery_mode), session |-> sessionRefFromProto(q.target_session), as |-> "accepted"]
      [] q.kind = "list_messages" -> [op |-> "messages", of |-> ref(q.user), peer |-> ZeroRef, limit |-> q.limit]
      [] q.kind \in {"get_metadata", "delete_metadata"} ->
            [op |-> q.kind, owner |-> ref(q.owner), key |-> q.key, view |-> "full"]
      [] q.kind = "put_metadata" ->
            [op |-> q.kind, owner |-> ref(q.owner), key |-> q.key, view |-> "full",
             entry |-> [value |-> q.value, typed |-> Nil, expires |-> Or(Value(q.expires_at), "")]]
      [] q.kind = "scan_metadata" ->
            [op |-> q.kind, owner |-> ref(q.owner), prefix |-> q.prefix, after |-> q.after, limit |-> q.limit,
             view |-> "full"]
      [] q.kind \in {"attach", "detach"} ->
            [op |-> q.kind, owner |-> ref(q.owner), subject |-> ref(q.subject),
             type |-> attachmentTypeFromProto(q.attachment_type), as |-> "attachment"]
      [] q.kind = "attachments" ->
            [op |-> q.kind, owner |-> ref(q.owner), type |-> attachmentTypeFromProto(q.attachment_type),
             as |-> "attachment"]
      [] q.kind = "events" -> [op |-> q.kind, after |-> q.after, limit |-> q.limit]
      [] q.kind = "logged_in" -> [op |-> q.kind, node |-> q.node_id]
      [] q.kind \in {"nodes", "status", "metrics", "ping"} -> [op |-> q.kind]
      [] q.kind \in {"get_user", "delete_user", "sessions"} -> [op |-> q.kind, user |-> ref(q.user)]

ReadHTTP(q) ==
    LET ref == [node |-> q.args[1], user |-> q.args[2]]
        subject == [node |-> q.args[4], user |-> q.args[5]]
    IN
    CASE q.route = "/auth/login" ->
            IF q.body.login_name # Nil THEN [op |-> "login_by_name", name |-> q.body.login_name]
            ELSE [op |-> "login", user |-> [node |-> Or(q.body.node_id, 0), user |-> Or(q.body.user_id, 0)]]
      [] q.route = "/users" /\ q.method = "POST" ->
            [op |-> "create_user", account |-> [name |-> q.body.username, login |-> Or(q.body.login_name, ""),
                                                role |-> q.body.role, profile |-> Or(q.body.profile, "")]]
      [] q.route = "/users" /\ q.method = "GET" ->
            [op |-> "list_users", name |-> Or(q.query.name, ""), uid |-> Or(q.query.uid, ZeroRef)]
      [] q.route = "/nodes/%d/users/%d" /\ q.method = "PATCH" ->
            [op |-> "update_user", user |-> ref,
             change |-> [name |-> q.body.username, login |-> q.body.login_name, role |-> q.body.role,
                         profile |-> q.body.profile]]
      [] q.route = "/nodes/%d/users/%d" /\ q.method # "PATCH" ->
            [op |-> IF q.method = "GET" THEN "get_user" ELSE "delete_user", user |-> ref]
      [] q.route = "/nodes/%d/users/%d/messages" /\ q.method = "GET" ->
            [op |-> "messages", of |-> ref, peer |-> Or(q.query.peer, ZeroRef), limit |-> Or(q.query.limit, 0)]
      [] q.route = "/nodes/%d/users/%d/messages" /\ q.method = "POST" ->
            IF q.body.delivery_kind = Nil THEN [op |-> "send", to |-> ref, body |-> q.body.body]
            ELSE [op |-> "packet", to |-> ref, body |-> q.body.body, mode |-> q.body.delivery_mode,
                  session |-> ZeroSession, as |-> "accepted"]
      [] q.route = MetadataRoute /\ q.method = "PUT" ->
            [op |-> "put_metadata", owner |-> ref, key |-> q.args[3], view |-> "full",
             entry |-> EntryOf([value |-> q.body.value, typed |-> q.body.typed_value, expires |-> q.body.expires_at])]
      [] q.route = MetadataRoute /\ q.method # "PUT" ->
            [op |-> IF q.method = "GET" THEN "get_metadata" ELSE "delete_metadata", owner |-> ref,
             key |-> q.args[3], view |-> "full"]
      [] q.route = "/nodes/%d/users/%d/metadata" ->
            [op |-> "scan_metadata", owner |-> ref, prefix |-> Or(q.query.prefix, ""),
             after |-> Or(q.query.after, ""), limit |-> Or(q.query.limit, 0), view |-> "full"]
      [] q.route = "/nodes/%d/users/%d/attachments/%s/%d/%d" ->
            [op |-> IF q.method = "PUT" THEN "attach" ELSE "detach", owner |-> ref, subject |-> subject,
             type |-> q.args[3], as |-> "attachment"]
      [] q.route = "/nodes/%d/users/%d/attachments" ->
            [op |-> "attachments", owner |-> ref, type |-> Or(q.query.attachment_type, ""), as |-> "attachment"]
      [] q.route = "/events" -> [op |-> "events", after |-> Or(q.query.after, 0), limit |-> Or(q.query.limit, 0)]
      [] q.route = "/cluster/nodes/%d/logged-in-users" -> [op |-> "logged_in", node |-> q.args[1]]
      [] q.route = "/cluster/nodes" -> [op |-> "nodes"]
      [] q.route = "/ops/status" -> [op |-> "status"]
      [] q.route = "/metrics" -> [op |-> "metrics"]

\* the messages of the protocol
ProtoUser(u) ==
    [node_id |-> u.ref.node, user_id |-> u.ref.user, username |-> u.account.name, login_name |-> u.account.login,
     role |-> u.account.role, profile_json |-> u.account.profile]
ProtoMessage(m) ==
    [recipient |-> userRefToProto(m.to), sender |-> userRefToProto(m.from), body |-> m.body, seq |-> m.seq,
     created_at_hlc |-> m.at]
ProtoAttachment(a) ==
    [owner |-> userRefToProto(a.owner), subject |-> userRefToProto(a.subject),
     attachment_type |-> attachmentTypeToProto(a.type)]
ProtoMetadata(x) ==
    [owner |-> userRefToProto(x.owner), key |-> x.key, value |-> x.entry.value, expires_at |-> x.entry.expires]

ProtoSessions(x) ==
    [user |-> userRefToProto(x.user),
     presence |-> [i \in DOMAIN x.presence |-> [serving_node_id |-> x.presence[i].node,
                                                session_count |-> x.presence[i].count]],
     items |-> [i \in DOMAIN x.sessions |-> [session |-> sessionRefToProto(x.sessions[i].session),
                                             transient_capable |-> x.sessions[i].transient]]]

\* the same fields in both forms
WireEvent(x) == [sequence |-> x.seq, origin_node_id |-> x.origin]
WireNode(x) == [node_id |-> x.node, is_local |-> x.local]
WireLoggedIn(x) == [node_id |-> x.ref.node, user_id |-> x.ref.user, username |-> x.name, login_name |-> x.login]
WirePeer(x) ==
    [node_id |-> x.node, snapshot_chunks_sent_total |-> x.sent, snapshot_chunks_received_total |-> x.received,
     origins |-> [i \in DOMAIN x.origins |->
                   [origin_node_id |-> x.origins[i].origin, acked_event_id |-> x.origins[i].acked,
                    applied_event_id |-> x.origins[i].applied]]]
WireStatus(x) ==
    [node_id |-> x.node, message_trim |-> [trimmed_total |-> x.trimmed.total, last_trimmed_at |-> x.trimmed.at],
     projection |-> [pending_total |-> x.projection.pending, last_failed_at |-> x.projection.failed],
     peers |-> [i \in DOMAIN x.peers |-> WirePeer(x.peers[i])]]

\* the kind of a response tells which of several bodies it has
EncodeWS(op, a) ==
    LET body == CASE op \in {"create_user", "get_user", "update_user"} -> ProtoUser(a)
                  [] op = "list_users" -> {ProtoUser(u) : u \in a}
                  [] op = "delete_user" -> [status |-> a.status, user |-> userRefToProto(a.user)]
                  [] op = "send" -> ProtoMessage(a)
                  [] op = "packet" -> [recipient |-> userRefToProto(a.to),
                                       delivery_mode |-> deliveryModeToProto(a.mode),
                                       target_session |-> sessionRefToProto(a.session)]
                  [] op = "messages" -> [i \in DOMAIN a |-> ProtoMessage(a[i])]
                  [] op \in {"attach", "detach"} -> ProtoAttachment(a)
                  [] op = "attachments" -> {ProtoAttachment(x) : x \in a}
                  [] op \in {"get_metadata", "put_metadata", "delete_metadata"} -> ProtoMetadata(a)
                  [] op = "scan_metadata" -> [items |-> [i \in DOMAIN a.items |-> ProtoMetadata(a.items[i])],
                                              next_after |-> a.next]
                  [] op = "sessions" -> ProtoSessions(a)
                  [] op = "logged_in" -> {WireLoggedIn(x) : x \in a}
                  [] op = "events" -> [i \in DOMAIN a |-> WireEvent(a[i])]
                  [] op = "nodes" -> {WireNode(x) : x \in a}
                  [] op = "status" -> WireStatus(a)
                  [] OTHER -> a
    IN [kind |-> op, body |-> body]

\* JSON lists come bare or wrapped, a profile under one of two names, a time under one or both
JSONUser(u, old) ==
    [node_id |-> u.ref.node, user_id |-> u.ref.user, username |-> u.account.name, login_name |-> u.account.login,
     role |-> u.account.role, profile |-> IF old THEN "" ELSE u.account.profile,
     profile_json |-> IF old THEN u.account.profile ELSE ""]
JSONMessage(m, old) ==
    [recipient |-> m.to, sender |-> m.from, body |-> m.body, seq |-> m.seq, created_at |-> m.at,
     created_at_hlc |-> IF old THEN "" ELSE m.at]
JSONMetadata(x) ==
    [owner |-> x.owner, key |-> x.key, value |-> x.entry.value, typed_value |-> x.entry.typed,
     expires_at |-> x.entry.expires]
JSONAttachment(a) == [owner |-> a.owner, subject |-> a.subject, attachment_type |-> a.type]
JSONList(items, bare) == IF bare THEN [json |-> "[", elems |-> items] ELSE [json |-> "{", items |-> items]

EncodeHTTP(op, a, old) ==
    CASE op \in {"create_user", "get_user", "update_user"} -> JSONUser(a, old)
      [] op = "list_users" -> JSONList({JSONUser(u, old) : u \in a}, old)
      [] op = "delete_user" -> [status |-> a.status, node_id |-> a.user.node, user_id |-> a.user.user]
      [] op = "send" -> JSONMessage(a, old)
      [] op = "messages" -> JSONList([i \in DOMAIN a |-> JSONMessage(a[i], old)], old)
      [] op \in {"attach", "detach"} -> JSONAttachment(a)
      [] op = "attachments" -> JSONList({JSONAttachment(x) : x \in a}, old)
      [] op \in {"get_metadata", "put_metadata", "delete_metadata"} -> JSONMetadata(a)
      [] op = "scan_metadata" -> [items |-> [i \in DOMAIN a.items |-> JSONMetadata(a.items[i])],
                                  next_after |-> a.next]
      [] op = "logged_in" -> JSONList({WireLoggedIn(x) : x \in a}, old)
      [] op = "events" -> JSONList([i \in DOMAIN a |-> WireEvent(a[i])], old)
      [] op = "nodes" -> LET n == {WireNode(x) : x \in a}
                         IN IF old THEN [json |-> "[", elems |-> n] ELSE [json |-> "{", nodes |-> n]
      [] op = "status" -> WireStatus(a)
      [] op \in {"login", "login_by_name"} -> [token |-> a]
      [] OTHER -> a

\* a malformed command is refused
Carry(q) == IF q \in Service!Commands THEN Service!Apply(db, q) ELSE Service!Refused(db)

\* an old server answers a creation with OK too
StatusOf(op, old) ==
    CASE op \in {"create_user", "send", "put_metadata", "attach"} -> IF old THEN OK ELSE Created
      [] op = "packet" -> Accepted
      [] OTHER -> OK

ResponsesTo(c, q, a) ==
    IF calls[c].out.via = "ws"
    THEN {IF a.ok THEN EncodeWS(q.op, a.body) ELSE [kind |-> "error", body |-> Nil]}
    ELSE IF a.ok THEN {[status |-> StatusOf(q.op, old), body |-> EncodeHTTP(q.op, a.body, old)] : old \in BOOLEAN}
                      \cup {[status |-> OK, body |-> [token |-> ""]] : x \in {"login", "login_by_name"} \cap {q.op}}
         ELSE {[status |-> 404, body |-> Nil]}

\* the server serves a request, whether or not its caller still waits; the response may get lost
Serve(c) ==
    /\ inflight[c] # Nil
    /\ LET q == IF calls[c].out.via = "ws" THEN ReadWS(inflight[c]) ELSE ReadHTTP(inflight[c])
           r == Carry(q)
       IN /\ db' = r.db
          /\ \E e \in ResponsesTo(c, q, r.answer) \cup {Nil} : replies' = [replies EXCEPT ![c] = e]
    /\ expected' = [expected EXCEPT ![c] = Service!Apply(db, Asked(calls[c])).answer]
    /\ inflight' = [inflight EXCEPT ![c] = Nil]
    /\ UNCHANGED calls

\* the request gets lost, or the server turns it away
TurnAway(c) ==
    /\ inflight[c] # Nil
    /\ replies' = [replies EXCEPT ![c] = IF calls[c].out.via = "ws" THEN [kind |-> "error", body |-> Nil]
                                                                   ELSE [status |-> 503, body |-> Nil]]
    /\ inflight' = [inflight EXCEPT ![c] = Nil]
    /\ UNCHANGED <<db, calls, expected>>

(***************************************************************************)
(* Receiving: handleServerEnvelope types the body by the kind of the       *)
(* envelope, the caller insists on the type it wants.                      *)
(***************************************************************************)
handleServerEnvelope(e) ==
    LET p == e.body
        typed(t, v) == [type |-> t, value |-> v]
    IN
    CASE e.kind \in {"create_user", "get_user", "update_user"} -> typed("User", userFromProto(p))
      [] e.kind = "list_users" -> typed("Users", {userFromProto(u) : u \in p})
      [] e.kind = "delete_user" ->
            typed("DeleteUserResult", [status |-> p.status, user |-> userRefFromProto(p.user)])
      [] e.kind = "send" -> typed("Message", messageFromProto(p))
      [] e.kind = "packet" -> typed("RelayAccepted", relayAcceptedFromProto(p))
      [] e.kind = "messages" -> typed("Messages", [i \in DOMAIN p |-> messageFromProto(p[i])])
      [] e.kind \in {"attach", "detach"} -> typed("Attachment", attachmentFromProto(p))
      [] e.kind = "attachments" -> typed("Attachments", {attachmentFromProto(a) : a \in p})
      [] e.kind \in {"get_metadata", "put_metadata", "delete_metadata"} ->
            typed("UserMetadata", userMetadataFromProto(p))
      [] e.kind = "scan_metadata" -> typed("UserMetadataPage", userMetadataPageFromProto(p))
      [] e.kind = "sessions" -> typed("ResolvedUserSessions", resolvedUserSessionsFromProto(p))
      [] e.kind = "logged_in" -> typed("LoggedInUsers", {loggedInUserFromProto(u) : u \in p})
      [] e.kind = "status" -> typed("OperationsStatus", operationsStatusFromProto(p))
      [] e.kind = "events" -> typed("Events", [i \in DOMAIN p |-> eventFromProto(p[i])])
      [] e.kind = "nodes" -> typed("ClusterNodes", {clusterNodeFromProto(n) : n \in p})
      [] e.kind = "metrics" -> typed("string", p)
      [] e.kind = "ping" -> typed("pong", Nil)

\* what the call makes of it: subscriptions and blacklists are views of attachments
Present(type, as, v) ==
    CASE type = "Attachment"  -> AttachmentAs(v, as)
      [] type = "Attachments" -> {AttachmentAs(a, as) : a \in v}
      [] OTHER -> IF as = "nothing" THEN Nil ELSE v

statusAllowed(status, allowed) == IF allowed = {} THEN status = OK ELSE status \in allowed

isJSONArray(j) == j.json = "["
ItemsOf(j) == IF isJSONArray(j) THEN j.elems ELSE j.items
NodesOf(j) == IF isJSONArray(j) THEN j.elems ELSE j.nodes

userFromHTTP(j) ==
    [ref |-> [node |-> j.node_id, user |-> j.user_id],
     account |-> [name |-> j.username, login |-> j.login_name, role |-> j.role,
                  profile |-> IF j.profile = "" THEN j.profile_json ELSE j.profile]]

messageFromHTTP(j) ==
    [to |-> j.recipient, from |-> j.sender, body |-> j.body, seq |-> j.seq,
     at |-> IF j.created_at_hlc = "" THEN j.created_at ELSE j.created_at_hlc]

userMetadataFromHTTP(j) ==
    [owner |-> j.owner, key |-> j.key,
     entry |-> [value |-> j.value, typed |-> j.typed_value, expires |-> j.expires_at]]

userMetadataPageFromHTTP(j) ==
    [items |-> [i \in DOMAIN j.items |-> userMetadataFromHTTP(j.items[i])], next |-> j.next_after]

\* the types that are read from JSON as they are
EventFromHTTP(j) == [seq |-> j.sequence, origin |-> j.origin_node_id]
ClusterNodeFromHTTP(j) == [node |-> j.node_id, local |-> j.is_local]
LoggedInUserFromHTTP(j) ==
    [ref |-> [node |-> j.node_id, user |-> j.user_id], name |-> j.username, login |-> j.login_name]
PeerStatusFromHTTP(j) ==
    [node |-> j.node_id, sent |-> j.snapshot_chunks_sent_total, received |-> j.snapshot_chunks_received_total,
     origins |-> [i \in DOMAIN j.origins |->
                   [origin |-> j.origins[i].origin_node_id, acked |-> j.origins[i].acked_event_id,
                    applied |-> j.origins[i].applied_event_id]]]
OperationsStatusFromHTTP(j) ==
    [node |-> j.node_id, trimmed |-> [total |-> j.message_trim.trimmed_total, at |-> j.message_trim.last_trimmed_at],
     projection |-> [pending |-> j.projection.pending_total, failed |-> j.projection.last_failed_at],
     peers |-> [i \in DOMAIN j.peers |-> PeerStatusFromHTTP(j.peers[i])]]
AttachmentFromHTTP(j) == [owner |-> j.owner, subject |-> j.subject, type |-> j.attachment_type]

decodeHTTP(type, j) ==
    CASE type = "User" -> userFromHTTP(j)
      [] type = "Users" -> {userFromHTTP(u) : u \in ItemsOf(j)}
      [] type = "DeleteUserResult" -> [status |-> j.status, user |-> [node |-> j.node_id, user |-> j.user_id]]
      [] type = "Message" -> messageFromHTTP(j)
      [] type = "Messages" -> LET m == ItemsOf(j) IN [i \in DOMAIN m |-> messageFromHTTP(m[i])]
      [] type = "Attachment" -> AttachmentFromHTTP(j)
      [] type = "Attachments" -> {AttachmentFromHTTP(a) : a \in ItemsOf(j)}
      [] type = "UserMetadata" -> userMetadataFromHTTP(j)
      [] type = "UserMetadataPage" -> userMetadataPageFromHTTP(j)
      [] type = "LoggedInUsers" -> {LoggedInUserFromHTTP(u) : u \in ItemsOf(j)}
      [] type = "Events" -> LET e == ItemsOf(j) IN [i \in DOMAIN e |-> EventFromHTTP(e[i])]
      [] type = "ClusterNodes" -> {ClusterNodeFromHTTP(n) : n \in NodesOf(j)}
      [] type = "OperationsStatus" -> OperationsStatusFromHTTP(j)
      [] type = "Token" -> j.token
      [] type \in {"string", "nothing"} -> j

Finish(c, phase, value) == calls' = [calls EXCEPT ![c].phase = phase, ![c].value = value]

\* SendMessage's answer is stored before it is handed over, and storing may fail
ReceiveWS(c, e) ==
    LET out == calls[c].out
        d == handleServerEnvelope(e)
    IN IF e.kind = "error" THEN Finish(c, "failed", Nil)
       ELSE IF d.type # out.type THEN Finish(c, "broken", Nil)
       ELSE \/ Finish(c, "returned", Present(d.type, out.as, d.value))
            \/ d.type = "Message" /\ Finish(c, "failed", Nil)

\* an empty token is no login
ReceiveHTTP(c, e) ==
    LET out == calls[c].out
    IN IF statusAllowed(e.status, out.statuses)
       THEN LET v == decodeHTTP(out.type, e.body)
            IN IF out.type = "Token" /\ v = "" THEN Finish(c, "failed", Nil)
               ELSE Finish(c, "returned", Present(out.type, out.as, v))
       ELSE Finish(c, IF e.status >= 400 THEN "failed" ELSE "broken", Nil)

\* the response of a call that no longer waits finds no one
Receive(c) ==
    /\ replies[c] # Nil
    /\ replies' = [replies EXCEPT ![c] = Nil]
    /\ IF calls[c].phase # "sent" THEN UNCHANGED calls
       ELSE IF calls[c].out.via = "ws" THEN ReceiveWS(c, replies[c]) ELSE ReceiveHTTP(c, replies[c])
    /\ UNCHANGED <<db, inflight, expected>>

\* the context ends or the connection fails while the call waits
Cancel(c) ==
    /\ calls[c].phase = "sent"
    /\ Finish(c, "failed", Nil)
    /\ UNCHANGED <<db, inflight, replies, expected>>

(***************************************************************************)
(* The inputs: good ones, and each kind of bad one.                        *)
(***************************************************************************)
Accounts == [name : {"", "n"}, login : {"", "l"}, role : {"", "user"}, profile : {"", "p"}]
Changes == [name : {Nil, "m"}, login : {Nil, "", "l"}, role : {Nil, "channel"}, profile : {Nil, "", "p"}]
Types == Service!LinkTypes \cup {""}
Upserts == [value : {Nil, "", "b", " true"}, typed : {Nil} \cup TypedValues, expires : {Nil, "t"}]
Names == {"", " n"}
Logins == {"", " ", " l"}
Bodies == {"", "b"}
PacketModes == {"", "best_effort", "route_retry"}
SessionRefs == [node : 0..1, id : {"", "s"}]
Limits == 0..2
Sizes == {-1, 0, 1, Int32Size \div 2, Int32Size + 1}  \* 2^31 and 2^32+1 do not fit in an int32
Passwords == [source : {"", "plain", "hashed"}, encoded : {"", "hash"}]

\* Next for a caller that uses the WebSocket
ClientCalls(c) ==
    \/ \E a \in Accounts : CreateUser(c, a) \/ CreateChannel(c, a)
    \/ \E r \in Refs : GetUser(c, r) \/ DeleteUser(c, r) \/ ResolveUserSessions(c, r)
    \/ \E r \in Refs, ch \in Changes : UpdateUser(c, r, ch)
    \/ \E n \in Names, r \in Refs : ListUsers(c, n, r)
    \/ \E r \in Refs, b \in Bodies : PostMessage(c, r, b)
    \/ \E r \in Refs, b \in Bodies, m \in PacketModes, x \in SessionRefs : SendPacketToSession(c, r, x, b, m)
    \/ \E r \in Refs, b \in Bodies, m \in PacketModes, n \in 0..MaxNode : PostPacket(c, n, r, b, m)
    \/ \E r \in Refs, l \in Sizes : ListMessages(c, r, l)
    \/ \E r \in Refs, k \in Fragments : GetUserMetadata(c, r, k) \/ DeleteUserMetadata(c, r, k)
    \/ \E r \in Refs, k \in Fragments, u \in Upserts : UpsertUserMetadata(c, r, k, u)
    \/ \E r \in Refs, p \in Fragments, a \in Fragments, l \in Limits : ScanUserMetadata(c, r, p, a, l)
    \/ \E o, x \in Refs, t \in Types : UpsertAttachment(c, o, x, t) \/ DeleteAttachment(c, o, x, t)
    \/ \E o, x \in Refs : \/ CreateSubscription(c, o, x) \/ SubscribeChannel(c, o, x)
                         \/ UnsubscribeChannel(c, o, x) \/ BlockUser(c, o, x) \/ UnblockUser(c, o, x)
    \/ \E o \in Refs, t \in Types : ListAttachments(c, o, t)
    \/ \E o \in Refs : ListSubscriptions(c, o) \/ ListBlockedUsers(c, o)
    \/ \E a \in -1..1, l \in Sizes : ListEvents(c, a, l)
    \/ \E n \in 0..MaxNode : ListNodeLoggedInUsers(c, n)
    \/ \E r \in Refs, w \in {"", "w"} : Login(c, r, w)
    \/ \E r \in Refs, w \in Passwords : LoginWithPassword(c, r, w)
    \/ \E n \in Logins, w \in {"", "w"} : LoginByLoginName(c, n, w)
    \/ \E n \in Logins, w \in Passwords : LoginByLoginNameWithPassword(c, n, w)
    \/ ListClusterNodes(c) \/ OperationsStatus(c) \/ Metrics(c) \/ Ping(c)

\* Next for a caller that uses HTTP
HTTPClientCalls(c) ==
    \/ \E r \in Refs, w \in Passwords : HTTPLoginWithPassword(c, r, w)
    \/ \E n \in Logins, w \in Passwords : HTTPLoginByLoginNameWithPassword(c, n, w)
    \/ \E r \in Refs, w \in {"", "w"} : HTTPLogin(c, r, w)
    \/ \E n \in Logins, w \in {"", "w"} : HTTPLoginByLoginName(c, n, w)
    \/ \E a \in Accounts : HTTPCreateUser(c, a) \/ HTTPCreateChannel(c, a)
    \/ \E r \in Refs : HTTPGetUser(c, r) \/ HTTPDeleteUser(c, r)
    \/ \E r \in Refs, ch \in Changes : HTTPUpdateUser(c, r, ch)
    \/ \E n \in Names, r \in Refs : HTTPListUsers(c, n, r)
    \/ \E r, p \in Refs, l \in Sizes : HTTPListMessages(c, r, l, p)
    \/ \E r \in Refs, b \in Bodies : HTTPPostMessage(c, r, b)
    \/ \E r \in Refs, b \in Bodies, m \in PacketModes, n \in 0..MaxNode : HTTPPostPacket(c, n, r, b, m)
    \/ \E r \in Refs, k \in Fragments : HTTPGetUserMetadata(c, r, k) \/ HTTPDeleteUserMetadata(c, r, k)
    \/ \E r \in Refs, k \in Fragments, u \in Upserts : HTTPUpsertUserMetadata(c, r, k, u)
    \/ \E r \in Refs, p \in Fragments, a \in Fragments, l \in Limits : HTTPScanUserMetadata(c, r, p, a, l)
    \/ \E o, x \in Refs, t \in Types : HTTPUpsertAttachment(c, o, x, t) \/ HTTPDeleteAttachment(c, o, x, t)
    \/ \E o, x \in Refs : HTTPCreateSubscription(c, o, x) \/ HTTPBlockUser(c, o, x) \/ HTTPUnblockUser(c, o, x)
    \/ \E o \in Refs, t \in Types : HTTPListAttachments(c, o, t)
    \/ \E o \in Refs : HTTPListBlockedUsers(c, o)
    \/ \E a \in -1..1, l \in Sizes : HTTPListEvents(c, a, l)
    \/ \E n \in 0..MaxNode : HTTPListNodeLoggedInUsers(c, n)
    \/ HTTPListClusterNodes(c) \/ HTTPOperationsStatus(c) \/ HTTPMetrics(c)

RivalCalls(c) ==
    \/ DeleteUser(c, Service!Self)
    \/ DeleteUserMetadata(c, Service!Self, "k")
    \/ HTTPPostMessage(c, Service!Self, "b")

Next ==
    \E c \in Callers :
        \/ /\ calls[c].phase = "idle"
           /\ \/ c \notin Rivals /\ (ClientCalls(c) \/ HTTPClientCalls(c))
              \/ c \in Rivals /\ RivalCalls(c)
        \/ Serve(c) \/ TurnAway(c) \/ Receive(c) \/ Cancel(c)

Spec == Init /\ [][Next]_vars

(***************************************************************************)
(* What the request API guarantees.                                        *)
(***************************************************************************)

\* Whichever of the two interfaces carries it, a call names a well-formed
\* command, the server carries out that very command at most once, and the
\* caller gets the answer of that command or an error: argument checks,
\* conversions, delegations and decoding never turn a call into another one,
\* never fail on a good answer and never hand it to a call that has ended.
\* The exception is in Asked: a limit that does not fit in an int32 is asked
\* for modulo 2^32 by ListMessages and ListEvents of Client.
ImplementsDirectory == Service!DirectorySpec

\* Whoever writes it, over WebSocket or HTTP, raw or typed, the reserved key
\* system.visible_to_others always holds a bool, white space around it aside,
\* and never expires.
VisibleIsBool ==
    \A r \in Service!ValidRefs :
        LET e == db.meta[<<r, Visible>>]
        IN e # Nil => parseMetadataBoolBytes(e.value) /\ e.expires = ""
=============================================================================
