--------------------------- MODULE RequestsProofs ---------------------------
(***************************************************************************)
(* The reserved key system.visible_to_others holds a bool, whoever writes  *)
(* it and however.                                                         *)
(***************************************************************************)
EXTENDS Requests, TLAPS

(***************************************************************************)
(* The requests that are on the wire.                                      *)
(***************************************************************************)
Kinds == {"create_user", "update_user", "list_users", "send_message", "list_messages", "get_metadata",
          "delete_metadata", "put_metadata", "scan_metadata", "attach", "detach", "attachments", "events",
          "logged_in", "nodes", "status", "metrics", "ping", "get_user", "delete_user", "sessions"}

Routes == {"/auth/login", "/users", "/nodes/%d/users/%d", "/nodes/%d/users/%d/messages", MetadataRoute,
           "/nodes/%d/users/%d/metadata", "/nodes/%d/users/%d/attachments/%s/%d/%d",
           "/nodes/%d/users/%d/attachments", "/events", "/cluster/nodes/%d/logged-in-users", "/cluster/nodes",
           "/ops/status", "/metrics"}

\* a write of the reserved key has a bool and no end
SafeWS(q) ==
    /\ q.kind \in Kinds
    /\ q.kind = "put_metadata" /\ q.key = Visible => parseMetadataBoolBytes(q.value) /\ q.expires_at = Nil

SafeHTTP(q) ==
    /\ q.route \in Routes
    /\ q.route \in {"/users", "/nodes/%d/users/%d/messages"} => q.method \in {"GET", "POST"}
    /\ q.route = MetadataRoute /\ q.method = "PUT" /\ q.args[3] = Visible =>
          /\ q.body.expires_at = Nil
          /\ parseMetadataBoolBytes(IF q.body.typed_value = Nil THEN q.body.value ELSE q.body.typed_value.raw)

Safe(q, out) == IF out.via = "ws" THEN SafeWS(q) ELSE SafeHTTP(q)

\* the same of the command the server makes of it
Mild(q) ==
    q.op = "put_metadata" /\ q.key = Visible => parseMetadataBoolBytes(q.entry.value) /\ q.entry.expires = ""

(***************************************************************************)
(* The invariant.                                                          *)
(***************************************************************************)
DbOK(d) == DOMAIN d = {"users", "links", "meta", "mail"} /\ DOMAIN d.meta = Service!ValidRefs \X Service!MetaKeys

BoolIn(d) ==
    \A r \in Service!ValidRefs :
        d.meta[<<r, Visible>>] # Nil => parseMetadataBoolBytes(d.meta[<<r, Visible>>].value) /\ d.meta[<<r, Visible>>].expires = ""

CallTypes ==
    /\ DOMAIN calls = Callers /\ DOMAIN inflight = Callers
    /\ \A c \in Callers : DOMAIN calls[c] = {"phase", "cmd", "out", "value"}

WireInv == \A c \in Callers : inflight[c] # Nil => Safe(inflight[c], calls[c].out)

RequestInv == CallTypes /\ WireInv /\ DbOK(db) /\ BoolIn(db)

(***************************************************************************)
(* The calls.                                                              *)
(***************************************************************************)
\* A call puts on the wire what its argument checks let through.
LEMMA IssueKeeps ==
    ASSUME NEW c \in Callers, NEW ok, NEW cmd, NEW req, NEW out, CallTypes, WireInv,
           Issue(c, ok, cmd, req, out), ok => Safe(req, out)
    PROVE  CallTypes' /\ WireInv' /\ db' = db
<1>1. CASE ok /\ calls' = [calls EXCEPT ![c] = [phase |-> "sent", cmd |-> cmd, out |-> out, value |-> Nil]]
              /\ inflight' = [inflight EXCEPT ![c] = req]
    <2>1. calls'[c].out = out /\ inflight'[c] = req /\ DOMAIN calls'[c] = {"phase", "cmd", "out", "value"}
        BY <1>1 DEF CallTypes
    <2>2. \A d \in Callers \ {c} : calls'[d] = calls[d] /\ inflight'[d] = inflight[d]
        BY <1>1 DEF CallTypes
    <2>3. DOMAIN calls' = Callers /\ DOMAIN inflight' = Callers
        BY <1>1 DEF CallTypes
    <2>4. CallTypes'
        BY <2>1, <2>2, <2>3, Zenon DEF CallTypes
    <2>5. ASSUME NEW d \in Callers, inflight'[d] # Nil
          PROVE  Safe(inflight'[d], calls'[d].out)
        BY <1>1, <2>1, <2>2, <2>5, Zenon DEF WireInv
    <2>6. db' = db
        BY Zenon DEF Issue
    <2>7. QED
        BY <2>4, <2>5, <2>6, Zenon DEF WireInv
<1>2. CASE calls' = [calls EXCEPT ![c].phase = "failed"] /\ UNCHANGED inflight
    <2>1. calls'[c].out = calls[c].out /\ DOMAIN calls'[c] = {"phase", "cmd", "out", "value"}
        BY <1>2 DEF CallTypes
    <2>2. \A d \in Callers \ {c} : calls'[d] = calls[d]
        BY <1>2 DEF CallTypes
    <2>3. DOMAIN calls' = Callers
        BY <1>2 DEF CallTypes
    <2>4. CallTypes'
        BY <1>2, <2>1, <2>2, <2>3, Zenon DEF CallTypes
    <2>5. WireInv'
        BY <1>2, <2>1, <2>2, Zenon DEF WireInv
    <2>6. db' = db
        BY Zenon DEF Issue
    <2>7. QED
        BY <2>4, <2>5, <2>6, Zenon
<1>3. QED
    BY <1>1, <1>2, Zenon DEF Issue

\* A WebSocket call that is no write of metadata, or a safe one.
LEMMA RpcKeeps ==
    ASSUME NEW c \in Callers, NEW ok, NEW cmd, NEW req, NEW type, NEW as, CallTypes, WireInv,
           rpc(c, ok, cmd, req, type, as), ok => SafeWS(req)
    PROVE  CallTypes' /\ WireInv' /\ db' = db
<1> DEFINE out == [via |-> "ws", type |-> type, as |-> as]
<1>1. ok => Safe(req, out)
    BY DEF Safe
<1>2. Issue(c, ok, cmd, req, out)
    BY Zenon DEF rpc
<1>3. QED
    <2> HIDE DEF out
    <2> QED
        BY <1>1, <1>2, IssueKeeps, Zenon

\* The same for a call of HTTPClient.
LEMMA DoJSONKeeps ==
    ASSUME NEW c \in Callers, NEW ok, NEW cmd, NEW method, NEW route, NEW args, NEW query, NEW body, NEW type, NEW as,
           NEW statuses, CallTypes, WireInv, doJSON(c, ok, cmd, method, route, args, query, body, type, as, statuses),
           ok => SafeHTTP([method |-> method, route |-> route, args |-> args, query |-> query, body |-> body])
    PROVE  CallTypes' /\ WireInv' /\ db' = db
<1> DEFINE out == [via |-> "http", type |-> type, as |-> as, statuses |-> statuses]
           req == [method |-> method, route |-> route, args |-> args, query |-> query, body |-> body]
<1>1. out.via # "ws"
    OBVIOUS
<1>2. Issue(c, ok, cmd, req, out)
    BY Zenon DEF doJSON
<1>3. ok => SafeHTTP(req)
    OBVIOUS
<1>4. QED
    <2> HIDE DEF out, req
    <2>1. ok => Safe(req, out)
        BY <1>1, <1>3, Zenon DEF Safe
    <2> QED
        BY <2>1, <1>2, IssueKeeps, Zenon

\* A login is a request of its own, whoever makes it.
LEMMA LoginKeeps ==
    ASSUME NEW c \in Callers, NEW r, NEW name, NEW password, CallTypes, WireInv, loginWithRequest(c, r, name, password)
    PROVE  CallTypes' /\ WireInv' /\ db' = db
    BY DoJSONKeeps DEF loginWithRequest, SafeHTTP, Routes, MetadataRoute

\* There is none with an empty password.
LEMMA PlainLoginKeeps ==
    ASSUME NEW c \in Callers, NEW r, NEW name, NEW plain, CallTypes, WireInv,
           IF plain = "" THEN Issue(c, FALSE, Nil, Nil, Nil) ELSE loginWithRequest(c, r, name, PlainPassword(plain))
    PROVE  CallTypes' /\ WireInv' /\ db' = db
    BY IssueKeeps, LoginKeeps, Zenon

\* The calls of Client.
LEMMA ClientCallsKeep ==
    ASSUME NEW c \in Callers, CallTypes, WireInv, ClientCalls(c)
    PROVE  CallTypes' /\ WireInv' /\ db' = db
<1>1. ASSUME NEW a \in Accounts, CreateUser(c, a)
      PROVE  CallTypes' /\ WireInv' /\ db' = db
    BY <1>1, RpcKeeps DEF CreateUser, SafeWS, Kinds
<1>2. ASSUME NEW a \in Accounts, CreateChannel(c, a)
      PROVE  CallTypes' /\ WireInv' /\ db' = db
    BY <1>2, RpcKeeps DEF CreateChannel, CreateUser, SafeWS, Kinds
<1>3. ASSUME NEW r \in Refs, GetUser(c, r)
      PROVE  CallTypes' /\ WireInv' /\ db' = db
    BY <1>3, RpcKeeps DEF GetUser, SafeWS, Kinds
<1>4. ASSUME NEW r \in Refs, DeleteUser(c, r)
      PROVE  CallTypes' /\ WireInv' /\ db' = db
    BY <1>4, RpcKeeps DEF DeleteUser, SafeWS, Kinds
<1>5. ASSUME NEW r \in Refs, ResolveUserSessions(c, r)
      PROVE  CallTypes' /\ WireInv' /\ db' = db
    BY <1>5, RpcKeeps DEF ResolveUserSessions, SafeWS, Kinds
<1>6. ASSUME NEW r \in Refs, NEW ch \in Changes, UpdateUser(c, r, ch)
      PROVE  CallTypes' /\ WireInv' /\ db' = db
    BY <1>6, RpcKeeps DEF UpdateUser, SafeWS, Kinds
<1>7. ASSUME NEW n \in Names, NEW r \in Refs, ListUsers(c, n, r)
      PROVE  CallTypes' /\ WireInv' /\ db' = db
    BY <1>7, RpcKeeps DEF ListUsers, WSListUsers, SafeWS, Kinds
<1>8. ASSUME NEW r \in Refs, NEW b \in Bodies, PostMessage(c, r, b)
      PROVE  CallTypes' /\ WireInv' /\ db' = db
    BY <1>8, RpcKeeps DEF PostMessage, SendMessage, SafeWS, Kinds
<1>9. ASSUME NEW r \in Refs, NEW b \in Bodies, NEW m \in PacketModes, NEW x \in SessionRefs, SendPacketToSession(c, r, x, b, m)
      PROVE  CallTypes' /\ WireInv' /\ db' = db
    BY <1>9, RpcKeeps DEF SendPacketToSession, SendPacket, SendPacketAs, SafeWS, Kinds
<1>10. ASSUME NEW r \in Refs, NEW b \in Bodies, NEW m \in PacketModes, NEW n \in 0..MaxNode, PostPacket(c, n, r, b, m)
      PROVE  CallTypes' /\ WireInv' /\ db' = db
    <2>1. CASE Issue(c, FALSE, Nil, Nil, Nil)
        BY <2>1, IssueKeeps, Zenon
    <2>2. CASE SendPacketAs(c, r, b, m, ZeroSession, "nothing")
        BY <2>2, RpcKeeps DEF SendPacketAs, SafeWS, Kinds
    <2>3. QED
        BY <1>10, <2>1, <2>2, Zenon DEF PostPacket
<1>11. ASSUME NEW r \in Refs, NEW l \in Sizes, ListMessages(c, r, l)
      PROVE  CallTypes' /\ WireInv' /\ db' = db
    BY <1>11, RpcKeeps DEF ListMessages, WSListMessages, SafeWS, Kinds
<1>12. ASSUME NEW r \in Refs, NEW k \in Fragments, GetUserMetadata(c, r, k)
      PROVE  CallTypes' /\ WireInv' /\ db' = db
    BY <1>12, RpcKeeps DEF GetUserMetadata, WSGetUserMetadata, WSKeyMetadata, SafeWS, Kinds
<1>13. ASSUME NEW r \in Refs, NEW k \in Fragments, DeleteUserMetadata(c, r, k)
      PROVE  CallTypes' /\ WireInv' /\ db' = db
    BY <1>13, RpcKeeps DEF DeleteUserMetadata, WSDeleteUserMetadata, WSKeyMetadata, SafeWS, Kinds
<1>14. ASSUME NEW r \in Refs, NEW k \in Fragments, NEW u \in Upserts, UpsertUserMetadata(c, r, k, u)
      PROVE  CallTypes' /\ WireInv' /\ db' = db
    <2> DEFINE ok == ValidRef(r) /\ validateMetadataKey(k) /\ validateWSMetadataUpsertRequest(k, u)
               q == [kind |-> "put_metadata", owner |-> userRefToProto(r), key |-> k, value |-> protoBytes(u.value),
                     expires_at |-> optionalField(u.expires)]
    <2>1. q.kind = "put_metadata" /\ q.key = k /\ q.value = protoBytes(u.value) /\ q.expires_at = optionalField(u.expires)
        OBVIOUS
    <2>2. \E cmd : rpc(c, ok, cmd, q, "UserMetadata", "metadata")
        BY <1>14, Zenon DEF UpsertUserMetadata, WSUpsertUserMetadata
    <2> HIDE DEF q
    <2>3. ok => SafeWS(q)
        BY <2>1, Zenon DEF SafeWS, Kinds, validateWSMetadataUpsertRequest, validateMetadataWritePolicy, protoBytes, optionalField
    <2> HIDE DEF ok
    <2>4. QED
        BY <2>2, <2>3, RpcKeeps, Zenon
<1>15. ASSUME NEW r \in Refs, NEW p \in Fragments, NEW a \in Fragments, NEW l \in Limits, ScanUserMetadata(c, r, p, a, l)
      PROVE  CallTypes' /\ WireInv' /\ db' = db
    BY <1>15, RpcKeeps DEF ScanUserMetadata, WSScanUserMetadata, SafeWS, Kinds
<1>16. ASSUME NEW o \in Refs, NEW x \in Refs, NEW t \in Types, UpsertAttachment(c, o, x, t)
      PROVE  CallTypes' /\ WireInv' /\ db' = db
    BY <1>16, RpcKeeps DEF UpsertAttachment, WSAttachment, SafeWS, Kinds
<1>17. ASSUME NEW o \in Refs, NEW x \in Refs, NEW t \in Types, DeleteAttachment(c, o, x, t)
      PROVE  CallTypes' /\ WireInv' /\ db' = db
    BY <1>17, RpcKeeps DEF DeleteAttachment, WSAttachment, SafeWS, Kinds
<1>18. ASSUME NEW o \in Refs, NEW x \in Refs, CreateSubscription(c, o, x)
      PROVE  CallTypes' /\ WireInv' /\ db' = db
    BY <1>18, RpcKeeps DEF CreateSubscription, WSAttachment, SafeWS, Kinds
<1>19. ASSUME NEW o \in Refs, NEW x \in Refs, SubscribeChannel(c, o, x)
      PROVE  CallTypes' /\ WireInv' /\ db' = db
    BY <1>19, RpcKeeps DEF SubscribeChannel, WSAttachment, SafeWS, Kinds
<1>20. ASSUME NEW o \in Refs, NEW x \in Refs, UnsubscribeChannel(c, o, x)
      PROVE  CallTypes' /\ WireInv' /\ db' = db
    BY <1>20, RpcKeeps DEF UnsubscribeChannel, WSAttachment, SafeWS, Kinds
<1>21. ASSUME NEW o \in Refs, NEW x \in Refs, BlockUser(c, o, x)
      PROVE  CallTypes' /\ WireInv' /\ db' = db
    BY <1>21, RpcKeeps DEF BlockUser, WSAttachment, SafeWS, Kinds
<1>22. ASSUME NEW o \in Refs, NEW x \in Refs, UnblockUser(c, o, x)
      PROVE  CallTypes' /\ WireInv' /\ db' = db
    BY <1>22, RpcKeeps DEF UnblockUser, WSAttachment, SafeWS, Kinds
<1>23. ASSUME NEW o \in Refs, NEW t \in Types, ListAttachments(c, o, t)
      PROVE  CallTypes' /\ WireInv' /\ db' = db
    BY <1>23, RpcKeeps DEF ListAttachments, ListAttachmentsAs, SafeWS, Kinds
<1>24. ASSUME NEW o \in Refs, ListSubscriptions(c, o)
      PROVE  CallTypes' /\ WireInv' /\ db' = db
    BY <1>24, RpcKeeps DEF ListSubscriptions, ListAttachmentsAs, SafeWS, Kinds
<1>25. ASSUME NEW o \in Refs, ListBlockedUsers(c, o)
      PROVE  CallTypes' /\ WireInv' /\ db' = db
    BY <1>25, RpcKeeps DEF ListBlockedUsers, ListAttachmentsAs, SafeWS, Kinds
<1>26. ASSUME NEW a \in -1..1, NEW l \in Sizes, ListEvents(c, a, l)
      PROVE  CallTypes' /\ WireInv' /\ db' = db
    BY <1>26, RpcKeeps DEF ListEvents, SafeWS, Kinds
<1>27. ASSUME NEW n \in 0..MaxNode, ListNodeLoggedInUsers(c, n)
      PROVE  CallTypes' /\ WireInv' /\ db' = db
    BY <1>27, RpcKeeps DEF ListNodeLoggedInUsers, SafeWS, Kinds
<1>28. CASE ListClusterNodes(c)
    BY <1>28, RpcKeeps DEF ListClusterNodes, SafeWS, Kinds
<1>29. CASE OperationsStatus(c)
    BY <1>29, RpcKeeps DEF OperationsStatus, SafeWS, Kinds
<1>30. CASE Metrics(c)
    BY <1>30, RpcKeeps DEF Metrics, SafeWS, Kinds
<1>31. CASE Ping(c)
    BY <1>31, RpcKeeps DEF Ping, SafeWS, Kinds
<1>32. ASSUME NEW r \in Refs, NEW w \in {"", "w"}, Login(c, r, w)
      PROVE  CallTypes' /\ WireInv' /\ db' = db
    BY <1>32, PlainLoginKeeps, Zenon DEF Login, HTTPLoginWithPassword
<1>33. ASSUME NEW r \in Refs, NEW w \in Passwords, LoginWithPassword(c, r, w)
      PROVE  CallTypes' /\ WireInv' /\ db' = db
    BY <1>33, LoginKeeps, Zenon DEF LoginWithPassword, HTTPLoginWithPassword
<1>34. ASSUME NEW n \in Logins, NEW w \in {"", "w"}, LoginByLoginName(c, n, w)
      PROVE  CallTypes' /\ WireInv' /\ db' = db
    BY <1>34, PlainLoginKeeps, Zenon DEF LoginByLoginName, HTTPLoginByLoginName, HTTPLoginByLoginNameWithPassword
<1>35. ASSUME NEW n \in Logins, NEW w \in Passwords, LoginByLoginNameWithPassword(c, n, w)
      PROVE  CallTypes' /\ WireInv' /\ db' = db
    BY <1>35, LoginKeeps, Zenon DEF LoginByLoginNameWithPassword, HTTPLoginByLoginNameWithPassword
<1> QED
    BY <1>1, <1>2, <1>3, <1>4, <1>5, <1>6, <1>7, <1>8, <1>9, <1>10, <1>11, <1>12, <1>13, <1>14, <1>15, <1>16, <1>17, <1>18, <1>19, <1>20, <1>21, <1>22, <1>23, <1>24, <1>25, <1>26, <1>27, <1>28, <1>29, <1>30, <1>31, <1>32, <1>33, <1>34, <1>35, Zenon DEF ClientCalls

\* The calls of HTTPClient.
LEMMA HTTPClientCallsKeep ==
    ASSUME NEW c \in Callers, CallTypes, WireInv, HTTPClientCalls(c)
    PROVE  CallTypes' /\ WireInv' /\ db' = db
<1>1. ASSUME NEW r \in Refs, NEW w \in Passwords, HTTPLoginWithPassword(c, r, w)
      PROVE  CallTypes' /\ WireInv' /\ db' = db
    BY <1>1, LoginKeeps, Zenon DEF HTTPLoginWithPassword
<1>2. ASSUME NEW n \in Logins, NEW w \in Passwords, HTTPLoginByLoginNameWithPassword(c, n, w)
      PROVE  CallTypes' /\ WireInv' /\ db' = db
    BY <1>2, LoginKeeps, Zenon DEF HTTPLoginByLoginNameWithPassword
<1>3. ASSUME NEW r \in Refs, NEW w \in {"", "w"}, HTTPLogin(c, r, w)
      PROVE  CallTypes' /\ WireInv' /\ db' = db
    BY <1>3, PlainLoginKeeps, Zenon DEF HTTPLogin, HTTPLoginWithPassword
<1>4. ASSUME NEW n \in Logins, NEW w \in {"", "w"}, HTTPLoginByLoginName(c, n, w)
      PROVE  CallTypes' /\ WireInv' /\ db' = db
    BY <1>4, PlainLoginKeeps, Zenon DEF HTTPLoginByLoginName, HTTPLoginByLoginNameWithPassword
<1>5. ASSUME NEW a \in Accounts, HTTPCreateUser(c, a)
      PROVE  CallTypes' /\ WireInv' /\ db' = db
    BY <1>5, DoJSONKeeps DEF HTTPCreateUser, SafeHTTP, Routes, MetadataRoute
<1>6. ASSUME NEW a \in Accounts, HTTPCreateChannel(c, a)
      PROVE  CallTypes' /\ WireInv' /\ db' = db
    BY <1>6, DoJSONKeeps DEF HTTPCreateChannel, HTTPCreateUser, SafeHTTP, Routes, MetadataRoute
<1>7. ASSUME NEW r \in Refs, HTTPGetUser(c, r)
      PROVE  CallTypes' /\ WireInv' /\ db' = db
    BY <1>7, DoJSONKeeps DEF HTTPGetUser, SafeHTTP, Routes, MetadataRoute
<1>8. ASSUME NEW r \in Refs, HTTPDeleteUser(c, r)
      PROVE  CallTypes' /\ WireInv' /\ db' = db
    BY <1>8, DoJSONKeeps DEF HTTPDeleteUser, SafeHTTP, Routes, MetadataRoute
<1>9. ASSUME NEW r \in Refs, NEW ch \in Changes, HTTPUpdateUser(c, r, ch)
      PROVE  CallTypes' /\ WireInv' /\ db' = db
    BY <1>9, DoJSONKeeps DEF HTTPUpdateUser, SafeHTTP, Routes, MetadataRoute
<1>10. ASSUME NEW n \in Names, NEW r \in Refs, HTTPListUsers(c, n, r)
      PROVE  CallTypes' /\ WireInv' /\ db' = db
    BY <1>10, DoJSONKeeps DEF HTTPListUsers, SafeHTTP, Routes, MetadataRoute
<1>11. ASSUME NEW r \in Refs, NEW p \in Refs, NEW l \in Sizes, HTTPListMessages(c, r, l, p)
      PROVE  CallTypes' /\ WireInv' /\ db' = db
    BY <1>11, DoJSONKeeps DEF HTTPListMessages, SafeHTTP, Routes, MetadataRoute
<1>12. ASSUME NEW r \in Refs, NEW b \in Bodies, HTTPPostMessage(c, r, b)
      PROVE  CallTypes' /\ WireInv' /\ db' = db
    BY <1>12, DoJSONKeeps DEF HTTPPostMessage, SafeHTTP, Routes, MetadataRoute
<1>13. ASSUME NEW r \in Refs, NEW b \in Bodies, NEW m \in PacketModes, NEW n \in 0..MaxNode, HTTPPostPacket(c, n, r, b, m)
      PROVE  CallTypes' /\ WireInv' /\ db' = db
    BY <1>13, DoJSONKeeps DEF HTTPPostPacket, SafeHTTP, Routes, MetadataRoute
<1>14. ASSUME NEW r \in Refs, NEW k \in Fragments, HTTPGetUserMetadata(c, r, k)
      PROVE  CallTypes' /\ WireInv' /\ db' = db
    BY <1>14, DoJSONKeeps DEF HTTPGetUserMetadata, HTTPKeyMetadata, SafeHTTP, Routes, MetadataRoute
<1>15. ASSUME NEW r \in Refs, NEW k \in Fragments, HTTPDeleteUserMetadata(c, r, k)
      PROVE  CallTypes' /\ WireInv' /\ db' = db
    BY <1>15, DoJSONKeeps DEF HTTPDeleteUserMetadata, HTTPKeyMetadata, SafeHTTP, Routes, MetadataRoute
<1>16. ASSUME NEW r \in Refs, NEW k \in Fragments, NEW u \in Upserts, HTTPUpsertUserMetadata(c, r, k, u)
      PROVE  CallTypes' /\ WireInv' /\ db' = db
    <2> DEFINE ok == ValidRef(r) /\ validateMetadataKey(k) /\ validateHTTPMetadataUpsertRequest(k, u)
               args == <<r.node, r.user, k>>
               body == [value |-> u.value, typed_value |-> u.typed, expires_at |-> u.expires]
               q == [method |-> "PUT", route |-> MetadataRoute, args |-> args, query |-> Nil, body |-> body]
    <2>1. \E cmd : doJSON(c, ok, cmd, "PUT", MetadataRoute, args, Nil, body, "UserMetadata", "metadata", {Created, OK})
        BY <1>16, Zenon DEF HTTPUpsertUserMetadata
    <2>2. /\ q.method = "PUT" /\ q.route = MetadataRoute /\ q.args[3] = k
          /\ q.body.value = u.value /\ q.body.typed_value = u.typed /\ q.body.expires_at = u.expires
        OBVIOUS
    <2>3. ASSUME validateHTTPMetadataUpsertRequest(k, u), k = Visible, u.typed # Nil
          PROVE  u.typed.raw = "true"
        <3>1. TypedValid(u.typed) /\ u.typed.kind = "bool" /\ u.typed \in TypedValues
            BY <2>3 DEF validateHTTPMetadataUpsertRequest, validateMetadataWritePolicy, validateJSON, Upserts
        <3>2. u.typed.member = "bool"
            BY <3>1, Zenon DEF TypedValid
        <3>3. Nil # "bool"
            BY RequestsAssumption, Zenon
        <3>4. CASE u.typed = NewMetadataTyped("bool", "true")
            BY <3>4 DEF NewMetadataTyped
        <3>5. CASE u.typed.member = Nil
            BY <3>2, <3>3, <3>5, Zenon
        <3>6. ASSUME NEW kind, NEW raw, u.typed = NewMetadataTyped(kind, raw), kind # "bool"
              PROVE  FALSE
            BY <3>1, <3>6 DEF NewMetadataTyped
        <3>7. ASSUME NEW raw, u.typed = [kind |-> "bool", member |-> Nil, raw |-> raw]
              PROVE  u.typed.member = Nil
            BY <3>7
        <3>8. ASSUME u.typed = [kind |-> "odd", member |-> "odd", raw |-> "b"]
              PROVE  FALSE
            BY <3>1, <3>8
        <3>9. QED
            BY <3>1, <3>4, <3>5, <3>6, <3>7, <3>8, Zenon DEF TypedValues
    <2>4. parseMetadataBoolBytes("true")
        BY DEF parseMetadataBoolBytes, TrimSpace
    <2>5. MetadataRoute \in Routes /\ MetadataRoute \notin {"/users", "/nodes/%d/users/%d/messages"}
        BY DEF Routes, MetadataRoute
    <2>6. ok => SafeHTTP(q)
        <3> DEFINE raw == IF q.body.typed_value = Nil THEN q.body.value ELSE q.body.typed_value.raw
        <3>1. raw = IF u.typed = Nil THEN u.value ELSE u.typed.raw
            BY <2>2
        <3> HIDE DEF q, raw
        <3>2. CASE u.typed = Nil
            <4>1. ok /\ k = Visible => u.expires = Nil /\ parseMetadataBoolBytes(u.value)
                BY <3>2, Zenon DEF validateHTTPMetadataUpsertRequest, validateMetadataWritePolicy
            <4>2. raw = u.value
                BY <3>1, <3>2
            <4>3. ok /\ k = Visible => q.body.expires_at = Nil /\ parseMetadataBoolBytes(raw)
                BY <2>2, <4>1, <4>2, Zenon
            <4>4. QED
                BY <2>2, <2>5, <4>3, Zenon DEF SafeHTTP, raw
        <3>3. CASE u.typed # Nil
            <4>1. ok /\ k = Visible => u.expires = Nil /\ u.typed.raw = "true"
                BY <2>3, <3>3, Zenon DEF validateHTTPMetadataUpsertRequest, validateMetadataWritePolicy
            <4>2. raw = u.typed.raw
                BY <3>1, <3>3
            <4>3. ok /\ k = Visible => q.body.expires_at = Nil /\ parseMetadataBoolBytes(raw)
                BY <2>2, <2>4, <4>1, <4>2, Zenon
            <4>4. QED
                BY <2>2, <2>5, <4>3, Zenon DEF SafeHTTP, raw
        <3>4. QED
            BY <3>2, <3>3, Zenon
    <2>7. QED
        <3> HIDE DEF ok, args, body
        <3> QED
            BY <2>1, <2>6, DoJSONKeeps, Zenon
<1>17. ASSUME NEW r \in Refs, NEW p \in Fragments, NEW a \in Fragments, NEW l \in Limits, HTTPScanUserMetadata(c, r, p, a, l)
      PROVE  CallTypes' /\ WireInv' /\ db' = db
    BY <1>17, DoJSONKeeps DEF HTTPScanUserMetadata, SafeHTTP, Routes, MetadataRoute
<1>18. ASSUME NEW o \in Refs, NEW x \in Refs, NEW t \in Types, HTTPUpsertAttachment(c, o, x, t)
      PROVE  CallTypes' /\ WireInv' /\ db' = db
    BY <1>18, DoJSONKeeps DEF HTTPUpsertAttachment, HTTPAttachment, SafeHTTP, Routes, MetadataRoute
<1>19. ASSUME NEW o \in Refs, NEW x \in Refs, NEW t \in Types, HTTPDeleteAttachment(c, o, x, t)
      PROVE  CallTypes' /\ WireInv' /\ db' = db
    BY <1>19, DoJSONKeeps DEF HTTPDeleteAttachment, HTTPAttachment, SafeHTTP, Routes, MetadataRoute
<1>20. ASSUME NEW o \in Refs, NEW x \in Refs, HTTPCreateSubscription(c, o, x)
      PROVE  CallTypes' /\ WireInv' /\ db' = db
    BY <1>20, DoJSONKeeps DEF HTTPCreateSubscription, HTTPAttachment, SafeHTTP, Routes, MetadataRoute
<1>21. ASSUME NEW o \in Refs, NEW x \in Refs, HTTPBlockUser(c, o, x)
      PROVE  CallTypes' /\ WireInv' /\ db' = db
    BY <1>21, DoJSONKeeps DEF HTTPBlockUser, HTTPAttachment, SafeHTTP, Routes, MetadataRoute
<1>22. ASSUME NEW o \in Refs, NEW x \in Refs, HTTPUnblockUser(c, o, x)
      PROVE  CallTypes' /\ WireInv' /\ db' = db
    BY <1>22, DoJSONKeeps DEF HTTPUnblockUser, HTTPAttachment, SafeHTTP, Routes, MetadataRoute
<1>23. ASSUME NEW o \in Refs, NEW t \in Types, HTTPListAttachments(c, o, t)
      PROVE  CallTypes' /\ WireInv' /\ db' = db
    BY <1>23, DoJSONKeeps DEF HTTPListAttachments, HTTPListAttachmentsAs, SafeHTTP, Routes, MetadataRoute
<1>24. ASSUME NEW o \in Refs, HTTPListBlockedUsers(c, o)
      PROVE  CallTypes' /\ WireInv' /\ db' = db
    BY <1>24, DoJSONKeeps DEF HTTPListBlockedUsers, HTTPListAttachmentsAs, SafeHTTP, Routes, MetadataRoute
<1>25. ASSUME NEW a \in -1..1, NEW l \in Sizes, HTTPListEvents(c, a, l)
      PROVE  CallTypes' /\ WireInv' /\ db' = db
    BY <1>25, DoJSONKeeps DEF HTTPListEvents, SafeHTTP, Routes, MetadataRoute
<1>26. ASSUME NEW n \in 0..MaxNode, HTTPListNodeLoggedInUsers(c, n)
      PROVE  CallTypes' /\ WireInv' /\ db' = db
    BY <1>26, DoJSONKeeps DEF HTTPListNodeLoggedInUsers, SafeHTTP, Routes, MetadataRoute
<1>27. CASE HTTPListClusterNodes(c)
    BY <1>27, DoJSONKeeps DEF HTTPListClusterNodes, SafeHTTP, Routes, MetadataRoute
<1>28. CASE HTTPOperationsStatus(c)
    BY <1>28, DoJSONKeeps DEF HTTPOperationsStatus, SafeHTTP, Routes, MetadataRoute
<1>29. CASE HTTPMetrics(c)
    BY <1>29, DoJSONKeeps DEF HTTPMetrics, SafeHTTP, Routes, MetadataRoute
<1> QED
    BY <1>1, <1>2, <1>3, <1>4, <1>5, <1>6, <1>7, <1>8, <1>9, <1>10, <1>11, <1>12, <1>13, <1>14, <1>15, <1>16, <1>17, <1>18, <1>19, <1>20, <1>21, <1>22, <1>23, <1>24, <1>25, <1>26, <1>27, <1>28, <1>29, Zenon DEF HTTPClientCalls

\* The calls of Rivals.
LEMMA RivalCallsKeep ==
    ASSUME NEW c \in Callers, CallTypes, WireInv, RivalCalls(c)
    PROVE  CallTypes' /\ WireInv' /\ db' = db
<1>1. CASE DeleteUser(c, Service!Self)
    BY <1>1, RpcKeeps DEF DeleteUser, SafeWS, Kinds
<1>2. CASE DeleteUserMetadata(c, Service!Self, "k")
    BY <1>2, RpcKeeps DEF DeleteUserMetadata, WSDeleteUserMetadata, WSKeyMetadata, SafeWS, Kinds
<1>3. CASE HTTPPostMessage(c, Service!Self, "b")
    BY <1>3, DoJSONKeeps DEF HTTPPostMessage, SafeHTTP, Routes, MetadataRoute
<1> QED
    BY <1>1, <1>2, <1>3, Zenon DEF RivalCalls

(***************************************************************************)
(* The server.                                                             *)
(***************************************************************************)
\* What the server reads from the WebSocket is a write of metadata only if
\* it was sent as one, and then of the same key and value.
LEMMA ReadWSMild == ASSUME NEW q, SafeWS(q) PROVE Mild(ReadWS(q))
<1>1. CASE q.kind = "put_metadata"
    <2> DEFINE m == [op |-> q.kind, owner |-> userRefFromProto(q.owner), key |-> q.key, view |-> "full",
                     entry |-> [value |-> q.value, typed |-> Nil, expires |-> Or(Value(q.expires_at), "")]]
    <2>1. ReadWS(q) = m
        BY <1>1 DEF ReadWS
    <2>2. m.key = q.key /\ m.entry.value = q.value /\ m.entry.expires = Or(Value(q.expires_at), "")
        OBVIOUS
    <2>3. q.expires_at = Nil => Or(Value(q.expires_at), "") = ""
        BY DEF Or, Value
    <2> HIDE DEF m
    <2>4. QED
        BY <1>1, <2>1, <2>2, <2>3, Zenon DEF Mild, SafeWS
<1>2. CASE q.kind # "put_metadata"
    <2>1. ReadWS(q).op # "put_metadata"
        BY <1>2 DEF ReadWS, SafeWS, Kinds
    <2>2. QED
        BY <2>1, Zenon DEF Mild
<1>3. QED
    BY <1>1, <1>2, Zenon

\* The same for what it reads over HTTP.
LEMMA ReadHTTPMild == ASSUME NEW q, SafeHTTP(q) PROVE Mild(ReadHTTP(q))
<1>1. CASE q.route = MetadataRoute /\ q.method = "PUT"
    <2> DEFINE req == [value |-> q.body.value, typed |-> q.body.typed_value, expires |-> q.body.expires_at]
               m == [op |-> "put_metadata", owner |-> [node |-> q.args[1], user |-> q.args[2]], key |-> q.args[3],
                     view |-> "full", entry |-> EntryOf(req)]
    <2>1. ReadHTTP(q) = m
        BY <1>1 DEF ReadHTTP, MetadataRoute
    <2>2. m.key = q.args[3] /\ m.entry = EntryOf(req)
        OBVIOUS
    <2>3. /\ EntryOf(req).value = IF q.body.typed_value = Nil THEN q.body.value ELSE q.body.typed_value.raw
          /\ q.body.expires_at = Nil => EntryOf(req).expires = ""
        BY DEF EntryOf
    <2> HIDE DEF m, req
    <2>4. q.args[3] = Visible =>
             /\ q.body.expires_at = Nil
             /\ parseMetadataBoolBytes(IF q.body.typed_value = Nil THEN q.body.value ELSE q.body.typed_value.raw)
        BY <1>1, Zenon DEF SafeHTTP
    <2>5. q.args[3] = Visible => parseMetadataBoolBytes(EntryOf(req).value) /\ EntryOf(req).expires = ""
        BY <2>3, <2>4, Zenon
    <2>6. QED
        BY <2>1, <2>2, <2>5, Zenon DEF Mild
<1>2. CASE ~(q.route = MetadataRoute /\ q.method = "PUT")
    <2>1. ReadHTTP(q).op # "put_metadata"
        BY <1>2 DEF ReadHTTP, SafeHTTP, Routes, MetadataRoute
    <2>2. QED
        BY <2>1, Zenon DEF Mild
<1>3. QED
    BY <1>1, <1>2, Zenon

\* The commands by what they are about.
UserOps == {"get_user", "delete_user", "sessions", "create_user", "update_user", "list_users", "logged_in", "login",
            "login_by_name"}
LinkOps == {"attach", "detach", "attachments"}
MetaOps == {"get_metadata", "delete_metadata", "put_metadata", "scan_metadata"}
MailOps == {"send", "packet", "messages"}
StatusOps == {"events", "nodes", "status", "metrics", "ping"}

\* Only the commands on metadata change it.
SameMeta(e, d) == DOMAIN e = DOMAIN d /\ e.meta = d.meta

LEMMA OpOfCommand == ASSUME NEW q \in Service!Commands PROVE q.op \in UserOps \cup LinkOps \cup MetaOps \cup MailOps \cup StatusOps
    BY DEF Service!Commands, UserOps, LinkOps, MetaOps, MailOps, StatusOps

\* What the server leaves behind when it has answered or refused.
LEMMA DoneDb == ASSUME NEW d, NEW a PROVE Service!Done(d, a).db = d /\ Service!Refused(d).db = d
    BY DEF Service!Done, Service!Refused

\* Accounts are not metadata.
LEMMA UserMeta ==
    ASSUME NEW d, NEW q, DbOK(d), q.op \in UserOps
    PROVE  SameMeta(Service!ApplyUser(d, q).db, d)
<1>1. \A r, x : SameMeta([d EXCEPT !.users[r] = x], d)
    BY DEF DbOK, SameMeta
<1>2. SameMeta(d, d)
    BY DEF SameMeta
<1>3. \A a : SameMeta(Service!Done(d, a).db, d)
    BY <1>2, DoneDb, Zenon
<1>4. SameMeta(Service!Refused(d).db, d)
    BY <1>2, DoneDb, Zenon
<1>5. \A r, x, a : SameMeta(Service!Done([d EXCEPT !.users[r] = x], a).db, d)
    <2> TAKE r, x, a
    <2> DEFINE e == [d EXCEPT !.users[r] = x]
    <2>1. SameMeta(e, d)
        BY <1>1
    <2> HIDE DEF e
    <2>2. SameMeta(Service!Done(e, a).db, d)
        BY <2>1, DoneDb, Zenon
    <2> QED
        BY <2>2 DEF e
<1> DEFINE known == {r \in Service!ValidRefs : d.users[r] # Nil}
<1>6. CASE q.op = "create_user"
    BY <1>4, <1>5, <1>6 DEF Service!ApplyUser
<1>7. CASE q.op \in {"list_users", "logged_in", "login_by_name"}
    BY <1>3, <1>4, <1>7 DEF Service!ApplyUser
<1>8. CASE q.op \in {"login", "get_user", "sessions"}
    BY <1>3, <1>4, <1>8 DEF Service!ApplyUser
<1>9. CASE q.op \in {"delete_user", "update_user"}
    BY <1>4, <1>5, <1>9 DEF Service!ApplyUser
<1> QED
    BY <1>6, <1>7, <1>8, <1>9 DEF UserOps

\* Nor are attachments.
LEMMA LinkMeta ==
    ASSUME NEW d, NEW q, DbOK(d), q.op \in LinkOps
    PROVE  SameMeta(Service!ApplyLink(d, q).db, d)
<1>1. \A x : SameMeta([d EXCEPT !.links = x], d)
    BY DEF DbOK, SameMeta
<1>2. SameMeta(d, d)
    BY DEF SameMeta
<1> DEFINE x == IF q.op = "attach" THEN d.links \cup {Service!LinkOf(q)} ELSE d.links \ {Service!LinkOf(q)}
<1>3. CASE q.op = "attachments"
    BY <1>2, <1>3, DoneDb DEF Service!ApplyLink
<1>4. CASE q.op # "attachments" /\ q.type = ""
    BY <1>2, <1>4, DoneDb DEF Service!ApplyLink
<1>5. CASE q.op # "attachments" /\ q.type # ""
    <2>1. Service!ApplyLink(d, q) = Service!Done([d EXCEPT !.links = x], Service!LinkAs(Service!LinkOf(q), q.as))
        BY <1>5 DEF Service!ApplyLink, DbOK
    <2> DEFINE e == [d EXCEPT !.links = x]
    <2>2. SameMeta(e, d)
        BY <1>1
    <2> HIDE DEF e
    <2>3. \A a : SameMeta(Service!Done(e, a).db, d)
        BY <2>2, DoneDb, Zenon
    <2> QED
        BY <2>1, <2>3 DEF e
<1> QED
    BY <1>3, <1>4, <1>5, Zenon

\* Nor are messages.
LEMMA MailMeta ==
    ASSUME NEW d, NEW q, DbOK(d), q.op \in MailOps
    PROVE  SameMeta(Service!ApplyMail(d, q).db, d)
<1>1. \A x : SameMeta([d EXCEPT !.mail = x], d)
    BY DEF DbOK, SameMeta
<1>2. SameMeta(d, d)
    BY DEF SameMeta
<1>3. CASE q.op = "send"
    <2> DEFINE m == [to |-> q.to, from |-> Service!Self, body |-> q.body, seq |-> Len(d.mail) + 1, at |-> "t"]
    <2>1. Service!ApplyMail(d, q) = Service!Done([d EXCEPT !.mail = Append(d.mail, m)], m)
        BY <1>3 DEF Service!ApplyMail, DbOK
    <2> DEFINE e == [d EXCEPT !.mail = Append(d.mail, m)]
    <2>2. SameMeta(e, d)
        BY <1>1
    <2> HIDE DEF e
    <2>3. SameMeta(Service!Done(e, m).db, d)
        BY <2>2, DoneDb, Zenon
    <2> QED
        BY <2>1, <2>3 DEF e
<1>4. CASE q.op = "packet"
    BY <1>2, <1>4, DoneDb DEF Service!ApplyMail
<1>5. CASE q.op = "messages"
    <2>1. \E a : Service!ApplyMail(d, q) = Service!Done(d, a)
        BY <1>5 DEF Service!ApplyMail
    <2> QED
        BY <1>2, <2>1, DoneDb, Zenon
<1> QED
    BY <1>3, <1>4, <1>5 DEF MailOps

\* What a node says of itself changes nothing.
LEMMA StatusMeta ==
    ASSUME NEW d, NEW q, q.op \in StatusOps
    PROVE  SameMeta(Service!ApplyStatus(d, q).db, d)
<1>1. \E a : Service!ApplyStatus(d, q) = Service!Done(d, a)
    BY DEF Service!ApplyStatus, StatusOps
<1> QED
    BY <1>1, DoneDb DEF SameMeta

\* The commands on metadata keep the reserved key a bool, as a write of it is mild.
LEMMA MetaKeeps ==
    ASSUME NEW d, NEW q, DbOK(d), BoolIn(d), Mild(q), q.op \in MetaOps
    PROVE  DbOK(Service!ApplyMeta(d, q).db) /\ BoolIn(Service!ApplyMeta(d, q).db)
<1>1. ASSUME NEW x, NEW k, NEW o, k = Visible /\ x # Nil => parseMetadataBoolBytes(x.value) /\ x.expires = ""
      PROVE  DbOK([d EXCEPT !.meta[<<o, k>>] = x]) /\ BoolIn([d EXCEPT !.meta[<<o, k>>] = x])
    <2> DEFINE e == [d EXCEPT !.meta[<<o, k>>] = x]
    <2>1. DOMAIN e = DOMAIN d /\ e.meta = [d.meta EXCEPT ![<<o, k>>] = x]
        BY DEF DbOK
    <2>2. DOMAIN e.meta = DOMAIN d.meta
        BY <2>1
    <2>3. DbOK(e)
        BY <2>1, <2>2 DEF DbOK
    <2>4. ASSUME NEW r \in Service!ValidRefs, e.meta[<<r, Visible>>] # Nil
          PROVE  parseMetadataBoolBytes(e.meta[<<r, Visible>>].value) /\ e.meta[<<r, Visible>>].expires = ""
        <3>1. <<r, Visible>> \in DOMAIN d.meta
            BY DEF DbOK, Service!MetaKeys, Visible
        <3>2. CASE <<o, k>> = <<r, Visible>>
            <4>1. e.meta[<<r, Visible>>] = x /\ k = Visible
                BY <2>1, <3>1, <3>2
            <4>2. QED
                BY <1>1, <2>4, <4>1
        <3>3. CASE <<o, k>> # <<r, Visible>>
            <4>1. e.meta[<<r, Visible>>] = d.meta[<<r, Visible>>]
                BY <2>1, <3>1, <3>3
            <4>2. QED
                BY <2>4, <4>1 DEF BoolIn
        <3>4. QED
            BY <3>2, <3>3
    <2> HIDE DEF e
    <2>5. BoolIn(e)
        BY <2>4, Zenon DEF BoolIn
    <2>6. QED
        BY <2>3, <2>5 DEF e
<1>2. CASE q.op = "put_metadata"
    <2> DEFINE e == [d EXCEPT !.meta[<<q.owner, q.key>>] = q.entry]
    <2>1. \E a : Service!ApplyMeta(d, q) = Service!Done(e, a)
        BY <1>2 DEF Service!ApplyMeta
    <2>2. q.key = Visible => parseMetadataBoolBytes(q.entry.value) /\ q.entry.expires = ""
        BY <1>2, Zenon DEF Mild
    <2>3. DbOK(e) /\ BoolIn(e)
        BY <1>1, <2>2
    <2> HIDE DEF e
    <2>4. QED
        BY <2>1, <2>3, DoneDb, Zenon
<1>3. CASE q.op = "scan_metadata"
    <2>1. \E a : Service!ApplyMeta(d, q) = Service!Done(d, a)
        BY <1>3 DEF Service!ApplyMeta
    <2>2. QED
        BY <2>1, DoneDb, Zenon
<1>4. CASE q.op \in {"get_metadata", "delete_metadata"}
    <2> DEFINE e == [d EXCEPT !.meta[<<q.owner, q.key>>] = Nil]
    <2>1. \/ Service!ApplyMeta(d, q) = Service!Refused(d)
          \/ \E a : Service!ApplyMeta(d, q) = Service!Done(d, a)
          \/ \E a : Service!ApplyMeta(d, q) = Service!Done(e, a)
        BY <1>4 DEF Service!ApplyMeta
    <2>2. DbOK(e) /\ BoolIn(e)
        BY <1>1
    <2> HIDE DEF e
    <2>3. QED
        BY <2>1, <2>2, DoneDb, Zenon
<1> QED
    BY <1>2, <1>3, <1>4 DEF MetaOps

\* So does every command.
LEMMA ApplyKeeps ==
    ASSUME NEW d, NEW q \in Service!Commands, DbOK(d), BoolIn(d), Mild(q)
    PROVE  DbOK(Service!Apply(d, q).db) /\ BoolIn(Service!Apply(d, q).db)
<1>1. ASSUME NEW e, SameMeta(e, d)
      PROVE  DbOK(e) /\ BoolIn(e)
    BY <1>1, Zenon DEF SameMeta, DbOK, BoolIn
<1>2. CASE q.op \in UserOps
    <2>1. Service!Apply(d, q) = Service!ApplyUser(d, q)
        BY <1>2 DEF Service!Apply, UserOps
    <2>2. QED
        BY <1>1, <1>2, <2>1, UserMeta, Zenon
<1>3. CASE q.op \in LinkOps
    <2>1. Service!Apply(d, q) = Service!ApplyLink(d, q)
        BY <1>3 DEF Service!Apply, LinkOps
    <2>2. QED
        BY <1>1, <1>3, <2>1, LinkMeta, Zenon
<1>4. CASE q.op \in MetaOps
    <2>1. Service!Apply(d, q) = Service!ApplyMeta(d, q)
        BY <1>4 DEF Service!Apply, MetaOps
    <2>2. QED
        BY <1>4, <2>1, MetaKeeps, Zenon
<1>5. CASE q.op \in MailOps
    <2>1. Service!Apply(d, q) = Service!ApplyMail(d, q)
        BY <1>5 DEF Service!Apply, MailOps
    <2>2. QED
        BY <1>1, <1>5, <2>1, MailMeta, Zenon
<1>6. CASE q.op \in StatusOps
    <2>1. Service!Apply(d, q) = Service!ApplyStatus(d, q)
        BY <1>6 DEF Service!Apply, StatusOps
    <2>2. QED
        BY <1>1, <1>6, <2>1, StatusMeta, Zenon
<1> QED
    BY <1>2, <1>3, <1>4, <1>5, <1>6, OpOfCommand, Zenon

(***************************************************************************)
(* The steps.                                                              *)
(***************************************************************************)
\* A call that ends leaves its request on the wire as it is.
LEMMA FinishKeeps ==
    ASSUME NEW c \in Callers, NEW phase, NEW value, CallTypes, WireInv, Finish(c, phase, value), UNCHANGED inflight
    PROVE  CallTypes' /\ WireInv'
<1>1. DOMAIN calls' = Callers /\ \A d \in Callers : DOMAIN calls'[d] = DOMAIN calls[d] /\ calls'[d].out = calls[d].out
    BY DEF Finish, CallTypes
<1>2. CallTypes'
    BY <1>1, Zenon DEF CallTypes
<1>3. WireInv'
    BY <1>1, Zenon DEF WireInv
<1> QED
    BY <1>2, <1>3

\* A request that is served or turned away is on the wire no more.
LEMMA OffTheWire ==
    ASSUME NEW c \in Callers, CallTypes, WireInv, inflight' = [inflight EXCEPT ![c] = Nil], UNCHANGED calls
    PROVE  CallTypes' /\ WireInv'
<1>1. DOMAIN inflight' = Callers /\ inflight'[c] = Nil /\ \A d \in Callers \ {c} : inflight'[d] = inflight[d]
    BY DEF CallTypes
<1>2. CallTypes'
    BY <1>1, Zenon DEF CallTypes
<1>3. WireInv'
    BY <1>1, Zenon DEF WireInv
<1> QED
    BY <1>2, <1>3

\* What the server carries out was checked before it was sent.
LEMMA ServeKeeps == ASSUME NEW c \in Callers, RequestInv, Serve(c) PROVE RequestInv'
<1> DEFINE q == IF calls[c].out.via = "ws" THEN ReadWS(inflight[c]) ELSE ReadHTTP(inflight[c])
<1>1. Safe(inflight[c], calls[c].out)
    BY Zenon DEF RequestInv, WireInv, Serve
<1>2. Mild(q)
    <2>1. CASE calls[c].out.via = "ws"
        <3>1. Mild(ReadWS(inflight[c]))
            BY <1>1, <2>1, ReadWSMild, Zenon DEF Safe
        <3>2. q = ReadWS(inflight[c])
            BY <2>1
        <3> HIDE DEF q
        <3> QED
            BY <3>1, <3>2, Zenon
    <2>2. CASE calls[c].out.via # "ws"
        <3>1. Mild(ReadHTTP(inflight[c]))
            BY <1>1, <2>2, ReadHTTPMild, Zenon DEF Safe
        <3>2. q = ReadHTTP(inflight[c])
            BY <2>2
        <3> HIDE DEF q
        <3> QED
            BY <3>1, <3>2, Zenon
    <2> QED
        BY <2>1, <2>2, Zenon
<1>3. db' = Carry(q).db
    BY Zenon DEF Serve
<1>4. inflight' = [inflight EXCEPT ![c] = Nil] /\ UNCHANGED calls
    BY Zenon DEF Serve
<1> HIDE DEF q
<1>5. DbOK(db') /\ BoolIn(db')
    <2>1. CASE q \in Service!Commands
        <3>1. Carry(q) = Service!Apply(db, q)
            BY <2>1 DEF Carry
        <3> QED
            BY <1>2, <1>3, <2>1, <3>1, ApplyKeeps, Zenon DEF RequestInv
    <2>2. CASE q \notin Service!Commands
        <3>1. Carry(q) = Service!Refused(db)
            BY <2>2 DEF Carry
        <3> QED
            BY <1>3, <3>1, DoneDb, Zenon DEF RequestInv
    <2> QED
        BY <2>1, <2>2, Zenon
<1>6. CallTypes' /\ WireInv'
    BY <1>4, OffTheWire, Zenon DEF RequestInv
<1> QED
    BY <1>5, <1>6, Zenon DEF RequestInv, DbOK, BoolIn

\* A response changes the call it belongs to and nothing else.
LEMMA ReceiveKeeps == ASSUME NEW c \in Callers, CallTypes, WireInv, Receive(c) PROVE CallTypes' /\ WireInv' /\ db' = db
<1>1. db' = db /\ UNCHANGED inflight
    BY Zenon DEF Receive
<1>2. UNCHANGED calls \/ \E phase, value : Finish(c, phase, value)
    <2>1. CASE ReceiveWS(c, replies[c])
        BY <2>1 DEF ReceiveWS
    <2>2. CASE ReceiveHTTP(c, replies[c])
        BY <2>2 DEF ReceiveHTTP
    <2> QED
        BY <2>1, <2>2, Zenon DEF Receive
<1>3. CASE UNCHANGED calls
    BY <1>1, <1>3, Zenon DEF CallTypes, WireInv
<1> QED
    BY <1>1, <1>2, <1>3, FinishKeeps, Zenon

\* Every step keeps the invariant.
LEMMA RequestStep == ASSUME RequestInv, [Next]_vars PROVE RequestInv'
<1>1. ASSUME CallTypes', WireInv', db' = db PROVE RequestInv'
    BY <1>1, Zenon DEF RequestInv, DbOK, BoolIn
<1>2. CallTypes /\ WireInv
    BY Zenon DEF RequestInv
<1>3. CASE UNCHANGED vars
    BY <1>3, Zenon DEF vars, RequestInv, CallTypes, WireInv, DbOK, BoolIn
<1>4. ASSUME NEW c \in Callers, ClientCalls(c) \/ HTTPClientCalls(c) \/ RivalCalls(c)
      PROVE  RequestInv'
    BY <1>1, <1>2, <1>4, ClientCallsKeep, HTTPClientCallsKeep, RivalCallsKeep, Zenon
<1>5. ASSUME NEW c \in Callers, TurnAway(c) PROVE RequestInv'
    BY <1>1, <1>2, <1>5, OffTheWire, Zenon DEF TurnAway
<1>6. ASSUME NEW c \in Callers, Receive(c) PROVE RequestInv'
    BY <1>1, <1>2, <1>6, ReceiveKeeps, Zenon
<1>7. ASSUME NEW c \in Callers, Cancel(c) PROVE RequestInv'
    BY <1>1, <1>2, <1>7, FinishKeeps, Zenon DEF Cancel
<1> QED
    BY <1>3, <1>4, <1>5, <1>6, <1>7, ServeKeeps, Zenon DEF Next

\* The server starts with no entry of the reserved key, or with a bool.
LEMMA RequestInit == ASSUME Init PROVE RequestInv
<1>1. CallTypes
    BY DEF Init, NoCall, CallTypes
<1>2. WireInv
    BY DEF Init, WireInv
<1>3. DbOK(db) /\ \A r \in Service!ValidRefs : db.meta[<<r, Visible>>] \in {Nil, [value |-> "true", typed |-> Nil, expires |-> ""]}
    <2>1. PICK full \in BOOLEAN : db =
             [users |-> [r \in Service!ValidRefs |-> IF r = Service!Self
                            THEN [name |-> "n", login |-> "l", role |-> "user", profile |-> "p"] ELSE Nil],
              links |-> {[owner |-> Service!Self, subject |-> Service!Self, type |-> t] :
                            t \in {t \in Service!LinkTypes : full}},
              meta  |-> [x \in Service!ValidRefs \X Service!MetaKeys |-> IF ~full THEN Nil
                            ELSE [value |-> IF x[2] = Visible THEN "true" ELSE "", typed |-> Nil, expires |-> ""]],
              mail  |-> [i \in 1..(IF full THEN 2 ELSE 0) |->
                            [to |-> Service!Self, from |-> Service!Self, body |-> "b", seq |-> i, at |-> "t"]]]
        BY Zenon DEF Init
    <2>2. DOMAIN db = {"users", "links", "meta", "mail"}
        BY <2>1
    <2>3. db.meta = [x \in Service!ValidRefs \X Service!MetaKeys |-> IF ~full THEN Nil
                       ELSE [value |-> IF x[2] = Visible THEN "true" ELSE "", typed |-> Nil, expires |-> ""]]
        BY <2>1
    <2>4. ASSUME NEW r \in Service!ValidRefs
          PROVE  db.meta[<<r, Visible>>] \in {Nil, [value |-> "true", typed |-> Nil, expires |-> ""]}
        <3>1. <<r, Visible>> \in Service!ValidRefs \X Service!MetaKeys
            BY DEF Service!MetaKeys, Visible
        <3> QED
            BY <2>3, <3>1
    <2> QED
        BY <2>2, <2>3, <2>4 DEF DbOK
<1>4. parseMetadataBoolBytes("true")
    BY DEF parseMetadataBoolBytes, TrimSpace
<1>5. BoolIn(db)
    <2> DEFINE entry == [value |-> "true", typed |-> Nil, expires |-> ""]
    <2>1. entry.value = "true" /\ entry.expires = ""
        OBVIOUS
    <2>2. \A r \in Service!ValidRefs : db.meta[<<r, Visible>>] = Nil \/ db.meta[<<r, Visible>>] = entry
        BY <1>3, Zenon
    <2> HIDE DEF entry
    <2> QED
        BY <1>4, <2>1, <2>2, Zenon DEF BoolIn
<1> QED
    BY <1>1, <1>2, <1>3, <1>5, Zenon DEF RequestInv

\* The reserved key system.visible_to_others holds a bool and never expires,
\* whoever writes it, over WebSocket or HTTP, raw or typed.
THEOREM VisibleIsBoolCorrect == Spec => []VisibleIsBool
<1>1. Init => RequestInv
    BY RequestInit, Zenon
<1>2. RequestInv /\ [Next]_vars => RequestInv'
    BY RequestStep, Zenon
<1>3. RequestInv => VisibleIsBool
    BY Zenon DEF RequestInv, BoolIn, VisibleIsBool
<1> QED
    BY <1>1, <1>2, <1>3, PTL DEF Spec
=============================================================================
