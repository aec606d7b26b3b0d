----------------------------- MODULE DemoValues -----------------------------
(***************************************************************************)
(* The values of the demo runner: what they are, how the fields of a       *)
(* request are read and what the client answers.                           *)
(*                                                                         *)
(* A value has its Go type in t.  A scalar has its text in v, whatever its *)
(* type: numbers are decimal texts.  A map or struct has its members in m, *)
(* a list or a pointer its elements in l.  A dotted path is the sequence   *)
(* of its parts.                                                           *)
(***************************************************************************)
EXTENDS Naturals, Sequences, TLC

CONSTANT Nil

Scalar(t, v) == [t |-> t, v |-> v]
Str(v) == Scalar("string", v)
Num(v) == Scalar("int", v)
NilValue == Scalar("nil", "<nil>")
\* (m @@ <<>> is m and l \o <<>> is l: written so, TLC evaluates the members once)
Map(m) == [t |-> "map", m |-> m @@ <<>>]
Struct(m) == [t |-> "struct", m |-> m @@ <<>>]
List(l) == [t |-> "list", l |-> l \o <<>>]

Ok(x) == [ok |-> TRUE, x |-> x]
Err == [ok |-> FALSE, x |-> Nil]

(***************************************************************************)
(* Texts.                                                                  *)
(***************************************************************************)
Numerals == {"0", "1", "2", "7", "2^53", "2^53+1"}
Float64(n) == IF n = "2^53+1" THEN "2^53" ELSE n
Truncate(n) == IF n = "1.5" THEN "1" ELSE n

Base64 == [s \in {"Yg=="} |-> "b"]
JSON(x) == IF x.t = "string" THEN "'" \o x.v \o "'" ELSE IF x.t \in {"map", "list"} THEN "{}" ELSE x.v

\* texts that are one ${name}, and texts with a ${name} inside
Exact == [s \in {"${x}", "${y}"} |-> IF s = "${x}" THEN "x" ELSE "y"]
Embedded == [s \in {"<${x}>", "<${y}>"} |-> IF s = "<${x}>" THEN "x" ELSE "y"]

(***************************************************************************)
(* Fields of a request.  A field that is left out is zero, or an error if  *)
(* it is required.                                                         *)
(***************************************************************************)
stringValue(x) == IF x.t = "string" THEN Ok(x.v) ELSE Err

stringField(m, key, required) ==
    IF key \in DOMAIN m THEN stringValue(m[key]) ELSE IF required THEN Err ELSE Ok("")

int64Field(m, key, required) ==
    IF key \notin DOMAIN m THEN IF required THEN Err ELSE Ok("0")
    ELSE LET x == m[key] IN
         CASE x.t \in {"int", "int64", "uint64"} -> Ok(x.v)
           [] x.t = "float64" -> Ok(Truncate(x.v))
           [] x.t = "string" -> IF x.v \in Numerals THEN Ok(x.v) ELSE Err
           [] OTHER -> Err

decodeBytes(x) ==
    CASE x.t \in {"string", "bytes"} -> Ok(x.v)
      [] x.t = "map" ->
            LET format == stringField(x.m, "format", TRUE) IN
            IF ~format.ok \/ "value" \notin DOMAIN x.m THEN Err
            ELSE CASE format.x = "json" -> Ok(JSON(x.m["value"]))
                   [] format.x = "base64" ->
                        LET text == stringValue(x.m["value"])
                        IN IF text.ok /\ text.x \in DOMAIN Base64 THEN Ok(Base64[text.x]) ELSE Err
                   [] OTHER -> Err
      [] OTHER -> Err

bytesField(m, key, required) ==
    IF key \in DOMAIN m THEN decodeBytes(m[key]) ELSE IF required THEN Err ELSE Ok("")

parseUserRefField(m, key) ==
    IF key \notin DOMAIN m \/ (key \in DOMAIN m /\ m[key].t # "map") THEN Err
    ELSE LET node == int64Field(m[key].m, "node_id", TRUE)
             user == int64Field(m[key].m, "user_id", TRUE)
         IN IF node.ok /\ user.ok THEN Ok([node |-> node.x, user |-> user.x]) ELSE Err

parseSessionRefField(m, key, required) ==
    IF key \notin DOMAIN m THEN IF required THEN Err ELSE Ok(Nil)
    ELSE IF m[key].t # "map" THEN Err
    ELSE LET node == int64Field(m[key].m, "serving_node_id", TRUE)
             id == stringField(m[key].m, "session_id", TRUE)
         IN IF node.ok /\ id.ok THEN Ok([node |-> node.x, id |-> id.x]) ELSE Err

parsePasswordValue(x) ==
    IF x.t # "map" THEN Err
    ELSE LET source == stringField(x.m, "source", TRUE)
             text == stringField(x.m, "value", TRUE)
         IN IF source.ok /\ text.ok /\ source.x \in {"plain", "hashed"} /\ text.x # ""
            THEN Ok([source |-> source.x, text |-> text.x]) ELSE Err

\* the fields one after the other, up to the first that is wrong
Fields(s) == IF \A i \in DOMAIN s : s[i].ok THEN Ok([i \in DOMAIN s |-> s[i].x] \o <<>>) ELSE Err

parseSendMessageInput(m) == Fields(<<parseUserRefField(m, "target"), bytesField(m, "body", TRUE)>>)

parseSendPacketInput(m) ==
    Fields(<<parseUserRefField(m, "target"), bytesField(m, "body", TRUE), stringField(m, "delivery_mode", TRUE),
             parseSessionRefField(m, "target_session", FALSE)>>)

parseCreateUser(m) ==
    Fields(<<stringField(m, "username", TRUE), stringField(m, "login_name", FALSE), stringField(m, "role", TRUE),
             bytesField(m, "profile_json", FALSE),
             IF "password" \in DOMAIN m THEN parsePasswordValue(m["password"]) ELSE Ok(Nil)>>)

\* a field that is there replaces, one that is not leaves the user as it is
parseUpdateUser(m) ==
    LET optional(key, parse(_)) == IF key \in DOMAIN m THEN parse(m[key]) ELSE Ok(Nil)
    IN Fields(<<parseUserRefField(m, "user"), optional("username", stringValue), optional("login_name", stringValue),
                optional("password", parsePasswordValue), optional("profile_json", decodeBytes),
                optional("role", stringValue)>>)

parseBlacklistRefs(m) == Fields(<<parseUserRefField(m, "owner"), parseUserRefField(m, "blocked")>>)

validActions ==
    {"send_message", "send_packet", "ping", "create_user", "get_user", "update_user", "delete_user", "list_messages",
     "subscribe_channel", "unsubscribe_channel", "list_subscriptions", "block_user", "unblock_user",
     "list_blocked_users", "list_events", "operations_status", "metrics", "list_cluster_nodes",
     "list_node_logged_in_users", "resolve_user_sessions"}

\* the arguments of the call an action makes
Arguments(action, m) ==
    CASE action = "send_message" -> parseSendMessageInput(m)
      [] action = "send_packet" -> parseSendPacketInput(m)
      [] action = "create_user" -> parseCreateUser(m)
      [] action = "update_user" -> parseUpdateUser(m)
      [] action \in {"get_user", "delete_user", "resolve_user_sessions"} -> Fields(<<parseUserRefField(m, "user")>>)
      [] action = "list_messages" -> Fields(<<parseUserRefField(m, "user"), int64Field(m, "limit", FALSE)>>)
      [] action \in {"subscribe_channel", "unsubscribe_channel"} ->
            Fields(<<parseUserRefField(m, "subscriber"), parseUserRefField(m, "channel")>>)
      [] action = "list_subscriptions" -> Fields(<<parseUserRefField(m, "subscriber")>>)
      [] action \in {"block_user", "unblock_user"} -> parseBlacklistRefs(m)
      [] action = "list_blocked_users" -> Fields(<<parseUserRefField(m, "owner")>>)
      [] action = "list_events" -> Fields(<<int64Field(m, "after", FALSE), int64Field(m, "limit", FALSE)>>)
      [] action = "list_node_logged_in_users" -> Fields(<<int64Field(m, "node_id", TRUE)>>)
      [] action \in {"ping", "operations_status", "metrics", "list_cluster_nodes"} -> Ok(<<>>)

(***************************************************************************)
(* Answers.                                                                *)
(***************************************************************************)
\* what the client returns, one member of each Go type the runner meets
UserRef(r) == Struct("node_id" :> Scalar("int64", r.node) @@ "user_id" :> Scalar("int64", r.user))
Answer(action, a) ==
    CASE action = "send_message" ->
            Struct("recipient" :> UserRef(a[1]) @@ "seq" :> Scalar("int64", "1") @@ "body" :> Scalar("bytes", a[2]))
      [] action = "send_packet" ->
            Struct("recipient" :> UserRef(a[1]) @@ "packet_id" :> Scalar("uint64", "7")
                   @@ "delivery_mode" :> Scalar("DeliveryMode", a[3]))
      [] action = "create_user" ->
            Struct("username" :> Str(a[1]) @@ "role" :> Str(a[3]) @@ "profile_json" :> Scalar("bytes", a[4]))
      [] action = "update_user" ->
            Struct("username" :> Str(IF a[2] = Nil THEN "n" ELSE a[2]) @@ "node_id" :> Scalar("int64", a[1].node))
      [] action = "get_user" -> UserRef(a[1])
      [] action = "delete_user" -> Struct("status" :> Str("deleted") @@ "user" :> UserRef(a[1]))
      [] action \in {"subscribe_channel", "unsubscribe_channel"} ->
            Struct("subscriber" :> UserRef(a[1]) @@ "channel" :> UserRef(a[2]))
      [] action \in {"block_user", "unblock_user"} -> Struct("owner" :> UserRef(a[1]) @@ "blocked" :> UserRef(a[2]))
      [] action = "operations_status" -> Struct("last_event_sequence" :> Scalar("int64", "2^53+1"))
      [] action = "resolve_user_sessions" ->
            Struct("user" :> UserRef(a[1])
                   @@ "presence" :> List(<<Struct("session_count" :> Scalar("int32", "1"))>>))
      [] action = "metrics" -> Str("m")
      [] action = "list_events" -> List(IF a[2] = "1" THEN <<Scalar("int64", "1")>> ELSE <<>>)
      [] action = "ping" -> NilValue
      [] OTHER -> List(<<Struct("node_id" :> Scalar("int64", "1"))>>)
=============================================================================
