------------------------------- MODULE MCDemo -------------------------------
(***************************************************************************)
(* Scenarios for the demo runner: two branches that meet, fail, wait and   *)
(* share sessions in every way of a few steps, and single requests with    *)
(* the values and expectations that DemoMatch tells apart.                 *)
(***************************************************************************)
EXTENDS DemoRunner, DemoMatch

NoStep ==
    [step |-> "", name |-> "", session |-> "", action |-> "", request |-> Nil, expect |-> Nil, event |-> "",
     match |-> <<>>, save |-> <<>>, timeout |-> "0", duration |-> "0", branches |-> <<>>]
Expect == [login |-> <<>>, ok |-> <<>>, error |-> Nil]

User(n) == "node_id" :> Num("1") @@ "user_id" :> Num(n)
Ref(n) == Map(User(n))
Connect(s) == [NoStep EXCEPT !.step = "connect", !.session = s, !.expect = [Expect EXCEPT !.login = "user" :> Ref("1")]]
Close(s) == [NoStep EXCEPT !.step = "close", !.session = s]
Barrier(n) == [NoStep EXCEPT !.step = "barrier", !.name = n]
Nap(s) == [NoStep EXCEPT !.step = "sleep", !.session = s, !.duration = "1s"]
Message(s) == [NoStep EXCEPT !.step = "expect_event", !.session = s, !.event = "message_pushed",
                             !.match = "message" :> Map("body" :> Str("b"))]
Ask(s, action, request, ok) ==
    [NoStep EXCEPT !.step = "request", !.session = s, !.action = action, !.request = Map(request),
                   !.expect = [Expect EXCEPT !.ok = ok]]
Ping(s) == Ask(s, "ping", <<>>, "pong" :> Map(<<>>))
Parallel(branches) == [NoStep EXCEPT !.step = "parallel", !.branches = branches]
Two == <<[name |-> "left", task |-> "b1"], [name |-> "right", task |-> "b2"]>>

Spec1 == [node |-> "n1", user |-> [node_id |-> "1", user_id |-> "1", login_name |-> ""],
          password |-> [source |-> "plain", text |-> "p"], seen |-> <<>>]
Base ==
    [version |-> Version, name |-> "demo", nodes |-> "n1" :> "u", sessions |-> "alice" :> Spec1, vars |-> Nil,
     timeout |-> "0", script |-> <<>>]

Sequential(steps) == [Base EXCEPT !.script = Root :> steps]
Both(first, left, right) == [Base EXCEPT !.script = Root :> Append(first, Parallel(Two)) @@ "b1" :> left @@ "b2" :> right]

\* branches that share a session, meet in order or crosswise, fail, wait for events or repeat what they must not
Meetings ==
    {Both(<<Connect("alice")>>, <<Barrier("a"), Message("alice")>>, <<Barrier("a"), Message("alice")>>),
     Both(<<Connect("alice")>>, <<Barrier("a"), Barrier("b")>>, <<Barrier("b"), Barrier("a")>>),
     Both(<<Connect("alice")>>, <<Barrier("a"), Ping("alice")>>, <<Nap("alice"), Close("alice"), Barrier("a")>>),
     Both(<<>>, <<Connect("alice"), Barrier("a")>>, <<Connect("alice"), Barrier("a")>>),
     Both(<<Connect("alice")>>, <<Nap(""), Barrier("a")>>, <<Barrier("a")>>),
     Sequential(<<Connect("alice"), Close("alice"), Connect("alice"), Close("alice")>>), Sequential(<<Message("alice")>>)}

Three == Append(Two, [name |-> "third", task |-> "b3"])
Nested ==
    [Base EXCEPT !.script =
        Root :> <<Connect("alice"), Parallel(<<[name |-> "left", task |-> "b1"], [name |-> "right", task |-> "b4"]>>)>>
        @@ "b1" :> <<Parallel(<<[name |-> "in", task |-> "b2"], [name |-> "out", task |-> "b3"]>>), Barrier("a")>>
        @@ "b2" :> <<Barrier("b")>> @@ "b3" :> <<Ping("alice"), Barrier("b")>> @@ "b4" :> <<Barrier("a")>>]
Wide ==
    [Base EXCEPT !.script = Root :> <<Parallel(Three)>> @@ "b1" :> <<Barrier("a")>> @@ "b2" :> <<Nap("alice"), Barrier("a")>>
                            @@ "b3" :> <<Barrier("a"), Nap("alice")>>]

Rounds ==
    [Base EXCEPT !.script = Root :> <<Parallel(Two), Parallel(<<[name |-> "left", task |-> "b3"], [name |-> "right", task |-> "b4"]>>)>>
                            @@ "b1" :> <<Barrier("a")>> @@ "b2" :> <<Nap("alice"), Barrier("a")>>
                            @@ "b3" :> <<Barrier("a"), Barrier("b")>> @@ "b4" :> <<Barrier("a"), Barrier("b")>>]

\* what Validate refuses, one reason each
One(step) == Sequential(<<step>>)
Invalid ==
    {[Sequential(<<Ping("alice")>>) EXCEPT !.version = "v0"], [Sequential(<<Ping("alice")>>) EXCEPT !.name = " "],
     [One(Ping("alice")) EXCEPT !.nodes = <<>>], [One(Ping("alice")) EXCEPT !.nodes = "n1" :> ""],
     [One(Ping("alice")) EXCEPT !.nodes = "n1" :> "u" @@ "" :> "u"], [One(Ping("alice")) EXCEPT !.sessions = <<>>],
     Sequential(<<>>), One([Connect("alice") EXCEPT !.expect = Nil]), One(Connect("bob")), One(NoStep),
     One([Ping("alice") EXCEPT !.action = "join"]), One([Ping("alice") EXCEPT !.request = Nil]),
     One([Ping("alice") EXCEPT !.expect = Nil]), One([Ping("alice") EXCEPT !.expect.error = ServerError]),
     One([Message("alice") EXCEPT !.event = "login"]), One([Message("alice") EXCEPT !.match = <<>>]),
     One([Nap("alice") EXCEPT !.duration = "0"]), One(Close("")), One(Barrier("a")),
     One([Ping("alice") EXCEPT !.save = "1x" :> <<"ok">>]), One([Ping("alice") EXCEPT !.save = "x" :> <<>>]),
     Both(<<>>, <<>>, <<Nap("alice")>>), Both(<<>>, <<Barrier("a")>>, <<Nap("alice")>>),
     Both(<<>>, <<Barrier("a"), Barrier("a")>>, <<Barrier("a")>>), Both(<<>>, <<Barrier("")>>, <<Barrier("")>>),
     [Base EXCEPT !.script = Root :> <<Parallel(<<Two[1]>>)>> @@ "b1" :> <<Nap("alice")>>],
     [Base EXCEPT !.script = Root :> <<Parallel(<<Two[1], [Two[2] EXCEPT !.name = "left"]>>)>>
                             @@ "b1" :> <<Nap("alice")>> @@ "b2" :> <<Nap("alice")>>]}
    \cup {[One(Ping("alice")) EXCEPT !.sessions = "alice" :> spec] :
             spec \in {[Spec1 EXCEPT !.node = "n2"], [Spec1 EXCEPT !.user.login_name = "l"], [Spec1 EXCEPT !.user.node_id = "0"],
                       [Spec1 EXCEPT !.user.node_id = "0", !.user.user_id = "0"], [Spec1 EXCEPT !.password.text = ""],
                       [Spec1 EXCEPT !.seen = <<[node |-> "1", seq |-> "0"]>>]}}

\* a request, whose answer is saved under ok.<key> and expected again
Trial(action, request, key, expected) ==
    Sequential(<<Connect("alice"), [Ask("alice", action, request, key :> expected) EXCEPT !.save = "x" :> <<"ok", key>>],
                 Ask("alice", action, request, key :> Str("${x}"))>>)

To == "target" :> Ref("2")
About(key) == key :> Ref("2")
Pass(source, text) == Map("source" :> Str(source) @@ "value" :> Str(text))
Encoded(format, value) == Map("format" :> Str(format) @@ "value" :> value)
Back(ref) == Map("session_id" :> Str("s") @@ "serving_node_id" :> ref)

Trials ==
    {Trial("send_message", To @@ "body" :> Str("b"), "message", Map("recipient" :> Ref("2") @@ "body" :> Str("b"))),
     Trial("send_message", To @@ "body" :> Encoded("base64", Str("Yg==")), "message", Map("body" :> Encoded("base64", Str("Yg==")))),
     Trial("send_message", To @@ "body" :> Encoded("json", Num("1")), "message", Map("body" :> Str("1"))),
     Trial("send_packet", To @@ "body" :> Str("b") @@ "delivery_mode" :> Str("best") @@ "target_session" :> Back(Num("1")),
           "transient_accepted", Map("packet_id" :> Num("7"))),
     Trial("send_packet", To @@ "body" :> Str("b") @@ "delivery_mode" :> Str("best"), "transient_accepted",
           Map("delivery_mode" :> Str("best"))),
     Trial("send_packet", To @@ "body" :> Str("b") @@ "delivery_mode" :> Str("best"), "transient_accepted",
           Map("recipient" :> Ref("2"))),
     Trial("create_user", "username" :> Str("n") @@ "role" :> Str("user") @@ "password" :> Pass("plain", "p"), "user",
           Map("username" :> Str("n") @@ "profile_json" :> Str(""))),
     Trial("update_user", About("user") @@ "username" :> Str("m") @@ "password" :> Pass("hashed", "h")
                          @@ "profile_json" :> Encoded("json", Map(<<>>)), "user", Map("username" :> Str("m"))),
     Trial("get_user", About("user"), "user", Ref("2")), Trial("get_user", About("user"), "user", Ref("1")),
     Trial("delete_user", About("user"), "user", Ref("2")), Trial("delete_user", About("user"), "status", Str("deleted")),
     Trial("list_messages", About("user") @@ "limit" :> Num("1"), "count", Num("1")),
     Trial("subscribe_channel", About("subscriber") @@ About("channel"), "subscription", Map("channel" :> Ref("2"))),
     Trial("unsubscribe_channel", About("subscriber") @@ About("channel"), "subscription", Map("owner" :> Ref("2"))),
     Trial("list_subscriptions", About("subscriber"), "items", List(<<Map("node_id" :> Num("1"))>>)),
     Trial("block_user", About("owner") @@ About("blocked"), "entry", Map("blocked" :> Ref("2"))),
     Trial("unblock_user", About("owner") @@ About("blocked"), "entry", Map("owner" :> Str("2"))),
     Trial("list_blocked_users", About("owner"), "items", List(<<>>)),
     Trial("list_events", "after" :> Str("1") @@ "limit" :> Scalar("float64", "1.5"), "items", List(<<Num("1")>>)),
     Trial("operations_status", <<>>, "status", Map("last_event_sequence" :> Num("2^53"))),
     Trial("metrics", <<>>, "text", Str("m")), Trial("ping", <<>>, "pong", Map(<<>>)),
     Trial("list_cluster_nodes", <<>>, "items", Map("0" :> Num("1"))),
     Trial("list_node_logged_in_users", "node_id" :> Num("1"), "count", Scalar("float64", "1")),
     Trial("resolve_user_sessions", About("user"), "resolved_user_sessions", Map("user" :> Ref("2"))),
     Trial("resolve_user_sessions", About("user"), "resolved_user_sessions",
           Map("presence" :> List(<<Map("session_count" :> Num("1"))>>)))}

\* requests that are not read
Unread ==
    {Trial("get_user", r, "user", Ref("2")) :
        r \in {<<>>, "user" :> Num("2"), "user" :> Map("node_id" :> Str("z") @@ "user_id" :> Num("1")), "user" :> Map("node_id" :> List(<<>>))}}
    \cup {Trial("send_message", To @@ body, "message", Ref("2")) :
             body \in {<<>>, "body" :> Num("1"), "body" :> Encoded("hex", Str("b")), "body" :> Encoded("base64", Str("b")),
                      "body" :> Map("format" :> Str("json"))}}
    \cup {Trial("create_user", r @@ "role" :> Str("user"), "user", Ref("2")) :
             r \in {"username" :> Num("1"), "username" :> Str("n") @@ "password" :> Str("p"),
                   "username" :> Str("n") @@ "password" :> Pass("none", "p")}}
    \cup {Trial("send_packet", To @@ "body" :> Str("b") @@ r, "transient_accepted", Ref("2")) :
             r \in {<<>>, "delivery_mode" :> Str("best") @@ "target_session" :> Str("s"),
                   "delivery_mode" :> Str("best") @@ "target_session" :> Back(Map(<<>>))}}

\* variables of the scenario, errors that are expected, and paths that lead nowhere
Greeting(body, expected) ==
    [Trial("send_message", To @@ "body" :> body, "message", Map("body" :> expected)) EXCEPT !.vars = "y" :> Str("b")]
Wrong(code, message) ==
    Sequential(<<Connect("alice"), [Ask("alice", "get_user", About("user"), <<>>) EXCEPT
                                      !.expect.error = [code |-> code, message |-> message], !.save = "x" :> <<"error", "code">>]>>)
Others ==
    {Greeting(Str("${y}"), Str("b")), Greeting(Str("<${y}>"), Str("<b>")), Greeting(Str("${x}"), Str("${x}")),
     Greeting(Str("<${x}>"), List(<<Str("${y}")>>)),
     Wrong("not_found", "m"), Wrong("not_found", ""), Wrong("gone", "m"),
     Sequential(<<[Connect("alice") EXCEPT !.save = "x" :> <<"login", "user">> @@ "y" :> <<"login", "name">>]>>),
     Sequential(<<[Connect("alice") EXCEPT !.save = "x" :> <<"login", "user">>],
                  Ask("alice", "get_user", "user" :> Str("${x}"), "user" :> Str("${x}"))>>)}

MCScenarios == Meetings \cup {Nested, Wide, Rounds} \cup Invalid \cup Trials \cup Unread \cup Others
MCPushes == {[kind |-> "message_pushed", payload |-> Map("message" :> Map("body" :> Scalar("bytes", "b")))],
             [kind |-> "disconnect", payload |-> Map("message" :> Str("eof"))]}

\* the same text of the same type, or the same number of any type
SameLeaf(e, a) == e.v = a.v /\ (e.t = a.t \/ {e.t, a.t} \subseteq NumericTypes)

\* THE EXCEPTION: two integers that become the same float64, one of which float64 does not have
OneFloat(e, a) ==
    {e.t, a.t} \subseteq NumericTypes /\ Float64(e.v) = Float64(a.v) /\ (Float64(e.v) # e.v \/ Float64(a.v) # a.v)

\* What a step expected and matchSubset found is there: every leaf that was
\* named, the lengths of lists included, is in the answer under the same path
\* with the same text or number, or belongs to the text or {format, value}
\* that decodes to exactly the bytes the answer has in that place.  Excepted
\* are integers from 2^53 on: numericEqual compares them as float64, where
\* 2^53+1 is 2^53.
ExpectationsHold ==
    matched # Nil =>
        \A e \in Leaves(matched.expected) : \E a \in Leaves(matched.actual) :
            \/ a.at = e.at /\ (SameLeaf(e.leaf, a.leaf) \/ OneFloat(e.leaf, a.leaf))
            \/ /\ a.leaf.t = "bytes" /\ Len(a.at) <= Len(e.at) /\ SubSeq(e.at, 1, Len(a.at)) = a.at
               /\ decodeBytes(Follow(matched.expected, a.at)) = Ok(a.leaf.v)
=============================================================================
