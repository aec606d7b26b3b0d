------------------------------ MODULE Directory ------------------------------
(***************************************************************************)
(* What the request API of the SDK promises, however it is reached: a      *)
(* caller names a well-formed command, the server carries it out at one    *)
(* point in time or not at all, and the caller gets the answer of that     *)
(* very command or an error.                                               *)
(*                                                                         *)
(* The data of the server are the accounts, the attachments between them   *)
(* (subscriptions, blacklists, channel rights), the metadata and the       *)
(* stored messages.                                                        *)
(***************************************************************************)
EXTENDS Integers, Sequences, FiniteSets

CONSTANTS Callers, MaxNode, MaxUser, Nil

VARIABLES db, ops

Visible == "system.visible_to_others"

Refs == [node : 0..MaxNode, user : 0..MaxUser]
ValidRefs == [node : 1..MaxNode, user : 1..MaxUser]
ZeroRef == [node |-> 0, user |-> 0]

Roles == {"user", "channel"}
LinkTypes == {"channel_manager", "channel_writer", "channel_subscription", "user_blacklist"}
Modes == {"best_effort", "route_retry"}
Sessions == [node : {0}, id : {""}] \cup [node : {1}, id : {"s"}]
MetaKeys == {"k", Visible}
MetaValues == {"", "b", "true", " true", "null"}
Views == {"raw", "full"}  \* protobuf has no typed_value, and no nil beside the empty bytes
Limits == 0..1

\* a field of an update that is Nil leaves the account as it is
Account == [name : {"n", "m"}, login : {"", "l"}, role : Roles, profile : {"", "p"}]
Change == [name : {Nil, "m"}, login : {Nil, "", "l"}, role : {Nil} \cup Roles, profile : {Nil, "", "p"}]
Entry == [value : MetaValues, typed : {Nil, "bool", "string", "number", "json"}, expires : {"", "t"}]

HasPrefix(k, p) == p \in {"", k} \/ (p = "system." /\ k \in {Visible, "system.x"})

(***************************************************************************)
(* The well-formed commands.  A link type of "" is no filter in a query;   *)
(* the server refuses to attach with it.                                   *)
(***************************************************************************)
Commands ==
    [op : {"get_user", "delete_user", "sessions"}, user : ValidRefs]
    \cup [op : {"create_user"}, account : Account]
    \cup [op : {"update_user"}, user : ValidRefs, change : Change]
    \cup [op : {"list_users"}, name : {"", "n"}, uid : ValidRefs \cup {ZeroRef}]
    \cup [op : {"attach", "detach"}, owner : ValidRefs, subject : ValidRefs, type : LinkTypes \cup {""},
          as : {"attachment", "subscription", "blacklist", "nothing"}]
    \cup [op : {"attachments"}, owner : ValidRefs, type : LinkTypes \cup {""},
          as : {"attachment", "subscription", "blacklist"}]
    \cup [op : {"get_metadata", "delete_metadata"}, owner : ValidRefs, key : MetaKeys, view : Views]
    \cup [op : {"put_metadata"}, owner : ValidRefs, key : MetaKeys, entry : Entry, view : Views]
    \cup {q \in [op : {"scan_metadata"}, owner : ValidRefs, prefix : {"", "k", "system.", Visible},
                 after : {"", "k", "system.", Visible}, limit : Limits, view : Views] :
            q.after = "" \/ HasPrefix(q.after, q.prefix)}
    \cup [op : {"send"}, to : ValidRefs, body : {"b"}]
    \cup [op : {"packet"}, to : ValidRefs, body : {"b"}, mode : Modes, session : Sessions,
          as : {"accepted", "nothing"}]
    \cup [op : {"messages"}, of : Refs, peer : Refs, limit : Int]
    \cup [op : {"events"}, after : Int, limit : Int]
    \cup [op : {"logged_in"}, node : 1..MaxNode]
    \cup [op : {"nodes", "status", "metrics", "ping"}]
    \cup [op : {"login"}, user : ValidRefs]
    \cup [op : {"login_by_name"}, name : {"l"}]

(***************************************************************************)
(* What the server does with a command.                                    *)
(***************************************************************************)
Done(d, a) == [db |-> d, answer |-> [ok |-> TRUE, body |-> a]]
Refused(d) == [db |-> d, answer |-> [ok |-> FALSE, body |-> Nil]]

UserAt(d, r) == [ref |-> r, account |-> d.users[r]]
LinkOf(q) == [owner |-> q.owner, subject |-> q.subject, type |-> q.type]

\* an attachment, a subscription and a blacklist entry are views of one thing
LinkAs(l, as) ==
    CASE as = "attachment"   -> l
      [] as = "subscription" -> [subscriber |-> l.owner, channel |-> l.subject]
      [] as = "blacklist"    -> [owner |-> l.owner, blocked |-> l.subject]
      [] as = "nothing"      -> Nil

Merge(a, ch) == [f \in DOMAIN a |-> IF ch[f] = Nil THEN a[f] ELSE ch[f]]
\* a limit of zero or below is none
Page(s, limit) == IF limit <= 0 \/ Len(s) <= limit THEN s ELSE SubSeq(s, 1, limit)

\* a channel has no login name
ChannelWithLogin(a) == a.role = "channel" /\ a.login # ""

ApplyUser(d, q) ==
    LET known == {r \in ValidRefs : d.users[r] # Nil} IN
    CASE q.op = "create_user" ->
            IF known = ValidRefs \/ ChannelWithLogin(q.account) THEN Refused(d)
            ELSE LET r == CHOOSE r \in ValidRefs \ known : TRUE
                     e == [d EXCEPT !.users[r] = q.account]
                 IN Done(e, UserAt(e, r))
      [] q.op = "list_users" ->
            Done(d, {UserAt(d, r) : r \in {r \in known : /\ q.name \in {"", d.users[r].name}
                                                        /\ q.uid \in {ZeroRef, r}}})
      [] q.op = "logged_in" -> 
            Done(d, {[ref |-> r, name |-> d.users[r].name, login |-> d.users[r].login] :
                        r \in {r \in known : r.node = q.node}})
      [] q.op = "login_by_name" ->
            IF \E r \in known : d.users[r].login = q.name THEN Done(d, "token") ELSE Refused(d)
      [] OTHER ->
            IF q.user \notin known THEN Refused(d)
            ELSE CASE q.op = "login" -> Done(d, "token")
                   [] q.op = "get_user" -> Done(d, UserAt(d, q.user))
                   [] q.op = "sessions" ->
                        Done(d, [user |-> q.user, presence |-> <<[node |-> 1, count |-> 2]>>,
                                 sessions |-> <<[session |-> [node |-> 1, id |-> "s"], transient |-> TRUE]>>])
                   [] q.op = "delete_user" ->
                        Done([d EXCEPT !.users[q.user] = Nil], [status |-> "deleted", user |-> q.user])
                   [] q.op = "update_user" ->
                        LET a == Merge(d.users[q.user], q.change)
                            e == [d EXCEPT !.users[q.user] = a]
                        IN IF ChannelWithLogin(a) THEN Refused(d) ELSE Done(e, UserAt(e, q.user))

ApplyLink(d, q) ==
    IF q.op = "attachments" THEN
        Done(d, {LinkAs(l, q.as) : l \in {l \in d.links : l.owner = q.owner /\ q.type \in {"", l.type}}})
    ELSE IF q.type = "" THEN Refused(d)
    ELSE Done([d EXCEPT !.links = IF q.op = "attach" THEN @ \cup {LinkOf(q)} ELSE @ \ {LinkOf(q)}],
              LinkAs(LinkOf(q), q.as))

MetaAt(d, q, k) ==
    LET e == d.meta[<<q.owner, k>>] IN
    [owner |-> q.owner, key |-> k,
     entry |-> IF q.view = "full" THEN e
               ELSE [e EXCEPT !.typed = Nil, !.value = IF @ = "" THEN Nil ELSE @]]

ApplyMeta(d, q) ==
    CASE q.op = "put_metadata" ->
            LET e == [d EXCEPT !.meta[<<q.owner, q.key>>] = q.entry] IN Done(e, MetaAt(e, q, q.key))
      [] q.op = "scan_metadata" ->
            LET rows == SelectSeq(<<"k", Visible>>, LAMBDA k :
                            /\ d.meta[<<q.owner, k>>] # Nil
                            /\ HasPrefix(k, q.prefix)
                            /\ q.after = "" \/ (q.after \in {"k", "system."} /\ k = Visible))
                page == Page(rows, q.limit)
            IN Done(d, [items |-> [i \in DOMAIN page |-> MetaAt(d, q, page[i])],
                        next |-> IF Len(page) < Len(rows) THEN page[Len(page)] ELSE ""])
      [] OTHER ->
            IF d.meta[<<q.owner, q.key>>] = Nil THEN Refused(d)
            ELSE CASE q.op = "get_metadata" -> Done(d, MetaAt(d, q, q.key))
                   [] q.op = "delete_metadata" ->
                        Done([d EXCEPT !.meta[<<q.owner, q.key>>] = Nil], MetaAt(d, q, q.key))

\* the server reads a zero as the user who asks
Self == [node |-> 1, user |-> 1]
Resolved(r) == [f \in {"node", "user"} |-> IF r[f] = 0 THEN Self[f] ELSE r[f]]

ApplyMail(d, q) ==
    CASE q.op = "send" ->
            LET m == [to |-> q.to, from |-> Self, body |-> q.body, seq |-> Len(d.mail) + 1, at |-> "t"]
            IN Done([d EXCEPT !.mail = Append(@, m)], m)
      [] q.op = "packet" ->
            Done(d, IF q.as = "nothing" THEN Nil ELSE [to |-> q.to, mode |-> q.mode, session |-> q.session])
      [] q.op = "messages" ->
            Done(d, Page(SelectSeq(d.mail, LAMBDA m :
                            /\ m.to = Resolved(q.of)
                            /\ q.peer = ZeroRef \/ Resolved(q.peer) \in {Self, m.to}), q.limit))

\* the event log, and what a node says of itself and its peers
Log == <<[seq |-> 1, origin |-> 2], [seq |-> 2, origin |-> 1]>>
Status == [node |-> 1, trimmed |-> [total |-> 3, at |-> "t"], projection |-> [pending |-> 4, failed |-> ""],
           peers |-> <<[node |-> 2, sent |-> 5, received |-> 6,
                        origins |-> <<[origin |-> 1, acked |-> 7, applied |-> 8]>>]>>]

ApplyStatus(d, q) ==
    CASE q.op = "events"  -> Done(d, Page(SelectSeq(Log, LAMBDA e : e.seq > q.after), q.limit))
      [] q.op = "nodes"   -> Done(d, {[node |-> n, local |-> n = 1] : n \in 1..MaxNode})
      [] q.op = "status"  -> Done(d, Status)
      [] q.op = "metrics" -> Done(d, "text")
      [] q.op = "ping"    -> Done(d, Nil)

Apply(d, q) ==
    CASE q.op \in {"attach", "detach", "attachments"} -> ApplyLink(d, q)
      [] q.op \in {"get_metadata", "put_metadata", "delete_metadata", "scan_metadata"} -> ApplyMeta(d, q)
      [] q.op \in {"send", "packet", "messages"} -> ApplyMail(d, q)
      [] q.op \in {"events", "nodes", "status", "metrics", "ping"} -> ApplyStatus(d, q)
      [] OTHER -> ApplyUser(d, q)

(***************************************************************************)
(* The abstract service.  ops[c] is the call of c: what c sees (caller),   *)
(* what became of the command at the server (server), the answer given     *)
(* there and the value c returned with.                                    *)
(***************************************************************************)
NoOp == [caller |-> "idle", server |-> "none", cmd |-> Nil, answer |-> Nil, value |-> Nil]

DirectoryVars == <<db, ops>>

Invoke(c) ==
    /\ ops[c].caller = "idle" /\ ops'[c].cmd \in Commands
    /\ ops' = [ops EXCEPT ![c] = [@ EXCEPT !.caller = "waiting", !.server = "pending", !.cmd = ops'[c].cmd]]
    /\ UNCHANGED db

\* a call with arguments that make no command never gets to the server
Decline(c) ==
    /\ ops[c].caller = "idle"
    /\ ops' = [ops EXCEPT ![c].caller = "failed"]
    /\ UNCHANGED db

\* whether or not the caller still waits
Execute(c) ==
    /\ ops[c].server = "pending"
    /\ LET r == Apply(db, ops[c].cmd) IN
         /\ db' = r.db
         /\ ops' = [ops EXCEPT ![c].server = "applied", ![c].answer = r.answer]

Drop(c) ==
    /\ ops[c].server = "pending"
    /\ ops' = [ops EXCEPT ![c].server = "none"]
    /\ UNCHANGED db

Return(c) ==
    /\ ops[c].caller = "waiting" /\ ops[c].server = "applied" /\ ops[c].answer.ok
    /\ ops' = [ops EXCEPT ![c].caller = "returned", ![c].value = ops[c].answer.body]
    /\ UNCHANGED db

\* the server refused or was busy, the connection failed or the context ended
Fail(c) ==
    /\ ops[c].caller = "waiting"
    /\ ops' = [ops EXCEPT ![c].caller = "failed"]
    /\ UNCHANGED db

DirectoryInit == ops = [c \in Callers |-> NoOp]

DirectoryNext ==
    \E c \in Callers : Invoke(c) \/ Decline(c) \/ Execute(c) \/ Drop(c) \/ Return(c) \/ Fail(c)

DirectorySpec == DirectoryInit /\ [][DirectoryNext]_DirectoryVars
=============================================================================
