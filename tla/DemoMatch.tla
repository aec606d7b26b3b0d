------------------------------ MODULE DemoMatch ------------------------------
(***************************************************************************)
(* The values of the demo runner, all the way down: how an answer is       *)
(* normalised, how ${...} is replaced, how a path is followed and how an   *)
(* answer is compared with what the scenario expects.                      *)
(***************************************************************************)
EXTENDS DemoValues

(***************************************************************************)
(* Answers.                                                                *)
(***************************************************************************)
RECURSIVE normalizeValue(_)

\* structs become maps, pointers what they point to; bytes and named types stay what they are
normalizeValue(x) ==
    CASE x.t = "ptr" -> IF x.l = <<>> THEN NilValue ELSE normalizeValue(x.l[1])
      [] x.t \in {"struct", "map"} -> Map([k \in DOMAIN x.m |-> normalizeValue(x.m[k])])
      [] x.t = "list" -> List([i \in DOMAIN x.l |-> normalizeValue(x.l[i])])
      [] OTHER -> x

listPayload(items) ==
    LET list == normalizeValue(items).l IN Map("items" :> List(list) @@ "count" :> Num(ToString(Len(list))))

\* the key under which an action puts what the call returned
PayloadKey ==
    [send_message |-> "message", send_packet |-> "transient_accepted", create_user |-> "user", get_user |-> "user",
     update_user |-> "user", subscribe_channel |-> "subscription", unsubscribe_channel |-> "subscription",
     block_user |-> "entry", unblock_user |-> "entry", operations_status |-> "status", metrics |-> "text",
     resolve_user_sessions |-> "resolved_user_sessions"]

Payload(action, answer) ==
    CASE action \in DOMAIN PayloadKey -> Map(PayloadKey[action] :> normalizeValue(answer))
      [] action = "delete_user" -> normalizeValue(answer)
      [] action = "ping" -> Map("pong" :> Map(<<>>))
      [] OTHER -> listPayload(answer)

(***************************************************************************)
(* Variables.                                                              *)
(***************************************************************************)
Sprint(x) == IF x.t \in {"map", "list"} THEN "[]" ELSE x.v

RECURSIVE resolveValue(_, _)

\* a text that is one variable becomes its value, whatever its type; elsewhere its text is put in
resolveValue(x, vars) ==
    CASE x.t = "map" -> Map([k \in DOMAIN x.m |-> resolveValue(x.m[k], vars)])
      [] x.t = "list" -> List([i \in DOMAIN x.l |-> resolveValue(x.l[i], vars)])
      [] x.t = "string" ->
            CASE x.v \in DOMAIN Exact -> IF Exact[x.v] \in DOMAIN vars THEN vars[Exact[x.v]] ELSE x
              [] x.v \in DOMAIN Embedded ->
                    IF Embedded[x.v] \in DOMAIN vars THEN Str("<" \o Sprint(vars[Embedded[x.v]]) \o ">") ELSE x
              [] OTHER -> x
      [] OTHER -> x

RECURSIVE lookupPath(_, _)

lookupPath(root, path) ==
    IF path = <<>> THEN Ok(root)
    ELSE IF root.t # "map" THEN Err
    ELSE IF Head(path) \notin DOMAIN root.m THEN Err
    ELSE lookupPath(root.m[Head(path)], Tail(path))

(***************************************************************************)
(* Expectations.                                                           *)
(***************************************************************************)
NumericTypes == {"int", "int64", "uint64", "float64"}

numericEqual(n, actual) == actual.t \in NumericTypes /\ Float64(n) = Float64(actual.v)

\* Variant: what is not a number is not compared.
sameScalarNumbersOnly(expected, actual) == expected.t \in NumericTypes => numericEqual(expected.v, actual)

sameScalar(expected, actual) ==
    IF expected.t \in NumericTypes THEN numericEqual(expected.v, actual) ELSE expected = actual

RECURSIVE matchAt(_, _)

\* bytes match a text or a {format, value} that decodes to them
matchAt(expected, actual) ==
    IF actual.t = "bytes" /\ decodeBytes(expected).ok THEN decodeBytes(expected).x = actual.v
    ELSE CASE expected.t = "map" ->
                 /\ actual.t = "map"
                 /\ \A k \in DOMAIN expected.m : k \in DOMAIN actual.m /\ matchAt(expected.m[k], actual.m[k])
           [] expected.t = "list" ->
                 /\ actual.t = "list" /\ Len(expected.l) = Len(actual.l)
                 /\ \A i \in DOMAIN expected.l : matchAt(expected.l[i], actual.l[i])
           [] expected.t = "bytes" -> actual.t = "bytes" /\ expected.v = actual.v
           [] OTHER -> sameScalar(expected, actual)

matchSubset(expected, actual) ==
    \E e \in {normalizeValue(x) : x \in {expected}}, a \in {normalizeValue(x) : x \in {actual}} : matchAt(e, a)

(***************************************************************************)
(* For reference: the leaves of a value with the way to each, and the value *)
(* a way leads to.  A list is a map of its indices and its length.         *)
(***************************************************************************)
Members(x) ==
    CASE x.t \in {"map", "struct"} -> x.m
      [] x.t = "list" -> [k \in {ToString(i) : i \in DOMAIN x.l} |-> x.l[CHOOSE i \in DOMAIN x.l : ToString(i) = k]]
                         @@ "len" :> Num(ToString(Len(x.l)))
      [] OTHER -> <<>>

RECURSIVE Leaves(_)

Leaves(x) ==
    IF x.t \notin {"map", "struct", "list"} THEN {[at |-> <<>>, leaf |-> x]}
    ELSE UNION {{[at |-> <<k>> \o y.at, leaf |-> y.leaf] : y \in Leaves(Members(x)[k])} : k \in DOMAIN Members(x)}

RECURSIVE Follow(_, _)

Follow(x, path) == IF path = <<>> THEN x ELSE Follow(Members(x)[Head(path)], Tail(path))
=============================================================================
