--------------------------- MODULE MCTargetSession ---------------------------
(* Small instances of TargetSession for TLC. *)
EXTENDS TargetSession

Auth(type, name, tokens) ==
    [type |-> type, headerName |-> name, token |-> "t", username |-> "user", tokens |-> tokens]
None == Auth("none", "", <<>>)
Pool(name) == Auth("token_pool", name, <<"t1", "t2">>)

\* Without limiter and delays the clock does not matter.
Still(users, auth, cookies, menu) ==
    [users |-> users, auth |-> auth, jars |-> cookies, style |-> "off", menu |-> menu, calls |-> MaxCalls, horizon |-> Origin]
Limited(calls, style, menu, ticks) ==
    [users |-> 1, auth |-> None, jars |-> TRUE, style |-> style, menu |-> menu, calls |-> calls, horizon |-> Origin + ticks]

MCSetups ==
    \* the limiter: every style, several windows, redirects and delays; a user
    \* that gives up has more than one request at the target
    {Limited(2, style, {"plain"}, 3) : style \in Styles \ {"all"}}
    \cup {Limited(3, "all", {"plain"}, 7), Limited(2, "date", {"redirect"}, 4), Limited(2, "seconds", {"delay"}, 4)}
    \* sessions
    \cup {Still(2, None, cookies, {"login", "items", "logout"}) : cookies \in BOOLEAN}
    \cup {Still(2, None, TRUE, {"cookies-set", "cookies"})}
    \* credentials
    \cup {Still(3, Pool(name), FALSE, {"token-pool"}) : name \in {"", "X-API-Key"}}
    \cup {Still(1, Auth(type, "X-API-Key", <<>>), FALSE, {path}) :
             type \in {"none", "bearer", "custom_header", "basic"}, path \in {"bearer", "header", "basic", "token-pool"}}
    \* failures
    \cup {Still(2, None, FALSE, {"hang", "drop"}), Still(1, None, FALSE, {"login-get", "fail-step"})}
=============================================================================
