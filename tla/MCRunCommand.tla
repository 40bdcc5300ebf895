----------------------------- MODULE MCRunCommand -----------------------------
EXTENDS RunCommand

MCText == STRING

Seg(name, stage, duration, rate) ==
    [name |-> name, stage |-> stage, duration |-> duration, rate |-> rate, startRate |-> 0, endRate |-> 0, steps |-> 0]

\* A ramp whose length its steps do not divide
Ramp == [name |-> "ramp", stage |-> "warmup", duration |-> 8, rate |-> 0, startRate |-> 2, endRate |-> 1, steps |-> 3]

OpenLoad == [NoLoad EXCEPT !.model = "open", !.rate = 2, !.inFlight = 2, !.duration = 8]

MCLoads ==
    {OpenLoad,
     [OpenLoad EXCEPT !.rate = 0, !.duration = 0, !.segments = <<Ramp, Seg("flat", "measured", 4, 4)>>],
     [OpenLoad EXCEPT !.rate = 0, !.duration = 0, !.segments = <<Seg("flat", "measured", 4, 1), Ramp>>],
     [OpenLoad EXCEPT !.rate = 0, !.duration = 0, !.segments = <<Seg("too long", "measured", 4, 1)>>],
     [NoLoad EXCEPT !.model = "closed", !.users = 2, !.duration = 8, !.thinkTime = 1]}

Limit(step, metric, op, target, unit) == [step |-> step, metric |-> metric, op |-> op, target |-> target, unit |-> unit]

MCThresholds ==
    {{}, {Limit("", "http_error_rate", "<=", 50, "%"), Limit("", "p95", "<", 2, "ms")},
     {Limit("s2", "completed_requests", ">=", 1, ""), Limit("", "max_in_flight", "!=", 3, "")},
     {Limit("", "completed_rps", ">", 0, "req/s"), Limit("", "dropped_requests", "==", 0, ""), Limit("", "failed_requests", "<", 2, "")},
     {Limit("", "http_error_rate", "<=", 1, "")}}

RequestFile(load, url, method, thresholds) ==
    [EmptyConfig EXCEPT !.schema = IF load.segments = <<>> THEN 1 ELSE 2, !.load = load, !.thresholds = thresholds,
        !.hosts = {"h1"}, !.treat429 = (thresholds = {}), !.request = [NoRequest EXCEPT !.url = url, !.method = method]]

Step(name, url, method) == [name |-> name, url |-> url, method |-> method, limit |-> "", sound |-> TRUE]

ScenarioFile(second, hosts, nonIdempotent) ==
    [EmptyConfig EXCEPT !.load = [NoLoad EXCEPT !.model = "closed", !.users = 1, !.duration = 8],
        !.scenario = [given |-> TRUE, steps |-> <<Step("s1", "h1", ""), second>>],
        !.hosts = hosts, !.nonIdempotent = nonIdempotent,
        !.thresholds = {Limit("s2", "completed_requests", ">=", 1, "")}]

MCFiles ==
    {RequestFile(load, url, method, t) : load \in MCLoads, url \in {"h1"}, method \in {"GET"}, t \in MCThresholds}
    \cup {RequestFile(OpenLoad, url, method, {}) : url \in {"h1", "h2", "hostless"}, method \in {"GET", "POST"}}
    \cup {ScenarioFile(Step("s2", url, "POST"), hosts, ni) :
            url \in {"h1", "h2", "hostless"}, hosts \in {{"h1"}, {"h1", "h2"}}, ni \in BOOLEAN}

NoFlags == [command |-> "run", file |-> FALSE, url |-> NoURL, method |-> "", model |-> "", rate |-> 0, unit |-> 0,
            users |-> 0, duration |-> 0, inFlight |-> 0, limit |-> "", hosts |-> {}, allowDestructive |-> FALSE,
            dryRun |-> FALSE, json |-> FALSE]

LoadFlags ==
    {[NoFlags EXCEPT !.model = m, !.rate = r, !.users = u, !.duration = d, !.inFlight = f] :
        m \in {"", "open", "closed"}, r \in {0, 4}, u \in {0, 2}, d \in {0, 4}, f \in {0, 3}}

MCCommandLines ==
    {[f EXCEPT !.url = u, !.hosts = h] : f \in LoadFlags, u \in {NoURL, "h1", "lo"}, h \in {{}, {"h1"}}}
    \cup {[f EXCEPT !.file = TRUE] : f \in {g \in LoadFlags : g.users = 0 \/ (g.inFlight = 0 /\ g.rate = 0)}}
    \cup {[NoFlags EXCEPT !.file = TRUE, !.command = c[1], !.dryRun = c[2], !.json = c[3], !.limit = l, !.allowDestructive = a,
                          !.hosts = h, !.method = m, !.unit = t] :
            c \in {<<"validate", FALSE, FALSE>>, <<"run", TRUE, FALSE>>, <<"run", FALSE, TRUE>>},
            l \in {"", "nonsense"}, a \in BOOLEAN, h \in {{}, {"h1"}}, m \in {""}, t \in {0}}
    \cup {[NoFlags EXCEPT !.file = TRUE, !.method = m, !.limit = l, !.unit = t] :
            m \in {"", "HEAD", "POST", "BREW"}, l \in {"", "other"}, t \in {0, 8}}
    \cup {[NoFlags EXCEPT !.command = c] : c \in {"compare", "doctor", "self-test"}}
    \cup {[NoFlags EXCEPT !.url = "lo", !.model = "burst"], [NoFlags EXCEPT !.url = "relative"]}

Snap(c, s, l) == [completed |-> c, success |-> s, limited |-> l, dropped |-> c \div 3, rps |-> c, p95 |-> c * 1000]
MCSnapshots == {Zero, Snap(1, 1, 0), Snap(2, 1, 1), Snap(3, 1, 1)}

\* Reports of a plain and of a profiled run with thresholds, of a run without,
\* of one that was cut off, and a file that is none
Plans ==
    {Normalize(RequestFile(load, "h1", "GET", t)) :
        load \in {OpenLoad, [OpenLoad EXCEPT !.rate = 0, !.duration = 0, !.segments = <<Ramp, Seg("flat", "measured", 4, 4)>>]},
        t \in {{}, {Limit("", "http_error_rate", "<=", 50, "%"), Limit("", "p95", "<", 2, "ms")}}}

MCArchive ==
    {Archived(plan, [overall |-> s, measured |-> s, steps |-> <<>>], FALSE, d) : plan \in Plans, s \in MCSnapshots, d \in Durations}
    \cup {Archived(plan, None, TRUE, 8) : plan \in Plans}
    \cup {[report |-> Unreadable, code |-> 3]}
=============================================================================
