---------------------------- MODULE Configuration ----------------------------
(***************************************************************************)
(* The configuration of a run as functions of what the user gave: defaults *)
(* and validation (internal/config/validate.go), the overrides of the      *)
(* command line (precedence.go), the compilation of load profiles          *)
(* (internal/profile/compiler.go) and the safety preflight                 *)
(* (internal/safety/preflight.go).  A field that is only checked against   *)
(* its own range is folded into one flag, sound.                           *)
(***************************************************************************)
EXTENDS Integers, Sequences, FiniteSets

CONSTANTS
    Text,                \* what a text of a configuration may be
    Hosts,               \* host names and addresses
    Loopback,            \* those of this machine
    Second,              \* time is counted in ticks, rates per second
    MaxAllowedDuration, MaxAllowedRate, MaxAllowedUsers, MaxAllowedInFlight,
    MaxSourceSegments, MaxCompiledSegments, MaxScenarioSteps

ASSUME TextAssumption ==
    /\ Loopback \subseteq Hosts /\ Hosts \subseteq Text \ {"no url", "relative", "hostless", "unparsable"}
    /\ {"", "GET", "open", "closed", "measured"} \subseteq Text
ASSUME SecondAssumption == Second \in Nat \ {0}
ASSUME CeilingsAssumption ==
    /\ {MaxAllowedDuration, MaxAllowedRate, MaxAllowedUsers, MaxAllowedInFlight} \subseteq Nat \ {0}
    /\ {MaxSourceSegments, MaxCompiledSegments, MaxScenarioSteps} \subseteq Nat \ {0}

\* A URL is the host it names, or one of these: absent, not absolute, absolute
\* without a host, and one that url.Parse refuses.
NoURL == "no url"
Urls  == Hosts \cup {NoURL, "relative", "hostless", "unparsable"}

Methods     == {"GET", "HEAD", "OPTIONS", "POST", "PUT", "PATCH", "DELETE"}
Destructive == {"POST", "PUT", "PATCH", "DELETE"}

\* response_body_limit: unset, the default size or another one up to the hard
\* limit, one that is zero or above it, and what is no size
Sizes  == {"1MiB", "other"}
Limits == Sizes \cup {"", "huge", "nonsense"}

\* What a configuration file decodes to, and the values of the flags
Requests == [url : Urls, method : Text, limit : Limits, sound : BOOLEAN]
Steps    == [name : Text, url : Urls, method : Text, limit : Limits, sound : BOOLEAN]
Segments ==
    [name : Text, stage : Text, duration : Int, rate : Int, startRate : Int, endRate : Int, steps : Int]
Loads ==
    [model : Text, rate : Int, unit : Int, inFlight : Int, duration : Int, users : Int, thinkTime : Int,
     segments : Seq(Segments)]
Thresholds == [step : Text, metric : Text, op : Text, target : Int, unit : Text]
Configs ==
    [schema : Int, request : Requests, scenario : [given : BOOLEAN, steps : Seq(Steps)], load : Loads,
     thresholds : SUBSET Thresholds, auth : BOOLEAN, hosts : SUBSET Text, nonIdempotent : BOOLEAN, treat429 : BOOLEAN]
Flags ==
    [command : Text, file : BOOLEAN, url : Urls, method : Text, model : Text, rate : Int, unit : Int,
     users : Int, duration : Int, inFlight : Int, limit : Limits, hosts : SUBSET Text,
     allowDestructive : BOOLEAN, dryRun : BOOLEAN, json : BOOLEAN]

-----------------------------------------------------------------------------
(* profile.Compile                                                          *)

Stages    == <<"warmup", "measured", "cooldown">>
Rank(s)   == CHOOSE i \in 1..3 : Stages[i] = s
StageSet  == {Stages[i] : i \in 1..3}

\* A source segment has a constant rate, or a ramp in steps parts.
Parts(s) == IF s.steps = 0 THEN 1 ELSE s.steps

\* The rate of part k (from 0) is the fraction num/den.
Den(s)    == IF Parts(s) > 1 THEN Parts(s) - 1 ELSE 1
Num(s, k) == IF Parts(s) > 1 THEN s.startRate * Den(s) + (s.endRate - s.startRate) * k ELSE s.rate

PartDuration_NoRemainder(s, k) == s.duration \div Parts(s)
PartDuration(s, k) == s.duration \div Parts(s) + (IF k < s.duration % Parts(s) THEN 1 ELSE 0)

CompilePart(s, k, unit) ==
    [stage |-> s.stage, num |-> Num(s, k), den |-> Den(s), duration |-> PartDuration(s, k),
     interval |-> IF Num(s, k) > 0 THEN (unit * Den(s)) \div Num(s, k) ELSE 0]

\* The parts of all source segments in order, and the offset each starts at
Expand(source, unit) ==
    LET upTo[i \in 0..Len(source)] ==
            IF i = 0 THEN <<>>
            ELSE upTo[i - 1] \o [k \in 1..Parts(source[i]) |-> CompilePart(source[i], k - 1, unit)]
    IN  upTo[Len(source)]

Offsets(parts) ==
    LET start[i \in 1..(Len(parts) + 1)] == IF i = 1 THEN 0 ELSE start[i - 1] + parts[i - 1].duration
    IN  start

Compiles(source, unit) ==
    /\ Len(source) \in 1..MaxSourceSegments /\ unit > 0
    /\ Len(Expand(source, unit)) <= MaxCompiledSegments
    /\ \A i \in DOMAIN Expand(source, unit) :
           LET p == Expand(source, unit)[i] IN p.num > 0 /\ p.interval > 0 /\ p.duration > 0

Compile(source, unit) ==
    LET parts == Expand(source, unit)
    IN  [i \in DOMAIN parts |->
            [stage |-> parts[i].stage, num |-> parts[i].num, den |-> parts[i].den, interval |-> parts[i].interval,
             start |-> Offsets(parts)[i], end |-> Offsets(parts)[i + 1]]]

\* CompileLoadProfile: a load without segments is one measured segment.
Source(load) ==
    IF load.segments # <<>> THEN load.segments
    ELSE << [name |-> "measured", stage |-> "measured", duration |-> load.duration,
             rate |-> load.rate, startRate |-> 0, endRate |-> 0, steps |-> 0] >>

-----------------------------------------------------------------------------
(* ValidateConfig: defaults and checks                                      *)

\* A name, without the spaces around it, has 1 to MaxSegmentNameLength characters.
BadNames == {"", "too long"}

validateProfileSegments(segs) ==
    /\ Len(segs) \in 1..MaxSourceSegments
    /\ \A i \in DOMAIN segs :
           segs[i].name \notin BadNames /\ segs[i].stage \in StageSet /\ segs[i].duration > 0
    /\ \A i, j \in DOMAIN segs :
           i < j => segs[i].name # segs[j].name /\ Rank(segs[i].stage) <= Rank(segs[j].stage)
    /\ \E i \in DOMAIN segs : segs[i].stage = "measured"
    /\ \A i \in DOMAIN segs :
           \/ segs[i].rate > 0 /\ segs[i].startRate = 0 /\ segs[i].endRate = 0 /\ segs[i].steps = 0
           \/ segs[i].rate = 0 /\ segs[i].startRate > 0 /\ segs[i].endRate > 0 /\ segs[i].steps >= 2

validateOpenLoad(load, schema) ==
    /\ load.model = "open"
    /\ load.inFlight > 0 /\ load.users = 0 /\ load.thinkTime = 0
    /\ IF load.segments # <<>>
       THEN schema = 2 /\ load.rate = 0 /\ load.duration = 0 /\ validateProfileSegments(load.segments)
       ELSE load.rate > 0 /\ load.duration > 0
    /\ Compiles(Source(load), load.unit)

validateClosedLoad(load) ==
    /\ load.model = "closed"
    /\ load.duration > 0 /\ load.users > 0 /\ load.thinkTime >= 0
    /\ load.rate = 0 /\ load.unit = 0 /\ load.inFlight = 0 /\ load.segments = <<>>

validateLoadConfig(load, schema) == validateOpenLoad(load, schema) \/ validateClosedLoad(load)

validateRequestConfig(req) ==
    req.url \in Hosts /\ req.method \in Methods /\ req.limit \in Sizes /\ req.sound

validateScenarioConfig(steps) ==
    /\ Len(steps) \in 1..MaxScenarioSteps
    /\ \A i, j \in DOMAIN steps : i # j => steps[i].name # steps[j].name
    /\ \A i \in DOMAIN steps :
           /\ steps[i].url \in Hosts \cup {"hostless", "unparsable"} /\ steps[i].method \in Methods
           /\ steps[i].limit \in Sizes /\ steps[i].sound

\* The metrics of a threshold, one or more of each category, and the units that
\* each category takes
Category ==
    [http_error_rate |-> "rate", p95 |-> "latency", completed_rps |-> "throughput", completed_requests |-> "count",
     failed_requests |-> "count", dropped_requests |-> "count", max_in_flight |-> "concurrency"]
Units ==
    [rate |-> {"%"}, latency |-> {"s", "ms", "us"}, throughput |-> {"", "req/s", "rps"}, count |-> {""}, concurrency |-> {""}]
Operators == {"<", "<=", ">", ">=", "==", "!="}

ParseThreshold(t) ==
    /\ t.metric \in DOMAIN Category /\ t.op \in Operators
    /\ t.unit \in Units[Category[t.metric]] /\ t.target >= 0
    /\ Category[t.metric] = "rate" => t.target <= 100

DefaultLimit(l) == IF l = "" THEN "1MiB" ELSE l

\* The defaults that ValidateConfig fills in
DefaultRequest(r) == IF r.url # NoURL THEN [r EXCEPT !.limit = DefaultLimit(@)] ELSE r
DefaultStep(s)    == [s EXCEPT !.limit = DefaultLimit(@), !.method = IF @ = "" THEN "GET" ELSE @]
DefaultUnit(load) == IF load.model = "open" /\ load.unit <= 0 THEN [load EXCEPT !.unit = Second] ELSE load

Normalize(cfg) ==
    [cfg EXCEPT
        !.request = DefaultRequest(@),
        !.scenario.steps = [i \in DOMAIN @ |-> DefaultStep(@[i])],
        !.load = DefaultUnit(@)]

\* What ValidateConfig accepts, with the defaults filled in
Valid(cfg) ==
    /\ cfg.schema \in {1, 2} /\ (cfg.schema = 2 => cfg.load.segments # <<>>)
    /\ (cfg.request.url # NoURL) # cfg.scenario.given
    /\ cfg.request.url # NoURL => validateRequestConfig(cfg.request)
    /\ cfg.scenario.given => validateScenarioConfig(cfg.scenario.steps) /\ cfg.load.model = "closed"
    /\ validateLoadConfig(cfg.load, cfg.schema)
    /\ \A t \in cfg.thresholds : ParseThreshold(t)
    /\ cfg.auth /\ cfg.hosts \subseteq Hosts

ValidateConfig(cfg) == Valid(Normalize(cfg))

-----------------------------------------------------------------------------
(* ApplyCLIOverrides.  A flag that was not given is 0, "", {} or FALSE.     *)

Given(flag, value) == IF flag > 0 THEN flag ELSE value

\* A change of model clears the other model's fields.
SwitchModel(load, model) ==
    CASE model = "open"   -> [load EXCEPT !.model = model, !.users = 0, !.thinkTime = 0]
      [] model = "closed" -> [load EXCEPT !.model = model, !.rate = 0, !.unit = 0, !.inFlight = 0, !.segments = <<>>]
      [] model = ""       -> load
      [] OTHER            -> [load EXCEPT !.model = model]

OverrideLoad_SwitchLast(load, flags) ==
    SwitchModel([load EXCEPT !.rate = Given(flags.rate, @), !.unit = Given(flags.unit, @), !.users = Given(flags.users, @),
                             !.duration = Given(flags.duration, @), !.inFlight = Given(flags.inFlight, @)], flags.model)
OverrideLoad(load, flags) ==
    [SwitchModel(load, flags.model) EXCEPT
        !.rate = Given(flags.rate, @), !.unit = Given(flags.unit, @), !.users = Given(flags.users, @),
        !.duration = Given(flags.duration, @), !.inFlight = Given(flags.inFlight, @)]

\* Without a model, users make it closed; an open one then gets defaults.
DefaultModel(load) ==
    IF load.model # "" THEN load
    ELSE IF load.users > 0 THEN [load EXCEPT !.model = "closed"]
    ELSE [load EXCEPT !.model = "open", !.rate = IF @ <= 0 THEN 1 ELSE @, !.inFlight = IF @ <= 0 THEN 10 ELSE @]

DefaultDuration(load) ==
    IF load.segments = <<>> /\ load.duration <= 0 THEN [load EXCEPT !.duration = 10 * Second] ELSE load

\* --rate and --duration cannot override a segmented profile.
Overridable(cfg, flags) ==
    /\ flags.rate > 0 \/ flags.duration > 0 => SwitchModel(cfg.load, flags.model).segments = <<>>
    /\ flags.hosts \subseteq Hosts

\* An ad-hoc run against this machine needs no list of hosts.
OverrideHosts(cfg, flags) ==
    LET url == IF flags.url # NoURL THEN flags.url ELSE cfg.request.url
    IN  IF flags.hosts # {} THEN flags.hosts
        ELSE IF ~flags.file /\ cfg.hosts = {} /\ url \in Loopback THEN {url}
        ELSE cfg.hosts

OverrideRequest(r, flags) ==
    [r EXCEPT
        !.url = IF flags.url # NoURL THEN flags.url ELSE @,
        !.method = IF flags.method # "" THEN flags.method ELSE IF @ = "" THEN "GET" ELSE @,
        !.limit = IF flags.limit # "" THEN flags.limit ELSE @]

Override(cfg, flags) ==
    [cfg EXCEPT
        !.request = OverrideRequest(@, flags),
        !.load = DefaultDuration(DefaultModel(OverrideLoad(@, flags))),
        !.hosts = OverrideHosts(cfg, flags),
        !.nonIdempotent = @ \/ flags.allowDestructive]

ApplyCLIOverrides(cfg, flags) == Normalize(Override(cfg, flags))

-----------------------------------------------------------------------------
(* PreflightEngine.Check                                                    *)

Targets_FirstOnly(cfg) ==
    {IF cfg.scenario.given THEN [url |-> cfg.scenario.steps[1].url, method |-> cfg.scenario.steps[1].method]
     ELSE [url |-> cfg.request.url, method |-> cfg.request.method]}
Targets(cfg) ==
    IF cfg.scenario.given
    THEN {[url |-> cfg.scenario.steps[i].url, method |-> cfg.scenario.steps[i].method] : i \in DOMAIN cfg.scenario.steps}
    ELSE {[url |-> cfg.request.url, method |-> cfg.request.method]}

\* num/den requests per unit are more than the rate that is allowed.
TooFast(num, den, unit) == num * Second > MaxAllowedRate * unit * den

EffectiveDuration(load) ==
    IF load.segments = <<>> THEN load.duration
    ELSE LET c == Compile(load.segments, load.unit) IN c[Len(c)].end

WithinCeilings(load) ==
    /\ EffectiveDuration(load) <= MaxAllowedDuration
    /\ IF load.segments = <<>>
       THEN ~TooFast(load.rate, 1, IF load.unit > 0 THEN load.unit ELSE Second)
       ELSE \A i \in DOMAIN Compile(load.segments, load.unit) :
                LET s == Compile(load.segments, load.unit)[i] IN ~TooFast(s.num, s.den, load.unit)
    /\ load.users <= MaxAllowedUsers /\ load.inFlight <= MaxAllowedInFlight

\* The checks before the DNS lookups; a URL without a host is let pass.
Check(cfg, flags) ==
    /\ \A t \in Targets(cfg) :
           /\ t.url # "unparsable"
           /\ t.url # "hostless" => t.url \in cfg.hosts
           /\ t.method \in Destructive => cfg.nonIdempotent \/ flags.allowDestructive
    /\ WithinCeilings(cfg.load)

\* BuildPlan parses the limit of the request even if the plan is a scenario.
BuildPlanSucceeds(cfg) == cfg.request.limit # "nonsense"

=============================================================================
