----------------------------- MODULE RunCommand -----------------------------
(***************************************************************************)
(* The commands of daegsa, from the command line to the exit code          *)
(* (internal/cli).  run and validate read the file, apply the              *)
(* flags, validate, run the safety preflight, build the plan, run the      *)
(* scheduler, judge its metrics and report.  The schedulers are in         *)
(* OpenScheduler and ClosedScheduler; here a run only returns its          *)
(* metrics.                                                                *)
(***************************************************************************)
EXTENDS Reports

CONSTANTS
    Files,        \* the configurations that a file may hold
    CommandLines, \* the flags that a command line may give
    Addresses,    \* hosts given as IP addresses, which need no lookup
    Snapshots,    \* the counts that a run may end with
    Durations,    \* how long a run may last
    Archive       \* the reports that compare may be given, with the exit codes
                  \* of their runs

\* Every completed request has one outcome.
ASSUME RunCommandAssumption ==
    /\ Files \subseteq Configs /\ CommandLines \subseteq Flags /\ Addresses \subseteq Hosts
    /\ Snapshots \subseteq {s \in Counts : s.success + s.limited <= s.completed} /\ None \notin Snapshots
    /\ Durations \subseteq Nat

VARIABLES
    pc,         \* the next step of RunE
    flags,      \* flagValues
    file,       \* what the configuration file holds
    cfg,        \* the configuration, until it is the plan
    canceled,   \* the context of the command is done
    sent,       \* the scheduler was started
    agg,        \* what the scheduler returned
    incomplete,
    printed,    \* the report was printed
    written,    \* the JSON report, NoFile if nothing was written
    inputs,     \* what the arguments of compare name
    result,     \* what compare, doctor or self-test found
    err         \* why RunE returned

runVars == <<sent, agg, incomplete, printed, written>>
vars == <<pc, flags, file, cfg, canceled, runVars, inputs, result, err>>

-----------------------------------------------------------------------------
(* Exit codes                                                               *)

\* cobra's own errors and BuildPlan's wrap no error that is known here.
DetermineExitCode(e) ==
    CASE e = "none"                   -> 0
      [] e \in {"threshold", "failed"} -> 1
      [] e = "config"                 -> 2
      [] e \in {"scheduler", "run", "incomplete", "output", "doctor", "self-test"} -> 3
      [] e = "safety"                 -> 4
      [] OTHER                        -> 3

code == DetermineExitCode(err)

-----------------------------------------------------------------------------
(* Thresholds                                                               *)

\* The observed value is a fraction.  What the plan says of itself is in plan.
extractObserved(metric, s, plan) ==
    LET failed == IF s.completed > s.success THEN s.completed - s.success ELSE 0
        whole(n) == [num |-> n, den |-> 1]
    IN  CASE metric = "http_error_rate"    -> [num |-> 100 * failed, den |-> IF s.completed > 0 THEN s.completed ELSE 1]
          [] metric = "p95"                -> whole(s.p95)
          [] metric = "completed_rps"      -> whole(s.rps)
          [] metric = "completed_requests" -> whole(s.completed)
          [] metric = "failed_requests"    -> whole(failed)
          [] metric = "dropped_requests"   -> whole(s.dropped)
          [] metric = "max_in_flight"      -> whole(plan.load.inFlight)

\* Latencies are compared in microseconds.
Scale(unit) == IF unit = "s" THEN 1000000 ELSE IF unit = "ms" THEN 1000 ELSE 1
TargetValue(t) == t.target * Scale(t.unit)

compareValues(observed, target, op) ==
    CASE op = "<"  -> observed.num <  target * observed.den
      [] op = "<=" -> observed.num <= target * observed.den
      [] op = ">"  -> observed.num >  target * observed.den
      [] op = ">=" -> observed.num >= target * observed.den
      [] op = "==" -> observed.num =  target * observed.den
      [] op = "!=" -> observed.num #  target * observed.den

\* A step that recorded nothing is judged by zeros.
EvaluateWithSteps(plan, root, steps) ==
    [t \in plan.thresholds |->
        LET s == IF t.step = "" THEN root ELSE IF t.step \in DOMAIN steps THEN steps[t.step] ELSE Zero
        IN  compareValues(extractObserved(t.metric, s, plan), TargetValue(t), t.op)]

\* The measured segments, where the run has them
evaluationAggregate_Overall(a) == IF a = None THEN Zero ELSE a.overall
evaluationAggregate(a) ==
    IF a = None THEN Zero ELSE IF a.measured # None THEN a.measured ELSE a.overall

evaluationSteps(a) == IF a = None \/ a.measured # None THEN <<>> ELSE a.steps

Expected(s, treat429) == s.success + (IF treat429 THEN s.limited ELSE 0)

Results(a, plan) == EvaluateWithSteps(plan, evaluationAggregate(a), evaluationSteps(a))

Verdict(a, plan) ==
    IF plan.thresholds # {}
    THEN IF \A t \in plan.thresholds : Results(a, plan)[t] THEN "none" ELSE "threshold"
    ELSE IF Expected(evaluationAggregate(a), plan.treat429) < evaluationAggregate(a).completed THEN "failed" ELSE "none"

-----------------------------------------------------------------------------
(* What the scheduler may return for a plan                                 *)

AtMost(s, t) == \A f \in {"completed", "success", "limited", "dropped"} : s[f] <= t[f]

Aggregates(plan) ==
    {[overall |-> o, measured |-> m, steps |-> f] :
        o \in Snapshots,
        m \in IF plan.load.model = "open" THEN Snapshots ELSE {None},
        f \in UNION {[names -> Snapshots] : names \in
                        IF plan.scenario.given
                        THEN SUBSET {plan.scenario.steps[i].name : i \in DOMAIN plan.scenario.steps} ELSE {{}}}}

Possible(a) ==
    /\ a.measured # None => AtMost(a.measured, a.overall)
    /\ \A n \in DOMAIN a.steps : AtMost(a.steps[n], a.overall)

-----------------------------------------------------------------------------

NoRequest == [url |-> NoURL, method |-> "", limit |-> "", sound |-> TRUE]

NoLoad == [model |-> "", rate |-> 0, unit |-> 0, inFlight |-> 0, duration |-> 0,
           users |-> 0, thinkTime |-> 0, segments |-> <<>>]

\* The configuration of a command without a file
EmptyConfig ==
    [schema |-> 1, request |-> NoRequest, scenario |-> [given |-> FALSE, steps |-> <<>>], load |-> NoLoad,
     thresholds |-> {}, auth |-> TRUE, hosts |-> {}, nonIdempotent |-> FALSE, treat429 |-> FALSE]

Init ==
    /\ pc = "start" /\ flags \in CommandLines
    /\ file \in IF flags.file THEN Files ELSE {EmptyConfig}
    /\ cfg = EmptyConfig /\ canceled = FALSE /\ sent = FALSE /\ agg = None /\ incomplete = FALSE
    /\ inputs \in IF flags.command = "compare" THEN UNION {[1..n -> Archive] : n \in {0, 2}} ELSE {<<>>}
    /\ printed = FALSE /\ written = NoFile /\ result = None /\ err = "none"

Goto(label) ==
    /\ pc' = label
    /\ UNCHANGED <<flags, file, canceled, inputs, result, err>>

Exit(e) ==
    /\ pc' = "done" /\ err' = e
    /\ UNCHANGED <<flags, file, cfg, canceled, sent, agg, incomplete, inputs>>

Return(e) == Exit(e) /\ UNCHANGED <<printed, written, result>>

\* The command line does not parse: RunE is not reached.
ParseFails == pc = "start" /\ Return("usage")

Runs == flags.command \in {"run", "validate"}

\* The file cannot be read, expanded or decoded.
LoadFails == pc = "start" /\ Runs /\ flags.file /\ Return("config")

Load ==
    /\ pc = "start" /\ Runs
    /\ IF IF flags.file THEN ValidateConfig(file) ELSE flags.url # NoURL
       THEN /\ cfg' = IF flags.file THEN Normalize(file) ELSE EmptyConfig
            /\ Goto("override")
            /\ UNCHANGED runVars
       ELSE Return("config")

ApplyOverrides ==
    /\ pc = "override"
    /\ IF Overridable(cfg, flags) /\ ValidateConfig(Override(cfg, flags))
       THEN /\ cfg' = ApplyCLIOverrides(cfg, flags)
            /\ Goto("preflight")
            /\ UNCHANGED runVars
       ELSE Return("config")

Preflight ==
    /\ pc = "preflight"
    /\ IF Check(cfg, flags)
       THEN Goto("plan") /\ UNCHANGED <<cfg, sent, agg, incomplete, printed, written>>
       ELSE Return("safety")

LookupFails ==
    /\ pc = "preflight" /\ Check(cfg, flags)
    /\ \E t \in Targets(cfg) : t.url \in Hosts \ Addresses
    /\ Return("safety")

Plan ==
    /\ pc = "plan"
    /\ IF ~BuildPlanSucceeds(cfg) THEN Return("plan")
       ELSE IF flags.command = "validate" \/ flags.dryRun THEN Return("none")
       ELSE Goto("run") /\ UNCHANGED <<cfg, sent, agg, incomplete, printed, written>>

\* The checks of NewClosedScheduler and NewOpenScheduler
Schedulable(plan) ==
    \/ plan.load.model = "closed" /\ plan.load.users > 0 /\ plan.load.duration > 0
    \/ /\ plan.load.model = "open" /\ plan.load.unit > 0 /\ plan.load.inFlight > 0
       /\ EffectiveDuration(plan.load) > 0

Start ==
    /\ pc = "run"
    /\ IF Schedulable(cfg)
       THEN sent' = TRUE /\ Goto("running") /\ UNCHANGED <<cfg, agg, incomplete, printed, written>>
       ELSE Return("scheduler")

\* A run that is canceled returns its metrics and no error.
Incomplete_OnError(a) == a = None
Incomplete(a) == a = None \/ canceled

RunReturns ==
    /\ pc = "running"
    /\ \E a \in {b \in Aggregates(cfg) : Possible(b)} \cup {None} :
           agg' = a /\ incomplete' = Incomplete(a)
    /\ Goto("report") /\ UNCHANGED <<cfg, sent, printed, written>>

PrintReport ==
    /\ pc = "report"
    /\ printed' = TRUE
    /\ Goto(IF flags.json THEN "write" ELSE "verdict")
    /\ UNCHANGED <<cfg, sent, agg, incomplete, written>>

WriteReport ==
    /\ pc = "write"
    /\ \E d \in Durations : written' = BuildReport(cfg, agg, incomplete, Results(agg, cfg), d)
    /\ Goto("verdict") /\ UNCHANGED <<cfg, sent, agg, incomplete, printed>>

\* The directory or the file cannot be made, or the file is written in part.
WriteFails ==
    /\ pc = "write" /\ Exit("output")
    /\ written' \in {NoFile, Unreadable}
    /\ UNCHANGED <<printed, result>>

Outcome(a, partial, plan) ==
    IF a = None THEN "run" ELSE IF partial THEN "incomplete" ELSE Verdict(a, plan)

Judge == pc = "verdict" /\ Return(Outcome(agg, incomplete, cfg))

\* What a run with --output-json leaves behind
Archived(plan, a, partial, duration) ==
    [report |-> BuildReport(plan, a, partial, Results(a, plan), duration),
     code |-> DetermineExitCode(Outcome(a, partial, plan))]

\* What compare is given was written by a run, or is no report.
ASSUME ArchiveAssumption ==
    \A x \in Archive :
        \/ x = [report |-> Unreadable, code |-> 3]
        \/ LET plan == x.report.fingerprint
           IN  /\ plan \in Configs /\ Valid(plan) /\ x.report.compiled \in Seq(CompiledParts)
               /\ \E a \in Aggregates(plan) \cup {None}, partial \in BOOLEAN, d \in Durations :
                      (a = None => partial) /\ x = Archived(plan, a, partial, d)

-----------------------------------------------------------------------------
(* compare, doctor and self-test                                            *)

CompareReports ==
    /\ pc = "start" /\ flags.command = "compare"
    /\ IF Len(inputs) = 2 /\ \A i \in DOMAIN inputs : Loadable(inputs[i].report)
       THEN /\ result' = Compare(inputs[1].report, inputs[2].report) /\ printed' = TRUE
            /\ Exit("none") /\ UNCHANGED written
       ELSE Return("config")

\* RunDiagnostics: the checks run one after the other; the loop over their
\* results stops at the first failure.
OverallStatus(checks) ==
    LET upTo[i \in 0..Len(checks)] ==
            IF i = 0 THEN "PASS"
            ELSE IF upTo[i - 1] = "FAIL" \/ checks[i] = "FAIL" THEN "FAIL"
            ELSE IF checks[i] = "WARN" THEN "WARN" ELSE upTo[i - 1]
    IN  upTo[Len(checks)]

Doctor ==
    /\ pc = "start" /\ flags.command = "doctor"
    /\ \E checks \in [1..5 -> {"PASS", "WARN", "FAIL"}] :
           /\ result' = checks /\ printed' = TRUE /\ UNCHANGED written
           /\ Exit(IF OverallStatus(checks) = "FAIL" THEN "doctor" ELSE "none")

\* The five subtests run one after the other: a closed and an open run, a
\* scenario (its metrics here: completed iterations), and two that always
\* have the same result on the same build.  A run that fails has no metrics.
ClosedPasses(s) == s # None /\ s.completed > 0 /\ s.success = s.completed
OpenPasses(s, anyCanceled) == s # None /\ (s.completed + s.dropped > 0 \/ anyCanceled)
\* (A completed iteration has recorded all of the scenario's steps.)
ScenarioPasses(s) == s # None /\ s.completed > 0

SelfTest ==
    /\ pc = "start" /\ flags.command = "self-test"
    /\ \E closed, open, scenario \in Snapshots \cup {None}, anyCanceled, rest \in BOOLEAN :
           /\ result' = [closed |-> closed, open |-> open, scenario |-> scenario, rest |-> rest]
           /\ printed' = TRUE /\ UNCHANGED written
           /\ Exit(IF ClosedPasses(closed) /\ OpenPasses(open, anyCanceled) /\ ScenarioPasses(scenario) /\ rest
                    THEN "none" ELSE "self-test")

\* The caller of ExecuteContext cancels its context.
Cancel ==
    /\ ~canceled /\ pc # "done"
    /\ canceled' = TRUE
    /\ UNCHANGED <<pc, flags, file, cfg, runVars, inputs, result, err>>

Done == pc = "done" /\ UNCHANGED vars

Next ==
    \/ ParseFails \/ LoadFails \/ Load \/ ApplyOverrides \/ Preflight \/ LookupFails \/ Plan
    \/ Start \/ RunReturns \/ PrintReport \/ WriteReport \/ WriteFails \/ Judge
    \/ CompareReports \/ Doctor \/ SelfTest \/ Cancel \/ Done

Spec == Init /\ [][Next]_vars

-----------------------------------------------------------------------------
(* Properties                                                               *)

\* Every request of a started run is cleared (run.go:48, preflight.go:97):
\* the host of every target was listed in the file or on the command line,
\* or is this machine's in an ad-hoc run; and a destructive method was
\* authorised by the file or on the command line.
TrafficIsCleared ==
    sent =>
        \A t \in IF cfg.scenario.given
                 THEN {[url |-> s.url, method |-> s.method] : s \in {cfg.scenario.steps[i] : i \in DOMAIN cfg.scenario.steps}}
                 ELSE {[url |-> cfg.request.url, method |-> cfg.request.method]} :
            /\ t.url \in Hosts =>
                   t.url \in IF flags.hosts # {} THEN flags.hosts ELSE IF flags.file THEN file.hosts ELSE Loopback
            /\ t.method \in Destructive => file.nonIdempotent \/ flags.allowDestructive

\* The total duration of a source profile
SourceDuration(source) ==
    LET upTo[i \in 0..Len(source)] == IF i = 0 THEN 0 ELSE upTo[i - 1] + source[i].duration
    IN  upTo[Len(source)]

\* What is validated can be scheduled (run.go:71-85, compiler.go:13): no
\* scheduler refuses a plan that BuildPlan made, and the compiled segments of
\* an open plan are adjacent, in the order of the stages, each with a positive
\* length and interval, and together exactly as long as the source profile.
PlanIsSchedulable ==
    /\ err # "scheduler"
    /\ sent /\ cfg.load.model = "open" =>
        LET c == Compile(Source(cfg.load), cfg.load.unit)
        IN  /\ c[1].start = 0 /\ c[Len(c)].end = SourceDuration(Source(cfg.load))
            /\ \A i \in DOMAIN c : c[i].start < c[i].end /\ c[i].interval > 0
            /\ \A i \in 1..(Len(c) - 1) : c[i].end = c[i + 1].start /\ Rank(c[i].stage) <= Rank(c[i + 1].stage)

\* An exit code says what happened (exitcode.go:8-23): 2 and 4 mean that
\* nothing was sent; 0 and 1 are given to a plan that was only shown or to a
\* run whose report was delivered; without thresholds they tell whether every
\* request that the measured part of the run completed was expected, and 0
\* is never given to a run whose measured error rate is above the threshold on it,
\* to a machine of which a check failed (doctor/runner.go:33), whatever the
\* later ones said, or to a build whose closed self-test lost a request.  The
\* report file of a judged run, and of no other, can be compared: one of a run
\* that was canceled or failed, and one whose writing was cut short, is refused
\* by every later comparison (json.go:10, compare.go:37).
CodeIsTruthful ==
    pc = "done" =>
        /\ code = 0 /\ flags.command = "doctor" => \A i \in DOMAIN result : result[i] # "FAIL"
        /\ code = 0 /\ flags.command = "self-test" => result.rest /\ result.closed.completed = result.closed.success
        /\ code \in {2, 4} => ~sent
        /\ code = 1 => sent
        /\ written # NoFile => (Loadable(written) <=> code \in {0, 1})
        /\ code \in {0, 1} /\ sent =>
               /\ printed /\ (flags.json => written # NoFile)
               /\ LET s == IF cfg.load.model = "open" THEN agg.measured ELSE agg.overall
                  IN  /\ cfg.thresholds = {} =>
                             (code = 0 <=> s.completed = s.success + (IF cfg.treat429 THEN s.limited ELSE 0))
                      /\ \A t \in cfg.thresholds :
                             code = 0 /\ t.step = "" /\ t.metric = "http_error_rate" /\ t.op = "<=" =>
                                 100 * (s.completed - s.success) <= t.target * s.completed

\* A run whose context was canceled while it ran is never a verdict
\* (run.go:88, 130): whatever its metrics say, and whatever happens to its
\* report, it ends as a runtime failure.
CanceledIsNoVerdict == [](pc = "running" /\ canceled => [](pc = "done" => code = 3))

\* --flag > file > default (precedence.go:31): a flag that was given is in the
\* plan of a started run, or the command was refused, with the exception of
\* --method and --response-body-limit for a scenario: there the steps are those
\* of the file, whatever the flags, as precedence.go:44 and 88 write to
\* cfg.Request only, which a scenario does not send (the comment at
\* precedence.go:31 knows no such exception).  And a file runs as it is written
\* (precedence.go:105-130): without a flag that overrides it, a valid file is
\* not refused after the first validation and none of the defaults of an ad-hoc
\* run reaches it.
PrecedenceHolds ==
    LET plain == /\ flags.file /\ flags.url = NoURL /\ flags.method = "" /\ flags.model = "" /\ flags.limit = ""
                 /\ {flags.rate, flags.unit, flags.users, flags.duration, flags.inFlight} = {0}
                 /\ flags.hosts = {} /\ ~flags.allowDestructive
    IN  /\ sent =>
              /\ flags.url # NoURL => cfg.request.url = flags.url
              /\ flags.model # "" => cfg.load.model = flags.model
              /\ flags.rate > 0 => cfg.load.rate = flags.rate
              /\ flags.unit > 0 => cfg.load.unit = flags.unit
              /\ flags.users > 0 => cfg.load.users = flags.users
              /\ flags.duration > 0 => EffectiveDuration(cfg.load) = flags.duration
              /\ flags.inFlight > 0 => cfg.load.inFlight = flags.inFlight
              /\ flags.hosts # {} => cfg.hosts = flags.hosts
              /\ flags.allowDestructive => cfg.nonIdempotent
              /\ IF cfg.scenario.given
                 THEN cfg.scenario.steps = Normalize(file).scenario.steps
                 ELSE /\ flags.method # "" => cfg.request.method = flags.method
                      /\ flags.limit # "" => cfg.request.limit = flags.limit
        /\ plain =>
              /\ pc \in {"preflight", "plan", "run", "running", "report", "write", "verdict"} =>
                     cfg.load = Normalize(file).load /\ cfg.hosts = file.hosts
              /\ ~(pc = "done" /\ err = "config" /\ cfg # EmptyConfig)

Worsened(t) == Change(t, "pass-to-fail")

\* A comparison tells what became of the verdict (compare.go:72): it is only
\* made between two judged runs; of two runs of one configuration with
\* thresholds of which the first passed, the second failed exactly if some
\* threshold is listed as pass-to-fail; a report compared with itself shows
\* nothing; and the reverse comparison shows the opposite.
ComparisonTellsTheVerdict ==
    flags.command = "compare" /\ result # None =>
        LET b == inputs[1]
            c == inputs[2]
            reverse == Compare(c.report, b.report)
        IN  /\ b.code \in {0, 1} /\ c.code \in {0, 1}
            /\ b.report.fingerprint = c.report.fingerprint /\ b.report.thresholds # <<>> =>
                   (b.code = 0 => (c.code = 1 <=> \E t \in DOMAIN c.report.thresholds : Worsened(t) \in result.changes))
            /\ b = c => result.warnings = {} /\ result.changes = {} /\ \A n \in DOMAIN result.deltas : result.deltas[n].absolute = 0
            /\ \A n \in DOMAIN result.deltas : result.deltas[n].absolute = -reverse.deltas[n].absolute
            /\ \A t \in DOMAIN b.report.thresholds : Worsened(t) \in result.changes <=> Change(t, "fail-to-pass") \in reverse.changes
            /\ result.warnings = reverse.warnings

=============================================================================
