-------------------------- MODULE RunCommand_proofs --------------------------
(***************************************************************************)
(* What the commands promise, for every file, command line and outcome of  *)
(* a run.  The configuration at a step is a function of the file and the   *)
(* flags: that is the core of the inductive invariant, and the safety      *)
(* properties follow from what validation and preflight said of it.        *)
(***************************************************************************)
EXTENDS RunCommand, Sums_proofs, SequenceTheorems, TLAPS

Labels == {"start", "override", "preflight", "plan", "run", "running", "report", "write", "verdict", "done"}
Running == {"running", "report", "write", "verdict"}

\* What ApplyCLIOverrides is given
Base == IF flags.file THEN Normalize(file) ELSE EmptyConfig

Loaded == IF flags.file THEN ValidateConfig(file) ELSE flags.url # NoURL

Overridden ==
    /\ Loaded /\ Overridable(Base, flags) /\ ValidateConfig(Override(Base, flags))
    /\ cfg = ApplyCLIOverrides(Base, flags)

\* Where the configuration comes from, and what was checked of it
PlanInv ==
    /\ pc \in Labels
    /\ flags \in Flags /\ file \in Configs /\ (~flags.file => file = EmptyConfig)
    /\ pc \notin {"start", "done"} => Runs
    /\ pc = "start" => cfg = EmptyConfig
    /\ pc = "override" => Loaded /\ cfg = Base
    /\ pc \in {"preflight", "plan", "run"} \/ sent => Overridden
    /\ pc \in {"plan", "run"} \/ sent => Check(cfg, flags)
    /\ pc \notin {"done"} \cup Running => ~sent
    /\ pc \in Running => sent
    /\ sent \in BOOLEAN

LEMMA Literals == "" \in Text /\ "GET" \in Text /\ "open" \in Text /\ "closed" \in Text /\ "measured" \in Text
BY TextAssumption

LEMMA EmptyIsConfig == EmptyConfig \in Configs
<1>1. NoRequest \in Requests
  BY Literals DEF NoRequest, Requests, Limits, Sizes, Urls, NoURL
<1>2. NoLoad \in Loads
  <2>1. <<>> \in Seq(Segments)
    OBVIOUS
  <2> DEFINE empty == ""
  <2>2. empty \in Text
    BY Literals
  <2> HIDE DEF empty
  <2>3. [model |-> empty, rate |-> 0, unit |-> 0, inFlight |-> 0, duration |-> 0,
         users |-> 0, thinkTime |-> 0, segments |-> <<>>] \in Loads
    BY <2>1, <2>2 DEF Loads
  <2> QED
    BY <2>3 DEF NoLoad, empty
<1>3. <<>> \in Seq(Steps)
  OBVIOUS
<1> QED
  BY <1>1, <1>2, <1>3 DEF EmptyConfig, Configs

\* The steps that end the command or only move it on
LEMMA PlanInit == Init => PlanInv
BY RunCommandAssumption, EmptyIsConfig DEF Init, PlanInv, Labels, Running

LEMMA PlanNext == PlanInv /\ [Next]_vars => PlanInv'
<1> SUFFICES ASSUME PlanInv, [Next]_vars PROVE PlanInv'
  OBVIOUS
<1>1. CASE ParseFails \/ LoadFails
  BY <1>1 DEF PlanInv, Labels, Running, ParseFails, LoadFails, Return, Exit, Runs, Overridden, Base, Loaded
<1>2. CASE Load
  BY <1>2 DEF PlanInv, Labels, Running, Load, Goto, runVars, Return, Exit, Runs, Overridden, Base, Loaded
<1>3. CASE ApplyOverrides
  BY <1>3 DEF PlanInv, Labels, Running, ApplyOverrides, Goto, runVars, Return, Exit, Runs, Overridden, Base, Loaded
<1>4. CASE Preflight \/ LookupFails
  BY <1>4 DEF PlanInv, Labels, Running, Preflight, LookupFails, Goto, runVars, Return, Exit, Runs, Overridden, Base, Loaded
<1>5. CASE Plan
  BY <1>5 DEF PlanInv, Labels, Running, Plan, Goto, runVars, Return, Exit, Runs, Overridden, Base, Loaded
<1>6. CASE Start
  BY <1>6 DEF PlanInv, Labels, Running, Start, Goto, runVars, Return, Exit, Runs, Overridden, Base, Loaded
<1>7. CASE RunReturns \/ PrintReport \/ WriteReport
  BY <1>7 DEF PlanInv, Labels, Running, RunReturns, PrintReport, WriteReport, Goto, runVars, Return, Exit, Runs, Overridden, Base, Loaded
<1>8. CASE WriteFails \/ Judge \/ CompareReports \/ Doctor \/ SelfTest
  BY <1>8 DEF PlanInv, Labels, Running, WriteFails, Judge, CompareReports, Doctor, SelfTest, Return, Exit, Runs, Overridden, Base, Loaded
<1>9. CASE Cancel \/ Done \/ UNCHANGED vars
  BY <1>9 DEF PlanInv, Labels, Running, Cancel, Done, vars, runVars, Runs, Overridden, Base, Loaded
<1> QED
  BY <1>1, <1>2, <1>3, <1>4, <1>5, <1>6, <1>7, <1>8, <1>9 DEF Next

THEOREM PlanInvariant == Spec => []PlanInv
BY PlanInit, PlanNext, PTL DEF Spec

-----------------------------------------------------------------------------
(* What the defaults and the flags change                                   *)

\* Normalize only fills in the body limits, the methods of the steps and the
\* time unit of an open load.
LEMMA DefaultsKeepTypes ==
  /\ \A r \in Requests : DefaultRequest(r) \in Requests /\ DefaultRequest(r).url = r.url
  /\ \A s \in Steps : DefaultStep(s) \in Steps /\ DefaultStep(s).url = s.url
  /\ \A l \in Loads : DefaultUnit(l) \in Loads
<1>1. \A l \in Limits : DefaultLimit(l) \in Limits
  BY DEF DefaultLimit, Limits, Sizes
<1>2. \A r \in Requests : DefaultRequest(r) \in Requests /\ DefaultRequest(r).url = r.url
  BY <1>1 DEF DefaultRequest, Requests
<1>3. \A s \in Steps : DefaultStep(s) \in Steps /\ DefaultStep(s).url = s.url
  BY <1>1, Literals DEF DefaultStep, Steps
<1>4. ASSUME NEW l \in Loads PROVE DefaultUnit(l) \in Loads
  <2>1. Second \in Int
    BY SecondAssumption
  <2>2. [l EXCEPT !.unit = Second] \in Loads
    BY <2>1 DEF Loads
  <2> QED
    BY <2>2 DEF DefaultUnit
<1> QED
  BY <1>2, <1>3, <1>4

LEMMA NormalizeKeeps ==
  ASSUME NEW c \in Configs
  PROVE  /\ Normalize(c) \in Configs
         /\ Normalize(c).schema = c.schema /\ Normalize(c).thresholds = c.thresholds /\ Normalize(c).auth = c.auth
         /\ Normalize(c).hosts = c.hosts /\ Normalize(c).nonIdempotent = c.nonIdempotent /\ Normalize(c).treat429 = c.treat429
         /\ Normalize(c).request = DefaultRequest(c.request)
         /\ Normalize(c).scenario.given = c.scenario.given
         /\ Normalize(c).scenario.steps = [i \in DOMAIN c.scenario.steps |-> DefaultStep(c.scenario.steps[i])]
         /\ Normalize(c).load = DefaultUnit(c.load)
<1> DEFINE steps == [i \in DOMAIN c.scenario.steps |-> DefaultStep(c.scenario.steps[i])]
           scenario == [c.scenario EXCEPT !.steps = steps]
<1>0. /\ DOMAIN c = {"schema", "request", "scenario", "load", "thresholds", "auth", "hosts", "nonIdempotent", "treat429"}
      /\ c.request \in Requests /\ c.scenario \in [given : BOOLEAN, steps : Seq(Steps)] /\ c.load \in Loads
  BY DEF Configs
<1>1. Normalize(c) = [c EXCEPT !.request = DefaultRequest(c.request), !.scenario = scenario, !.load = DefaultUnit(c.load)]
  BY <1>0 DEF Normalize
<1>2. steps \in Seq(Steps)
  <2>1. c.scenario.steps \in Seq(Steps)
    BY <1>0
  <2>2. \A i \in DOMAIN c.scenario.steps : steps[i] \in Steps
    BY <2>1, DefaultsKeepTypes
  <2>3. Len(c.scenario.steps) \in Nat /\ DOMAIN c.scenario.steps = 1..Len(c.scenario.steps)
    BY <2>1
  <2> HIDE DEF steps
  <2>4. DOMAIN steps = 1..Len(c.scenario.steps) /\ steps = [i \in 1..Len(c.scenario.steps) |-> steps[i]]
    BY <2>3 DEF steps
  <2> QED
    BY <2>2, <2>3, <2>4
<1>3. scenario \in [given : BOOLEAN, steps : Seq(Steps)] /\ scenario.given = c.scenario.given /\ scenario.steps = steps
  BY <1>0, <1>2
<1> HIDE DEF scenario, steps
<1>4. DefaultRequest(c.request) \in Requests /\ DefaultUnit(c.load) \in Loads
  BY <1>0, DefaultsKeepTypes
<1>5. /\ Normalize(c) \in Configs
      /\ Normalize(c).schema = c.schema /\ Normalize(c).thresholds = c.thresholds /\ Normalize(c).auth = c.auth
      /\ Normalize(c).hosts = c.hosts /\ Normalize(c).nonIdempotent = c.nonIdempotent /\ Normalize(c).treat429 = c.treat429
      /\ Normalize(c).request = DefaultRequest(c.request) /\ Normalize(c).scenario = scenario
      /\ Normalize(c).load = DefaultUnit(c.load)
  BY <1>1, <1>3, <1>4 DEF Configs
<1> QED
  BY <1>3, <1>5 DEF steps

LEMMA OverrideLoadTypes ==
  ASSUME NEW l \in Loads, NEW f \in Flags
  PROVE  SwitchModel(l, f.model) \in Loads /\ OverrideLoad(l, f) \in Loads
<1>1. /\ f.model \in Text /\ f.rate \in Int /\ f.unit \in Int /\ f.users \in Int /\ f.duration \in Int /\ f.inFlight \in Int
  BY DEF Flags
<1>2. SwitchModel(l, f.model) \in Loads
  <2>0. 0 \in Int
    OBVIOUS
  <2>1. <<>> \in Seq(Segments)
    OBVIOUS
  <2> DEFINE m == f.model
  <2>2. m \in Text
    BY <1>1
  <2> HIDE DEF m
  <2>3. ASSUME NEW z \in Int PROVE [l EXCEPT !.model = m, !.users = z, !.thinkTime = z] \in Loads
    BY <2>2 DEF Loads
  <2>4. [l EXCEPT !.model = m] \in Loads
    BY <2>2 DEF Loads
  <2>5. ASSUME NEW z \in Int, NEW e \in Seq(Segments)
        PROVE  [l EXCEPT !.model = m, !.rate = z, !.unit = z, !.inFlight = z, !.segments = e] \in Loads
    BY <2>2 DEF Loads
  <2>6. [l EXCEPT !.model = m, !.users = 0, !.thinkTime = 0] \in Loads
    BY <2>0, <2>3, Zenon
  <2>7. [l EXCEPT !.model = m, !.rate = 0, !.unit = 0, !.inFlight = 0, !.segments = <<>>] \in Loads
    BY <2>0, <2>1, <2>5, Zenon
  <2> DEFINE a == [l EXCEPT !.model = m, !.users = 0, !.thinkTime = 0]
             b == [l EXCEPT !.model = m, !.rate = 0, !.unit = 0, !.inFlight = 0, !.segments = <<>>]
             c == [l EXCEPT !.model = m]
  <2>8. SwitchModel(l, m) = CASE m = "open" -> a [] m = "closed" -> b [] m = "" -> l [] OTHER -> c
    BY DEF SwitchModel
  <2>9. a \in Loads /\ b \in Loads /\ c \in Loads
    BY <2>4, <2>6, <2>7
  <2> HIDE DEF a, b, c
  <2>10. SwitchModel(l, m) \in Loads
    BY <2>8, <2>9
  <2> QED
    BY <2>10 DEF m
<1>3. ASSUME NEW s \in Loads
      PROVE  [s EXCEPT !.rate = Given(f.rate, @), !.unit = Given(f.unit, @), !.users = Given(f.users, @),
                       !.duration = Given(f.duration, @), !.inFlight = Given(f.inFlight, @)] \in Loads
  BY <1>1 DEF Loads, Given
<1> QED
  BY <1>2, <1>3 DEF OverrideLoad

LEMMA DefaultLoadTypes ==
  ASSUME NEW l \in Loads
  PROVE  DefaultModel(l) \in Loads /\ DefaultDuration(l) \in Loads
<1> DEFINE open == "open"
           closed == "closed"
<1>1. open \in Text /\ closed \in Text
  BY Literals
<1>2. 10 * Second \in Int
  BY SecondAssumption
<1> HIDE DEF open, closed
<1>3. [l EXCEPT !.model = closed] \in Loads
  BY <1>1 DEF Loads
<1>4. [l EXCEPT !.model = open, !.rate = IF @ <= 0 THEN 1 ELSE @, !.inFlight = IF @ <= 0 THEN 10 ELSE @] \in Loads
  <2>1. ASSUME NEW x \in Int, NEW y \in Int PROVE [l EXCEPT !.model = open, !.rate = x, !.inFlight = y] \in Loads
    BY <1>1 DEF Loads
  <2>2. (IF l.rate <= 0 THEN 1 ELSE l.rate) \in Int /\ (IF l.inFlight <= 0 THEN 10 ELSE l.inFlight) \in Int
    BY DEF Loads
  <2> QED
    BY <2>1, <2>2
<1>5. [l EXCEPT !.duration = 10 * Second] \in Loads
  BY <1>2 DEF Loads
<1> QED
  BY <1>3, <1>4, <1>5 DEF DefaultModel, DefaultDuration, open, closed

\* The flags only reach the request, the load, the hosts and the authorisation.
LEMMA OverrideKeeps ==
  ASSUME NEW c \in Configs, NEW f \in Flags
  PROVE  /\ Override(c, f) \in Configs
         /\ Override(c, f).schema = c.schema /\ Override(c, f).thresholds = c.thresholds /\ Override(c, f).auth = c.auth
         /\ Override(c, f).treat429 = c.treat429 /\ Override(c, f).scenario = c.scenario
         /\ Override(c, f).request = OverrideRequest(c.request, f)
         /\ Override(c, f).load = DefaultDuration(DefaultModel(OverrideLoad(c.load, f)))
         /\ Override(c, f).hosts = OverrideHosts(c, f)
         /\ Override(c, f).nonIdempotent = (c.nonIdempotent \/ f.allowDestructive)
<1>1. /\ DOMAIN c = {"schema", "request", "scenario", "load", "thresholds", "auth", "hosts", "nonIdempotent", "treat429"}
      /\ c.request \in Requests /\ c.load \in Loads /\ c.hosts \in SUBSET Text
  BY DEF Configs
<1>2. OverrideRequest(c.request, f) \in Requests
  BY <1>1, Literals DEF OverrideRequest, Requests, Flags
<1>3. DefaultDuration(DefaultModel(OverrideLoad(c.load, f))) \in Loads
  BY <1>1, OverrideLoadTypes, DefaultLoadTypes
<1>4. OverrideHosts(c, f) \in SUBSET Text
  BY <1>1, TextAssumption DEF OverrideHosts, Flags
<1>5. (c.nonIdempotent \/ f.allowDestructive) \in BOOLEAN
  OBVIOUS
<1> DEFINE r == OverrideRequest(c.request, f)
           l == DefaultDuration(DefaultModel(OverrideLoad(c.load, f)))
           h == OverrideHosts(c, f)
           n == c.nonIdempotent \/ f.allowDestructive
<1>6. Override(c, f) = [c EXCEPT !.request = r, !.load = l, !.hosts = h, !.nonIdempotent = n]
  BY <1>1 DEF Override
<1>7. r \in Requests /\ l \in Loads /\ h \in SUBSET Text /\ n \in BOOLEAN
  BY <1>2, <1>3, <1>4, <1>5
<1> HIDE DEF r, l, h, n
<1>8. /\ Override(c, f) \in Configs
      /\ Override(c, f).schema = c.schema /\ Override(c, f).thresholds = c.thresholds /\ Override(c, f).auth = c.auth
      /\ Override(c, f).treat429 = c.treat429 /\ Override(c, f).scenario = c.scenario
      /\ Override(c, f).request = r /\ Override(c, f).load = l /\ Override(c, f).hosts = h /\ Override(c, f).nonIdempotent = n
  BY <1>6, <1>7 DEF Configs
<1> QED
  BY <1>8 DEF r, l, h, n

LEMMA BaseFacts ==
  ASSUME PlanInv
  PROVE  /\ Base \in Configs
         /\ Base.nonIdempotent = file.nonIdempotent
         /\ Base.hosts = file.hosts /\ (~flags.file => Base.hosts = {})
<1>1. file \in Configs /\ (~flags.file => file = EmptyConfig)
  BY DEF PlanInv
<1>2. EmptyConfig.hosts = {}
  BY DEF EmptyConfig
<1>3. CASE flags.file
  BY <1>1, <1>3, NormalizeKeeps DEF Base
<1>4. CASE ~flags.file
  BY <1>1, <1>2, <1>4 DEF Base
<1> QED
  BY <1>3, <1>4

\* What an overridden configuration is made of
LEMMA PlanFacts ==
  ASSUME PlanInv, Overridden
  PROVE  /\ Override(Base, flags) \in Configs /\ cfg \in Configs /\ Valid(cfg)
         /\ cfg.hosts = OverrideHosts(Base, flags)
         /\ cfg.nonIdempotent = (file.nonIdempotent \/ flags.allowDestructive)
         /\ cfg.thresholds = Base.thresholds
         /\ cfg.scenario.given = Base.scenario.given
         /\ cfg.scenario.steps = [i \in DOMAIN Base.scenario.steps |-> DefaultStep(Base.scenario.steps[i])]
         /\ cfg.request = DefaultRequest(OverrideRequest(Base.request, flags))
         /\ cfg.load = DefaultUnit(DefaultDuration(DefaultModel(OverrideLoad(Base.load, flags))))
<1>1. flags \in Flags
  BY DEF PlanInv
<1>2. /\ Override(Base, flags) \in Configs
      /\ Override(Base, flags).thresholds = Base.thresholds
      /\ Override(Base, flags).scenario = Base.scenario
      /\ Override(Base, flags).hosts = OverrideHosts(Base, flags)
      /\ Override(Base, flags).nonIdempotent = (Base.nonIdempotent \/ flags.allowDestructive)
      /\ Override(Base, flags).request = OverrideRequest(Base.request, flags)
      /\ Override(Base, flags).load = DefaultDuration(DefaultModel(OverrideLoad(Base.load, flags)))
  BY <1>1, BaseFacts, OverrideKeeps
<1>3. cfg = Normalize(Override(Base, flags)) /\ Valid(Normalize(Override(Base, flags)))
  BY DEF Overridden, ApplyCLIOverrides, ValidateConfig
<1> QED
  BY <1>2, <1>3, BaseFacts, NormalizeKeeps

\* The scheduler is only started on what the preflight cleared, and the hosts and
\* the authorisation it was cleared by come from the file and the flags: see
\* TrafficIsCleared (preflight.go:97, precedence.go:94).
THEOREM TrafficCleared == Spec => []TrafficIsCleared
<1>1. ASSUME PlanInv PROVE TrafficIsCleared
  <2> SUFFICES ASSUME sent PROVE TrafficIsCleared
    BY DEF TrafficIsCleared
  <2>1. Check(cfg, flags) /\ Overridden
    BY <1>1 DEF PlanInv
  <2>2. /\ cfg.hosts = OverrideHosts(Base, flags)
        /\ cfg.nonIdempotent = (file.nonIdempotent \/ flags.allowDestructive)
    BY <1>1, <2>1, PlanFacts
  <2>3. \A h \in cfg.hosts : h \in IF flags.hosts # {} THEN flags.hosts ELSE IF flags.file THEN file.hosts ELSE Loopback
    BY <1>1, <2>2, BaseFacts DEF OverrideHosts
  <2>4. \A h \in Hosts : h # "hostless"
    BY TextAssumption
  <2>5. ASSUME NEW t \in Targets(cfg)
        PROVE  /\ t.url \in Hosts =>
                      t.url \in IF flags.hosts # {} THEN flags.hosts ELSE IF flags.file THEN file.hosts ELSE Loopback
               /\ t.method \in Destructive => file.nonIdempotent \/ flags.allowDestructive
    BY <2>1, <2>2, <2>3, <2>4 DEF Check
  <2>6. Targets(cfg) = IF cfg.scenario.given
                 THEN {[url |-> s.url, method |-> s.method] : s \in {cfg.scenario.steps[i] : i \in DOMAIN cfg.scenario.steps}}
                 ELSE {[url |-> cfg.request.url, method |-> cfg.request.method]}
    BY DEF Targets
  <2> QED
    BY <2>5, <2>6 DEF TrafficIsCleared
<1> QED
  BY <1>1, PlanInvariant, PTL

-----------------------------------------------------------------------------
(* Cancellation                                                             *)

\* Once its context is canceled while it runs, a run can only end as a failure.
Doomed ==
    /\ canceled
    /\ \/ pc = "running"
       \/ pc \in {"report", "write", "verdict"} /\ incomplete
       \/ pc = "done" /\ err \in {"run", "incomplete", "output"}

LEMMA DoomedNext == Doomed /\ [Next]_vars => Doomed'
<1> SUFFICES ASSUME Doomed, [Next]_vars PROVE Doomed'
  OBVIOUS
<1>1. pc \in {"running", "report", "write", "verdict", "done"} /\ canceled
  BY DEF Doomed
<1>2. CASE RunReturns
  BY <1>1, <1>2 DEF Doomed, RunReturns, Goto, Incomplete
<1>3. CASE PrintReport \/ WriteReport
  BY <1>1, <1>3 DEF Doomed, PrintReport, WriteReport, Goto
<1>4. CASE WriteFails
  BY <1>1, <1>4 DEF Doomed, WriteFails, Exit
<1>5. CASE Judge
  BY <1>1, <1>5 DEF Doomed, Judge, Return, Exit, Outcome
<1>6. CASE Cancel \/ Done \/ UNCHANGED vars
  BY <1>1, <1>6 DEF Doomed, Cancel, Done, vars, runVars
<1>7. ~(ParseFails \/ LoadFails \/ Load \/ ApplyOverrides \/ Preflight \/ LookupFails \/ Plan \/ Start
        \/ CompareReports \/ Doctor \/ SelfTest)
  BY <1>1 DEF ParseFails, LoadFails, Load, ApplyOverrides, Preflight, LookupFails, Plan, Start, CompareReports, Doctor, SelfTest
<1> QED
  BY <1>2, <1>3, <1>4, <1>5, <1>6, <1>7 DEF Next

\* Whatever its metrics say and whatever becomes of its report, a run that is
\* canceled while it runs ends with exit code 3 (run.go:88, 130).
THEOREM CanceledFails == Spec => CanceledIsNoVerdict
<1>1. pc = "running" /\ canceled => Doomed
  BY DEF Doomed
<1>2. Doomed => (pc = "done" => code = 3)
  BY DEF Doomed, code, DetermineExitCode
<1> QED
  BY <1>1, <1>2, DoomedNext, PTL DEF Spec, CanceledIsNoVerdict

-----------------------------------------------------------------------------
(* Exit codes                                                               *)

Delivered ==
    /\ printed
    /\ flags.json => \E d \in Durations : written = BuildReport(cfg, agg, incomplete, Results(agg, cfg), d)
    /\ ~flags.json => written = NoFile

Returned == agg \in Aggregates(cfg) \cup {None} /\ (agg = None => incomplete) /\ incomplete \in BOOLEAN

\* How a command comes to its error, and what it leaves behind
CodeInv ==
    /\ pc # "done" => err = "none"
    /\ pc \notin {"verdict", "done"} => written = NoFile
    /\ pc \in {"report", "write", "verdict"} => Returned
    /\ pc = "write" => printed /\ flags.json
    /\ pc = "verdict" => Delivered
    /\ pc = "done" /\ ~sent =>
           written = NoFile /\ err \in {"none", "usage", "config", "safety", "plan", "scheduler", "doctor", "self-test"}
    /\ pc = "done" /\ sent =>
           \/ err = "output" /\ written \in {NoFile, Unreadable}
           \/ err = Outcome(agg, incomplete, cfg) /\ Returned /\ Delivered
    /\ pc = "done" /\ err = "none" /\ flags.command = "doctor" =>
           result \in [1..5 -> {"PASS", "WARN", "FAIL"}] /\ OverallStatus(result) # "FAIL"
    /\ pc = "done" /\ err = "none" /\ flags.command = "self-test" => result.rest /\ ClosedPasses(result.closed)

LEMMA CodeInit == Init => CodeInv
BY DEF Init, CodeInv

LEMMA CodeNext == PlanInv /\ CodeInv /\ [Next]_vars => CodeInv'
<1> SUFFICES ASSUME PlanInv, CodeInv, [Next]_vars PROVE CodeInv'
  OBVIOUS
<1>0. /\ pc \in Labels /\ sent \in BOOLEAN
      /\ pc \notin {"start", "done"} => flags.command \notin {"doctor", "self-test"}
      /\ pc \notin {"done"} \cup Running => ~sent
      /\ pc \in Running => sent
  BY DEF PlanInv, Runs
<1> USE <1>0 DEF CodeInv, Labels, Running, Goto, Return, Exit, runVars
<1>1. CASE ParseFails \/ LoadFails
  BY <1>1 DEF ParseFails, LoadFails, Runs
<1>2. CASE Load \/ ApplyOverrides
  BY <1>2 DEF Load, ApplyOverrides, Runs
<1>3. CASE Preflight \/ LookupFails
  BY <1>3 DEF Preflight, LookupFails
<1>4. CASE Plan \/ Start
  BY <1>4 DEF Plan, Start
<1>5. CASE RunReturns
  <2>1. Returned'
    BY <1>5 DEF RunReturns, Returned, Incomplete
  <2> QED
    BY <1>5, <2>1 DEF RunReturns
<1>6. CASE PrintReport
  <2>1. Returned'
    BY <1>6 DEF PrintReport, Returned
  <2>2. ~flags.json => Delivered'
    BY <1>6 DEF PrintReport, Delivered
  <2> QED
    BY <1>6, <2>1, <2>2 DEF PrintReport
<1>7. CASE WriteReport
  <2>1. Returned'
    BY <1>7 DEF WriteReport, Returned
  <2>2. Delivered'
    BY <1>7 DEF WriteReport, Delivered
  <2> QED
    BY <1>7, <2>1, <2>2 DEF WriteReport
<1>8. CASE WriteFails
  BY <1>8 DEF WriteFails
<1>9. CASE Judge
  <2>1. Returned' /\ Delivered' /\ err' = Outcome(agg, incomplete, cfg)'
    BY <1>9 DEF Judge, Returned, Delivered
  <2> QED
    BY <1>9, <2>1 DEF Judge
<1>10. CASE CompareReports
  BY <1>10 DEF CompareReports
<1>11. CASE Doctor
  BY <1>11 DEF Doctor
<1>12. CASE SelfTest
  BY <1>12 DEF SelfTest
<1>13. CASE Cancel \/ Done \/ UNCHANGED vars
  <2>1. UNCHANGED <<pc, flags, cfg, runVars, result, err>>
    BY <1>13 DEF Cancel, Done, vars
  <2>2. (Returned => Returned') /\ (Delivered => Delivered') /\ Outcome(agg, incomplete, cfg)' = Outcome(agg, incomplete, cfg)
    BY <2>1 DEF Returned, Delivered
  <2> QED
    BY <2>1, <2>2
<1> QED
  BY <1>1, <1>2, <1>3, <1>4, <1>5, <1>6, <1>7, <1>8, <1>9, <1>10, <1>11, <1>12, <1>13 DEF Next

THEOREM CodeInvariant == Spec => []CodeInv
BY CodeInit, CodeNext, PlanInvariant, PTL DEF Spec

\* The loop over the five checks of doctor ends as FAIL if any of them failed.
LEMMA OverallFails ==
  ASSUME NEW checks \in [1..5 -> {"PASS", "WARN", "FAIL"}], OverallStatus(checks) # "FAIL"
  PROVE  \A i \in 1..5 : checks[i] # "FAIL"
<1> DEFINE After(before, check) == IF before = "FAIL" \/ check = "FAIL" THEN "FAIL" ELSE IF check = "WARN" THEN "WARN" ELSE before
           s1 == After("PASS", checks[1])
           s2 == After(s1, checks[2])
           s3 == After(s2, checks[3])
           s4 == After(s3, checks[4])
           s5 == After(s4, checks[5])
           Unfold(u) == [i \in 0..Len(checks) |->
                IF i = 0 THEN "PASS"
                ELSE IF u[i - 1] = "FAIL" \/ checks[i] = "FAIL" THEN "FAIL"
                ELSE IF checks[i] = "WARN" THEN "WARN" ELSE u[i - 1]]
           status == CHOOSE u : u = Unfold(u)
<1>1. Len(checks) = 5
  OBVIOUS
<1>2. OverallStatus(checks) = status[Len(checks)]
  BY DEF OverallStatus
<1>3. \E u : u = Unfold(u)
  <2> DEFINE w == [i \in 0..5 |-> IF i = 0 THEN "PASS" ELSE IF i = 1 THEN s1 ELSE IF i = 2 THEN s2
                                  ELSE IF i = 3 THEN s3 ELSE IF i = 4 THEN s4 ELSE s5]
  <2>1. DOMAIN Unfold(w) = 0..5
    BY <1>1
  <2>2. ASSUME NEW i \in 0..5 PROVE Unfold(w)[i] = w[i]
    <3>1. i \in {0, 1, 2, 3, 4, 5}
      OBVIOUS
    <3> QED
      BY <1>1, <3>1, SMTT(60)
  <2> DEFINE v == Unfold(w)
  <2>3. v = [i \in 0..5 |-> v[i]] /\ w = [i \in 0..5 |-> w[i]]
    BY <1>1
  <2>4. \A i \in 0..5 : v[i] = w[i]
    BY <2>2
  <2>5. v = w
    <3> HIDE DEF v, w
    <3> QED
      BY <2>3, <2>4
  <2> QED
    BY <2>5
<1>4. status = Unfold(status)
  BY <1>3
<1> HIDE DEF status
<1>5. /\ status[1] = "FAIL" \/ checks[2] = "FAIL" => status[2] = "FAIL"
      /\ status[2] = "FAIL" \/ checks[3] = "FAIL" => status[3] = "FAIL"
      /\ status[3] = "FAIL" \/ checks[4] = "FAIL" => status[4] = "FAIL"
      /\ status[4] = "FAIL" \/ checks[5] = "FAIL" => status[5] = "FAIL"
      /\ checks[1] = "FAIL" => status[1] = "FAIL"
  BY <1>1, <1>4
<1>6. \A i \in 1..5 : i \in {1, 2, 3, 4, 5}
  OBVIOUS
<1> QED
  BY <1>1, <1>2, <1>5, <1>6

LEMMA SnapshotFacts ==
  ASSUME NEW s \in Snapshots
  PROVE  /\ s # None /\ s.completed \in Nat /\ s.success \in Nat /\ s.limited \in Nat /\ s.dropped \in Nat
         /\ s.rps \in Nat /\ s.p95 \in Nat /\ s.success + s.limited <= s.completed
BY RunCommandAssumption DEF Counts

LEMMA ValidModel ==
  ASSUME NEW c, Valid(c)
  PROVE  /\ c.load.model \in {"open", "closed"} /\ \A t \in c.thresholds : ParseThreshold(t)
BY DEF Valid, validateLoadConfig, validateOpenLoad, validateClosedLoad

\* The part of a run that is judged: its measured segments, if it has stages
Judged(a, plan) == IF plan.load.model = "open" THEN a.measured ELSE a.overall

LEMMA JudgedIsEvaluated ==
  ASSUME NEW plan, Valid(plan), NEW a \in Aggregates(plan), a # None
  PROVE  evaluationAggregate(a) = Judged(a, plan) /\ Judged(a, plan) \in Snapshots
<1>1. PICK o \in Snapshots, m \in (IF plan.load.model = "open" THEN Snapshots ELSE {None}) :
          a.overall = o /\ a.measured = m
  BY DEF Aggregates
<1> QED
  BY <1>1, SnapshotFacts, ValidModel DEF evaluationAggregate, Judged

LEMMA RateArithmetic ==
  ASSUME NEW n \in Nat, NEW k \in Nat, k <= n, NEW x \in Nat,
         100 * (IF n > k THEN n - k ELSE 0) <= x * (IF n > 0 THEN n ELSE 1)
  PROVE  100 * (n - k) <= x * n
<1>1. CASE n = k
  <2>1. x * n >= 0
    OBVIOUS
  <2> QED
    BY <1>1, <2>1
<1>2. CASE n > k
  BY <1>2
<1> QED
  BY <1>1, <1>2

LEMMA RateCompared ==
  ASSUME NEW s \in Snapshots, NEW x \in Int, x >= 0, NEW num, NEW den,
         num = 100 * (IF s.completed > s.success THEN s.completed - s.success ELSE 0),
         den = IF s.completed > 0 THEN s.completed ELSE 1,
         num <= x * 1 * den
  PROVE  100 * (s.completed - s.success) <= x * s.completed
<1> DEFINE n == s.completed
           k == s.success
           l == s.limited
<1>1. n \in Nat /\ k \in Nat /\ l \in Nat /\ k + l <= n
  BY SnapshotFacts
<1>2. num = 100 * (IF n > k THEN n - k ELSE 0) /\ den = IF n > 0 THEN n ELSE 1
  OBVIOUS
<1> HIDE DEF n, k, l
<1>3. k <= n /\ num <= x * den /\ x \in Nat
  BY <1>1, <1>2
<1>4. 100 * (n - k) <= x * n
  BY <1>1, <1>2, <1>3, RateArithmetic
<1> QED
  BY <1>4 DEF n, k

LEMMA PercentScale == Scale("%") = 1
<1>1. "%" # "s" /\ "%" # "ms"
  OBVIOUS
<1> DEFINE percent == "%"
           second == "s"
           milli == "ms"
           large == 1000000
<1>2. Scale(percent) = IF percent = second THEN large ELSE IF percent = milli THEN 1000 ELSE 1
  BY DEF Scale
<1>3. percent # second /\ percent # milli
  BY <1>1
<1> HIDE DEF percent, second, milli, large
<1>4. Scale(percent) = 1
  BY <1>2, <1>3, Zenon
<1> QED
  BY <1>4 DEF percent

\* A threshold on the error rate of the run compares the judged part.
LEMMA ErrorRateThreshold ==
  ASSUME NEW plan, Valid(plan), NEW a \in Aggregates(plan), a # None,
         NEW t \in plan.thresholds, t \in Thresholds,
         t.step = "", t.metric = "http_error_rate", t.op = "<=", Results(a, plan)[t]
  PROVE  100 * (Judged(a, plan).completed - Judged(a, plan).success) <= t.target * Judged(a, plan).completed
<1> DEFINE s == Judged(a, plan)
<1>1. evaluationAggregate(a) = s /\ s \in Snapshots
  BY JudgedIsEvaluated
<1>2. t.unit = "%" /\ t.target >= 0 /\ t.target \in Int
  <2>1. ParseThreshold(t)
    BY ValidModel
  <2>2. Category["http_error_rate"] = "rate" /\ Units["rate"] = {"%"}
    BY DEF Category, Units
  <2>3. t.unit \in Units[Category[t.metric]] /\ t.target >= 0
    BY <2>1 DEF ParseThreshold
  <2>4. t.target \in Int
    BY DEF Thresholds
  <2> QED
    BY <2>2, <2>3, <2>4
<1>3. TargetValue(t) = t.target * 1
  BY <1>2, PercentScale, Zenon DEF TargetValue
<1> DEFINE o == extractObserved("http_error_rate", s, plan)
           num == 100 * (IF s.completed > s.success THEN s.completed - s.success ELSE 0)
           den == IF s.completed > 0 THEN s.completed ELSE 1
<1>4. o.num = num /\ o.den = den
  <2>1. o = [num |-> num, den |-> den]
    BY DEF extractObserved
  <2> HIDE DEF o, num, den
  <2> QED
    BY <2>1
<1>5. o.num <= TargetValue(t) * o.den
  <2>1. compareValues(o, TargetValue(t), "<=")
    BY <1>1 DEF Results, EvaluateWithSteps
  <2> HIDE DEF o
  <2> QED
    BY <2>1 DEF compareValues
<1>6. num <= t.target * 1 * den
  BY <1>3, <1>4, <1>5, Zenon
<1> HIDE DEF s
<1> QED
  BY <1>1, <1>2, <1>6, RateCompared, Zenon DEF s

\* The verdict on a run that returned its metrics, without and with thresholds
LEMMA VerdictFacts ==
  ASSUME NEW plan \in Configs, Valid(plan), NEW a \in Aggregates(plan), a # None
  PROVE  /\ Verdict(a, plan) \in {"none", "failed", "threshold"}
         /\ plan.thresholds = {} =>
                (Verdict(a, plan) = "none" <=>
                    Judged(a, plan).completed = Judged(a, plan).success + (IF plan.treat429 THEN Judged(a, plan).limited ELSE 0))
         /\ plan.thresholds # {} => (Verdict(a, plan) = "none" <=> \A t \in plan.thresholds : Results(a, plan)[t])
<1> DEFINE s == Judged(a, plan)
<1>1. evaluationAggregate(a) = s /\ s \in Snapshots
  BY JudgedIsEvaluated
<1>2. s.completed \in Nat /\ s.success \in Nat /\ s.limited \in Nat /\ s.success + s.limited <= s.completed
  BY <1>1, SnapshotFacts
<1>3. CASE plan.thresholds = {}
  <2>1. Verdict(a, plan) = IF Expected(s, plan.treat429) < s.completed THEN "failed" ELSE "none"
    BY <1>1, <1>3 DEF Verdict
  <2>2. plan.treat429 \in BOOLEAN
    BY DEF Configs
  <2> HIDE DEF s
  <2>3. Expected(s, plan.treat429) < s.completed <=> s.completed # s.success + (IF plan.treat429 THEN s.limited ELSE 0)
    BY <1>2, <2>2 DEF Expected
  <2> QED
    BY <1>3, <2>1, <2>3 DEF s
<1>4. CASE plan.thresholds # {}
  BY <1>4 DEF Verdict
<1> QED
  BY <1>3, <1>4

\* An exit code says what happened: see CodeIsTruthful (exitcode.go:8, run.go:126).
THEOREM CodesAreTruthful == Spec => []CodeIsTruthful
<1>1. ASSUME PlanInv, CodeInv, pc = "done"
      PROVE  /\ code = 0 /\ flags.command = "doctor" => \A i \in DOMAIN result : result[i] # "FAIL"
             /\ code = 0 /\ flags.command = "self-test" => result.rest /\ result.closed.completed = result.closed.success
  <2>1. code = 0 => err = "none"
    BY <1>1 DEF CodeInv, code, DetermineExitCode, Outcome, Verdict
  <2>2. CASE err = "none" /\ flags.command = "doctor"
    <3>1. result \in [1..5 -> {"PASS", "WARN", "FAIL"}] /\ OverallStatus(result) # "FAIL"
      BY <1>1, <2>2 DEF CodeInv
    <3> QED
      BY <2>2, <3>1, OverallFails
  <2>3. CASE err = "none" /\ flags.command = "self-test"
    BY <1>1, <2>3 DEF CodeInv, ClosedPasses
  <2> QED
    BY <2>1, <2>2, <2>3
<1>2. ASSUME PlanInv, CodeInv, pc = "done", ~sent PROVE CodeIsTruthful
  <2>1. code # 1 /\ written = NoFile
    BY <1>2 DEF CodeInv, code, DetermineExitCode
  <2> QED
    BY <1>1, <1>2, <2>1 DEF CodeIsTruthful
<1>3. ASSUME PlanInv, CodeInv, pc = "done", sent PROVE CodeIsTruthful
  <2>1. Overridden
    BY <1>3 DEF PlanInv
  <2>2. cfg \in Configs /\ Valid(cfg)
    BY <1>3, <2>1, PlanFacts
  <2>3. CASE err = "output" /\ written \in {NoFile, Unreadable}
    <3>1. code = 3
      BY <2>3 DEF code, DetermineExitCode
    <3>2. written # NoFile => ~Loadable(written)
      BY <2>3 DEF Loadable
    <3> QED
      BY <1>1, <1>3, <3>1, <3>2 DEF CodeIsTruthful
  <2>4. ASSUME err = Outcome(agg, incomplete, cfg), Returned, Delivered
        PROVE  CodeIsTruthful
    <3>1. ASSUME NEW d \in Durations, written = BuildReport(cfg, agg, incomplete, Results(agg, cfg), d)
          PROVE  written # NoFile /\ (Loadable(written) <=> ~incomplete)
      <4>1. written.schema \in {1, 2} /\ written.incomplete = incomplete /\ written.model = cfg.load.model
        BY <3>1 DEF BuildReport
      <4>2. NoFile.schema = 0 /\ Unreadable.schema = 0
        BY DEF NoFile, Unreadable
      <4>3. written # NoFile /\ written # Unreadable
        BY <4>1, <4>2
      <4>5. cfg.load.model # ""
        BY <2>2, ValidModel
      <4>4. incomplete \in BOOLEAN
        BY <2>4 DEF Returned
      <4> QED
        BY <4>1, <4>3, <4>4, <4>5 DEF Loadable
    <3>2. printed /\ (flags.json => written # NoFile) /\ (written # NoFile => (Loadable(written) <=> ~incomplete))
      BY <2>4, <3>1 DEF Delivered
    <3>3. CASE incomplete
      <4>1. code = 3
        BY <2>4, <3>3 DEF code, DetermineExitCode, Outcome
      <4> QED
        BY <1>1, <1>3, <3>2, <3>3, <4>1 DEF CodeIsTruthful
    <3>4. CASE ~incomplete
      <4>1. agg \in Aggregates(cfg) /\ agg # None /\ err = Verdict(agg, cfg)
        BY <2>4, <3>4 DEF Returned, Outcome
      <4>2. err \in {"none", "failed", "threshold"} /\ (code = 0 <=> err = "none") /\ code \in {0, 1}
        BY <2>2, <4>1, VerdictFacts DEF code, DetermineExitCode
      <4>3. ASSUME NEW t \in cfg.thresholds, code = 0, t.step = "", t.metric = "http_error_rate", t.op = "<="
            PROVE  100 * (Judged(agg, cfg).completed - Judged(agg, cfg).success) <= t.target * Judged(agg, cfg).completed
        <5>1. t \in Thresholds
          BY <2>2 DEF Configs
        <5>2. Results(agg, cfg)[t]
          BY <2>2, <4>1, <4>2, <4>3, VerdictFacts
        <5> QED
          BY <2>2, <4>1, <4>3, <5>1, <5>2, ErrorRateThreshold
      <4>4. cfg.thresholds = {} =>
              (code = 0 <=> Judged(agg, cfg).completed = Judged(agg, cfg).success + (IF cfg.treat429 THEN Judged(agg, cfg).limited ELSE 0))
        BY <2>2, <4>1, <4>2, VerdictFacts
      <4>5. LET s == IF cfg.load.model = "open" THEN agg.measured ELSE agg.overall
            IN  /\ cfg.thresholds = {} =>
                       (code = 0 <=> s.completed = s.success + (IF cfg.treat429 THEN s.limited ELSE 0))
                /\ \A t \in cfg.thresholds :
                       code = 0 /\ t.step = "" /\ t.metric = "http_error_rate" /\ t.op = "<=" =>
                           100 * (s.completed - s.success) <= t.target * s.completed
        BY <4>3, <4>4, Zenon DEF Judged
      <4>6. (code \in {2, 4} => ~sent) /\ (written # NoFile => (Loadable(written) <=> code \in {0, 1}))
        BY <3>2, <3>4, <4>2
      <4> QED
        BY <1>1, <1>3, <3>2, <4>5, <4>6, Zenon DEF CodeIsTruthful
    <3> QED
      BY <2>4, <3>3, <3>4 DEF Returned
  <2> QED
    BY <1>3, <2>3, <2>4 DEF CodeInv
<1>4. PlanInv /\ CodeInv => CodeIsTruthful
  BY <1>2, <1>3 DEF PlanInv, CodeIsTruthful
<1> QED
  BY <1>4, PlanInvariant, CodeInvariant, PTL

-----------------------------------------------------------------------------
(* Comparisons                                                              *)

CompareInv ==
    /\ \E n \in {0, 2} : inputs \in [1..n -> Archive] \/ flags.command # "compare"
    /\ flags.command = "compare" /\ result # None =>
           /\ Len(inputs) = 2 /\ inputs \in [1..2 -> Archive]
           /\ Loadable(inputs[1].report) /\ Loadable(inputs[2].report)
           /\ result = Compare(inputs[1].report, inputs[2].report)

LEMMA CompareInit == Init => CompareInv
BY DEF Init, CompareInv

LEMMA CompareNext == CompareInv /\ [Next]_vars => CompareInv'
<1> SUFFICES ASSUME CompareInv, [Next]_vars PROVE CompareInv'
  OBVIOUS
<1>1. CASE UNCHANGED <<flags, inputs, result>>
  BY <1>1 DEF CompareInv
<1>2. CASE CompareReports
  <2>1. UNCHANGED <<flags, inputs>>
    BY <1>2 DEF CompareReports, Exit, Return
  <2>2. CASE Len(inputs) = 2 /\ \A i \in DOMAIN inputs : Loadable(inputs[i].report)
    <3>1. flags.command = "compare" /\ result' = Compare(inputs[1].report, inputs[2].report)
      BY <1>2, <2>2 DEF CompareReports
    <3>2. PICK n \in {0, 2} : inputs \in [1..n -> Archive]
      BY <3>1 DEF CompareInv
    <3>3. inputs \in [1..2 -> Archive]
      <4>1. CASE n = 2
        BY <3>2, <4>1
      <4>2. CASE n = 0
        <5>1. inputs \in [1..0 -> Archive]
          BY <3>2, <4>2
        <5>2. Len(inputs) = 0
          BY <5>1
        <5> QED
          BY <2>2, <5>2
      <4> QED
        BY <4>1, <4>2
    <3> QED
      BY <2>1, <2>2, <3>1, <3>3 DEF CompareInv
  <2>3. CASE ~(Len(inputs) = 2 /\ \A i \in DOMAIN inputs : Loadable(inputs[i].report))
    BY <1>1, <1>2, <2>3 DEF CompareReports, Return, Exit
  <2> QED
    BY <2>2, <2>3
<1>3. CASE Doctor \/ SelfTest
  BY <1>3 DEF CompareInv, Doctor, SelfTest, Exit
<1>4. CASE ParseFails \/ LoadFails \/ Load \/ ApplyOverrides \/ Preflight \/ LookupFails \/ Plan \/ Start
  BY <1>1, <1>4 DEF ParseFails, LoadFails, Load, ApplyOverrides, Preflight, LookupFails, Plan, Start, Goto, Return, Exit
<1>5. CASE RunReturns \/ PrintReport \/ WriteReport \/ WriteFails \/ Judge \/ Cancel \/ Done \/ UNCHANGED vars
  BY <1>1, <1>5 DEF RunReturns, PrintReport, WriteReport, WriteFails, Judge, Cancel, Done, Goto, Return, Exit, vars
<1> QED
  BY <1>2, <1>3, <1>4, <1>5 DEF Next

LEMMA CompareInvariant == Spec => []CompareInv
BY CompareInit, CompareNext, PTL DEF Spec

\* What a report that can be loaded is made of
LEMMA LoadableFacts ==
  ASSUME NEW x \in Archive, Loadable(x.report)
  PROVE  /\ x.code \in {0, 1}
         /\ x.report.fingerprint \in Configs
         /\ x.report.compiled \in Seq(CompiledParts) /\ x.report.duration \in Nat
         /\ x.report.overall \in Snapshots /\ x.report.measured \in Snapshots \cup {None}
         /\ DOMAIN x.report.thresholds = x.report.fingerprint.thresholds
         /\ x.report.thresholds = [t \in x.report.fingerprint.thresholds |-> x.report.thresholds[t]]
         /\ x.report.fingerprint.thresholds # {} =>
                (x.code = 0 <=> \A t \in x.report.fingerprint.thresholds : x.report.thresholds[t])
<1> DEFINE plan == x.report.fingerprint
<1>0. x # [report |-> Unreadable, code |-> 3]
  <2>1. x.report # Unreadable
    BY DEF Loadable
  <2>2. \A u, v : [report |-> u, code |-> v].report = u
    OBVIOUS
  <2> QED
    BY <2>1, <2>2, Zenon
<1>1. plan \in Configs /\ Valid(plan) /\ x.report.compiled \in Seq(CompiledParts)
  BY <1>0, ArchiveAssumption, Zenon
<1>2. PICK a \in Aggregates(plan) \cup {None}, partial \in BOOLEAN, d \in Durations :
          (a = None => partial) /\ x = Archived(plan, a, partial, d)
  BY <1>0, ArchiveAssumption, Zenon
<1> HIDE DEF plan
<1>3. /\ x.report.incomplete = partial /\ x.report.duration = d /\ x.report.thresholds = Results(a, plan)
      /\ x.code = DetermineExitCode(Outcome(a, partial, plan))
  BY <1>2 DEF Archived, BuildReport
<1>4. ~partial
  BY <1>3 DEF Loadable
<1>5. a # None /\ a \in Aggregates(plan) /\ Outcome(a, partial, plan) = Verdict(a, plan)
  BY <1>2, <1>4 DEF Outcome
<1>6. /\ x.report.overall = a.overall
      /\ x.report.measured = a.measured \/ x.report.measured = None
  BY <1>2, <1>5 DEF Archived, BuildReport
<1>7. a.overall \in Snapshots /\ a.measured \in Snapshots \cup {None}
  BY <1>5 DEF Aggregates
<1>8. x.code \in {0, 1} /\ (x.code = 0 <=> Verdict(a, plan) = "none")
  BY <1>1, <1>3, <1>5, VerdictFacts DEF DetermineExitCode
<1>9. /\ DOMAIN x.report.thresholds = plan.thresholds
      /\ x.report.thresholds = [t \in plan.thresholds |-> x.report.thresholds[t]]
  BY <1>3 DEF Results, EvaluateWithSteps
<1>10. plan.thresholds # {} => (x.code = 0 <=> \A t \in plan.thresholds : x.report.thresholds[t])
  BY <1>1, <1>3, <1>5, <1>8, VerdictFacts
<1>11. x.report.duration \in Nat
  BY <1>3, RunCommandAssumption
<1> QED
  BY <1>1, <1>6, <1>7, <1>8, <1>9, <1>10, <1>11 DEF plan

LEMMA ThresholdChanges ==
  ASSUME NEW l, NEW r, NEW t
  PROVE  /\ Change(t, "pass-to-fail") \in compareThresholds(l, r) <=> t \in DOMAIN l \cap DOMAIN r /\ l[t] /\ ~r[t]
         /\ Change(t, "fail-to-pass") \in compareThresholds(l, r) <=> t \in DOMAIN l \cap DOMAIN r /\ ~l[t] /\ r[t]
<1>1. \A u, v, w : Change(u, v) = Change(t, w) <=> u = t /\ v = w
  BY DEF Change
<1> QED
  BY <1>1 DEF compareThresholds

LEMMA SameChangesNothing == \A l : compareThresholds(l, l) = {}
BY DEF compareThresholds

LEMMA SegmentsSymmetric ==
  ASSUME NEW b, NEW c, b.compiled \in Seq(CompiledParts), c.compiled \in Seq(CompiledParts)
  PROVE  compatibleSegments(b, c) <=> compatibleSegments(c, b)
<1>1. DOMAIN b.compiled = 1..Len(b.compiled) /\ DOMAIN c.compiled = 1..Len(c.compiled)
  OBVIOUS
<1>2. ASSUME NEW d, NEW e, compatibleSegments(d, e), DOMAIN d.compiled = 1..Len(d.compiled), DOMAIN e.compiled = 1..Len(e.compiled)
      PROVE  compatibleSegments(e, d)
  BY <1>2 DEF compatibleSegments
<1> QED
  BY <1>1, <1>2

LEMMA SegmentsReflexive == \A b : compatibleSegments(b, b)
BY DEF compatibleSegments

\* The six figures of a comparison are fractions of integers.
Figures == {"p95", "throughput", "error_rate", "rate_limited_rate", "dropped", "observed_429"}
IsFraction(f) == f.num \in Int /\ f.den \in Int

LEMMA SummaryFacts ==
  ASSUME NEW r, r.overall \in Snapshots, r.measured \in Snapshots \cup {None}, r.duration \in Nat
  PROVE  /\ DOMAIN comparisonSummary(r) = Figures
         /\ \A n \in Figures : IsFraction(comparisonSummary(r)[n])
<1> DEFINE s == IF r.measured # None THEN r.measured ELSE r.overall
<1>1. s \in Snapshots
  OBVIOUS
<1>2. /\ s.completed \in Nat /\ s.success \in Nat /\ s.limited \in Nat /\ s.dropped \in Nat
      /\ s.rps \in Nat /\ s.p95 \in Nat
  BY <1>1, SnapshotFacts
<1>3. \A n, d \in Int : IsFraction(Fraction(n, d))
  BY DEF Fraction, IsFraction
<1>4. /\ 100 * (s.completed - s.success) \in Int /\ 100 * s.limited \in Int
      /\ (IF r.duration > 0 THEN s.completed ELSE 0) \in Int
  <2> DEFINE n == s.completed
             k == s.success
             m == s.limited
  <2>1. n \in Nat /\ k \in Nat /\ m \in Nat
    BY <1>2
  <2> HIDE DEF n, k, m
  <2>2. 100 * (n - k) \in Int /\ 100 * m \in Int /\ (IF r.duration > 0 THEN n ELSE 0) \in Int
    BY <2>1
  <2> QED
    BY <2>2 DEF n, k, m
<1>5. /\ DOMAIN comparisonSummary(r) = Figures
      /\ comparisonSummary(r).p95 = Fraction(s.p95, 1)
      /\ comparisonSummary(r).throughput =
            IF r.measured # None THEN Fraction(s.rps, 1)
            ELSE Fraction(IF r.duration > 0 THEN s.completed ELSE 0, r.duration)
      /\ comparisonSummary(r).error_rate = Fraction(100 * (s.completed - s.success), s.completed)
      /\ comparisonSummary(r).rate_limited_rate = Fraction(100 * s.limited, s.completed)
      /\ comparisonSummary(r).dropped = Fraction(s.dropped, 1) /\ comparisonSummary(r).observed_429 = Fraction(s.limited, 1)
  BY DEF comparisonSummary, Figures
<1> HIDE DEF s
<1> QED
  BY <1>2, <1>3, <1>4, <1>5 DEF Figures

LEMMA DeltaFacts ==
  ASSUME NEW f, NEW g, IsFraction(f), IsFraction(g)
  PROVE  newDelta(f, f).absolute = 0 /\ newDelta(f, g).absolute = -newDelta(g, f).absolute
<1> DEFINE x == f.num * g.den
           y == g.num * f.den
<1>1. x \in Int /\ y \in Int /\ f.num * f.den \in Int
  BY DEF IsFraction
<1>2. newDelta(f, f).absolute = f.num * f.den - f.num * f.den
  BY DEF newDelta
<1>3. newDelta(f, g).absolute = y - x /\ newDelta(g, f).absolute = x - y
  BY DEF newDelta
<1> HIDE DEF x, y
<1> QED
  BY <1>1, <1>2, <1>3

\* A comparison tells what became of the verdict, and its reverse the opposite:
\* see ComparisonTellsTheVerdict (compare.go:72).
THEOREM ComparisonsAreSound == Spec => []ComparisonTellsTheVerdict
<1>1. ASSUME CompareInv PROVE ComparisonTellsTheVerdict
  <2> SUFFICES ASSUME flags.command = "compare", result # None PROVE ComparisonTellsTheVerdict
    BY DEF ComparisonTellsTheVerdict
  <2> DEFINE b == inputs[1]
             c == inputs[2]
             reverse == Compare(c.report, b.report)
  <2>1. /\ b \in Archive /\ Loadable(b.report) /\ c \in Archive /\ Loadable(c.report)
        /\ result = Compare(b.report, c.report)
    BY <1>1 DEF CompareInv
  <2> HIDE DEF b, c
  <2>2. b.code \in {0, 1} /\ c.code \in {0, 1}
    BY <2>1, LoadableFacts
  <2> DEFINE left == b.report.thresholds
             right == c.report.thresholds
             plan == b.report.fingerprint
  <2>3. /\ DOMAIN left = plan.thresholds /\ left = [t \in plan.thresholds |-> left[t]]
        /\ DOMAIN right = c.report.fingerprint.thresholds
        /\ plan.thresholds # {} => (b.code = 0 <=> \A t \in plan.thresholds : left[t])
        /\ c.report.fingerprint.thresholds # {} => (c.code = 0 <=> \A t \in c.report.fingerprint.thresholds : right[t])
    BY <2>1, LoadableFacts
  <2>4. /\ result.changes = compareThresholds(left, right) /\ reverse.changes = compareThresholds(right, left)
        /\ result.deltas = [n \in DOMAIN comparisonSummary(b.report) |->
                               newDelta(comparisonSummary(b.report)[n], comparisonSummary(c.report)[n])]
        /\ reverse.deltas = [n \in DOMAIN comparisonSummary(c.report) |->
                               newDelta(comparisonSummary(c.report)[n], comparisonSummary(b.report)[n])]
    BY <2>1 DEF Compare
  <2>5. ASSUME plan = c.report.fingerprint, left # <<>>, b.code = 0
        PROVE  c.code = 1 <=> \E t \in DOMAIN right : Worsened(t) \in result.changes
    <3>1. plan.thresholds # {}
      BY <2>3, <2>5
    <3>2. \A t \in plan.thresholds : left[t]
      BY <2>3, <2>5, <3>1
    <3>3. c.code = 1 <=> \E t \in plan.thresholds : ~right[t]
      BY <2>2, <2>3, <2>5, <3>1
    <3>4. ASSUME NEW t \in plan.thresholds PROVE Worsened(t) \in result.changes <=> ~right[t]
      <4>1. Worsened(t) \in result.changes <=> t \in DOMAIN left \cap DOMAIN right /\ left[t] /\ ~right[t]
        BY <2>4, ThresholdChanges DEF Worsened
      <4>2. t \in DOMAIN left \cap DOMAIN right
        BY <2>3, <2>5
      <4> QED
        BY <3>2, <4>1, <4>2
    <3> QED
      BY <2>3, <2>5, <3>3, <3>4
  <2>6. /\ DOMAIN comparisonSummary(b.report) = Figures /\ DOMAIN comparisonSummary(c.report) = Figures
        /\ \A n \in Figures : IsFraction(comparisonSummary(b.report)[n]) /\ IsFraction(comparisonSummary(c.report)[n])
    BY <2>1, LoadableFacts, SummaryFacts
  <2>7. \A n \in DOMAIN result.deltas : result.deltas[n].absolute = -reverse.deltas[n].absolute
    BY <2>4, <2>6, DeltaFacts
  <2>8. \A t \in DOMAIN left : Worsened(t) \in result.changes <=> Change(t, "fail-to-pass") \in reverse.changes
    BY <2>4, ThresholdChanges DEF Worsened
  <2>9. compatibleSegments(b.report, c.report) <=> compatibleSegments(c.report, b.report)
    BY <2>1, LoadableFacts, SegmentsSymmetric
  <2>10. result.warnings = reverse.warnings
    BY <2>1, <2>9 DEF Compare
  <2>11. ASSUME b = c
         PROVE  result.warnings = {} /\ result.changes = {} /\ \A n \in DOMAIN result.deltas : result.deltas[n].absolute = 0
    <3>1. result.changes = {}
      BY <2>4, <2>11, SameChangesNothing
    <3>2. \A n \in DOMAIN result.deltas : result.deltas[n].absolute = 0
      BY <2>4, <2>6, <2>11, DeltaFacts
    <3>3. result.warnings = {}
      BY <2>1, <2>11, SegmentsReflexive DEF Compare
    <3> QED
      BY <3>1, <3>2, <3>3
  <2> QED
    BY <2>2, <2>5, <2>7, <2>8, <2>10, <2>11 DEF ComparisonTellsTheVerdict, b, c
<1> QED
  BY <1>1, CompareInvariant, PTL

-----------------------------------------------------------------------------
(* Precedence                                                               *)

LEMMA SwitchFacts ==
  ASSUME NEW l \in Loads, NEW m
  PROVE  SwitchModel(l, m).model = (IF m = "" THEN l.model ELSE m) /\ SwitchModel(l, "") = l
<1>1. ASSUME NEW x, NEW e
      PROVE  /\ [l EXCEPT !.model = m, !.users = x, !.thinkTime = x].model = m
             /\ [l EXCEPT !.model = m, !.rate = x, !.unit = x, !.inFlight = x, !.segments = e].model = m
             /\ [l EXCEPT !.model = m].model = m
  BY DEF Loads
<1> DEFINE a == [l EXCEPT !.model = m, !.users = 0, !.thinkTime = 0]
           b == [l EXCEPT !.model = m, !.rate = 0, !.unit = 0, !.inFlight = 0, !.segments = <<>>]
           c == [l EXCEPT !.model = m]
<1>2. a.model = m /\ b.model = m /\ c.model = m
  BY <1>1, Zenon
<1>3. SwitchModel(l, m) = CASE m = "open" -> a [] m = "closed" -> b [] m = "" -> l [] OTHER -> c
  BY DEF SwitchModel
<1>4. SwitchModel(l, "") = l
  BY DEF SwitchModel
<1> HIDE DEF a, b, c
<1> QED
  BY <1>2, <1>3, <1>4

LEMMA OverrideLoadFacts ==
  ASSUME NEW l \in Loads, NEW f \in Flags
  PROVE  LET s == SwitchModel(l, f.model)
             o == OverrideLoad(l, f)
         IN  /\ o.model = s.model /\ o.segments = s.segments
             /\ o.rate = Given(f.rate, s.rate) /\ o.unit = Given(f.unit, s.unit) /\ o.users = Given(f.users, s.users)
             /\ o.duration = Given(f.duration, s.duration) /\ o.inFlight = Given(f.inFlight, s.inFlight)
<1> DEFINE s == SwitchModel(l, f.model)
<1>1. s \in Loads
  BY OverrideLoadTypes
<1>2. OverrideLoad(l, f) =
        [s EXCEPT !.rate = Given(f.rate, @), !.unit = Given(f.unit, @), !.users = Given(f.users, @),
                  !.duration = Given(f.duration, @), !.inFlight = Given(f.inFlight, @)]
  BY DEF OverrideLoad
<1> HIDE DEF s
<1>3. /\ OverrideLoad(l, f).model = s.model /\ OverrideLoad(l, f).segments = s.segments
      /\ OverrideLoad(l, f).rate = Given(f.rate, s.rate) /\ OverrideLoad(l, f).unit = Given(f.unit, s.unit)
      /\ OverrideLoad(l, f).users = Given(f.users, s.users)
      /\ OverrideLoad(l, f).duration = Given(f.duration, s.duration)
      /\ OverrideLoad(l, f).inFlight = Given(f.inFlight, s.inFlight)
  BY <1>1, <1>2 DEF Loads
<1> QED
  BY <1>3 DEF s

\* The defaults of a load only replace what is missing.
LEMMA DefaultLoadFacts ==
  ASSUME NEW l \in Loads
  PROVE  LET d == DefaultUnit(DefaultDuration(DefaultModel(l)))
         IN  /\ l.model # "" => d.model = l.model
             /\ d.segments = l.segments /\ d.users = l.users
             /\ l.rate > 0 => d.rate = l.rate
             /\ l.inFlight > 0 => d.inFlight = l.inFlight
             /\ l.unit > 0 => d.unit = l.unit
             /\ l.duration > 0 => d.duration = l.duration
<1>1. ASSUME NEW x \in Loads
      PROVE  /\ DefaultModel(x) \in Loads /\ DefaultDuration(x) \in Loads
             /\ x.model # "" => DefaultModel(x) = x
             /\ x.duration > 0 => DefaultDuration(x) = x
             /\ x.unit > 0 => DefaultUnit(x) = x
  <2>1. x.unit \in Int /\ x.duration \in Int
    BY DEF Loads
  <2>2. (x.unit > 0 => ~(x.unit <= 0)) /\ (x.duration > 0 => ~(x.duration <= 0))
    BY <2>1
  <2>3. x.unit > 0 => DefaultUnit(x) = x
    BY <2>2, Zenon DEF DefaultUnit
  <2>4. x.duration > 0 => DefaultDuration(x) = x
    BY <2>2, Zenon DEF DefaultDuration
  <2>5. x.model # "" => DefaultModel(x) = x
    BY DEF DefaultModel
  <2> QED
    BY <2>3, <2>4, <2>5, DefaultLoadTypes
<1>2. ASSUME NEW x \in Loads, NEW y, NEW z, NEW m
      PROVE  LET e == [x EXCEPT !.model = m, !.rate = y, !.inFlight = z]
             IN  e.segments = x.segments /\ e.users = x.users /\ e.unit = x.unit /\ e.duration = x.duration
                 /\ e.rate = y /\ e.inFlight = z
  BY DEF Loads
<1>3. ASSUME NEW x \in Loads, NEW m
      PROVE  LET e == [x EXCEPT !.model = m]
             IN  e.segments = x.segments /\ e.users = x.users /\ e.unit = x.unit /\ e.duration = x.duration
                 /\ e.rate = x.rate /\ e.inFlight = x.inFlight
  BY DEF Loads
<1>4. LET d == DefaultModel(l)
      IN  /\ d.segments = l.segments /\ d.users = l.users /\ d.unit = l.unit /\ d.duration = l.duration
          /\ l.rate > 0 => d.rate = l.rate
          /\ l.inFlight > 0 => d.inFlight = l.inFlight
  <2> DEFINE y == IF l.rate <= 0 THEN 1 ELSE l.rate
             z == IF l.inFlight <= 0 THEN 10 ELSE l.inFlight
             closed == [l EXCEPT !.model = "closed"]
             open == [l EXCEPT !.model = "open", !.rate = y, !.inFlight = z]
  <2>1. DefaultModel(l) = l \/ DefaultModel(l) = closed \/ DefaultModel(l) = open
    BY DEF DefaultModel
  <2>2. (l.rate > 0 => y = l.rate) /\ (l.inFlight > 0 => z = l.inFlight)
    BY DEF Loads
  <2> HIDE DEF y, z
  <2>3. /\ closed.segments = l.segments /\ closed.users = l.users /\ closed.unit = l.unit /\ closed.duration = l.duration
        /\ closed.rate = l.rate /\ closed.inFlight = l.inFlight
    BY <1>3, Zenon
  <2>4. /\ open.segments = l.segments /\ open.users = l.users /\ open.unit = l.unit /\ open.duration = l.duration
        /\ open.rate = y /\ open.inFlight = z
    BY <1>2
  <2> HIDE DEF closed, open
  <2> QED
    BY <2>1, <2>2, <2>3, <2>4
<1>5. ASSUME NEW x \in Loads
      PROVE  LET d == DefaultDuration(x)
             IN  d.model = x.model /\ d.segments = x.segments /\ d.users = x.users /\ d.unit = x.unit
                 /\ d.rate = x.rate /\ d.inFlight = x.inFlight
  BY DEF DefaultDuration, Loads
<1>6. ASSUME NEW x \in Loads
      PROVE  LET d == DefaultUnit(x)
             IN  d.model = x.model /\ d.segments = x.segments /\ d.users = x.users /\ d.duration = x.duration
                 /\ d.rate = x.rate /\ d.inFlight = x.inFlight
  BY DEF DefaultUnit, Loads
<1> DEFINE p == DefaultModel(l)
           q == DefaultDuration(p)
           d == DefaultUnit(q)
<1>7. p \in Loads /\ q \in Loads
  BY <1>1
<1>8. /\ p.segments = l.segments /\ p.users = l.users /\ p.unit = l.unit /\ p.duration = l.duration
      /\ (l.rate > 0 => p.rate = l.rate) /\ (l.inFlight > 0 => p.inFlight = l.inFlight) /\ (l.model # "" => p.model = l.model)
  BY <1>1, <1>4
<1>9. /\ q.model = p.model /\ q.segments = p.segments /\ q.users = p.users /\ q.unit = p.unit
      /\ q.rate = p.rate /\ q.inFlight = p.inFlight /\ (p.duration > 0 => q.duration = p.duration)
  BY <1>1, <1>5, <1>7
<1>10. /\ d.model = q.model /\ d.segments = q.segments /\ d.users = q.users /\ d.duration = q.duration
       /\ d.rate = q.rate /\ d.inFlight = q.inFlight /\ (q.unit > 0 => d.unit = q.unit)
  BY <1>1, <1>6, <1>7
<1> HIDE DEF p, q, d
<1>11. /\ l.model # "" => d.model = l.model
       /\ d.segments = l.segments /\ d.users = l.users
       /\ l.rate > 0 => d.rate = l.rate
       /\ l.inFlight > 0 => d.inFlight = l.inFlight
       /\ l.unit > 0 => d.unit = l.unit
       /\ l.duration > 0 => d.duration = l.duration
  BY <1>8, <1>9, <1>10, Zenon
<1> QED
  BY <1>11 DEF p, q, d

\* A command line that overrides nothing of the file
Plain ==
    /\ flags.file /\ flags.url = NoURL /\ flags.method = "" /\ flags.model = "" /\ flags.limit = ""
    /\ {flags.rate, flags.unit, flags.users, flags.duration, flags.inFlight} = {0}
    /\ flags.hosts = {} /\ ~flags.allowDestructive

LEMMA StepIdempotent == ASSUME NEW s \in Steps PROVE DefaultStep(DefaultStep(s)) = DefaultStep(s)
<1> DEFINE l == DefaultLimit(s.limit)
           m == IF s.method = "" THEN "GET" ELSE s.method
<1>1. DefaultLimit(l) = l /\ (IF m = "" THEN "GET" ELSE m) = m
  BY DEF DefaultLimit
<1>2. DefaultStep(s) = [s EXCEPT !.limit = l, !.method = m]
  BY DEF DefaultStep
<1> HIDE DEF l, m
<1>3. DefaultStep(s) \in Steps /\ DefaultStep(s).limit = l /\ DefaultStep(s).method = m
  BY <1>2, DefaultsKeepTypes DEF Steps
<1>4. DefaultStep(DefaultStep(s)) = [DefaultStep(s) EXCEPT !.limit = l, !.method = m]
  BY <1>1, <1>3 DEF DefaultStep
<1>5. \A r \in Steps : r.limit = l /\ r.method = m => [r EXCEPT !.limit = l, !.method = m] = r
  BY DEF Steps
<1> QED
  BY <1>3, <1>4, <1>5

LEMMA Positive == \A n \in Int : n > 0 => ~(n <= 0)
OBVIOUS

LEMMA GivenZero == \A v : Given(0, v) = v
BY DEF Given

\* A valid load that no flag changes stays as it is.
LEMMA PlainLoad ==
  ASSUME NEW l \in Loads, NEW schema, validateLoadConfig(l, schema), NEW f \in Flags, f.model = "",
         {f.rate, f.unit, f.users, f.duration, f.inFlight} = {0}
  PROVE  DefaultUnit(DefaultDuration(DefaultModel(OverrideLoad(l, f)))) = l
<1>1. SwitchModel(l, f.model) = l
  BY SwitchFacts
<1>2. f.rate = 0 /\ f.unit = 0 /\ f.users = 0 /\ f.duration = 0 /\ f.inFlight = 0
  OBVIOUS
<1>3. \A v : Given(0, v) = v
  BY GivenZero
<1>4. OverrideLoad(l, f) = l
  <2>1. OverrideLoad(l, f) = [l EXCEPT !.rate = l.rate, !.unit = l.unit, !.users = l.users,
                                       !.duration = l.duration, !.inFlight = l.inFlight]
    BY <1>1, <1>2, <1>3, Zenon DEF OverrideLoad
  <2>2. [l EXCEPT !.rate = l.rate, !.unit = l.unit, !.users = l.users,
                  !.duration = l.duration, !.inFlight = l.inFlight] = l
    BY DEF Loads
  <2> QED
    BY <2>1, <2>2
<1>5. l.model # ""
  BY DEF validateLoadConfig, validateOpenLoad, validateClosedLoad
<1>6. DefaultModel(l) = l
  BY <1>5, Zenon DEF DefaultModel
<1>7. l.segments # <<>> \/ l.duration > 0
  BY DEF validateLoadConfig, validateOpenLoad, validateClosedLoad
<1>8. DefaultDuration(l) = l
  <2>1. l.duration \in Int
    BY DEF Loads
  <2>2. l.duration > 0 => ~(l.duration <= 0)
    BY <2>1, Positive, Zenon
  <2> QED
    BY <1>7, <2>2, Zenon DEF DefaultDuration
<1>9. DefaultUnit(l) = l
  <2>1. l.model = "open" => l.unit > 0
    BY DEF validateLoadConfig, validateOpenLoad, validateClosedLoad, Compiles
  <2>2. l.unit \in Int
    BY DEF Loads
  <2>3. l.unit > 0 => ~(l.unit <= 0)
    BY <2>2, Positive, Zenon
  <2> QED
    BY <2>1, <2>3, Zenon DEF DefaultUnit
<1> QED
  BY <1>4, <1>6, <1>8, <1>9

LEMMA PlainRequest ==
  ASSUME NEW r \in Requests, validateRequestConfig(r), NEW f \in Flags, f.url = NoURL, f.method = "", f.limit = ""
  PROVE  DefaultRequest(OverrideRequest(r, f)) = r
<1>1. r.method # "" /\ r.limit # ""
  BY DEF validateRequestConfig, Methods, Sizes
<1>2. OverrideRequest(r, f) = [r EXCEPT !.url = r.url, !.method = r.method, !.limit = r.limit]
  BY <1>1 DEF OverrideRequest
<1>3. OverrideRequest(r, f) = r
  BY <1>2 DEF Requests
<1>4. [r EXCEPT !.limit = DefaultLimit(@)] = [r EXCEPT !.limit = r.limit]
  BY <1>1 DEF DefaultLimit
<1>5. [r EXCEPT !.limit = r.limit] = r
  BY DEF Requests
<1> QED
  BY <1>3, <1>4, <1>5 DEF DefaultRequest

\* A valid file is accepted again after overrides that change nothing, with the
\* load and the hosts it names.
LEMMA PlainAccepted ==
  ASSUME PlanInv, Plain, ValidateConfig(file)
  PROVE  /\ Overridable(Base, flags) /\ ValidateConfig(Override(Base, flags))
         /\ ApplyCLIOverrides(Base, flags).load = Normalize(file).load
         /\ ApplyCLIOverrides(Base, flags).hosts = file.hosts
<1> DEFINE n == Normalize(file)
           o == Override(n, flags)
           m == Normalize(o)
<1>1. flags \in Flags /\ file \in Configs /\ Base = n /\ Valid(n)
  BY DEF PlanInv, Plain, Base, ValidateConfig
<1>2. n \in Configs /\ n.request \in Requests /\ n.load \in Loads /\ n.scenario \in [given : BOOLEAN, steps : Seq(Steps)]
  BY <1>1, NormalizeKeeps DEF Configs
<1>3. file.scenario.steps \in Seq(Steps)
  BY <1>1 DEF Configs
<1>4. /\ n.scenario.steps = [i \in DOMAIN file.scenario.steps |-> DefaultStep(file.scenario.steps[i])]
      /\ n.hosts = file.hosts
  BY <1>1, NormalizeKeeps
<1>5. /\ o \in Configs
      /\ o.schema = n.schema /\ o.thresholds = n.thresholds /\ o.auth = n.auth /\ o.scenario = n.scenario
      /\ o.request = OverrideRequest(n.request, flags)
      /\ o.load = DefaultDuration(DefaultModel(OverrideLoad(n.load, flags)))
      /\ o.hosts = OverrideHosts(n, flags)
  BY <1>1, <1>2, OverrideKeeps
<1>6. /\ m \in Configs
      /\ m.schema = o.schema /\ m.thresholds = o.thresholds /\ m.auth = o.auth /\ m.hosts = o.hosts
      /\ m.request = DefaultRequest(o.request) /\ m.load = DefaultUnit(o.load)
      /\ m.scenario.given = o.scenario.given
      /\ m.scenario.steps = [i \in DOMAIN o.scenario.steps |-> DefaultStep(o.scenario.steps[i])]
  BY <1>5, NormalizeKeeps
<1> HIDE DEF n, o, m
<1>7. o.hosts = n.hosts
  BY <1>5 DEF OverrideHosts, Plain
<1>8. m.load = n.load
  <2>1. validateLoadConfig(n.load, n.schema)
    BY <1>1 DEF Valid
  <2> QED
    BY <1>1, <1>2, <1>5, <1>6, <2>1, PlainLoad DEF Plain
<1>9. m.scenario.steps = n.scenario.steps
  <2>1. \A i \in DOMAIN file.scenario.steps : DefaultStep(n.scenario.steps[i]) = n.scenario.steps[i]
    BY <1>3, <1>4, StepIdempotent
  <2>2. DOMAIN n.scenario.steps = DOMAIN file.scenario.steps
    BY <1>4
  <2>3. m.scenario.steps = [i \in DOMAIN n.scenario.steps |-> n.scenario.steps[i]]
    BY <1>5, <1>6, <2>1, <2>2
  <2> QED
    BY <1>2, <2>3
<1>10. m.request.url = n.request.url /\ (n.request.url # NoURL => m.request = n.request)
  <2>1. CASE n.request.url # NoURL
    <3>1. validateRequestConfig(n.request)
      BY <1>1, <2>1 DEF Valid
    <3> QED
      BY <1>1, <1>2, <1>5, <1>6, <3>1, PlainRequest DEF Plain
  <2>2. CASE n.request.url = NoURL
    <3>1. o.request.url = n.request.url
      BY <1>2, <1>5 DEF OverrideRequest, Requests, Plain
    <3>2. o.request \in Requests
      BY <1>5 DEF Configs
    <3> QED
      BY <1>6, <2>2, <3>1, <3>2, DefaultsKeepTypes
  <2> QED
    BY <2>1, <2>2
<1>11. Valid(m)
  BY <1>1, <1>5, <1>6, <1>7, <1>8, <1>9, <1>10 DEF Valid
<1>12. Overridable(n, flags)
  <2>1. flags.rate = 0 /\ flags.duration = 0 /\ flags.hosts = {}
    BY DEF Plain
  <2>2. ~(0 > 0)
    OBVIOUS
  <2> QED
    BY <2>1, <2>2 DEF Overridable
<1> QED
  BY <1>1, <1>4, <1>6, <1>7, <1>8, <1>11, <1>12 DEF ValidateConfig, ApplyCLIOverrides, n, o, m

RefusalInv == Plain => ~(pc = "done" /\ err = "config" /\ cfg # EmptyConfig)

LEMMA FlagsAreFixed == [Next]_vars => flags' = flags
BY DEF Next, vars, ParseFails, LoadFails, Load, ApplyOverrides, Preflight, LookupFails, Plan, Start, RunReturns,
       PrintReport, WriteReport, WriteFails, Judge, CompareReports, Doctor, SelfTest, Cancel, Done, Goto, Return, Exit

LEMMA RefusalNext == PlanInv /\ CodeInv /\ RefusalInv /\ [Next]_vars => RefusalInv'
<1> SUFFICES ASSUME PlanInv, CodeInv, RefusalInv, [Next]_vars, Plain, pc' = "done", err' = "config", cfg' # EmptyConfig
             PROVE  FALSE
  BY FlagsAreFixed DEF RefusalInv, Plain
<1>1. pc = "start" => cfg = EmptyConfig
  BY DEF PlanInv
<1>2. CASE pc = "start"
  <2>1. cfg' = cfg
    BY <1>2 DEF Next, vars, ParseFails, LoadFails, Load, ApplyOverrides, Preflight, LookupFails, Plan, Start, RunReturns,
           PrintReport, WriteReport, WriteFails, Judge, CompareReports, Doctor, SelfTest, Cancel, Done, Goto, Return, Exit
  <2> QED
    BY <1>1, <1>2, <2>1
<1>3. CASE pc = "override"
  <2>1. ApplyOverrides
    BY <1>3 DEF Next, vars, ParseFails, LoadFails, Load, Preflight, LookupFails, Plan, Start, RunReturns,
           PrintReport, WriteReport, WriteFails, Judge, CompareReports, Doctor, SelfTest, Cancel, Done
  <2>2. cfg = Base /\ ValidateConfig(file)
    BY <1>3 DEF PlanInv, Loaded, Plain
  <2> QED
    BY <2>1, <2>2, PlainAccepted DEF ApplyOverrides, Goto
<1>4. CASE pc = "done"
  BY <1>4 DEF RefusalInv, Next, vars, ParseFails, LoadFails, Load, ApplyOverrides, Preflight, LookupFails, Plan, Start, RunReturns,
           PrintReport, WriteReport, WriteFails, Judge, CompareReports, Doctor, SelfTest, Cancel, Done
<1>5. CASE pc \in {"preflight", "plan", "run"}
  BY <1>5 DEF Next, vars, ParseFails, LoadFails, Load, ApplyOverrides, Preflight, LookupFails, Plan, Start, RunReturns,
           PrintReport, WriteReport, WriteFails, Judge, CompareReports, Doctor, SelfTest, Cancel, Done, Goto, Return, Exit
<1>6. CASE pc \in Running
  <2>1. pc' = "done" => WriteFails \/ Judge
    BY <1>6 DEF Running, Next, vars, ParseFails, LoadFails, Load, ApplyOverrides, Preflight, LookupFails, Plan, Start, RunReturns,
           PrintReport, WriteReport, CompareReports, Doctor, SelfTest, Cancel, Done, Goto
  <2> QED
    BY <2>1 DEF WriteFails, Judge, Return, Exit, Outcome, Verdict
<1> QED
  BY <1>2, <1>3, <1>4, <1>5, <1>6 DEF PlanInv, Labels, Running

\* Flags come before the file and the file before the defaults: see
\* PrecedenceHolds (precedence.go:31, 105), with its exception for the method
\* and the body limit of a scenario's steps (precedence.go:44, 88).
THEOREM PrecedenceIsKept == Spec => []PrecedenceHolds
<1>1. ASSUME PlanInv, sent
      PROVE  /\ flags.url # NoURL => cfg.request.url = flags.url
             /\ flags.model # "" => cfg.load.model = flags.model
             /\ flags.rate > 0 => cfg.load.rate = flags.rate
             /\ flags.unit > 0 => cfg.load.unit = flags.unit
             /\ flags.users > 0 => cfg.load.users = flags.users
             /\ flags.duration > 0 => EffectiveDuration(cfg.load) = flags.duration
             /\ flags.inFlight > 0 => cfg.load.inFlight = flags.inFlight
             /\ flags.hosts # {} => cfg.hosts = flags.hosts
             /\ flags.allowDestructive => cfg.nonIdempotent
             /\ cfg.scenario.given => cfg.scenario.steps = Normalize(file).scenario.steps
             /\ flags.method # "" => cfg.request.method = flags.method
             /\ flags.limit # "" => cfg.request.limit = flags.limit
  <2>1. Overridden /\ flags \in Flags /\ Base \in Configs
    BY <1>1, BaseFacts DEF PlanInv
  <2> DEFINE s == SwitchModel(Base.load, flags.model)
             o == OverrideLoad(Base.load, flags)
             d == DefaultUnit(DefaultDuration(DefaultModel(o)))
  <2>2. Base.load \in Loads /\ Base.request \in Requests
    BY <2>1 DEF Configs
  <2>3. o \in Loads
    BY <2>1, <2>2, OverrideLoadTypes
  <2>4. /\ o.model = s.model /\ o.segments = s.segments
        /\ o.rate = Given(flags.rate, s.rate) /\ o.unit = Given(flags.unit, s.unit) /\ o.users = Given(flags.users, s.users)
        /\ o.duration = Given(flags.duration, s.duration) /\ o.inFlight = Given(flags.inFlight, s.inFlight)
    BY <2>1, <2>2, OverrideLoadFacts
  <2>5. flags.model # "" => s.model = flags.model
    BY <2>2, SwitchFacts
  <2>6. cfg.load = d /\ cfg.hosts = OverrideHosts(Base, flags) /\ cfg.request = DefaultRequest(OverrideRequest(Base.request, flags))
    BY <1>1, <2>1, PlanFacts
  <2>7. /\ o.model # "" => d.model = o.model
        /\ d.segments = o.segments /\ d.users = o.users
        /\ o.rate > 0 => d.rate = o.rate
        /\ o.inFlight > 0 => d.inFlight = o.inFlight
        /\ o.unit > 0 => d.unit = o.unit
        /\ o.duration > 0 => d.duration = o.duration
    BY <2>3, DefaultLoadFacts
  <2>8. flags.rate > 0 \/ flags.duration > 0 => s.segments = <<>>
    BY <2>1 DEF Overridden, Overridable
  <2> HIDE DEF s, o, d
  <2>9. \A x, v : x > 0 => Given(x, v) = x
    BY DEF Given
  <2>10. flags.duration > 0 => EffectiveDuration(cfg.load) = flags.duration
    BY <2>4, <2>6, <2>7, <2>8, <2>9, Zenon DEF EffectiveDuration
  <2>11. flags.url # NoURL => cfg.request.url = flags.url
    <3>1. OverrideRequest(Base.request, flags).url = IF flags.url # NoURL THEN flags.url ELSE Base.request.url
      BY <2>2 DEF OverrideRequest, Requests
    <3>2. OverrideRequest(Base.request, flags) \in Requests
      BY <2>1, <2>2, OverrideKeeps DEF Configs
    <3> QED
      BY <2>6, <3>1, <3>2, DefaultsKeepTypes
  <2>12. flags.hosts # {} => cfg.hosts = flags.hosts
    BY <2>6 DEF OverrideHosts
  <2>13. flags.model # "" => cfg.load.model = flags.model
    BY <2>4, <2>5, <2>6, <2>7, Zenon
  <2>14. /\ flags.rate > 0 => cfg.load.rate = flags.rate
         /\ flags.unit > 0 => cfg.load.unit = flags.unit
         /\ flags.users > 0 => cfg.load.users = flags.users
         /\ flags.inFlight > 0 => cfg.load.inFlight = flags.inFlight
    BY <2>4, <2>6, <2>7, <2>9, Zenon
  <2>15. flags.allowDestructive => cfg.nonIdempotent
    BY <1>1, <2>1, PlanFacts
  <2>16. /\ flags.method # "" => cfg.request.method = flags.method
         /\ flags.limit # "" => cfg.request.limit = flags.limit
    <3> DEFINE r == OverrideRequest(Base.request, flags)
    <3>1. /\ r \in Requests
          /\ flags.method # "" => r.method = flags.method
          /\ flags.limit # "" => r.limit = flags.limit
      <4>1. r \in Requests
        BY <2>1, <2>2, OverrideKeeps DEF Configs
      <4> QED
        BY <2>2, <4>1 DEF OverrideRequest, Requests
    <3> HIDE DEF r
    <3>2. DefaultRequest(r).method = r.method /\ (r.limit # "" => DefaultRequest(r).limit = r.limit)
      BY <3>1 DEF DefaultRequest, DefaultLimit, Requests
    <3> QED
      BY <2>6, <3>1, <3>2 DEF r
  <2>17. cfg.scenario.steps = Normalize(file).scenario.steps
    <3>1. /\ cfg.scenario.steps = [i \in DOMAIN Base.scenario.steps |-> DefaultStep(Base.scenario.steps[i])]
          /\ file \in Configs /\ (~flags.file => file = EmptyConfig)
      BY <1>1, <2>1, PlanFacts DEF PlanInv
    <3>2. Normalize(file).scenario.steps = [i \in DOMAIN file.scenario.steps |-> DefaultStep(file.scenario.steps[i])]
      BY <3>1, NormalizeKeeps
    <3>3. CASE ~flags.file
      BY <3>1, <3>2, <3>3 DEF Base
    <3>4. CASE flags.file
      <4> DEFINE given == file.scenario.steps
                 n     == Normalize(file).scenario.steps
      <4>1. Base.scenario.steps = n /\ n = [i \in DOMAIN given |-> DefaultStep(given[i])] /\ given \in Seq(Steps)
        BY <3>1, <3>2, <3>4 DEF Base, Configs
      <4>2. cfg.scenario.steps = [i \in DOMAIN n |-> DefaultStep(n[i])]
        BY <3>1, <4>1
      <4> HIDE DEF given, n
      <4>3. DOMAIN n = DOMAIN given /\ \A i \in DOMAIN given : DefaultStep(n[i]) = n[i]
        BY <4>1, StepIdempotent
      <4>4. cfg.scenario.steps = [i \in DOMAIN given |-> DefaultStep(given[i])]
        BY <4>1, <4>2, <4>3
      <4> QED
        BY <4>1, <4>4 DEF n
    <3> QED
      BY <3>3, <3>4
  <2> QED
    BY <2>10, <2>11, <2>12, <2>13, <2>14, <2>15, <2>16, <2>17
<1>2. ASSUME PlanInv, Plain, pc \in {"preflight", "plan", "run", "running", "report", "write", "verdict"}
      PROVE  cfg.load = Normalize(file).load /\ cfg.hosts = file.hosts
  <2>1. Overridden
    BY <1>2 DEF PlanInv, Running
  <2>2. ValidateConfig(file)
    BY <1>2, <2>1 DEF Overridden, Loaded, Plain
  <2> QED
    BY <1>2, <2>1, <2>2, PlainAccepted DEF Overridden
<1>3. PlanInv /\ RefusalInv => PrecedenceHolds
  BY <1>1, <1>2, Zenon DEF PrecedenceHolds, RefusalInv, Plain
<1>4. Init => RefusalInv
  BY DEF Init, RefusalInv
<1>5. Spec => []RefusalInv
  BY <1>4, RefusalNext, PlanInvariant, CodeInvariant, PTL DEF Spec
<1> QED
  BY <1>3, <1>5, PlanInvariant, PTL

-----------------------------------------------------------------------------
(* The compiled profile                                                     *)

\* Running totals of the integers d[1..n]
IsTotal(f, n, d) == f \in [0..n -> Int] /\ f[0] = 0 /\ \A i \in 1..n : f[i] = f[i - 1] + d[i]

LEMMA TotalExists ==
  ASSUME NEW n \in Nat, NEW d, \A i \in 1..n : d[i] \in Int
  PROVE  \E f : IsTotal(f, n, d)
<1> DEFINE g == [p \in (1..n) \X Int |-> p[2] + d[p[1]]]
<1>1. \A i \in 1..n : \A v \in Int : g[<<i, v>>] = v + d[i] /\ g[<<i, v>>] \in Int
  OBVIOUS
<1> HIDE DEF g
<1>2. PICK f \in [0..n -> Int] : IsRecursive(f, n, 0, g)
  <2> DEFINE V == Int
  <2>1. 0 \in V
    OBVIOUS
  <2>2. \A i \in 1..n : \A v \in V : g[<<i, v>>] \in V
    BY <1>1
  <2>3. \E f \in [0..n -> V] : IsRecursive(f, n, 0, g)
    <3> HIDE DEF V
    <3> QED
      BY <2>1, <2>2, RecursionExists
  <2> QED
    BY <2>3
<1>3. f[0] = 0
  BY <1>2 DEF IsRecursive
<1>4. ASSUME NEW i \in 1..n PROVE f[i] = f[i - 1] + d[i]
  <2>1. i \in 0..n /\ i # 0 /\ i - 1 \in 0..n
    OBVIOUS
  <2>2. f[i] = g[<<i, f[i - 1]>>]
    BY <1>2, <2>1 DEF IsRecursive
  <2>3. f[i - 1] \in Int
    BY <2>1
  <2> QED
    BY <1>1, <2>2, <2>3
<1> QED
  BY <1>3, <1>4 DEF IsTotal

\* Each part starts where the one before ends, the first at 0.
LEMMA OffsetsFacts ==
  ASSUME NEW parts, NEW n \in Nat, n = Len(parts), \A i \in 1..n : parts[i].duration \in Int
  PROVE  /\ Offsets(parts) \in [1..(n + 1) -> Int] /\ Offsets(parts)[1] = 0
         /\ \A i \in 1..n : Offsets(parts)[i + 1] = Offsets(parts)[i] + parts[i].duration
<1> DEFINE d == [i \in 1..n |-> parts[i].duration]
           Unfold(u) == [i \in 1..(Len(parts) + 1) |-> IF i = 1 THEN 0 ELSE u[i - 1] + parts[i - 1].duration]
           start == CHOOSE u : u = Unfold(u)
<1>1. PICK f : IsTotal(f, n, d)
  <2>1. \A i \in 1..n : d[i] \in Int
    OBVIOUS
  <2> HIDE DEF d
  <2> QED
    BY <2>1, TotalExists
<1>2. \E u : u = Unfold(u)
  <2> DEFINE w == [i \in 1..(n + 1) |-> f[i - 1]]
  <2>1. ASSUME NEW i \in 1..(n + 1) PROVE w[i] = Unfold(w)[i]
    <3>1. CASE i = 1
      BY <1>1, <3>1 DEF IsTotal
    <3>2. CASE i # 1
      <4>1. i - 1 \in 1..n /\ i - 1 \in 1..(n + 1)
        BY <3>2
      <4>2. f[i - 1] = f[(i - 1) - 1] + parts[i - 1].duration
        BY <1>1, <4>1 DEF IsTotal
      <4> QED
        BY <3>2, <4>1, <4>2
    <3> QED
      BY <3>1, <3>2
  <2> DEFINE v == Unfold(w)
  <2>2. w = [i \in 1..(n + 1) |-> w[i]] /\ v = [i \in 1..(n + 1) |-> v[i]]
    OBVIOUS
  <2>3. \A i \in 1..(n + 1) : w[i] = v[i]
    BY <2>1
  <2>4. w = v
    <3> HIDE DEF w, v
    <3> QED
      BY <2>2, <2>3
  <2> QED
    BY <2>4
<1>3. start = Unfold(start)
  BY <1>2
<1>4. Offsets(parts) = start
  BY DEF Offsets
<1> HIDE DEF start
<1>5. start[1] = 0 /\ DOMAIN start = 1..(n + 1)
  BY <1>3
<1>6. ASSUME NEW i \in 1..n PROVE start[i + 1] = start[i] + parts[i].duration
  <2>1. i + 1 \in 1..(n + 1) /\ i + 1 # 1 /\ (i + 1) - 1 = i
    OBVIOUS
  <2> QED
    BY <1>3, <2>1
<1>7. ASSUME NEW i \in 1..(n + 1) PROVE start[i] \in Int
  <2> DEFINE P == {k \in 0..n : start[k + 1] \in Int}
  <2>1. 0 \in P
    BY <1>5
  <2>2. ASSUME NEW k \in 0..(n - 1), k \in P PROVE k + 1 \in P
    <3>1. k + 1 \in 1..n
      OBVIOUS
    <3>2. start[(k + 1) + 1] = start[k + 1] + parts[k + 1].duration
      BY <1>6, <3>1
    <3>3. start[k + 1] \in Int /\ parts[k + 1].duration \in Int
      BY <2>2, <3>1
    <3> QED
      BY <3>1, <3>2, <3>3
  <2>3. 0..n \subseteq P
    <3> HIDE DEF P
    <3> QED
      BY <2>1, <2>2, IntervalInduction
  <2>4. i - 1 \in 0..n /\ (i - 1) + 1 = i
    OBVIOUS
  <2>5. i - 1 \in P
    BY <2>3, <2>4
  <2> QED
    BY <2>4, <2>5
<1>8. start \in [1..(n + 1) -> Int]
  <2>1. start = [i \in 1..(n + 1) |-> start[i]]
    BY <1>3
  <2> QED
    BY <1>7, <2>1
<1> QED
  BY <1>4, <1>5, <1>6, <1>8

LEMMA SourceDurationFacts ==
  ASSUME NEW source \in Seq(Segments)
  PROVE  \E f : /\ SourceDuration(source) = f[Len(source)]
                /\ IsTotal(f, Len(source), [i \in 1..Len(source) |-> source[i].duration])
<1> DEFINE n == Len(source)
           d == [i \in 1..n |-> source[i].duration]
           Unfold(u) == [i \in 0..Len(source) |-> IF i = 0 THEN 0 ELSE u[i - 1] + source[i].duration]
           upTo == CHOOSE u : u = Unfold(u)
<1>0. n \in Nat /\ \A i \in 1..n : source[i].duration \in Int
  <2>1. n \in Nat /\ \A i \in 1..n : source[i] \in Segments
    <3> HIDE DEF Segments
    <3> QED
      BY ElementOfSeq, LenProperties
  <2>2. \A s \in Segments : s.duration \in Int
    BY DEF Segments
  <2> QED
    BY <2>1, <2>2
<1>1. PICK f : IsTotal(f, n, d)
  <2>1. \A i \in 1..n : d[i] \in Int
    BY <1>0
  <2> HIDE DEF d, n
  <2> QED
    BY <1>0, <2>1, TotalExists
<1>2. f = Unfold(f)
  <2>1. f = [i \in 0..n |-> f[i]]
    BY <1>1 DEF IsTotal
  <2>2. \A i \in 0..n : f[i] = IF i = 0 THEN 0 ELSE f[i - 1] + source[i].duration
    BY <1>0, <1>1 DEF IsTotal
  <2> QED
    BY <2>1, <2>2
<1>3. upTo = Unfold(upTo)
  BY <1>2
<1>4. SourceDuration(source) = upTo[n]
  BY DEF SourceDuration
<1> HIDE DEF upTo
<1>5. upTo[0] = 0 /\ \A i \in 1..n : upTo[i] = upTo[i - 1] + source[i].duration
  BY <1>0, <1>3
<1>6. \A i \in 0..n : upTo[i] \in Int
  <2> DEFINE P == {k \in 0..n : upTo[k] \in Int}
  <2>1. 0 \in P
    BY <1>0, <1>5
  <2>2. ASSUME NEW k \in 0..(n - 1), k \in P PROVE k + 1 \in P
    <3>1. k + 1 \in 1..n /\ (k + 1) - 1 = k
      BY <1>0
    <3>2. upTo[k + 1] = upTo[k] + source[k + 1].duration
      BY <1>5, <3>1
    <3>3. upTo[k] \in Int /\ source[k + 1].duration \in Int
      BY <1>0, <2>2, <3>1
    <3> QED
      BY <3>1, <3>2, <3>3
  <2>3. 0..n \subseteq P
    <3> HIDE DEF P, n
    <3> QED
      BY <1>0, <2>1, <2>2, IntervalInduction
  <2> QED
    BY <2>3
<1>7. upTo \in [0..n -> Int]
  <2>1. upTo = [i \in 0..n |-> upTo[i]]
    BY <1>3
  <2> QED
    BY <1>6, <2>1
<1>8. IsTotal(upTo, n, d)
  BY <1>5, <1>7 DEF IsTotal
<1> QED
  BY <1>4, <1>8

\* What is appended does not move the parts before.
LEMMA ConcatOffsets ==
  ASSUME NEW S, NEW A \in Seq(S), NEW B \in Seq(S), \A p \in S : p.duration \in Int
  PROVE  /\ Offsets(A)[Len(A) + 1] \in Int
         /\ Offsets(A \o B) \in [1..(Len(A) + Len(B) + 1) -> Int]
         /\ Offsets(A \o B)[Len(A) + 1] = Offsets(A)[Len(A) + 1]
         /\ \A j \in 1..Len(B) :
                Offsets(A \o B)[Len(A) + j + 1] = Offsets(A \o B)[Len(A) + j] + B[j].duration
<1> DEFINE C == A \o B
           a == Len(A)
           b == Len(B)
<1>1. a \in Nat /\ b \in Nat /\ (\A i \in 1..a : A[i].duration \in Int) /\ (\A i \in 1..b : B[i].duration \in Int)
  BY ElementOfSeq, LenProperties
<1>2. Len(C) = a + b /\ \A i \in 1..(a + b) : C[i] = IF i <= a THEN A[i] ELSE B[i - a]
  BY ConcatProperties
<1>3. \A i \in 1..a : C[i] = A[i]
  BY <1>1, <1>2
<1>4. \A j \in 1..b : C[a + j] = B[j]
  BY <1>1, <1>2
<1>5. \A i \in 1..(a + b) : C[i].duration \in Int
  <2> SUFFICES ASSUME NEW i \in 1..(a + b) PROVE C[i].duration \in Int
    OBVIOUS
  <2>1. CASE i <= a
    BY <1>1, <1>3, <2>1
  <2>2. CASE ~(i <= a)
    <3>1. i - a \in 1..b
      BY <1>1, <2>2
    <3>2. C[i] = B[i - a]
      BY <1>2, <2>2
    <3> QED
      BY <1>1, <3>1, <3>2
  <2> QED
    BY <2>1, <2>2
<1> HIDE DEF C, a, b
<1>6. /\ Offsets(A) \in [1..(a + 1) -> Int] /\ Offsets(A)[1] = 0
      /\ \A i \in 1..a : Offsets(A)[i + 1] = Offsets(A)[i] + A[i].duration
  <2>1. a = Len(A)
    BY DEF a
  <2> QED
    BY <1>1, <2>1, OffsetsFacts
<1>7. /\ Offsets(C) \in [1..(a + b + 1) -> Int] /\ Offsets(C)[1] = 0
      /\ \A i \in 1..(a + b) : Offsets(C)[i + 1] = Offsets(C)[i] + C[i].duration
  <2>1. a + b \in Nat
    BY <1>1
  <2> DEFINE n == a + b
  <2>2. n = Len(C) /\ n \in Nat /\ \A i \in 1..n : C[i].duration \in Int
    BY <1>2, <1>5, <2>1
  <2>3. /\ Offsets(C) \in [1..(n + 1) -> Int] /\ Offsets(C)[1] = 0
        /\ \A i \in 1..n : Offsets(C)[i + 1] = Offsets(C)[i] + C[i].duration
    <3> HIDE DEF n
    <3> QED
      BY <2>2, OffsetsFacts
  <2> QED
    BY <2>3
<1>8. Offsets(C)[a + 1] = Offsets(A)[a + 1]
  <2> DEFINE P == {k \in 0..a : Offsets(C)[k + 1] = Offsets(A)[k + 1]}
  <2>1. 0 \in P
    BY <1>1, <1>6, <1>7
  <2>2. ASSUME NEW k \in 0..(a - 1), k \in P PROVE k + 1 \in P
    <3>1. k + 1 \in 1..a /\ k + 1 \in 1..(a + b)
      BY <1>1
    <3>2. Offsets(C)[(k + 1) + 1] = Offsets(C)[k + 1] + C[k + 1].duration
      BY <1>7, <3>1
    <3>3. Offsets(A)[(k + 1) + 1] = Offsets(A)[k + 1] + A[k + 1].duration
      BY <1>6, <3>1
    <3>4. k + 1 \in 0..a
      BY <3>1
    <3> QED
      BY <1>3, <2>2, <3>1, <3>2, <3>3, <3>4
  <2>3. 0..a \subseteq P
    <3> HIDE DEF P
    <3> QED
      BY <1>1, <2>1, <2>2, IntervalInduction
  <2>4. a \in P
    BY <1>1, <2>3
  <2> QED
    BY <2>4
<1>9. ASSUME NEW j \in 1..b PROVE Offsets(C)[a + j + 1] = Offsets(C)[a + j] + B[j].duration
  <2>1. a + j \in 1..(a + b)
    BY <1>1
  <2>2. Offsets(C)[(a + j) + 1] = Offsets(C)[a + j] + C[a + j].duration
    BY <1>7, <2>1
  <2> QED
    BY <1>4, <2>2
<1>10. Offsets(A)[a + 1] \in Int
  <2>1. a + 1 \in 1..(a + 1)
    BY <1>1
  <2> QED
    BY <1>6, <2>1
<1> QED
  BY <1>7, <1>8, <1>9, <1>10 DEF C, a, b

\* n numbers, the first r of them q + 1 and the others q
Share(k, q, r) == q + (IF k - 1 < r THEN 1 ELSE 0)

LEMMA ShareTotal ==
  ASSUME NEW n \in Nat, NEW f, NEW d, IsTotal(f, n, d), NEW q \in Int, NEW r \in 0..n,
         \A k \in 1..n : d[k] = Share(k, q, r)
  PROVE  f[n] = n * q + r
<1> DEFINE least(k) == IF k < r THEN k ELSE r
           P == {k \in 0..n : f[k] = k * q + least(k)}
<1>1. 0 \in P
  BY DEF IsTotal
<1>2. ASSUME NEW k \in 0..(n - 1), k \in P PROVE k + 1 \in P
  <2>1. k + 1 \in 1..n /\ k + 1 \in 0..n /\ (k + 1) - 1 = k
    OBVIOUS
  <2>2. f[k + 1] = f[k] + d[k + 1]
    BY <2>1 DEF IsTotal
  <2>3. d[k + 1] = q + (IF k < r THEN 1 ELSE 0)
    BY <2>1 DEF Share
  <2>4. f[k] = k * q + least(k)
    BY <1>2
  <2>5. (k + 1) * q = k * q + q /\ k * q \in Int
    OBVIOUS
  <2>6. least(k + 1) = least(k) + (IF k < r THEN 1 ELSE 0)
    OBVIOUS
  <2>7. least(k) \in Int
    OBVIOUS
  <2> HIDE DEF least
  <2>8. f[k + 1] = (k + 1) * q + least(k + 1)
    BY <2>2, <2>3, <2>4, <2>5, <2>6, <2>7
  <2> QED
    BY <2>1, <2>8
<1>3. 0..n \subseteq P
  <2> HIDE DEF P
  <2> QED
    BY <1>1, <1>2, IntervalInduction
<1>4. n \in P
  BY <1>3
<1> QED
  BY <1>4

LEMMA Division ==
  ASSUME NEW d \in Nat, NEW n \in Nat, n > 0
  PROVE  d \div n \in Int /\ d % n \in 0..n /\ n * (d \div n) + (d % n) = d
OBVIOUS

LEMMA EvenTotal ==
  ASSUME NEW n \in Nat, n > 0, NEW d \in Nat, NEW f, NEW e, IsTotal(f, n, e),
         \A k \in 1..n : e[k] = Share(k, d \div n, d % n)
  PROVE  f[n] = d
<1> DEFINE q == d \div n
           r == d % n
<1>1. q \in Int /\ r \in 0..n /\ n * q + r = d
  BY Division
<1>2. \A k \in 1..n : e[k] = Share(k, q, r)
  OBVIOUS
<1> HIDE DEF q, r
<1>3. f[n] = n * q + r
  BY <1>1, <1>2, ShareTotal
<1> QED
  BY <1>1, <1>3

\* A block of parts that share the duration d evenly ends d later.
LEMMA BlockEnd ==
  ASSUME NEW S, NEW A \in Seq(S), NEW B \in Seq(S), \A p \in S : p.duration \in Int,
         NEW d \in Nat, NEW n \in Nat, n > 0, n = Len(B),
         \A k \in 1..n : B[k].duration = d \div n + (IF k - 1 < d % n THEN 1 ELSE 0)
  PROVE  Offsets(A \o B)[Len(A \o B) + 1] = Offsets(A)[Len(A) + 1] + d
<1> DEFINE a == Len(A)
           off == Offsets(A \o B)
           base == Offsets(A)[a + 1]
           f == [j \in 0..n |-> off[a + 1 + j] - base]
           e == [j \in 1..n |-> B[j].duration]
<1>0. a \in Nat /\ Len(A \o B) = a + n
  BY LenProperties, ConcatProperties
<1>1. /\ base \in Int /\ off \in [1..(a + n + 1) -> Int] /\ off[a + 1] = base
      /\ \A j \in 1..n : off[a + j + 1] = off[a + j] + B[j].duration
  <2>1. /\ Offsets(A)[Len(A) + 1] \in Int
        /\ Offsets(A \o B) \in [1..(Len(A) + Len(B) + 1) -> Int]
        /\ Offsets(A \o B)[Len(A) + 1] = Offsets(A)[Len(A) + 1]
        /\ \A j \in 1..Len(B) :
               Offsets(A \o B)[Len(A) + j + 1] = Offsets(A \o B)[Len(A) + j] + B[j].duration
    BY ConcatOffsets, ZenonT(60)
  <2> QED
    BY <2>1, Zenon
<1>2. \A j \in 1..n : B[j].duration \in Int
  BY ElementOfSeq
<1> HIDE DEF a, off, base
<1>3. f \in [0..n -> Int]
  <2>1. \A j \in 0..n : a + 1 + j \in 1..(a + n + 1)
    BY <1>0
  <2>2. \A j \in 0..n : off[a + 1 + j] \in Int
    BY <1>1, <2>1
  <2> QED
    BY <1>1, <2>2
<1>4. f[0] = 0
  BY <1>0, <1>1
<1>5. ASSUME NEW j \in 1..n PROVE f[j] = f[j - 1] + e[j]
  <2>1. j - 1 \in 0..n /\ j \in 0..n /\ a + 1 + j = a + j + 1 /\ a + 1 + (j - 1) = a + j /\ a + j \in 1..(a + n + 1)
    BY <1>0
  <2>2. off[a + j + 1] = off[a + j] + B[j].duration /\ off[a + j] \in Int
    BY <1>1, <2>1
  <2>3. f[j] = off[a + j + 1] - base /\ f[j - 1] = off[a + j] - base
    BY <2>1
  <2> QED
    BY <1>1, <1>2, <2>2, <2>3
<1>6. IsTotal(f, n, e)
  BY <1>3, <1>4, <1>5 DEF IsTotal
<1>7. f[n] = off[a + n + 1] - base
  <2>1. n \in 0..n /\ a + 1 + n = a + n + 1
    BY <1>0
  <2> QED
    BY <2>1
<1>8. f[n] = d
  <2>1. \A k \in 1..n : e[k] = Share(k, d \div n, d % n)
    BY DEF Share
  <2> HIDE DEF f, e
  <2> QED
    BY <1>6, <2>1, EvenTotal, Zenon
<1>9. off[a + n + 1] \in Int
  <2>1. a + n + 1 \in 1..(a + n + 1)
    BY <1>0
  <2> QED
    BY <1>1, <2>1
<1>10. off[a + n + 1] = base + d
  <2> DEFINE x == off[a + n + 1]
  <2>1. x - base = d
    BY <1>7, <1>8
  <2>2. x \in Int /\ base \in Int
    BY <1>1, <1>9
  <2> HIDE DEF x
  <2>3. x = base + d
    BY <2>1, <2>2
  <2> QED
    BY <2>3 DEF x
<1> QED
  BY <1>0, <1>10 DEF off, base, a

Block(source, unit, i) == [k \in 1..Parts(source[i]) |-> CompilePart(source[i], k - 1, unit)]
AllParts(source, unit) == UNION {{CompilePart(source[i], k, unit) : k \in Int} : i \in 1..Len(source)}

\* The prefixes of the expansion
IsExpansion(u, source, unit) ==
  /\ u \in [0..Len(source) -> Seq(AllParts(source, unit))]
  /\ u[0] = <<>>
  /\ \A i \in 1..Len(source) : u[i] = u[i - 1] \o Block(source, unit, i)

Splits(source) == \A i \in 1..Len(source) : source[i].steps = 0 \/ source[i].steps >= 2

LEMMA BlockFacts ==
  ASSUME NEW source \in Seq(Segments), NEW unit, Splits(source), NEW i \in 1..Len(source)
  PROVE  /\ Parts(source[i]) \in Nat /\ Parts(source[i]) > 0
         /\ Block(source, unit, i) \in Seq(AllParts(source, unit))
         /\ Len(Block(source, unit, i)) = Parts(source[i])
         /\ \A k \in 1..Parts(source[i]) : Block(source, unit, i)[k] = CompilePart(source[i], k - 1, unit)
<1> DEFINE n == Parts(source[i])
           S == AllParts(source, unit)
           b(k) == CompilePart(source[i], k - 1, unit)
<1>1. source[i] \in Segments
  <2> HIDE DEF Segments
  <2> QED
    BY ElementOfSeq
<1>2. source[i].steps \in Int
  BY <1>1 DEF Segments
<1>3. n \in Nat /\ n > 0
  BY <1>2 DEF Splits, Parts
<1>4. \A k \in 1..n : b(k) \in S
  <2>1. \A k \in 1..n : k - 1 \in Int
    BY <1>3
  <2> QED
    BY <2>1 DEF AllParts
<1>5. Block(source, unit, i) = [k \in 1..n |-> b(k)]
  BY DEF Block
<1> HIDE DEF n, S, b
<1>6. [k \in 1..n |-> b(k)] \in Seq(S) /\ Len([k \in 1..n |-> b(k)]) = n
  BY <1>3, <1>4
<1> QED
  BY <1>3, <1>5, <1>6 DEF n, S, b

LEMMA PartDurations ==
  ASSUME NEW source \in Seq(Segments), NEW unit, Splits(source)
  PROVE  \A p \in AllParts(source, unit) : p.duration \in Int
<1>0. ASSUME NEW p \in AllParts(source, unit)
      PROVE  \E i \in 1..Len(source), k \in Int : p = CompilePart(source[i], k, unit)
  BY <1>0 DEF AllParts
<1> SUFFICES ASSUME NEW i \in 1..Len(source), NEW k \in Int
             PROVE  CompilePart(source[i], k, unit).duration \in Int
  BY <1>0, Zenon
<1>1. Parts(source[i]) \in Nat /\ Parts(source[i]) > 0
  BY BlockFacts, ZenonT(60)
<1>2. source[i].duration \in Int
  <2>1. source[i] \in Segments
    <3> HIDE DEF Segments
    <3> QED
      BY ElementOfSeq
  <2> QED
    BY <2>1 DEF Segments
<1>3. CompilePart(source[i], k, unit).duration = PartDuration(source[i], k)
  BY DEF CompilePart
<1> QED
  BY <1>1, <1>2, <1>3 DEF PartDuration

LEMMA ExpandFacts ==
  ASSUME NEW source \in Seq(Segments), NEW unit, Splits(source)
  PROVE  \E u : IsExpansion(u, source, unit) /\ Expand(source, unit) = u[Len(source)]
<1> DEFINE n == Len(source)
           V == Seq(AllParts(source, unit))
           g == [p \in (1..n) \X V |-> p[2] \o Block(source, unit, p[1])]
           Unfold(u) == [i \in 0..Len(source) |->
                            IF i = 0 THEN <<>>
                            ELSE u[i - 1] \o [k \in 1..Parts(source[i]) |-> CompilePart(source[i], k - 1, unit)]]
           upTo == CHOOSE u : u = Unfold(u)
<1>0. n \in Nat
  BY LenProperties
<1>1. <<>> \in V
  OBVIOUS
<1>2. \A i \in 1..n : \A v \in V : g[<<i, v>>] = v \o Block(source, unit, i) /\ v \o Block(source, unit, i) \in V
  <2>1. \A i \in 1..n : Block(source, unit, i) \in V
    BY BlockFacts
  <2>2. \A v, w \in V : v \o w \in V
    BY ConcatProperties
  <2> HIDE DEF V, n
  <2> QED
    BY <2>1, <2>2
<1>3. PICK f \in [0..n -> V] : IsRecursive(f, n, <<>>, g)
  <2>1. \A i \in 1..n : \A v \in V : g[<<i, v>>] \in V
    <3> HIDE DEF n, V, g
    <3> QED
      BY <1>2
  <2> HIDE DEF n, V, g
  <2> QED
    BY <1>0, <1>1, <2>1, RecursionExists, Zenon
<1>4. f = Unfold(f)
  <2>1. \A i \in 0..n : i # 0 => i \in 1..n /\ i - 1 \in 0..n
    BY <1>0
  <2>2. \A i \in 0..n : i # 0 => g[<<i, f[i - 1]>>] = f[i - 1] \o Block(source, unit, i)
    <3> HIDE DEF g, V, n
    <3> QED
      BY <1>2, <1>3, <2>1
  <2>3. f = [i \in 0..n |-> IF i = 0 THEN <<>> ELSE f[i - 1] \o Block(source, unit, i)]
    <3> HIDE DEF g, V, n
    <3> QED
      BY <1>3, <2>2 DEF IsRecursive
  <2> QED
    BY <2>3 DEF Block
<1>5. upTo = Unfold(upTo)
  BY <1>4
<1>6. Expand(source, unit) = upTo[n]
  BY DEF Expand
<1>7. upTo = [i \in 0..n |-> IF i = 0 THEN <<>> ELSE upTo[i - 1] \o Block(source, unit, i)]
  <2> HIDE DEF upTo
  <2> QED
    BY <1>5 DEF Block
<1> HIDE DEF upTo, V, n, g
<1>8. upTo[0] = <<>> /\ \A i \in 1..n : upTo[i] = upTo[i - 1] \o Block(source, unit, i)
  <2>1. \A i \in 0..n : upTo[i] = IF i = 0 THEN <<>> ELSE upTo[i - 1] \o Block(source, unit, i)
    BY <1>7, Zenon
  <2>2. 0 \in 0..n /\ \A i \in 1..n : i \in 0..n /\ i # 0
    BY <1>0
  <2> QED
    BY <2>1, <2>2, Zenon
<1>9. \A i \in 0..n : upTo[i] \in V
  <2> DEFINE P == {k \in 0..n : upTo[k] \in V}
  <2>1. 0 \in P
    BY <1>0, <1>1, <1>8
  <2>2. ASSUME NEW k \in 0..(n - 1), k \in P PROVE k + 1 \in P
    <3>1. k + 1 \in 1..n /\ (k + 1) - 1 = k /\ k + 1 \in 0..n
      BY <1>0
    <3>2. upTo[k + 1] = upTo[k] \o Block(source, unit, k + 1)
      BY <1>8, <3>1
    <3> QED
      BY <1>2, <2>2, <3>1, <3>2
  <2>3. 0..n \subseteq P
    <3> HIDE DEF P
    <3> QED
      BY <1>0, <2>1, <2>2, IntervalInduction
  <2> QED
    BY <2>3
<1>10. upTo \in [0..n -> V]
  <2>1. upTo = [i \in 0..n |-> upTo[i]]
    BY <1>7
  <2> QED
    BY <1>9, <2>1
<1> QED
  BY <1>6, <1>8, <1>10 DEF IsExpansion, n, V

\* What validation leaves of the stages: known, in order, each with a duration
Staged(source) ==
  /\ \A i \in 1..Len(source) : source[i].stage \in StageSet /\ source[i].duration > 0
  /\ \A i, j \in 1..Len(source) : i < j => Rank(source[i].stage) <= Rank(source[j].stage)

\* The stages of the parts A are in order and those of the first n segments.
InOrder(A, source, n) ==
  /\ \A m \in 1..Len(A) : \E i \in 1..n : A[m].stage = source[i].stage
  /\ \A m \in 1..(Len(A) - 1) : Rank(A[m].stage) <= Rank(A[m + 1].stage)

LEMMA RankIsNumber == \A s \in StageSet : Rank(s) \in 1..3
<1> SUFFICES ASSUME NEW s \in StageSet PROVE Rank(s) \in 1..3
  OBVIOUS
<1>1. \E i \in 1..3 : Stages[i] = s
  BY DEF StageSet
<1> QED
  BY <1>1 DEF Rank

LEMMA OrderKept ==
  ASSUME NEW S, NEW A \in Seq(S), NEW B \in Seq(S), NEW source \in Seq(Segments), Staged(source),
         NEW n \in 1..Len(source), InOrder(A, source, n - 1), \A k \in 1..Len(B) : B[k].stage = source[n].stage
  PROVE  InOrder(A \o B, source, n)
<1> DEFINE C == A \o B
           a == Len(A)
           b == Len(B)
           N == Len(source)
<1>1. a \in Nat /\ b \in Nat /\ N \in Nat
  BY LenProperties
<1>2. Len(C) = a + b /\ \A m \in 1..(a + b) : C[m] = IF m <= a THEN A[m] ELSE B[m - a]
  BY ConcatProperties
<1>3. \A m \in 1..(a + b) : m <= a => m \in 1..a /\ C[m] = A[m]
  BY <1>1, <1>2
<1>4. \A m \in 1..(a + b) : ~(m <= a) => C[m].stage = source[n].stage
  <2> SUFFICES ASSUME NEW m \in 1..(a + b), ~(m <= a) PROVE C[m].stage = source[n].stage
    OBVIOUS
  <2>1. m - a \in 1..b /\ C[m] = B[m - a]
    BY <1>1, <1>2
  <2> QED
    BY <2>1
<1>5. n \in 1..N /\ n \in 1..n /\ n \in Nat /\ \A i \in 1..(n - 1) : i \in 1..n /\ i \in 1..N /\ i < n
  BY <1>1
<1>6. \A i \in 1..N : source[i].stage \in StageSet
  BY DEF Staged
<1>7. \A i, j \in 1..N : i < j => Rank(source[i].stage) <= Rank(source[j].stage)
  BY DEF Staged
<1>8. \A m \in 1..a : \E i \in 1..(n - 1) : A[m].stage = source[i].stage
  BY DEF InOrder
<1>9. \A m \in 1..(a - 1) : Rank(A[m].stage) <= Rank(A[m + 1].stage)
  BY DEF InOrder
<1> HIDE DEF C, a, b, N
<1>10. ASSUME NEW m \in 1..(a + b) PROVE \E i \in 1..n : C[m].stage = source[i].stage
  <2>1. CASE m <= a
    BY <1>3, <1>5, <1>8, <2>1
  <2>2. CASE ~(m <= a)
    BY <1>4, <1>5, <2>2
  <2> QED
    BY <2>1, <2>2
<1>11. ASSUME NEW m \in 1..((a + b) - 1) PROVE Rank(C[m].stage) <= Rank(C[m + 1].stage)
  <2>0. m \in 1..(a + b) /\ m + 1 \in 1..(a + b) /\ m \in Int
    BY <1>1
  <2>1. CASE m + 1 <= a
    <3>1. m \in 1..(a - 1) /\ m <= a
      BY <1>1, <2>0, <2>1
    <3> QED
      BY <1>3, <1>9, <2>0, <2>1, <3>1
  <2>2. CASE m <= a /\ ~(m + 1 <= a)
    <3>1. PICK i \in 1..(n - 1) : C[m].stage = source[i].stage
      BY <1>3, <1>8, <2>0, <2>2
    <3>2. Rank(source[i].stage) <= Rank(source[n].stage)
      BY <1>5, <1>7
    <3> QED
      BY <1>4, <2>0, <2>2, <3>1, <3>2
  <2>3. CASE ~(m <= a)
    <3>1. ~(m + 1 <= a)
      BY <1>1, <2>0, <2>3
    <3>2. C[m].stage = source[n].stage /\ C[m + 1].stage = source[n].stage
      BY <1>4, <2>0, <2>3, <3>1
    <3>3. Rank(source[n].stage) \in 1..3
      BY <1>5, <1>6, RankIsNumber
    <3>4. Rank(source[n].stage) <= Rank(source[n].stage)
      BY <3>3
    <3> QED
      BY <3>2, <3>4, Zenon
  <2> QED
    BY <2>1, <2>2, <2>3
<1>12. (\A m \in 1..Len(C) : \E i \in 1..n : C[m].stage = source[i].stage)
       /\ \A m \in 1..(Len(C) - 1) : Rank(C[m].stage) <= Rank(C[m + 1].stage)
  BY <1>2, <1>10, <1>11
<1> QED
  BY <1>12 DEF InOrder, C

\* The parts of the source together: as long as it, and in its order
LEMMA ExpansionFacts ==
  ASSUME NEW source \in Seq(Segments), NEW unit, Splits(source), Staged(source), Len(source) > 0
  PROVE  LET parts == Expand(source, unit)
         IN  /\ parts \in Seq(AllParts(source, unit)) /\ Len(parts) > 0
             /\ Offsets(parts)[Len(parts) + 1] = SourceDuration(source)
             /\ SourceDuration(source) > 0
             /\ InOrder(parts, source, Len(source))
<1> DEFINE n == Len(source)
           S == AllParts(source, unit)
           d == [i \in 1..n |-> source[i].duration]
<1>1. n \in Nat /\ n > 0
  BY LenProperties
<1>2. PICK u : IsExpansion(u, source, unit) /\ Expand(source, unit) = u[n]
  BY ExpandFacts
<1>3. PICK f : SourceDuration(source) = f[n] /\ IsTotal(f, n, d)
  BY SourceDurationFacts
<1>4. u \in [0..n -> Seq(S)] /\ u[0] = <<>> /\ \A i \in 1..n : u[i] = u[i - 1] \o Block(source, unit, i)
  BY <1>2 DEF IsExpansion
<1>5. /\ f \in [0..n -> Int] /\ f[0] = 0
      /\ \A i \in 1..n : f[i] = f[i - 1] + source[i].duration
  BY <1>3 DEF IsTotal
<1>6. \A p \in S : p.duration \in Int
  BY PartDurations
<1>7. \A i \in 1..n : source[i].duration \in Int /\ source[i].duration > 0
  <2>1. \A i \in 1..n : source[i] \in Segments
    <3> HIDE DEF Segments
    <3> QED
      BY ElementOfSeq
  <2>2. \A s \in Segments : s.duration \in Int
    BY DEF Segments
  <2> QED
    BY <2>1, <2>2 DEF Staged
<1> DEFINE Good(i) == /\ Offsets(u[i])[Len(u[i]) + 1] = f[i]
                      /\ Len(u[i]) >= i
                      /\ f[i] >= i
                      /\ InOrder(u[i], source, i)
           P == {i \in 0..n : Good(i)}
<1>8. 0 \in P
  <2>1. Len(u[0]) = 0
    BY <1>4
  <2>2. Offsets(u[0])[1] = 0
    <3>1. \A i \in 1..0 : u[0][i].duration \in Int
      OBVIOUS
    <3> DEFINE z == 0
               p == u[0]
    <3>2. z \in Nat /\ z = Len(p) /\ \A i \in 1..z : p[i].duration \in Int
      BY <2>1, <3>1
    <3>3. Offsets(p)[1] = 0
      <4> HIDE DEF z, p
      <4> QED
        BY <3>2, OffsetsFacts
    <3> QED
      BY <3>3
  <2>3. InOrder(u[0], source, 0)
    BY <2>1 DEF InOrder
  <2> QED
    BY <1>1, <1>5, <2>1, <2>2, <2>3
<1>9. ASSUME NEW k \in 0..(n - 1), k \in P PROVE k + 1 \in P
  <2> DEFINE i == k + 1
             A == u[k]
             B == Block(source, unit, i)
             m == Parts(source[i])
  <2>1. i \in 1..n /\ i - 1 = k /\ k \in 0..n /\ i \in 0..n /\ i \in 1..Len(source) /\ i \in Int /\ k \in Int
    BY <1>1
  <2>2. /\ m \in Nat /\ m > 0 /\ B \in Seq(S) /\ Len(B) = m
        /\ \A j \in 1..m : B[j] = CompilePart(source[i], j - 1, unit)
    BY <2>1, BlockFacts
  <2>3. A \in Seq(S) /\ u[i] = A \o B
    BY <1>4, <2>1
  <2>4. Good(k)
    BY <1>9
  <2>5. f[i] = f[k] + source[i].duration /\ f[k] \in Int /\ source[i].duration \in Nat /\ source[i].duration > 0
    BY <1>5, <1>7, <2>1
  <2>6. \A j \in 1..m : B[j].stage = source[i].stage /\ B[j].duration = PartDuration(source[i], j - 1)
    <3>1. \A s, j : /\ CompilePart(s, j, unit).stage = s.stage
                    /\ CompilePart(s, j, unit).duration = PartDuration(s, j)
      BY DEF CompilePart
    <3> QED
      BY <2>2, <3>1, Zenon
  <2>7. Offsets(u[i])[Len(u[i]) + 1] = f[i]
    <3> DEFINE e == source[i].duration
    <3>1. \A j \in 1..m : B[j].duration = e \div m + (IF j - 1 < e % m THEN 1 ELSE 0)
      BY <2>6 DEF PartDuration
    <3>2. e \in Nat
      BY <2>5
    <3> HIDE DEF S, A, B, m, e
    <3>3. Offsets(A \o B)[Len(A \o B) + 1] = Offsets(A)[Len(A) + 1] + e
      BY <1>6, <2>2, <2>3, <3>1, <3>2, BlockEnd
    <3>4. Offsets(A)[Len(A) + 1] = f[k]
      BY <2>4 DEF A
    <3>5. f[i] = f[k] + e
      BY <2>5 DEF e
    <3> QED
      BY <2>3, <3>3, <3>4, <3>5, Zenon
  <2>8. Len(u[i]) >= i
    <3>1. Len(u[i]) = Len(A) + m /\ Len(A) \in Nat
      <4> HIDE DEF S, A, B, m
      <4> QED
        BY <2>2, <2>3, ConcatProperties, LenProperties
    <3>2. Len(A) >= k
      BY <2>4
    <3> HIDE DEF A, m
    <3> QED
      BY <2>1, <2>2, <3>1, <3>2
  <2>9. f[i] >= i
    <3>1. f[k] >= k
      BY <2>4
    <3> QED
      BY <2>1, <2>5, <3>1
  <2>10. InOrder(u[i], source, i)
    <3>1. InOrder(A, source, i - 1)
      BY <2>1, <2>4
    <3>2. \A j \in 1..Len(B) : B[j].stage = source[i].stage
      BY <2>2, <2>6
    <3> HIDE DEF S, A, B, m, i
    <3>3. InOrder(A \o B, source, i)
      BY <2>1, <2>2, <2>3, <3>1, <3>2, OrderKept
    <3> QED
      BY <2>3, <3>3
  <2>11. Good(i)
    BY <2>7, <2>8, <2>9, <2>10
  <2> HIDE DEF Good
  <2> QED
    BY <2>1, <2>11
<1>10. 0..n \subseteq P
  <2> HIDE DEF P, n
  <2> QED
    BY <1>1, <1>8, <1>9, IntervalInduction
<1>11. Good(n)
  <2>1. n \in 0..n
    BY <1>1
  <2> HIDE DEF Good
  <2> QED
    BY <1>10, <2>1
<1>12. f[n] \in Int /\ Len(u[n]) \in Nat /\ u[n] \in Seq(S)
  <2>1. n \in 0..n
    BY <1>1
  <2>2. f[n] \in Int /\ u[n] \in Seq(S)
    BY <1>4, <1>5, <2>1
  <2> HIDE DEF S
  <2> QED
    BY <2>2, LenProperties
<1>13. f[n] > 0 /\ Len(u[n]) > 0
  BY <1>1, <1>11, <1>12
<1> QED
  BY <1>2, <1>3, <1>11, <1>12, <1>13

\* The profile of a validated open load can be compiled as the lemmas above need.
LEMMA SourceFacts ==
  ASSUME NEW load \in Loads, NEW schema, validateOpenLoad(load, schema)
  PROVE  /\ Source(load) \in Seq(Segments) /\ Len(Source(load)) > 0
         /\ Splits(Source(load)) /\ Staged(Source(load))
         /\ Compiles(Source(load), load.unit)
<1>1. Compiles(Source(load), load.unit)
  BY DEF validateOpenLoad
<1>2. load.segments \in Seq(Segments) /\ load.duration \in Int /\ load.rate \in Int
  <2> HIDE DEF Segments
  <2> QED
    BY DEF Loads
<1>3. CASE load.segments # <<>>
  <2> DEFINE s == load.segments
  <2>1. Source(load) = s
    BY <1>3 DEF Source
  <2>2. validateProfileSegments(s)
    BY <1>3 DEF validateOpenLoad
  <2>3. DOMAIN s = 1..Len(s) /\ Len(s) \in Nat
    <3> HIDE DEF Segments, s
    <3> QED
      BY <1>2, LenProperties DEF s
  <2>4. Len(s) > 0
    <3> HIDE DEF s
    <3> QED
      BY <2>2, CeilingsAssumption DEF validateProfileSegments
  <2> HIDE DEF s
  <2>5. Splits(s)
    BY <2>2, <2>3 DEF validateProfileSegments, Splits
  <2>6. Staged(s)
    BY <2>2, <2>3 DEF validateProfileSegments, Staged
  <2> QED
    BY <1>1, <1>2, <2>1, <2>4, <2>5, <2>6 DEF s
<1>4. CASE load.segments = <<>>
  <2> DEFINE measured == "measured"
             r == [name |-> measured, stage |-> measured, duration |-> load.duration,
                   rate |-> load.rate, startRate |-> 0, endRate |-> 0, steps |-> 0]
  <2>1. Source(load) = <<r>>
    BY <1>4 DEF Source
  <2>2. measured \in Text /\ measured \in StageSet
    <3>1. Stages[2] = measured
      BY DEF Stages
    <3>2. 2 \in 1..3
      OBVIOUS
    <3> QED
      BY <3>1, <3>2, Literals DEF StageSet
  <2>3. load.duration > 0
    BY <1>4 DEF validateOpenLoad
  <2> HIDE DEF measured
  <2>4. r \in Segments
    BY <1>2, <2>2 DEF Segments
  <2>5. r.stage = measured /\ r.duration = load.duration /\ r.steps = 0
    OBVIOUS
  <2> HIDE DEF r
  <2>6. <<r>> \in Seq(Segments) /\ Len(<<r>>) = 1 /\ <<r>>[1] = r
    <3> HIDE DEF Segments
    <3> QED
      BY <2>4
  <2>7. \A i \in 1..1 : i = 1
    OBVIOUS
  <2>8. Splits(<<r>>)
    BY <2>5, <2>6, <2>7 DEF Splits
  <2>9. Staged(<<r>>)
    BY <2>2, <2>3, <2>5, <2>6, <2>7 DEF Staged
  <2> QED
    BY <1>1, <2>1, <2>6, <2>8, <2>9
<1> QED
  BY <1>3, <1>4

LEMMA CompileFacts ==
  ASSUME NEW source \in Seq(Segments), NEW unit, Splits(source), Staged(source), Len(source) > 0, Compiles(source, unit)
  PROVE  LET c == Compile(source, unit)
         IN  /\ Len(c) > 0 /\ DOMAIN c = 1..Len(c)
             /\ c[1].start = 0 /\ c[Len(c)].end = SourceDuration(source) /\ SourceDuration(source) > 0
             /\ \A i \in DOMAIN c : c[i].start < c[i].end /\ c[i].interval > 0
             /\ \A i \in 1..(Len(c) - 1) : c[i].end = c[i + 1].start /\ Rank(c[i].stage) <= Rank(c[i + 1].stage)
             /\ \A i \in DOMAIN c : /\ c[i].stage \in StageSet /\ c[i].start \in Nat /\ c[i].end \in Nat
                                   /\ \E p \in AllParts(source, unit) : c[i].interval = p.interval
<1> DEFINE parts == Expand(source, unit)
           n == Len(parts)
           off == Offsets(parts)
           S == AllParts(source, unit)
           c == Compile(source, unit)
<1>1. /\ parts \in Seq(S) /\ n > 0 /\ off[n + 1] = SourceDuration(source)
      /\ SourceDuration(source) > 0 /\ InOrder(parts, source, Len(source))
  BY ExpansionFacts
<1>2. n \in Nat /\ DOMAIN parts = 1..n /\ \A i \in 1..n : parts[i].duration \in Int
  <2>1. \A p \in S : p.duration \in Int
    BY PartDurations
  <2> HIDE DEF parts, S
  <2> QED
    BY <1>1, <2>1, LenProperties, ElementOfSeq
<1>3. \A i \in 1..n : parts[i].interval > 0 /\ parts[i].duration > 0
  <2>1. \A i \in DOMAIN Expand(source, unit) : parts[i].interval > 0 /\ parts[i].duration > 0
    BY DEF Compiles
  <2> QED
    BY <1>2, <2>1, Zenon
<1>4. c = [i \in 1..n |-> [stage |-> parts[i].stage, num |-> parts[i].num, den |-> parts[i].den,
                           interval |-> parts[i].interval, start |-> off[i], end |-> off[i + 1]]]
  <2>1. c = [i \in DOMAIN parts |->
                [stage |-> parts[i].stage, num |-> parts[i].num, den |-> parts[i].den,
                 interval |-> parts[i].interval, start |-> off[i], end |-> off[i + 1]]]
    BY DEF Compile
  <2>2. DOMAIN parts = 1..n
    BY <1>2
  <2> HIDE DEF c, parts, n, off
  <2> QED
    BY <2>1, <2>2
<1>5. n = Len(parts) /\ off = Offsets(parts)
  OBVIOUS
<1>6. \A m \in 1..(n - 1) : Rank(parts[m].stage) <= Rank(parts[m + 1].stage)
  BY <1>1 DEF InOrder
<1> HIDE DEF c, parts, n, off, S
<1>7. /\ off \in [1..(n + 1) -> Int] /\ off[1] = 0
      /\ \A i \in 1..n : off[i + 1] = off[i] + parts[i].duration
  BY <1>2, <1>5, OffsetsFacts
<1>8. DOMAIN c = 1..n
  BY <1>4
<1>9. Len(c) = n
  BY <1>2, <1>4
<1>10. \A i \in 1..n : c[i].stage = parts[i].stage /\ c[i].interval = parts[i].interval /\ c[i].start = off[i] /\ c[i].end = off[i + 1]
  BY <1>4
<1>11. 1 \in 1..n /\ n \in 1..n /\ \A i \in 1..(n - 1) : i \in 1..n /\ i + 1 \in 1..n
  BY <1>1, <1>2
<1>12. c[1].start = 0 /\ c[n].end = SourceDuration(source)
  BY <1>1, <1>7, <1>10, <1>11
<1>13. ASSUME NEW i \in 1..n PROVE c[i].start < c[i].end /\ c[i].interval > 0
  <2>1. i \in 1..(n + 1)
    BY <1>2
  <2>2. off[i] \in Int /\ off[i + 1] = off[i] + parts[i].duration
    BY <1>7, <2>1
  <2>3. parts[i].duration \in Int /\ parts[i].duration > 0 /\ parts[i].interval > 0
    BY <1>2, <1>3
  <2>4. off[i] < off[i + 1]
    BY <2>2, <2>3
  <2> QED
    BY <1>10, <2>3, <2>4
<1>14. ASSUME NEW i \in 1..(n - 1) PROVE c[i].end = c[i + 1].start /\ Rank(c[i].stage) <= Rank(c[i + 1].stage)
  BY <1>6, <1>10, <1>11
<1>15. \A k \in 0..n : off[k + 1] \in Nat
  <2> DEFINE P == {k \in 0..n : off[k + 1] \in Nat}
  <2>1. 0 \in P
    BY <1>2, <1>7
  <2>2. ASSUME NEW k \in 0..(n - 1), k \in P PROVE k + 1 \in P
    <3>1. k + 1 \in 1..n /\ k + 1 \in 0..n
      BY <1>2
    <3>2. off[(k + 1) + 1] = off[k + 1] + parts[k + 1].duration
      BY <1>7, <3>1
    <3>3. off[k + 1] \in Nat /\ parts[k + 1].duration \in Int /\ parts[k + 1].duration > 0
      BY <1>2, <1>3, <2>2, <3>1
    <3> QED
      BY <3>1, <3>2, <3>3
  <2>3. 0..n \subseteq P
    <3> HIDE DEF P
    <3> QED
      BY <1>2, <2>1, <2>2, IntervalInduction
  <2> QED
    BY <2>3
<1>16. ASSUME NEW i \in 1..n
       PROVE  /\ c[i].stage \in StageSet /\ c[i].start \in Nat /\ c[i].end \in Nat
              /\ \E p \in S : c[i].interval = p.interval
  <2>1. c[i].stage \in StageSet
    <3>1. PICK k \in 1..Len(source) : parts[i].stage = source[k].stage
      BY <1>1, <1>5, Zenon DEF InOrder
    <3>2. source[k].stage \in StageSet
      BY DEF Staged
    <3> QED
      BY <1>10, <3>1, <3>2, Zenon
  <2>2. off[i] \in Nat /\ off[i + 1] \in Nat
    <3>1. i - 1 \in 0..n /\ i \in 0..n /\ (i - 1) + 1 = i
      BY <1>2
    <3> QED
      BY <1>15, <3>1
  <2>3. parts[i] \in S
    BY <1>1, <1>2, <1>5, ElementOfSeq
  <2> QED
    BY <1>10, <2>1, <2>2, <2>3
<1>17. /\ Len(c) > 0 /\ DOMAIN c = 1..Len(c)
       /\ c[1].start = 0 /\ c[Len(c)].end = SourceDuration(source) /\ SourceDuration(source) > 0
       /\ \A i \in DOMAIN c : c[i].start < c[i].end /\ c[i].interval > 0
       /\ \A i \in 1..(Len(c) - 1) : c[i].end = c[i + 1].start /\ Rank(c[i].stage) <= Rank(c[i + 1].stage)
  BY <1>1, <1>8, <1>9, <1>12, <1>13, <1>14
<1>18. \A i \in DOMAIN c : /\ c[i].stage \in StageSet /\ c[i].start \in Nat /\ c[i].end \in Nat
                           /\ \E p \in AllParts(source, unit) : c[i].interval = p.interval
  BY <1>8, <1>16 DEF S
<1> QED
  BY <1>17, <1>18 DEF c

\* What Valid accepts, both constructors accept.
LEMMA ValidIsSchedulable ==
  ASSUME NEW c \in Configs, Valid(c)
  PROVE  Schedulable(c)
<1>1. c.load \in Loads
  <2> HIDE DEF Loads
  <2> QED
    BY DEF Configs
<1>2. CASE validateClosedLoad(c.load)
  BY <1>2 DEF validateClosedLoad, Schedulable
<1>3. CASE validateOpenLoad(c.load, c.schema)
  <2> DEFINE s == Source(c.load)
  <2>1. /\ s \in Seq(Segments) /\ Len(s) > 0 /\ Splits(s) /\ Staged(s) /\ Compiles(s, c.load.unit)
    BY <1>1, <1>3, SourceFacts
  <2>2. c.load.model = "open" /\ c.load.unit > 0 /\ c.load.inFlight > 0
    BY <1>3, <2>1 DEF validateOpenLoad, Compiles
  <2>3. EffectiveDuration(c.load) > 0
    <3>1. CASE c.load.segments = <<>>
      BY <1>3, <3>1 DEF validateOpenLoad, EffectiveDuration
    <3>2. CASE c.load.segments # <<>>
      <4> DEFINE p == Compile(s, c.load.unit)
      <4>1. p[Len(p)].end > 0
        <5>1. p[Len(p)].end = SourceDuration(s) /\ SourceDuration(s) > 0
          <6> HIDE DEF s
          <6> QED
            BY <2>1, CompileFacts
        <5> QED
          BY <5>1
      <4>2. s = c.load.segments
        BY <3>2 DEF Source
      <4> HIDE DEF s
      <4> QED
        BY <3>2, <4>1, <4>2 DEF EffectiveDuration
    <3> QED
      BY <3>1, <3>2
  <2> QED
    BY <2>2, <2>3 DEF Schedulable
<1> QED
  BY <1>2, <1>3 DEF Valid, validateLoadConfig

Accepted == err # "scheduler"

LEMMA NeverRefused == PlanInv /\ Accepted /\ [Next]_vars => Accepted'
<1> SUFFICES ASSUME PlanInv, err # "scheduler", [Next]_vars PROVE err' # "scheduler"
  BY DEF Accepted
<1>1. CASE Start
  <2>1. Overridden
    BY <1>1 DEF Start, PlanInv
  <2>2. Schedulable(cfg)
    BY <2>1, PlanFacts, ValidIsSchedulable
  <2> QED
    BY <1>1, <2>2 DEF Start, Goto
<1>2. CASE Judge
  BY <1>2 DEF Judge, Return, Exit, Outcome, Verdict
<1>3. CASE ~Start /\ ~Judge
  BY <1>3 DEF Next, vars, ParseFails, LoadFails, Load, ApplyOverrides, Preflight, LookupFails, Plan, RunReturns,
         PrintReport, WriteReport, WriteFails, CompareReports, Doctor, SelfTest, Cancel, Done, Goto, Return, Exit
<1> QED
  BY <1>1, <1>2, <1>3

\* No scheduler refuses a plan that passed validation, and the segments that an
\* open plan is compiled to follow each other without a gap, in the order of the
\* stages, for exactly the time of the source profile: see PlanIsSchedulable
\* (run.go:71, compiler.go:13).
THEOREM PlansAreSchedulable == Spec => []PlanIsSchedulable
<1>1. ASSUME PlanInv, sent, cfg.load.model = "open"
      PROVE  LET c == Compile(Source(cfg.load), cfg.load.unit)
             IN  /\ c[1].start = 0 /\ c[Len(c)].end = SourceDuration(Source(cfg.load))
                 /\ \A i \in DOMAIN c : c[i].start < c[i].end /\ c[i].interval > 0
                 /\ \A i \in 1..(Len(c) - 1) : c[i].end = c[i + 1].start /\ Rank(c[i].stage) <= Rank(c[i + 1].stage)
  <2>1. cfg \in Configs /\ Valid(cfg)
    BY <1>1, PlanFacts DEF PlanInv
  <2>2. cfg.load \in Loads
    <3> HIDE DEF Loads
    <3> QED
      BY <2>1 DEF Configs
  <2>3. validateOpenLoad(cfg.load, cfg.schema)
    BY <1>1, <2>1 DEF Valid, validateLoadConfig, validateClosedLoad
  <2> DEFINE s == Source(cfg.load)
             unit == cfg.load.unit
  <2>4. /\ s \in Seq(Segments) /\ Len(s) > 0 /\ Splits(s) /\ Staged(s) /\ Compiles(s, unit)
    BY <2>2, <2>3, SourceFacts
  <2> HIDE DEF s, unit
  <2>5. LET c == Compile(s, unit)
        IN  /\ c[1].start = 0 /\ c[Len(c)].end = SourceDuration(s)
            /\ \A i \in DOMAIN c : c[i].start < c[i].end /\ c[i].interval > 0
            /\ \A i \in 1..(Len(c) - 1) : c[i].end = c[i + 1].start /\ Rank(c[i].stage) <= Rank(c[i + 1].stage)
    BY <2>4, CompileFacts
  <2> QED
    BY <2>5 DEF s, unit
<1>2. PlanInv /\ Accepted => PlanIsSchedulable
  BY <1>1 DEF PlanIsSchedulable, Accepted
<1>3. Init => Accepted
  BY DEF Init, Accepted
<1> QED
  BY <1>2, <1>3, PlanInvariant, NeverRefused, PTL DEF Spec

-------------------------------------------------------------------------------
(* What the compiler guarantees is what the open-model scheduler assumes.    *)

Compiled == INSTANCE CompiledProfile

\* The fields of a compiled profile that the scheduler reads
Timetable(c) ==
  [i \in DOMAIN c |-> [stage |-> c[i].stage, start |-> c[i].start, end |-> c[i].end, interval |-> c[i].interval]]

LEMMA PartIntervals ==
  ASSUME NEW source \in Seq(Segments), NEW unit \in Int, Splits(source)
  PROVE  \A p \in AllParts(source, unit) : p.interval \in Int
<1>0. ASSUME NEW p \in AllParts(source, unit)
      PROVE  \E i \in 1..Len(source), k \in Int : p = CompilePart(source[i], k, unit)
  BY <1>0 DEF AllParts
<1> SUFFICES ASSUME NEW i \in 1..Len(source), NEW k \in Int
             PROVE  CompilePart(source[i], k, unit).interval \in Int
  BY <1>0, Zenon
<1> DEFINE s == source[i]
<1>1. Parts(s) \in Nat /\ Parts(s) > 0
  BY BlockFacts, ZenonT(60)
<1>2. s.startRate \in Int /\ s.endRate \in Int /\ s.rate \in Int
  <2>1. s \in Segments
    <3> HIDE DEF Segments
    <3> QED
      BY ElementOfSeq
  <2> QED
    BY <2>1 DEF Segments
<1>3. CompilePart(s, k, unit).interval = IF Num(s, k) > 0 THEN (unit * Den(s)) \div Num(s, k) ELSE 0
  BY DEF CompilePart
<1> HIDE DEF s
<1>4. Den(s) \in Int
  BY <1>1 DEF Den
<1>5. Num(s, k) \in Int
  BY <1>1, <1>2, <1>4 DEF Num
<1>6. unit * Den(s) \in Int
  BY <1>4
<1>7. Num(s, k) > 0 => (unit * Den(s)) \div Num(s, k) \in Int
  BY <1>5, <1>6
<1> QED
  BY <1>3, <1>7 DEF s

LEMMA TimetableFacts ==
  ASSUME NEW source \in Seq(Segments), NEW unit \in Int, Splits(source), Staged(source), Len(source) > 0,
         Compiles(source, unit)
  PROVE  Compiled!WellFormed(Timetable(Compile(source, unit)))
<1> DEFINE c == Compile(source, unit)
           n == Len(c)
           t == Timetable(c)
<1>1. /\ n > 0 /\ DOMAIN c = 1..n /\ c[1].start = 0
      /\ \A i \in 1..n : c[i].start < c[i].end /\ c[i].interval > 0
      /\ \A i \in 1..(n - 1) : c[i].end = c[i + 1].start
      /\ \A i \in 1..n : c[i].stage \in StageSet /\ c[i].start \in Nat /\ c[i].end \in Nat
  BY CompileFacts
<1>2. \A i \in 1..n : c[i].interval \in Nat \ {0}
  <2> SUFFICES ASSUME NEW i \in 1..n PROVE c[i].interval \in Nat \ {0}
    OBVIOUS
  <2>1. PICK p \in AllParts(source, unit) : c[i].interval = p.interval
    BY <1>1, CompileFacts
  <2>2. c[i].interval \in Int
    BY <2>1, PartIntervals
  <2> QED
    BY <1>1, <2>2
<1>3. n \in Nat
  <2>1. Expand(source, unit) \in Seq(AllParts(source, unit))
    BY ExpansionFacts
  <2>2. c \in [DOMAIN Expand(source, unit) -> {c[i] : i \in DOMAIN Expand(source, unit)}]
    BY DEF Compile
  <2> QED
    BY <2>1, <2>2, LenProperties
<1>4. StageSet = Compiled!Stages
  BY DEF StageSet, Stages, Compiled!Stages
<1> HIDE DEF c, n
<1>5. t = [i \in 1..n |-> [stage |-> c[i].stage, start |-> c[i].start, end |-> c[i].end, interval |-> c[i].interval]]
  BY <1>1 DEF Timetable
<1> HIDE DEF t
<1>6. \A i \in 1..n : /\ t[i] \in Compiled!Segments
                      /\ t[i].start = c[i].start /\ t[i].end = c[i].end
  BY <1>1, <1>2, <1>4, <1>5 DEF Compiled!Segments
<1>7. t \in Seq(Compiled!Segments) /\ DOMAIN t = 1..n /\ t # <<>>
  <2> HIDE DEF Compiled!Segments
  <2>1. t \in [1..n -> Compiled!Segments]
    BY <1>5, <1>6
  <2> QED
    BY <1>1, <1>3, <2>1
<1>8. t[1].start = 0 /\ \A i \in 1..n : t[i].start < t[i].end
  BY <1>1, <1>3, <1>6
<1>9. \A i \in 1..n : i > 1 => t[i].start = t[i - 1].end
  <2> SUFFICES ASSUME NEW i \in 1..n, i > 1 PROVE t[i].start = t[i - 1].end
    OBVIOUS
  <2>1. i - 1 \in 1..(n - 1) /\ i - 1 \in 1..n /\ (i - 1) + 1 = i
    BY <1>3
  <2> QED
    BY <1>1, <1>6, <2>1
<1>10. Compiled!WellFormed(t)
  BY <1>7, <1>8, <1>9 DEF Compiled!WellFormed
<1> QED
  BY <1>10 DEF t, c

\* Once a run sends requests under the open model, the profile that its plan was
\* compiled to is one that the scheduler's own specification assumes: its theorems
\* apply to every configuration, file and flags that validation lets through
\* (plan.go:104, compiler.go:13, open.go:205).
THEOREM CompilerMeetsTheScheduler ==
  Spec => [](sent /\ cfg.load.model = "open" =>
                Compiled!WellFormed(Timetable(Compile(Source(cfg.load), cfg.load.unit))))
<1>1. ASSUME PlanInv, sent, cfg.load.model = "open"
      PROVE  Compiled!WellFormed(Timetable(Compile(Source(cfg.load), cfg.load.unit)))
  <2>1. cfg \in Configs /\ Valid(cfg)
    BY <1>1, PlanFacts DEF PlanInv
  <2>2. cfg.load \in Loads
    <3> HIDE DEF Loads
    <3> QED
      BY <2>1 DEF Configs
  <2>3. validateOpenLoad(cfg.load, cfg.schema)
    BY <1>1, <2>1 DEF Valid, validateLoadConfig, validateClosedLoad
  <2> DEFINE s == Source(cfg.load)
             unit == cfg.load.unit
  <2>4. /\ s \in Seq(Segments) /\ Len(s) > 0 /\ Splits(s) /\ Staged(s) /\ Compiles(s, unit)
    BY <2>2, <2>3, SourceFacts
  <2>5. unit \in Int
    BY <2>2 DEF Loads
  <2> HIDE DEF s, unit
  <2>6. Compiled!WellFormed(Timetable(Compile(s, unit)))
    BY <2>4, <2>5, TimetableFacts
  <2> QED
    BY <2>6 DEF s, unit
<1> QED
  BY <1>1, PlanInvariant, PTL DEF Spec
=============================================================================
