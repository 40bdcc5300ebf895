# A TLA+ model of DAEGSA

DAEGSA is an HTTP load generator written in Go: a command line (`cmd/daegsa`) and a desktop
studio (`cmd/daegsa-gui`) that read a configuration, compile it to an immutable plan, run it
with one of two schedulers and report what was measured. This directory models the parts of it
that are concurrent and stateful, and the pure decisions that guard them, checks them with TLC on
small instances, and proves with TLAPS, for every instance, the safety properties of both schedulers, of
a request, of the recording and merging of metrics, of the command line from validation to comparison, of
the test target, of the health sampler, of the virtual clock and of the studio's engine.

## 1. The system

| Component | State it keeps | Operations | What makes it correct |
|---|---|---|---|
| Lifecycle (`core/lifecycle.go`) | the current state, under a mutex | `CanTransitionTo`, `TransitionTo` | only legal orders; callers that ignore the error never need it |
| Open scheduler (`scheduler/open.go`) | in-flight and peak counters (atomic), dispatch channel, dispatcher, worker and segment metrics | `Run`, `scheduleSegment`, `runWorker`, `enterStage` | bounded concurrency, honest drop accounting, no catch-up burst, each request accounted to its segment, `Run` returns and leaves nothing behind |
| Closed scheduler (`scheduler/closed.go`) | in-flight counter, stop channel, one metrics record per virtual user | `Run`, `runVU` | users stop in time, counters reconcile, `Run` returns |
| Scenario (`scenario/`) | per-user variables, cookie jar, iteration number | `ExecuteIteration`, `ExecuteStep`, substitution, extraction | failure policies, cancellation between steps, isolation of users |
| HTTP executor (`executor/`) | transport | `ExecuteRequest` | always a result; the outcome names what happened |
| Metrics (`metrics/`) | per-worker counters, histograms, samples; the segment collector under a mutex; the health sampler goroutine | `RecordResult`, `Flush`, `MergeWorkers`, `MergeAggregates`, `Start`/`Stop`/`Collect` | merging loses and doubles nothing; bounds hold |
| Profile (`profile/`) | none | `Compile` | contiguous segments, no empty segment, no zero interval |
| Thresholds (`threshold/`) | none | parse, `Evaluate` | the verdict follows from the snapshot |
| Clock (`clock/`) | virtual time and pending timers of the mock | `Advance`, `NewTimer`, `Stop`, `Reset` | timers fire once, in order |
| Safety, config, plan | none | preflight, validation, precedence, compilation | nothing runs that was not allowed; precedence of sources |
| Authentication (`auth/`) | a jar per virtual user, a token pool | `GetToken`, `AuthenticateRequest`, `GetJar` | users share neither session nor token by accident |
| CLI (`cli/`) | none | one function per command, exit codes | each failure has its exit code |
| Report, compare (`report/`, `compare/`) | the report file | `BuildReport`, `WriteJSONReport`, `LoadReport`, `Compare` | only judged runs are compared, and a comparison does not contradict their verdicts |
| Doctor, self-test | none | probes, end-to-end checks | the exit code follows from every check |
| Studio (`gui/`) | the form, its compiled plan, `RunState`, `CancelFn`, telemetry, final report, under a mutex | `ValidateCurrentPlan`, `StartExecution`, `StopGracefully`, `AbortExecution`, `runEngine` | one test at a time, of the form that was validated; its result shown; stop and abort reach it |
| Test target (`testtarget/`) | one rate-limit window, the list of recorded requests | `recordRequest`, `Check`, the endpoints | limits at window boundaries, headers that say what was decided, handlers that end |

How they interact: the CLI and the studio build a plan and call `Scheduler.Run(ctx)`. The open
scheduler's dispatcher talks to its workers through a buffered channel, shares two atomic
counters with them and receives their segment metrics through the collector; the closed
scheduler's users see a stop channel and a context. Both call the executor (or the scenario
executor, which calls back after every step), both drive the lifecycle, and both merge their
workers' metrics after all have ended. The studio runs `Run` in a goroutine of its own next to a
telemetry poller, and its buttons write the same state as those goroutines. Each `Run` owns a health
sampler with a goroutine of its own. The self-test and the integration tests run all of it against the
embedded test target, whose rate-limit headers the executor reads back. A report that `run` has written
is the input of a later `compare`.

What is hard: the dispatcher's check-then-act on the in-flight counter; an unguarded channel
send; pacing against a clock that may jump; flushes of several workers into one segment; three
events racing in the drain's select; stage errors in mid-run; cancellation at every point of a
virtual user's loop; the order of start, stop, abort and an engine's last write in the studio; a plan
that outlives the form it was made from; a collection beside a sample under way; windows that end
between, on or long before a request; callers that give up while a handler goes on.
`PROJECT.json` lists each of these under `hazards`, at its line and with the properties aimed at
it.

## 2. Modules

| Module | Models | Notes |
|---|---|---|
| `Lifecycle` | `core/lifecycle.go` | constant operators, shared by both schedulers |
| `OpenScheduler` | `scheduler/open.go`, the counters and first-throttle rule of `metrics/segment.go` | one action per indivisible step of the dispatcher (`pc`) or of a worker (`wpc`) |
| `CompiledProfile` | what the open scheduler reads of a compiled profile, and assumes of it | constant operators; `profile/compiler.go` is shown to guarantee it |
| `AdmissionGate` | what a scheduler promises about admission | abstract; implemented by `OpenScheduler` and by `ClosedScheduler` |
| `OpenScheduler_proofs` | theorems about `OpenScheduler` | |
| `Sums_proofs` | lemmas on sums over finite sets | what merging counters rests on |
| `ClosedScheduler` | `scheduler/closed.go`, `ExecuteIteration` | one action per step of `Run` (`pc`) or of a virtual user (`vpc`) |
| `ClosedScheduler_proofs` | theorems about `ClosedScheduler` | |
| `GuiEngine` | validation and execution in `gui/state.go`, the editors and buttons of `gui/views` that lead to them | one action per click, critical section or blocking step |
| `Metrics` | recording in `metrics/worker.go` and `metrics/ratelimit.go`, merging in `metrics/segment.go` and `metrics/aggregate.go` | merges are operators; workers record, change segment and end |
| `Metrics_proofs` | theorems about `Metrics` | |
| `Outcome` | the classifier of `core/outcome.go`, and what `config/redact.go` leaves of an error | constant operators |
| `RequestAttempt` | `executor/executor.go`, `scenario/executor.go` with substitution and extraction | one worker or user; one action per step that may wait or fail |
| `RequestAttempt_proofs` | theorems about `RequestAttempt` | |
| `Configuration` | `config/validate.go`, `config/precedence.go`, `profile/compiler.go`, `safety/preflight.go`, the refusals of `plan/plan.go` | operators on configurations |
| `Reports` | `report/builder.go`, `report/phase6.go`, `compare/compare.go` | operators on reports |
| `RunCommand` | `cli/` with `threshold/`, `doctor/runner.go` and the verdicts of `selftest/` | one action per step of `RunE` that may fail |
| `RunCommand_proofs` | theorems about `RunCommand`, `Configuration` and `Reports` | |
| `HealthSampler` | `metrics/health.go` and its use by both schedulers | one action per step of `Run` or of the sampling goroutine |
| `Credentials` | `auth/provider.go`, `auth/authenticator.go`, `auth/jar.go` | constant operators |
| `RateLimitHeaders` | the headers of `testtarget/ratelimit.go` and the reading of them in `executor/ratelimit.go` | constant operators |
| `TargetSession` | `testtarget/` and the users that call it | one action per step of a user or a handler |
| `TargetSession_proofs` | theorems about `TargetSession`, `RateLimitHeaders` and `Credentials` | |
| `ControllableClock` | `clock/mock.go` behind the interface of `clock/clock.go` | one action per method; `Advance` is one step per entry it fires |
| `Components_proofs` | theorems about `ControllableClock`, `GuiEngine` and `HealthSampler` | the three share neither state nor names |
| `MC...` | TLC instances of the module they are named after | |

Operators whose name has a suffix after an underscore (`Saturated_OffByOne`) are mutated forms of
the definition that follows them; nothing uses them except the runs that show that a property
notices the bug.

**OpenScheduler.** Time counts ticks from `startTime`; `Tick` moves it while the dispatcher is
anywhere, so a tick can be arbitrarily late within the bound. The positions of the dispatcher are
the gaps between its accesses to shared state: the clock reading at the top of the pacing loop
(`ReadClock`) is separate from the context check (`PollContext`), from the timer, from the second
clock reading (`PlanTick`, `EndedWhileWaiting`), from the saturation check (`Admit`, `Drop`), from
the increment (`Reserve`), from the peak (`RecordPeak`) and from the channel send (`Send`).
Purely local code is folded into the neighbouring step. Counters that only the dispatcher writes
(`Planned`, `Scheduled`, `Dropped`, per run and per segment) are `disp` and `segDisp`. A worker
receives a job, flushing on a change of segment; executes it; decrements the counter; records the
result; and on the closed, empty channel flushes and signals `Done`. `ExecuteRequest` always
returns a result (`executor/executor.go:114-222`); its outcome is `answered`, `rate_limited` (429)
or `canceled`, the last only under a canceled context, and even then an answer may win. The
waiter goroutine that closes `workersDone` is the predicate `WorkersDone`. Three history variables
serve the properties: `stamps`, `throttled`, `lateAdmits`.

**ClosedScheduler.** Nothing it promises depends on durations, so it has no clock: a timer may fire
at any moment once it is started. A virtual user goes through the loop of `runVU`, with
`scenario = <<>>` for a plan without scenario. For a scenario plan the steps run as in
`ExecuteIteration`: the context check, the request, the callback that counts the step, the failure
policy, the think time. The histories `afterStop` and `afterCancel` count requests sent after the
stop channel closed and after the context was canceled.

**GuiEngine.** `sched.Run` is a call that returns at some time, which `RunReturns` of the two
scheduler models justifies. `shown` is the state the last frame was drawn with: it decides which
buttons a click can hit, and may be out of date when the click is handled. A form is one value;
`editors` is what the widgets hold, `builder` what the last click has copied into the state, and
`compiled` the form that the stored plan was made from; `plans` keeps, for each test, the one it was started
with. Whether an executor and a scheduler can be built from a plan is a function of that plan (`Buildable`;
an example of one that compiles and cannot be built is a closed model without users in a form without YAML,
which only `NewClosedScheduler` refuses). A form that cannot be valid is always refused,
and a valid one may be, because the preflight looks its host up; a refusal leaves the older plan in
place, and `PlanIsTheForm` is about that. The outcome of a run (`runErr`) is a free choice; both
schedulers return no error for a canceled run, so an aborted test first reads FAILED and then COMPLETED.

**Metrics.** A result is an outcome, a status, an error and one rate-limit header; a histogram is
its count. Each worker has its run-wide metrics (`overall`) and those of its segment (`current`),
flushed into `collected` when a job of a later segment arrives and when the worker ends. `Merge`
computes the three aggregates `Run` returns: over the workers, per segment, over the measured
segments. `Combine` is what `mergeWorkerMetrics` and `MergeWorkers` have in common; they differ in
how they merge error samples. Workers and segments are numbered, as in the code; its loops over
samples and over workers are recursive functions of how many have been merged. `seen`, a history, says
how often each worker recorded each result in each segment. The scheduling
around it is `OpenScheduler`'s: here any worker may record, move on or end at any time.

**ControllableClock.** The heap is the set of `queued` entries with its order; the mutex is held by
`Advance` while `target` is set. Reading a timer's channel takes no lock. `base` and `fires` are
histories of an entry, `jumped` and `rearmed` of the clock. What `Stop` and `Reset` of a timer return is
`WasActive` of the entry they find.

**RequestAttempt.** A request is built (`BuildFails`, `Send`), sent on by redirects (`Redirect`,
`RedirectRefused`), answered or failed (`Answer`, `DoFails`), classified (`ClassifyFailure`) or read up to
the limit and one byte further (`ReadBody`, `ReadFails`), drained if it was longer (`DrainEnds`, which ignores
errors as the code does) and classified (`ClassifyResponse`), and then `Continue` applies the step's failure
policy. A body is its length (`length`, once it was read without an error); `truncated` is what the result says of it.
`os.ErrClosed` is one of the classifier's inputs and counts as a cancellation there, but no connection or
body of this client is a file, so `DoErrors` has none. A plan without a
scenario is one step without variables; it differs in the redirect rule, in that the context is not
looked at before it begins, and in that it never aborts its user. The caller's context and the
request's deadline end at any moment. A host is an origin; a variable holds a host or something that
no URL may contain, and a URL is made of a host, or of a variable in its place, and of the variables
in its path. What a response delivers is a free choice, also how many of a step's extraction rules
find something, because `ExtractAll` keeps what it set before it failed. `written`, a history, tells
which iteration a value is from.

The two schedulers use this module's conclusions, not its steps: a request always has one result
(`AttemptEnds`), and one that is canceled only under a canceled context (`CanceledOnlyByCaller`).

**Configuration** is a set of functions. A configuration is a record of the fields that some rule
relates to another one; a field that is only compared with its own range is folded into a flag,
`sound`. `Text` is the set of words that a file or a flag may hold; `Configs` and `Flags` are what the YAML
decoder and cobra can produce, with numbers of either sign. A rate is a fraction and time counts ticks, so that the truncation of an interval and the
remainder of a ramp's duration are the code's integer arithmetic. A URL is the host it names or one
of the shapes that a check tells apart. **RunCommand** strings them together in the order of `RunE`.
A scheduler's run is one call that returns any metrics whose measured part and steps lie within the
whole, or an error. What `OpenScheduler` assumes of its profiles
(`ProfilesAssumption`) holds of what a started run has compiled (`CompilerMeetsTheScheduler` in section 4), and `TrafficIsCleared` is what `RequestAttempt` assumes of the hosts in its plans:
a host that only a variable names, or a URL without one, passes or fails the preflight without being
known, and is `RouteIsAllowed`'s concern. `compare` is given two files, each what an earlier run left
(`Archived`), together with that run's exit code, so that the comparison can be held against the two
verdicts; or it is given something that is not a report (`Unreadable`). A run without
`--output-json` writes `NoFile`. For `doctor` and `self-test` the results of the
probes and the metrics of the subtests are free choices; what is modelled is how the verdict follows.

**Reports.** A report is the part of the JSON file that a comparison reads. The plan stands for its
fingerprint. A rate is a fraction, so a percentage is compared without rounding. Only a plan of schema 2
has the summary of its measured part; others are compared by the counts of the whole run.

**HealthSampler.** `run` is where `Run` stands and `pc` where the sampling goroutine does; a sample is
read before the lock is taken and compared under it, so `Collect` can come between. `Stop` is deferred:
it comes after `Collect`, and the last sample never reaches the report. `lags` and `stored` are
histories up to `Collect`. A lag counts clock units, `Micro` of which are a microsecond, since
`RecordSchedulerLag` truncates.

**TargetSession.** A request goes through `Record`, `Check` and its endpoint, each an action, because
each takes a lock of its own and others come between; the endpoint answers at once, sleeps, hangs or drops
the connection. The caller may give up at any of these points: it can then make another request while
the handler of the first is still at work. An answer brings cookies into the jar of its user; a redirect
is a new request to the target, which the limiter judges again. `Second` makes the rounding of the
headers visible: seconds are rounded up, dates and epoch values down. `admits` and `sessions` are
histories: when requests were admitted, and what a user's own answers have left it with. How the client
classifies an answer is in `RequestAttempt`.

## 3. Runs

| Run | Instance | Shows |
|---|---|---|
| `open_safety` | 2 workers; a steady profile; warm-up, measured and cool-down at two rates; profiles whose first or second stage is refused | admission, pacing, counters, reports per segment and in total, stages, shutdown, refinement of the gate |
| `open_live` | 2 workers, fair | `Run` returns |
| `closed_safety` | 2 users, 2 rounds each, fair; single requests, scenarios with every failure policy | counters, bounds after stop and after cancellation, nothing left behind, `Run` returns |
| `gui_safety` | 2 tests, 3 forms of which 2 are valid and 1 can be built, fair | one engine at a time, no stale plan; an engine that launched ends exactly when it is canceled |
| `gui_abort` | 3 tests, 1 form, which can be built | violation, section 6 |
| `clock_safety` | 2 timers or tickers, durations 0, 1 and 3, time up to 3, 1 waiter | firing on schedule, nothing overdue, truthful return values for unfired timers, a waiter forgotten only until the next timer |
| `metrics_merge` | 2 workers, 3 segments of which 2 are measured, 3 results of 5 kinds, room for 2 error kinds and 1 header sample | counts, header consistency and error samples of all aggregates |
| `metrics_samples` | 1 worker, 2 equal errors | violation, section 6 |
| `attempt_safety` | 1 user, fair; 3 hosts of which 2 are allowed; a two-step login whose second host is fixed, missing or from a variable; a single request under each redirect policy; bodies of length 0, 1 and 2 with a limit of 1 | hosts, body limits, redirects, classification, extraction; a request ends |
| `cli_run` | about 40 files and 400 command lines, 4 outcomes of a run, the reports of earlier runs | clearance, compilation, precedence, exit codes, comparison |
| `target_session` | 1 to 3 users, 3 requests, fair; a limit of 1 per window of 1.5 seconds, every header style; sessions with and without jars, every kind of credential, a pool of 2 tokens, two redirects, a delay, a hang, a drop | windows, headers, isolation of users, calls that end |
| `health` | lags and goroutine counts below, at and above their limits, fair | an exact record, a joined goroutine, a `Stop` that returns |

Bounds. Two workers are the least with which one worker decrements while another executes, two
flush into one segment, and the channel holds more than one job; the profiles plan more requests
than there are workers, so dropping, queueing and crossing a segment with a job still queued all
occur. `MaxLate` lets the clock pass the end of the profile, and a pending timer may always be
reached. `MaxRounds` bounds the requests or iterations a user begins; a third round revisits the
same control states with larger counters. Three tests are the least with which a cancel function
is overwritten under a running engine; for the properties that hold, two tests are enough for one engine
to end beside the next, and three forms for one that runs, one that is valid but cannot be built, and an invalid one. The limits on samples are below the number of kinds there
are, so that lists overflow in a worker and in a merge. Durations 1 and 3 let one `Advance` pass
several ticks of one ticker and one of another; duration 0 is due at once. `MaxAttempts` is four, two
iterations of the login, so that the second meets the values of the first; `MaxRedirectHops` is three
instead of ten, enough to reach the limit after a hop off the first host; the lengths of bodies lie below, at
and above `BodyLimit`. In `cli_run` a second is
four ticks, so that the highest rate has an interval of one tick and the next would have none; the
ramp's steps do not divide its duration; and the ceilings of the preflight are values that some file
or flag exceeds. The files and command lines vary one aspect at a time around a valid one, with the
combinations that the overrides treat specially. In `target_session` a window is one and a half
seconds, so that no reset falls on whole seconds by itself, the clock passes more than two windows, and
the clock's origin lies above the epoch threshold, as the real one does. Three users and two tokens let a
pool wrap around. The two lists that only grow, `recorded` and the calls, are capped. In `health` the
number of slots needs no bound, since only the largest lag and the warnings remain of them. Workers are symmetric in `open_safety`; no other
run is reduced. Deadlock is checked in every run but three: the studio may stop for good when the user does
nothing, the target when nobody calls it, and the sampler's `Run` when it has returned; the others end in
a step of their own.

Fairness. Every goroutine that can run does (`WF` on the dispatcher or `Run`, on each worker or
user), time passes, and timers fire. The target is not fair: a request need never return unless
its context is canceled, in which case the HTTP client gives up (`WF` on that). In the studio the
poller's select may take a tick whenever one is there, so its exit needs `SF`, which Go's random
choice among ready cases gives; so does the sampling goroutine's, whose ticker may always be ready too.
The user is never obliged to click. The target's handlers run on, answers that are there are read, every
caller has a deadline (`GiveUp`), and time passes; nobody has to make a request. For a
request, its own deadline expires (one without a timeout gets a default), and under a context that has
ended the HTTP client returns an error, the reading of a body fails and the draining ends; without that the target may
answer, redirect or stall for ever.

## 4. Proofs

`OpenScheduler_proofs` proves, for every finite non-empty pool, every set of profiles that satisfies
`ProfilesAssumption` (`WellFormed` of `CompiledProfile`: what `profile.Compile` guarantees,
`profile/compiler.go:44-53,59-73`, which `CompilerMeetsTheScheduler` below proves of its model), and
every grace window:

- `TypeCorrect`, `InFlightIsExact`, `SendIsFree`, `LeavesNothingBehind`: the types, and the invariants
  `InFlightExact`, `SendNeverBlocks` and `NothingLeftBehind`. None is inductive. `Accounting` proves
  the invariant `AccountInv` they follow from: the types; the exact count
  `inFlight = Len(jobs) + executing + reserved`; `ReserveHasRoom`, that between the dispatcher's
  check and its increment there is still room, because workers only decrement; `ClosedFromStop`,
  that the channel is closed exactly from the moment scheduling stopped; and `WorkersLeave`, that a
  worker leaves only a closed and empty channel and `Run` passes its waits only when all have
  left. Types and the exact count need each other: the count stays a natural number because a
  worker that finishes is one of those counted.
- `NeverBursts`: `NoCatchUpBurst`, by `PaceInv`: a timer never fires before the target it was
  computed for (although it is computed from an older clock reading), and the next target is at
  least `n` intervals after the segment's start and no more than one interval before the time the
  last tick allows.
- `CancelStopsDispatch`: `AtMostOneLateAdmit`, by `LateInv`: once the context has ended, an admission is
  possible only from the positions behind the context check, and each of them leads back to it.
- `LifecycleIsTrue`: the action property `LifecycleFollowsTheRun`, by `LifecycleInv`: the lifecycle state is
  determined by the dispatcher's position and the stage of its segment.
- `FirstThrottleIsFirst`: `FirstThrottleIsEarliest`, by `ThrottleInv` and `MergedInv`: every throttled offset
  of a segment is covered by the collector or by the worker that has not flushed it yet, and what they hold
  is one of those offsets.
- `ReportIsExact`: `ReportReconciles`, by `Bookkeeping`, whose invariant `ReportInv` relates the dispatcher's
  counters per run and per segment to each other, what is scheduled to what is queued, executing and
  started, what is started to what has returned, and the sum over the workers to the sum over the
  collector and what is not flushed yet. Each step changes one summand, for which `Sums_proofs` has the
  lemmas.
- `Refinement`: `Spec => ImplementsGate`, by the mapping `Gate` in `OpenScheduler`: admitted and
  dropped are the dispatcher's counters, finished is what was admitted and is no longer counted in
  flight. The step proof shows which action is `Admit`, `Drop`, `Finish`, `Close` or `End` and that
  every other one stutters.

`RequestAttempt_proofs` proves, for all hosts, variables, statuses, limits and plans that satisfy
`PlansAssumption` (a non-empty list of steps, whose named hosts the preflight has admitted):

- `RouteStaysAllowed`, `OnlyTheCallerCancels`, `SuccessIsAlwaysEarned`: the invariants `RouteIsAllowed`,
  `CanceledOnlyByCaller` and `SuccessIsEarned`, from one invariant `Inv`. It adds the types; that a
  request under way has been sent somewhere (without which a same-origin redirect has no origin to
  compare with) and a failed one has an error (without which it might classify as a success); that
  an error saying "canceled" came from the caller; and that a body which was read without an error is cut
  exactly if it was longer than the limit (`CutIfTooLong`). The lemmas on `Classify` say which inputs can
  give a success or a cancellation.

`ClosedScheduler_proofs` proves, for every finite set of users, every set of scenarios and every number of
rounds, `CancelIsPrompt`, `StopIsBounded`, `LeavesNothingBehind` and `Reconciles`: the invariants
`CancelStopsUsers`, `LateRequestsBounded`, `NothingLeftBehind` and `ReportReconciles`. They follow from
`ClosedInv` (`ClosedInvariant`): the types; the exact in-flight counter; for each user how far its counters
may be apart at its position; that after a cancellation a user can send only from the position behind its
check (`CancelInv`); that after the stop a user may send what is left of its iteration (`StopInv`); and that
`Run` passes its waits only when all users have left. `ImplementsTheGate` is `Spec => Gate!Spec`: the closed
scheduler implements the same `AdmissionGate` as the open one, with as many places as there are users.
What has been admitted is what has completed and what is being sent, a scenario's steps included, although
the code's own in-flight counter does not count those; nothing is ever dropped; and admission closes when
`Run` has seen the last user leave, not when the stop channel closes, because a user inside its iteration still sends.
TLC has confirmed this refinement on the instance of `closed_safety`; it is not one of that run's properties.

`RunCommand_proofs` proves the properties of the command line for every file, command line, set of hosts,
ceiling, result of a run and archive of reports:

- `TrafficCleared`: `TrafficIsCleared`, from `PlanInv`: at each step the configuration is the function of the
  file and the flags that the code has computed by then, and beyond preflight and planning their checks
  hold of it. The lemmas say what `Normalize` and `Override` leave alone.
- `PrecedenceIsKept`: `PrecedenceHolds`, from `PlanInv` and `RefusalInv`. A second normalisation changes
  nothing, and overriding with no flag leaves a valid file valid. The statement names the one exception: with
  a scenario, `--method` and `--response-body-limit` are accepted and the steps stay as the file has them.
- `PlansAreSchedulable`: `PlanIsSchedulable`. `OffsetsFacts`, `PartDurations`, `BlockFacts` and `ExpandFacts`
  compute what `Compile` returns: the parts of a ramp take the quotient of its duration and the first ones one
  tick each of the remainder, so they are positive and add up; concatenating the blocks keeps the order of the stages; the
  offsets are the running sums. `ValidIsSchedulable` is what validation adds: no part is empty and no
  interval zero.
- `CompilerMeetsTheScheduler`: once a run with the open model sends requests, what its plan was compiled to,
  reduced to the fields that the scheduler reads (`Timetable`), is `WellFormed`. So the assumption under
  which `OpenScheduler_proofs` speaks of its profiles is discharged by `PlanInv` and the lemmas on `Compile`:
  those theorems apply to every file and command line that validation lets through. Beyond
  `PlanIsSchedulable` this takes the types: offsets are natural numbers (by induction over the parts), and
  the truncated interval of a fractional rate is an integer.
- `CodesAreTruthful` and `CanceledFails`: `CodeIsTruthful` from `CodeInv`, and the temporal property
  `CanceledIsNoVerdict`. `CodeInv` carries what was sent, delivered and written, and what the verdict was
  computed from, from each step to the exit.
- `ComparisonsAreSound`: `ComparisonTellsTheVerdict`, from `CompareInv` and the assumption
  `ArchiveAssumption`, that a report file and the exit code kept with it come from a run
  (`cli/run.go:88-124`).

`TargetSession_proofs` proves, for every limit, window, number of users and set-up:

- `WindowNeverOversoldHolds`. The limiter knows only how many requests the current window has admitted, so
  `WindowNeverOversold` is not inductive. `LimiterInv` says where admissions lie relative to `resetAt`:
  those of the current window no more than a window before it, older ones further back, and those before
  the last `Limit` of these more than two windows back. Only `Check` and `Tick` touch what it speaks of;
  `AdmitCurrent` and `AdmitFirst` are the two ways in which `Check` admits.
- `HeadersAreTruthful` and `IdentitiesAreOwn`: `HeadersTellTheVerdict` and `IdentityIsOwn`, from `TargetInv`:
  a request holds the credential and the cookies of its user from its first step on, the headers of an answer
  are those of the verdict that `Check` gave, and every jar holds what its user's answers have left.
  `ReadsVerdict` is the round trip through the headers, with the rounding of each style. It needs
  `ClockAssumption`: the clock stands beyond the threshold that tells an epoch from a number of seconds, and
  a window does not reach it (`executor/ratelimit.go:71`). `SamePlace` and `PoolIdentity` are about the
  remainder by which a pool picks a token.

`Metrics_proofs` proves, for every number of workers and segments, every set of results and all limits,
`EveryResultIsCounted`, `AgreementIsExact` and `ErrorSamplesAreHonest`: the invariants `CountsExact`,
`AgreementExact` and `ErrorSamplesHonest`. The relation `Keeps(full, m, c)` says when a metrics record `m`
stands for `c`, how often each result was recorded:

- its counters are the sums over `c`, by outcome and by status, and so are the header counters;
- `Tells`: the list of header samples is empty exactly when no value was parsed, and the flag says whether
  all values are equal. Comparing each value with the first sample alone, as the code does, is enough
  because of the first half, even when the list is full;
- `Tallies`: the counts of error samples are positive, their kinds distinct and no count too high, and unless there were
  more kinds than the list has room for each kind has its exact count. That counts are positive is what makes a full list
  evidence of that many kinds, and with it merging exact.

The lemmas show that an unused record keeps nothing, that `RecordResult` adds one result, and that
`MergeWorker`, `mergeWorkerMetrics`, `MergeWorkers` and `MergeAggregates` keep the pointwise sum; `full` says
whether `Tallies` is claimed, which it is of the run-wide records and not of those that `mergeWorkerMetrics`
makes. `MetricsAreKept` is the inductive invariant `MetricsInv`: each worker's run-wide
record keeps all it recorded, its current one what it recorded in its segment, it has recorded nothing in later
ones, the collector keeps, per segment, the sum of what the workers have flushed into it, and the merged
aggregates keep the totals. That summing over workers and then over segments gives what summing in the
other order gives (`SumSwap`, `TotalSwap`) makes the run-wide and the per-segment aggregates agree.

`Components_proofs` is about three components that share no state; that is why the specification of each of
them is named after it (`ClockSpec`, `StudioSpec`, `SamplerSpec`).

The virtual clock, for all callers, durations and numbers of timers (`ClockIsKept`, the invariant `ClockInv`):

- `TimersFireOnSchedule`: `FiresOnSchedule`. It takes the types of the entries; `TimeInv`, that time has not
  passed the target of the `Advance` under way nor, unless `Set` has moved it, anything that is still queued,
  which holds because an `Advance` fires the earliest entry first and moves time to it; and
  `ScheduleInv`, that a queued entry is due a whole number of periods after it was armed, and that a timer which has
  not fired is in the heap exactly if `Stop` would return true.
- `WaitersAreNotified`: `NoForgottenWaiter`, in the same invariant. `NewTimer` and `NewTicker`, which add an
  active entry, notify all whom the count satisfies, those whom an earlier `Reset` forgot too; between a `Reset` of an
  entry that is no longer in the heap and the next of them the property says nothing. A `Reset` of one
  that is there adds none only because of `HeapInv`, that nothing in the heap is stopped; without it
  clearing the flag would be enough to make one more entry active, with nobody notified.

The studio's engine, for every number of tests and all forms (`EnginesAreKept`, the invariant `EngineInv`):

- `OneEngineAtATime`: `OneEngineUntilAbort`. The guard of `StartExecution` reads the displayed state, and an
  engine is several steps long, so `OneEngine` says more: until an abort, an engine that is
  active is the one whose context `CancelFn` cancels, and the displayed state is one that the guard refuses.
- `PlanIsOfTheForm`: the action property `PlanIsTheForm`, from `PassInv`: what is shown as PASS was compiled
  from the form in the state, which is valid.
- `FirstAbortReaches`: until the first abort, `AbortExecution` reaches the engine that runs. The run
  `gui_abort` refutes this without the condition; together they say exactly where the finding begins.
- `OnlyCanceledEnginesEnd`: the safety half of `EndsExactlyWhenCanceled`, from `PollerInv`: a poller that has
  left was canceled, and an engine with a poller gets past `awaitPoller` only behind it.

The health sampler, for all lags, counts and limits:

- `SamplerJoinedHolds`, from `JoinInv`: the positions of `Run`, the goroutine and the two channels
  determine each other, so `Run` returns only behind a goroutine that has closed `doneChan`.
- `HealthIsExactHolds`, from `RecordInv`: before `Collect`, the running maxima are those of the
  histories, the warnings are without repetition and say exactly whether something was dropped; after
  it, the record holds what it did then, although samples go on. `Appended` and `LargerIsLargest` are
  the facts about `AppendIfMissing` and the maximum that it rests on.

`Sums_proofs` has the lemmas on `SumFunctionOnSet` that the reports need: a sum of natural numbers is one,
changing one summand changes the sum by the difference, sums can be added, and a sum over the empty set is
zero. Neither these nor what `profile.Compile` computes can be had from the library's induction theorems,
which take an operator as a parameter. They are proved from a least counterexample instead: the set of
sizes, or of indices, at which the statement fails has a smallest element (`LeastNumber`,
`IntervalInduction`), and there the definition is unfolded once. `RecursionExists` shows that a
function defined by recursion on an interval satisfies its equation.

What the proofs changed. TLC had accepted three statements on its instances that do not hold in general:

- `CodeIsTruthful` spoke of every threshold on the error rate; one on a step is judged on the step's counts
  and not on those of the measured run, so the clause is now about thresholds of the whole run.
- `IdentityIsOwn` said that two users with the same token are a multiple of the pool's size apart; the code
  does not refuse a pool that has a token twice (`auth/provider.go:41`), and then they need not be.
- the cases of `AuthenticateRequest` overlapped for an empty token, for which the code sets no header
  (`auth/authenticator.go:62`); now they do not. No pool holds one (`auth/provider.go:47`).

Only model-checked: liveness (both `RunReturns`, the first half of `EndsExactlyWhenCanceled`, `AttemptEnds`, `CallEnds`,
`StopReturns`), which needs fairness and is out of the prover's reach. Every other property that a passing
run checks is a theorem as well.

## 5. Properties

| Property | In words |
|---|---|
| `InFlightExact`, `SendNeverBlocks`, `ImplementsGate` | concurrency is bounded by `max_in_flight`, a request is dropped exactly when the bound is reached, and the dispatcher never hangs on its channel |
| `NoCatchUpBurst` | ticks are never early, and a delay is not made up for by a burst |
| `AtMostOneLateAdmit`, `CancelStopsUsers`, `LateRequestsBounded` | how much load can still go out after a cancellation or a stop |
| `FirstThrottleIsEarliest` | out-of-order answers and flushes do not hide the earliest throttled offset |
| `ReportReconciles` (both) | planned, scheduled, dropped, started, completed, canceled and iteration counts add up in what `Run` returns |
| `NothingLeftBehind` (both), `RunReturns` (both) | `Run` returns and leaves no goroutine, job or count; the closed scheduler's in-flight count is exact for single requests while it runs |
| `LifecycleFollowsTheRun` | a request is dispatched only in the stage and segment it is accounted to, and the lifecycle errors `Run` discards never occur |
| `OneEngineUntilAbort`, `EndsExactlyWhenCanceled` | what the studio's shared state guarantees: one engine until an abort; of the engines that launch, those that are canceled end and no others |
| `PlanIsTheForm` | what is started, and what is shown as PASS, is the form in the state and never an older one |
| `CountsExact`, `AgreementExact`, `ErrorSamplesHonest` | every aggregate counts each result once; headers agree exactly if all values did; error samples are bounded and never overstate |
| `FiresOnSchedule`, `NoForgottenWaiter` | the clock the tests rely on |
| `RouteIsAllowed`, `AttemptEnds` | no request leaves the allowed hosts, whatever responses say; every request ends |
| `CanceledOnlyByCaller`, `SuccessIsEarned` | what the two results that reports depend on most stand for: a cancellation by the caller; an expected status, a body read without an error as far as it is kept, cut only if the result says so, and all variables extracted |
| `TrafficIsCleared` | every target and method of a started run was admitted by the file or the command line |
| `PlanIsSchedulable` | what is validated compiles to adjacent, non-empty segments that no scheduler refuses |
| `PrecedenceHolds` | a flag is obeyed or refused, with the exception of two flags on a scenario; what no flag names stays as the file has it |
| `CodeIsTruthful`, `CanceledIsNoVerdict` | what an exit code says about the run, the machine or the build, and which report files can be compared |
| `ComparisonTellsTheVerdict` | a comparison is made between judged runs only, agrees with their verdicts and is the opposite of its reverse |
| `WindowNeverOversold`, `HeadersTellTheVerdict` | the limiter admits no more than it should at any boundary, and the client reads from the headers what it decided |
| `IdentityIsOwn` | a user brings its own cookies and its own token, whatever others do and whatever answers are lost; two users share a token only if the pool wraps around or repeats it |
| `CallEnds` | every call and every handler ends, of endpoints that hang, drop or answer late too |
| `HealthIsExact`, `SamplerJoined`, `StopReturns` | the health record is that of the whole load, and the goroutine ends with its `Run` |

## 6. Where the code and its documentation disagree

Shown by a run:

- `gui_abort`: the first test is aborted while it is built, and a second is started; the first engine launches its
  load, whose context has ended, leaves its poller behind and publishes, which re-enables starting
  (`state.go:465-474`); a third start overwrites `CancelFn`, and the second engine runs its load
  unreachable for `AbortExecution` (`state.go:335`).
- `metrics_samples`: a sample has an "occurrence count" (`worker.go:23`), but the segment collector
  records a flushed sample as one occurrence (`segment.go:117`).

Noticed while modelling; the models behave as the code does:

- `docs/SAFETY_RUNBOOK.md:130` grants in-flight requests a drain window after an interrupt; the
  workers' context is a child of the canceled one, so they are canceled at once (`open.go:150`). `main.go`
  handles no signal either.
- `InFlight()` of the closed scheduler is the number of requests in flight (`closed.go:99`); the
  scenario loop never counts.
- `graceful_stop` is documented as "no new requests are scheduled" (`lifecycle.go:25`); a user inside an
  iteration sends the remaining steps (`LateRequestsBounded` says how many).
- `StopGracefully` "signals the engine to drain" (`state.go:325`) but only changes the displayed state.
- `BlockUntilTimers` waits until enough timers are registered (`mock.go:196`); `Reset` registers one
  again and wakes nobody (`mock.go:272`), so that a caller waits until another timer is made. `Stop` is to
  return false for an expired timer, and `Reset` likewise (`clock.go:31`, `clock.go:36`); those of the
  controllable clock return true (`mock.go:250`, `mock.go:264`). `FiresOnSchedule` is about timers that have
  not fired.
- A redacted DNS or connection error is classified as another transport error, because `errors.As` no
  longer finds what it wraps. A deadline or cancellation that strikes while the body is read is a
  `response_body_error`.
- Variables survive an iteration: if a step that extracts one fails under `on_failure: continue`, the
  next step sends the value of an earlier iteration.
- Errors of the command-line parser exit with 3, although `exitcode.go:15` has 2 for invalid arguments.
- A threshold on a step that never ran is judged on zeroes, and a run that completed nothing exits
  with 0 when it has no threshold.
- `ApplyCLIOverrides` promises "CLI flag > Environment variable > YAML document > Default"
  (`precedence.go:31`), but `--timeout`, `--redirects`, `--method` and `--response-body-limit` are written to the
  single request only (`precedence.go:44`, `82-93`): with a scenario they are accepted and change nothing.
  `PrecedenceHolds` states the last two as its exception; the first two are folded into `sound`.
- A response beyond the body limit is a success, and an error while the rest of it is drained is ignored
  (`response.go:47-51`); `SuccessIsEarned` says that the result is then marked as truncated.
- A plan from the studio's form has no allowed hosts. The fields of the form are used only when the YAML
  editor is empty, and the request method is neither shown nor copied. It has no redirect policy either, which
  `executor.go:41-63` takes for no restriction but the limit on hops; `RequestAttempt` has the policies that
  validation lets through.
- In the studio a test that ends by itself never reaches its report, because the engine waits for a poller
  that only a canceled context stops (`state.go:437`; `bugs.txt:3` notes the symptom). In `GuiEngine` such
  an engine stays in `awaitPoller`, and `EndsExactlyWhenCanceled` says so.
- The documented ad-hoc command for an open run (`README.md:70`) is refused, because only an omitted model
  gets a default `max_in_flight` (`precedence.go:115`, `validate.go:216`).
- `docs/OPERATIONS.md:165` documents flags of `compare` that do not exist (`--max-p95-regression`,
  `--max-error-rate-increase`, `--output-json`).
- The report of an open run of schema 1 is compared by the counts of the whole run, although its verdict
  came from the measured part.
- `WithClock` of the test target is said to govern rate limits (`server.go:38`), but a limiter has a clock
  of its own.
- The health record is collected before the sampler is stopped, so its last sample never reaches the
  report, and in a very short run the first need not either. `RecordCPUSample` has no caller.
- The scenario executor never calls `AuthenticateRequest`: the `auth` section does not reach its steps.
- The open and the scenario subtests of the self-test report zero errors without counting them.

## 7. Not modelled

Left out for good: formatting, terminal and JSON output, drawing, YAML parsing, environment
expansion, the text of redaction, hashes, the DNS, TLS, socket and resource probes, the packaging scripts:
text processing and I/O without protocol.

Left out of components that are modelled:

- per-step metrics, percentiles and calibration in `Metrics`, which are arithmetic on counts that it has;
- in the test target the sizes of payloads, the drop in the middle of a body (what the client makes of
  one is `ReadFails` in `RequestAttempt`), redirects to a given URL (`Redirect` there) and the reset of the
  recorded requests;
- the deltas of single segments in a comparison, and the further percentiles and rates, which are computed
  like the ones that are there;
- `RunDiagnostics` and `RunComparison` of the studio, which fill forms that no engine goroutine touches.

What no proof covers is liveness (section 4), and what lies between the modules except where an assumption
of one is discharged by a theorem of another, as `ProfilesAssumption` is: that a request ends and is canceled
only by its caller is used by the schedulers' models and proved or checked of `RequestAttempt`, but the two
are not composed.
