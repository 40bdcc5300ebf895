------------------------------ MODULE GuiEngine ------------------------------
(***************************************************************************)
(* How DAEGSA Studio runs a load test (internal/gui/state.go): the UI      *)
(* goroutine handles the editors and buttons of the builder and the        *)
(* monitor views, each accepted StartExecution launches a runEngine        *)
(* goroutine with its own context, and each engine launches a telemetry    *)
(* poller.  All of them share one State under its mutex.  A form is the    *)
(* contents of the builder's editors, YAML included; which forms parse,    *)
(* validate, pass the preflight and compile is a constant, as              *)
(* Configuration models it, but for the lookups, which may fail at any     *)
(* time; and so is whether an executor and a scheduler can be built from   *)
(* the plan, which their constructors decide by its fields alone.          *)
(* sched.Run is abstracted to a call that returns at some moment, which    *)
(* RunReturns of OpenScheduler and of ClosedScheduler justifies.           *)
(***************************************************************************)
EXTENDS Integers, FiniteSets

CONSTANTS
    MaxRuns,    \* bound on the tests a user starts
    MaxPoints,  \* chart points kept, 240 in the code
    Forms,      \* what the builder's editors may hold
    Valid,      \* the forms that can be validated and compiled
    Buildable,  \* those from whose plan an executor and a scheduler can be built
    NoPlan      \* nil

ASSUME BoundsAssumption == MaxRuns \in Nat \ {0} /\ MaxPoints \in Nat \ {0}
ASSUME FormsAssumption  ==
    Buildable \subseteq Valid /\ Valid \subseteq Forms /\ Forms # {} /\ NoPlan \notin Forms

Engines   == 1..MaxRuns
RunStates == {"idle", "running", "draining", "completed", "failed"}

VARIABLES
    runState,     \* State.RunState
    shown,        \* the RunState the last frame was laid out with
    cancelFn,     \* State.CancelFn: the run whose context it cancels, 0 for nil
    finalReport,  \* State.FinalReport: the run it is about, 0 for nil
    points,       \* len(State.Telemetry.TimeSeries)
    editors,      \* the form in the widgets of the builder view
    builder,      \* the form in State.Builder
    compiled,     \* State.Builder.CompiledPlan: the form it was compiled from
    status,       \* State.Builder.ValidationStatus
    runs,         \* the runs started so far
    plans,        \* per run: the plan given to runEngine, as the form it was compiled from
    canceled,     \* per run: its context is canceled
    epc,          \* per run: the position of runEngine
    tpc,          \* per run: the position of its telemetry poller
    aborted       \* history: AbortExecution was called

stateVars  == <<runState, cancelFn, finalReport, points>>
formVars   == <<builder, compiled, status>>
engineVars == <<canceled, epc, tpc>>
userVars   == <<editors, shown, runs, plans, aborted>>
studioVars == <<stateVars, formVars, engineVars, userVars>>

Live == {"running", "draining"}

StudioInit ==
    /\ runState = "idle" /\ shown = "idle" /\ cancelFn = 0 /\ finalReport = 0 /\ points = 0
    /\ runs = 0 /\ aborted = FALSE
    /\ canceled = [e \in Engines |-> FALSE]
    /\ epc = [e \in Engines |-> "none"] /\ tpc = [e \in Engines |-> "off"]
    /\ plans = [e \in Engines |-> NoPlan]
    /\ builder \in Buildable /\ editors = builder /\ compiled = NoPlan /\ status = ""

-----------------------------------------------------------------------------
(* The UI goroutine.                                                        *)

\* A frame is laid out; it decides which buttons the next click can hit.
Frame ==
    /\ shown # runState
    /\ shown' = runState
    /\ UNCHANGED <<stateVars, engineVars, runs, plans, aborted, editors, formVars>>

\* The user changes the form in the widgets.
Edit ==
    /\ editors' \in Forms \ {editors}
    /\ UNCHANGED <<stateVars, engineVars, shown, runs, plans, aborted, formVars>>

\* A refusal, of the form or of a host that cannot be looked up, leaves the
\* plan of the last form that passed where it is.
ValidateCurrentPlan(form, passes) ==
    /\ builder' = form
    /\ passes => form \in Valid
    /\ IF passes THEN compiled' = form /\ status' = "PASS" ELSE compiled' = compiled /\ status' = "FAIL"

\* "Preflight Validate": the widgets are copied first.
Validate ==
    /\ \E passes \in BOOLEAN : ValidateCurrentPlan(editors, passes)
    /\ UNCHANGED <<stateVars, engineVars, userVars>>

Launched ==
    /\ runs' = runs + 1
    /\ runState' = "running" /\ cancelFn' = runs + 1 /\ finalReport' = 0 /\ points' = 0
    /\ epc' = [epc EXCEPT ![runs + 1] = "build"]
    /\ plans' = [plans EXCEPT ![runs + 1] = compiled']
    /\ UNCHANGED <<canceled, tpc, editors, shown, aborted>>

\* StartExecution validates whatever the state of the run is, and goes on only
\* if the form passes, no test is live and there is a plan.
StartExecution_NoGuard(form) ==
    \E passes \in BOOLEAN :
        /\ ValidateCurrentPlan(form, passes)
        /\ passes /\ compiled' # NoPlan /\ runs < MaxRuns
        /\ Launched
StartExecution_IgnoresRefusal(form) ==
    \E passes \in BOOLEAN :
        /\ ValidateCurrentPlan(form, passes)
        /\ IF runState \notin Live /\ compiled' # NoPlan
           THEN runs < MaxRuns /\ Launched
           ELSE UNCHANGED <<stateVars, engineVars, userVars>>
StartExecution(form) ==
    \E passes \in BOOLEAN :
        /\ ValidateCurrentPlan(form, passes)
        /\ IF passes /\ runState \notin Live /\ compiled' # NoPlan
           THEN runs < MaxRuns /\ Launched
           ELSE UNCHANGED <<stateVars, engineVars, userVars>>

\* "Start Load Test" is always there and copies the widgets; "Re-run Test" is
\* there unless a test was running in the last frame, and takes what an earlier
\* click has copied.
StartClicked == StartExecution(editors)
RetryClicked == shown # "running" /\ StartExecution(builder)

StopGracefully ==
    /\ shown = "running" /\ runState = "running"
    /\ runState' = "draining"
    /\ UNCHANGED <<cancelFn, finalReport, points, engineVars, userVars, formVars>>

AbortExecution ==
    /\ shown = "running"
    /\ canceled' = [e \in Engines |-> canceled[e] \/ e = cancelFn]
    /\ runState' = "failed" /\ aborted' = TRUE
    /\ UNCHANGED <<cancelFn, finalReport, points, epc, tpc, shown, runs, plans, editors, formVars>>

-----------------------------------------------------------------------------
(* runEngine                                                                *)

\* The executor or the scheduler cannot be built: an editor form with no users
\* compiles, as ValidateConfig is for YAML only, and NewClosedScheduler refuses it.
BuildFails(e) ==
    /\ epc[e] = "build" /\ plans[e] \notin Buildable
    /\ runState' = "failed"
    /\ epc' = [epc EXCEPT ![e] = "done"]
    /\ UNCHANGED <<cancelFn, finalReport, points, canceled, tpc, userVars, formVars>>

\* The poller is launched and sched.Run called.
Launch(e) ==
    /\ epc[e] = "build" /\ plans[e] \in Buildable
    /\ epc' = [epc EXCEPT ![e] = "run"]
    /\ tpc' = [tpc EXCEPT ![e] = "wait"]
    /\ UNCHANGED <<stateVars, canceled, userVars, formVars>>

\* sched.Run returns and the ticker is stopped.
RunReturned(e) ==
    /\ epc[e] = "run"
    /\ epc' = [epc EXCEPT ![e] = "awaitPoller"]
    /\ UNCHANGED <<stateVars, canceled, tpc, userVars, formVars>>

\* <-tickerDone, then the report is built
AwaitPoller(e) ==
    /\ epc[e] = "awaitPoller" /\ tpc[e] = "done"
    /\ epc' = [epc EXCEPT ![e] = "publish"]
    /\ UNCHANGED <<stateVars, canceled, tpc, userVars, formVars>>

\* The critical section at the end: it looks at nothing but its own runErr.
Publish(e) ==
    /\ epc[e] = "publish"
    /\ finalReport' = e
    /\ runState' \in {"completed", "failed"}
    /\ epc' = [epc EXCEPT ![e] = "done"]
    /\ UNCHANGED <<cancelFn, points, canceled, tpc, userVars, formVars>>

-----------------------------------------------------------------------------
(* The telemetry poller                                                     *)

TickArrives(e) ==
    /\ tpc[e] = "wait" /\ epc[e] = "run"
    /\ tpc' = [tpc EXCEPT ![e] = "tick"]
    /\ UNCHANGED <<stateVars, canceled, epc, userVars, formVars>>

\* A chart point is appended and the oldest beyond MaxPoints dropped.
HandleTick(e) ==
    /\ tpc[e] = "tick"
    /\ points' = IF runState \in Live /\ points < MaxPoints THEN points + 1 ELSE points
    /\ tpc' = [tpc EXCEPT ![e] = "wait"]
    /\ UNCHANGED <<runState, cancelFn, finalReport, canceled, epc, userVars, formVars>>

\* ctx.Done() is the only way out.
PollerLeaves_OnlyWhileLive(e) ==
    /\ tpc[e] = "wait" /\ canceled[e] /\ runState \in Live
    /\ tpc' = [tpc EXCEPT ![e] = "done"]
    /\ UNCHANGED <<stateVars, canceled, epc, userVars, formVars>>
PollerLeaves(e) ==
    /\ tpc[e] = "wait" /\ canceled[e]
    /\ tpc' = [tpc EXCEPT ![e] = "done"]
    /\ UNCHANGED <<stateVars, canceled, epc, userVars, formVars>>

-----------------------------------------------------------------------------
User == Frame \/ Edit \/ Validate \/ StartClicked \/ RetryClicked \/ StopGracefully \/ AbortExecution

EngineStep(e) == BuildFails(e) \/ Launch(e) \/ RunReturned(e) \/ AwaitPoller(e) \/ Publish(e)

PollerStep(e) == TickArrives(e) \/ HandleTick(e) \/ PollerLeaves(e)

StudioNext == User \/ \E e \in Engines : EngineStep(e) \/ PollerStep(e)

StudioSpec == StudioInit /\ [][StudioNext]_studioVars

\* Goroutines run and frames are drawn; the user need not click.  A select that
\* is again and again ready to take ctx.Done() takes it at some time.
StudioFairness ==
    /\ WF_studioVars(Frame)
    /\ \A e \in Engines :
          WF_studioVars(EngineStep(e)) /\ WF_studioVars(PollerStep(e)) /\ SF_studioVars(PollerLeaves(e))

StudioFairSpec == StudioSpec /\ StudioFairness

-----------------------------------------------------------------------------
(* Properties                                                               *)

ActiveEngines == {e \in Engines : epc[e] \notin {"none", "done"}}

\* As long as nothing was aborted, the RunState guard of StartExecution keeps
\* at most one engine alive, and while one is, the monitor shows a live test.
OneEngineUntilAbort ==
    ~aborted => Cardinality(ActiveEngines) <= 1 /\ (ActiveEngines # {} => runState \in Live)

\* However the form is edited, validated, refused and started again, a refused
\* form never starts the plan of an earlier one (state.go:285, 296): the plan
\* handed to runEngine and the one under a PASS are those of the form in the
\* state, which is a valid one.
PlanIsTheForm ==
    [][runs' # runs \/ status' = "PASS" => compiled' = builder' /\ builder' \in Valid]_studioVars

\* A test that runs to its own end never publishes its report: its poller
\* leaves on a cancellation only, and runEngine waits for it (state.go:437).
EndsOnlyWhenCanceled ==
    \A e \in Engines : tpc[e] # "off" /\ epc[e] \in {"publish", "done"} => canceled[e]

\* An engine whose context is canceled ends, whatever the user does meanwhile,
\* and no other engine with a poller does.
EndsExactlyWhenCanceled ==
    (\A e \in Engines : canceled[e] ~> epc[e] = "done") /\ []EndsOnlyWhenCanceled

\* What state.go:335 says of AbortExecution, "terminates the execution context
\* immediately": each engine that runs a load has been told to stop or would be
\* by the next AbortExecution.
RunningEngineIsAbortable == \A e \in Engines : epc[e] = "run" => canceled[e] \/ cancelFn = e

=============================================================================
