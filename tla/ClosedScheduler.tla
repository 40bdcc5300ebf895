--------------------------- MODULE ClosedScheduler ---------------------------
(***************************************************************************)
(* The closed-model scheduler (internal/scheduler/closed.go) with the      *)
(* scenario iteration it drives (internal/scenario/executor.go): Run       *)
(* launches one goroutine per virtual user, waits for the planned duration *)
(* or the caller's cancellation, stops new iterations, drains and merges.  *)
(* A virtual user loops over single requests or over scenario iterations.  *)
(* No property depends on how long a timer runs, so a timer may fire at    *)
(* any moment after it is started.                                         *)
(***************************************************************************)
EXTENDS Lifecycle, Integers, Sequences, FiniteSets, Functions

CONSTANTS
    VUs,        \* the virtual users; plan.Users is their number
    Scenarios,  \* plans: a sequence of steps, or <<>> for a single-request plan
    MaxRounds   \* bound on the requests or iterations one user begins

Steps == [onFailure : {"stop", "abort_vu", "continue"}, think : BOOLEAN]

ASSUME VUsAssumption == IsFiniteSet(VUs) /\ VUs # {}
ASSUME ScenariosAssumption == \A s \in Scenarios : s \in Seq(Steps)
ASSUME RoundsAssumption == MaxRounds \in Nat \ {0}

VARIABLES
    scenario, thinks,     \* the plan: its scenario, and whether ThinkTime > 0
    ctxDone,              \* the caller canceled ctx
    workersCanceled,      \* cancelWorkers() was called
    stopNewRequests,      \* the channel is closed
    lifecycle,            \* stateMachine.current
    pc, hardCanceled,     \* Run: position, and why it stopped
    inFlight,             \* inFlightCount
    vpc, step, success,   \* virtual user: position, step index, iterationSuccess
    metrics,              \* virtual user: its WorkerMetrics
    result,               \* what Run returned
    afterStop,            \* history: requests sent after stopNewRequests closed
    afterCancel           \* history: requests sent after the context was canceled

runVars  == <<lifecycle, pc, hardCanceled, result>>
ctxVars  == <<ctxDone, workersCanceled, stopNewRequests>>
planVars == <<scenario, thinks>>
userVars == <<vpc, step, success, metrics, inFlight, afterStop, afterCancel>>
vars == <<planVars, ctxVars, runVars, userVars>>

NoMetrics ==
    [planned |-> 0, started |-> 0, completed |-> 0, canceled |-> 0,
     iterations |-> 0, iterCompleted |-> 0, iterFailed |-> 0]

\* A user's counters: an iteration begun, a single request sent, and returned
CountIteration(m) == [m EXCEPT !.iterations = @ + 1]
CountSent(m)      == [m EXCEPT !.planned = @ + 1, !.started = @ + 1]
CountReturned(m)  == [m EXCEPT !.completed = @ + 1]

\* workerCtx is a child of ctx.
WorkerCtxDone == ctxDone \/ workersCanceled

\* What a virtual user's non-blocking selects look at
MustStop_CtxOnly == WorkerCtxDone
MustStop == stopNewRequests \/ WorkerCtxDone

UsersDone == \A v \in VUs : vpc[v] = "done"

Init ==
    /\ scenario \in Scenarios /\ thinks \in BOOLEAN
    /\ ctxDone = FALSE /\ workersCanceled = FALSE /\ stopNewRequests = FALSE
    /\ lifecycle = "initialized" /\ pc = "start" /\ hardCanceled = FALSE /\ result = <<>>
    /\ inFlight = 0
    /\ vpc = [v \in VUs |-> "done"] /\ step = [v \in VUs |-> 1] /\ success = [v \in VUs |-> TRUE]
    /\ metrics = [v \in VUs |-> NoMetrics]
    /\ afterStop = [v \in VUs |-> 0] /\ afterCancel = [v \in VUs |-> 0]

CancelContext ==
    /\ ~ctxDone /\ pc # "returned"
    /\ ctxDone' = TRUE
    /\ UNCHANGED <<planVars, workersCanceled, stopNewRequests, runVars, userVars>>

-----------------------------------------------------------------------------
(* Run                                                                      *)

Start ==
    /\ pc = "start"
    /\ lifecycle' = TransitionTo(lifecycle, "running")
    /\ vpc' = [v \in VUs |-> "top"]
    /\ pc' = "wait"
    /\ UNCHANGED <<planVars, ctxVars, hardCanceled, result, step, success, metrics, inFlight,
                   afterStop, afterCancel>>

\* The select on the duration timer and ctx.Done().
DurationElapses ==
    /\ pc = "wait"
    /\ pc' = "close"
    /\ UNCHANGED <<planVars, ctxVars, lifecycle, hardCanceled, result, userVars>>

CanceledWhileRunning ==
    /\ pc = "wait" /\ ctxDone
    /\ hardCanceled' = TRUE
    /\ pc' = "close"
    /\ UNCHANGED <<planVars, ctxVars, lifecycle, result, userVars>>

CloseStop ==
    /\ pc = "close"
    /\ stopNewRequests' = TRUE
    /\ pc' = "stop"
    /\ UNCHANGED <<planVars, ctxDone, workersCanceled, lifecycle, hardCanceled, result, userVars>>

\* The lifecycle leaves "running"; a hard cancellation cancels the users at once.
StopRunning ==
    /\ pc = "stop"
    /\ lifecycle' = TransitionTo(lifecycle, IF hardCanceled THEN "canceled" ELSE "graceful_stop")
    /\ workersCanceled' = hardCanceled
    /\ pc' = IF hardCanceled THEN "await" ELSE "drain"
    /\ UNCHANGED <<planVars, ctxDone, stopNewRequests, hardCanceled, result, userVars>>

DrainedInTime ==
    /\ pc = "drain" /\ UsersDone
    /\ pc' = "complete"
    /\ UNCHANGED <<planVars, ctxVars, lifecycle, hardCanceled, result, userVars>>

GraceExpires_NoCancel ==
    /\ pc = "drain" /\ pc' = "await"
    /\ UNCHANGED <<planVars, ctxVars, lifecycle, hardCanceled, result, userVars>>
GraceExpires ==
    /\ pc = "drain"
    /\ workersCanceled' = TRUE
    /\ pc' = "await"
    /\ UNCHANGED <<planVars, ctxDone, stopNewRequests, lifecycle, hardCanceled, result, userVars>>

CanceledWhileDraining ==
    /\ pc = "drain" /\ ctxDone
    /\ workersCanceled' = TRUE
    /\ pc' = "awaitCanceled"
    /\ UNCHANGED <<planVars, ctxDone, stopNewRequests, lifecycle, hardCanceled, result, userVars>>

\* <-workersDone after a cancellation
AwaitUsers_NoWait ==
    /\ pc \in {"await", "awaitCanceled"}
    /\ lifecycle' = IF pc = "awaitCanceled" THEN TransitionTo(lifecycle, "canceled") ELSE lifecycle
    /\ pc' = "complete"
    /\ UNCHANGED <<planVars, ctxVars, hardCanceled, result, userVars>>
AwaitUsers ==
    /\ pc \in {"await", "awaitCanceled"} /\ UsersDone
    /\ lifecycle' = IF pc = "awaitCanceled" THEN TransitionTo(lifecycle, "canceled") ELSE lifecycle
    /\ pc' = "complete"
    /\ UNCHANGED <<planVars, ctxVars, hardCanceled, result, userVars>>

Complete ==
    /\ pc = "complete"
    /\ lifecycle' = TransitionTo(lifecycle, "completed")
    /\ pc' = "merge"
    /\ UNCHANGED <<planVars, ctxVars, hardCanceled, result, userVars>>

\* metrics.MergeWorkers, for one counter: its sum over all users
Total(counter) == SumFunctionOnSet([v \in VUs |-> metrics[v][counter]], VUs)

Merge ==
    /\ pc = "merge"
    /\ result' = [f \in DOMAIN NoMetrics |-> Total(f)]
    /\ pc' = "returned"
    /\ UNCHANGED <<planVars, ctxVars, lifecycle, hardCanceled, userVars>>

-----------------------------------------------------------------------------
(* runVU: the loop both kinds of plan share.                                *)

Goto(v, where) == vpc' = [vpc EXCEPT ![v] = where]

\* The select at the top of the loop, and the one before the think time
LeaveLoop(v) ==
    /\ vpc[v] \in {"top", "check", "think"} /\ MustStop
    /\ Goto(v, "done")
    /\ UNCHANGED <<planVars, ctxVars, runVars, step, success, metrics, inFlight, afterStop,
                   afterCancel>>

Rounds(v) == IF scenario = <<>> THEN metrics[v].started ELSE metrics[v].iterations

BeginRequest(v) ==
    /\ vpc[v] = "top" /\ ~MustStop /\ scenario = <<>> /\ Rounds(v) < MaxRounds
    /\ Goto(v, "send")
    /\ UNCHANGED <<planVars, ctxVars, runVars, step, success, metrics, inFlight, afterStop,
                   afterCancel>>

BeginIteration(v) ==
    /\ vpc[v] = "top" /\ ~MustStop /\ scenario # <<>> /\ Rounds(v) < MaxRounds
    /\ metrics' = [metrics EXCEPT ![v] = CountIteration(@)]
    /\ step' = [step EXCEPT ![v] = 1]
    /\ success' = [success EXCEPT ![v] = TRUE]
    /\ Goto(v, "step")
    /\ UNCHANGED <<planVars, ctxVars, runVars, inFlight, afterStop, afterCancel>>

\* The request goes out.  A single request is accounted for first; a step's
\* counters, and no in-flight count, are written when it is done.
Send(v) ==
    /\ vpc[v] = "send"
    /\ IF scenario = <<>>
       THEN /\ metrics' = [metrics EXCEPT ![v] = CountSent(@)]
            /\ inFlight' = inFlight + 1
       ELSE UNCHANGED <<metrics, inFlight>>
    /\ afterStop' = [afterStop EXCEPT ![v] = @ + (IF stopNewRequests THEN 1 ELSE 0)]
    /\ afterCancel' = [afterCancel EXCEPT ![v] = @ + (IF WorkerCtxDone THEN 1 ELSE 0)]
    /\ Goto(v, "exec")
    /\ UNCHANGED <<planVars, ctxVars, runVars, step, success>>

\* ExecuteRequest returns a result whatever happened, a cancellation included.
FinishRequest(v, o) ==
    /\ vpc[v] = "exec" /\ scenario = <<>>
    /\ o = "canceled" => WorkerCtxDone
    /\ inFlight' = inFlight - 1
    /\ metrics' = [metrics EXCEPT ![v] = CountReturned(@)]
    /\ Goto(v, "check")
    /\ UNCHANGED <<planVars, ctxVars, runVars, step, success, afterStop, afterCancel>>

Think(v) ==
    /\ vpc[v] = "check" /\ ~MustStop
    /\ Goto(v, IF thinks THEN "think" ELSE "top")
    /\ UNCHANGED <<planVars, ctxVars, runVars, step, success, metrics, inFlight, afterStop,
                   afterCancel>>

ThinkTimerFires(v) ==
    /\ vpc[v] = "think"
    /\ Goto(v, "top")
    /\ UNCHANGED <<planVars, ctxVars, runVars, step, success, metrics, inFlight, afterStop,
                   afterCancel>>

-----------------------------------------------------------------------------
(* ExecuteIteration                                                         *)

\* The counters of an iteration that ended, well or not
EndIteration_OnlyFirstFailure(m, ok) ==
    IF ok THEN [m EXCEPT !.iterCompleted = @ + 1] ELSE [m EXCEPT !.iterFailed = 1]
EndIteration(m, ok) ==
    IF ok THEN [m EXCEPT !.iterCompleted = @ + 1] ELSE [m EXCEPT !.iterFailed = @ + 1]

\* ctx.Err() before each step; stopNewRequests is not looked at here.
CheckStep_NoCheck(v) ==
    /\ vpc[v] = "step"
    /\ Goto(v, "send")
    /\ UNCHANGED <<planVars, ctxVars, runVars, step, success, metrics, inFlight, afterStop,
                   afterCancel>>
CheckStep(v) ==
    /\ vpc[v] = "step" /\ ~WorkerCtxDone
    /\ Goto(v, "send")
    /\ UNCHANGED <<planVars, ctxVars, runVars, step, success, metrics, inFlight, afterStop,
                   afterCancel>>

\* The context is canceled before a step or during the think time after one.
IterationCanceled(v) ==
    /\ vpc[v] \in {"step", "stepThink"} /\ WorkerCtxDone
    /\ metrics' = [metrics EXCEPT ![v] = EndIteration(@, FALSE)]
    /\ Goto(v, "check")
    /\ UNCHANGED <<planVars, ctxVars, runVars, step, success, inFlight, afterStop, afterCancel>>

\* onStepDone: the step is planned, started and completed at once.
CountStep(m) == [m EXCEPT !.planned = @ + 1, !.started = @ + 1, !.completed = @ + 1]

\* ExecuteStep returns and the step's failure policy applies: stop ends the
\* iteration, abort_vu ends the user, continue goes on with a failed iteration.
FinishStep(v, o) ==
    /\ vpc[v] = "exec" /\ scenario # <<>>
    /\ o = "canceled" => WorkerCtxDone
    /\ LET ok     == o = "success"
           policy == scenario[step[v]].onFailure
           ends   == (~ok /\ policy # "continue") \/ step[v] = Len(scenario)
           pauses == ok /\ scenario[step[v]].think
       IN  /\ success' = [success EXCEPT ![v] = @ /\ ok]
           /\ metrics' = [metrics EXCEPT ![v] =
                  IF ends THEN EndIteration(CountStep(@), success'[v]) ELSE CountStep(@)]
           /\ step' = [step EXCEPT ![v] = IF ends \/ pauses THEN @ ELSE @ + 1]
           /\ Goto(v, CASE ~ok /\ policy = "abort_vu" -> "done"
                        [] ends /\ (ok \/ policy # "abort_vu") -> "check"
                        [] ~ends -> IF pauses THEN "stepThink" ELSE "step")
    /\ UNCHANGED <<planVars, ctxVars, runVars, inFlight, afterStop, afterCancel>>

StepThinkTimerFires(v) ==
    /\ vpc[v] = "stepThink"
    /\ step' = [step EXCEPT ![v] = @ + 1]
    /\ Goto(v, "step")
    /\ UNCHANGED <<planVars, ctxVars, runVars, success, metrics, inFlight, afterStop, afterCancel>>

-----------------------------------------------------------------------------
Outcomes == {"success", "failure", "canceled"}

Run ==
    \/ Start \/ DurationElapses \/ CanceledWhileRunning \/ CloseStop \/ StopRunning
    \/ DrainedInTime \/ GraceExpires \/ CanceledWhileDraining \/ AwaitUsers \/ Complete \/ Merge

UserStep(v) ==
    \/ LeaveLoop(v) \/ BeginRequest(v) \/ BeginIteration(v) \/ Send(v)
    \/ Think(v) \/ ThinkTimerFires(v)
    \/ CheckStep(v) \/ IterationCanceled(v) \/ StepThinkTimerFires(v)

Answer(v) == \E o \in Outcomes : FinishRequest(v, o) \/ FinishStep(v, o)

Terminated == pc = "returned" /\ UsersDone /\ UNCHANGED vars

Next ==
    \/ CancelContext
    \/ Run
    \/ \E v \in VUs : UserStep(v) \/ Answer(v)
    \/ Terminated

Spec == Init /\ [][Next]_vars

\* Timers fire and runnable goroutines run; the target need never answer, but a
\* request whose context is canceled returns.
Fairness ==
    /\ WF_vars(Run)
    /\ \A v \in VUs : WF_vars(UserStep(v)) /\ WF_vars(WorkerCtxDone /\ Answer(v))

FairSpec == Spec /\ Fairness

-----------------------------------------------------------------------------
(* Properties                                                               *)

\* What Run returns reconciles, however users were stopped, canceled or
\* aborted: every planned request was started and every started one completed
\* or canceled, every iteration begun has ended as completed or failed, and a
\* plan without scenario has no iterations.
ReportReconciles ==
    pc = "returned" =>
        /\ result.planned = result.started
        /\ result.started = result.completed + result.canceled
        /\ result.iterations = result.iterCompleted + result.iterFailed
        /\ scenario = <<>> => result.iterations = 0

\* After stopNewRequests closes a user sends at most the one request it had
\* already passed its check for, or what is left of the iteration it is in.
LateRequestsBounded ==
    \A v \in VUs : afterStop[v] <= IF scenario = <<>> THEN 1 ELSE Len(scenario)

\* After the context is canceled a user sends at most one more request, even in
\* the middle of a scenario.
CancelStopsUsers == \A v \in VUs : afterCancel[v] <= 1

\* The in-flight count that others read is at every moment that of the single
\* requests under way, however users are stopped or canceled; the steps of a
\* scenario are never in it, though closed.go:99 says "across all virtual users":
\* only one of the two loops keeps the count.
InFlightCount ==
    inFlight = IF scenario = <<>> THEN Cardinality({v \in VUs : vpc[v] = "exec"}) ELSE 0

\* InFlightCount, and when Run returns no user goroutine is left and the metrics
\* it merged are final.
NothingLeftBehind ==
    /\ InFlightCount
    /\ pc = "returned" =>
          /\ \A v \in VUs : vpc[v] = "done"
          /\ \A f \in DOMAIN NoMetrics : result[f] = Total(f)

\* Run returns, even if the target never answers, every user aborts, or the
\* context is never canceled.
RunReturns == <>(pc = "returned")

=============================================================================
