---------------------------- MODULE OpenScheduler ----------------------------
(***************************************************************************)
(* The open-model scheduler (internal/scheduler/open.go): the dispatcher,  *)
(* which is the goroutine that called Run, paces requests along a compiled *)
(* load profile and hands them over a buffered channel to MaxInFlight      *)
(* worker goroutines; the caller may cancel the context at any moment.     *)
(* Time counts ticks from startTime.  One action is one indivisible step   *)
(* of one goroutine: between two shared accesses (clock, context, atomic   *)
(* counter, channel, lifecycle, segment collector) others may run.         *)
(***************************************************************************)
EXTENDS Lifecycle, CompiledProfile, FiniteSets, FiniteSetsExt, Functions

CONSTANTS
    Workers,       \* the worker pool; its size is plan.MaxInFlight
    Profiles,      \* the compiled profiles a run may execute
    GracefulStop,  \* plan.GracefulStop in ticks
    MaxLate        \* bound on how far the clock runs past the profile's end

ASSUME WorkersAssumption == IsFiniteSet(Workers) /\ Workers # {}

ASSUME ProfilesAssumption == \A p \in Profiles : WellFormed(p)

ASSUME BoundsAssumption == GracefulStop \in Nat \ {0} /\ MaxLate \in Nat

MaxInFlight == Cardinality(Workers)

VARIABLES
    now, ctxDone,           \* the clock; whether the caller canceled ctx
    workersCanceled,        \* cancelWorkers() was called
    lifecycle,              \* stateMachine.current
    profile,                \* s.segments
    pc,                     \* where the dispatcher is
    seg,                    \* index of the segment being scheduled
    seen,                   \* the clock reading at the top of the pacing loop
    wakeAt,                 \* when the pending pacing or grace timer fires
    nextTick,               \* nextTargetTick
    offset,                 \* planned offset of the tick being dispatched
    hardCanceled, runErr,
    jobs, closed,           \* dispatchChannel
    inFlight, peak,         \* inFlightCount, peakInFlight
    disp, segDisp,          \* dispatcherMetrics, segmentDispatcher
    wpc, job, wseg,         \* worker: position, its job, currentSegment (0 for -1)
    outcome,                \* worker: what the last ExecuteRequest returned
    overall, current,       \* worker: run-wide and current-segment metrics
    collected,              \* segmentCollector.accumulators
    result,                 \* what Run returned
    stamps,                 \* history: actual times of this segment's ticks
    throttled,              \* history: <<segment, offset>> answered with 429
    lateAdmits              \* history: requests admitted after ctx was canceled

ctxVars    == <<now, ctxDone, workersCanceled, lifecycle>>
paceVars   == <<profile, seg, seen, wakeAt, nextTick, offset, stamps>>
chanVars   == <<jobs, closed>>
countVars  == <<inFlight, peak, disp, segDisp, lateAdmits>>
workerVars == <<wpc, job, wseg, outcome, overall, current, collected, throttled>>
endVars    == <<hardCanceled, runErr, result>>
vars == <<ctxVars, pc, paceVars, chanVars, countVars, workerVars, endVars>>

NoDispatch == [planned |-> 0, scheduled |-> 0, dropped |-> 0]
NoCounts   == [started |-> 0, completed |-> 0, canceled |-> 0, firstThrottle |-> -1]
NoJob      == [segment |-> 0, offset |-> 0]

CountPlanned(d)   == [d EXCEPT !.planned = @ + 1]
CountScheduled(d) == [d EXCEPT !.scheduled = @ + 1]
CountDropped(d)   == [d EXCEPT !.dropped = @ + 1]
CountStarted(c)   == [c EXCEPT !.started = @ + 1]
\* A returned request is canceled or completed, by its outcome.
CountReturned(c, o) ==
    IF o = "canceled" THEN [c EXCEPT !.canceled = @ + 1] ELSE [c EXCEPT !.completed = @ + 1]

\* The destination's first-throttle offset after a merge; -1 is "none seen".
FirstThrottle_LastWins(destination, source) == IF source >= 0 THEN source ELSE destination
FirstThrottle(destination, source) ==
    IF source >= 0 /\ (destination < 0 \/ source < destination) THEN source ELSE destination

NoteThrottle(c, plannedOffset) ==
    [c EXCEPT !.firstThrottle = FirstThrottle(@, plannedOffset)]

\* mergeWorkerMetrics, for the counters a worker fills in
MergeCounts(destination, source) ==
    [started       |-> destination.started + source.started,
     completed     |-> destination.completed + source.completed,
     canceled      |-> destination.canceled + source.canceled,
     firstThrottle |-> FirstThrottle(destination.firstThrottle, source.firstThrottle)]

StageState(stage) ==
    CASE stage = "warmup"   -> "warmup"
      [] stage = "measured" -> "running"
      [] stage = "cooldown" -> "cooldown"

WorkerCtxDone == ctxDone \/ workersCanceled

WorkersDone_Any == \E w \in Workers : wpc[w] = "done"
WorkersDone == \A w \in Workers : wpc[w] = "done"

\* segmentEnd has been reached
SegmentOver == now >= profile[seg].end

\* The target after one due at `target` and planned at `actual`: one interval on,
\* counted from the actual time when the tick is more than an interval late.
NextTarget_CatchUp(target, actual, interval) == target + interval
NextTarget(target, actual, interval) ==
    IF actual - target > interval THEN actual + interval ELSE target + interval

Saturated_OffByOne == inFlight > MaxInFlight
Saturated == inFlight >= MaxInFlight

Init ==
    /\ now = 0 /\ ctxDone \in BOOLEAN /\ workersCanceled = FALSE
    /\ lifecycle = "initialized"
    /\ profile \in Profiles
    /\ pc = "start" /\ seg = 1 /\ seen = 0 /\ wakeAt = 0 /\ nextTick = 0 /\ offset = 0
    /\ hardCanceled = FALSE /\ runErr = FALSE
    /\ jobs = <<>> /\ closed = FALSE
    /\ inFlight = 0 /\ peak = 0
    /\ disp = NoDispatch /\ segDisp = [s \in DOMAIN profile |-> NoDispatch]
    /\ wpc = [w \in Workers |-> "done"]
    /\ job = [w \in Workers |-> NoJob] /\ wseg = [w \in Workers |-> 0]
    /\ outcome = [w \in Workers |-> "none"]
    /\ overall = [w \in Workers |-> NoCounts] /\ current = [w \in Workers |-> NoCounts]
    /\ collected = [s \in DOMAIN profile |-> NoCounts]
    /\ result = <<>>
    /\ stamps = <<>> /\ throttled = {} /\ lateAdmits = 0

-----------------------------------------------------------------------------
(* The environment: the clock and the caller's context.                     *)

\* The clock runs up to MaxLate past the profile, and always far enough for a
\* pending timer to fire.
Tick ==
    /\ pc \notin {"start", "returned"}
    /\ \/ now < profile[Len(profile)].end + MaxLate
       \/ pc \in {"wait", "drain"} /\ now < wakeAt
    /\ now' = now + 1
    /\ UNCHANGED <<ctxDone, workersCanceled, lifecycle, pc, paceVars, chanVars,
                   countVars, workerVars, endVars>>

CancelContext ==
    /\ ~ctxDone /\ pc # "returned"
    /\ ctxDone' = TRUE
    /\ UNCHANGED <<now, workersCanceled, lifecycle, pc, paceVars, chanVars,
                   countVars, workerVars, endVars>>

-----------------------------------------------------------------------------
(* The dispatcher: Run up to the segment loop.                              *)

\* enterStage for the first segment, then the workers are launched.
Start ==
    /\ pc = "start"
    /\ CanTransitionTo(lifecycle, StageState(profile[1].stage))
    /\ lifecycle' = StageState(profile[1].stage)
    /\ wpc' = [w \in Workers |-> "idle"]
    /\ nextTick' = profile[1].start
    /\ pc' = "loop"
    /\ UNCHANGED <<now, ctxDone, workersCanceled, profile, seg, seen, wakeAt, offset, stamps,
                   chanVars, countVars, job, wseg, outcome, overall, current, collected,
                   throttled, endVars>>

\* A profile whose first stage cannot follow "initialized": Run returns before
\* it launches anything.
StartFails ==
    /\ pc = "start"
    /\ ~CanTransitionTo(lifecycle, StageState(profile[1].stage))
    /\ runErr' = TRUE
    /\ pc' = "returned"
    /\ UNCHANGED <<ctxVars, paceVars, chanVars, countVars, workerVars, hardCanceled, result>>

-----------------------------------------------------------------------------
(* scheduleSegment: the pacing loop.                                        *)

\* now := clock.Now(); the segment is over once its end has been reached.
ReadClock ==
    /\ pc = "loop"
    /\ seen' = now
    /\ pc' = IF SegmentOver THEN "next" ELSE "poll"
    /\ UNCHANGED <<ctxVars, profile, seg, wakeAt, nextTick, offset, stamps, chanVars,
                   countVars, workerVars, endVars>>

\* The non-blocking context check; the wait is computed from the earlier clock
\* reading but counts from the moment the timer is made.
PollContext_NoCheck ==
    /\ pc = "poll"
    /\ wakeAt' = IF nextTick > seen THEN now + (nextTick - seen) ELSE wakeAt
    /\ pc' = IF nextTick > seen THEN "wait" ELSE "stamp"
    /\ UNCHANGED <<ctxVars, profile, seg, seen, nextTick, offset, stamps, chanVars,
                   countVars, workerVars, endVars>>
PollContext ==
    /\ pc = "poll"
    /\ hardCanceled' = ctxDone
    /\ wakeAt' = IF ~ctxDone /\ nextTick > seen THEN now + (nextTick - seen) ELSE wakeAt
    /\ pc' = IF ctxDone THEN "close" ELSE IF nextTick > seen THEN "wait" ELSE "stamp"
    /\ UNCHANGED <<ctxVars, profile, seg, seen, nextTick, offset, stamps, chanVars,
                   countVars, workerVars, runErr, result>>

PaceTimerFires ==
    /\ pc = "wait" /\ now >= wakeAt
    /\ pc' = "stamp"
    /\ UNCHANGED <<ctxVars, paceVars, chanVars, countVars, workerVars, endVars>>

CanceledWhileWaiting ==
    /\ pc = "wait" /\ ctxDone
    /\ hardCanceled' = TRUE
    /\ pc' = "close"
    /\ UNCHANGED <<ctxVars, paceVars, chanVars, countVars, workerVars, runErr, result>>

\* actualTime := clock.Now(): the segment ended during the wait.
EndedWhileWaiting ==
    /\ pc = "stamp" /\ SegmentOver
    /\ pc' = "next"
    /\ UNCHANGED <<ctxVars, paceVars, chanVars, countVars, workerVars, endVars>>

\* Otherwise the tick is planned and the next target set.
PlanTick ==
    /\ pc = "stamp" /\ ~SegmentOver
    /\ offset' = nextTick
    /\ nextTick' = NextTarget(nextTick, now, profile[seg].interval)
    /\ stamps' = Append(stamps, now)
    /\ disp' = CountPlanned(disp)
    /\ segDisp' = [segDisp EXCEPT ![seg] = CountPlanned(@)]
    /\ pc' = "admit"
    /\ UNCHANGED <<ctxVars, profile, seg, seen, wakeAt, chanVars, inFlight, peak, lateAdmits,
                   workerVars, endVars>>

Drop ==
    /\ pc = "admit" /\ Saturated
    /\ disp' = CountDropped(disp)
    /\ segDisp' = [segDisp EXCEPT ![seg] = CountDropped(@)]
    /\ pc' = "loop"
    /\ UNCHANGED <<ctxVars, paceVars, chanVars, inFlight, peak, lateAdmits, workerVars, endVars>>

Admit ==
    /\ pc = "admit" /\ ~Saturated
    /\ disp' = CountScheduled(disp)
    /\ segDisp' = [segDisp EXCEPT ![seg] = CountScheduled(@)]
    /\ lateAdmits' = lateAdmits + (IF ctxDone THEN 1 ELSE 0)
    /\ pc' = "reserve"
    /\ UNCHANGED <<ctxVars, paceVars, chanVars, inFlight, peak, workerVars, endVars>>

Reserve ==
    /\ pc = "reserve"
    /\ inFlight' = inFlight + 1
    /\ pc' = "peak"
    /\ UNCHANGED <<ctxVars, paceVars, chanVars, peak, disp, segDisp, lateAdmits, workerVars, endVars>>

\* Only the dispatcher writes peakInFlight, so the compare-and-swap succeeds.
RecordPeak ==
    /\ pc = "peak"
    /\ peak' = IF inFlight > peak THEN inFlight ELSE peak
    /\ pc' = "send"
    /\ UNCHANGED <<ctxVars, paceVars, chanVars, inFlight, disp, segDisp, lateAdmits, workerVars, endVars>>

\* The send is not part of a select: it waits while the channel is full.
Send ==
    /\ pc = "send" /\ Len(jobs) < MaxInFlight
    /\ jobs' = Append(jobs, [segment |-> seg, offset |-> offset])
    /\ pc' = "loop"
    /\ UNCHANGED <<ctxVars, paceVars, closed, countVars, workerVars, endVars>>

-----------------------------------------------------------------------------
(* Run: from one segment to the next.                                       *)

StageChanges == profile[seg + 1].stage # profile[seg].stage

EnterNextSegment ==
    /\ pc = "next" /\ seg < Len(profile)
    /\ StageChanges => CanTransitionTo(lifecycle, StageState(profile[seg + 1].stage))
    /\ lifecycle' = IF StageChanges THEN StageState(profile[seg + 1].stage) ELSE lifecycle
    /\ seg' = seg + 1
    /\ nextTick' = profile[seg + 1].start
    /\ stamps' = <<>>
    /\ pc' = "loop"
    /\ UNCHANGED <<now, ctxDone, workersCanceled, profile, seen, wakeAt, offset, chanVars,
                   countVars, workerVars, endVars>>

\* enterStage refused the stage: workers are canceled, the channel closed.
EnterStageFails ==
    /\ pc = "next" /\ seg < Len(profile)
    /\ StageChanges /\ ~CanTransitionTo(lifecycle, StageState(profile[seg + 1].stage))
    /\ workersCanceled' = TRUE
    /\ closed' = TRUE
    /\ runErr' = TRUE
    /\ pc' = "awaitErr"
    /\ UNCHANGED <<now, ctxDone, lifecycle, paceVars, jobs, countVars, workerVars,
                   hardCanceled, result>>

\* The stage error is returned only after workers.Wait().
ReturnError ==
    /\ pc = "awaitErr" /\ WorkersDone
    /\ pc' = "returned"
    /\ UNCHANGED <<ctxVars, paceVars, chanVars, countVars, workerVars, endVars>>

-----------------------------------------------------------------------------
(* Run: closing the channel, draining and merging.                          *)

CloseChannel ==
    /\ \/ pc = "close"
       \/ pc = "next" /\ seg = Len(profile)
    /\ closed' = TRUE
    /\ pc' = "stop"
    /\ UNCHANGED <<ctxVars, paceVars, jobs, countVars, workerVars, endVars>>

\* The lifecycle leaves its traffic stage, the grace timer starts, and a hard
\* cancellation cancels the workers at once.
StopScheduling ==
    /\ pc = "stop"
    /\ lifecycle' = TransitionTo(lifecycle, IF hardCanceled THEN "canceled" ELSE "graceful_stop")
    /\ workersCanceled' = hardCanceled
    /\ wakeAt' = now + GracefulStop
    /\ pc' = IF hardCanceled THEN "await" ELSE "drain"
    /\ UNCHANGED <<now, ctxDone, profile, seg, seen, nextTick, offset, stamps, chanVars,
                   countVars, workerVars, endVars>>

DrainedInTime ==
    /\ pc = "drain" /\ WorkersDone
    /\ pc' = "complete"
    /\ UNCHANGED <<ctxVars, paceVars, chanVars, countVars, workerVars, endVars>>

GraceExpires_NoCancel ==
    /\ pc = "drain" /\ now >= wakeAt
    /\ pc' = "await"
    /\ UNCHANGED <<ctxVars, paceVars, chanVars, countVars, workerVars, endVars>>
GraceExpires ==
    /\ pc = "drain" /\ now >= wakeAt
    /\ workersCanceled' = TRUE
    /\ pc' = "await"
    /\ UNCHANGED <<now, ctxDone, lifecycle, paceVars, chanVars, countVars, workerVars, endVars>>

CanceledWhileDraining ==
    /\ pc = "drain" /\ ctxDone
    /\ workersCanceled' = TRUE
    /\ pc' = "awaitCanceled"
    /\ UNCHANGED <<now, ctxDone, lifecycle, paceVars, chanVars, countVars, workerVars, endVars>>

AwaitWorkers ==
    /\ pc \in {"await", "awaitCanceled"} /\ WorkersDone
    /\ lifecycle' = IF pc = "awaitCanceled" THEN TransitionTo(lifecycle, "canceled") ELSE lifecycle
    /\ pc' = "complete"
    /\ UNCHANGED <<now, ctxDone, workersCanceled, paceVars, chanVars, countVars, workerVars, endVars>>

Complete ==
    /\ pc = "complete"
    /\ lifecycle' = TransitionTo(lifecycle, "completed")
    /\ pc' = "merge"
    /\ UNCHANGED <<now, ctxDone, workersCanceled, paceVars, chanVars, countVars, workerVars, endVars>>

\* A dispatcher's counters with a worker's
Report(d, c) ==
    [planned |-> d.planned, scheduled |-> d.scheduled, dropped |-> d.dropped,
     started |-> c.started, completed |-> c.completed, canceled |-> c.canceled,
     firstThrottle |-> c.firstThrottle]

\* metrics.MergeWorkers, for one counter: its sum over all workers
Total(counter) == SumFunctionOnSet([w \in Workers |-> overall[w][counter]], Workers)

AllWorkers ==
    [started       |-> Total("started"),
     completed     |-> Total("completed"),
     canceled      |-> Total("canceled"),
     firstThrottle |-> -1]

Merge ==
    /\ pc = "merge"
    /\ result' = [overall  |-> Report(disp, AllWorkers),
                  segments |-> [s \in DOMAIN profile |-> Report(segDisp[s], collected[s])]]
    /\ pc' = "returned"
    /\ UNCHANGED <<ctxVars, paceVars, chanVars, countVars, workerVars, hardCanceled, runErr>>

-----------------------------------------------------------------------------
(* runWorker                                                                *)

\* flush: the current segment's metrics go to the collector, under its mutex.
Flushed_Overwrites(w) ==
    IF wseg[w] = 0 THEN collected ELSE [collected EXCEPT ![wseg[w]] = current[w]]
Flushed(w) ==
    IF wseg[w] = 0 THEN collected
    ELSE [collected EXCEPT ![wseg[w]] = MergeCounts(@, current[w])]

\* Take a job; a job of another segment flushes the metrics of the last one.
Receive(w) ==
    /\ wpc[w] = "idle" /\ jobs # <<>>
    /\ LET j == Head(jobs)
           switch == j.segment # wseg[w]
       IN  /\ job' = [job EXCEPT ![w] = j]
           /\ wseg' = [wseg EXCEPT ![w] = j.segment]
           /\ collected' = IF switch THEN Flushed(w) ELSE collected
           /\ current' = [current EXCEPT ![w] = CountStarted(IF switch THEN NoCounts ELSE @)]
    /\ overall' = [overall EXCEPT ![w] = CountStarted(@)]
    /\ jobs' = Tail(jobs)
    /\ wpc' = [wpc EXCEPT ![w] = "exec"]
    /\ UNCHANGED <<ctxVars, pc, paceVars, closed, countVars, outcome, throttled, endVars>>

\* ExecuteRequest returns, always with a result, and the request leaves the
\* in-flight count.  Its outcome is "canceled" only under a canceled context;
\* even then an answer or an error may have come first.
FinishRequest(w, o) ==
    /\ wpc[w] = "exec"
    /\ o = "canceled" => WorkerCtxDone
    /\ outcome' = [outcome EXCEPT ![w] = o]
    /\ inFlight' = inFlight - 1
    /\ wpc' = [wpc EXCEPT ![w] = "record"]
    /\ UNCHANGED <<ctxVars, pc, paceVars, chanVars, peak, disp, segDisp, lateAdmits,
                   job, wseg, overall, current, collected, throttled, endVars>>

Record(w) ==
    /\ wpc[w] = "record"
    /\ overall' = [overall EXCEPT ![w] = CountReturned(@, outcome[w])]
    /\ IF outcome[w] = "rate_limited"
       THEN /\ current' = [current EXCEPT ![w] = NoteThrottle(CountReturned(@, outcome[w]), job[w].offset)]
            /\ throttled' = throttled \cup {<<job[w].segment, job[w].offset>>}
       ELSE /\ current' = [current EXCEPT ![w] = CountReturned(@, outcome[w])]
            /\ UNCHANGED throttled
    /\ wpc' = [wpc EXCEPT ![w] = "idle"]
    /\ UNCHANGED <<ctxVars, pc, paceVars, chanVars, countVars, job, wseg, outcome, collected, endVars>>

\* The range over the channel ends; the deferred flush runs before Done.
LeaveLoop(w) ==
    /\ wpc[w] = "idle" /\ closed /\ jobs = <<>>
    /\ collected' = Flushed(w)
    /\ wpc' = [wpc EXCEPT ![w] = "flushed"]
    /\ UNCHANGED <<ctxVars, pc, paceVars, chanVars, countVars, job, wseg, outcome, overall,
                   current, throttled, endVars>>

Done(w) ==
    /\ wpc[w] = "flushed"
    /\ wpc' = [wpc EXCEPT ![w] = "done"]
    /\ UNCHANGED <<ctxVars, pc, paceVars, chanVars, countVars, job, wseg, outcome, overall,
                   current, collected, throttled, endVars>>

-----------------------------------------------------------------------------
Outcomes == {"answered", "rate_limited", "canceled"}

Dispatcher ==
    \/ Start \/ StartFails
    \/ ReadClock \/ PollContext \/ PaceTimerFires \/ CanceledWhileWaiting
    \/ EndedWhileWaiting \/ PlanTick
    \/ Drop \/ Admit \/ Reserve \/ RecordPeak \/ Send
    \/ EnterNextSegment \/ EnterStageFails \/ ReturnError
    \/ CloseChannel \/ StopScheduling
    \/ DrainedInTime \/ GraceExpires \/ CanceledWhileDraining \/ AwaitWorkers
    \/ Complete \/ Merge

WorkerStep(w) == Receive(w) \/ Record(w) \/ LeaveLoop(w) \/ Done(w)

\* Run has returned: nothing is left to do.
Terminated == pc = "returned" /\ WorkersDone /\ UNCHANGED vars

Next ==
    \/ Tick \/ CancelContext
    \/ Dispatcher
    \/ \E w \in Workers : WorkerStep(w) \/ \E o \in Outcomes : FinishRequest(w, o)
    \/ Terminated

Spec == Init /\ [][Next]_vars

\* The Go scheduler runs every runnable goroutine and time passes; the target
\* need never answer, but a request whose context is canceled returns.
Fairness ==
    /\ WF_vars(Tick)
    /\ WF_vars(Dispatcher)
    /\ \A w \in Workers : WF_vars(WorkerStep(w))
    /\ \A w \in Workers : WF_vars(WorkerCtxDone /\ \E o \in Outcomes : FinishRequest(w, o))

FairSpec == Spec /\ Fairness

-----------------------------------------------------------------------------
(* Properties                                                               *)

DispatcherPcs ==
    {"start", "loop", "poll", "wait", "stamp", "admit", "reserve", "peak", "send", "next",
     "close", "stop", "drain", "await", "awaitCanceled", "awaitErr", "complete", "merge",
     "returned"}

Counts == [started : Nat, completed : Nat, canceled : Nat, firstThrottle : Nat \cup {-1}]
DispatchCounts == [planned : Nat, scheduled : Nat, dropped : Nat]
Jobs == [segment : Nat, offset : Nat]

\* The type of every variable; a job names a segment of the profile.
TypeOK ==
    /\ now \in Nat /\ ctxDone \in BOOLEAN /\ workersCanceled \in BOOLEAN
    /\ lifecycle \in LifecycleStates
    /\ profile \in Profiles
    /\ pc \in DispatcherPcs
    /\ seg \in DOMAIN profile /\ seen \in Nat /\ wakeAt \in Nat /\ nextTick \in Nat /\ offset \in Nat
    /\ hardCanceled \in BOOLEAN /\ runErr \in BOOLEAN
    /\ jobs \in Seq([segment : DOMAIN profile, offset : Nat]) /\ closed \in BOOLEAN
    /\ inFlight \in Nat /\ peak \in Nat
    /\ disp \in DispatchCounts
    /\ segDisp \in [DOMAIN profile -> DispatchCounts]
    /\ wpc \in [Workers -> {"idle", "exec", "record", "flushed", "done"}]
    /\ job \in [Workers -> Jobs]
    /\ wseg \in [Workers -> DOMAIN profile \cup {0}]
    /\ outcome \in [Workers -> Outcomes \cup {"none"}]
    /\ overall \in [Workers -> Counts] /\ current \in [Workers -> Counts]
    /\ collected \in [DOMAIN profile -> Counts]
    /\ stamps \in Seq(Nat) /\ lateAdmits \in Nat

Executing == {w \in Workers : wpc[w] = "exec"}

Reserved == IF pc \in {"peak", "send"} THEN 1 ELSE 0

\* inFlightCount is exact: it counts the queued jobs, the requests a worker is
\* executing and the one the dispatcher has reserved but not yet sent; so
\* neither it nor the recorded peak ever exceeds max_in_flight, although the
\* dispatcher checks the counter and increments it in two steps while workers
\* decrement it.
InFlightExact ==
    /\ inFlight = Len(jobs) + Cardinality(Executing) + Reserved
    /\ inFlight <= MaxInFlight /\ peak <= MaxInFlight

\* The dispatcher never blocks on `jobs <-`, which no select guards: whenever it
\* is about to send, the channel has room.  (A blocked send could not be
\* canceled and would stop the pacing.)
SendNeverBlocks == pc = "send" => Len(jobs) < MaxInFlight

\* A report balances: every planned request was scheduled or dropped, every
\* scheduled one was started, even when the context was canceled while it was
\* queued, and every started one completed or was canceled.
Balanced(r) ==
    /\ r.planned = r.scheduled + r.dropped
    /\ r.scheduled = r.started
    /\ r.started = r.completed + r.canceled

SumOver(field) ==
    SumFunctionOnSet([s \in DOMAIN profile |-> result.segments[s][field]], DOMAIN profile)

\* What Run returns reconciles, for the run and for each segment, and the
\* segments add up to the run: no worker's last segment is lost because its
\* metrics were flushed after the merge, or flushed twice.
ReportReconciles ==
    pc = "returned" /\ ~runErr =>
        /\ Balanced(result.overall)
        /\ \A s \in DOMAIN profile : Balanced(result.segments[s])
        /\ \A field \in {"planned", "scheduled", "dropped", "started", "completed", "canceled"} :
               SumOver(field) = result.overall[field]

\* No runaway catch-up burst (README.md:86): however late the dispatcher runs,
\* the k-th tick of a segment is not planned before its target time, and any
\* n + 2 consecutive ticks span at least n intervals.
NoCatchUpBurst ==
    \A i \in DOMAIN stamps :
        /\ stamps[i] >= profile[seg].start + (i - 1) * profile[seg].interval
        /\ \A j \in DOMAIN stamps :
               i < j => stamps[j] - stamps[i] >= (j - i - 1) * profile[seg].interval

\* The first-throttle offset reported for a segment is the smallest planned
\* offset that was answered with 429, whichever worker saw it and in whatever
\* order the answers came back and the workers flushed.
FirstThrottleIsEarliest ==
    pc = "returned" /\ ~runErr =>
        \A s \in DOMAIN profile :
            LET hits == {h[2] : h \in {t \in throttled : t[1] = s}}
            IN  result.segments[s].firstThrottle = IF hits = {} THEN -1 ELSE Min(hits)

\* Canceling the context stops dispatching: at most the one request the
\* dispatcher was already past its context check for is still admitted.
AtMostOneLateAdmit == lateAdmits <= 1

\* When Run returns it has left nothing behind: no worker goroutine, no queued
\* job, no in-flight count.
NothingLeftBehind ==
    pc = "returned" => (\A w \in Workers : wpc[w] = "done") /\ jobs = <<>> /\ inFlight = 0

\* The lifecycle is where the run is: a request is handed over only while it
\* shows the stage of the segment the request is accounted to, never in
\* graceful_stop or later, and with a planned offset inside that segment; and
\* none of the last TransitionTo calls, whose errors Run ignores, is refused, so
\* that the lifecycle it leaves behind is the one it meant to set.
LifecycleFollowsTheRun ==
    [][/\ Len(jobs') > Len(jobs) =>
             /\ lifecycle = StageState(profile[seg].stage)
             /\ profile[seg].start <= offset /\ offset < profile[seg].end
       /\ pc \in {"stop", "awaitCanceled", "complete"} /\ pc' # pc => lifecycle' # lifecycle]_vars

Gate == INSTANCE AdmissionGate WITH
    admitted <- disp.scheduled,
    dropped  <- disp.dropped,
    finished <- disp.scheduled - inFlight - (IF pc = "reserve" THEN 1 ELSE 0),
    open     <- ~closed,
    ended    <- pc = "returned" /\ closed

\* The scheduler implements the admission gate: it drops only when max_in_flight
\* requests are outstanding, admits only below that, and ends only when every
\* admitted request has left the in-flight count.
ImplementsGate == Gate!Spec

\* Run returns, whether or not the context is canceled and even if the target
\* never answers a single request.
RunReturns == <>(pc = "returned")

=============================================================================
