---------------------------- MODULE HealthSampler ----------------------------
(***************************************************************************)
(* The generator's health sampler (internal/metrics/health.go) beside the  *)
(* Run of a scheduler that owns it.  Run starts a sampling goroutine,      *)
(* reports lags and drops while it makes load, collects the health record  *)
(* and, in a deferred call and so after collecting, stops the goroutine    *)
(* and waits for it.  How load is made is in OpenScheduler and             *)
(* ClosedScheduler; here a slot only has its lag and whether it was        *)
(* dropped.                                                                *)
(***************************************************************************)
EXTENDS Integers, Sequences, FiniteSets, SequencesExt

CONSTANTS
    Lags,            \* how late a slot can be, in clock units; 0 when it is not
    Counts,          \* what runtime.NumGoroutine can say
    Micro,           \* clock units per microsecond
    LagLimit,        \* SchedulerLagWarningThresholdMS, in microseconds
    GoroutineLimit   \* HighGoroutineThreshold

ASSUME HealthAssumption ==
    /\ Lags \subseteq Nat /\ Counts \subseteq Nat \ {0} /\ Counts # {}
    /\ Micro \in Nat \ {0} /\ LagLimit \in Nat /\ GoroutineLimit \in Nat

VARIABLES
    open,            \* whether Run is the open scheduler's
    run,             \* where Run stands
    running,         \* s.running
    stopChan,        \* whether s.stopChan is closed
    doneChan,        \* whether s.doneChan is closed
    pc,              \* where the sampling goroutine stands
    current,         \* currentGoroutines, read and not yet compared
    goroutinesPeak, schedulerLagMax, warnings,
    dropped,         \* dispatcherMetrics.Dropped > 0
    health,          \* what Collect returned to Run, <<>> before
    lags, stored     \* history: lags recorded, and samples stored, before Collect

runVars == <<open, run, dropped, lags>>
samplerVars == <<pc, current, goroutinesPeak, stored>>
healthVars == <<runVars, samplerVars, running, stopChan, doneChan, schedulerLagMax, warnings, health>>

Warnings == {"max in flight", "target degradation", "goroutines", "lag"}

SamplerInit ==
    /\ open \in BOOLEAN
    /\ run = "new" /\ running = FALSE /\ stopChan = FALSE /\ doneChan = FALSE
    /\ pc = "none" /\ current = 0
    /\ goroutinesPeak = 0 /\ schedulerLagMax = 0 /\ warnings = <<>>
    /\ dropped = FALSE /\ health = <<>> /\ lags = {} /\ stored = {}

Larger(a, b) == IF a > b THEN a ELSE b

\* appendIfMissing, and the loop of AddWarning
AppendIfMissing(seq, w) == IF Contains(seq, w) THEN seq ELSE Append(seq, w)

-----------------------------------------------------------------------------
(* Run                                                                      *)

\* The lifecycle is new when Run begins: it never starts a sampler twice.
Start ==
    /\ run = "new" /\ ~running
    /\ run' = "load" /\ running' = TRUE /\ pc' = "read"
    /\ UNCHANGED <<open, dropped, lags, current, goroutinesPeak, stored, stopChan, doneChan,
                   schedulerLagMax, warnings, health>>

\* One slot of the open scheduler: RecordSchedulerLag if it is late, AddWarning
\* if it is dropped.  The closed scheduler reports nothing.
Slot(lag, isDropped) ==
    /\ run = "load" /\ open
    /\ schedulerLagMax' = IF lag > 0 THEN Larger(schedulerLagMax, lag \div Micro) ELSE schedulerLagMax
    /\ warnings' = IF isDropped THEN AppendIfMissing(warnings, "max in flight") ELSE warnings
    /\ dropped' = (dropped \/ isDropped)
    /\ lags' = lags \cup {lag}
    /\ UNCHANGED <<open, run, samplerVars, running, stopChan, doneChan, health>>

\* The load is over and its metrics are merged.
Drained ==
    /\ run = "load"
    /\ run' = "collect"
    /\ warnings' = IF dropped THEN AppendIfMissing(warnings, "target degradation") ELSE warnings
    /\ UNCHANGED <<open, dropped, lags, samplerVars, running, stopChan, doneChan, schedulerLagMax, health>>

\* A stage is refused or a merge fails: Run returns without health.
Fail ==
    /\ run = "load"
    /\ run' = "deferred"
    /\ UNCHANGED <<open, dropped, lags, samplerVars, running, stopChan, doneChan, schedulerLagMax, warnings, health>>

WithLimits(ws) ==
    LET a == IF goroutinesPeak > GoroutineLimit THEN AppendIfMissing(ws, "goroutines") ELSE ws
    IN  IF schedulerLagMax > LagLimit THEN AppendIfMissing(a, "lag") ELSE a

\* No caller records a CPU sample: the CPU fields keep their zero values.
Collect ==
    /\ run = "collect"
    /\ run' = "deferred"
    /\ health' = <<[peak |-> goroutinesPeak, lagMax |-> schedulerLagMax, warnings |-> WithLimits(warnings)]>>
    /\ UNCHANGED <<open, dropped, lags, samplerVars, running, stopChan, doneChan, schedulerLagMax, warnings>>

\* Stop, up to and after its wait
Stop ==
    /\ run = "deferred" /\ running
    /\ run' = "join" /\ running' = FALSE /\ stopChan' = TRUE
    /\ UNCHANGED <<open, dropped, lags, samplerVars, doneChan, schedulerLagMax, warnings, health>>

Join_NoWait ==
    /\ run = "join"
    /\ run' = "returned"
    /\ UNCHANGED <<open, dropped, lags, samplerVars, running, stopChan, doneChan, schedulerLagMax, warnings, health>>
Join ==
    /\ run = "join" /\ doneChan
    /\ run' = "returned"
    /\ UNCHANGED <<open, dropped, lags, samplerVars, running, stopChan, doneChan, schedulerLagMax, warnings, health>>

-----------------------------------------------------------------------------
(* sampleLoop.  A sample is read before the lock and compared under it; the *)
(* last one, pc "read last", is taken once the stop is seen.                *)

Read(n) ==
    /\ pc \in {"read", "read last"}
    /\ pc' = IF pc = "read" THEN "store" ELSE "store last"
    /\ current' = n
    /\ UNCHANGED <<runVars, goroutinesPeak, stored, running, stopChan, doneChan, schedulerLagMax, warnings, health>>

Store_Blind ==
    /\ pc \in {"store", "store last"}
    /\ pc' = IF pc = "store" THEN "wait" ELSE "done"
    /\ goroutinesPeak' = current
    /\ stored' = IF health = <<>> THEN stored \cup {current} ELSE stored
    /\ current' = 0
    /\ doneChan' = (pc = "store last")
    /\ UNCHANGED <<runVars, running, stopChan, schedulerLagMax, warnings, health>>
Store ==
    /\ pc \in {"store", "store last"}
    /\ pc' = IF pc = "store" THEN "wait" ELSE "done"
    /\ goroutinesPeak' = Larger(goroutinesPeak, current)
    /\ stored' = IF health = <<>> THEN stored \cup {current} ELSE stored
    /\ current' = 0
    /\ doneChan' = (pc = "store last")
    /\ UNCHANGED <<runVars, running, stopChan, schedulerLagMax, warnings, health>>

\* The two cases of the select; Go chooses when both are ready.
TickCase ==
    /\ pc = "wait"
    /\ pc' = "read"
    /\ UNCHANGED <<runVars, current, goroutinesPeak, stored, running, stopChan, doneChan, schedulerLagMax, warnings, health>>

StopCase_Lost ==
    /\ pc = "wait" /\ running /\ stopChan
    /\ pc' = "read last"
    /\ UNCHANGED <<runVars, current, goroutinesPeak, stored, running, stopChan, doneChan, schedulerLagMax, warnings, health>>
StopCase ==
    /\ pc = "wait" /\ stopChan
    /\ pc' = "read last"
    /\ UNCHANGED <<runVars, current, goroutinesPeak, stored, running, stopChan, doneChan, schedulerLagMax, warnings, health>>

-----------------------------------------------------------------------------
RunStep == Drained \/ Fail \/ Collect \/ Stop \/ Join
SampleStep == (\E n \in Counts : Read(n)) \/ Store

SamplerNext ==
    \/ Start
    \/ \E lag \in Lags, isDropped \in BOOLEAN : Slot(lag, isDropped)
    \/ RunStep \/ SampleStep
    \/ TickCase \/ StopCase

SamplerSpec == SamplerInit /\ [][SamplerNext]_healthVars

\* The load ends (OpenScheduler and ClosedScheduler show it), both goroutines
\* run on, and a select does not pass over a ready case forever.
SamplerFairSpec == SamplerSpec /\ WF_healthVars(RunStep) /\ WF_healthVars(SampleStep) /\ SF_healthVars(StopCase)

-----------------------------------------------------------------------------
(* Properties                                                               *)

Has(seq, w) == \E i \in DOMAIN seq : seq[i] = w
Distinct(seq) == \A i, j \in DOMAIN seq : seq[i] = seq[j] => i = j
Micros(ls) == {l \div Micro : l \in ls}
IsLargest(m, values) == (m \in values \/ (m = 0 /\ values \subseteq {0})) /\ \A v \in values : v <= m

\* The record that the report shows (health.go:164) is that of the whole load
\* up to Collect, although samples arrive beside it: the largest lag and the
\* largest sample stored, and each warning once, exactly when it is due.
HealthIsExact ==
    \A k \in DOMAIN health :
        LET h == health[k]
        IN  /\ IsLargest(h.lagMax, Micros(lags))
            /\ IsLargest(h.peak, stored)
            /\ Distinct(h.warnings)
            /\ Has(h.warnings, "goroutines") <=> \E n \in stored : n > GoroutineLimit
            /\ Has(h.warnings, "lag") <=> \E n \in Micros(lags) : n > LagLimit
            /\ Has(h.warnings, "max in flight") <=> dropped
            /\ Has(h.warnings, "target degradation") <=> dropped

\* No sampling goroutine survives the Run that started it (health.go:110), on
\* the paths that return early too, and none is waiting for a lost signal.
SamplerJoined ==
    /\ run = "returned" => pc = "done" /\ ~running
    /\ run \in {"load", "collect", "deferred"} => pc # "none" /\ ~doneChan

\* Run does not hang in its deferred Stop: it returns, whatever the goroutine
\* was doing when it was stopped.
StopReturns == run = "load" ~> run = "returned"

=============================================================================
