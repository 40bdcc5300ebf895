------------------------------- MODULE Metrics -------------------------------
(***************************************************************************)
(* Recording and merging of measurements (internal/metrics): each worker   *)
(* records results into its run-wide metrics and into those of the segment *)
(* it is in (worker.go, ratelimit.go), flushes the latter into the shared  *)
(* segment collector when it changes segment and when it ends              *)
(* (segment.go), and at the end everything is merged three ways            *)
(* (aggregate.go): over the workers, per segment, and over the segments.   *)
(* A result keeps what the metrics tell apart: its outcome, its status,    *)
(* its error and one rate-limit header.  A histogram is its count.         *)
(***************************************************************************)
EXTENDS Integers, Sequences, FiniteSets, Functions

CONSTANTS
    PoolSize,         \* the number of workers, len(workerPool)
    SegmentCount,     \* the number of segments of the profile
    Measured,         \* the indices of those with IncludedMeasured
    Results,          \* the results ExecuteRequest may return
    MaxErrorSamples,  \* distinct error samples kept, 10 in the code
    MaxSamples,       \* MaxRateLimitSamples, 10 in the code
    MaxResults        \* bound on the results of one run

Workers  == 1..PoolSize
Segments == 1..SegmentCount

ASSUME MetricsAssumption ==
    /\ PoolSize \in Nat /\ SegmentCount \in Nat /\ Measured \subseteq Segments /\ IsFiniteSet(Results)
    /\ \A r \in Results : DOMAIN r = {"outcome", "status", "error", "header"}
    /\ MaxErrorSamples \in Nat \ {0} /\ MaxSamples \in Nat \ {0} /\ MaxResults \in Nat

NoError == "no error"      \* Result.Err is nil
Absent  == "absent"        \* the header was not sent
Invalid == "invalid"       \* the header did not parse

Outcomes == {r.outcome : r \in Results}
Statuses == {r.status : r \in Results} \ {0}

NoHeaders == [observed |-> 0, parseErrors |-> 0, agree |-> TRUE, samples |-> <<>>]

NewWorkerMetrics ==
    [outcomes |-> [o \in Outcomes |-> 0], codes |-> [c \in Statuses |-> 0],
     all |-> 0, success |-> 0, throttled |-> 0, errors |-> <<>>, headers |-> NoHeaders]

-----------------------------------------------------------------------------
(* Recording a result                                                       *)

\* A sample list keeps distinct values, up to its capacity.
AddDistinct(samples, v) ==
    IF v \in Range(samples) \/ Len(samples) >= MaxSamples THEN samples ELSE Append(samples, v)

\* n more occurrences of an error: an error that is not yet listed is added
\* only while there is room.
AddErrors_NoLimit(errors, key, n) ==
    IF \E i \in DOMAIN errors : errors[i].key = key
    THEN [i \in DOMAIN errors |-> IF errors[i].key = key THEN [errors[i] EXCEPT !.count = @ + n] ELSE errors[i]]
    ELSE Append(errors, [key |-> key, count |-> n])
AddErrors(errors, key, n) ==
    IF \E i \in DOMAIN errors : errors[i].key = key
    THEN [i \in DOMAIN errors |-> IF errors[i].key = key THEN [errors[i] EXCEPT !.count = @ + n] ELSE errors[i]]
    ELSE IF Len(errors) < MaxErrorSamples THEN Append(errors, [key |-> key, count |-> n])
    ELSE errors

recordErrorSample(errors, key) == AddErrors(errors, key, 1)

\* The class and message a result is sampled under, if any: its error, or the
\* status that was not expected.
Sampled(r) == r.error # NoError \/ r.outcome = "unexpected_status"
ErrorKey(r) == <<r.outcome, IF r.error # NoError THEN r.error ELSE r.status>>

\* One more value of a header; samples[1] is the first value seen.
recordHeader(h, v) ==
    IF v = Absent THEN h
    ELSE IF v = Invalid THEN [h EXCEPT !.observed = @ + 1, !.parseErrors = @ + 1]
    ELSE [h EXCEPT !.observed = @ + 1,
                   !.agree = (h.observed = 0 \/ @) /\ (h.samples = <<>> \/ h.samples[1] = v),
                   !.samples = AddDistinct(@, v)]

IsThrottled(r) == r.status = 429 \/ r.outcome = "rate_limited"

RecordResult(m, r) ==
    [m EXCEPT !.outcomes[r.outcome] = @ + 1,
              !.codes = [c \in Statuses |-> @[c] + (IF c = r.status THEN 1 ELSE 0)],
              !.all = @ + 1,
              !.success = @ + (IF r.outcome = "success" THEN 1 ELSE 0),
              !.throttled = @ + (IF IsThrottled(r) THEN 1 ELSE 0),
              !.errors = IF Sampled(r) THEN recordErrorSample(@, ErrorKey(r)) ELSE @,
              !.headers = recordHeader(@, r.header)]

-----------------------------------------------------------------------------
(* Merging                                                                  *)

AddPointwise(f, g) == [x \in DOMAIN f |-> f[x] + g[x]]

MergeSample_NoCompare(h, v) == [h EXCEPT !.samples = AddDistinct(@, v)]
MergeSample(h, v) ==
    [h EXCEPT !.agree = @ /\ (h.samples = <<>> \/ h.samples[1] = v), !.samples = AddDistinct(@, v)]

\* The loop over the source's samples
MergeSamples(h, samples) ==
    LET upTo[i \in 0..Len(samples)] == IF i = 0 THEN h ELSE MergeSample(upTo[i - 1], samples[i])
    IN  upTo[Len(samples)]

mergeHeaderConsistency(destination, source) ==
    MergeSamples([destination EXCEPT
                     !.observed = @ + source.observed,
                     !.parseErrors = @ + source.parseErrors,
                     !.agree = (destination.observed = 0 \/ @) /\ source.agree],
                 source.samples)

\* What both merges do to everything except the error samples
Combine_LosesSuccess(destination, source) ==
    [destination EXCEPT
        !.outcomes = AddPointwise(@, source.outcomes), !.codes = AddPointwise(@, source.codes),
        !.all = @ + source.all, !.success = source.success,
        !.throttled = @ + source.throttled,
        !.headers = mergeHeaderConsistency(@, source.headers)]
Combine(destination, source) ==
    [destination EXCEPT
        !.outcomes = AddPointwise(@, source.outcomes), !.codes = AddPointwise(@, source.codes),
        !.all = @ + source.all, !.success = @ + source.success,
        !.throttled = @ + source.throttled,
        !.headers = mergeHeaderConsistency(@, source.headers)]

\* The loop over the source's error samples
AddSamples(errors, samples) ==
    LET upTo[i \in 0..Len(samples)] ==
            IF i = 0 THEN errors ELSE AddErrors(upTo[i - 1], samples[i].key, samples[i].count)
    IN  upTo[Len(samples)]

\* The collector records each of the source's samples as one more occurrence.
mergeWorkerMetrics(destination, source) ==
    [Combine(destination, source) EXCEPT
        !.errors = AddSamples(destination.errors, [i \in DOMAIN source.errors |-> [source.errors[i] EXCEPT !.count = 1]])]

\* MergeWorkers adds up the counts of the samples.
MergeWorker(destination, source) ==
    [Combine(destination, source) EXCEPT !.errors = AddSamples(destination.errors, source.errors)]

\* Those of `workers` whose index is in `chosen`, merged in their order
MergeWorkers(workers, chosen) ==
    LET upTo[i \in 0..Len(workers)] ==
            IF i = 0 THEN NewWorkerMetrics
            ELSE IF i \in chosen THEN MergeWorker(upTo[i - 1], workers[i]) ELSE upTo[i - 1]
    IN  upTo[Len(workers)]

\* MergeAggregates turns each aggregate back into a worker's metrics.
MergeAggregates(inputs, chosen) == MergeWorkers(inputs, chosen)

-----------------------------------------------------------------------------
VARIABLES
    overall, current,  \* per worker: run-wide metrics and those of its segment
    segment,           \* per worker: its segment, 0 before its first job
    ended,             \* per worker: the deferred flush has run
    collected,         \* per segment: the collector's accumulator
    merged,            \* what Run returns, <<>> before
    seen               \* history: per worker and segment, how often each result was recorded

vars == <<overall, current, segment, ended, collected, merged, seen>>

\* How often each result was recorded in the segments S
SeenIn(S) ==
    [r \in Results |->
        SumFunctionOnSet([s \in S |-> SumFunctionOnSet([w \in Workers |-> seen[w][s][r]], Workers)], S)]
InAll == SeenIn(Segments)

\* How many of the results in `counts` are in R
CountOf(counts, R) == SumFunctionOnSet(counts, R)

Init ==
    /\ overall = [w \in Workers |-> NewWorkerMetrics] /\ current = overall
    /\ segment = [w \in Workers |-> 0] /\ ended = [w \in Workers |-> FALSE]
    /\ collected = [s \in Segments |-> NewWorkerMetrics]
    /\ merged = <<>>
    /\ seen = [w \in Workers |-> [s \in Segments |-> [r \in Results |-> 0]]]

Record(w, r) ==
    /\ ~ended[w] /\ segment[w] # 0 /\ CountOf(InAll, Results) < MaxResults
    /\ overall' = [overall EXCEPT ![w] = RecordResult(@, r)]
    /\ current' = [current EXCEPT ![w] = RecordResult(@, r)]
    /\ seen' = [seen EXCEPT ![w][segment[w]][r] = @ + 1]
    /\ UNCHANGED <<segment, ended, collected, merged>>

\* A worker that has had no job has nothing to flush.
Flush(w) ==
    collected' = IF segment[w] = 0 THEN collected
                 ELSE [collected EXCEPT ![segment[w]] = mergeWorkerMetrics(@, current[w])]

\* A job of a later segment: flush, and start over.  Jobs come in profile order.
EnterSegment(w, s) ==
    /\ ~ended[w] /\ s > segment[w]
    /\ Flush(w)
    /\ current' = [current EXCEPT ![w] = NewWorkerMetrics]
    /\ segment' = [segment EXCEPT ![w] = s]
    /\ UNCHANGED <<overall, ended, merged, seen>>

End(w) ==
    /\ ~ended[w]
    /\ Flush(w)
    /\ ended' = [ended EXCEPT ![w] = TRUE]
    /\ UNCHANGED <<overall, current, segment, merged, seen>>

\* The dispatcher's own metrics, which hold no results, are merged first.
WithDispatcher(workers) == <<NewWorkerMetrics>> \o workers

Merge ==
    /\ \A w \in Workers : ended[w]
    /\ merged = <<>>
    /\ LET perSegment == [s \in Segments |-> MergeWorkers(WithDispatcher(<<collected[s]>>), 1..2)]
       IN  merged' = [overall  |-> MergeWorkers(WithDispatcher(overall), 1..(PoolSize + 1)),
                      segments |-> perSegment,
                      measured |-> MergeAggregates(perSegment, Measured)]
    /\ UNCHANGED <<overall, current, segment, ended, collected, seen>>

Terminated == merged # <<>> /\ UNCHANGED vars

Next ==
    \/ \E w \in Workers :
           \/ \E s \in Segments : EnterSegment(w, s)
           \/ \E r \in Results : Record(w, r)
           \/ End(w)
    \/ Merge
    \/ Terminated

Spec == Init /\ [][Next]_vars

-----------------------------------------------------------------------------
(* Properties                                                               *)

\* An aggregate and the results it must be about
Claims ==
    {<<merged.overall, InAll>>, <<merged.measured, SeenIn(Measured)>>} \cup
        {<<merged.segments[s], SeenIn({s})>> : s \in Segments}

\* m counts the results `counts`: outcomes, status codes, latencies, throttles
\* and header observations.
Counted(m, counts) ==
    LET N(R) == CountOf(counts, R)
    IN  /\ \A o \in Outcomes : m.outcomes[o] = N({r \in Results : r.outcome = o})
        /\ \A c \in Statuses : m.codes[c] = N({r \in Results : r.status = c})
        /\ m.all = N(Results)
        /\ m.success = N({r \in Results : r.outcome = "success"})
        /\ m.throttled = N({r \in Results : r.status = 429 \/ r.outcome = "rate_limited"})
        /\ m.headers.observed = N({r \in Results : r.header # Absent})
        /\ m.headers.parseErrors = N({r \in Results : r.header = Invalid})

\* However workers interleave, change segments and flush, every way of merging
\* counts each recorded result exactly once (segment.go:80, aggregate.go:94).
CountsExact == merged # <<>> => \A c \in Claims : Counted(c[1], c[2])

\* The values of the header that were parsed
Values(counts) == {r.header : r \in {x \in Results : counts[x] > 0}} \ {Absent, Invalid}

\* A header is reported as consistent exactly if all its parsed values were the
\* same, although merges compare only samples, and lists of samples are cut
\* (ratelimit.go:39).
AgreementExact == merged # <<>> => \A c \in Claims : c[1].headers.agree = (Cardinality(Values(c[2])) <= 1)

\* The results that are sampled under a key, and the keys of those that occurred
SampledAs(key) == {r \in Results : Sampled(r) /\ ErrorKey(r) = key}
Kinds(counts) == {ErrorKey(r) : r \in {x \in Results : Sampled(x) /\ counts[x] > 0}}

\* The run's error samples are bounded, distinct, never overstated, and exact as
\* long as the run had no more kinds of errors than there is room for
\* (aggregate.go:157).
ErrorSamplesHonest ==
    merged # <<>> =>
        LET errors == merged.overall.errors
        IN  /\ Len(errors) <= MaxErrorSamples
            /\ \A i, j \in DOMAIN errors : errors[i].key = errors[j].key => i = j
            /\ \A i \in DOMAIN errors : errors[i].count <= CountOf(InAll, SampledAs(errors[i].key))
            /\ Cardinality(Kinds(InAll)) <= MaxErrorSamples =>
                   \A k \in Kinds(InAll) : \E i \in DOMAIN errors :
                       errors[i].key = k /\ errors[i].count = CountOf(InAll, SampledAs(k))

\* What worker.go:23 says of an error sample, "recorded error message and
\* occurrence count", for the samples of a segment: the count is the number of
\* occurrences, if the segment had room for all kinds of errors.
SegmentErrorCounts ==
    merged # <<>> =>
        \A s \in Segments :
            LET errors == merged.segments[s].errors
            IN  Len(errors) < MaxErrorSamples =>
                    \A i \in DOMAIN errors : errors[i].count = CountOf(SeenIn({s}), SampledAs(errors[i].key))

=============================================================================
