------------------------------- MODULE Reports -------------------------------
(***************************************************************************)
(* The report of a run (internal/report/builder.go, phase6.go), what can   *)
(* be loaded of it again, and the comparison of two reports                *)
(* (internal/compare/compare.go).  One latency percentile and one rate     *)
(* stand for all; the deltas of single segments are left out.              *)
(***************************************************************************)
EXTENDS Configuration

CONSTANT
    None         \* nil

\* Where a report is expected: no file was written; no file, too large a file, or
\* one that is not exactly one report, such as the beginning of one whose
\* writing was cut short.
NoFile     == [schema |-> 0, given |-> FALSE]
Unreadable == [schema |-> 0, given |-> TRUE]

\* Counts, the throughput in requests per second and a percentile in microseconds
Counts == [completed : Nat, success : Nat, limited : Nat, dropped : Nat, rps : Nat, p95 : Nat]
Zero == [completed |-> 0, success |-> 0, limited |-> 0, dropped |-> 0, rps |-> 0, p95 |-> 0]

\* The profile of a report: name, stage, rate and length of each segment.
\* Names are those of the stages here.
CompiledParts == [stage : Text, num : Int, den : Int, length : Int]
CompiledSegments(plan) ==
    IF plan.load.model # "open" THEN <<>>
    ELSE LET c == Compile(Source(plan.load), plan.load.unit)
         IN  [i \in DOMAIN c |-> [stage |-> c[i].stage, num |-> c[i].num, den |-> c[i].den, length |-> c[i].end - c[i].start]]

\* BuildReport with buildPhase6Report: only a plan of schema 2 with metrics has
\* the profile and the summary of its measured part.  The plan stands for its
\* fingerprint.  results maps a threshold to whether it passed.
BuildReport(plan, a, incomplete, results, duration) ==
    LET profiled == plan.schema >= 2 /\ a # None
    IN  [schema |-> IF profiled THEN 2 ELSE 1, model |-> plan.load.model, fingerprint |-> plan,
         incomplete |-> incomplete, thresholds |-> results, duration |-> duration,
         overall |-> IF a = None THEN Zero ELSE a.overall,
         compiled |-> IF profiled THEN CompiledSegments(plan) ELSE <<>>,
         measured |-> IF profiled THEN a.measured ELSE None]

\* LoadReport
Loadable(r) == r # Unreadable /\ r.schema \in {1, 2} /\ ~r.incomplete /\ r.model # ""

-----------------------------------------------------------------------------
(* Compare                                                                  *)

Fraction(n, d) == [num |-> n, den |-> IF d > 0 THEN d ELSE 1]

\* comparisonSummary: the measured part, or the counts of the whole report over
\* its duration; one that lasted no millisecond has no throughput.
comparisonSummary(r) ==
    LET s == IF r.measured # None THEN r.measured ELSE r.overall
        percent(n) == Fraction(100 * n, s.completed)
    IN  [p95 |-> Fraction(s.p95, 1),
         throughput |-> IF r.measured # None THEN Fraction(s.rps, 1)
                        ELSE Fraction(IF r.duration > 0 THEN s.completed ELSE 0, r.duration),
         error_rate |-> percent(s.completed - s.success),
         rate_limited_rate |-> percent(s.limited),
         dropped |-> Fraction(s.dropped, 1), observed_429 |-> Fraction(s.limited, 1)]

newDelta(b, c) ==
    [baseline |-> b, candidate |-> c, absolute |-> c.num * b.den - b.num * c.den, percentage |-> b.num # 0]

compatibleSegments(b, c) ==
    /\ Len(b.compiled) = Len(c.compiled)
    /\ \A i \in DOMAIN b.compiled :
          LET x == b.compiled[i]
              y == c.compiled[i]
          IN  x.stage = y.stage /\ x.num * y.den = y.num * x.den /\ x.length = y.length

Change(t, what) == [threshold |-> t, change |-> what]

compareThresholds_Missing(left, right) ==
    LET both == DOMAIN left \cap DOMAIN right
    IN  {Change(t, "pass-to-fail") : t \in {u \in both : left[u] /\ ~right[u]}}
        \cup {Change(t, "removed") : t \in DOMAIN left \ DOMAIN right}
compareThresholds(left, right) ==
    LET both == DOMAIN left \cap DOMAIN right
    IN  {Change(t, "removed") : t \in DOMAIN left \ DOMAIN right}
        \cup {Change(t, "pass-to-fail") : t \in {u \in both : left[u] /\ ~right[u]}}
        \cup {Change(t, "fail-to-pass") : t \in {u \in both : ~left[u] /\ right[u]}}
        \cup {Change(t, "added") : t \in DOMAIN right \ DOMAIN left}

Compare(b, c) ==
    [warnings |-> {w \in {"fingerprints", "models", "segments"} :
                      CASE w = "fingerprints" -> b.fingerprint # c.fingerprint
                        [] w = "models"       -> b.model # c.model
                        [] w = "segments"     -> ~compatibleSegments(b, c)},
     deltas |-> [n \in DOMAIN comparisonSummary(b) |-> newDelta(comparisonSummary(b)[n], comparisonSummary(c)[n])],
     changes |-> compareThresholds(b.thresholds, c.thresholds)]
=============================================================================
