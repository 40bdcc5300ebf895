------------------------------ MODULE MCMetrics ------------------------------
(* Small instances of Metrics for TLC. *)
EXTENDS Metrics

Result(outcome, status, error, header) ==
    [outcome |-> outcome, status |-> status, error |-> error, header |-> header]

\* Two header values, one that does not parse, and three kinds of errors.
MCResults ==
    { Result("success", 200, NoError, "ten"),
      Result("rate_limited", 429, NoError, "nine"),
      Result("unexpected_status", 500, NoError, Invalid),
      Result("network_error", 0, "refused", Absent),
      Result("network_error", 0, "reset", Absent) }

MCErrors == { Result("network_error", 0, "refused", Absent) }
=============================================================================
