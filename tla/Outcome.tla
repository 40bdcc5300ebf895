------------------------------- MODULE Outcome -------------------------------
(***************************************************************************)
(* The terminal classification of a request (internal/core/outcome.go) and *)
(* what redaction of an error leaves of it (internal/config/redact.go).    *)
(***************************************************************************)
NoErr == "no error"

\* What the classifier tells apart in an error: "refused" says so in its
\* message, "dial" is any other failure to connect, "closed" is os.ErrClosed.
ErrorKinds ==
    {"deadline", "net_timeout", "dns", "tls", "refused", "dial", "canceled", "closed", "other"}

Outcomes ==
    {"success", "unexpected_status", "rate_limited", "timeout", "dns_error", "connect_error", "tls_error",
     "request_build_error", "response_body_error", "canceled", "other_transport_error", "dropped"}

\* A redacted error keeps its text but for the secrets, errors.Is and Timeout;
\* errors.As no longer finds what it wraps.
classifyError(kind, redacted) ==
    CASE kind \in {"deadline", "net_timeout"}                 -> "timeout"
      [] kind = "dns" /\ ~redacted                            -> "dns_error"
      [] kind = "tls"                                         -> "tls_error"
      [] kind = "refused" \/ (kind = "dial" /\ ~redacted)     -> "connect_error"
      [] kind \in {"canceled", "closed"}                      -> "canceled"
      [] OTHER                                                -> "other_transport_error"

\* An empty list of expected statuses stands for 200.
isStatusExpected(status, expected) == status \in (IF expected = {} THEN {200} ELSE expected)

\* What a caller leaves out of ClassifyInput
NoInput ==
    [dropped |-> FALSE, canceled |-> FALSE, buildErr |-> FALSE, bodyErr |-> FALSE,
     err |-> NoErr, redacted |-> FALSE, status |-> 0, expected |-> {}]

Classify(in) ==
    IF in.dropped THEN "dropped"
    ELSE IF in.canceled THEN "canceled"
    ELSE IF in.buildErr THEN "request_build_error"
    ELSE IF in.bodyErr THEN "response_body_error"
    ELSE IF in.err # NoErr THEN classifyError(in.err, in.redacted)
    ELSE IF in.status = 429 THEN "rate_limited"
    ELSE IF isStatusExpected(in.status, in.expected) THEN "success"
    ELSE "unexpected_status"
=============================================================================
