--------------------------- MODULE RateLimitHeaders ---------------------------
(***************************************************************************)
(* The rate-limit headers between the test target and the executor: what   *)
(* the limiter writes in each style (internal/testtarget/ratelimit.go) and *)
(* what the client reads from them (internal/executor/ratelimit.go).  A    *)
(* set of headers is a function on the names that are set.  A value is an  *)
(* integer or, in an HTTP date, a whole second since the epoch.            *)
(***************************************************************************)
EXTENDS Integers

CONSTANTS
    Second,         \* clock units per second
    EpochThreshold  \* rateLimitEpochThreshold: a larger reset is a date

ASSUME RateLimitHeadersAssumption == Second \in Nat \ {0} /\ EpochThreshold \in Nat

Styles == {"seconds", "date", "draft", "legacy", "all"}

Number(n) == [kind |-> "number", value |-> n]
HttpDate(s) == [kind |-> "date", value |-> s]
Text == [kind |-> "text", value |-> 0]   \* the policy, kept and never compared

\* math.Ceil of a duration in seconds, at least one
ResetSeconds(d) == IF d < Second THEN 1 ELSE (d + Second - 1) \div Second

\* time.Time.Unix, and the seconds of http.TimeFormat
Unix(t) == t \div Second

\* The headers of each style; only "all" says when to retry before it has to
HeaderNames(style, remaining) ==
    LET draft  == {"RateLimit-Limit", "RateLimit-Remaining", "RateLimit-Reset", "RateLimit-Policy"}
        legacy == {"X-RateLimit-Limit", "X-RateLimit-Remaining", "X-RateLimit-Reset"}
    IN  (IF style \in {"draft", "all"} THEN draft ELSE {})
        \cup (IF style \in {"legacy", "all"} THEN legacy ELSE {})
        \cup (IF style = "all" \/ (style \in Styles /\ remaining = 0) THEN {"Retry-After"} ELSE {})

populateHeaders(style, limit, remaining, resetSeconds, resetAt) ==
    [n \in HeaderNames(style, remaining) |->
        CASE n \in {"RateLimit-Limit", "X-RateLimit-Limit"} -> Number(limit)
          [] n \in {"RateLimit-Remaining", "X-RateLimit-Remaining"} -> Number(remaining)
          [] n = "RateLimit-Reset" -> Number(resetSeconds)
          [] n = "X-RateLimit-Reset" -> Number(Unix(resetAt))
          [] n = "RateLimit-Policy" -> Text
          [] n = "Retry-After" -> IF style = "date" THEN HttpDate(Unix(resetAt)) ELSE Number(resetSeconds)]

-----------------------------------------------------------------------------
Nil == -1   \* a field of RateLimitInfo that is nil

\* preferredHeader: the standard name before the legacy one
Preferred(headers, standard, legacy) ==
    IF standard \in DOMAIN headers THEN {headers[standard]}
    ELSE IF legacy \in DOMAIN headers THEN {headers[legacy]} ELSE {}

\* The value among at most one that parsed
Field(values) == IF values = {} THEN Nil ELSE (CHOOSE v \in values : TRUE).value

IsDate(v) == v.kind = "date"
IsNumber(v) == v.kind = "number" /\ v.value >= 0
IsEpoch(v) == IsDate(v) \/ v.value > EpochThreshold

ExtractRateLimitInfo(headers) ==
    LET retry     == Preferred(headers, "Retry-After", "Retry-After")
        limit     == Preferred(headers, "RateLimit-Limit", "X-RateLimit-Limit")
        remaining == Preferred(headers, "RateLimit-Remaining", "X-RateLimit-Remaining")
        reset     == Preferred(headers, "RateLimit-Reset", "X-RateLimit-Reset")
    IN  [retrySeconds |-> Field({v \in retry : IsNumber(v)}),
         retryDate    |-> Field({v \in retry : IsDate(v)}),
         limit        |-> Field({v \in limit : IsNumber(v)}),
         remaining    |-> Field({v \in remaining : IsNumber(v)}),
         resetSeconds |-> Field({v \in reset : IsNumber(v) /\ ~IsEpoch(v)}),
         resetDate    |-> Field({v \in reset : IsEpoch(v)}),
         policy       |-> "RateLimit-Policy" \in DOMAIN headers]
=============================================================================
