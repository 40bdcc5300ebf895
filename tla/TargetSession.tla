---------------------------- MODULE TargetSession ----------------------------
(***************************************************************************)
(* The embedded test target (internal/testtarget) and the virtual users    *)
(* that call it.  A request is recorded, judged by the rate limiter and    *)
(* answered by its endpoint, each under a lock of its own, while other     *)
(* requests and the clock move on and while the caller may give up.  The   *)
(* user brings its credentials and its cookie jar, follows redirects and   *)
(* reads the rate-limit headers.  How the client classifies what it gets   *)
(* is in RequestAttempt.                                                   *)
(***************************************************************************)
EXTENDS Credentials, RateLimitHeaders, Functions

CONSTANTS
    Setups,        \* [users, auth, jars, style, menu, calls, horizon]: number of
                   \* virtual users, their authentication and whether they have
                   \* cookie jars, header style ("off" without limiter), paths
                   \* that are called, bounds on the calls and on the clock
    Limit, Window, \* RequestsPerWindow, and Window in clock units
    Origin,        \* when the limiter was made
    Delay,         \* the delay that the path "delay" asks for
    Hops,          \* the hops that the path "redirect" asks for
    MaxRecorded,   \* maxRecordedRequests
    MaxCalls       \* the largest bound on the calls

ASSUME TargetAssumption ==
    /\ Limit \in Nat \ {0} /\ Window \in Nat \ {0} /\ Origin \in Nat
    /\ Delay \in Nat /\ Hops \in Nat /\ MaxRecorded \in Nat /\ MaxCalls \in Nat

\* A pool has a token (provider.go:42).
ASSUME SetupsAssumption ==
    \A s \in Setups :
        /\ s.users \in Nat /\ s.jars \in BOOLEAN /\ s.style \in Styles \cup {"off"}
        /\ s.auth.type = "token_pool" => s.auth.tokens \in Seq(STRING) /\ Len(s.auth.tokens) > 0

\* The clock shows a time after September 2001, and a window is shorter than 31
\* years: a number of seconds is not mistaken for a date, nor a date for one.
ASSUME ClockAssumption == Unix(Origin) > EpochThreshold /\ ResetSeconds(Window) <= EpochThreshold

VARIABLES
    setup,           \* the member of Setups that this target and its users have
    now,             \* the clock
    count, resetAt,  \* RateLimiter.count, RateLimiter.resetAt
    recorded,        \* len(recordedReqs)
    requests,        \* sequence of the requests made so far
    jars,            \* per jar: the names of its cookies
    admits,          \* history: when the limiter admitted a request
    sessions         \* history: per user, the cookies that its own answers left it

limiterVars == <<now, count, resetAt, admits>>
vars == <<setup, limiterVars, recorded, requests, jars, sessions>>

UserIds == 0..(setup.users - 1)

Init ==
    /\ setup \in Setups
    /\ now = Origin /\ count = 0 /\ resetAt = Origin + Window /\ admits = <<>>
    /\ recorded = 0 /\ requests = <<>>
    /\ jars = [j \in UserIds |-> {}] /\ sessions = [u \in UserIds |-> {}]

-----------------------------------------------------------------------------
(* The virtual users                                                        *)

JarOf(u) == GetJar(setup.jars, setup.users, u)
CookiesOf(u) == IF JarOf(u) = NoJar THEN {} ELSE jars[JarOf(u)]

\* What is not known before the target has answered
NoAnswer == [status |-> 0, set |-> {}, clear |-> {}, auth |-> FALSE, cookies |-> {}, identity |-> NoCredential]
NoVerdict == [at |-> 0, reset |-> 0, used |-> 0]
NoHeaders == [n \in {} |-> Number(0)]

NewRequest(u, path) ==
    [user |-> u, path |-> path, hops |-> IF path = "redirect" THEN Hops ELSE 0,
     credential |-> AuthenticateRequest(setup.auth, u), cookies |-> CookiesOf(u),
     phase |-> "sent", gone |-> FALSE, wake |-> 0,
     answer |-> NoAnswer, headers |-> NoHeaders,
     verdict |-> NoVerdict, own |-> sessions[u]]

\* Of a call that is over only the identity that the target saw is kept.
Over(r) ==
    [r EXCEPT !.phase = "done", !.gone = FALSE, !.wake = 0, !.headers = NoHeaders, !.verdict = NoVerdict,
              !.cookies = {}, !.own = {}, !.answer = [NoAnswer EXCEPT !.identity = r.answer.identity]]

Idle(u) == \A i \in DOMAIN requests : requests[i].user = u => requests[i].gone \/ requests[i].phase = "done"

ExecuteRequest(u) ==
    /\ Idle(u) /\ Len(requests) < setup.calls
    /\ \E path \in setup.menu : requests' = Append(requests, NewRequest(u, path))
    /\ UNCHANGED <<setup, limiterVars, recorded, jars, sessions>>

\* The request's deadline, or the run's cancellation.  The target's handler
\* goes on unless it waits for just this.
GiveUp(i) ==
    /\ ~requests[i].gone /\ requests[i].phase # "done"
    /\ requests' = [requests EXCEPT ![i].gone = TRUE]
    /\ UNCHANGED <<setup, limiterVars, recorded, jars, sessions>>

Kept(cookies, answer) == (cookies \ answer.clear) \cup answer.set

\* The answer arrives: the jar takes its cookies, and a redirect is followed by
\* a request of its own to the target.
Receive(i) ==
    LET r == requests[i]
        u == r.user
    IN  /\ r.phase = "answered" /\ ~r.gone
        /\ jars' = [j \in UserIds |-> IF j = JarOf(u) THEN Kept(jars[j], r.answer) ELSE jars[j]]
        /\ sessions' = [sessions EXCEPT ![u] = IF setup.jars THEN Kept(@, r.answer) ELSE {}]
        /\ requests' = [requests EXCEPT ![i] =
               IF r.answer.status = 302
               THEN [NewRequest(u, IF r.hops > 1 THEN "redirect" ELSE "plain") EXCEPT
                        !.hops = r.hops - 1, !.cookies = IF JarOf(u) = NoJar THEN {} ELSE jars'[JarOf(u)], !.own = sessions'[u]]
               ELSE Over(r)]
        /\ UNCHANGED <<setup, limiterVars, recorded>>

-----------------------------------------------------------------------------
(* The target                                                               *)

\* recordRequest; a target without limiter goes on to the endpoint at once
Record(i) ==
    /\ requests[i].phase = "sent"
    /\ recorded' = IF recorded >= MaxRecorded THEN recorded ELSE recorded + 1
    /\ requests' = [requests EXCEPT ![i].phase = IF setup.style = "off" THEN "admitted" ELSE "recorded"]
    /\ UNCHANGED <<setup, limiterVars, jars, sessions>>

\* A request after Check: admitted, or answered with 429; its headers are set
Judged(r, allowed, used, reset) ==
    [r EXCEPT !.phase = IF allowed THEN "admitted" ELSE "answered",
              !.answer.status = IF allowed THEN 0 ELSE 429,
              !.headers = populateHeaders(setup.style, Limit, Limit - used, ResetSeconds(reset - now), reset),
              !.verdict = [at |-> now, reset |-> reset, used |-> used]]

\* The window that ended at resetAt is over; there is room in the current one.
Expired_Late == now > resetAt
Expired == now >= resetAt
HasRoom_OneMore(used) == used <= Limit
HasRoom(used) == used < Limit

\* RateLimiter.Check, and the answer of a request that it refuses
Check(i) ==
    LET used  == IF Expired THEN 0 ELSE count
        reset == IF Expired THEN now + Window ELSE resetAt
        after == IF HasRoom(used) THEN used + 1 ELSE used
    IN  /\ requests[i].phase = "recorded"
        /\ count' = after /\ resetAt' = reset
        /\ admits' = IF HasRoom(used) THEN Append(admits, now) ELSE admits
        /\ requests' = [requests EXCEPT ![i] = Judged(@, HasRoom(used), after, reset)]
        /\ UNCHANGED <<setup, now, recorded, jars, sessions>>

-----------------------------------------------------------------------------
(* The endpoints: what they answer to a request                             *)

ApiHeaders == {"X-API-Key", "X-Auth-Token"}
Status(n) == [NoAnswer EXCEPT !.status = n]
Verified(ok) == Status(IF ok THEN 200 ELSE 401)

AnswerTo(r) ==
    LET c == r.credential
    IN  CASE r.path = "login"       -> [Status(200) EXCEPT !.set = {"session_id"}]
          [] r.path = "login-get"   -> Status(405)
          [] r.path = "logout"      -> [Status(200) EXCEPT !.clear = {"session_id"}]
          [] r.path = "items"       -> [Status(200) EXCEPT !.auth = c.header = "Authorization" \/ "session_id" \in r.cookies]
          [] r.path = "cookies-set" -> [Status(200) EXCEPT !.set = {"c"}]
          [] r.path = "cookies"     -> [Status(200) EXCEPT !.cookies = r.cookies]
          [] r.path = "bearer"      -> Verified(c.header = "Authorization" /\ c.scheme = "Bearer")
          [] r.path = "header"      -> Verified(c.header \in ApiHeaders)
          [] r.path = "basic"       -> Verified(c.header = "Authorization" /\ c.scheme = "Basic" /\ c.token # "")
          [] r.path = "token-pool"  -> IF c.header \in {"Authorization", "X-API-Token"} \cup ApiHeaders
                                       THEN [Status(200) EXCEPT !.identity = c] ELSE Status(401)
          [] r.path = "fail-step"   -> Status(500)
          [] r.path = "redirect"    -> Status(302)
          [] OTHER                  -> Status(200)

Answered(r) ==
    [r EXCEPT !.phase = "answered", !.answer = AnswerTo(r)]

\* mux.ServeHTTP: an endpoint that answers at once, waits for the caller's
\* context, drops the connection, or sleeps first
Handle(i) ==
    /\ requests[i].phase = "admitted"
    /\ requests' = [requests EXCEPT ![i] =
           CASE @.path = "hang"  -> [@ EXCEPT !.phase = "hanging"]
             [] @.path = "drop"  -> Over(@)
             [] @.path = "delay" -> [@ EXCEPT !.phase = "sleeping", !.wake = now + Delay]
             [] OTHER -> Answered(@)]
    /\ UNCHANGED <<setup, limiterVars, recorded, jars, sessions>>

\* r.Context().Done(): the caller's connection is closed.
HangEnds_WrongSignal(i) ==
    /\ requests[i].phase = "hanging" /\ ~requests[i].gone
    /\ requests' = [requests EXCEPT ![i] = Over(@)]
    /\ UNCHANGED <<setup, limiterVars, recorded, jars, sessions>>
HangEnds(i) ==
    /\ requests[i].phase = "hanging" /\ requests[i].gone
    /\ requests' = [requests EXCEPT ![i] = Over(@)]
    /\ UNCHANGED <<setup, limiterVars, recorded, jars, sessions>>

Wake(i) ==
    /\ requests[i].phase = "sleeping" /\ now >= requests[i].wake
    /\ requests' = [requests EXCEPT ![i] = Answered(@)]
    /\ UNCHANGED <<setup, limiterVars, recorded, jars, sessions>>

\* An answer that nobody waits for is dropped.
Discard(i) ==
    /\ requests[i].phase = "answered" /\ requests[i].gone
    /\ requests' = [requests EXCEPT ![i] = Over(@)]
    /\ UNCHANGED <<setup, limiterVars, recorded, jars, sessions>>

\* The clock stops at the bound, but not under a sleeping handler.
Tick ==
    /\ now < setup.horizon \/ \E i \in DOMAIN requests : now < requests[i].wake
    /\ now' = now + 1
    /\ UNCHANGED <<setup, count, resetAt, admits, recorded, requests, jars, sessions>>

-----------------------------------------------------------------------------
TargetStep(i) == Record(i) \/ Check(i) \/ Handle(i) \/ HangEnds(i) \/ Wake(i) \/ Discard(i)

Next ==
    \/ \E u \in UserIds : ExecuteRequest(u)
    \/ \E i \in DOMAIN requests : GiveUp(i) \/ Receive(i) \/ TargetStep(i)
    \/ Tick

Spec == Init /\ [][Next]_vars

\* Handlers run, answers are read, deadlines pass and so does time; nobody has
\* to make a request.
Fairness ==
    /\ WF_vars(Tick)
    /\ \A i \in 1..MaxCalls :
          /\ WF_vars(i \in DOMAIN requests /\ TargetStep(i))
          /\ WF_vars(i \in DOMAIN requests /\ Receive(i))
          /\ WF_vars(i \in DOMAIN requests /\ GiveUp(i))

FairSpec == Spec /\ Fairness

-----------------------------------------------------------------------------
(* Properties                                                               *)

\* Whatever the interleaving and however late a request comes, the limiter
\* (ratelimit.go:70) admits at most Limit requests per window, and since a
\* window starts with the first request after the previous one, never more
\* than twice Limit within any span of one window.
WindowNeverOversold ==
    /\ count <= Limit
    /\ \A i, j \in DOMAIN admits :
          /\ j - i >= 2 * Limit => admits[j] - admits[i] > Window
          /\ j - i >= Limit => admits[j] > admits[i]

Seen(r) == r.phase = "answered" /\ r.verdict # NoVerdict
Refused(r) == r.answer.status = 429

\* What the executor reads from the headers is what the limiter decided about
\* this very request (ratelimit.go:103, executor/ratelimit.go:37), in each
\* style: the counts are exact; a number of seconds covers the rest of the
\* window and less than a second more; a date is the second in which the
\* window ends; a refusal always says when to come back.
HeadersTellTheVerdict ==
    \A i \in DOMAIN requests :
        Seen(requests[i]) =>
            LET r == requests[i]
                info == ExtractRateLimitInfo(r.headers)
                Covers(s) == /\ r.verdict.at + s * Second >= r.verdict.reset
                             /\ r.verdict.at + s * Second < r.verdict.reset + Second
                EndsIn(s) == s * Second <= r.verdict.reset /\ r.verdict.reset < (s + 1) * Second
            IN  /\ info.limit # Nil => info.limit = Limit
                /\ info.remaining # Nil => info.remaining = Limit - r.verdict.used
                /\ \A s \in {info.retrySeconds, info.resetSeconds} \ {Nil} : Covers(s)
                /\ \A s \in {info.retryDate, info.resetDate} \ {Nil} : EndsIn(s)
                /\ Refused(r) => /\ r.verdict.used = Limit
                                 /\ {info.retrySeconds, info.retryDate} # {Nil}

\* Virtual users do not share a session or a token by accident (jar.go:53,
\* provider.go:57): what the target sees of a user is its own jar, which holds
\* what its own answers left, also when answers of abandoned requests are
\* lost; and two users bring the same token if they are a multiple of the
\* pool's size apart and, unless the pool has a token twice, only then.
IdentityIsOwn ==
    /\ \A i \in DOMAIN requests : requests[i].cookies = requests[i].own
    /\ \A i, j \in DOMAIN requests :
          LET a == requests[i].answer.identity
              b == requests[j].answer.identity
          IN  a # NoCredential /\ b # NoCredential /\ setup.auth.type = "token_pool" =>
                 LET apart == \E k \in -setup.users..setup.users :
                                  requests[i].user - requests[j].user = k * Len(setup.auth.tokens)
                 IN  (apart => a = b) /\ (a = b /\ IsInjective(setup.auth.tokens) => apart)

\* Every call returns to its user, and its handler ends, whatever the endpoint
\* does (handler.go:49): also one that hangs, drops or answers too late.
CallEnds == \A i \in 1..MaxCalls :
    i \in DOMAIN requests ~> i \in DOMAIN requests /\ requests[i].phase = "done"

=============================================================================
