---------------------------- MODULE RequestAttempt ----------------------------
(***************************************************************************)
(* One worker or virtual user sending requests: ExecuteRequest             *)
(* (internal/executor/executor.go) for a plan with a single request,       *)
(* ExecuteStep (internal/scenario/executor.go) for a scenario, with        *)
(* redirects, the reading of the body, the classification, the variables   *)
(* of the virtual user and the failure policies of ExecuteIteration.       *)
(* The target, the network, the caller's cancellation and the request's    *)
(* deadline act at any time.                                               *)
(***************************************************************************)
EXTENDS Integers, Sequences, FiniteSets, Outcome

CONSTANTS
    Hosts,            \* origins a URL or a redirect may name
    AllowedHosts,     \* those that safety.allowed_hosts admits
    Vars,             \* scenario variables
    Plans,            \* the plans to consider, see PlansAssumption
    Statuses,         \* the final statuses a target may answer with
    Lengths,          \* of the bodies a target may answer with
    BodyLimit,        \* the limit on what is kept of a body
    MaxRedirectHops,  \* 10 in the code
    MaxAttempts       \* bound on the requests begun

Policies  == {"none", "same-origin", "all"}
OnFailure == {"stop", "continue", "abort_vu"}

NoHost == "no host"   \* http:///path passes the validation and the preflight

\* path and body are the variables in the URL and in the body of a step, extract
\* lists the variables it sets in the order of ExtractAll.  The host may come from
\* a variable too: the preflight cannot parse such a URL, ExecuteStep can
\* (allowedhost_test.go runs one).
Steps ==
    [host : Hosts \cup Vars \cup {NoHost}, path : SUBSET Vars, body : SUBSET Vars, extract : Seq(Vars),
     policy : Policies, expected : SUBSET Statuses, onFailure : OnFailure]

\* The preflight has admitted every host that a URL names.  A plan without
\* scenario is one step without variables.
ASSUME PlansAssumption ==
    /\ AllowedHosts \subseteq Hosts /\ Hosts \cap Vars = {} /\ NoHost \notin Hosts \cup Vars
    /\ Statuses \subseteq Nat /\ Lengths \subseteq Nat /\ BodyLimit \in Nat \ {0}
    /\ MaxRedirectHops \in Nat \ {0} /\ MaxAttempts \in Nat
    /\ \A p \in Plans :
           /\ p.steps \in Seq(Steps) \ {<<>>}
           /\ \A i \in DOMAIN p.steps : p.steps[i].host \notin Hosts \ AllowedHosts
           /\ ~p.scenario => LET s == p.steps[1]
                             IN  /\ Len(p.steps) = 1 /\ s.host \in Hosts
                                 /\ s.path = {} /\ s.body = {} /\ s.extract = <<>>

Unset   == "unset"
Garbage == "not in a url"   \* what url.Parse refuses anywhere in a URL
Values  == Hosts \cup {Garbage}

VARIABLES
    plan,      \* the plan, chosen initially
    canceled,  \* the caller's context
    expired,   \* the deadline of the current request
    pc,        \* where the current request is
    step, iteration, attempts,
    vars,      \* state.Variables
    route,     \* the hosts the current request was sent to, redirects included
    status,    \* of the response to the current request, 0 without one
    length,    \* of its body, once it was read without an error
    truncated, \* what ReadAndDrainResponseBody says of it
    err,       \* the error of client.Do or of the body
    result,    \* of the last request
    written    \* history: per variable, the iteration it was last extracted in

bodyVars == <<length, truncated>>
reqVars == <<route, status, bodyVars, err>>
varVars == <<vars, written>>
allVars == <<plan, canceled, expired, pc, step, iteration, attempts, varVars, reqVars, result>>

This == plan.steps[step]

NoResult == [outcome |-> "none", succeeded |-> FALSE, status |-> 0, truncated |-> FALSE]

Init ==
    /\ plan \in Plans /\ canceled = FALSE /\ expired = FALSE
    /\ pc = "next" /\ step = 1 /\ iteration = 1 /\ attempts = 0
    /\ vars = [v \in Vars |-> Unset] /\ written = [v \in Vars |-> 0]
    /\ route = <<>> /\ status = 0 /\ length = 0 /\ truncated = FALSE /\ err = NoErr
    /\ result = NoResult

-----------------------------------------------------------------------------
(* The environment                                                          *)

Cancel ==
    /\ ~canceled /\ canceled' = TRUE
    /\ UNCHANGED <<plan, expired, pc, step, iteration, attempts, varVars, reqVars, result>>

\* The request's own deadline; one without a timeout gets a default.
Expire ==
    /\ pc \in {"do", "body", "drain"} /\ ~expired /\ expired' = TRUE
    /\ UNCHANGED <<plan, canceled, pc, step, iteration, attempts, varVars, reqVars, result>>

-----------------------------------------------------------------------------
(* Building the request                                                     *)

\* ExecuteIteration looks at the context before each step.
Begin ==
    /\ pc = "next" /\ attempts < MaxAttempts
    /\ plan.scenario => ~canceled
    /\ pc' = "build" /\ attempts' = attempts + 1
    /\ UNCHANGED <<plan, canceled, expired, step, iteration, varVars, reqVars, result>>

Stop ==
    /\ pc = "next" /\ ((plan.scenario /\ canceled) \/ attempts = MaxAttempts)
    /\ pc' = "stopped"
    /\ UNCHANGED <<plan, canceled, expired, step, iteration, attempts, varVars, reqVars, result>>

\* SubstituteVariables: every variable of the URL and of the body has a value.
\* (A header that cannot be resolved is sent as it stands.)
Resolved == \A v \in This.path \cup This.body : vars[v] # Unset
Target   == IF This.host \in Vars THEN vars[This.host] ELSE This.host

\* The URL parses and validateScenarioTarget accepts its host.
Buildable_NoHostCheck == Resolved /\ \A v \in This.path : vars[v] # Garbage
Buildable == Resolved /\ (\A v \in This.path : vars[v] # Garbage) /\ Target \in AllowedHosts

\* What the caller of the attempt gets; the failure policy is applied next.
Return(outcome, succeeded, code, cut) ==
    /\ result' = [outcome |-> outcome, succeeded |-> succeeded, status |-> code, truncated |-> cut]
    /\ pc' = "returned"

BuildFails ==
    /\ pc = "build" /\ ~Buildable
    /\ Return(Classify([NoInput EXCEPT !.buildErr = TRUE, !.err = "other"]), FALSE, 0, FALSE)
    /\ UNCHANGED <<plan, canceled, expired, step, iteration, attempts, varVars, reqVars>>

Send ==
    /\ pc = "build" /\ Buildable
    /\ pc' = "do" /\ route' = <<Target>>
    /\ UNCHANGED <<plan, canceled, expired, step, iteration, attempts, varVars, status, bodyVars, err,
                   result>>

-----------------------------------------------------------------------------
(* client.Do                                                                *)

\* checkRedirect and scenarioRedirectChecker: may the request go on to host h?
RedirectAllowed(h) ==
    /\ Len(route) < MaxRedirectHops /\ This.policy # "none"
    /\ This.policy = "same-origin" => h = route[1]
    /\ This.policy = "all" \/ plan.scenario => h \in AllowedHosts

Redirect(h) ==
    /\ pc = "do" /\ RedirectAllowed(h)
    /\ route' = Append(route, h)
    /\ UNCHANGED <<plan, canceled, expired, pc, step, iteration, attempts, varVars, status, bodyVars, err,
                   result>>

\* A refused redirect is an error, except that policy none takes the 3xx
\* response as the answer; the limit on hops is checked before the policy.
RedirectRefused(h) ==
    /\ pc = "do" /\ ~RedirectAllowed(h)
    /\ IF This.policy = "none" /\ Len(route) < MaxRedirectHops
       THEN pc' = "body" /\ status' = 302 /\ UNCHANGED err
       ELSE pc' = "failed" /\ err' = "other" /\ UNCHANGED status
    /\ UNCHANGED <<plan, canceled, expired, step, iteration, attempts, varVars, route, bodyVars, result>>

Answer(s) ==
    /\ pc = "do"
    /\ pc' = "body" /\ status' = s
    /\ UNCHANGED <<plan, canceled, expired, step, iteration, attempts, varVars, route, bodyVars, err,
                   result>>

\* The errors client.Do may return now; os.ErrClosed is not one of them, as no
\* connection or body of this client is a file.
DoErrors ==
    (ErrorKinds \ {"deadline", "canceled", "closed"}) \cup
        (IF expired THEN {"deadline"} ELSE {}) \cup (IF canceled THEN {"canceled"} ELSE {})

DoFails(kind) ==
    /\ pc = "do" /\ kind \in DoErrors
    /\ pc' = "failed" /\ err' = kind
    /\ UNCHANGED <<plan, canceled, expired, step, iteration, attempts, varVars, route, status, bodyVars,
                   result>>

\* The caller's context is looked at only after client.Do has returned.
WasCanceled_AnyContext == canceled \/ expired
WasCanceled == canceled

ClassifyFailure(redacted) ==
    /\ pc = "failed"
    /\ Return(Classify([NoInput EXCEPT !.err = err, !.redacted = redacted, !.canceled = WasCanceled]),
              FALSE, 0, FALSE)
    /\ UNCHANGED <<plan, canceled, expired, step, iteration, attempts, varVars, reqVars>>

-----------------------------------------------------------------------------
(* ReadAndDrainResponseBody, and what follows without a further wait        *)

\* The deadline, the cancellation or the connection ends the reading within the
\* limit, or at the byte after it, which may have come with the error.
ReadFails_NoContext(cut) ==
    /\ pc = "body" /\ ~expired /\ ~canceled
    /\ pc' = "read" /\ err' = "other" /\ truncated' = cut
    /\ UNCHANGED <<plan, canceled, expired, step, iteration, attempts, varVars, route, status, length, result>>
ReadFails(cut) ==
    /\ pc = "body"
    /\ pc' = "read" /\ err' = "other" /\ truncated' = cut
    /\ UNCHANGED <<plan, canceled, expired, step, iteration, attempts, varVars, route, status, length, result>>

\* What fits the limit is kept; when the limit is reached, one more byte is
\* asked for, and only if it comes the body is truncated and drained.
ReadBody_NoProbe(l) ==
    /\ pc = "body"
    /\ LET n == IF l < BodyLimit THEN l ELSE BodyLimit
       IN  truncated' = (n = BodyLimit)
    /\ length' = l /\ pc' = IF truncated' THEN "drain" ELSE "read"
    /\ UNCHANGED <<plan, canceled, expired, step, iteration, attempts, varVars, route, status, err, result>>
ReadBody(l) ==
    /\ pc = "body"
    /\ LET n == IF l < BodyLimit THEN l ELSE BodyLimit
       IN  truncated' = (n = BodyLimit /\ l > n)
    /\ length' = l /\ pc' = IF truncated' THEN "drain" ELSE "read"
    /\ UNCHANGED <<plan, canceled, expired, step, iteration, attempts, varVars, route, status, err, result>>

\* An error of the draining is ignored.
DrainEnds ==
    /\ pc = "drain" /\ pc' = "read"
    /\ UNCHANGED <<plan, canceled, expired, step, iteration, attempts, varVars, reqVars, result>>

StatusInput_NoBodyErr == [NoInput EXCEPT !.status = status, !.expected = This.expected]
StatusInput ==
    [NoInput EXCEPT !.status = status, !.expected = This.expected, !.bodyErr = err # NoErr, !.err = err]

\* ExtractAll stops at the first rule that fails: does it succeed, if n rules do?
ExtractAll_SwallowsError(rules, n) == TRUE
ExtractAll(rules, n) == n = Len(rules)

\* The response is classified.  Of a successful one the first n rules find a
\* value, in its headers or in what was kept of its body, and the next one none.
ClassifyResponse(n) ==
    /\ pc = "read"
    /\ LET outcome == Classify(StatusInput)
           rules   == IF outcome = "success" THEN This.extract ELSE <<>>
           set     == {rules[i] : i \in 1..n}
       IN  /\ n \in 0..Len(rules)
           /\ \E found \in [set -> Values] :
                  vars' = [v \in Vars |-> IF v \in set THEN found[v] ELSE vars[v]]
           /\ written' = [v \in Vars |-> IF v \in set THEN iteration ELSE written[v]]
           /\ IF ExtractAll(rules, n)
              THEN Return(outcome, outcome = "success", status, truncated)
              ELSE Return("unexpected_status", FALSE, status, truncated)
    /\ UNCHANGED <<plan, canceled, expired, step, iteration, attempts, reqVars>>

ResponseClassified == \E n \in 0..Cardinality(Vars) : ClassifyResponse(n)

-----------------------------------------------------------------------------
(* ExecuteIteration: what comes after a step                                *)

LastStep == step = Len(plan.steps)

NextIteration ==
    /\ step' = 1 /\ iteration' = iteration + 1 /\ pc' = "next"

\* The request is over, with its context and its response.
Continue ==
    /\ pc = "returned"
    /\ IF ~result.succeeded /\ This.onFailure = "abort_vu" /\ plan.scenario
       THEN pc' = "stopped" /\ UNCHANGED <<step, iteration>>
       ELSE IF (~result.succeeded /\ This.onFailure = "stop") \/ LastStep
       THEN NextIteration
       ELSE step' = step + 1 /\ pc' = "next" /\ UNCHANGED iteration
    /\ expired' = FALSE
    /\ route' = <<>> /\ status' = 0 /\ length' = 0 /\ truncated' = FALSE /\ err' = NoErr
    /\ UNCHANGED <<plan, canceled, attempts, varVars, result>>

Terminated == pc = "stopped" /\ UNCHANGED allVars

Next ==
    \/ Cancel \/ Expire
    \/ Begin \/ Stop \/ BuildFails \/ Send
    \/ \E h \in Hosts : Redirect(h) \/ RedirectRefused(h)
    \/ \E s \in Statuses : Answer(s)
    \/ \E k \in ErrorKinds : DoFails(k)
    \/ \E redacted \in BOOLEAN : ClassifyFailure(redacted)
    \/ \E cut \in BOOLEAN : ReadFails(cut)
    \/ \E l \in Lengths : ReadBody(l)
    \/ DrainEnds
    \/ ResponseClassified
    \/ Continue
    \/ Terminated

Spec == Init /\ [][Next]_allVars

\* The program goes on when it can and the deadline passes; the target need not
\* answer, but under a context that has ended the HTTP client returns an error.
Fairness ==
    /\ WF_allVars(Expire)
    /\ WF_allVars(Begin \/ Stop \/ BuildFails \/ Send \/ Continue)
    /\ WF_allVars(\E redacted \in BOOLEAN : ClassifyFailure(redacted))
    /\ WF_allVars(\E k \in {"deadline", "canceled"} : DoFails(k))
    /\ WF_allVars((expired \/ canceled) /\ \E cut \in BOOLEAN : ReadFails(cut))
    /\ WF_allVars((expired \/ canceled) /\ DrainEnds)
    /\ WF_allVars(ResponseClassified)

FairSpec == Spec /\ Fairness

-----------------------------------------------------------------------------
(* Properties                                                               *)

\* Type correctness: the state of ExecuteStep and ExecuteIteration has its types.
TypeOK ==
    /\ plan \in Plans /\ canceled \in BOOLEAN /\ expired \in BOOLEAN
    /\ pc \in {"next", "build", "do", "failed", "body", "drain", "read", "returned", "stopped"}
    /\ step \in 1..Len(plan.steps) /\ iteration \in Nat /\ attempts \in 0..MaxAttempts
    /\ vars \in [Vars -> Values \cup {Unset}] /\ written \in [Vars -> Nat]
    /\ route \in Seq(Hosts \cup {NoHost}) /\ status \in Nat /\ err \in ErrorKinds \cup {NoErr}
    /\ length \in Nat /\ truncated \in BOOLEAN
    /\ result \in [outcome : Outcomes \cup {"none"}, succeeded : BOOLEAN, status : Nat, truncated : BOOLEAN]

\* Whatever a response puts into a variable that a later URL is made of, and
\* wherever targets redirect, no request leaves the allowed hosts, no redirect
\* leaves the origin under same-origin or is followed under none, and one request
\* is sent on at most MaxRedirectHops times.
RouteIsAllowed ==
    pc \in {"do", "body", "drain", "read", "failed"} =>
        /\ \A i \in DOMAIN route : route[i] \in AllowedHosts
        /\ Len(route) <= MaxRedirectHops
        /\ This.policy = "none" => Len(route) = 1
        /\ This.policy = "same-origin" => \A i \in DOMAIN route : route[i] = route[1]

\* Both schedulers count a canceled result apart from the completed ones: only a
\* request whose caller was canceled is, never one that ran into its own deadline.
CanceledOnlyByCaller == result.outcome = "canceled" => canceled

\* A result is a success only for an expected status other than 429, with all of
\* the step's variables extracted from this response, whose body was read without
\* an error as far as it is kept, whenever the deadline or a cancellation struck.
\* A body beyond the limit is a success too, even if draining it fails, but the
\* result says that it was cut; one of exactly the limit is not cut.
SuccessIsEarned ==
    pc = "returned" /\ result.outcome = "success" =>
        /\ result.succeeded /\ isStatusExpected(result.status, This.expected) /\ result.status # 429
        /\ err = NoErr /\ (result.truncated <=> length > BodyLimit)
        /\ \A i \in DOMAIN This.extract : written[This.extract[i]] = iteration

\* A request that has begun ends, even if the target never answers, never stops
\* redirecting or never finishes its body.
AttemptEnds == (pc = "build") ~> (pc = "returned")

=============================================================================
