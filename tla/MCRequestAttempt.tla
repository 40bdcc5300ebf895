-------------------------- MODULE MCRequestAttempt --------------------------
(* Small instances of RequestAttempt for TLC. *)
EXTENDS RequestAttempt

Step(host, path, body, extract, policy, onFailure) ==
    [host |-> host, path |-> path, body |-> body, extract |-> extract, policy |-> policy,
     expected |-> {200, 429}, onFailure |-> onFailure]

\* A login that extracts an id and a token, which the next step sends, to an
\* allowed host, to none or to one named by the id; and a plan without scenario, under each policy.
Login(policy, host, onFailure) ==
    [scenario |-> TRUE,
     steps |-> << Step("api", {}, {}, <<"id", "token">>, policy, onFailure),
                  Step(host, {"id"}, {"token"}, <<>>, "same-origin", "stop") >>]

MCPlans ==
    {Login("all", "cdn", "continue"), Login("none", "id", "continue"), Login("none", NoHost, "abort_vu")} \cup
    { [scenario |-> FALSE, steps |-> << Step("api", {}, {}, <<>>, policy, "stop") >>] : policy \in Policies }
=============================================================================
