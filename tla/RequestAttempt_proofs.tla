------------------------ MODULE RequestAttempt_proofs ------------------------
(***************************************************************************)
(* For any plans, hosts, statuses and bounds: no request leaves the        *)
(* allowed hosts, only the caller cancels, and a success is earned.        *)
(***************************************************************************)
EXTENDS RequestAttempt, TLAPS

\* The steps of the current request that are under way
UnderWay == pc \in {"do", "body", "drain", "read", "failed"}

\* A request under way has been sent somewhere, one that failed has its error,
\* an error that says "canceled" came from the caller's context, none is
\* os.ErrClosed, and a body read without an error is cut if it is too long.
Sent == (UnderWay => route # <<>>) /\ (pc = "failed" => err # NoErr)
CanceledErr == err \in {"canceled", "closed"} => canceled
CutIfTooLong == pc \in {"drain", "read"} /\ err = NoErr => (truncated <=> length > BodyLimit)

\* The inductive invariant: the three properties, with the types and what the
\* steps before them leave behind.
Inv ==
    /\ TypeOK /\ Sent /\ CanceledErr /\ CutIfTooLong
    /\ RouteIsAllowed /\ CanceledOnlyByCaller /\ SuccessIsEarned

-----------------------------------------------------------------------------
(* Facts about the operators                                                *)

\* outcome.go: whatever Classify is given, it answers with one of the outcomes.
LEMMA ClassifyType ==
    ASSUME NEW in
    PROVE  Classify(in) \in Outcomes
  BY DEF Classify, classifyError, Outcomes

\* outcome.go: a build or body error, or any other, is no success.
LEMMA ErrorIsNoSuccess ==
    ASSUME NEW in, in.buildErr \/ in.bodyErr \/ in.err # NoErr
    PROVE  Classify(in) # "success"
  BY DEF Classify, classifyError

\* outcome.go: a success has an expected status other than 429.
LEMMA SuccessHasStatus ==
    ASSUME NEW in, Classify(in) = "success"
    PROVE  isStatusExpected(in.status, in.expected) /\ in.status # 429 /\ in.err = NoErr
  BY DEF Classify, classifyError

\* outcome.go: "canceled" comes from the flag or from the error itself.
LEMMA CanceledHasCause ==
    ASSUME NEW in, Classify(in) = "canceled"
    PROVE  in.canceled \/ (in.err \in {"canceled", "closed"} /\ ~in.buildErr /\ ~in.bodyErr)
  BY DEF Classify, classifyError, NoErr

\* The current step is a step of the plan, whichever that is.
LEMMA ThisType ==
    ASSUME TypeOK
    PROVE  /\ This \in Steps
           /\ plan.steps \in Seq(Steps) /\ Len(plan.steps) \in Nat \ {0}
  <1>1. plan.steps \in Seq(Steps) /\ plan.steps # <<>>
    BY PlansAssumption DEF TypeOK
  <1> QED
    BY <1>1 DEF TypeOK, This
-----------------------------------------------------------------------------
(* Init and the steps                                                       *)

\* A new worker or virtual user satisfies the invariant.
LEMMA InitInv == Init => Inv
  <1> SUFFICES ASSUME Init PROVE Inv
    OBVIOUS
  <1>1. plan.steps \in Seq(Steps) /\ plan.steps # <<>>
    BY PlansAssumption DEF Init
  <1>2. Len(plan.steps) \in Nat \ {0} /\ 1 \in 1..Len(plan.steps)
    BY <1>1
  <1>3. /\ vars \in [Vars -> Values \cup {Unset}] /\ written \in [Vars -> Nat]
        /\ result \in [outcome : Outcomes \cup {"none"}, succeeded : BOOLEAN, status : Nat, truncated : BOOLEAN]
    BY DEF Init, NoResult
  <1>4. MaxAttempts \in Nat
    BY PlansAssumption
  <1>5. canceled \in BOOLEAN /\ expired \in BOOLEAN /\ truncated \in BOOLEAN
    BY Zenon DEF Init
  <1>6. TypeOK
    BY <1>2, <1>3, <1>4, <1>5 DEF Init, TypeOK
  <1> QED
    BY <1>6 DEF Init, Inv, Sent, UnderWay, CanceledErr, NoErr, NoResult, RouteIsAllowed,
                CutIfTooLong, CanceledOnlyByCaller, SuccessIsEarned

\* Return leaves a well-typed result.
LEMMA ReturnType ==
    ASSUME NEW o \in Outcomes, NEW b \in BOOLEAN, NEW c \in Nat, NEW cut \in BOOLEAN, Return(o, b, c, cut)
    PROVE  /\ result' \in [outcome : Outcomes \cup {"none"}, succeeded : BOOLEAN, status : Nat, truncated : BOOLEAN]
           /\ result'.outcome = o /\ result'.succeeded = b /\ result'.status = c /\ result'.truncated = cut
           /\ pc' = "returned"
  BY DEF Return

\* The environment ends a context; nothing else changes.
LEMMA EnvironmentInv ==
    ASSUME Inv, Cancel \/ Expire
    PROVE  Inv'
  <1>1. TypeOK'
    BY DEF Inv, Cancel, Expire, varVars, reqVars, bodyVars, TypeOK
  <1>2. Sent' /\ CanceledErr' /\ CutIfTooLong' /\ CanceledOnlyByCaller'
    BY DEF Inv, Cancel, Expire, varVars, reqVars, bodyVars, Sent, UnderWay, CanceledErr, CutIfTooLong,
           CanceledOnlyByCaller
  <1>3. RouteIsAllowed'
    BY DEF Inv, Cancel, Expire, reqVars, RouteIsAllowed, This
  <1>4. SuccessIsEarned'
    BY DEF Inv, Cancel, Expire, varVars, reqVars, bodyVars, SuccessIsEarned, This
  <1> QED
    BY <1>1, <1>2, <1>3, <1>4 DEF Inv

\* Begin and Stop are between requests.
LEMMA BetweenInv ==
    ASSUME Inv, Begin \/ Stop
    PROVE  Inv'
  <1>1. canceled' \in BOOLEAN /\ expired' \in BOOLEAN
    BY Zenon DEF Begin, Stop, Inv, TypeOK
  <1>2. attempts' \in 0..MaxAttempts
    BY PlansAssumption DEF Begin, Stop, Inv, TypeOK
  <1>3. pc' \in {"build", "stopped"}
    BY DEF Begin, Stop
  <1>4. TypeOK'
    BY <1>1, <1>2, <1>3 DEF Inv, Begin, Stop, varVars, reqVars, bodyVars, TypeOK
  <1> QED
    BY <1>3, <1>4 DEF Inv, Begin, Stop, varVars, reqVars, Sent, UnderWay, CanceledErr, CutIfTooLong,
         RouteIsAllowed, CanceledOnlyByCaller, SuccessIsEarned

\* Every outcome that ends a request without a success keeps the invariant.
LEMMA FailureInv ==
    ASSUME Inv, NEW in, NEW c \in Nat, NEW cut \in BOOLEAN,
           Return(Classify(in), FALSE, c, cut),
           in.buildErr \/ in.bodyErr \/ in.err # NoErr,
           in.canceled \/ in.err \in {"canceled", "closed"} => canceled,
           UNCHANGED <<plan, canceled, expired, step, iteration, attempts, varVars, reqVars>>
    PROVE  Inv'
  <1>1. Classify(in) \in Outcomes /\ Classify(in) # "success"
    BY ClassifyType, ErrorIsNoSuccess
  <1>2. Classify(in) = "canceled" => canceled
    BY CanceledHasCause
  <1>3. /\ result' \in [outcome : Outcomes \cup {"none"}, succeeded : BOOLEAN, status : Nat, truncated : BOOLEAN]
        /\ result'.outcome = Classify(in) /\ pc' = "returned"
    BY <1>1, ReturnType
  <1> QED
    BY <1>1, <1>2, <1>3 DEF Inv, varVars, reqVars, bodyVars, TypeOK, Sent, UnderWay, CanceledErr,
         CutIfTooLong, RouteIsAllowed, CanceledOnlyByCaller, SuccessIsEarned, This

\* An unresolved variable, an unparsable URL or a refused host: nothing is sent.
LEMMA BuildFailsInv ==
    ASSUME Inv, BuildFails
    PROVE  Inv'
  <1> DEFINE in == [NoInput EXCEPT !.buildErr = TRUE, !.err = "other"]
  <1>1. in.buildErr /\ ~in.canceled /\ in.err = "other"
    BY DEF NoInput
  <1>2. Return(Classify(in), FALSE, 0, FALSE)
    BY DEF BuildFails
  <1>3. UNCHANGED <<plan, canceled, expired, step, iteration, attempts, varVars, reqVars>>
    BY DEF BuildFails
  <1> HIDE DEF in
  <1> QED
    BY <1>1, <1>2, <1>3, FailureInv

\* The error of client.Do is classified with the caller's context.
LEMMA ClassifyFailureInv ==
    ASSUME Inv, NEW redacted \in BOOLEAN, ClassifyFailure(redacted)
    PROVE  Inv'
  <1> DEFINE in == [NoInput EXCEPT !.err = err, !.redacted = redacted, !.canceled = WasCanceled]
  <1>1. in.err = err /\ in.canceled = canceled
    BY DEF NoInput, WasCanceled
  <1>2. Return(Classify(in), FALSE, 0, FALSE)
    BY DEF ClassifyFailure
  <1>3. UNCHANGED <<plan, canceled, expired, step, iteration, attempts, varVars, reqVars>>
    BY DEF ClassifyFailure
  <1>4. err # NoErr /\ (err \in {"canceled", "closed"} => canceled)
    BY DEF Inv, Sent, CanceledErr, ClassifyFailure
  <1> HIDE DEF in
  <1> QED
    BY <1>1, <1>2, <1>3, <1>4, FailureInv

\* The reading of the body, by the limit, with the byte beyond it, and the
\* draining: what was read without an error is cut exactly if it was too long.
LEMMA ReadingInv ==
    ASSUME Inv, (\E cut \in BOOLEAN : ReadFails(cut)) \/ (\E l \in Lengths : ReadBody(l)) \/ DrainEnds
    PROVE  Inv'
  <1>1. /\ pc \in {"body", "drain"} /\ pc' \in {"drain", "read"}
        /\ UNCHANGED <<plan, canceled, expired, step, iteration, attempts, vars, written, route, status, result>>
    BY DEF ReadFails, ReadBody, DrainEnds, varVars, reqVars
  <1>2. err' \in ErrorKinds \cup {NoErr} /\ CanceledErr' /\ length' \in Nat
    BY PlansAssumption
    DEF Inv, TypeOK, CanceledErr, ReadFails, ReadBody, DrainEnds, reqVars, bodyVars, ErrorKinds, NoErr
  <1>3. truncated' \in BOOLEAN /\ CutIfTooLong'
    <2>1. ASSUME NEW cut \in BOOLEAN, ReadFails(cut) PROVE truncated' \in BOOLEAN /\ CutIfTooLong'
      BY <2>1 DEF ReadFails, CutIfTooLong, NoErr
    <2>2. ASSUME NEW l \in Lengths, ReadBody(l) PROVE truncated' \in BOOLEAN /\ CutIfTooLong'
      <3> DEFINE n   == IF l < BodyLimit THEN l ELSE BodyLimit
                 cut == n = BodyLimit /\ l > n
      <3>1. cut <=> l > BodyLimit
        BY PlansAssumption
      <3>2. truncated' = cut /\ length' = l
        BY <2>2, Zenon DEF ReadBody
      <3>3. cut \in BOOLEAN
        OBVIOUS
      <3> HIDE DEF cut
      <3> QED
        BY <3>1, <3>2, <3>3 DEF CutIfTooLong
    <2>3. CASE DrainEnds
      BY <2>3 DEF DrainEnds, reqVars, bodyVars, Inv, TypeOK, CutIfTooLong
    <2> QED
      BY <2>1, <2>2, <2>3
  <1>4. TypeOK'
    BY <1>1, <1>2, <1>3 DEF Inv, TypeOK
  <1>5. RouteIsAllowed' /\ Sent'
    BY <1>1 DEF Inv, RouteIsAllowed, Sent, UnderWay, This
  <1> QED
    BY <1>1, <1>2, <1>3, <1>4, <1>5 DEF Inv, CanceledOnlyByCaller, SuccessIsEarned

\* Send: the only way to client.Do is through Buildable.
LEMMA SendInv ==
    ASSUME Inv, Send
    PROVE  Inv'
  <1>1. Target \in AllowedHosts /\ Target \in Hosts
    BY PlansAssumption DEF Send, Buildable
  <1>2. /\ pc' = "do" /\ route' = <<Target>>
        /\ UNCHANGED <<plan, canceled, expired, step, iteration, attempts, vars, written, status, length,
                       truncated, err, result>>
    BY DEF Send, varVars, bodyVars
  <1>3. TypeOK'
    BY <1>1, <1>2 DEF Inv, TypeOK
  <1>4. RouteIsAllowed'
    BY <1>1, <1>2, PlansAssumption DEF RouteIsAllowed
  <1> QED
    BY <1>2, <1>3, <1>4 DEF Inv, Sent, CanceledErr, CutIfTooLong, CanceledOnlyByCaller, SuccessIsEarned

\* Redirect: the new hop is allowed, within the limit, and the first host again
\* under same-origin; none admits no hop.
LEMMA RedirectInv ==
    ASSUME Inv, NEW h \in Hosts, Redirect(h)
    PROVE  Inv'
  <1>1. /\ pc = "do" /\ pc' = "do" /\ route' = Append(route, h) /\ RedirectAllowed(h)
        /\ UNCHANGED <<plan, canceled, expired, step, iteration, attempts, vars, written, status, length,
                       truncated, err, result>>
    BY DEF Redirect, varVars, bodyVars
  <1>2. route \in Seq(Hosts \cup {NoHost}) /\ route # <<>>
    BY <1>1 DEF Inv, TypeOK, Sent, UnderWay
  <1>3. route[1] \in AllowedHosts
    BY <1>1, <1>2 DEF Inv, RouteIsAllowed
  <1>4. /\ This.policy \in {"same-origin", "all"} /\ h \in AllowedHosts /\ Len(route) < MaxRedirectHops
        /\ This.policy = "same-origin" => h = route[1]
    <2>1. This.policy \in Policies
      BY ThisType DEF Inv, Steps
    <2> QED
      BY <1>1, <1>3, <2>1 DEF RedirectAllowed, Policies
  <1>5. /\ Len(route') = Len(route) + 1 /\ route'[1] = route[1] /\ route' # <<>>
        /\ \A i \in DOMAIN route' : route'[i] = h \/ (i \in DOMAIN route /\ route'[i] = route[i])
    BY <1>1, <1>2
  <1>6. TypeOK'
    BY <1>1, <1>2 DEF Inv, TypeOK
  <1>7. RouteIsAllowed'
    BY <1>1, <1>2, <1>4, <1>5, PlansAssumption DEF Inv, RouteIsAllowed, This
  <1> QED
    BY <1>1, <1>5, <1>6, <1>7 DEF Inv, Sent, CanceledErr, CutIfTooLong, CanceledOnlyByCaller, SuccessIsEarned

\* The rest of client.Do leaves the route alone.
LEMMA DoReturnsInv ==
    ASSUME Inv,
           \/ \E h \in Hosts : RedirectRefused(h)
           \/ \E s \in Statuses : Answer(s)
           \/ \E k \in ErrorKinds : DoFails(k)
    PROVE  Inv'
  <1>1. /\ pc = "do" /\ pc' \in {"body", "failed"}
        /\ UNCHANGED <<plan, canceled, expired, step, iteration, attempts, vars, written, route, length,
                       truncated, result>>
    BY DEF RedirectRefused, Answer, DoFails, varVars, bodyVars
  <1>2. status' \in Nat
    BY PlansAssumption DEF Inv, TypeOK, RedirectRefused, Answer, DoFails
  <1>3. /\ err' \in ErrorKinds \cup {NoErr} /\ (err' \in {"canceled", "closed"} => canceled)
        /\ pc' = "failed" => err' # NoErr
    <2>1. CASE \E k \in ErrorKinds : DoFails(k)
      <3>1. PICK k \in ErrorKinds : DoFails(k)
        BY <2>1
      <3>2. err' = k /\ k # NoErr
        BY <3>1 DEF DoFails, ErrorKinds, NoErr
      <3>3. k \in {"canceled", "closed"} => canceled
        BY <3>1 DEF DoFails, DoErrors
      <3> QED
        BY <3>1, <3>2, <3>3
    <2>2. CASE \E h \in Hosts : RedirectRefused(h)
      BY <2>2 DEF Inv, TypeOK, CanceledErr, RedirectRefused, ErrorKinds, NoErr
    <2>3. CASE \E s \in Statuses : Answer(s)
      BY <2>3 DEF Inv, TypeOK, CanceledErr, Answer
    <2> QED
      BY <2>1, <2>2, <2>3
  <1>4. TypeOK'
    BY <1>1, <1>2, <1>3 DEF Inv, TypeOK
  <1>5. RouteIsAllowed'
    BY <1>1 DEF Inv, RouteIsAllowed, This
  <1> QED
    BY <1>1, <1>3, <1>4, <1>5 DEF Inv, Sent, UnderWay, CanceledErr, CutIfTooLong, CanceledOnlyByCaller,
         SuccessIsEarned

\* ClassifyResponse: every variable that ExtractAll sets is one of the step, and
\* a success stands on the status, the body and all of the step's rules.
LEMMA ClassifyResponseInv ==
    ASSUME Inv, NEW n \in Nat, ClassifyResponse(n)
    PROVE  Inv'
  <1> DEFINE outcome == Classify(StatusInput)
             rules   == IF outcome = "success" THEN This.extract ELSE <<>>
             set     == {rules[i] : i \in 1..n}
  <1>1. /\ pc = "read" /\ n \in 0..Len(rules)
        /\ \E found \in [set -> Values] :
               vars' = [v \in Vars |-> IF v \in set THEN found[v] ELSE vars[v]]
        /\ written' = [v \in Vars |-> IF v \in set THEN iteration ELSE written[v]]
        /\ UNCHANGED <<plan, canceled, expired, step, iteration, attempts, route, status, length, truncated, err>>
    BY DEF ClassifyResponse, reqVars, bodyVars
  <1>2. \/ n = Len(rules) /\ Return(outcome, outcome = "success", status, truncated)
        \/ Return("unexpected_status", FALSE, status, truncated)
    BY DEF ClassifyResponse, ExtractAll
  <1>3. status \in Nat /\ iteration \in Nat /\ truncated \in BOOLEAN /\ TypeOK
    BY DEF Inv, TypeOK
  <1>4. /\ outcome \in Outcomes /\ "unexpected_status" \in Outcomes
        /\ outcome = "success" =>
              isStatusExpected(status, This.expected) /\ status # 429 /\ err = NoErr
        /\ outcome = "canceled" => canceled
    <2>1. /\ StatusInput.status = status /\ StatusInput.expected = This.expected
          /\ ~StatusInput.canceled /\ StatusInput.err = err
      BY DEF StatusInput, NoInput
    <2>2. outcome = "canceled" => canceled
      BY <2>1, CanceledHasCause DEF Inv, CanceledErr
    <2> QED
      BY <2>1, <2>2, ClassifyType, SuccessHasStatus DEF Outcomes
  <1> HIDE DEF outcome
  <1>5. /\ result' \in [outcome : Outcomes \cup {"none"}, succeeded : BOOLEAN, status : Nat, truncated : BOOLEAN]
        /\ pc' = "returned" /\ result'.status = status /\ result'.truncated = truncated
        /\ result'.outcome = "canceled" => canceled
        /\ result'.outcome = "success" => outcome = "success" /\ result'.succeeded /\ n = Len(rules)
    <2> DEFINE Good(o, b) ==
            /\ result' \in [outcome : Outcomes \cup {"none"}, succeeded : BOOLEAN, status : Nat, truncated : BOOLEAN]
            /\ result'.outcome = o /\ result'.succeeded = b /\ result'.status = status
            /\ result'.truncated = truncated /\ pc' = "returned"
    <2>1. ASSUME NEW o \in Outcomes, NEW b \in BOOLEAN, Return(o, b, status, truncated) PROVE Good(o, b)
      BY <2>1, <1>3, ReturnType
    <2>2. CASE Return("unexpected_status", FALSE, status, truncated)
      <3> HIDE DEF rules, set
      <3>1. Good("unexpected_status", FALSE)
        BY <2>1, <2>2, <1>4
      <3> QED
        BY <3>1
    <2>3. CASE n = Len(rules) /\ Return(outcome, outcome = "success", status, truncated)
      <3> HIDE DEF rules
      <3>1. (outcome = "success") \in BOOLEAN
        OBVIOUS
      <3>2. Good(outcome, outcome = "success")
        BY <2>1, <2>3, <1>4, <3>1
      <3> QED
        BY <2>3, <3>2, <1>4
    <2> QED
      BY <1>2, <2>2, <2>3
  <1>6. This.extract \in Seq(Vars) /\ This' = This
    BY <1>1, <1>3, ThisType DEF Steps, This
  <1>7. vars' \in [Vars -> Values \cup {Unset}] /\ written' \in [Vars -> Nat]
    <2> HIDE DEF set
    <2> QED BY <1>1, <1>3 DEF TypeOK
  <1>8. TypeOK'
    BY <1>1, <1>3, <1>5, <1>7 DEF TypeOK
  <1>9. SuccessIsEarned'
    <2> SUFFICES ASSUME result'.outcome = "success"
                 PROVE  /\ result'.succeeded /\ isStatusExpected(status, This.expected) /\ status # 429
                        /\ err = NoErr /\ (truncated <=> length > BodyLimit)
                        /\ \A i \in DOMAIN This.extract : written'[This.extract[i]] = iteration
      <3> HIDE DEF rules, set
      <3> QED BY <1>1, <1>5, <1>6 DEF SuccessIsEarned
    <2>1. err = NoErr /\ (truncated <=> length > BodyLimit)
      BY <1>1, <1>4, <1>5 DEF Inv, CutIfTooLong
    <2>2. ASSUME NEW i \in DOMAIN This.extract PROVE written'[This.extract[i]] = iteration
      <3>1. rules = This.extract /\ n = Len(This.extract) /\ i \in 1..n /\ This.extract[i] \in Vars
        BY <1>5, <1>6
      <3>2. This.extract[i] \in set
        BY <3>1
      <3> QED
        BY <1>1, <3>1, <3>2
    <2> QED
      BY <1>4, <1>5, <2>1, <2>2
  <1> QED
    BY <1>1, <1>5, <1>8, <1>9
    DEF Inv, Sent, UnderWay, CanceledErr, CutIfTooLong, RouteIsAllowed, CanceledOnlyByCaller

\* Continue moves to a step of the plan, or stops; the request is over.
LEMMA ContinueInv ==
    ASSUME Inv, Continue
    PROVE  Inv'
  <1>1. Len(plan.steps) \in Nat \ {0}
    BY ThisType DEF Inv
  <1>2. step' \in 1..Len(plan.steps) /\ iteration' \in Nat
    BY <1>1 DEF Inv, TypeOK, Continue, NextIteration, LastStep
  <1>3. pc' \in {"next", "stopped"}
    BY DEF Continue, NextIteration
  <1>4. expired' \in BOOLEAN /\ truncated' \in BOOLEAN
    BY Zenon DEF Continue
  <1>5. TypeOK'
    BY <1>2, <1>3, <1>4 DEF Inv, TypeOK, Continue, varVars
  <1> QED
    BY <1>3, <1>5 DEF Inv, Continue, Sent, UnderWay, CanceledErr, CutIfTooLong, RouteIsAllowed,
                      CanceledOnlyByCaller, SuccessIsEarned, NoErr

\* Every step of the attempt keeps the invariant.
LEMMA NextInv ==
    ASSUME Inv, [Next]_allVars
    PROVE  Inv'
  <1>1. CASE ResponseClassified
    <2>1. PICK n \in 0..Cardinality(Vars) : ClassifyResponse(n)
      BY <1>1 DEF ResponseClassified
    <2>2. n \in Nat
      BY <2>1 DEF ClassifyResponse
    <2> QED
      BY <2>1, <2>2, ClassifyResponseInv
  <1>2. CASE UNCHANGED allVars
    BY <1>2 DEF allVars, varVars, reqVars, bodyVars, Inv, TypeOK, Sent, UnderWay, CanceledErr, CutIfTooLong,
                RouteIsAllowed, CanceledOnlyByCaller, SuccessIsEarned, This
  <1> QED
    BY <1>1, <1>2, EnvironmentInv, BetweenInv, BuildFailsInv, SendInv, RedirectInv, DoReturnsInv,
       ClassifyFailureInv, ReadingInv, ContinueInv DEF Next, Terminated

-----------------------------------------------------------------------------
(* The theorems                                                             *)

\* The invariant holds in every state of every run.
LEMMA Invariance == Spec => []Inv
  BY InitInv, NextInv, PTL DEF Spec

\* executor.go (checkRedirect) and scenario/executor.go (validateScenarioTarget,
\* scenarioRedirectChecker): no request leaves the allowed hosts, its origin under
\* same-origin, or the limit on hops.
THEOREM RouteStaysAllowed == Spec => []RouteIsAllowed
  <1>1. Inv => RouteIsAllowed
    BY DEF Inv
  <1> QED
    BY <1>1, Invariance, PTL

\* outcome.go: only the caller's context makes a result "canceled".
THEOREM OnlyTheCallerCancels == Spec => []CanceledOnlyByCaller
  <1>1. Inv => CanceledOnlyByCaller
    BY DEF Inv
  <1> QED
    BY <1>1, Invariance, PTL

\* outcome.go, response.go and extract.go: a success has an expected status, not
\* 429, a body read without an error that is cut only if it was too long, and all
\* of its variables.
THEOREM SuccessIsAlwaysEarned == Spec => []SuccessIsEarned
  <1>1. Inv => SuccessIsEarned
    BY DEF Inv
  <1> QED
    BY <1>1, Invariance, PTL

=============================================================================
